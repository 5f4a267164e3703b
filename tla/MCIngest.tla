------------------------------ MODULE MCIngest ------------------------------
(* Ingest for TLC: a first configuration, one that revokes the sender's     *)
(* authority, hands its destination to another adapter and routes by        *)
(* principal, and two that are refused; and a file in the old vocabulary.   *)
(* The replay window of the store, module Dedupe, is explored beside it: it *)
(* shares no variable with the ingest, so either moves while the other is   *)
(* as it began, and the states add up instead of multiplying.               *)
EXTENDS Ingest, Dedupe

CONSTANTS s1, s2, d1, d2, p1, p2, v1, e1, e2, x, y, r1, r2, r3, t1, t2

By(a, b) == (s1 :> a) @@ (s2 :> b)
Dest(a, p) == [adapter |-> a, principal |-> p]
MCRoute(s, p, D) == [sender |-> s, principal |-> p, dests |-> D]

FirstC ==
    [sources |-> {s1}, uris |-> By(<<v1>>, <<>>), idents |-> By({}, {}),
     targets |-> By({p1}, {}), channels |-> {p1},
     dests |-> (d1 :> Dest("claude", p1)) @@ (d2 :> Dest(None, p2)),
     routes |-> {MCRoute(s1, None, {d1, d2})}]
Revoked ==
    [FirstC EXCEPT !.sources = {s1, s2}, !.uris = By(<<e1, v1>>, <<e1>>), !.targets = By({}, {p1}),
                   !.idents = By({}, {p2}),
                   !.dests = (d1 :> Dest("opencode", p1)) @@ (d2 :> Dest(None, p2)),
                   !.routes = {MCRoute(AnySender, p2, {}), MCRoute(s1, None, {d1, d2})}]
Legacy ==
    [sources |-> {s1, s2}, uris |-> By(<<e1, v1>>, <<e1>>), idents |-> By({}, {}),
     targets |-> By({}, {p1}), channels |-> {p1},
     adapterOf |-> By("claude", None), principalOf |-> By(p1, None)]
Unreadable == [FirstC EXCEPT !.uris = By(<<e2>>, <<>>)]
Empty == [FirstC EXCEPT !.sources = {}]
MCConfigs == {FirstC, Revoked, Unreadable, Empty}

From(s, ident, id, target, dest) ==
    [src |-> s, peer |-> "127.0.0.1", ident |-> ident, id |-> id,
     target |-> target, dest |-> dest, principal |-> None]
MCReq ==
    (r1 :> From(s1, None, x, p1, None))
      @@ (r2 :> From(s1, None, x, None, d1))
      @@ (r3 :> [From(s2, p2, y, None, None) EXCEPT !.principal = p2])
MCAdapter == (t1 :> "claude") @@ (t2 :> "opencode")
MCClaims == (t1 :> {d1}) @@ (t2 :> {d2})

\* With a store or without.
WindowsInit == Init /\ DedupeInit
WindowsNext ==
    \/ DedupeInit /\ Next /\ UNCHANGED dedupeVars
    \/ Init /\ DedupeNext /\ UNCHANGED vars
WindowsSpec == WindowsInit /\ [][WindowsNext]_<<vars, dedupeVars>>

\* The migration of the old vocabulary, evaluated once.
ASSUME Migration == MigrationMintsNothing(Legacy)
=============================================================================

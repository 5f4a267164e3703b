----------------------------- MODULE Addressing -----------------------------
(***************************************************************************)
(* Who may reach whom in agent-waked: daemon/src/agent_waked/addressing.py *)
(* and the part of router.py that applies it to a hello.  Constant         *)
(* operators over a loaded configuration c, a record of                    *)
(*   sources   names of the senders;                                       *)
(*   uris      per sender: its secret_uris, in order;                      *)
(*   idents    per sender: allowed_trigger_identities (empty: anyone);     *)
(*   targets   per sender: allowed_target_principals (empty: no one);      *)
(*   channels  principals that have out-of-band delivery channels;         *)
(*   dests     destinations by name: [adapter, principal];                 *)
(*   routes    the routes: [sender, principal, dests], dests set of names. *)
(* The order of the file decides the order of a fan-out alone and is left  *)
(* out; so are the listen address and socket path, which a reload keeps.   *)
(***************************************************************************)
EXTENDS Integers

CONSTANTS None, AnySender      \* AnySender: a route's sender "*"

\* destination_table.
DestinationNames(c) == DOMAIN c.dests
Destination(c, n) == c.dests[n]
AcceptsAdapter(d, adapter) == d.adapter = None \/ d.adapter = adapter

\* _expand: the destinations a route names, or all those of its principal.
Expand(c, r) ==
    {n \in DestinationNames(c) :
        \/ n \in r.dests
        \/ r.dests = {} /\ r.principal # None /\ Destination(c, n).principal = r.principal}

\* Mutant: a route for everyone is nobody's.
AppliesToNamed(r, s) == r.sender = s
Applies(r, s) == r.sender \in {s, AnySender}

\* routed_destinations: over all routes of the sender.
RoutedDestinations(c, s) == UNION {Expand(c, r) : r \in {r \in c.routes : Applies(r, s)}}

Refused(code) == [ok |-> FALSE, code |-> code, dests |-> {}]
Resolved(D) == [ok |-> TRUE, code |-> None, dests |-> D]

\* resolve: meta.destination and meta.principal narrow the routed set, and a
\* narrowing that leaves it is refused.
Resolve(c, s, wantDest, wantPrincipal) ==
    LET named == {n \in RoutedDestinations(c, s) : wantDest \in {None, n}}
        match == {n \in named : wantPrincipal \in {None, Destination(c, n).principal}}
    IN IF wantDest # None /\ named = {} THEN Refused("destination_not_routed")
       ELSE IF wantPrincipal # None /\ match = {} THEN Refused("principal_not_routed")
       ELSE Resolved(match)

\* out_of_band_principals, a missing declaration being no authority at all;
\* routes do not count.
OutOfBandPrincipals(c, s) == IF s \in c.sources THEN c.targets[s] ELSE {}

\* Router.destinations_for_hello.
DestinationsForHello(c, adapter, claimed) ==
    {n \in claimed \cap DestinationNames(c) : AcceptsAdapter(Destination(c, n), adapter)}

\* derive_from_legacy: every source of a file with the old vocabulary becomes
\* a destination of the same name with a route from itself.  L has the sender
\* tables, adapterOf and principalOf.
DeriveFromLegacy(L) ==
    [sources |-> L.sources, uris |-> L.uris, idents |-> L.idents,
     targets |-> L.targets, channels |-> L.channels,
     dests |-> [n \in L.sources |->
                  [adapter |-> L.adapterOf[n], principal |-> L.principalOf[n]]],
     routes |-> {[sender |-> n, principal |-> L.principalOf[n], dests |-> {n}] : n \in L.sources}]
=============================================================================

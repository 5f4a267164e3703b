------------------------------ MODULE OpenCode ------------------------------
(***************************************************************************)
(* The daemon client of the OpenCode adapter, adapters/opencode/src: the   *)
(* connection and its frames (client.ts), wakes handed to sessions         *)
(* (wake.ts), the labels wakes are addressed by (labels.ts, index.ts) and  *)
(* the reply tool (reply.ts).  The plugin is one thread; an action is what *)
(* runs between two awaits.  Frames of one connection are handled          *)
(* concurrently: a wake that waits for opencode holds up nothing.  The     *)
(* daemon's side is the little the adapter meets of it, see module Router: *)
(* the wakes are those of its queue, which it sends again on the next      *)
(* connection until they are acked; a live-only wake is sent once.         *)
(***************************************************************************)
EXTENDS Integers, Sequences, FiniteSets, SequencesExt

CONSTANTS
    Sessions, Labels,
    Wakes, Target,      \* events, and the label or session each is addressed to, or None
    Replies,            \* calls of the reply tool
    None,
    MaxConns, MaxClaims \* exploration bounds

ASSUME OpenCodeConstants ==
    /\ Target \in [Wakes -> Labels \cup Sessions \cup {None}]
    /\ None \notin Labels \cup Sessions /\ Labels \cap Sessions = {}
    /\ {MaxConns, MaxClaims} \subseteq Nat

VARIABLES
    link, conn, early,   \* client.ts: the socket; connections so far; a reply went ahead of hello
    live, ended,         \* sessions opencode has, and had since it was started
    s2l, l2s, claims,    \* sessionToLabels, labelToSessions; subscribe calls
    late,                \* history: labels claimed by a session after its deletion
    row,                 \* per wake, at the daemon: queued, sent on this connection, settled
    handlers,            \* runs of handleFrame for a wake
    pending, call,       \* ReplyResultBus.pending; the tool calls
    post, via            \* per reply: what became of it; the connection a waiting call went by

client == <<link, conn, early>>
registry == <<live, ended, s2l, l2s, claims, late>>
wakes == <<row, handlers>>
replies == <<pending, call, post, via>>
vars == <<client, registry, wakes, replies>>

\* todo: sessions whose promptAsync has not returned.
Handler == [ev : Wakes, conn : 1..MaxConns, at : {"listing", "prompting"}, todo : SUBSET Sessions]

TypeOK ==
    /\ link \in {"down", "connecting", "up"} /\ conn \in 0..MaxConns /\ early \in BOOLEAN
    /\ live \subseteq Sessions /\ ended \subseteq Sessions /\ late \subseteq Sessions \X Labels
    /\ s2l \in [Sessions -> SUBSET Labels] /\ l2s \in [Labels -> SUBSET Sessions]
    /\ claims \in 0..MaxClaims
    /\ row \in [Wakes -> {"queued", "sent", "settled"}]
    /\ handlers \subseteq Handler
    /\ pending \subseteq Replies
    /\ call \in [Replies -> {"new", "waiting", "sent", "failed"}]
    /\ post \in [Replies -> {"none", "written", "delivered", "failed", "lost"}]
    /\ via \in [Replies -> 0..MaxConns]

Init ==
    /\ link = "down" /\ conn = 0 /\ early = FALSE
    /\ live = Sessions /\ ended = {} /\ late = {}
    /\ s2l = [s \in Sessions |-> {}] /\ l2s = [l \in Labels |-> {}]
    /\ claims = 0
    /\ row = [w \in Wakes |-> "queued"] /\ handlers = {}
    /\ pending = {} /\ call = [r \in Replies |-> "new"] /\ post = [r \in Replies |-> "none"]
    /\ via = [r \in Replies |-> 0]

-----------------------------------------------------------------------------
(* client.ts: the connection *)

\* The socket is gone: what was sent on it and not acked is queued again, what
\* the daemon had not read is lost.
Gone ==
    /\ link' = "down" /\ early' = FALSE
    /\ row' = [w \in Wakes |-> IF row[w] = "sent" THEN "queued" ELSE row[w]]
    /\ post' = [r \in Replies |-> IF post[r] = "written" THEN "lost" ELSE post[r]]

\* runClient after its backoff: oneSession creates the socket, which is the
\* current one from then on.
Dial ==
    /\ link = "down" /\ conn < MaxConns
    /\ link' = "connecting" /\ conn' = conn + 1
    /\ UNCHANGED <<early, registry, wakes, replies>>

\* The daemon is not there, or goes away, or sends a fatal error.
Drop ==
    /\ link # "down" /\ Gone
    /\ UNCHANGED <<conn, registry, handlers, pending, call, via>>

\* Connected: hello is written, behind what was written before; the daemon
\* reads the first frame, and closes unless it is a hello.
Greets ==
    /\ link = "connecting"
    /\ IF early THEN Gone ELSE link' = "up" /\ UNCHANGED <<early, row, post>>
    /\ UNCHANGED <<conn, registry, handlers, pending, call, via>>

\* opencode dies, and the plugin with it: labels, handlers and tool calls.
Crash ==
    /\ Gone
    /\ s2l' = [s \in Sessions |-> {}] /\ l2s' = [l \in Labels |-> {}]
    /\ ended' = {} /\ late' = {}
    /\ handlers' = {} /\ pending' = {}
    /\ call' = [r \in Replies |-> IF call[r] = "waiting" THEN "failed" ELSE call[r]]
    /\ via' = [r \in Replies |-> 0]
    /\ UNCHANGED <<conn, live, claims>>

-----------------------------------------------------------------------------
(* labels.ts *)

\* Mutant: the other map is left alone.
DropForward(s, L) == l2s
\* unsubscribe, for the labels L that s holds.
DropBackward(s, L) == [l \in Labels |-> IF l \in L THEN l2s[l] \ {s} ELSE l2s[l]]

\* A tool call of s may run: labels.ts asks nothing of the session, and a call of
\* one that is deleted meanwhile goes on.
Calls(s) == s \in live \cup ended

\* agent_wake_subscribe (again, it changes nothing).
Subscribe(s, l) ==
    /\ Calls(s) /\ l \notin s2l[s] /\ claims < MaxClaims /\ claims' = claims + 1
    /\ s2l' = [s2l EXCEPT ![s] = @ \cup {l}] /\ l2s' = [l2s EXCEPT ![l] = @ \cup {s}]
    /\ late' = IF s \in live THEN late ELSE late \cup {<<s, l>>}
    /\ UNCHANGED <<client, live, ended, wakes, replies>>

\* agent_wake_unsubscribe, of one label or of all.
Unsubscribe(s, L) ==
    /\ Calls(s) /\ L # {} /\ (L = s2l[s] \/ Cardinality(L) = 1) /\ L \subseteq s2l[s]
    /\ s2l' = [s2l EXCEPT ![s] = @ \ L] /\ l2s' = DropBackward(s, L)
    /\ UNCHANGED <<client, live, ended, claims, late, wakes, replies>>

\* session.deleted: clearSession.
Delete(s) ==
    /\ s \in live /\ live' = live \ {s} /\ ended' = ended \cup {s}
    /\ s2l' = [s2l EXCEPT ![s] = {}] /\ l2s' = DropBackward(s, s2l[s])
    /\ UNCHANGED <<client, claims, late, wakes, replies>>

-----------------------------------------------------------------------------
(* wake.ts *)

\* Mutant: the ack goes to whatever socket is current.
SettlesOnCurrent(h) == IF link = "up" THEN [row EXCEPT ![h.ev] = "settled"] ELSE row
\* The ack, on the socket the wake came from.
Settles(h) == IF h.conn = conn /\ link = "up" THEN [row EXCEPT ![h.ev] = "settled"] ELSE row

Start(w, at, S) ==
    /\ handlers' = handlers \cup {[ev |-> w, conn |-> conn, at |-> at, todo |-> S]}
    /\ row' = [row EXCEPT ![w] = "sent"]

\* The sessions that hold the label, or the one that is named.
Aim(t) == IF t \in Sessions THEN {t} ELSE l2s[t]

\* A wake frame: to the sessions it is addressed to, none being no error, or
\* to all there are once opencode has listed them.
Wake(w) ==
    /\ link = "up" /\ row[w] = "queued"
    /\ LET t == Target[w] IN
       \/ t = None /\ Start(w, "listing", {})
       \/ t # None /\ Aim(t) # {} /\ Start(w, "prompting", Aim(t))
       \/ t # None /\ Aim(t) = {} /\ row' = [row EXCEPT ![w] = "settled"] /\ UNCHANGED handlers
    /\ UNCHANGED <<client, registry, replies>>

\* A handler that goes on with the sessions S.
GoesOn(h, S) == [ev |-> h.ev, conn |-> h.conn, at |-> "prompting", todo |-> S]

\* discoverSessions: what opencode lists, an error being an empty list.
Listed(h) ==
    /\ h.at = "listing"
    /\ \E S \in {live, {}} :
         /\ handlers' = (handlers \ {h}) \cup
                IF S = {} THEN {} ELSE {GoesOn(h, S)}
         /\ row' = IF S = {} THEN Settles(h) ELSE row
    /\ UNCHANGED <<client, registry, replies>>

\* Promise.all.
Done(todo) == todo = {}

\* One promptAsync returns, an error being logged and swallowed.  After the
\* last the wake is acked.
Prompted(h, s) ==
    /\ h.at = "prompting" /\ s \in h.todo
    /\ handlers' = (handlers \ {h}) \cup
           IF h.todo = {s} THEN {} ELSE {GoesOn(h, h.todo \ {s})}
    /\ row' = IF Done(h.todo \ {s}) THEN Settles(h) ELSE row
    /\ UNCHANGED <<client, registry, replies>>

-----------------------------------------------------------------------------
(* reply.ts *)

Return(r, result) ==
    /\ call' = [call EXCEPT ![r] = result]
    /\ pending' = pending \ {r}
    /\ via' = [via EXCEPT ![r] = 0]

\* executeReply: registered, then written to the current socket, which need
\* not have said hello yet; without a socket the call fails.
Reply(r) ==
    /\ call[r] = "new"
    /\ IF link = "down"
         THEN Return(r, "failed") /\ UNCHANGED <<early, post>>
         ELSE /\ call' = [call EXCEPT ![r] = "waiting"] /\ pending' = pending \cup {r}
              /\ post' = [post EXCEPT ![r] = "written"] /\ via' = [via EXCEPT ![r] = conn]
              /\ early' \in IF link = "connecting" THEN BOOLEAN ELSE {early}
    /\ UNCHANGED <<link, conn, registry, wakes>>

\* The daemon reads the frame, and its outbox delivers it (or has no callback
\* to deliver to), or fails.
Posts(r) ==
    /\ post[r] = "written" /\ link = "up"
    /\ post' \in {[post EXCEPT ![r] = p] : p \in {"delivered", "failed"}}
    /\ UNCHANGED <<client, registry, wakes, pending, call, via>>

Outcome(p) == IF p = "delivered" THEN "sent" ELSE "failed"

\* reply_result, on the connection that carried the reply.
Result(r) ==
    /\ post[r] \in {"delivered", "failed"} /\ link = "up" /\ via[r] = conn /\ r \in pending
    /\ Return(r, Outcome(post[r]))
    /\ UNCHANGED <<client, registry, wakes, post>>

\* Mutant: only a call whose connection is still there has a timer.
TimerIfUp(r) == r \in pending /\ link = "up" /\ via[r] = conn
\* register's setTimeout.
Timer(r) == r \in pending

\* After 35 s the promise is rejected.
TimesOut(r) ==
    /\ Timer(r) /\ Return(r, "failed")
    /\ UNCHANGED <<client, registry, wakes, post>>

Next ==
    \/ Dial \/ Drop \/ Greets \/ Crash
    \/ \E s \in Sessions : \/ Delete(s)
                          \/ \E l \in Labels : Subscribe(s, l)
                          \/ \E L \in SUBSET Labels : Unsubscribe(s, L)
    \/ \E w \in Wakes : Wake(w)
    \/ \E h \in handlers : Listed(h) \/ \E s \in h.todo : Prompted(h, s)
    \/ \E r \in Replies : Reply(r) \/ Posts(r) \/ Result(r) \/ TimesOut(r)

Spec == Init /\ [][Next]_vars

\* Timers fire.
FairSpec == Spec /\ \A r \in Replies : WF_vars(TimesOut(r))

-----------------------------------------------------------------------------
(* properties *)

\* The two maps of labels.ts are one relation, and of the sessions that were
\* deleted it has only what they claimed afterwards: clearSession leaves nothing
\* behind in either map, but a call that was still running brings its session
\* back (labels.ts:36-40), and wakes for the label are then acked unseen by it.
LabelsAgree ==
    \A s \in Sessions, l \in Labels :
        /\ l \in s2l[s] <=> s \in l2s[l]
        /\ s \in l2s[l] => s \in live \/ <<s, l>> \in late

\* An ack makes the daemon forget the wake.  While a handler of the current
\* connection still has sessions to prompt the daemon has the wake, so a crash
\* of opencode loses none of them; also across reconnects, with the handlers of
\* an older connection acking late (client.ts:205-216, wake.ts:126-156).
KeptUntilPrompted == \A h \in handlers : h.conn = conn => row[h.ev] # "settled"

\* The agent's tool call returns, also when the connection that carried the
\* reply is gone or the reply went ahead of hello (reply.ts:29-56).
ReplyReturns == \A r \in Replies : call[r] = "waiting" ~> call[r] \in {"sent", "failed"}
=============================================================================

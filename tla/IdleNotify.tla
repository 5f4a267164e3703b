----------------------------- MODULE IdleNotify -----------------------------
(***************************************************************************)
(* Notify-on-idle of the OpenCode adapter, adapters/opencode/src/          *)
(* idle-notify.ts, with the part of client.ts and index.ts that feeds it:  *)
(* when a marked session finishes a turn, a wake is published to the       *)
(* daemon's ingest, unless it would come back to this adapter.  The plugin *)
(* is one thread; an action is what runs between two awaits.  Of the       *)
(* daemon there is what decides where the event goes: the configuration it *)
(* has applied, what it granted this connection, and its queue.            *)
(***************************************************************************)
EXTENDS Integers, Sequences, FiniteSets, SequencesExt

CONSTANTS
    Sessions, Marked,      \* opencode sessions; root sessions with the marker in the title
    Docs,                  \* what the configuration file may say
    MaxActive,             \* MAX_ACTIVE_SESSIONS
    MaxTurns, MaxNotes, MaxConns, MaxEdits, MaxRestarts    \* exploration bounds

\* A file, as far as the source the adapter publishes as is concerned: routed
\* to another adapter, to this one, without a routing entry (any adapter may
\* serve it), or a version 2 file whose route for that sender leads to a
\* destination this adapter serves under another name.
AllDocs == {"away", "here", "anywhere", "crossed", "unreadable"}

ASSUME IdleNotifyConstants ==
    /\ Marked \subseteq Sessions
    /\ MaxActive \in Nat \ {0}
    /\ {MaxTurns, MaxNotes, MaxConns, MaxEdits, MaxRestarts} \subseteq Nat
    /\ Docs \subseteq AllDocs /\ "away" \in Docs

VARIABLES
    doc, applied, edits,   \* the file; what the daemon has applied; edits made
    link, conn, granted,   \* the socket; connections so far; whether the daemon granted
                           \* the source on this one
    ackConfirmed, accepted, latched,   \* the guards, for the source published as
    active, busy, turns,   \* activeSessions, oldest first; a turn runs; turns completed
    notes,                 \* history: message events of a session that runs no turn
    idle,                  \* per session: its runs of handleSessionIdle, in order
    inFlight,              \* sessions with a POST under way
    looped,                \* history: own events come back, <<published on, delivered on,
                           \* the file the daemon had applied>>
    restarts

guard == <<ackConfirmed, accepted, latched>>
daemon == <<doc, applied, edits>>
client == <<link, conn, granted>>
notify == <<active, busy, turns, notes, idle, inFlight>>
vars == <<daemon, client, guard, notify, looped, restarts>>

\* A run of handleSessionIdle: where it is, the connection at its check (0:
\* nothing published), and the event: on its way, in the daemon's queue or gone.
Run == [at : {"getting", "posting", "done"}, on : 0..MaxConns, ev : {"none", "way", "queued", "gone"}]

\* A run that is over; a run whose event is where it is now.
Ended(r) == [at |-> "done", on |-> r.on, ev |-> r.ev]
Moved(r, ev) == [at |-> r.at, on |-> r.on, ev |-> ev]

TypeOK ==
    /\ doc \in Docs /\ applied \in Docs \ {"unreadable"} /\ edits \in 0..MaxEdits
    /\ link \in {"down", "greeting", "acking", "up"} /\ conn \in 0..MaxConns
    /\ {granted, ackConfirmed, accepted, latched} \subseteq BOOLEAN
    /\ active \in Seq(Sessions) /\ Len(active) <= MaxActive /\ IsInjective(active)
    /\ busy \in [Sessions -> BOOLEAN] /\ turns \in [Sessions -> 0..MaxTurns]
    /\ notes \in [Sessions -> 0..MaxNotes] /\ idle \in [Sessions -> Seq(Run)]
    /\ inFlight \subseteq Sessions
    /\ looped \subseteq (1..MaxConns) \X (1..MaxConns) \X Docs
    /\ restarts \in 0..MaxRestarts

Init ==
    /\ doc = "away" /\ applied = "away" /\ edits = 0
    /\ link = "down" /\ conn = 0 /\ granted = FALSE
    /\ ackConfirmed = FALSE /\ accepted = FALSE /\ latched = FALSE
    /\ active = <<>> /\ busy = [s \in Sessions |-> FALSE] /\ turns = [s \in Sessions |-> 0]
    /\ notes = [s \in Sessions |-> 0]
    /\ idle = [s \in Sessions |-> <<>>] /\ inFlight = {}
    /\ looped = {} /\ restarts = 0

-----------------------------------------------------------------------------
(* the daemon: routing, hello, ingest *)

\* destinations_for_hello and accepted_sources_for: the same question.
Grants(d) == d \in {"here", "anywhere"}

\* _subscriber_for: granted on this connection, and still this adapter's; or
\* the other name, which this adapter was granted under every file.
ComesBack == \/ granted /\ Grants(applied)
             \/ link \in {"acking", "up"} /\ applied = "crossed"

\* The operator edits the file, and may send SIGHUP or not.
Edit(d) ==
    /\ edits < MaxEdits /\ edits' = edits + 1
    /\ d # doc /\ doc' = d
    /\ UNCHANGED <<applied, client, guard, notify, looped, restarts>>

Sighup ==
    /\ doc \notin {"unreadable", applied} /\ applied' = doc
    /\ UNCHANGED <<doc, edits, client, guard, notify, looped, restarts>>

\* Own events the daemon holds, delivered on this connection.
Redelivered(s) == {i \in DOMAIN idle[s] : idle[s][i].ev = "queued"}

\* The daemon reads hello: the subscription, the hello_ack, what was queued.
Hello ==
    /\ link = "greeting" /\ link' = "acking"
    /\ granted' = Grants(applied)
    /\ IF granted' \/ applied = "crossed"
         THEN /\ looped' = looped \cup
                     UNION {{<<idle[s][i].on, conn, applied>> : i \in Redelivered(s)} : s \in Sessions}
              /\ idle' = [s \in Sessions |-> [i \in DOMAIN idle[s] |->
                            IF i \in Redelivered(s) THEN Moved(idle[s][i], "gone")
                                                    ELSE idle[s][i]]]
         ELSE UNCHANGED <<looped, idle>>
    /\ UNCHANGED <<daemon, conn, guard, active, busy, turns, notes, inFlight, restarts>>

\* The POST reaches the ingest, perhaps after the adapter gave up on it: the
\* event goes to this adapter, waits for it, or goes elsewhere.
Arrives(s, i) ==
    /\ idle[s][i].ev = "way"
    /\ idle' = [idle EXCEPT ![s][i] =
                  Moved(@, IF (Grants(applied) \/ applied = "crossed") /\ ~ComesBack
                             THEN "queued" ELSE "gone")]
    /\ looped' = IF ComesBack THEN looped \cup {<<idle[s][i].on, conn, applied>>} ELSE looped
    /\ UNCHANGED <<daemon, client, guard, active, busy, turns, notes, inFlight, restarts>>

-----------------------------------------------------------------------------
(* client.ts: connections *)

\* runClient, after its backoff: connect, and hello.
Connect ==
    /\ link = "down" /\ conn < MaxConns
    /\ link' = "greeting" /\ conn' = conn + 1
    /\ UNCHANGED <<daemon, granted, guard, notify, looped, restarts>>

\* setAcceptedSources: the ack is the daemon's word, and clears the latch
\* unless the source is still accepted here.
LatchAfterAck(acc) == latched /\ acc

Ack ==
    /\ link = "acking" /\ link' = "up"
    /\ accepted' = granted /\ ackConfirmed' = TRUE
    /\ latched' = LatchAfterAck(granted)
    /\ UNCHANGED <<daemon, conn, granted, notify, looped, restarts>>

\* Mutant: the last ack counts until the next.
KeepAck == ackConfirmed
\* invalidateAcceptedSources.
AckAfterClose == FALSE

Close ==
    /\ link # "down" /\ link' = "down" /\ granted' = FALSE
    /\ ackConfirmed' = AckAfterClose
    /\ UNCHANGED <<daemon, conn, accepted, latched, notify, looped, restarts>>

\* opencode is restarted: everything the plugin knew is gone, posts under way
\* may still arrive.
Restart ==
    /\ restarts < MaxRestarts /\ restarts' = restarts + 1
    /\ link' = "down" /\ granted' = FALSE
    /\ ackConfirmed' = FALSE /\ accepted' = FALSE /\ latched' = FALSE
    /\ active' = <<>> /\ busy' = [s \in Sessions |-> FALSE] /\ inFlight' = {}
    /\ idle' = [s \in Sessions |-> [i \in DOMAIN idle[s] |-> Ended(idle[s][i])]]
    /\ UNCHANGED <<daemon, conn, turns, notes, looped>>

-----------------------------------------------------------------------------
(* opencode's events *)

\* activeSessions.delete: a session has at most one mark.
Without(q, s) ==
    IF Contains(q, s) THEN RemoveAt(q, CHOOSE i \in DOMAIN q : q[i] = s) ELSE q

\* Mutant: nothing goes.
EvictNone(q) == q
EvictOldest(q) == IF Len(q) > MaxActive THEN Tail(q) ELSE q

\* noteSessionActivity: the mark is renewed, the oldest mark over the cap goes.
Marks(s) == EvictOldest(Append(Without(active, s), s))

\* A turn starts or goes on: session.status busy or retry, or a message of it.
Works(s) ==
    /\ busy[s] \/ turns[s] < MaxTurns
    /\ busy' = [busy EXCEPT ![s] = TRUE]
    /\ active' = Marks(s)
    /\ UNCHANGED <<daemon, client, guard, turns, notes, idle, inFlight, looped, restarts>>

\* message.updated or message.part.updated of a session that runs no turn, such
\* as the message a silent wake inserts (wake.ts:125-133): a mark all the same.
Noted(s) ==
    /\ ~busy[s] /\ notes[s] < MaxNotes
    /\ notes' = [notes EXCEPT ![s] = @ + 1]
    /\ active' = Marks(s)
    /\ UNCHANGED <<daemon, client, guard, busy, turns, idle, inFlight, looped, restarts>>

\* Mutant: the mark is not consumed.
MarkKept(s) == active
MarkConsumed(s) == Without(active, s)

\* handleSessionIdle up to session.get: no mark, and the idle is a replay.
HandleIdle(s) ==
    /\ active' = MarkConsumed(s)
    /\ idle' = IF Contains(active, s)
                 THEN [idle EXCEPT ![s] = Append(@, [at |-> "getting", on |-> 0, ev |-> "none"])]
                 ELSE idle

\* The turn ends: session.status idle marks nothing, then session.idle.
TurnEnds(s) ==
    /\ busy[s] /\ busy' = [busy EXCEPT ![s] = FALSE]
    /\ turns' = [turns EXCEPT ![s] = @ + 1]
    /\ HandleIdle(s)
    /\ UNCHANGED <<daemon, client, guard, notes, inFlight, looped, restarts>>

\* A run that stalls, or whose terminal event is lost: the mark stays.
Stalls(s) ==
    /\ busy[s] /\ busy' = [busy EXCEPT ![s] = FALSE]
    /\ turns' = [turns EXCEPT ![s] = @ + 1]
    /\ UNCHANGED <<daemon, client, guard, active, notes, idle, inFlight, looped, restarts>>

\* session.idle of a session that does nothing, announced again; without a
\* mark it changes nothing.
Replayed(s) ==
    /\ ~busy[s] /\ Contains(active, s) /\ Len(idle[s]) <= MaxTurns + MaxNotes
    /\ HandleIdle(s)
    /\ UNCHANGED <<daemon, client, guard, busy, turns, notes, inFlight, looped, restarts>>

\* session.deleted: forgetSession.
Deleted(s) ==
    /\ Contains(active, s)
    /\ active' = Without(active, s) /\ busy' = [busy EXCEPT ![s] = FALSE]
    /\ UNCHANGED <<daemon, client, guard, turns, notes, idle, inFlight, looped, restarts>>

-----------------------------------------------------------------------------
(* postIdleEvent *)

\* publishRefusalReason, after the file.
RefusesByAck == ~ackConfirmed \/ accepted \/ latched

\* session.get has answered: an error, a session that is not to notify, a
\* refusal, a publish under way or no secret; the file names this adapter, and
\* the latch is set; or every guard lets the event go.
Checks(s, i) ==
    /\ idle[s][i].at = "getting"
    /\ \/ /\ idle' = [idle EXCEPT ![s][i] = Ended(@)]
          /\ UNCHANGED <<inFlight, latched>>
       \/ /\ s \in Marked /\ doc = "here" /\ latched' = TRUE
          /\ idle' = [idle EXCEPT ![s][i] = Ended(@)]
          /\ UNCHANGED inFlight
       \/ /\ s \in Marked /\ doc \notin {"here", "crossed"} /\ ~RefusesByAck
          /\ s \notin inFlight /\ inFlight' = inFlight \cup {s}
          /\ idle' = [idle EXCEPT ![s][i] = [at |-> "posting", on |-> conn, ev |-> "way"]]
          /\ UNCHANGED latched
    /\ UNCHANGED <<daemon, client, ackConfirmed, accepted, active, busy, turns, notes, looped,
                   restarts>>

\* Mutant: a POST that failed leaves its session in the set.
ReleasedIfAnswered(s, i) == IF idle[s][i].ev = "way" THEN inFlight ELSE inFlight \ {s}
\* The finally of postIdleEvent.
Released(s, i) == inFlight \ {s}

\* The daemon's answer, or a timeout or an error in its place.
PostEnds(s, i) ==
    /\ idle[s][i].at = "posting"
    /\ idle' = [idle EXCEPT ![s][i] = Ended(@)]
    /\ inFlight' = Released(s, i)
    /\ UNCHANGED <<daemon, client, guard, active, busy, turns, notes, looped, restarts>>

\* A request that never reaches the daemon.
Vanishes(s, i) ==
    /\ idle[s][i].ev = "way" /\ idle[s][i].at = "done"
    /\ idle' = [idle EXCEPT ![s][i] = Moved(@, "gone")]
    /\ UNCHANGED <<daemon, client, guard, active, busy, turns, notes, inFlight, looped,
                   restarts>>

Next ==
    \/ \E d \in Docs : Edit(d)
    \/ Sighup \/ Hello \/ Connect \/ Ack \/ Close \/ Restart
    \/ \E s \in Sessions : Works(s) \/ Noted(s) \/ TurnEnds(s) \/ Stalls(s) \/ Replayed(s) \/ Deleted(s)
    \/ \E s \in Sessions : \E i \in DOMAIN idle[s] :
         Arrives(s, i) \/ Checks(s, i) \/ PostEnds(s, i) \/ Vanishes(s, i)

Spec == Init /\ [][Next]_vars

-----------------------------------------------------------------------------
(* properties *)
\* Loop prevention (idle-notify.ts:35-46): an event comes back to this adapter
\* only over a later connection than the one its publish was checked on, so a
\* wake that causes a turn that causes a wake needs a reconnect per lap.  The
\* guards "close" the window in which a file was applied and edited again
\* (idle-notify.ts:435-442), and a version 2 file that leads back under another
\* name "cannot arise" (422-426).
NoLoop == \A l \in looped : l[1] < l[2]

\* What the guards do keep: such a version 2 file, applied by the daemon, is the
\* only way.  It holds although the file, the daemon's configuration, the acks and
\* the POSTs move independently between the check and the delivery.
LoopNeedsCrossed == \A l \in looped : l[3] # "crossed" => l[1] < l[2]

\* "The mark is consumed on notify" (idle-notify.ts:487-488): a session has no more
\* wakes than turns and messages outside a turn, whatever opencode replays and
\* however its turns overlap.  "One completed turn yields exactly one wake" is more
\* than the code does: a message alone marks a session too
\* (idle-notify.test.ts:973-1000), and a replayed idle then publishes.
WakesEarned ==
    \A s \in Sessions :
        Cardinality({i \in DOMAIN idle[s] : idle[s][i].on > 0}) <= turns[s] + notes[s]

\* "Sessions with a POST already in flight": exactly those, one POST each, however
\* the POST ends.  A mark left behind would silence the session for good.
InFlightExact ==
    \A s \in Sessions :
        LET posts == {i \in DOMAIN idle[s] : idle[s][i].at = "posting"}
        IN Cardinality(posts) = IF s \in inFlight THEN 1 ELSE 0
=============================================================================

------------------------------- MODULE Router -------------------------------
(***************************************************************************)
(* Live delivery in agent-waked: the subscriber registry, the ack waiters  *)
(* and the next-session drain of daemon/src/agent_waked/router.py, and the *)
(* unix-socket server of socket_server.py that feeds it: handshake, frame  *)
(* loop and heartbeat, one task each on a single asyncio event loop.  A    *)
(* task runs from one await to the next without interruption; an action is *)
(* one such run, and every await of a socket write may yield.  The durable *)
(* queue is reduced to its rows (module WakeStore has the rest), and       *)
(* addressing to the destinations it resolves to (Route).                  *)
(***************************************************************************)
EXTENDS Integers, Sequences, FiniteSets

CONSTANTS
    Sessions,          \* connections; each gets a session_id of its own
    Events,            \* wake events; ingest hands each to deliver() once
    Dests,             \* configured destinations
    Grants,            \* Grants[s]: destinations the adapter of s may serve
    Route,             \* Route[e]: destinations event e resolves to, in order
    Source,            \* Source[e]: where e is queued when it has no route
    Durable,           \* events delivered with a durable mode
    None,
    MaxConnections, Cap,      \* the global cap, and max_connections per destination
    MaxBusyMissedPongs,
    PendingMaxAttempts, PendingMaxRows,
    CanFill,           \* whether a write buffer ever exceeds its high-water mark
    CanHang,           \* whether an adapter may stop reading without dying
    Pings,             \* whether a ping interval ever ends
    MaxRestarts        \* exploration bound: daemon restarts

\* A row of the pending table: event, destination, attempts, and who made it:
\* deliver(), or an operator's redrive of the event's dead letter.
Makers == {"deliver", "redrive"}
Row == [ev : Events, dest : Dests, att : Nat, made : Makers]

ASSUME RouterConstants ==
    /\ IsFiniteSet(Sessions)
    /\ Grants \in [Sessions -> SUBSET Dests]
    /\ Route \in [Events -> Seq(Dests)]
    /\ Source \in [Events -> Dests]
    /\ Durable \subseteq Events
    /\ None \notin Sessions \cup Dests /\ None \notin Row
    /\ Cap \in [Dests -> Nat]
    /\ {MaxConnections, MaxBusyMissedPongs, PendingMaxAttempts, PendingMaxRows,
        MaxRestarts} \subseteq Nat
    /\ {CanFill, CanHang, Pings} \subseteq BOOLEAN

\* Where the task of a connection is: before the hello, the
\* write of hello_ack, drain_pending, the frame loop, a reply being relayed,
\* and its two ends: a failed handshake, and the cleanup after the frame loop.
Phases == {"unused", "acking", "draining", "serving", "replying", "refused", "closed"}
Connected == {"acking", "draining", "serving", "replying"}

\* A wake frame: event, destination, and the row it was sent from, if any.
Frame == [ev : Events, dest : Dests, from : Makers \cup {"live"}]
FrameOf(e, d, m) == [ev |-> e, dest |-> d, from |-> m]
\* An ack future: the frame, the session it was written to, the answer, and
\* whether the waiter task runs yet (the write has returned).
Ack == [frame : Frame, sess : Sessions, got : {"open", "ack", "nack"}, live : BOOLEAN]
AckOf(f, s, g, l) == [frame |-> f, sess |-> s, got |-> g, live |-> l]
RowOf(e, d, n, m) == [ev |-> e, dest |-> d, att |-> n, made |-> m]
\* Row ids are AUTOINCREMENT, and an event has one row from each maker at most.
RowId(r) == <<r.ev, r.made>>

VARIABLES
    phase, dests, joined,      \* per session: task, destinations, subscription order
    peer, open, full,          \* the adapter, our writer, its buffer above high water
    ping, missed, inflight,    \* pending_ping, busy_missed_pongs, in_flight
    conns, subs, acks,         \* _connections, _subscribers, _pending_acks
    wire,                      \* per session: wake frames written and not answered
    left, claimed, stuck,      \* drain_pending: destinations to go, rows in hand, and
                               \* the row whose write is blocked
    call,                      \* per event: a deliver() in progress
    status,                    \* per event: what deliver() returned
    queue,                     \* the pending table
    queued,                    \* history: ids of the rows there were,
    buried, answered,          \* of those dead-lettered, and of those an adapter acked
    hbTodo, hbStale, hbAt,     \* the heartbeat's pass over the connections
    restarts

session == <<phase, dests, joined>>
socket == <<peer, open, full>>
liveness == <<ping, missed>>
beat == <<hbTodo, hbStale, hbAt>>
drain == <<left, claimed, stuck>>
history == <<queued, buried, answered>>
vars == <<session, socket, liveness, inflight, conns, subs, acks, wire, drain, call,
          status, queue, history, beat, restarts>>

NoCall == [todo |-> <<>>, failed |-> <<>>, took |-> 0, at |-> None]
Statuses == {"new", "delivering", "queued", "queued_next_session", "no_subscriber", "lost"}

TypeOK ==
    /\ phase \in [Sessions -> Phases]
    /\ dests \in [Sessions -> SUBSET Dests]
    /\ joined \in [Sessions -> Nat]
    /\ peer \in [Sessions -> {"up", "hung", "dead"}]
    /\ open \in [Sessions -> BOOLEAN] /\ full \in [Sessions -> BOOLEAN]
    /\ ping \in [Sessions -> BOOLEAN]
    /\ missed \in [Sessions -> 0..MaxBusyMissedPongs]
    /\ inflight \in [Sessions -> Nat]
    /\ conns \subseteq Sessions /\ subs \subseteq Sessions
    /\ acks \subseteq Ack
    /\ wire \in [Sessions -> SUBSET Frame]
    /\ left \in [Sessions -> SUBSET Dests]
    /\ claimed \in [Sessions -> SUBSET Row]
    /\ stuck \in [Sessions -> Row \cup {None}]
    /\ call \in [Events -> [todo : Seq(Dests), failed : Seq(Dests), took : Nat,
                            at : Sessions \cup {None}]]
    /\ status \in [Events -> Statuses]
    /\ queue \subseteq Row
    /\ queued \subseteq Events \X Makers
    /\ buried \subseteq Events \X Makers /\ answered \subseteq Events \X Makers
    /\ hbTodo \subseteq Sessions /\ hbStale \subseteq Sessions
    /\ hbAt \in Sessions \cup {None}
    /\ restarts \in Nat

Init ==
    /\ phase = [s \in Sessions |-> "unused"]
    /\ dests = [s \in Sessions |-> {}] /\ joined = [s \in Sessions |-> 0]
    /\ peer = [s \in Sessions |-> "up"]
    /\ open = [s \in Sessions |-> TRUE] /\ full = [s \in Sessions |-> FALSE]
    /\ ping = [s \in Sessions |-> FALSE] /\ missed = [s \in Sessions |-> 0]
    /\ inflight = [s \in Sessions |-> 0]
    /\ conns = {} /\ subs = {} /\ acks = {}
    /\ wire = [s \in Sessions |-> {}]
    /\ left = [s \in Sessions |-> {}] /\ claimed = [s \in Sessions |-> {}]
    /\ stuck = [s \in Sessions |-> None]
    /\ call = [e \in Events |-> NoCall] /\ status = [e \in Events |-> "new"]
    /\ queue = {} /\ queued = {} /\ buried = {} /\ answered = {}
    /\ hbTodo = {} /\ hbStale = {} /\ hbAt = None
    /\ restarts = 0

-----------------------------------------------------------------------------
(* the registry *)

Serving(d) == {s \in subs : d \in dests[s]}
DestinationLoad(d) == Cardinality(Serving(d))
\* _subscriber_for: the most recently subscribed session that serves d.
SubscriberFor(d) == {s \in Serving(d) : \A t \in Serving(d) : joined[t] <= joined[s]}

\* in_flight_for, on a session the router may have evicted.
InFlightFor(s) == IF s \in subs THEN inflight[s] ELSE 0

-----------------------------------------------------------------------------
(* socket writes: StreamWriter.write, then drain *)

\* drain returns at once; a peer that just died may go unnoticed ...
WriteReturns(s) == open[s] /\ ~full[s]
\* ... or it raises: the connection is lost, or our writer was closed ...
WriteFails(s) == peer[s] = "dead" \/ (~open[s] /\ ~full[s])
\* ... or it waits, the buffer being above high water.
WriteWaits(s) ==
    /\ peer[s] # "dead" /\ (full[s] \/ (CanFill /\ open[s]))
    /\ full' = [full EXCEPT ![s] = TRUE]
\* A waiting drain returns once the buffer has emptied, even into a close.
WaitReturns(s) == ~full[s] /\ peer[s] # "dead"
\* Mutant: a lost connection does not wake the writer that waits for it.
WaitGoesOn(s) == FALSE
WaitFails(s) == peer[s] = "dead"

\* What the adapter of s will get to see of frame f.
OnWire(s, f) ==
    wire' = [wire EXCEPT ![s] = IF open[s] /\ peer[s] # "dead" THEN @ \cup {f} ELSE @]

\* _evict: unsubscribe and close the writer.
Evict(s) ==
    /\ subs' = subs \ {s}
    /\ open' = [open EXCEPT ![s] = FALSE]

\* Mutant: a queued frame is not counted as a delivery in flight.
CountLiveOnly(s, f) ==
    inflight' = [inflight EXCEPT ![s] = IF s \in subs /\ f.from = "live" THEN @ + 1 ELSE @]
CountInFlight(s, f) == inflight' = [inflight EXCEPT ![s] = IF s \in subs THEN @ + 1 ELSE @]

\* _send_to and _send_pending: register the ack, write the frame; then count
\* it and start the waiter, or drop the ack and evict the subscriber.
SendWake(s, f) ==
    /\ WriteReturns(s)
    /\ acks' = acks \cup {AckOf(f, s, "open", TRUE)}
    /\ OnWire(s, f)
    /\ CountInFlight(s, f)
    /\ UNCHANGED <<subs, open, full>>

SendWakeFails(s) ==
    /\ WriteFails(s)
    /\ Evict(s)
    /\ UNCHANGED <<acks, wire, inflight, full>>

SendWakeWaits(s, f) ==
    /\ WriteWaits(s)
    /\ acks' = acks \cup {AckOf(f, s, "open", FALSE)}
    /\ OnWire(s, f)
    /\ UNCHANGED <<subs, open, inflight>>

ResumeWake(s, f) ==
    /\ WaitReturns(s)
    /\ acks' = {IF a.frame = f /\ a.sess = s THEN AckOf(f, s, a.got, TRUE) ELSE a : a \in acks}
    /\ CountInFlight(s, f)
    /\ UNCHANGED <<subs, open, full, wire>>

ResumeWakeFails(s, f) ==
    /\ WaitFails(s)
    /\ acks' = {a \in acks : ~(a.frame = f /\ a.sess = s)}
    /\ Evict(s)
    /\ UNCHANGED <<inflight, full, wire>>

-----------------------------------------------------------------------------
(* Router.deliver, called by ingest for an event whose addressing resolved *)

CallOf(todo, failed, took, at) == [todo |-> todo, failed |-> failed, took |-> took, at |-> at]
Todo(e) == IF status[e] = "new" THEN Route[e] ELSE call[e].todo
Unserved(todo, i) == \A j \in 1..i : SubscriberFor(todo[j]) = {}
Rest(todo, i) == SubSeq(todo, i + 1, Len(todo))

\* Skip the destinations without a subscriber and write to the next one.
DeliverSend(e) ==
    LET todo == Todo(e)
        c == call[e]
    IN /\ status[e] \in {"new", "delivering"} /\ c.at = None
       /\ \E i \in 1..Len(todo) : \E s \in SubscriberFor(todo[i]) :
            LET d == todo[i]
                failed == c.failed \o SubSeq(todo, 1, i - 1)
                f == FrameOf(e, d, "live")
            IN /\ Unserved(todo, i - 1)
               /\ \/ /\ SendWake(s, f)
                     /\ call' = [call EXCEPT ![e] = CallOf(Rest(todo, i), failed, c.took + 1, None)]
                  \/ /\ SendWakeFails(s)
                     /\ call' = [call EXCEPT
                                   ![e] = CallOf(Rest(todo, i), Append(failed, d), c.took, None)]
                  \/ /\ SendWakeWaits(s, f)
                     /\ call' = [call EXCEPT ![e] = CallOf(<<d>> \o Rest(todo, i), failed, c.took, s)]
       /\ status' = [status EXCEPT ![e] = "delivering"]
       /\ UNCHANGED <<session, peer, liveness, conns, drain, queue, history, beat, restarts>>

\* The write that deliver was waiting for returns or fails.
DeliverResume(e) ==
    LET c == call[e]
        s == c.at
        d == Head(c.todo)
        f == FrameOf(e, d, "live")
    IN /\ s # None
       /\ \/ /\ ResumeWake(s, f)
             /\ call' = [call EXCEPT ![e] = CallOf(Tail(c.todo), c.failed, c.took + 1, None)]
          \/ /\ ResumeWakeFails(s, f)
             /\ call' = [call EXCEPT
                           ![e] = CallOf(Tail(c.todo), Append(c.failed, d), c.took, None)]
       /\ UNCHANGED <<session, peer, liveness, conns, drain, status, queue, history, beat,
                      restarts>>

\* enqueue_pending by m for each destination in F: event_id is UNIQUE, so the
\* first takes the only row; a full queue refuses.
Enqueue(e, F, m) ==
    IF F # <<>> /\ Cardinality(queue) < PendingMaxRows /\ ~\E r \in queue : r.ev = e
      THEN /\ queue' = queue \cup {RowOf(e, F[1], 0, m)}
           /\ queued' = queued \cup {<<e, m>>}
      ELSE UNCHANGED <<queue, queued>>

\* dead-letter redrive: the operator puts the event of a dead letter back, and
\* without a destination enqueue_pending queues it under its source.  Once per event.
Redrive(e) ==
    /\ <<e, "deliver">> \in buried /\ <<e, "redrive">> \notin queued
    /\ Enqueue(e, <<Source[e]>>, "redrive")
    /\ UNCHANGED <<session, socket, liveness, inflight, conns, subs, acks, wire, drain, call,
                   status, buried, answered, beat, restarts>>

\* No destination left that has a subscriber: _undeliverable for the ones that
\* failed, and the answer for ingest.
DeliverEnd(e) ==
    LET c == call[e]
        F == IF Route[e] = <<>> THEN <<Source[e]>> ELSE c.failed \o Todo(e)
    IN /\ status[e] \in {"new", "delivering"} /\ c.at = None
       /\ Unserved(Todo(e), Len(Todo(e)))
       /\ IF e \in Durable
            THEN Enqueue(e, F, "deliver")
            ELSE UNCHANGED <<queue, queued>>
       /\ status' = [status EXCEPT ![e] =
                       IF c.took > 0 THEN "queued"
                       ELSE IF e \in Durable THEN "queued_next_session" ELSE "no_subscriber"]
       /\ call' = [call EXCEPT ![e] = NoCall]
       /\ UNCHANGED <<session, socket, liveness, inflight, conns, subs, acks, wire, drain,
                      buried, answered, beat, restarts>>

-----------------------------------------------------------------------------
(* _wait_for_ack *)

\* Mutant: anything but a nack settles the row.
SettleUnlessNack(f, got) == queue' = {r \in queue : got = "nack" \/ RowId(r) # <<f.ev, f.from>>}
\* _settle_pending: only an ack deletes the row.
SettlePending(f, got) == queue' = {r \in queue : got # "ack" \/ RowId(r) # <<f.ev, f.from>>}

\* An answer ends the delivery and settles its row ...
AckAnswered(a) ==
    /\ a \in acks /\ a.live /\ a.got # "open"
    /\ acks' = acks \ {a}
    /\ inflight' = [inflight EXCEPT ![a.sess] =
                      IF a.sess \in subs /\ @ > 0 THEN @ - 1 ELSE @]
    /\ SettlePending(a.frame, a.got)
    /\ UNCHANGED <<session, socket, liveness, conns, subs, wire, drain, call, status, history,
                   beat, restarts>>

\* ... and a timeout leaves both the row and the count.
AckTimeout(a) ==
    /\ a \in acks /\ a.live /\ a.got = "open"
    /\ acks' = acks \ {a}
    /\ SettlePending(a.frame, "timeout")
    /\ UNCHANGED <<session, socket, liveness, inflight, conns, subs, wire, drain, call, status,
                   history, beat, restarts>>

-----------------------------------------------------------------------------
(* SocketServer._handle_connection *)

\* _handshake raises before it registers the session: no valid hello, or a
\* cap is reached.  Until then a connection has no state in the daemon.
Refuse(s) ==
    /\ phase[s] = "unused"
    /\ phase' = [phase EXCEPT ![s] = "refused"]
    /\ open' = [open EXCEPT ![s] = FALSE]
    /\ UNCHANGED <<dests, joined, peer, full, liveness, inflight, conns, subs, acks, wire,
                   drain, call, status, queue, history, beat, restarts>>

\* Mutant: the caps are compared off by one.
RoomForOneMore(D) ==
    /\ Cardinality(conns) <= MaxConnections
    /\ \A d \in D : DestinationLoad(d) <= Cap[d]
\* MAX_CONNECTIONS and _destinations_over_cap.
RoomFor(D) ==
    /\ Cardinality(conns) < MaxConnections
    /\ \A d \in D : DestinationLoad(d) < Cap[d]

\* _handshake: the granted part D of what the hello claims; the session is
\* registered with the server and the router, then hello_ack is written.
Register(s, D) ==
    /\ phase[s] = "unused" /\ D \subseteq Grants[s] /\ RoomFor(D)
    /\ phase' = [phase EXCEPT ![s] = "acking"]
    /\ dests' = [dests EXCEPT ![s] = D]
    /\ joined' = [joined EXCEPT ![s] = 1 + Cardinality({t \in Sessions : joined[t] > 0})]
    /\ conns' = conns \cup {s}
    /\ subs' = subs \cup {s}
    /\ full' \in {full, [full EXCEPT ![s] = CanFill]}
    /\ UNCHANGED <<peer, open, liveness, inflight, acks, wire, drain, call, status, queue,
                   history, beat, restarts>>

HelloAckSent(s) ==
    /\ phase[s] = "acking" /\ ~full[s]
    /\ phase' = [phase EXCEPT ![s] = "draining"]
    /\ left' = [left EXCEPT ![s] = dests[s]]
    /\ UNCHANGED <<dests, joined, socket, liveness, inflight, conns, subs, acks, wire, claimed,
                   stuck, call, status, queue, history, beat, restarts>>

\* The write raises; _handle_connection closes the writer and returns.
HelloAckFails(s) ==
    /\ phase[s] = "acking" /\ peer[s] = "dead"
    /\ phase' = [phase EXCEPT ![s] = "refused"]
    /\ open' = [open EXCEPT ![s] = FALSE]
    /\ UNCHANGED <<dests, joined, peer, full, liveness, inflight, conns, subs, acks, wire,
                   drain, call, status, queue, history, beat, restarts>>

\* Mutant: the queue is keyed on the sender.
RowsOfSender(d) == {r \in queue : \E e \in Events : Source[e] = d /\ r.ev = e}
\* claim_pending for destination d.
RowsFor(d) == {r \in queue : r.dest = d}
Attempted(r) == RowOf(r.ev, r.dest, r.att + 1, r.made)

\* drain_pending, the next destination: skipped unless this session is still
\* its subscriber; its rows are claimed, which counts an attempt.
DrainDest(s, d) ==
    /\ phase[s] = "draining" /\ claimed[s] = {} /\ stuck[s] = None /\ d \in left[s]
    /\ left' = [left EXCEPT ![s] = @ \ {d}]
    /\ IF s \in SubscriberFor(d)
         THEN /\ claimed' = [claimed EXCEPT ![s] = {Attempted(r) : r \in RowsFor(d)}]
              /\ queue' = (queue \ RowsFor(d)) \cup {Attempted(r) : r \in RowsFor(d)}
         ELSE UNCHANGED <<claimed, queue>>
    /\ UNCHANGED <<session, socket, liveness, inflight, conns, subs, acks, wire, stuck, call,
                   status, history, beat, restarts>>

\* _send_pending of a row claimed once too often: dead-letter it.
DrainBury(s, r) ==
    /\ stuck[s] = None /\ r \in claimed[s] /\ r.att > PendingMaxAttempts
    /\ claimed' = [claimed EXCEPT ![s] = @ \ {r}]
    /\ queue' = {q \in queue : RowId(q) # RowId(r)}
    /\ buried' = buried \cup {RowId(r)}
    /\ UNCHANGED <<session, socket, liveness, inflight, conns, subs, acks, wire, left, stuck,
                   call, status, queued, answered, beat, restarts>>

\* _send_pending of any other row.
DrainSend(s, r) ==
    /\ stuck[s] = None /\ r \in claimed[s] /\ r.att <= PendingMaxAttempts
    /\ claimed' = [claimed EXCEPT ![s] = @ \ {r}]
    /\ \/ SendWake(s, FrameOf(r.ev, r.dest, r.made)) /\ UNCHANGED stuck
       \/ SendWakeFails(s) /\ UNCHANGED stuck
       \/ SendWakeWaits(s, FrameOf(r.ev, r.dest, r.made)) /\ stuck' = [stuck EXCEPT ![s] = r]
    /\ UNCHANGED <<session, peer, liveness, conns, left, call, status, queue, history, beat,
                   restarts>>

DrainResume(s) ==
    /\ stuck[s] # None
    /\ LET f == FrameOf(stuck[s].ev, stuck[s].dest, stuck[s].made)
       IN ResumeWake(s, f) \/ ResumeWakeFails(s, f)
    /\ stuck' = [stuck EXCEPT ![s] = None]
    /\ UNCHANGED <<session, peer, liveness, conns, left, claimed, call, status, queue, history,
                   beat, restarts>>

DrainDone(s) ==
    /\ phase[s] = "draining" /\ left[s] = {} /\ claimed[s] = {} /\ stuck[s] = None
    /\ phase' = [phase EXCEPT ![s] = "serving"]
    /\ UNCHANGED <<dests, joined, socket, liveness, inflight, conns, subs, acks, wire, drain,
                   call, status, queue, history, beat, restarts>>

\* The frame loop reads an ack or a nack: resolve_ack, which ignores an id
\* whose future is gone or already answered.
ReadAck(s, f, got) ==
    /\ phase[s] = "serving" /\ f \in wire[s] /\ peer[s] # "hung"
    /\ wire' = [wire EXCEPT ![s] = @ \ {f}]
    /\ acks' = {IF a.frame = f /\ a.sess = s /\ a.got = "open" THEN AckOf(f, s, got, a.live)
                ELSE a : a \in acks}
    /\ answered' = answered \cup {i \in {<<f.ev, f.from>>} : f.from # "live" /\ got = "ack"}
    /\ UNCHANGED <<session, socket, liveness, inflight, conns, subs, drain, call, status, queue,
                   queued, buried, beat, restarts>>

ReadPong(s) ==
    /\ phase[s] = "serving" /\ ping[s] /\ peer[s] = "up" /\ open[s]
    /\ ping' = [ping EXCEPT ![s] = FALSE]
    /\ missed' = [missed EXCEPT ![s] = 0]
    /\ UNCHANGED <<session, socket, inflight, conns, subs, acks, wire, drain, call, status,
                   queue, history, beat, restarts>>

\* _handle_reply keeps the frame loop until the outbox has delivered the reply.
ReadReply(s) ==
    /\ phase[s] = "serving" /\ peer[s] = "up" /\ open[s]
    /\ phase' = [phase EXCEPT ![s] = "replying"]
    /\ UNCHANGED <<dests, joined, socket, liveness, inflight, conns, subs, acks, wire, drain,
                   call, status, queue, history, beat, restarts>>

\* Mutant: the cleanup leaves the session subscribed.
CleanupConnectionOnly(s) == conns' = conns \ {s} /\ UNCHANGED subs
\* The finally block of _handle_connection ...
Cleanup(s) == conns' = conns \ {s} /\ subs' = subs \ {s}

\* ... which closes the writer; the two objects of the session are dropped.
Close(s) ==
    /\ Cleanup(s)
    /\ phase' = [phase EXCEPT ![s] = "closed"]
    /\ open' = [open EXCEPT ![s] = FALSE]
    /\ wire' = [wire EXCEPT ![s] = {}]
    /\ dests' = [dests EXCEPT ![s] = {}]
    /\ ping' = [ping EXCEPT ![s] = FALSE] /\ missed' = [missed EXCEPT ![s] = 0]
    /\ inflight' = [inflight EXCEPT ![s] = 0]
    /\ UNCHANGED <<joined, peer, full, acks, drain, call, status, queue, history, beat, restarts>>

\* reply_result is written, and the loop goes on or ends.
ReplySent(s) ==
    \/ /\ phase[s] = "replying" /\ ~full[s] /\ open[s]
       /\ phase' = [phase EXCEPT ![s] = "serving"]
       /\ UNCHANGED <<dests, joined, socket, liveness, inflight, conns, subs, acks, wire, drain,
                      call, status, queue, history, beat, restarts>>
    \/ phase[s] = "replying" /\ WriteFails(s) /\ Close(s)

\* The reader is at its end: the peer is gone, or our closed writer has flushed.
ReadEof(s) ==
    /\ phase[s] = "serving"
    /\ peer[s] = "dead" \/ (~open[s] /\ ~full[s])
    /\ Close(s)

\* A malformed, oversized or invalid frame ends the loop.
ReadBadFrame(s) ==
    /\ phase[s] = "serving" /\ peer[s] = "up" /\ open[s]
    /\ Close(s)

-----------------------------------------------------------------------------
(* SocketServer._heartbeat_loop *)

HeartbeatSleeps == hbTodo = {} /\ hbAt = None

\* PING_INTERVAL is over.  It is long: an adapter that is up has answered the
\* last ping, and its handler has read the answer unless it is busy with a
\* reply, which may take the outbox three attempts of 30 seconds.
HeartbeatTick ==
    /\ Pings /\ HeartbeatSleeps /\ conns # {}
    /\ \A s \in conns : ping[s] /\ peer[s] = "up" /\ open[s] => phase[s] = "replying"
    /\ hbTodo' = conns
    /\ UNCHANGED <<session, socket, liveness, inflight, conns, subs, acks, wire, drain, call,
                   status, queue, history, hbStale, hbAt, restarts>>

\* The pass goes on with the connections in todo, or closes the stale ones.
HeartbeatGoesOn(todo, stale) ==
    /\ hbTodo' = todo
    /\ IF todo = {}
         THEN /\ hbStale' = {}
              /\ open' = [s \in Sessions |-> open[s] /\ s \notin stale \cap conns]
         ELSE hbStale' = stale /\ UNCHANGED open

\* Mutants: a missed pong is fatal whatever is in flight, or never.
NeverTolerates(s) == FALSE
ToleratesForever(s) == InFlightFor(s) > 0
\* A missed pong is forgiven while a delivery is in flight, up to a bound.
Tolerates(s) == InFlightFor(s) > 0 /\ missed[s] < MaxBusyMissedPongs

\* Mutant: the count of forgiven pongs stays at zero.
ForgetMissed(s) == missed' = [missed EXCEPT ![s] = 0]
CountMissed(s) == missed' = [missed EXCEPT ![s] = @ + 1]

\* One connection of the pass that still owes a pong ...
HeartbeatMissed(s) ==
    /\ s \in hbTodo /\ hbAt = None /\ ping[s]
    /\ IF Tolerates(s)
         THEN /\ CountMissed(s)
              /\ HeartbeatGoesOn(hbTodo \ {s}, hbStale)
         ELSE /\ HeartbeatGoesOn(hbTodo \ {s}, hbStale \cup {s})
              /\ UNCHANGED missed
    /\ UNCHANGED <<session, peer, full, ping, inflight, conns, subs, acks, wire, drain, call,
                   status, queue, history, hbAt, restarts>>

\* ... and one that is sent a ping.
HeartbeatPing(s) ==
    /\ s \in hbTodo /\ hbAt = None /\ ~ping[s]
    /\ \/ /\ WriteReturns(s)
          /\ ping' = [ping EXCEPT ![s] = TRUE]
          /\ HeartbeatGoesOn(hbTodo \ {s}, hbStale)
          /\ UNCHANGED <<full, hbAt>>
       \/ /\ WriteFails(s)
          /\ HeartbeatGoesOn(hbTodo \ {s}, hbStale \cup {s})
          /\ UNCHANGED <<ping, full, hbAt>>
       \/ /\ WriteWaits(s)
          /\ hbAt' = s
          /\ hbTodo' = hbTodo \ {s}
          /\ UNCHANGED <<ping, open, hbStale>>
    /\ UNCHANGED <<session, peer, missed, inflight, conns, subs, acks, wire, drain, call,
                   status, queue, history, restarts>>

HeartbeatResume ==
    /\ hbAt # None
    /\ \/ /\ WaitReturns(hbAt)
          /\ ping' = [ping EXCEPT ![hbAt] = TRUE]
          /\ HeartbeatGoesOn(hbTodo, hbStale)
       \/ /\ WaitFails(hbAt)
          /\ HeartbeatGoesOn(hbTodo, hbStale \cup {hbAt})
          /\ UNCHANGED ping
    /\ hbAt' = None
    /\ UNCHANGED <<session, peer, full, missed, inflight, conns, subs, acks, wire, drain, call,
                   status, queue, history, restarts>>

-----------------------------------------------------------------------------
(* adapters, and the daemon's own end *)

\* The socket of s is there, or closed with data to flush.
Reachable(s) == phase[s] \in Connected \/ full[s]

PeerDies(s) ==
    /\ Reachable(s) /\ peer[s] # "dead"
    /\ peer' = [peer EXCEPT ![s] = "dead"]
    /\ UNCHANGED <<session, open, full, liveness, inflight, conns, subs, acks, wire, drain, call,
                   status, queue, history, beat, restarts>>

\* An adapter busy with a turn reads nothing, for a while or for good.
PeerHangs(s) ==
    /\ CanHang /\ phase[s] \in Connected /\ peer[s] = "up"
    /\ peer' = [peer EXCEPT ![s] = "hung"]
    /\ UNCHANGED <<session, open, full, liveness, inflight, conns, subs, acks, wire, drain, call,
                   status, queue, history, beat, restarts>>

PeerReturns(s) ==
    /\ Reachable(s) /\ peer[s] = "hung"
    /\ peer' = [peer EXCEPT ![s] = "up"]
    /\ UNCHANGED <<session, open, full, liveness, inflight, conns, subs, acks, wire, drain, call,
                   status, queue, history, beat, restarts>>

\* An adapter that reads empties the buffer.
PeerReads(s) ==
    /\ peer[s] = "up" /\ full[s]
    /\ full' = [full EXCEPT ![s] = FALSE]
    /\ UNCHANGED <<session, peer, open, liveness, inflight, conns, subs, acks, wire, drain, call,
                   status, queue, history, beat, restarts>>

\* The daemon crashes, or _shutdown closes the sockets and cancels the ack
\* waiters, and a new one starts; only the queue survives.
Restart ==
    /\ restarts < MaxRestarts
    /\ restarts' = restarts + 1
    /\ phase' = [s \in Sessions |-> IF phase[s] \in Connected THEN "closed" ELSE phase[s]]
    /\ open' = [s \in Sessions |-> open[s] /\ phase[s] \notin Connected]
    /\ conns' = {} /\ subs' = {} /\ acks' = {}
    /\ wire' = [s \in Sessions |-> {}]
    /\ left' = [s \in Sessions |-> {}] /\ claimed' = [s \in Sessions |-> {}]
    /\ stuck' = [s \in Sessions |-> None]
    /\ call' = [e \in Events |-> NoCall]
    /\ status' = [e \in Events |-> IF status[e] = "delivering" THEN "lost" ELSE status[e]]
    /\ hbTodo' = {} /\ hbStale' = {} /\ hbAt' = None
    /\ dests' = [s \in Sessions |-> {}]
    /\ ping' = [s \in Sessions |-> FALSE] /\ missed' = [s \in Sessions |-> 0]
    /\ inflight' = [s \in Sessions |-> 0]
    /\ UNCHANGED <<joined, peer, full, queue, history>>

-----------------------------------------------------------------------------
HandlerStep(s) ==
    \/ HelloAckSent(s) \/ HelloAckFails(s)
    \/ \E d \in left[s] : DrainDest(s, d)
    \/ \E r \in claimed[s] : DrainBury(s, r) \/ DrainSend(s, r)
    \/ DrainResume(s) \/ DrainDone(s)
    \/ ReplySent(s) \/ ReadEof(s) \/ ReadPong(s)
DeliverStep(e) == DeliverSend(e) \/ DeliverResume(e) \/ DeliverEnd(e)
HeartbeatStep ==
    \/ HeartbeatTick \/ HeartbeatResume
    \/ \E s \in hbTodo : HeartbeatMissed(s) \/ HeartbeatPing(s)

Next ==
    \/ \E e \in Events : DeliverStep(e) \/ Redrive(e)
    \/ \E a \in acks : AckAnswered(a) \/ AckTimeout(a)
    \/ \E s \in Sessions : HandlerStep(s)
    \/ \E s \in Sessions : Refuse(s)
    \/ \E s \in Sessions : \E D \in SUBSET Grants[s] : Register(s, D)
    \/ \E s \in Sessions : \E f \in wire[s], g \in {"ack", "nack"} : ReadAck(s, f, g)
    \/ \E s \in Sessions : ReadReply(s) \/ ReadBadFrame(s)
    \/ HeartbeatStep
    \/ \E s \in Sessions : PeerDies(s) \/ PeerHangs(s) \/ PeerReturns(s) \/ PeerReads(s)
    \/ Restart

Spec == Init /\ [][Next]_vars

\* asyncio runs every task whose await is over, timers expire, an adapter
\* that is up reads its socket, and the outbox gives up after a bounded time.
\* A drain() that waits is woken by the buffer going down once, also when the
\* next write fills it again, hence the strong fairness of its resumption.
Fairness ==
    /\ \A s \in Sessions : WF_vars(HandlerStep(s)) /\ WF_vars(PeerReads(s))
    /\ \A e \in Events : WF_vars(status[e] # "new" /\ DeliverStep(e))
    /\ \A e \in Events : SF_vars(DeliverResume(e))
    /\ WF_vars(HeartbeatStep)
    /\ WF_vars(\E a \in acks : AckAnswered(a) \/ AckTimeout(a))
FairSpec == Spec /\ Fairness

-----------------------------------------------------------------------------
(* properties *)

\* The caps are never exceeded (socket_server.py:280-303): connections in all,
\* and subscribers of each destination.
CapsHold ==
    /\ Cardinality(conns) <= MaxConnections
    /\ \A d \in Dests : DestinationLoad(d) <= Cap[d]

\* The destinations event e addresses, and those a row from m may name.
For(e) ==
    {d \in Dests : \/ \E i \in 1..Len(Route[e]) : Route[e][i] = d
                   \/ Route[e] = <<>> /\ d = Source[e]}
NamedBy(e, m) == For(e) \cup {d \in Dests : m = "redrive" /\ d = Source[e]}

\* A session sees a frame only for a destination it was granted and the event
\* addresses, live or through the queue.  "A queued event cannot leak to an
\* adapter - or a sibling session - the operator did not address it to"
\* (router.py:439-442) says no more; but a redriven row goes to whoever serves
\* the name of its sender, and this is as much as the code keeps.
SessionScoped ==
    \A s \in Sessions : \A f \in wire[s] : f.dest \in dests[s] \cap NamedBy(f.ev, f.from)

\* "A claimed row is removed only when the adapter acks it" (router.py:444-447):
\* a row is there until an adapter has acked it, and not an earlier row of its
\* event, or it is dead-lettered, across nacks, timeouts, disconnects and restarts.
QueuedUntilAcked ==
    \A i \in queued : (\E r \in queue : RowId(r) = i) \/ i \in answered \cup buried

\* What a subscriber still owes never exceeds what the heartbeat is told.
Owed(s) == {a \in acks : a.sess = s /\ a.live}
InFlightCovers == \A s \in subs : Cardinality(Owed(s)) <= inflight[s]

\* BC-011 (socket_server.py:37-44): the heartbeat gives up on a subscriber that
\* owes an ack only after it has forgiven MAX_BUSY_MISSED_PONGS missed pongs.
BusyNotReaped ==
    [][\A s \in subs :
         /\ HeartbeatMissed(s) /\ missed' = missed
         /\ Owed(s) # {}
         => missed[s] = MaxBusyMissedPongs]_vars

\* A session whose handshake completed and whose adapter is gone loses its
\* slot and its subscription, whatever the other adapters do.
DeadPeerReleased ==
    \A s \in Sessions :
        (phase[s] \in {"draining", "serving", "replying"} /\ peer[s] = "dead")
            ~> (s \notin conns \cup subs)

\* deliver() answers ingest unless an adapter it writes to hangs for good.
DeliverReturns ==
    \A e \in Events :
        (status[e] = "delivering")
            ~> (status[e] # "delivering" \/ \E s \in Sessions : peer[s] = "hung")

\* The tolerance is bounded (socket_server.py:41-43): an adapter that stops
\* answering loses its slot however many deliveries it owes, unless a write
\* buffer is full, where the heartbeat itself waits.
QuietPeerReaped ==
    \A s \in Sessions :
        (s \in conns /\ peer[s] = "hung" /\ phase[s] # "refused")
            ~> (s \notin conns \/ peer[s] # "hung" \/ \E t \in Sessions : full[t])
=============================================================================

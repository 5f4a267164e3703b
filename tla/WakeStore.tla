----------------------------- MODULE WakeStore -----------------------------
(***************************************************************************)
(* The delivery bookkeeping of agent-waked: the pending and dead_letter    *)
(* tables of the SQLite file behind daemon/src/agent_waked/store.py, and   *)
(* the processes that share it: the daemon and any number of operator      *)
(* commands (cli/queue.py).  Every action is one SQLite transaction or one *)
(* read; what the code does in two transactions is two actions, between    *)
(* which another process may commit or this one may die.  Inside the       *)
(* daemon a store call never yields to the event loop, so op[Daemon] keeps *)
(* other daemon calls out until it returns.  The third table is in module  *)
(* Dedupe.                                                                 *)
(***************************************************************************)
EXTENDS Integers, FiniteSets

CONSTANTS
    Events,            \* wake events (their event_id)
    Alerts,            \* deliveries dead-lettered as reply or human_delivery
    Names,             \* source and destination names, one string space
    Source,            \* Source[e]: the sender of event e
    Daemon, Clis,      \* the processes that open the database
    None,
    PendingTtl, PendingMaxRows, PendingMaxAttempts, ClaimLimit,
    DeadTtl, DeadMaxRows,
    MaxTime, MaxRows, MaxDead,  \* exploration bounds: clock, rows ever created,
    MaxClaims                   \* and claims of one row

ASSUME StoreConstants ==
    /\ Source \in [Events -> Names]
    /\ Events \cap Alerts = {}
    /\ Daemon \notin Clis
    /\ None \notin Events \cup Alerts \cup Names
    /\ {PendingTtl, PendingMaxRows, PendingMaxAttempts, ClaimLimit, DeadTtl,
        DeadMaxRows, MaxTime, MaxRows, MaxDead, MaxClaims} \subseteq Nat
    /\ IsFiniteSet(Clis)

Procs == {Daemon} \cup Clis
Kinds == {"next_session", "reply", "human_delivery"}
Statuses == {"none", "ok", "failed"}

PendingRow == [id : Nat, ev : Events, dest : Names, exp : Nat, att : Nat]
DeadRow == [id : Nat, kind : Kinds, ref : Events \cup Alerts, made : Nat,
            status : Statuses]
\* What a process between two transactions of one call still has to do.
Job == [ev : Events \cup Alerts \cup {None}, dest : Names \cup {None}, dl : Nat,
        status : Statuses]
JobOf(e, d, entry, st) == [ev |-> e, dest |-> d, dl |-> entry, status |-> st]
NoJob == JobOf(None, None, 0, "none")

\* down: not running.  sweep: prune has committed and dead-letters the rows it took.  enq:
\* enqueue_pending has found room and inserts next.  mark: a redrive is about
\* to record its outcome.  claim: claim_pending has selected rows.  bury: an
\* exhausted row is dead-lettered and about to be deleted.
Ops == {"down", "ready", "sweep", "enq", "mark", "claim", "bury"}

VARIABLES
    now,
    pending, dead,             \* the tables
    nextRow, nextDead,         \* AUTOINCREMENT of pending.id; ULIDs of dead_letter
    op, job,                   \* per process: the call in progress
    swept,                     \* per process: rows prune deleted, not yet dead-lettered
    selected,                  \* the daemon's rows between two statements of one call
    claimed, sent,             \* the daemon's copies of claimed rows: to send, awaiting ack
    addressed,                 \* history: events queued, with their destination
    released,                  \* history: acked, or dropped with a warning or on request
    torn                       \* history: lost with a process that died

tables == <<pending, dead>>
ids == <<nextRow, nextDead>>
copies == <<selected, claimed, sent>>
history == <<addressed, released, torn>>
vars == <<now, tables, ids, op, job, swept, copies, history>>

TypeOK ==
    /\ now \in Nat
    /\ pending \subseteq PendingRow
    /\ dead \subseteq DeadRow
    /\ nextRow \in Nat \ {0} /\ nextDead \in Nat \ {0}
    /\ op \in [Procs -> Ops]
    /\ job \in [Procs -> Job]
    /\ swept \in [Procs -> SUBSET PendingRow]
    /\ selected \subseteq PendingRow
    /\ claimed \subseteq PendingRow /\ sent \subseteq PendingRow
    /\ addressed \subseteq Events \X Names
    /\ released \subseteq Events /\ torn \subseteq Events

Init ==
    /\ now = 0
    /\ pending = {} /\ dead = {}
    /\ nextRow = 1 /\ nextDead = 1
    /\ op = [p \in Procs |-> "down"]
    /\ job = [p \in Procs |-> NoJob]
    /\ swept = [p \in Procs |-> {}]
    /\ selected = {} /\ claimed = {} /\ sent = {}
    /\ addressed = {} /\ released = {} /\ torn = {}

-----------------------------------------------------------------------------
(* the next-session queue *)

\* Mutant: the comparison is off by one.
QueueFullOffByOne == Cardinality(pending) > PendingMaxRows
QueueFull == Cardinality(pending) >= PendingMaxRows

\* enqueue_pending called by the router for destination d, its SELECT
\* COUNT(*): a full queue refuses.  The read runs outside any transaction, so
\* the count may be stale when the row goes in.
EnqueueCount(e, d) ==
    /\ op[Daemon] = "ready"
    /\ ~QueueFull
    /\ op' = [op EXCEPT ![Daemon] = "enq"]
    /\ job' = [job EXCEPT ![Daemon] = JobOf(e, d, 0, "none")]
    /\ UNCHANGED <<now, tables, ids, swept, copies, history>>

\* enqueue_pending, its INSERT OR IGNORE (event_id is UNIQUE) of job[p] under
\* row id n.
InsertAs(p, n) ==
    LET e == job[p].ev
        row == [id |-> n, ev |-> e, dest |-> job[p].dest, exp |-> now + PendingTtl, att |-> 0]
    IN IF \E r \in pending : r.ev = e
         THEN UNCHANGED <<pending, nextRow, released, torn>>
         ELSE /\ nextRow <= MaxRows
              /\ pending' = pending \cup {row}
              /\ nextRow' = nextRow + 1
              /\ released' = released \ {e}
              /\ torn' = torn \ {e}

\* Mutant: pending.id without AUTOINCREMENT is one more than the highest in use.
InsertReusingIds(p) ==
    InsertAs(p, CHOOSE i \in 1..(MaxRows + 1) :
                  /\ \A r \in pending : r.id < i
                  /\ i = 1 \/ \E r \in pending : r.id = i - 1)
Insert(p) == InsertAs(p, nextRow)

EnqueueInsert ==
    /\ op[Daemon] = "enq"
    /\ Insert(Daemon)
    /\ addressed' = addressed \cup {<<job[Daemon].ev, job[Daemon].dest>>}
    /\ op' = [op EXCEPT ![Daemon] = "ready"]
    /\ job' = [job EXCEPT ![Daemon] = NoJob]
    /\ UNCHANGED <<now, dead, nextDead, swept, copies>>

\* Rows claim_pending may hand out for destination d, oldest ids first.
Claimable(d) == {r \in pending : r.dest = d /\ r.exp > now}
FirstClaimable(d) ==
    {r \in Claimable(d) : Cardinality({s \in Claimable(d) : s.id < r.id}) < ClaimLimit}

\* claim_pending, its SELECT.
ClaimSelect(d) ==
    /\ op[Daemon] = "ready" /\ FirstClaimable(d) # {}
    /\ \A r \in FirstClaimable(d) : r.att < MaxClaims
    /\ selected' = FirstClaimable(d)
    /\ op' = [op EXCEPT ![Daemon] = "claim"]
    /\ UNCHANGED <<now, tables, ids, job, swept, claimed, sent, history>>

Attempted(r) == [id |-> r.id, ev |-> r.ev, dest |-> r.dest, exp |-> r.exp, att |-> r.att + 1]

\* claim_pending, its UPDATE: the selected rows still there gain an attempt;
\* every selected row is returned with its attempt counted.
ClaimUpdate ==
    /\ op[Daemon] = "claim"
    /\ pending' = {IF \E s \in selected : s.id = r.id THEN Attempted(r) ELSE r : r \in pending}
    /\ claimed' = claimed \cup {Attempted(s) : s \in selected}
    /\ selected' = {}
    /\ op' = [op EXCEPT ![Daemon] = "ready"]
    /\ UNCHANGED <<now, dead, ids, job, swept, sent, history>>

\* Router._send_pending with attempts left: the frame goes out, or the send
\* fails and the copy is dropped.  The row itself stays.
SendPending(c) ==
    /\ op[Daemon] = "ready" /\ c \in claimed /\ c.att <= PendingMaxAttempts
    /\ claimed' = claimed \ {c}
    /\ sent' \in {sent, sent \cup {c}}
    /\ UNCHANGED <<now, tables, ids, op, job, swept, selected, history>>

\* The row store.dead_letter writes.
DeadLetterRow(kind, ref) ==
    [id |-> nextDead, kind |-> kind, ref |-> ref, made |-> now, status |-> "none"]

\* Router._send_pending with no attempt left: dead_letter commits ...
BuryExhausted(c) ==
    /\ op[Daemon] = "ready" /\ c \in claimed /\ c.att > PendingMaxAttempts
    /\ nextDead <= MaxDead
    /\ dead' = dead \cup {DeadLetterRow("next_session", c.ev)}
    /\ nextDead' = nextDead + 1
    /\ claimed' = claimed \ {c}
    /\ selected' = {c}
    /\ op' = [op EXCEPT ![Daemon] = "bury"]
    /\ UNCHANGED <<now, pending, nextRow, job, swept, sent, history>>

\* delete_pending deletes by row id, whatever the row holds.
DeletePending(rowIds) == pending' = {r \in pending : r.id \notin rowIds}

\* ... and the row goes in a transaction of its own.
DeleteExhausted ==
    /\ op[Daemon] = "bury"
    /\ DeletePending({s.id : s \in selected})
    /\ selected' = {}
    /\ op' = [op EXCEPT ![Daemon] = "ready"]
    /\ UNCHANGED <<now, dead, ids, job, swept, claimed, sent, history>>

\* Router._settle_pending: an ack deletes the row ...
SettleAck(c) ==
    /\ op[Daemon] = "ready" /\ c \in sent
    /\ sent' = sent \ {c}
    /\ DeletePending({c.id})
    /\ released' = released \cup {c.ev}
    /\ UNCHANGED <<now, dead, ids, op, job, swept, selected, claimed, addressed, torn>>

\* ... a nack, a timeout or a cancelled waiter leaves it queued.
SettleUnacked(c) ==
    /\ op[Daemon] = "ready" /\ c \in sent
    /\ sent' = sent \ {c}
    /\ UNCHANGED <<now, tables, ids, op, job, swept, selected, claimed, history>>

-----------------------------------------------------------------------------
(* dead letters *)

\* dead_letter, called by Outbox and HumanDelivery.
DeadLetterAlert(kind, a) ==
    /\ op[Daemon] = "ready" /\ nextDead <= MaxDead
    /\ dead' = dead \cup {DeadLetterRow(kind, a)}
    /\ nextDead' = nextDead + 1
    /\ UNCHANGED <<now, pending, nextRow, op, job, swept, copies, history>>

\* Mutant: enqueue_pending leaves a missing destination NULL.
RedriveWithoutDefault(p, dl) ==
    /\ op[p] = "ready" /\ dl \in dead /\ dl.kind = "next_session" /\ ~QueueFull
    /\ job' = [job EXCEPT ![p] = JobOf(dl.ref, None, dl.id, "none")]
    /\ op' = [op EXCEPT ![p] = "enq"]
    /\ UNCHANGED <<now, tables, ids, swept, copies, history>>

\* dead-letter redrive of a next_session entry: enqueue_pending(entry.payload)
\* with no destination, which defaults to the event's source.
RedriveCount(p, dl) ==
    /\ op[p] = "ready" /\ dl \in dead /\ dl.kind = "next_session"
    /\ job' = [job EXCEPT ![p] = JobOf(dl.ref, Source[dl.ref], dl.id,
                                      IF QueueFull THEN "failed" ELSE "none")]
    /\ op' = [op EXCEPT ![p] = IF QueueFull THEN "mark" ELSE "enq"]
    /\ UNCHANGED <<now, tables, ids, swept, copies, history>>

RedriveInsert(p) ==
    /\ op[p] = "enq"
    /\ Insert(p)
    /\ job' = [job EXCEPT ![p] = JobOf(job[p].ev, job[p].dest, job[p].dl,
                 IF \E r \in pending : r.ev = job[p].ev THEN "failed" ELSE "ok")]
    /\ op' = [op EXCEPT ![p] = "mark"]
    /\ UNCHANGED <<now, dead, nextDead, swept, copies, addressed>>

\* redrive of a reply or a human_delivery: sent again outside the store, with
\* either outcome.
RedriveAlert(p, dl, status) ==
    /\ op[p] = "ready" /\ dl \in dead /\ dl.kind # "next_session"
    /\ job' = [job EXCEPT ![p] = JobOf(dl.ref, None, dl.id, status)]
    /\ op' = [op EXCEPT ![p] = "mark"]
    /\ UNCHANGED <<now, tables, ids, swept, copies, history>>

\* Mutant: the entry is marked redriven although the queue refused the event.
MarkedOk(d, st) == [id |-> d.id, kind |-> d.kind, ref |-> d.ref, made |-> d.made, status |-> "ok"]
Marked(d, st) == [id |-> d.id, kind |-> d.kind, ref |-> d.ref, made |-> d.made, status |-> st]

\* mark_redriven, after which the command ends.
MarkRedriven(p) ==
    /\ op[p] = "mark"
    /\ dead' = {IF d.id = job[p].dl THEN Marked(d, job[p].status) ELSE d : d \in dead}
    /\ op' = [op EXCEPT ![p] = "down"]
    /\ job' = [job EXCEPT ![p] = NoJob]
    /\ UNCHANGED <<now, pending, ids, swept, copies, history>>

\* Events whose un-redriven next_session entry is among rows D.
EventsIn(D) == {e \in Events : \E d \in D : d.kind = "next_session" /\ d.ref = e /\ d.status # "ok"}

\* purge_dead_letters: entries made before the cutoff (now + 1: all of them).
Purge(p, cutoff, redrivenOnly) ==
    LET gone == {d \in dead : d.made < cutoff /\ (redrivenOnly => d.status = "ok")}
    IN /\ op[p] = "ready"
       /\ dead' = dead \ gone
       /\ released' = released \cup EventsIn(gone)
       /\ op' = [op EXCEPT ![p] = "down"]
       /\ UNCHANGED <<now, pending, ids, job, swept, copies, addressed, torn>>

\* Any other command ends after it has opened the store.
CliExit(p) ==
    /\ op[p] = "ready"
    /\ op' = [op EXCEPT ![p] = "down"]
    /\ UNCHANGED <<now, tables, ids, job, swept, copies, history>>

-----------------------------------------------------------------------------
(* retention *)

\* ORDER BY (redrive_status = 'ok') DESC: the comparison yields 1, 0, or NULL
\* for an entry never redriven, and NULL sorts last in descending order.  An
\* alert whose redrive failed is therefore evicted before a queue entry that
\* nobody redrove, which store.py:44-47 says cannot be.
OkRank(d) == CASE d.status = "ok" -> 0 [] d.status = "failed" -> 1 [] OTHER -> 2
KindRank(d) ==
    CASE d.kind = "human_delivery" -> 2 [] d.kind = "reply" -> 1 [] OTHER -> 0
EvictedBefore(c, d) ==
    \/ OkRank(c) < OkRank(d)
    \/ OkRank(c) = OkRank(d) /\ KindRank(c) < KindRank(d)
    \/ OkRank(c) = OkRank(d) /\ KindRank(c) = KindRank(d) /\ c.made < d.made

DeadLive == {d \in dead : ~(d.made < now - DeadTtl)}
\* V: the entries above the cap, the least valuable first.
DeadOverCap(V) ==
    /\ V \subseteq DeadLive
    /\ Cardinality(DeadLive \ V) =
         IF Cardinality(DeadLive) > DeadMaxRows THEN DeadMaxRows ELSE Cardinality(DeadLive)
    /\ \A v \in V, s \in DeadLive \ V : ~EvictedBefore(s, v)

Expired == {r \in pending : r.exp <= now}

\* prune, its one transaction: when a process opens the store, when ingest
\* has recorded enough events, and by `pending prune`.
PruneTxn(p) ==
    /\ op[p] \in {"down", "ready"}
    /\ pending' = pending \ Expired
    /\ swept' = [swept EXCEPT ![p] = Expired]
    /\ \E V \in SUBSET DeadLive :
         /\ DeadOverCap(V)
         /\ dead' = DeadLive \ V
         /\ released' = released \cup EventsIn(dead \ (DeadLive \ V))
    /\ op' = [op EXCEPT ![p] = "sweep"]
    /\ UNCHANGED <<now, ids, job, copies, addressed, torn>>

\* prune, after its commit: each expired row is dead-lettered on its own ...
SweepRow(p, r) ==
    /\ op[p] = "sweep" /\ r \in swept[p] /\ nextDead <= MaxDead
    /\ dead' = dead \cup {DeadLetterRow("next_session", r.ev)}
    /\ nextDead' = nextDead + 1
    /\ swept' = [swept EXCEPT ![p] = @ \ {r}]
    /\ UNCHANGED <<now, pending, nextRow, op, job, copies, history>>

\* ... and prune returns.
SweepDone(p) ==
    /\ op[p] = "sweep" /\ swept[p] = {}
    /\ op' = [op EXCEPT ![p] = "ready"]
    /\ UNCHANGED <<now, tables, ids, job, swept, copies, history>>

-----------------------------------------------------------------------------
(* the environment *)

\* A process dies, or a store call in it raises and ends the command.
Crash(p) ==
    /\ op[p] # "down"
    /\ op' = [op EXCEPT ![p] = "down"]
    /\ job' = [job EXCEPT ![p] = NoJob]
    /\ swept' = [swept EXCEPT ![p] = {}]
    /\ torn' = torn \cup {r.ev : r \in swept[p]}
    /\ IF p = Daemon THEN selected' = {} /\ claimed' = {} /\ sent' = {} ELSE UNCHANGED copies
    /\ UNCHANGED <<now, tables, ids, addressed, released>>

Tick ==
    /\ now < MaxTime
    /\ now' = now + 1
    /\ UNCHANGED <<tables, ids, op, job, swept, copies, history>>

Next ==
    \/ \E e \in Events, d \in Names : EnqueueCount(e, d)
    \/ EnqueueInsert
    \/ \E d \in Names : ClaimSelect(d)
    \/ ClaimUpdate
    \/ \E c \in claimed : SendPending(c) \/ BuryExhausted(c)
    \/ DeleteExhausted
    \/ \E c \in sent : SettleAck(c) \/ SettleUnacked(c)
    \/ \E a \in Alerts, k \in {"reply", "human_delivery"} : DeadLetterAlert(k, a)
    \/ \E p \in Clis, dl \in dead : RedriveCount(p, dl)
    \/ \E p \in Clis, dl \in dead, s \in {"ok", "failed"} : RedriveAlert(p, dl, s)
    \/ \E p \in Clis : RedriveInsert(p) \/ MarkRedriven(p) \/ CliExit(p)
    \/ \E p \in Clis, c \in 0..(now + 1), o \in BOOLEAN : Purge(p, c, o)
    \/ \E p \in Procs : PruneTxn(p) \/ SweepDone(p) \/ Crash(p)
    \/ \E p \in Procs : \E r \in swept[p] : SweepRow(p, r)
    \/ Tick

Spec == Init /\ [][Next]_vars

-----------------------------------------------------------------------------
(* properties *)

\* A dead-letter entry that a redrive is about to mark 'ok'.
BeingMarkedOk(d) == \E p \in Procs : op[p] = "mark" /\ job[p].status = "ok" /\ job[p].dl = d.id

\* The store still holds e where delivery or an operator will find it: in the
\* queue, in the hands of a running prune, or in an entry not redriven.
InQueue(e) == \E r \in pending : r.ev = e
InSweep(e) == \E p \in Procs : \E r \in swept[p] : r.ev = e
InDead(e) == \E d \in dead : /\ d.kind = "next_session" /\ d.ref = e /\ d.status # "ok"
                             /\ ~BeingMarkedOk(d)
Held(e) == InQueue(e) \/ InSweep(e) \/ InDead(e)

\* A queued event leaves the store only by an ack, by a retention step that
\* warns or a purge the operator asked for, or with a process that dies between
\* prune's commit and its dead-letter writes (store.py:34-36, README.md:164-167:
\* "dead-lettered rather than dropped").  Acks by row id, redrives, exhausted
\* rows and concurrent prunes of other processes never lose one.
Queued == {e \in Events : \E d \in Names : <<e, d>> \in addressed}
NoSilentLoss == \A e \in Queued : Held(e) \/ e \in released \cup torn

\* pending_max_rows bounds the queue up to one row per other process that
\* counted before this one inserted (enqueue_pending counts outside the
\* transaction that inserts).
QueueCap ==
    Cardinality(pending) + Cardinality({p \in Procs : op[p] = "enq"})
        <= PendingMaxRows + Cardinality(Clis)

\* Where the store keeps an event.  An entry counts until its redrive is
\* recorded as successful.
HasEntry(e) == \E d \in dead : d.kind = "next_session" /\ d.ref = e /\ d.status # "ok"
PlacesOf(e) ==
    {pl \in {"queue", "prune", "dead"} :
        \/ pl = "queue" /\ InQueue(e)
        \/ pl = "prune" /\ InSweep(e)
        \/ pl = "dead" /\ HasEntry(e)}

Kept == INSTANCE Custody WITH at <- [e \in Events |-> PlacesOf(e)], gone <- released, lost <- torn

\* The store keeps what Custody promises, transaction by transaction: an event
\* is handed from the queue to a prune to the dead letters, and let go of only
\* by an ack, a retention step or a crash.
KeepsCustody == Kept!Spec
=============================================================================

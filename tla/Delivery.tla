------------------------------ MODULE Delivery ------------------------------
(***************************************************************************)
(* What leaves the daemon for people and for callbacks: HumanDelivery      *)
(* (daemon/src/agent_waked/delivery.py) with its webhook and email         *)
(* channels, the Outbox that relays replies (outbox.py), the shutdown that *)
(* has to leave a record of both (main.py, ingest.py) and the operator's   *)
(* redrive (cli/queue.py), which runs the same code in its own process.    *)
(* A job is one process's work on one item.  Every job runs from one await *)
(* to the next; a cancellation or a crash strikes between two such runs.   *)
(* The dead_letter table is reduced to one entry per item (module          *)
(* WakeStore has the rest): the daemon works on an item once.              *)
(***************************************************************************)
EXTENDS Integers, FiniteSets

CONSTANTS
    Alerts, Replies,   \* events with a meta.target; replies of adapters
    Daemon, Clis,      \* the processes that deliver
    ChannelsOf,        \* ChannelsOf[i]: the channels configured for item i
    None,
    MaxTries,          \* _MAX_RETRIES of the webhook channel and of the outbox
    StoreFails,        \* whether a dead-letter write can fail on an open store
    CanCrash,          \* whether a process may be killed
    MaxRedrives        \* exploration bound: redrives in all

Items == Alerts \cup Replies
Procs == {Daemon} \cup Clis
Jobs == Procs \X Items
Kinds == {"webhook", "email", "callback"}

ASSUME DeliveryConstants ==
    /\ Alerts \cap Replies = {}
    /\ Daemon \notin Clis
    /\ ChannelsOf \in [Items -> SUBSET Kinds]
    /\ \A a \in Alerts : "callback" \notin ChannelsOf[a]
    /\ \A r \in Replies : ChannelsOf[r] = {"callback"}
    /\ None \notin Kinds
    /\ MaxTries \in Nat \ {0} /\ MaxRedrives \in Nat
    /\ {StoreFails, CanCrash} \subseteq BOOLEAN

\* Where a job waits: a URL check or a secret, a POST, the sleep between two
\* attempts, the SMTP thread.
Waiting == {"preparing", "posting", "backoff", "mailing"}
\* marking: a redrive has its result and is about to record it.  no_callback:
\* the reply has nowhere to go.
Places == Waiting \cup {"idle", "marking", "no_callback", "ended", "cancelled", "killed"}
\* _shutdown: handlers finish, deliveries drain, the rest is cancelled, the
\* outbox is closed, the store is closed, asyncio.run ends what is left.
Stages == {"up", "handlers", "drain", "force", "outbox", "closed", "exited"}

VARIABLES
    stage,                 \* the daemon's life
    at, todo, cur, tries,  \* per job: where it waits, channels to go, the channel it
                           \* is on, attempts made there
    good, bad, skip,       \* per job: channels that took the item, that failed, that
                           \* are left alone
    entry, done, mark,     \* dead_letter: items, delivered_channels, redrive_status
    lost, unknown,         \* health: lost_alerts, events of unknown_principals
    survivors,             \* history: alerts that outlived FORCE_DRAIN_TIMEOUT
    acked,                 \* history: channels that reported the item as delivered
    redrove, redrives      \* history: items a redrive landed somewhere; redrives

job == <<at, todo, cur, tries, good, bad, skip>>
table == <<entry, done, mark>>
health == <<lost, unknown>>
vars == <<stage, job, table, health, survivors, acked, redrove, redrives>>

TypeOK ==
    /\ stage \in Stages
    /\ at \in [Jobs -> Places]
    /\ todo \in [Jobs -> SUBSET Kinds] /\ cur \in [Jobs -> Kinds \cup {None}]
    /\ tries \in [Jobs -> 0..(MaxTries - 1)]
    /\ good \in [Jobs -> SUBSET Kinds] /\ bad \in [Jobs -> SUBSET Kinds]
    /\ skip \in [Jobs -> SUBSET Kinds]
    /\ entry \subseteq Items /\ done \in [Items -> SUBSET Kinds]
    /\ mark \in [Items -> {"none", "ok", "failed"}]
    /\ lost \subseteq Alerts /\ unknown \subseteq Alerts /\ survivors \subseteq Alerts
    /\ acked \in [Items -> SUBSET Kinds]
    /\ redrove \subseteq Items /\ redrives \in Nat

Init ==
    /\ stage = "up"
    /\ at = [k \in Jobs |-> "idle"]
    /\ todo = [k \in Jobs |-> {}] /\ cur = [k \in Jobs |-> None]
    /\ tries = [k \in Jobs |-> 0]
    /\ good = [k \in Jobs |-> {}] /\ bad = [k \in Jobs |-> {}]
    /\ skip = [k \in Jobs |-> {}]
    /\ entry = {} /\ done = [i \in Items |-> {}] /\ mark = [i \in Items |-> "none"]
    /\ lost = {} /\ unknown = {} /\ survivors = {}
    /\ acked = [i \in Items |-> {}]
    /\ redrove = {} /\ redrives = 0

-----------------------------------------------------------------------------
(* dead letters *)

StoreClosed == stage \in {"closed", "exited"}

\* Mutant: the entry does not say what has landed.
BuryForgetful(i, D) ==
    /\ entry' = entry \cup {i} /\ done' = [done EXCEPT ![i] = {}]
    /\ UNCHANGED lost
\* _dead_letter: the write, or the error of a store that is closed or locked,
\* which HumanDelivery counts and the Outbox passes on to the frame loop.
Bury(i, D) ==
    \/ /\ ~StoreClosed
       /\ entry' = entry \cup {i} /\ done' = [done EXCEPT ![i] = D]
       /\ UNCHANGED lost
    \/ /\ StoreClosed \/ StoreFails
       /\ lost' = IF i \in Alerts THEN lost \cup {i} ELSE lost
       /\ UNCHANGED <<entry, done>>

\* The job has its result.  The daemon's dead-letters what it owes; a
\* redrive's has no store and hands the result to the command.
Ends(k, ok, D) ==
    /\ at' = [at EXCEPT ![k] = IF k[1] = Daemon THEN "ended" ELSE "marking"]
    /\ IF k[1] = Daemon /\ ~ok
         THEN Bury(k[2], D) ELSE UNCHANGED <<entry, done, lost>>

-----------------------------------------------------------------------------
(* HumanDelivery.deliver *)

\* One channel after another; their order is the operator's.
NextChannel(k, rest) ==
    /\ todo' = [todo EXCEPT ![k] = rest]
    /\ \E c \in rest : cur' = [cur EXCEPT ![k] = c]
    /\ tries' = [tries EXCEPT ![k] = 0]

\* Mutant: a channel that landed before is not left alone.
OwedAll(i, S) == ChannelsOf[i]
Owed(i, S) == ChannelsOf[i] \ S

\* deliver starts on an alert, the channels in S being left alone: a reload has
\* taken its principal away since the alert was dispatched ...
PrincipalGone(k, S) ==
    /\ skip' = [skip EXCEPT ![k] = S]
    /\ good' = [good EXCEPT ![k] = {}] /\ bad' = [bad EXCEPT ![k] = ChannelsOf[k[2]]]
    /\ Ends(k, TRUE, S)
    /\ unknown' = IF k[1] = Daemon THEN unknown \cup {k[2]} ELSE unknown
    /\ UNCHANGED <<todo, cur, tries>>

\* ... or no channel configured, none left, or on to the first.
StartChannels(k, S) ==
    LET owed == Owed(k[2], S) IN
    /\ skip' = [skip EXCEPT ![k] = S]
    /\ good' = [good EXCEPT ![k] = {}] /\ bad' = [bad EXCEPT ![k] = {}]
    /\ IF owed = {}
         THEN /\ Ends(k, ChannelsOf[k[2]] # {}, S)
              /\ UNCHANGED <<todo, cur, tries>>
         ELSE /\ NextChannel(k, owed)
              /\ at' = [at EXCEPT ![k] = "preparing"]
              /\ UNCHANGED <<entry, done, lost>>
    /\ UNCHANGED unknown

StartAlert(k, S) == PrincipalGone(k, S) \/ StartChannels(k, S)

\* Outbox.deliver starts on a reply: no callback, a callback that is refused,
\* or the first POST.
StartReply(k) ==
    /\ skip' = [skip EXCEPT ![k] = {}] /\ good' = [good EXCEPT ![k] = {}]
    /\ \/ /\ at' = [at EXCEPT ![k] = IF k[1] = Daemon THEN "no_callback" ELSE "marking"]
          /\ bad' = [bad EXCEPT ![k] = {"callback"}]
          /\ UNCHANGED <<todo, cur, tries, entry, done, lost>>
       \/ /\ bad' = [bad EXCEPT ![k] = {"callback"}]
          /\ Ends(k, FALSE, {})
          /\ UNCHANGED <<todo, cur, tries>>
       \/ /\ at' = [at EXCEPT ![k] = "posting"]
          /\ bad' = [bad EXCEPT ![k] = {}]
          /\ NextChannel(k, {"callback"})
          /\ UNCHANGED <<entry, done, lost>>
    /\ UNCHANGED unknown

Start(k, S) ==
    /\ (k[2] \in Alerts /\ StartAlert(k, S)) \/ (k[2] \in Replies /\ StartReply(k))
    /\ UNCHANGED <<survivors, acked>>

\* The channel of k is through.  The last one decides the overall status:
\* anything but "delivered" is dead-lettered with what has landed so far.
ChannelEnds(k, ok) ==
    LET c == cur[k]
        g == IF ok THEN good[k] \cup {c} ELSE good[k]
        b == IF ok THEN bad[k] ELSE bad[k] \cup {c}
        rest == todo[k] \ {c}
    IN /\ good' = [good EXCEPT ![k] = g] /\ bad' = [bad EXCEPT ![k] = b]
       /\ acked' = [acked EXCEPT ![k[2]] = IF ok THEN @ \cup {c} ELSE @]
       /\ redrove' = IF ok /\ k[1] # Daemon THEN redrove \cup {k[2]} ELSE redrove
       /\ IF rest = {}
            THEN /\ Ends(k, b = {}, g \cup skip[k])
                 /\ todo' = [todo EXCEPT ![k] = {}]
                 /\ cur' = [cur EXCEPT ![k] = None] /\ tries' = [tries EXCEPT ![k] = 0]
            ELSE /\ NextChannel(k, rest)
                 /\ at' = [at EXCEPT ![k] = "preparing"]
                 /\ UNCHANGED <<entry, done, lost>>
       /\ UNCHANGED <<stage, skip, mark, unknown, survivors, redrives>>

Moves(k, place) ==
    /\ at' = [at EXCEPT ![k] = place]
    /\ UNCHANGED <<stage, todo, cur, good, bad, skip, table, health, survivors, acked, redrove,
                   redrives>>

\* From here on the tasks of alerts are cancelled.
Cancelled == {"force", "outbox", "closed"}

\* A job of a process that runs; once its task is cancelled it does nothing else.
Runs(k) ==
    k[1] = Daemon => stage # "exited" /\ (k[2] \in Alerts => stage \notin Cancelled)

\* The URL check and the secret of the channel, or either fails.
Prepared(k) ==
    /\ Runs(k) /\ at[k] = "preparing"
    /\ \/ /\ Moves(k, IF cur[k] = "email" THEN "mailing" ELSE "posting")
          /\ UNCHANGED tries
       \/ ChannelEnds(k, FALSE)

\* Mutant: an attempt is not counted.
RetryForever(k) == Moves(k, "backoff") /\ UNCHANGED tries
\* An attempt that failed: sleep and try again, or give up after the last.
Retry(k) ==
    IF tries[k] + 1 < MaxTries
      THEN Moves(k, "backoff") /\ tries' = [tries EXCEPT ![k] = @ + 1]
      ELSE ChannelEnds(k, FALSE)

SessionOpen(k) == k[1] = Daemon /\ k[2] \in Replies => stage \notin {"outbox", "closed"}

\* The POST is answered 2xx or not, times out, or fails with the session
\* closed; the webhook channel also gives up when its URL is no longer safe.
Posted(k) ==
    /\ Runs(k) /\ at[k] = "posting"
    /\ \/ SessionOpen(k) /\ ChannelEnds(k, TRUE)
       \/ Retry(k)
       \/ cur[k] = "webhook" /\ ChannelEnds(k, FALSE)

BackoffOver(k) ==
    /\ Runs(k) /\ at[k] = "backoff"
    /\ Moves(k, "posting") /\ UNCHANGED tries

\* _smtp_send returns in its thread, or raises.
Mailed(k) ==
    /\ Runs(k) /\ at[k] = "mailing"
    /\ \E ok \in BOOLEAN : ChannelEnds(k, ok)

JobStep(k) == Prepared(k) \/ Posted(k) \/ BackoffOver(k) \/ Mailed(k)

-----------------------------------------------------------------------------
(* where jobs come from *)

\* post_root dispatches an alert, the frame loop reads a reply (a frame in
\* the reader's buffer outlives the close of its connection).  The task of an
\* alert runs in the loop's next round, which is not told apart from this one.
Accepts(i) == stage \in (IF i \in Alerts THEN {"up", "handlers"} ELSE Stages \ {"exited"})

Accept(i) ==
    /\ Accepts(i)
    /\ at[<<Daemon, i>>] = "idle"
    /\ Start(<<Daemon, i>>, {})
    /\ UNCHANGED <<stage, mark, redrove, redrives>>

\* agent-wake dead-letter redrive: one entry, whatever its redrive_status.
Redrive(p, i) ==
    /\ i \in entry /\ redrives < MaxRedrives
    /\ \A j \in Items : at[<<p, j>>] = "idle"
    /\ redrives' = redrives + 1
    /\ Start(<<p, i>>, done[i])
    /\ UNCHANGED <<stage, mark, redrove>>

RedriveOk(k) == bad[k] = {} /\ ChannelsOf[k[2]] # {}

\* The command is over, and what it knew is gone with it.
CommandEnds(k) ==
    /\ at' = [at EXCEPT ![k] = "idle"]
    /\ todo' = [todo EXCEPT ![k] = {}] /\ cur' = [cur EXCEPT ![k] = None]
    /\ tries' = [tries EXCEPT ![k] = 0]
    /\ good' = [good EXCEPT ![k] = {}] /\ bad' = [bad EXCEPT ![k] = {}]
    /\ skip' = [skip EXCEPT ![k] = {}]
    /\ UNCHANGED <<stage, entry, done, health, survivors, acked, redrove, redrives>>

MarkRedriven(k) ==
    /\ at[k] = "marking"
    /\ mark' = [mark EXCEPT ![k[2]] = IF RedriveOk(k) THEN "ok" ELSE "failed"]
    /\ CommandEnds(k)

\* The operator interrupts the command, or it dies: nothing is recorded.
CliKilled(k) ==
    /\ CanCrash /\ k[1] # Daemon /\ at[k] # "idle"
    /\ CommandEnds(k) /\ UNCHANGED mark

-----------------------------------------------------------------------------
(* _shutdown *)

Enter(from, to) ==
    /\ stage = from /\ stage' = to
    /\ UNCHANGED <<job, table, health, acked, redrove, redrives>>

\* SIGTERM: socket_server.close, the listener closes; request handlers have
\* their grace; then on_cleanup drains the deliveries for a while and cancels
\* what is left, which force_drain_delivery_tasks does once more.
StopAccepting == Enter("up", "handlers") /\ UNCHANGED survivors
HandlersFinish == Enter("handlers", "drain") /\ UNCHANGED survivors
DrainEnds == Enter("drain", "force") /\ UNCHANGED survivors

\* Mutants: the delivery takes the cancellation for one more channel error, or
\* has no arm for it.
CancelSwallowed(a) ==
    /\ stage \in Cancelled /\ at[<<Daemon, a>>] \in Waiting
    /\ UNCHANGED vars
CancelUnhandled(a) ==
    /\ stage \in Cancelled /\ at[<<Daemon, a>>] \in Waiting
    /\ at' = [at EXCEPT ![<<Daemon, a>>] = "cancelled"]
    /\ UNCHANGED <<stage, todo, cur, tries, good, bad, skip, table, health, survivors, acked,
                   redrove, redrives>>
\* The CancelledError arm of HumanDelivery.deliver.
CancelDelivery(a) ==
    LET k == <<Daemon, a>> IN
    /\ stage \in Cancelled /\ at[k] \in Waiting
    /\ Bury(a, good[k] \cup skip[k])
    /\ at' = [at EXCEPT ![k] = "cancelled"]
    /\ todo' = [todo EXCEPT ![k] = {}] /\ cur' = [cur EXCEPT ![k] = None]
    /\ tries' = [tries EXCEPT ![k] = 0]
    /\ UNCHANGED <<stage, good, bad, skip, mark, unknown, survivors, acked, redrove, redrives>>

\* The cancelled tasks are awaited for FORCE_DRAIN_TIMEOUT, and the shutdown
\* goes on whether they have ended or not: router.shutdown, outbox.close ...
Forced ==
    /\ Enter("force", "outbox")
    /\ survivors' = {a \in Alerts : at[<<Daemon, a>>] \in Waiting}
\* ... delivery.close, store.close.
StoreCloses == Enter("outbox", "closed") /\ UNCHANGED survivors

\* asyncio.run cancels the tasks that are left and waits for them, however long:
\* a survivor finds the store closed, a reply leaves nothing.
AllCancelled == \A a \in Alerts : at[<<Daemon, a>>] \notin Waiting
Exit ==
    /\ stage = "closed" /\ AllCancelled /\ stage' = "exited"
    /\ at' = [k \in Jobs |-> IF k[1] = Daemon /\ at[k] \in Waiting THEN "cancelled" ELSE at[k]]
    /\ UNCHANGED <<todo, cur, tries, good, bad, skip, table, health, survivors, acked, redrove,
                   redrives>>

DaemonCrash ==
    /\ CanCrash /\ stage # "exited" /\ stage' = "exited"
    /\ at' = [k \in Jobs |-> IF k[1] = Daemon /\ at[k] \in Waiting THEN "killed" ELSE at[k]]
    /\ UNCHANGED <<todo, cur, tries, good, bad, skip, table, health, survivors, acked, redrove,
                   redrives>>

Shutdown == HandlersFinish \/ DrainEnds \/ Forced \/ StoreCloses \/ Exit

Next ==
    \/ \E i \in Items : Accept(i)
    \/ \E k \in Jobs : JobStep(k)
    \/ \E p \in Clis, i \in Items : Redrive(p, i)
    \/ \E k \in Jobs : MarkRedriven(k) \/ CliKilled(k)
    \/ StopAccepting \/ Shutdown
    \/ \E a \in Alerts : CancelDelivery(a)
    \/ DaemonCrash

Spec == Init /\ [][Next]_vars

\* Every wait is over in the end: POSTs and SMTP have timeouts, sleeps and
\* the stages of the shutdown are bounded.
Fairness ==
    /\ \A k \in Jobs : WF_vars(JobStep(k)) /\ WF_vars(MarkRedriven(k))
    /\ \A a \in Alerts : WF_vars(CancelDelivery(a))
    /\ WF_vars(Shutdown)
FairSpec == Spec /\ Fairness

-----------------------------------------------------------------------------
(* properties *)

Landed(i) == ChannelsOf[i] # {} /\ ChannelsOf[i] \subseteq acked[i]
\* How the daemon is done with an item; a reply ended after the store closed,
\* or cancelled with the event loop, is not claimed to be recorded.
Over(i) ==
    IF i \in Alerts THEN {"ended", "cancelled"}
    ELSE IF StoreClosed THEN {} ELSE {"ended"}

\* Once the daemon is done with an item it has landed everywhere, has a dead
\* letter, or is an alert that health counts, unless the open store refused the
\* write; and the shutdown costs an alert its dead letter only if its task
\* outlived FORCE_DRAIN_TIMEOUT.  "A routed alert that never landed survives a
\* restart" (delivery.py:105-109) is more than the code does: one whose principal
\* is gone when its task starts has no dead letter, and main.py:483-488 has a bound
\* where it says that nothing can still want the store.
NothingUnrecorded ==
    /\ \A i \in Items :
         at[<<Daemon, i>>] \in Over(i) =>
            Landed(i) \/ i \in entry \cup lost \cup unknown \/ (StoreFails /\ i \in Replies)
    /\ ~StoreFails => lost \subseteq survivors

\* A dead letter's delivered_channels and redrive_status are true: what it
\* lists has landed, the daemon's own deliveries are all listed, and "ok"
\* means that nothing is owed any more.
EntryTruthful ==
    \A i \in entry :
        /\ done[i] \subseteq acked[i]
        /\ good[<<Daemon, i>>] \subseteq done[i]
        /\ mark[i] = "ok" => Landed(i)

\* "Channels that already landed are not re-sent" (cli/queue.py:298-300): a job
\* never has a channel before it that reported the item as delivered, as long
\* as no redrive has landed anywhere (a redrive records no channels).
NoResend ==
    \A k \in Jobs : at[k] \in Waiting /\ k[2] \notin redrove => todo[k] \cap acked[k[2]] = {}

\* Every alert is settled: retries, timeouts and the shutdown are bounded.
AlertSettles ==
    \A a \in Alerts : at[<<Daemon, a>>] \in Waiting ~> at[<<Daemon, a>>] \notin Waiting
\* SIGTERM ends the daemon whatever the receivers do.
ShutdownEnds == stage = "handlers" ~> stage = "exited"
=============================================================================

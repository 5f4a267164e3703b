# A TLA+ model of agent-wake

agent-wake pushes external events (webhooks, alerts, cross-session messages)
into running agent sessions.  This directory holds a formal model of the parts
of it that are hard to test: the ingest and its live configuration, the durable
queue shared by several processes, the replay window, delivery over sockets that
block, hang and die, delivery to people through a shutdown, the two adapters, and
the rotation of secrets.  TLC checks the model on small instances; TLAPS proves
the safety of every component for every size.

Paths below are relative to `daemon/src/agent_waked/` unless they start with
another directory.

## The system

| Part | State | Operations | Modelled in |
|---|---|---|---|
| Durable queue, dead letters (`store.py`, `cli/queue.py`) | SQLite tables `pending` and `dead_letter`, shared by the daemon and operator commands | enqueue, claim, delete, dead-letter, redrive, purge, prune | `WakeStore` |
| Replay window (`store.py`, `ingest.py` `Dedupe`) | table `dedupe`, the insert counter | check-and-record, prune | `Dedupe` |
| Router (`router.py`) | subscribers, pending acks, in-flight counts | deliver, drain, settle, subscribe, evict | `Router` |
| Socket server (`socket_server.py`) | connections, ping state | handshake, frame loop, reply hand-over, heartbeat, cleanup | `Router` |
| Ingest (`ingest.py`, `gating.py`) | rate-limit buckets, in-memory replay FIFO | the gates of `post_root` in order, hand-over to the router and to delivery | `Ingest` |
| Addressing (`addressing.py`) | none | resolve a sender to destinations, out-of-band authority, migration of old files | `Addressing` |
| Secret resolver (`secrets/`) | cache with expiry | resolve, fetch in a thread, refresh all | `Ingest` |
| Human delivery (`delivery.py`, `channels/`) | running tasks, `lost_alerts` | dispatch, retry, dead-letter, cancel, redrive | `Delivery` |
| Outbox (`outbox.py`) | HTTP session | retry a callback, dead-letter | `Delivery`, `Router` |
| Lifecycle (`main.py`) | the live configuration | start, reload, shutdown | `Ingest`, `Secrets`, `Delivery` |
| Secret commands (`cli/secrets.py`) | env file, Vault, `config.json` | add, rotate, remove | `Secrets` |
| Claude adapter (`adapters/claude`) | connection, silent-event buffer, reply bus | reconnect, wake, flush, reply, permission relay | `Claude` |
| OpenCode adapter (`adapters/opencode`) | connection, labels, reply bus | reconnect, wake, subscribe, reply | `OpenCode` |
| Notify-on-idle (`idle-notify.ts`) | activity marks, ack and latch, POSTs in flight | mark, check, publish | `IdleNotify` |
| Wire protocol, configuration parsing, doctor, installers | none shared with the above | validation, file editing, I/O | not modelled |

An HTTP request enters `post_root`, passes the gates and the replay window,
starts a delivery task if it targets a person, and goes to `Router.deliver`, which writes a wake frame to the subscriber of each resolved
destination and starts a task that waits for the ack.  A destination without a
subscriber gets a queue row if the event asked for durable delivery; the next
session that says hello for the destination drains it.  Rows that expire or run
out of attempts become dead letters, which an operator redrives or purges from
another process.

What is hard here:

- every store call is one or more SQLite transactions, and another process may
  commit, or this one die, between two of them;
- the daemon is one event loop, and a task may lose control at each `await`:
  each socket write is a point where sessions come, go and are evicted;
- an adapter may die, or hang without dying, with or without data in the write
  buffer; an ack may be late, lost or overtaken by a timeout;
- the heartbeat must tell a busy adapter from a dead one;
- SIGHUP replaces the configuration under handlers that wait and under adapters
  that keep what they were granted; secrets rotate under the fetches for them;
- a shutdown cancels deliveries between two channels and has to leave a record;
- the Claude adapter flushes one buffer from two threads; the OpenCode adapter
  runs handlers of old and new connections side by side, and must not wake itself;
- operator commands change several files, one after the other, and can be killed
  between them;
- several bounds (queue, dead letters, dedupe rows, connections) are enforced
  by code that counts first and acts later.

`PROJECT.json` lists these one by one as hazards, each with the line where it
bites and the properties about it.

## Modules

### WakeStore

State: the two tables (`pending`, `dead`), their id counters, for each process
the call it is in (`op`, `job`), the rows a running prune has deleted and not yet dead-lettered
(`swept`), and the daemon's copies of rows (`selected`, `claimed`, `sent`).
An action is one transaction or one read outside a transaction.  Python's
`sqlite3` opens a transaction at the first write, so the `SELECT COUNT(*)` of
`enqueue_pending` and the `SELECT` of `claim_pending` are separate from the
write that follows: `EnqueueCount`/`EnqueueInsert`, `ClaimSelect`/`ClaimUpdate`,
`RedriveCount`/`RedriveInsert`/`MarkRedriven`.  `PruneTxn` is prune's single
transaction and `SweepRow` the dead-letter writes that follow its commit.
Inside the daemon a store call does not yield to the event loop, so `op[Daemon]`
admits one call at a time; operator processes interleave freely.  `Crash` ends a
process anywhere.

The three history variables tell the ways an event may leave: `released` (acked,
purged on request, or deleted by retention with a warning), `torn` (in the hands
of a prune whose process died), `addressed` (what the router queued where).

### Dedupe

State: the recorded ids with their time, the counter of checks since the last
prune, the daemon's state, and the ids the row cap removed.  `Check` is
`check_and_record_event`; when it is due, the prune is a second step, between
which the daemon may die (`Stop`).  `Start` opens the store and prunes;
`OtherProcessPrunes` is any operator command.

### Router

One module for `router.py` and `socket_server.py`, because their state is one
system: the connection handler registers with the router, the router evicts
connections the handler owns, and the heartbeat asks the router what is in
flight.  An action is what a task does between two awaits that may yield.

- Writes.  `StreamWriter.write` then `drain`: it returns at once
  (`WriteReturns`), raises (`WriteFails`), or waits while the buffer is above
  high water (`WriteWaits`, later `WaitReturns` or `WaitFails`).  Every write
  of a wake frame or a ping has all three outcomes.
- `DeliverSend`, `DeliverResume` and `DeliverEnd` are `Router.deliver`: the
  fan-out over `Route[e]`, with the wait in the middle, and the queueing of what
  failed.
- `Register`, `HelloAckSent`/`HelloAckFails`, `DrainDest`, `DrainBury`,
  `DrainSend`, `DrainResume`, `DrainDone`, `ReadAck`, `ReadPong`, `ReadReply`,
  `ReplySent`, `ReadEof`, `ReadBadFrame` follow a connection handler from the
  hello to its `finally` block (`Close`).
- `HeartbeatTick`, `HeartbeatMissed`, `HeartbeatPing`, `HeartbeatResume` are
  the heartbeat's pass over the connections.
- `PeerDies`, `PeerHangs`, `PeerReturns`, `PeerReads` are the adapter, which is
  outside the daemon; `Restart` is a crash or a shutdown of the daemon.

Two identifications keep it small.  The queue is reduced to its rows, of which an
event has one at a time (UNIQUE `event_id`), known by who made it: `deliver()`, or
a `Redrive` of its dead letter, which queues it under the name of its sender.
Resolution of addresses is the constant `Route`.  `HeartbeatTick` carries one timing assumption: within
`PING_INTERVAL` (30 s) an adapter that is up has answered the last ping and its
handler has read the answer, unless the handler is relaying a reply, which may
take the outbox three attempts of 30 s.

Router takes resolved addresses as a constant; Ingest resolves them and follows
the same fan-out as far as it decides who is sent to; so the two meet at `deliver`; Delivery and Router meet in the
reply that keeps a frame loop, WakeStore and Delivery in the dead letter (one
entry per item in Delivery, the whole table in WakeStore).

### Custody

The abstract specification of the durable queue, for one event at a time: it is
in the queue, in the hands of a prune, or dead-lettered; it moves between these,
and leaves for good only by an ack, by retention that warns or on request, or
with a process that dies in mid-prune.  `WakeStore!KeepsCustody` is
`Custody!Spec` under the mapping `PlacesOf`, where a dead letter counts until its
redrive is recorded as successful; `gone` is `released` and `lost` is `torn`.

### Addressing and Ingest

`Addressing` holds `addressing.py` as operators on a configuration record:
`Expand`, `RoutedDestinations`, `Resolve`, `OutOfBandPrincipals`,
`DestinationsForHello`, `DeriveFromLegacy`.  Destinations are a function from
their names, routes a set; the order of the file, which decides the order of a
fan-out and nothing else, is left out.

`Ingest` is `post_root` from one await to the next: `Begin` runs to the first
secret that has to be fetched, or to the answer; `FetchReads` is the thread,
`FetchReturns` what follows it.  `Gates`, `Admit` and `Deliver` are the rest of
the handler in the order of the code: signature, source bucket, identity, event,
replay window, out-of-band authority, router.  A handler keeps the `source_cfg`
it began with (`scfg`) and reads everything else from the configuration of the
moment (`cfg`), which `Reload` replaces.  `Deliver` resolves the destinations,
once, and `Serve` is the loop over them up to the next socket that is written
(`SendReturns`, `SendFails`); the loop goes on with the destinations it has, looks
up the subscriber of each when it comes to it, and evicts one whose write fails.
Every write is a wait here; how long it may last is in Router.  `RefreshReads`/`RefreshReturns` are
`refresh_all`, `Expire` the TTL, `Rotate` the owner of a Vault secret, `Hello`
and `Bye` an adapter.  A secret is its version number; a signature is the version
it was made with.

### Delivery

A job is one process's work on one item: the daemon's delivery of an alert or
relay of a reply, or a redrive of either.  It waits in `preparing` (URL check,
secret), `posting`, `backoff` or `mailing`.  `StartAlert` is its first step:
a reload may have taken the principal away since the alert was dispatched
(`PrincipalGone`).  `ChannelEnds` does what follows a
channel: the next, or the overall result with its dead letter (`Ends`, `Bury`).
`StopAccepting`, `HandlersFinish`, `DrainEnds`, `CancelDelivery`, `Forced`,
`StoreCloses` and `Exit` are `_shutdown`, `runner.cleanup` and the end of
`asyncio.run`.  `Forced` waits for the cancelled tasks no longer than
`FORCE_DRAIN_TIMEOUT` and notes in `survivors` those that have not ended; `Exit`,
the end of `asyncio.run`, waits for them without a bound.  `Redrive`, `MarkRedriven` and `CliKilled` are the operator's
command, whose `HumanDelivery` has no store.  The creation of a delivery task and its first
step are one action; what may happen between them is in its outcomes.

### Claude

`deferred` is the shared buffer; `loop` and `mcp` are what the event loop and the
MCP thread have taken from it and still have to write, so that a batch and the
frame it was taken for are separate writes.  `Wake` is a frame from the daemon:
silent events are buffered and acked, others take the buffer along.  `ToolsCall`
and `PermissionRequest` flush from the MCP thread.  `Send`, `Posts`, `WaitResult`
are the reply tool on its own thread.  Requests that the MCP thread answers by
itself are left out: `initialize`, `tools/list`, errors for an unknown tool or
method, and replies whose arguments the tool rejects.

### OpenCode and IdleNotify

`OpenCode` is the client: `Dial`, `Greets`, `Drop` and `Crash` for the
connection, `Subscribe`, `Unsubscribe` and `Delete` for labels, `Wake`, `Listed`,
`Prompted` for the handlers of wakes, which keep the connection they came from,
and `Reply`, `Posts`, `Result`, `TimesOut` for the reply bus.  A tool call may run
on after its session was deleted (`Calls`), and `labels.ts` does not ask.

`IdleNotify` is the notifier with the part of the daemon that decides where an
event goes.  The file (`doc`), what the daemon applied, what it granted on this
connection, and the adapter's own view (`ackConfirmed`, `accepted`, `latched`)
are five variables that change on their own.  A session is marked by a turn
(`Works`) or by a message without one (`Noted`), as a silent wake leaves it; `Checks` is the guard, `Arrives` and
`Hello` are where a published event may come back.

### Secrets

`Load`, then `Names` and `Appends` (or `WritesVault`), or `RemoveReads`, `Truncates`
and `Fills` for each URI of a source that is removed, then `Save` and `Finish` are
a command's steps in the order of the code, with `Crash` between any two and other
commands interleaved; every read, append, truncation and write of the env file is
a step of its own.  One detail is simplified: what is appended while a remove has
the file truncated is lost when the remove writes, although the end of a longer
appended text could survive behind it. `Reload`, `Fetch`, `Restart` are the daemon, whose environment is
the env file as it was at its start.

## Runs

| Run | Bounds | Shows |
|---|---|---|
| `store` | 2 events, 1 alert, 1 operator process, queue and dead-letter cap 1, 2 clock values, 2 rows of each table ever | `NoSilentLoss`, `QueueCap`, the refinement `KeepsCustody`, types |
| `router` | 2 sessions, 1 event to 2 of 3 destinations (caps 1 and 2), its sender named like the third, writes that block, 1 restart | `CapsHold`, `SessionScoped`, `QueuedUntilAcked` |
| `heartbeat` | 1 session, 1 event to 2 destinations, blocking and hanging, 2 forgiven pongs, fair | `InFlightCovers`, `BusyNotReaped`, `QuietPeerReaped`, `DeadPeerReleased`, `DeliverReturns`, types |
| `delivery` | an alert with 2 channels, one with none, a reply; 2 attempts, 2 redrives, crashes, fair | `NothingUnrecorded`, `EntryTruthful`, `NoResend`, `AlertSettles`, `ShutdownEnds` |
| `ingest` | 3 requests (2 with one id), 4 files of which 2 are refused, 1 reload, 1 rotation, 1 refill, burst 2, FIFO of 1, 2 adapters; beside it 5 ids, cap 2, interval 2, TTL 2, clock to 3 | `AdmittedOnce`, `ActsOnLiveConfig`, `ReachesSubscriber`, `SourceBucketClean`; of the durable window `ReplayRejected`, `DedupeBounded`, `ForgetsOldestFirst`, types; that a migrated file mints no authority, evaluated once |
| `idle_notify` | 2 sessions (1 marked), 1 mark, 1 turn and 1 message each, 2 connections, 2 edits, 1 restart | `LoopNeedsCrossed`, `WakesEarned`, `InFlightExact`, types |
| `opencode` | 2 sessions, 1 label, a labelled and a general wake, 1 reply, 2 connections, 2 claims, timers fair | `LabelsAgree`, `KeptUntilPrompted`, `ReplyReturns` |
| `claude` | 2 silent events and 1 other, 2 deliveries of each, buffer of 3, 2 reply calls | `SilentAccounted`, `RidesAlong`, types (the bound of the buffer) |
| `secrets` | 2 sources in the environment and one in Vault, 3 commands, 2 restarts | `OnlyRemoveCuts`, `StartVerifiesWindow`, types (at most two secrets a source) |

The bounds are the smallest at which each limit is reached and passed: a full
queue with a second process that has counted before it filled; more dead letters
than the cap; more ids than cap plus interval; a second claim of a row with one
attempt allowed, and the redrive of what it buries; two sessions competing for a
destination with room for one; a full FIFO and a replay behind it; an empty bucket; a
reload that revokes, while a fetch or a write is under way, everything the request
began with; a mark evicted by the next; a buffer that overflows; a second rotation,
which leaves a secret behind that the window no longer has; a remove of one source that has the variables of another in its hands.
`router` leaves the heartbeat out (`Pings = FALSE`), since closing a writer is
already possible through eviction; `heartbeat` has it in with one session, which
is the scope of its properties; adapters that hang are in the latter alone, since
to the former they are adapters that do not answer yet.  In `ingest` the durable
window and the handlers move one at a time, each while the other is as it began:
they share no variable.  `delivery` lets no dead-letter write fail on an
open store (`StoreFails = FALSE`), so that its claim is the strong one: with
such failures an alert is counted as lost instead, which is what `Bury` says.

Deadlock is checked in `store`.  Elsewhere supplies are finite
(connections, requests, turns, commands), and when all are used up nothing is
left to do.

Three further runs state what a comment or document says and show that the code
does something else:

| Run | Says | Does |
|---|---|---|
| `claude_reply` (`AwaitsResult`) | `adapters/claude/.../reply.py:5-6`: the tool "awaits the matching reply_result" | no one registers the id (lines 57-66), so `wait_result` returns at once and the agent is told of a timeout while the daemon delivers |
| `rotate_env` (`RotatedVerifies`) | `daemon/docs/secret-management.md:121`: "Sends SIGHUP to the running daemon (no restart needed)" | the new variable is not in the daemon's environment, `_reload_config` refuses the file (`main.py:229-237`), and the new secret verifies only after a restart |
| `idle_loop` (`NoLoop`) | `idle-notify.ts:422-426`: the loader rejects version 2 files, "so that combination cannot arise", and 435-442: the latch closes the window in which a file is applied and edited again | a version 2 file that leads back under another name, applied and edited away without a SIGHUP, clears every guard, and the wake comes back over the same connection |

Met while modelling, and not runs of their own:

- `socket_server.py:340`: a failed `hello_ack` write returns around the handler's
  `finally`, which is said to own the release (207-208), and the slot is lost until a
  restart; `socket_server.py:198`: a ping to a full buffer stops the heartbeat; `socket_server.py:454`: a reply being
  relayed keeps pongs unread.
- `store.py:426`: of several offline destinations only the first gets a queue row,
  although `router.py:21-23` gives every resolved destination its own.
- `store.py:704`: an alert whose redrive failed is evicted before queue entries never
  redriven, for the comparison yields NULL for those, which sorts after 0;
  `store.py:44-47` and the repository's README (184-187) say that queue entries go
  first.  Among entries nobody redrove they do.
- `cli/queue.py:236`: a redriven event is queued under its sender's name, so that
  "cannot leak" (`router.py:439-442`) does not hold of it; `SessionScoped` says who
  may see it instead.
- `router.py:588`: a fan-out that waits for a socket goes on with the destinations it
  resolved, after a reload too; `main.py:205-218` says that new routing takes effect
  immediately.  `ActsOnLiveConfig` is about the moment of resolution.
- `delivery.py:254`: an alert whose principal a reload takes away before its task runs
  has no dead letter, although `delivery.py:105-109` promises one for everything
  that is not delivered.  `ingest.py:78`: the cancelled deliveries are awaited for two
  seconds, so that "nothing can still want the store" (`main.py:483-488`) is only
  likely.  `NothingUnrecorded` names both.
- `labels.ts:36-40`: a subscribe of a session that was deleted while its call ran
  brings it back, and wakes for the label are acked without anyone seeing them.
- `idle-notify.ts:575-582`: a message alone marks a session, so a replayed idle after a
  silent wake is published without a turn (`idle-notify.test.ts:973-1000` does so), and
  "one completed turn yields exactly one wake" (487-488) is more than the code does.
- `cli/queue.py:303`: a redrive records no channels, so a second redrive after one
  that landed in part repeats what landed.  A reply in the outbox when the event
  loop ends leaves no record.
- `ingest.py:477-485` says that routes give out-of-band authority as well;
  `addressing.py:344-365` says and does the opposite, and the model follows it.
- `cli/secrets.py:472` prints that the previous secret stays valid; in Vault it is
  overwritten in place.  A remove that is killed, or that would leave no source,
  has taken the variables out already (`cli/secrets.py:496`); killed between the
  truncation and the write (255) it takes those of every source.
- `adapters/claude/.../__main__.py:6-7` says the adapter exits when stdin closes;
  it stays connected and goes on acking silent events nobody will see.
- `addressing.py:337` reads the sender `"*"` of a route as everyone, and a file in
  the old vocabulary may have a source of that name, whose migrated route is then
  everyone's.

### Fairness

`Router!FairSpec` assumes weak fairness of each connection handler, of each
delivery once begun, of the heartbeat, of the ack waiters and of the reading of an
adapter that is up, and strong fairness of a `deliver` that waits in `drain()`:
the buffer going down once wakes it, although the heartbeat's next ping may fill
the buffer again.  asyncio runs every ready task, `wait_for` and `sleep` end,
and the outbox gives up after a bounded number of bounded attempts.  Nothing is
assumed of an adapter that hangs, nor that a sender sends or an adapter acks.
`Delivery!FairSpec` assumes that every wait of a job ends (POSTs, SMTP, secrets and
sleeps have timeouts), that a cancelled task runs, and that each stage of the
shutdown ends, as its `wait_for` makes it; not that SIGTERM comes, that anything is
redriven, or that any receiver accepts anything.  `OpenCode!FairSpec` assumes only
that a `setTimeout` that is set fires.

## Proofs

Every safety invariant and every action property of the runs that pass is a theorem;
what is left to TLC alone is liveness, and one type invariant.  The theorems hold for every set of events,
names, ids, sessions, configurations, channels and processes and for every bound,
under the assumptions that each module names and TLC evaluates in each run:
`StoreConstants`, `DedupeConstants`, `RouterConstants`, `IngestConstants`,
`DeliveryConstants`, `ClaudeConstants`, `IdleNotifyConstants`, `OpenCodeConstants`
and `SecretsConstants`.  They type the constants, keep the placeholder `None`
apart from what it stands in for, take what is counted to be finite (operator
processes, ids, sessions, sources, commands) and sizes to be positive where a size
of zero means nothing.  `IngestConstants` asks of a configuration what
`load_config` lets through; `DeliveryConstants` gives a reply one channel, which
is how the outbox calls delivery.

Each invariant is proved conjunct by conjunct: one lemma per conjunct, or one per
action where an action disturbs many, with the effect of a shared piece of a
handler (`SendEffect`, `GatesEffect`, `JobStepEffect`, ...) stated once.

`WakeStore_proofs`.  `NoSilentLoss` is not inductive: whether a step leaves an
event in the store depends on what the processes hold.  `IndInv` adds to it
- `JobsFit`: a process in mid-enqueue carries an event, a redrive names the entry
  it took the event from, and only a running prune holds swept rows;
- `RowsKeyed`: ids are below the counter, no two rows share an id or an event,
  and a copy in the daemon's hands is of the same event as the row with its id,
  so that a deletion by id (an ack, an exhausted row) removes no other event;
- `DeadKeyed`, the same for dead letters, so that a mark hits the entry redriven;
- `BuriedFirst`: an exhausted row about to be deleted has its dead letter, or has
  been let go.

`StoreTypes` and `StoreKeepsEvents` follow from `StoreInvariant`.  `StoreCapsQueue`
has an argument of its own, which counts the rows together with
the processes that are about to insert.

`StoreKeepsCustody`, in the same module, is the refinement.  A step of the store
changes the places of at most the events it touches, and for the others the
abstract step is a stutter; for those it needs to know that whoever acks, buries
or requeues an event deals with one the store has accepted.  `Known`, proved
besides `IndInv`, says so: every row, copy, swept row, dead letter and redrive goes
back to an enqueue by the router; with `NoSilentLoss` its event is then held, gone
or lost.

`Ingest_proofs`, on both windows and the handler around them.

- The durable window (`DedupeInv`): types, `ReplayRejected` and `Counted`: the
  table exceeds the cap by no more than the checks since the last prune, and a
  daemon that is ready for the next check has counted less than an interval.  The
  counter pays for every row above the cap, and opening the store prunes before
  the counter starts anew; that is why no sequence of restarts can outgrow the
  bound.  `ForgetsOldestFirst` is by cases on the steps that prune.
- The window in memory (`WindowFits`): it is the end of the sequence of admitted
  ids, and holds none twice.  An id that comes back has left it, so `MaxSize`
  different ones were admitted since, which is `AdmittedOnce`.
- The handler.  `ActsOnLiveConfig` and `ReachesSubscriber` rest on `SendingFit`: a
  handler that waits for a socket has in `left` only destinations that its sender
  may reach under the configuration it resolved by (`scfg`), and the frame it waits
  for is among those it has sent.  `ResolveExact` shows that what
  `resolve` returns is exactly what the routes allow.  `SourceBucketClean` needs
  `HandlersFit`, what a waiting handler has in hand; a token is taken only past the
  comparison with a key from its own fetches, the environment or the cache.
- `MigrationPreservesAuthority` is about `derive_from_legacy` alone, for any file;
  TLC evaluates it on one.  It excludes a source called `"*"`, which nothing
  refuses, and whose route, once migrated, is one for every sender.

`Router_proofs`.  That a session sees only frames for destinations it serves
depends on where an address can come from: the event's routes or, for a row a
redrive made, the name of its sender.  `RouterInv` follows it: a `deliver()`
in progress holds only destinations of its event (`CallsFit`), so do the rows of
the queue (`RowsAddressed`), the rows a drain has claimed are for destinations
its session serves (`HandsAddressed`), and so are the frames written
(`WiresAddressed`); `TasksFit` says that only a draining task has rows in hand
and that nothing is on the wire before the hello, which is when the set of
destinations may change.  `AcksRead` (a future that holds an ack was completed by
one the daemon read, for the row the frame was sent from) gives `QueuedUntilAcked`.  The caps need besides that a
handshake adds one session to the destinations it was checked for, and every
other step only takes sessions away.  `SendEffect` and `ResumeEffect` state once
what a write may change, whichever way it ends.

The heartbeat's count is about futures: a wake frame is written before anyone
waits for its ack, and the write itself may wait.  `FuturesFit` says that a future
not yet waited for belongs to the `deliver` or the drain whose write waits
(`WritesHeld`), that such a write has one (`OneWaiting`), and that a session that
has not said hello owes nothing.  Then each settling lowers the count by what it
settles, which is `InFlightCovers`, and `BusyNotReaped` is a step from there.

`Delivery_proofs`.  The invariant says what a job knows at each place it waits
(`JobsFit`: every channel is through, left alone or still to go, and what it
counts as landed has landed), that a reply's one channel is undecided while its
job waits (`RepliesWhole`), that the daemon works on an item once and is through
with one that has an entry (`DaemonOnce`), that an alert still under way when the
outbox closes is one that outlived the wait and that none is before it lost
(`SurvivorsKnown`), and that the columns of a dead letter are true (`TableTrue`:
marked `ok`, then everything landed).  `SurvivorsKnown` is where the order of
`_shutdown` enters: were the store closed first, `NothingUnrecorded` would fail.

`Claude_proofs`.  `SilentAccounted` is an equation between counts, and is carried by
lemmas on what an append, a cut and a flush do to the number of an event's
positions.  Besides, `TurnWaits`: Claude Code keeps a turn open for every call
that has not returned, and `FlushFirst`: the MCP thread flushes before it starts a
call; together they are why a batch taken for a call rides along with its turn
(`SilentRideAlong`).

`IdleNotify_proofs`.  `WakesEarned` counts: each run of `handleSessionIdle`, and a
mark of a session that runs no turn, stands for a turn that is over or a message
outside a turn, its own (`TurnsEarned`).  `InFlightExact` is `PostsFit`, with exactly
one run posting per member of the set.  `LoopNeedsCrossed` needs that an ack counts
only on the connection it came by (`GuardTrue`), and that while a check's connection
is still the last one the daemon has not granted the source there (`RunsFit`).  It
has no hypothesis on the files there are.

`OpenCode_proofs`.  `HandlersFit` ties a handler to its connection and to the row of
its wake, `OneHandler` says that a connection gives a wake to one handler, so that
an ack of an older handler cannot settle what the current one still has to
prompt: `WakeKeptUntilPrompted`.  `LabelsAgree` is inductive by itself.  `WaitingCallHasTimer` (a call that waits has its
timer set) is the safety half of `ReplyReturns`.

`Secrets_proofs`.  A configuration names a source's own variables (`Uris`) and the env
file has what it names, or has lost it (`Backed`); the same of what a
command has read (`WorkFits`) and is about to save (`NewFits`), since commands
overlap.  `RemoveFits` says which of the source's variables a remove is at, and that
it holds a whole env file in its hands.  `NamesMade` says that each numbered name in
the file, or in the hands of a remove, was made by a command that is past it, so
there are fewer of them than names to try, and rotate finds a free one: a pigeonhole
argument.  `WindowTrue` says that config.json leads, in the env file or in what a
remove is about to write there, to the last secrets saved; `FillFits` that a file a
remove alone has truncated is empty, so that no daemon starts on it; `Synced` what the
daemon last loaded.

Model-checked only:
- liveness (`DeadPeerReleased`, `DeliverReturns`, `QuietPeerReaped`, `AlertSettles`,
  `ShutdownEnds`, `ReplyReturns`): the prover reaches neither fairness nor ENABLED;
- the type invariant of `Secrets`, whose bound on the number of secrets ever made is
  the exploration's own;
- the three runs that expect a violation, which are counterexamples.

## Plan

Done: all modules named above with their runs, and the proofs of every invariant,
every action property and the refinement.  Left, as far as it goes:

1. Abstract specifications for more components: a subscriber's claim on a wake in
   `OpenCode` and `Claude` (delivered at least once, acked after), and an alert's
   life in `Delivery`, each with its refinement.
2. The five hazards without a property: the eviction of an alert whose redrive
   failed, one row for several offline destinations, the slot lost with a
   `hello_ack`, an older fetch cached over a newer one, a reconnect loop that does not
   back off.  In each the code does the surprising thing; of the first three a comment
   or a document says otherwise, as listed above, and each could be a run that
   expects a violation.  What else can be stated is how far the damage goes, as
   `SessionScoped` does for rows redriven under the name of their sender.
3. The lemmas about sequences and counts that several proofs repeat, in one place.

## Not modelled

Wording and layout of frames, prompts, logs and commands; the schema migration,
which runs before anything else sees the file; the warnings about a queue nobody
drains (`router.py:356-434`) and the health and doctor reports, which only read;
file permissions and locks of the socket; HMAC arithmetic, frame parsing and the
classification of URLs, which are computations on bytes without state;
configuration parsing (`config.py`), a function of one document whose accepted
results are the constants of `Ingest` and `Secrets`; `install_harness.py` and
`config_cmd.py`, which edit other programs' files once; the Hermes hook and the
archived OpenCode plugin, which have no connection to the daemon; the repository's
scripts.

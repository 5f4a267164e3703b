------------------------------- MODULE Claude -------------------------------
(***************************************************************************)
(* The Claude Code adapter, adapters/claude/src/agent_wake_claude: the     *)
(* daemon client on the event loop (client.py), the MCP server on its own  *)
(* thread (server.py, permission.py), a thread per reply call (reply.py),  *)
(* and the buffer of silent events the first two share (channel.py).  An   *)
(* action is what a thread does between two waits, a lock or a write to    *)
(* stdout.  Of Claude Code there is whether a turn runs, of the daemon the *)
(* rows it delivers and the replies it posts.                              *)
(***************************************************************************)
EXTENDS Integers, Sequences, FiniteSets, SequencesExt

CONSTANTS
    Events, Silent,     \* events; those with wake: false
    Replies,            \* calls of the reply tool
    MaxDeferred,        \* MAX_DEFERRED
    MaxHanded,          \* exploration bound: deliveries of one event
    None

\* What a permission request leaves the MCP thread with, in place of a call.
Permission == "permission"

ASSUME ClaudeConstants ==
    /\ Silent \subseteq Events /\ None \notin Events \cup Replies
    /\ Permission \notin Replies
    /\ MaxDeferred \in Nat \ {0} /\ MaxHanded \in Nat

VARIABLES
    link,              \* client.py: no session, a session, waiting out the backoff
    row, handed,       \* per event: its row at the daemon; deliveries to this adapter
    deferred,          \* channel._deferred
    loop, mcp,         \* what the event loop and the MCP thread have still to write
    shown,             \* per event: notifications of it on stdout
    turn, tools,       \* Claude Code: a turn runs; tool calls it waits for
    stdin,             \* whether Claude Code is there
    call, post         \* reply calls; the daemon's posts

channel == <<deferred, loop, mcp, shown>>
daemon == <<link, row, handed>>
code == <<turn, tools, stdin>>
replies == <<call, post>>
vars == <<channel, daemon, code, replies>>

\* A thread that emits: the silent events it has taken, and what comes after
\* them, an event to be acked, a reply call or a permission request.
Quiet == [batch |-> <<>>, then |-> None]
Emits(q, then) == [batch |-> q, then |-> then]

\* An event delivered again before it was shown is in the buffer twice.
SilentSeqs == SeqOf(Silent, MaxDeferred)

TypeOK ==
    /\ link \in {"down", "up", "backoff"}
    /\ row \in [Events -> {"queued", "sent", "settled"}] /\ handed \in [Events -> 0..MaxHanded]
    /\ deferred \in SilentSeqs /\ Len(deferred) < MaxDeferred
    /\ loop \in [batch : SilentSeqs, then : Events \cup {None}]
    /\ mcp \in [batch : SilentSeqs, then : Replies \cup {None, Permission}]
    /\ shown \in [Events -> 0..MaxHanded]
    /\ turn \in BOOLEAN /\ tools \subseteq Replies /\ stdin \in BOOLEAN
    /\ call \in [Replies -> {"new", "called", "started", "written", "failed"}]
    /\ post \in [Replies -> {"none", "posting", "delivered", "failed"}]

Init ==
    /\ link = "down"
    /\ row = [e \in Events |-> "queued"] /\ handed = [e \in Events |-> 0]
    /\ deferred = <<>> /\ loop = Quiet /\ mcp = Quiet /\ shown = [e \in Events |-> 0]
    /\ turn = FALSE /\ tools = {} /\ stdin = TRUE
    /\ call = [r \in Replies |-> "new"] /\ post = [r \in Replies |-> "none"]

-----------------------------------------------------------------------------
(* client.py: the session *)

\* _one_session connects, and says hello.
Connect ==
    /\ link = "down" /\ link' = "up"
    /\ UNCHANGED <<row, handed, channel, code, replies>>

\* The connection is lost between two frames.  After an error run_client
\* sleeps; after a clean end of file, or a fatal error frame, it does not.
Disconnect ==
    /\ link = "up" /\ loop = Quiet
    /\ link' \in {"down", "backoff"}
    /\ UNCHANGED <<row, handed, channel, code, replies>>

\* The daemon is not there, or the sleep is over.
Retry ==
    /\ link \in {"down", "backoff"}
    /\ link' = IF link = "down" THEN "backoff" ELSE "down"
    /\ UNCHANGED <<row, handed, channel, code, replies>>

-----------------------------------------------------------------------------
(* channel.py *)

\* Mutant: one more than the buffer may hold.
OverflowsLate(q) == Len(q) > MaxDeferred
Overflows(q) == Len(q) >= MaxDeferred

\* Mutant: the buffer is cleared after the batch is out.
LeftIn(q) == q
\* flush_silent_events and defer_silent_event clear it under the lock.
Cleared(q) == <<>>

\* _handle_wake answers.  An ack that comes after the daemon has stopped
\* waiting, or on a connection it has dropped, changes nothing: the row stays.
Answers(e, as) == row' \in {[row EXCEPT ![e] = a] : a \in {as, "queued"}}

\* emit_wake_event up to its first write: a silent event is buffered, and
\* acked at once unless the buffer is full; another takes what is buffered.
Wake(e) ==
    /\ link = "up" /\ loop = Quiet
    /\ row[e] = "queued" /\ handed[e] < MaxHanded
    /\ handed' = [handed EXCEPT ![e] = @ + 1]
    /\ LET q == IF e \in Silent THEN Append(deferred, e) ELSE deferred IN
       IF e \in Silent /\ ~Overflows(q)
         THEN deferred' = q /\ Answers(e, "settled") /\ UNCHANGED loop
         ELSE deferred' = Cleared(q) /\ loop' = Emits(q, e) /\ row' = [row EXCEPT ![e] = "sent"]
    /\ UNCHANGED <<link, mcp, shown, code, replies>>

\* A notification starts a turn if none runs.
Shown(e) ==
    /\ shown' = [shown EXCEPT ![e] = @ + 1]
    /\ turn' = TRUE

\* The event loop writes: the batch, then the event itself, then its ack.
LoopEmits ==
    /\ loop # Quiet /\ stdin
    /\ IF loop.batch # <<>>
         THEN Shown(Head(loop.batch)) /\ loop' = Emits(Tail(loop.batch), loop.then) /\ UNCHANGED row
         ELSE /\ IF loop.then \in Silent THEN UNCHANGED <<shown, turn>> ELSE Shown(loop.then)
              /\ loop' = Quiet /\ Answers(loop.then, "settled")
    /\ UNCHANGED <<deferred, mcp, link, handed, tools, stdin, replies>>

\* stdout is closed: the write raises, and the event is nacked.
LoopFails ==
    /\ loop # Quiet /\ ~stdin
    /\ loop' = Quiet /\ Answers(loop.then, "queued")
    /\ UNCHANGED <<deferred, mcp, shown, link, handed, code, replies>>

-----------------------------------------------------------------------------
(* server.py, on the MCP thread *)

\* Claude Code calls the reply tool, in a turn, and waits for the result ...
Calls(r) ==
    /\ turn /\ stdin /\ call[r] = "new"
    /\ call' = [call EXCEPT ![r] = "called"] /\ tools' = tools \cup {r}
    /\ UNCHANGED <<channel, daemon, turn, stdin, post>>

\* ... the MCP thread takes the call from stdin, and what is buffered; ...
ToolsCall(r) ==
    /\ mcp = Quiet /\ stdin /\ call[r] = "called"
    /\ call' = [call EXCEPT ![r] = "started"]
    /\ mcp' = Emits(deferred, r) /\ deferred' = Cleared(deferred)
    /\ UNCHANGED <<loop, shown, daemon, code, post>>

\* ... or a permission request, which holds the thread while it is relayed.
PermissionRequest ==
    /\ mcp = Quiet /\ stdin /\ turn
    /\ mcp' = Emits(deferred, Permission) /\ deferred' = Cleared(deferred)
    /\ UNCHANGED <<loop, shown, daemon, code, replies>>

McpEmits ==
    /\ mcp.batch # <<>> /\ stdin
    /\ Shown(Head(mcp.batch)) /\ mcp' = Emits(Tail(mcp.batch), mcp.then)
    /\ UNCHANGED <<deferred, loop, daemon, tools, stdin, replies>>

\* The reply's thread is started, or the relay is over.
McpDone ==
    /\ mcp # Quiet /\ (mcp.batch = <<>> \/ ~stdin)
    /\ mcp' = Quiet
    /\ UNCHANGED <<deferred, loop, shown, daemon, code, replies>>

\* Claude Code ends the turn when nothing is outstanding, or ends altogether.
TurnEnds ==
    /\ turn /\ tools = {} /\ turn' = FALSE
    /\ UNCHANGED <<channel, daemon, tools, stdin, replies>>

StdinCloses ==
    /\ stdin /\ stdin' = FALSE /\ turn' = FALSE /\ tools' = {}
    /\ UNCHANGED <<channel, daemon, replies>>

-----------------------------------------------------------------------------
(* reply.py, on a thread of its own *)

Return(r, result) ==
    /\ call' = [call EXCEPT ![r] = result]
    /\ tools' = tools \ {r}

\* Mutant: the reply's thread is started before the flush.
StartedEarly(r) == call[r] = "started"
Started(r) == call[r] = "started" /\ mcp.then # r

\* send_reply_frame: the writer of the moment, or an error.  The event loop
\* does the write; after 5 s the call fails and the write still happens.
Send(r) ==
    /\ Started(r)
    /\ \/ /\ link = "up" /\ post' = [post EXCEPT ![r] = "posting"]
          /\ \/ call' = [call EXCEPT ![r] = "written"] /\ UNCHANGED tools
             \/ Return(r, "failed")
       \/ Return(r, "failed") /\ UNCHANGED post
    /\ UNCHANGED <<channel, daemon, turn, stdin>>

\* The daemon's answer: no entry of the bus has its id, and it is dropped.
Posts(r) ==
    /\ post[r] = "posting"
    /\ post' \in {[post EXCEPT ![r] = p] : p \in {"delivered", "failed"}}
    /\ UNCHANGED <<channel, daemon, code, call>>

\* wait_result: handle_reply_tool_call has registered no entry for its id, so
\* there is nothing to wait for, and it reports a timeout.
WaitResult(r) ==
    /\ call[r] = "written"
    /\ Return(r, "failed")
    /\ UNCHANGED <<channel, daemon, turn, stdin, post>>

Next ==
    \/ Connect \/ Disconnect \/ Retry \/ LoopEmits \/ LoopFails
    \/ \E e \in Events : Wake(e)
    \/ PermissionRequest \/ McpEmits \/ McpDone \/ TurnEnds \/ StdinCloses
    \/ \E r \in Replies : Calls(r) \/ ToolsCall(r) \/ Send(r) \/ Posts(r) \/ WaitResult(r)

Spec == Init /\ [][Next]_vars

-----------------------------------------------------------------------------
(* properties *)

Count(q, e) == Cardinality({i \in DOMAIN q : q[i] = e})

\* "A wake: false event is buffered, never dropped" (channel.py:26): as long as
\* Claude Code is there, every delivery of a silent event is in the buffer, in
\* the hands of one of the two threads, or on stdout, and in one place only,
\* however the two flush at the same time.
SilentAccounted ==
    stdin => \A e \in Silent :
        handed[e] = Count(deferred, e) + Count(loop.batch, e) + Count(mcp.batch, e) + shown[e]

\* A silent event delivered on a tool call rides along in a turn that runs
\* already (server.py:109-110): the turn cannot end before the batch is out,
\* because it waits for the call the batch was taken for.
RidesAlong ==
    stdin /\ mcp.then \in Replies => turn

\* reply.py:5-6: the tool "awaits the matching reply_result": a reply that was
\* written is not reported as failed before the daemon has an answer.
AwaitsResult ==
    [][\A r \in Replies : call[r] = "written" /\ call'[r] = "failed" => post[r] # "posting"]_vars
=============================================================================

---------------------------- MODULE Claude_proofs ----------------------------
(***************************************************************************)
(* Proofs about the buffer of silent events that two threads of the Claude *)
(* Code adapter flush, for any number of events, reply calls and           *)
(* deliveries and any size of the buffer.                                  *)
(***************************************************************************)
EXTENDS Claude, FiniteSetTheorems, TLAPS

\* An event that wakes is shown, or about to be, once per delivery at most.
LoudShown ==
    \A e \in Events \ Silent :
        shown[e] + (IF loop.then = e THEN 1 ELSE 0) <= handed[e]

\* Claude Code keeps a turn open for the calls it waits for, and it waits for
\* every call that has not returned.
TurnWaits ==
    stdin =>
        /\ tools # {} => turn
        /\ \A r \in Replies : call[r] \in {"called", "started", "written"} => r \in tools

\* The MCP thread flushes before it starts the thread of the call.
FlushFirst == mcp.then \in Replies => call[mcp.then] = "started"

IndInv == TypeOK /\ SilentAccounted /\ LoudShown /\ TurnWaits /\ FlushFirst

-----------------------------------------------------------------------------
(* buffers and counts *)

\* The positions at which q has e.
Positions(q, e) == {i \in DOMAIN q : q[i] = e}

\* A buffer is a sequence of silent events that fits.
LEMMA Buffers ==
    ASSUME NEW q
    PROVE  q \in SilentSeqs <=> q \in Seq(Silent) /\ Len(q) <= MaxDeferred
  <1>1. ASSUME q \in SilentSeqs
        PROVE  q \in Seq(Silent) /\ Len(q) <= MaxDeferred
    <2>1. PICK m \in 0..MaxDeferred : q \in [1..m -> Silent]
      BY <1>1 DEF SilentSeqs, SeqOf
    <2> QED BY <2>1, ClaudeConstants
  <1>2. ASSUME q \in Seq(Silent), Len(q) <= MaxDeferred
        PROVE  q \in SilentSeqs
    <2>1. Len(q) \in 0..MaxDeferred /\ q \in [1..Len(q) -> Silent]
      BY <1>2, ClaudeConstants
    <2> QED BY <2>1 DEF SilentSeqs, SeqOf
  <1> QED BY <1>1, <1>2

\* Positions in a buffer are finitely many, so they can be counted.
LEMMA CountType ==
    ASSUME NEW q \in Seq(Silent), NEW e
    PROVE  IsFiniteSet(Positions(q, e)) /\ Count(q, e) \in Nat
  <1>1. Positions(q, e) \subseteq 1..Len(q) /\ IsFiniteSet(1..Len(q))
    BY FS_Interval DEF Positions
  <1>2. IsFiniteSet(Positions(q, e))
    BY <1>1, FS_Subset
  <1>3. Count(q, e) = Cardinality(Positions(q, e))
    BY DEF Count, Positions
  <1> QED BY <1>2, <1>3, FS_CardinalityType

\* An empty buffer holds nothing.
LEMMA CountEmpty == ASSUME NEW e PROVE Count(<<>>, e) = 0
  BY FS_EmptySet DEF Count

\* A silent event joins the buffer at its end.
LEMMA CountAppend ==
    ASSUME NEW q \in Seq(Silent), NEW x \in Silent, NEW e
    PROVE  Count(Append(q, x), e) = Count(q, e) + (IF x = e THEN 1 ELSE 0)
  <1> DEFINE n == Len(q) + 1
  <1>1. Positions(Append(q, x), e) = Positions(q, e) \cup (IF x = e THEN {n} ELSE {})
    BY DEF Positions
  <1>2. n \notin Positions(q, e) /\ IsFiniteSet(Positions(q, e)) /\ Count(q, e) \in Nat
    BY CountType DEF Positions
  <1>3. /\ Count(q, e) = Cardinality(Positions(q, e))
        /\ Count(Append(q, x), e) = Cardinality(Positions(Append(q, x), e))
    BY DEF Count, Positions
  <1>4. CASE x = e
    BY <1>1, <1>2, <1>3, <1>4, FS_AddElement
  <1>5. CASE x # e
    <2>1. Positions(Append(q, x), e) = Positions(q, e)
      BY <1>1, <1>5
    <2> QED BY <1>2, <1>3, <1>5, <2>1
  <1> QED BY <1>4, <1>5

\* A thread writes its batch from the front.
LEMMA CountHead ==
    ASSUME NEW q \in Seq(Silent), q # <<>>, NEW e
    PROVE  /\ Head(q) \in Silent /\ Tail(q) \in Seq(Silent) /\ Len(Tail(q)) <= Len(q)
           /\ Count(q, e) = Count(Tail(q), e) + (IF Head(q) = e THEN 1 ELSE 0)
  <1> DEFINE S == Positions(q, e) \ {1}
             T == Positions(Tail(q), e)
             f == [i \in T |-> i + 1]
  <1>1. /\ Head(q) \in Silent /\ Tail(q) \in Seq(Silent) /\ Len(Tail(q)) = Len(q) - 1
        /\ Head(q) = q[1] /\ Len(q) > 0
        /\ \A i \in 1..Len(Tail(q)) : Tail(q)[i] = q[i + 1]
    OBVIOUS
  <1>2. f \in Bijection(T, S)
    <2>1. \A i \in T : i \in Nat /\ i + 1 \in S
      BY <1>1 DEF Positions
    <2>2. \A j \in S : j - 1 \in T /\ f[j - 1] = j
      BY <1>1 DEF Positions
    <2>3. f \in Injection(T, S)
      BY <2>1 DEF Injection, IsInjective
    <2>4. f \in Surjection(T, S)
      BY <2>1, <2>2 DEF Surjection
    <2> QED BY <2>3, <2>4 DEF Bijection
  <1>3. IsFiniteSet(T) /\ IsFiniteSet(Positions(q, e)) /\ Count(q, e) \in Nat
    BY <1>1, CountType
  <1> HIDE DEF f
  <1>4. ExistsBijection(T, S)
    BY <1>2 DEF ExistsBijection
  <1> HIDE DEF S, T
  <1>5. Cardinality(T) = Cardinality(S)
    BY <1>3, <1>4, FS_Bijection
  <1>6. /\ Count(q, e) = Cardinality(Positions(q, e)) /\ Count(Tail(q), e) = Cardinality(T)
        /\ (1 \in Positions(q, e)) = (Head(q) = e)
    BY <1>1 DEF Count, Positions, T
  <1>7. Cardinality(S) =
          IF 1 \in Positions(q, e) THEN Cardinality(Positions(q, e)) - 1
                                   ELSE Cardinality(Positions(q, e))
    BY <1>3, FS_RemoveElement DEF S
  <1> QED BY <1>1, <1>3, <1>5, <1>6, <1>7

\* The three places a silent event waits in are sequences of such events.
LEMMA BuffersTyped ==
    ASSUME TypeOK
    PROVE  /\ deferred \in Seq(Silent) /\ Len(deferred) < MaxDeferred
           /\ loop.batch \in Seq(Silent) /\ Len(loop.batch) <= MaxDeferred
           /\ mcp.batch \in Seq(Silent) /\ Len(mcp.batch) <= MaxDeferred
           /\ <<>> \in SilentSeqs /\ Len(<<>>) < MaxDeferred
           /\ loop = Emits(loop.batch, loop.then) /\ mcp = Emits(mcp.batch, mcp.then)
  <1>1. <<>> \in Seq(Silent) /\ Len(<<>>) = 0
    OBVIOUS
  <1>2. <<>> \in SilentSeqs
    <2>1. 0 \in 0..MaxDeferred /\ <<>> \in [1..0 -> Silent]
      BY ClaudeConstants
    <2> QED BY <2>1 DEF SilentSeqs, SeqOf
  <1> QED BY <1>1, <1>2, Buffers, ClaudeConstants DEF TypeOK, Emits

\* An answer to the daemon changes the row of one event, or nothing.
LEMMA AnswersTypes ==
    ASSUME TypeOK, NEW e, NEW as \in {"queued", "settled"}, Answers(e, as)
    PROVE  row' \in [Events -> {"queued", "sent", "settled"}]
  <1>1. PICK a \in {as, "queued"} : row' = [row EXCEPT ![e] = a]
    BY DEF Answers
  <1> QED BY <1>1 DEF TypeOK

-----------------------------------------------------------------------------
(* each action keeps the invariant *)

\* A frame arrives: the event is buffered, or it takes the buffer with it.
LEMMA WakeKeeps ==
    ASSUME IndInv, NEW e \in Events, Wake(e)
    PROVE  IndInv'
  <1> DEFINE q == IF e \in Silent THEN Append(deferred, e) ELSE deferred
  <1>0. TypeOK
    BY DEF IndInv
  <1>1. /\ loop = Quiet /\ handed[e] < MaxHanded /\ handed' = [handed EXCEPT ![e] = @ + 1]
        /\ UNCHANGED <<link, mcp, shown, turn, tools, stdin, call, post>>
    BY DEF Wake, code, replies
  <1>2. /\ loop.batch = <<>> /\ loop.then = None /\ \A x : Count(loop.batch, x) = 0
    BY <1>1, CountEmpty DEF Quiet
  <1>3. \/ /\ e \in Silent /\ Len(q) < MaxDeferred
           /\ deferred' = q /\ Answers(e, "settled") /\ UNCHANGED loop
        \/ /\ deferred' = <<>> /\ loop' = Emits(q, e) /\ row' = [row EXCEPT ![e] = "sent"]
    <2>1. Len(q) \in Nat
      BY <1>0, BuffersTyped
    <2> QED BY <2>1, ClaudeConstants DEF Wake, Overflows, Cleared
  <1>4. /\ q \in Seq(Silent) /\ Len(q) <= MaxDeferred /\ q \in SilentSeqs
        /\ \A x : Count(q, x) = Count(deferred, x) + (IF e \in Silent /\ e = x THEN 1 ELSE 0)
    <2>1. deferred \in Seq(Silent) /\ Len(deferred) < MaxDeferred
      BY <1>0, BuffersTyped
    <2>2. \A x : Count(deferred, x) \in Nat
      BY <2>1, CountType
    <2>3. CASE e \in Silent
      <3>1. /\ Append(deferred, e) \in Seq(Silent) /\ Len(Append(deferred, e)) <= MaxDeferred
        BY <2>1, <2>3, ClaudeConstants
      <3>2. Append(deferred, e) \in SilentSeqs
        BY <3>1, Buffers
      <3>3. \A x : Count(Append(deferred, e), x) = Count(deferred, x) + (IF e = x THEN 1 ELSE 0)
        BY <2>1, <2>3, CountAppend
      <3> QED BY <2>3, <3>1, <3>2, <3>3
    <2>4. CASE e \notin Silent
      <3>1. Len(deferred) <= MaxDeferred
        BY <2>1, ClaudeConstants
      <3>2. deferred \in SilentSeqs
        BY <2>1, <3>1, Buffers
      <3>3. \A x : Count(deferred, x) = Count(deferred, x) + 0
        BY <2>2
      <3> QED BY <2>1, <2>4, <3>1, <3>2, <3>3
    <2> QED BY <2>3, <2>4
  <1> HIDE DEF q
  <1>5. TypeOK'
    <2>1. row' \in [Events -> {"queued", "sent", "settled"}]
      <3>1. CASE Answers(e, "settled")
        BY <1>0, <3>1, AnswersTypes
      <3>2. CASE row' = [row EXCEPT ![e] = "sent"]
        BY <1>0, <3>2 DEF TypeOK
      <3> QED BY <1>3, <3>1, <3>2
    <2>2. handed' \in [Events -> 0..MaxHanded]
      BY <1>0, <1>1, ClaudeConstants DEF TypeOK
    <2>3. deferred' \in SilentSeqs /\ Len(deferred') < MaxDeferred
      BY <1>0, <1>3, <1>4, BuffersTyped
    <2>4. loop' \in [batch : SilentSeqs, then : Events \cup {None}]
      BY <1>0, <1>3, <1>4 DEF TypeOK, Emits
    <2> QED BY <1>0, <1>1, <2>1, <2>2, <2>3, <2>4 DEF TypeOK
  <1>6. SilentAccounted'
    <2>1. SUFFICES ASSUME stdin, NEW x \in Silent
                   PROVE  handed'[x] = Count(deferred', x) + Count(loop'.batch, x)
                                         + Count(mcp.batch, x) + shown[x]
      BY <1>1 DEF SilentAccounted
    <2>2. handed[x] = Count(deferred, x) + 0 + Count(mcp.batch, x) + shown[x]
      BY <1>2, <2>1 DEF IndInv, SilentAccounted
    <2>3. handed'[x] = handed[x] + (IF e = x THEN 1 ELSE 0)
      BY <1>0, <1>1, <2>1, ClaudeConstants DEF TypeOK
    <2>4. /\ Count(deferred, x) \in Nat /\ Count(mcp.batch, x) \in Nat /\ shown[x] \in Nat
          /\ handed[x] \in Nat
      BY <1>0, <2>1, BuffersTyped, CountType, ClaudeConstants DEF TypeOK
    <2>5. Count(q, x) = Count(deferred, x) + (IF e = x THEN 1 ELSE 0)
      BY <1>4, <2>1
    <2>6. Count(deferred', x) + Count(loop'.batch, x) = Count(q, x)
      <3>1. Count(q, x) \in Nat
        BY <2>4, <2>5
      <3>2. CASE deferred' = q /\ UNCHANGED loop
        BY <1>2, <3>1, <3>2
      <3>3. CASE deferred' = <<>> /\ loop' = Emits(q, e)
        BY <3>1, <3>3, CountEmpty DEF Emits
      <3> QED BY <1>3, <3>2, <3>3
    <2>7. Count(deferred', x) \in Nat /\ Count(loop'.batch, x) \in Nat
      <3>1. \A b \in {deferred', loop'.batch} : b \in Seq(Silent)
        BY <1>5, Buffers DEF TypeOK
      <3> QED BY <3>1, CountType
    <2> QED BY <2>2, <2>3, <2>4, <2>5, <2>6, <2>7
  <1>7. LoudShown'
    <2>1. SUFFICES ASSUME NEW x \in Events \ Silent
                   PROVE  shown[x] + (IF loop'.then = x THEN 1 ELSE 0) <= handed'[x]
      BY <1>1 DEF LoudShown
    <2>2. shown[x] <= handed[x] /\ shown[x] \in Nat /\ handed[x] \in Nat
      <3>1. shown[x] \in Nat /\ handed[x] \in Nat
        BY <1>0, <2>1, ClaudeConstants DEF TypeOK
      <3>2. shown[x] + (IF loop.then = x THEN 1 ELSE 0) <= handed[x]
        BY <2>1 DEF IndInv, LoudShown
      <3> QED BY <1>2, <2>1, <3>1, <3>2, ClaudeConstants
    <2>3. handed'[x] = handed[x] + (IF e = x THEN 1 ELSE 0)
      BY <1>0, <1>1, <2>1 DEF TypeOK
    <2>4. loop'.then = x => e = x
      BY <1>2, <1>3, <2>1, ClaudeConstants DEF Emits
    <2> QED BY <2>2, <2>3, <2>4
  <1>8. TurnWaits' /\ FlushFirst'
    BY <1>1 DEF IndInv, TurnWaits, FlushFirst
  <1> QED BY <1>5, <1>6, <1>7, <1>8 DEF IndInv

\* A notification is written: from a batch it moves one event to stdout.
LEMMA ShownBatch ==
    ASSUME IndInv, stdin, NEW q \in Seq(Silent), q # <<>>, q \in {loop.batch, mcp.batch},
           Shown(Head(q))
    PROVE  /\ shown' \in [Events -> 0..MaxHanded]
           /\ \A x \in Silent : Count(q, x) + shown[x] = Count(Tail(q), x) + shown'[x]
           /\ \A x \in Events \ Silent : shown'[x] = shown[x]
  <1> DEFINE h == Head(q)
  <1>0. TypeOK
    BY DEF IndInv
  <1>1. h \in Silent /\ Tail(q) \in Seq(Silent)
    BY CountHead
  <1>2. /\ shown' = [shown EXCEPT ![h] = @ + 1] /\ h \in Events
        /\ \A x \in Events : shown[x] \in Nat /\ handed[x] \in 0..MaxHanded
    BY <1>0, <1>1, ClaudeConstants DEF Shown, TypeOK
  <1>3. \A x : Count(q, x) = Count(Tail(q), x) + (IF h = x THEN 1 ELSE 0)
    BY CountHead
  <1>4. \A x : Count(Tail(q), x) \in Nat /\ Count(q, x) \in Nat
    BY <1>1, CountType
  <1>5. shown[h] + 1 <= MaxHanded
    <2>1. handed[h] = Count(deferred, h) + Count(loop.batch, h) + Count(mcp.batch, h) + shown[h]
      BY <1>1 DEF IndInv, SilentAccounted
    <2>2. /\ Count(deferred, h) \in Nat /\ Count(loop.batch, h) \in Nat
          /\ Count(mcp.batch, h) \in Nat
      BY <1>0, BuffersTyped, CountType
    <2>3. Count(q, h) >= 1
      BY <1>3, <1>4
    <2>4. Count(q, h) \in {Count(loop.batch, h), Count(mcp.batch, h)}
      OBVIOUS
    <2> QED BY <1>2, <2>1, <2>2, <2>3, <2>4, ClaudeConstants
  <1> HIDE DEF h
  <1>6. shown' \in [Events -> 0..MaxHanded]
    BY <1>0, <1>2, <1>5, ClaudeConstants DEF TypeOK
  <1>7. \A x \in Events : shown'[x] = shown[x] + (IF h = x THEN 1 ELSE 0)
    <2>1. shown \in [Events -> 0..MaxHanded]
      BY <1>0 DEF TypeOK
    <2>2. \A x \in Events : shown[x] + 0 = shown[x]
      BY <1>2
    <2> QED BY <1>2, <2>1, <2>2
  <1>8. ASSUME NEW x \in Silent
        PROVE  Count(q, x) + shown[x] = Count(Tail(q), x) + shown'[x]
    <2>1. x \in Events /\ shown[x] \in Nat /\ Count(Tail(q), x) \in Nat
      BY <1>2, <1>4, ClaudeConstants
    <2>2. /\ shown'[x] = shown[x] + (IF h = x THEN 1 ELSE 0)
          /\ Count(q, x) = Count(Tail(q), x) + (IF h = x THEN 1 ELSE 0)
      BY <1>3, <1>7, <2>1
    <2> QED BY <2>1, <2>2
  <1>9. ASSUME NEW x \in Events \ Silent
        PROVE  shown'[x] = shown[x]
    BY <1>1, <1>2, <1>7
  <1> QED BY <1>6, <1>8, <1>9

\* The loop writes the head of its batch, or the event that came after it.
LEMMA LoopEmitsKeeps ==
    ASSUME IndInv, LoopEmits
    PROVE  IndInv'
  <1>0. TypeOK
    BY DEF IndInv
  <1>1. /\ loop # Quiet /\ stdin
        /\ UNCHANGED <<deferred, mcp, link, handed, tools, stdin, call, post>>
    BY DEF LoopEmits, replies
  <1>2. /\ loop.batch \in Seq(Silent) /\ Len(loop.batch) <= MaxDeferred /\ mcp.batch \in Seq(Silent)
        /\ deferred \in Seq(Silent)
    BY <1>0, BuffersTyped
  <1>3. CASE loop.batch # <<>>
    <2>1. /\ Shown(Head(loop.batch)) /\ loop' = Emits(Tail(loop.batch), loop.then)
          /\ UNCHANGED row
      BY <1>3 DEF LoopEmits
    <2>2. /\ shown' \in [Events -> 0..MaxHanded] /\ turn' = TRUE
          /\ \A x \in Silent :
               Count(loop.batch, x) + shown[x] = Count(Tail(loop.batch), x) + shown'[x]
          /\ \A x \in Events \ Silent : shown'[x] = shown[x]
      BY <1>1, <1>2, <1>3, <2>1, ShownBatch DEF Shown
    <2>3. /\ loop'.batch = Tail(loop.batch) /\ loop'.then = loop.then
          /\ Tail(loop.batch) \in Seq(Silent) /\ Tail(loop.batch) \in SilentSeqs
      <3>1. Tail(loop.batch) \in Seq(Silent) /\ Len(Tail(loop.batch)) <= Len(loop.batch)
        BY <1>2, <1>3, CountHead
      <3>2. Len(Tail(loop.batch)) <= MaxDeferred
        BY <1>2, <3>1, ClaudeConstants
      <3> QED BY <2>1, <3>1, <3>2, Buffers DEF Emits
    <2>4. TypeOK'
      <3>1. loop' \in [batch : SilentSeqs, then : Events \cup {None}]
        BY <1>0, <2>1, <2>3 DEF TypeOK, Emits
      <3> QED BY <1>0, <1>1, <2>1, <2>2, <3>1 DEF TypeOK
    <2>5. SilentAccounted'
      <3>1. SUFFICES ASSUME NEW x \in Silent
                     PROVE  handed[x] = Count(deferred, x) + Count(Tail(loop.batch), x)
                                          + Count(mcp.batch, x) + shown'[x]
        BY <1>1, <2>3 DEF SilentAccounted
      <3>2. handed[x] = Count(deferred, x) + Count(loop.batch, x) + Count(mcp.batch, x) + shown[x]
        BY <1>1, <3>1 DEF IndInv, SilentAccounted
      <3>3. /\ Count(deferred, x) \in Nat /\ Count(loop.batch, x) \in Nat
            /\ Count(mcp.batch, x) \in Nat /\ Count(Tail(loop.batch), x) \in Nat
            /\ shown[x] \in Nat /\ shown'[x] \in Nat
        <4>1. \A q \in Seq(Silent) : Count(q, x) \in Nat
          BY CountType
        <4>2. x \in Events /\ shown[x] \in Nat /\ shown'[x] \in Nat
          BY <1>0, <2>2, <3>1, ClaudeConstants DEF TypeOK
        <4> QED BY <1>2, <2>3, <4>1, <4>2
      <3> QED BY <2>2, <3>2, <3>3
    <2>6. LoudShown'
      BY <1>1, <2>2, <2>3 DEF IndInv, LoudShown
    <2>7. TurnWaits' /\ FlushFirst'
      BY <1>1, <2>2 DEF IndInv, TurnWaits, FlushFirst
    <2> QED BY <2>4, <2>5, <2>6, <2>7 DEF IndInv
  <1>4. CASE loop.batch = <<>>
    <2>1. /\ IF loop.then \in Silent THEN UNCHANGED <<shown, turn>> ELSE Shown(loop.then)
          /\ loop' = Quiet /\ Answers(loop.then, "settled")
      BY <1>4 DEF LoopEmits
    <2>2. loop.then \in Events \cup {None} /\ loop'.batch = <<>> /\ loop'.then = None
      BY <1>0, <2>1 DEF TypeOK, Quiet
    <2>3. loop.then # None
      BY <1>0, <1>1, <1>4, BuffersTyped DEF Emits, Quiet
    <2>4. /\ \A x \in Silent : shown'[x] = shown[x]
          /\ \A x \in Events \ Silent :
               shown'[x] = shown[x] + (IF loop.then = x THEN 1 ELSE 0)
          /\ turn => turn'
          /\ turn' \in BOOLEAN
      <3>1. /\ shown \in [Events -> 0..MaxHanded] /\ turn \in BOOLEAN
            /\ \A x \in Events : shown[x] \in Nat /\ shown[x] + 0 = shown[x]
            /\ Silent \subseteq Events
        BY <1>0, ClaudeConstants DEF TypeOK
      <3>2. CASE loop.then \in Silent
        BY <2>1, <3>1, <3>2
      <3>3. CASE loop.then \notin Silent
        <4>1. shown' = [shown EXCEPT ![loop.then] = @ + 1] /\ turn' = TRUE
          BY <2>1, <3>3 DEF Shown
        <4>2. \A x \in Events : shown'[x] = IF loop.then = x THEN shown[x] + 1 ELSE shown[x]
          BY <3>1, <4>1
        <4> QED BY <3>1, <3>3, <4>1, <4>2
      <3> QED BY <3>2, <3>3
    <2>5. shown' \in [Events -> 0..MaxHanded]
      <3>1. CASE loop.then \in Silent
        BY <1>0, <2>1, <3>1 DEF TypeOK
      <3>2. CASE loop.then \notin Silent
        <4>1. loop.then \in Events \ Silent
          BY <2>2, <2>3, <3>2
        <4>2. shown[loop.then] + 1 <= handed[loop.then]
          BY <4>1 DEF IndInv, LoudShown
        <4>3. shown' = [shown EXCEPT ![loop.then] = @ + 1]
          BY <2>1, <3>2 DEF Shown
        <4>4. shown[loop.then] + 1 \in 0..MaxHanded
          BY <1>0, <4>1, <4>2, ClaudeConstants DEF TypeOK
        <4> QED BY <1>0, <4>3, <4>4 DEF TypeOK
      <3> QED BY <3>1, <3>2
    <2>6. TypeOK'
      <3>1. row' \in [Events -> {"queued", "sent", "settled"}]
        BY <1>0, <2>1, AnswersTypes
      <3>2. loop' \in [batch : SilentSeqs, then : Events \cup {None}]
        BY <1>0, <2>1, BuffersTyped DEF Quiet
      <3> QED BY <1>0, <1>1, <2>4, <2>5, <3>1, <3>2 DEF TypeOK
    <2>7. SilentAccounted'
      BY <1>1, <1>4, <2>2, <2>4 DEF IndInv, SilentAccounted
    <2>8. LoudShown'
      <3>1. SUFFICES ASSUME NEW x \in Events \ Silent
                     PROVE  shown'[x] <= handed[x] /\ shown'[x] \in Nat
        BY <1>1, <2>2, ClaudeConstants DEF LoudShown
      <3> QED BY <2>4, <2>5, ClaudeConstants DEF IndInv, LoudShown
    <2>9. TurnWaits' /\ FlushFirst'
      BY <1>1, <2>4 DEF IndInv, TurnWaits, FlushFirst
    <2> QED BY <2>6, <2>7, <2>8, <2>9 DEF IndInv
  <1> QED BY <1>3, <1>4

\* The MCP thread writes the front of its batch.
LEMMA McpEmitsKeeps ==
    ASSUME IndInv, McpEmits
    PROVE  IndInv'
  <1> DEFINE q == mcp.batch
  <1>0. TypeOK
    BY DEF IndInv
  <1>1. /\ q # <<>> /\ stdin /\ Shown(Head(q)) /\ mcp' = Emits(Tail(q), mcp.then)
        /\ UNCHANGED <<deferred, loop, link, row, handed, tools, stdin, call, post>>
    BY DEF McpEmits, daemon, replies
  <1>2. /\ q \in Seq(Silent) /\ Len(q) <= MaxDeferred /\ loop.batch \in Seq(Silent)
        /\ deferred \in Seq(Silent)
    BY <1>0, BuffersTyped
  <1>3. /\ shown' \in [Events -> 0..MaxHanded] /\ turn' = TRUE
        /\ \A x \in Silent : Count(q, x) + shown[x] = Count(Tail(q), x) + shown'[x]
        /\ \A x \in Events \ Silent : shown'[x] = shown[x]
    BY <1>1, <1>2, ShownBatch DEF Shown
  <1>4. /\ mcp'.batch = Tail(q) /\ mcp'.then = mcp.then
        /\ Tail(q) \in Seq(Silent) /\ Tail(q) \in SilentSeqs
    <2>1. Tail(q) \in Seq(Silent) /\ Len(Tail(q)) <= Len(q)
      BY <1>1, <1>2, CountHead
    <2>2. Len(Tail(q)) <= MaxDeferred
      BY <1>2, <2>1, ClaudeConstants
    <2> QED BY <1>1, <2>1, <2>2, Buffers DEF Emits
  <1>5. TypeOK'
    <2>1. mcp' \in [batch : SilentSeqs, then : Replies \cup {None, Permission}]
      BY <1>0, <1>1, <1>4 DEF TypeOK, Emits
    <2> QED BY <1>0, <1>1, <1>3, <2>1 DEF TypeOK
  <1>6. SilentAccounted'
    <2>1. SUFFICES ASSUME NEW x \in Silent
                   PROVE  handed[x] = Count(deferred, x) + Count(loop.batch, x)
                                        + Count(Tail(q), x) + shown'[x]
      BY <1>1, <1>4 DEF SilentAccounted
    <2>2. handed[x] = Count(deferred, x) + Count(loop.batch, x) + Count(q, x) + shown[x]
      BY <1>1, <2>1 DEF IndInv, SilentAccounted
    <2>3. /\ Count(deferred, x) \in Nat /\ Count(loop.batch, x) \in Nat
          /\ Count(q, x) \in Nat /\ Count(Tail(q), x) \in Nat
      BY <1>2, <1>4, CountType
    <2>4. shown[x] \in Nat /\ shown'[x] \in Nat
      BY <1>0, <1>3, <2>1, ClaudeConstants DEF TypeOK
    <2> QED BY <1>3, <2>2, <2>3, <2>4
  <1>7. LoudShown'
    BY <1>1, <1>3 DEF IndInv, LoudShown
  <1>8. TurnWaits' /\ FlushFirst'
    BY <1>1, <1>3, <1>4 DEF IndInv, TurnWaits, FlushFirst
  <1> QED BY <1>5, <1>6, <1>7, <1>8 DEF IndInv

\* The MCP thread takes the buffer for a tool call or a permission request.
LEMMA TakesBuffer ==
    ASSUME IndInv, NEW then \in Replies \cup {Permission}, mcp = Quiet,
           mcp' = Emits(deferred, then), deferred' = <<>>,
           UNCHANGED <<loop, shown, handed, stdin>>
    PROVE  /\ mcp' \in [batch : SilentSeqs, then : Replies \cup {None, Permission}]
           /\ mcp'.then = then
           /\ deferred' \in SilentSeqs /\ Len(deferred') < MaxDeferred
           /\ SilentAccounted' /\ LoudShown'
  <1>0. TypeOK
    BY DEF IndInv
  <1>1. /\ mcp'.batch = deferred /\ mcp'.then = then /\ mcp.batch = <<>>
        /\ deferred \in Seq(Silent)
    BY <1>0, BuffersTyped DEF Emits, Quiet
  <1>2. mcp' \in [batch : SilentSeqs, then : Replies \cup {None, Permission}]
    BY <1>0 DEF TypeOK, Emits
  <1>3. SilentAccounted'
    <2>1. SUFFICES ASSUME stdin, NEW x \in Silent
                   PROVE  handed[x] = Count(<<>>, x) + Count(loop.batch, x)
                                        + Count(deferred, x) + shown[x]
      BY <1>1 DEF SilentAccounted
    <2>2. handed[x] = Count(deferred, x) + Count(loop.batch, x) + Count(<<>>, x) + shown[x]
      BY <1>1, <2>1 DEF IndInv, SilentAccounted
    <2>3. /\ Count(deferred, x) \in Nat /\ Count(loop.batch, x) \in Nat
          /\ Count(<<>>, x) \in Nat /\ shown[x] \in Nat
      <3>1. x \in Events /\ shown[x] \in Nat
        BY <1>0, <2>1, ClaudeConstants DEF TypeOK
      <3> QED BY <1>0, <3>1, BuffersTyped, CountType, CountEmpty
    <2> QED BY <2>2, <2>3
  <1> QED BY <1>0, <1>1, <1>2, <1>3, BuffersTyped DEF IndInv, LoudShown

\* A tool call is read from stdin, and a permission request.
LEMMA McpReadsKeeps ==
    ASSUME IndInv, PermissionRequest \/ \E r \in Replies : ToolsCall(r)
    PROVE  IndInv'
  <1>0. TypeOK
    BY DEF IndInv
  <1>1. CASE PermissionRequest
    <2>1. /\ mcp = Quiet /\ mcp' = Emits(deferred, Permission) /\ deferred' = <<>>
          /\ UNCHANGED <<loop, shown, link, row, handed, turn, tools, stdin, call, post>>
      BY <1>1 DEF PermissionRequest, Cleared, daemon, code, replies
    <2>2. /\ mcp' \in [batch : SilentSeqs, then : Replies \cup {None, Permission}]
          /\ mcp'.then = Permission
          /\ deferred' \in SilentSeqs /\ Len(deferred') < MaxDeferred
          /\ SilentAccounted' /\ LoudShown'
      BY <2>1, TakesBuffer
    <2>3. TypeOK'
      BY <1>0, <2>1, <2>2 DEF TypeOK
    <2>4. TurnWaits' /\ FlushFirst'
      BY <2>1, <2>2, ClaudeConstants DEF IndInv, TurnWaits, FlushFirst
    <2> QED BY <2>2, <2>3, <2>4 DEF IndInv
  <1>2. ASSUME NEW r \in Replies, ToolsCall(r) PROVE IndInv'
    <2>1. /\ mcp = Quiet /\ mcp' = Emits(deferred, r) /\ deferred' = <<>>
          /\ call[r] = "called" /\ call' = [call EXCEPT ![r] = "started"]
          /\ UNCHANGED <<loop, shown, link, row, handed, turn, tools, stdin, post>>
      BY <1>2 DEF ToolsCall, Cleared, daemon, code
    <2>2. /\ mcp' \in [batch : SilentSeqs, then : Replies \cup {None, Permission}]
          /\ mcp'.then = r
          /\ deferred' \in SilentSeqs /\ Len(deferred') < MaxDeferred
          /\ SilentAccounted' /\ LoudShown'
      BY <2>1, TakesBuffer
    <2>3. TypeOK'
      BY <1>0, <2>1, <2>2 DEF TypeOK
    <2>4. \A x \in Replies : call'[x] = IF x = r THEN "started" ELSE call[x]
      BY <1>0, <2>1 DEF TypeOK
    <2>5. TurnWaits' /\ FlushFirst'
      BY <2>1, <2>2, <2>4 DEF IndInv, TurnWaits, FlushFirst
    <2> QED BY <2>2, <2>3, <2>5 DEF IndInv
  <1> QED BY <1>1, <1>2

\* The MCP thread is through with what it took.
LEMMA McpDoneKeeps ==
    ASSUME IndInv, McpDone
    PROVE  IndInv'
  <1>0. TypeOK
    BY DEF IndInv
  <1>1. /\ (mcp.batch = <<>> \/ ~stdin) /\ mcp' = Quiet
        /\ UNCHANGED <<deferred, loop, shown, link, row, handed, turn, tools, stdin, call, post>>
    BY DEF McpDone, daemon, code, replies
  <1>2. mcp' = Quiet /\ mcp'.batch = <<>> /\ mcp'.then = None
    BY DEF McpDone, Quiet
  <1>3. TypeOK'
    <2>1. mcp' \in [batch : SilentSeqs, then : Replies \cup {None, Permission}]
      BY <1>0, <1>2, BuffersTyped DEF Quiet
    <2> QED BY <1>0, <1>1, <2>1 DEF TypeOK
  <1>4. SilentAccounted' /\ LoudShown' /\ TurnWaits' /\ FlushFirst'
    <2>1. stdin => mcp.batch = <<>>
      BY DEF McpDone
    <2> QED BY <1>1, <1>2, <2>1, ClaudeConstants
            DEF IndInv, SilentAccounted, LoudShown, TurnWaits, FlushFirst
  <1> QED BY <1>3, <1>4 DEF IndInv

\* Threads and callbacks that touch no buffer.
LEMMA RepliesKeep ==
    ASSUME IndInv, NEW r \in Replies, Calls(r) \/ Send(r) \/ Posts(r) \/ WaitResult(r)
    PROVE  IndInv'
  <1>0. TypeOK
    BY DEF IndInv
  <1>1. UNCHANGED <<deferred, loop, mcp, shown, link, row, handed, turn, stdin>>
    BY DEF Calls, Send, Posts, WaitResult, channel, daemon, code
  <1>2. /\ call' \in [Replies -> {"new", "called", "started", "written", "failed"}]
        /\ tools' \subseteq Replies
        /\ post' \in [Replies -> {"none", "posting", "delivered", "failed"}]
    <2>1. CASE Calls(r)
      BY <1>0, <2>1 DEF Calls, TypeOK
    <2>2. CASE Send(r)
      BY <1>0, <2>2 DEF Send, Return, TypeOK
    <2>3. CASE Posts(r)
      <3>1. PICK p \in {"delivered", "failed"} : post' = [post EXCEPT ![r] = p]
        BY <2>3 DEF Posts
      <3> QED BY <1>0, <2>3, <3>1 DEF Posts, code, TypeOK
    <2>4. CASE WaitResult(r)
      BY <1>0, <2>4 DEF WaitResult, Return, TypeOK
    <2> QED BY <2>1, <2>2, <2>3, <2>4
  <1>3. \A x \in Replies \ {r} : call'[x] = call[x]
    <2>1. call' = call \/ \E c : call' = [call EXCEPT ![r] = c]
      BY DEF Calls, Send, Posts, WaitResult, Return
    <2> QED BY <1>0, <2>1 DEF TypeOK
  <1>4. TurnWaits'
    <2>1. CASE Calls(r)
      <3>1. /\ turn /\ tools' = tools \cup {r}
            /\ \A x \in Replies \ {r} : call'[x] = call[x]
        BY <1>3, <2>1 DEF Calls
      <3> QED BY <1>1, <3>1 DEF IndInv, TurnWaits
    <2>2. CASE Send(r)
      <3>1. \/ UNCHANGED tools /\ call' = [call EXCEPT ![r] = "written"] /\ call[r] = "started"
            \/ tools' = tools \ {r} /\ call' = [call EXCEPT ![r] = "failed"]
        BY <2>2 DEF Send, Started, Return
      <3>2. \/ UNCHANGED tools /\ call'[r] = "written" /\ call[r] = "started"
            \/ tools' = tools \ {r} /\ call'[r] = "failed"
        BY <1>0, <3>1 DEF TypeOK
      <3> QED BY <1>1, <1>3, <3>2 DEF IndInv, TurnWaits
    <2>3. CASE Posts(r)
      BY <1>1, <2>3 DEF Posts, IndInv, TurnWaits, code
    <2>4. CASE WaitResult(r)
      BY <1>0, <1>1, <2>4 DEF WaitResult, Return, TypeOK, IndInv, TurnWaits
    <2> QED BY <2>1, <2>2, <2>3, <2>4
  <1>5. FlushFirst'
    <2>1. call[r] = "started" => mcp.then # r \/ UNCHANGED call
      BY DEF Calls, Send, Started, Posts, WaitResult
    <2> QED BY <1>1, <1>3, <2>1 DEF IndInv, FlushFirst
  <1>6. TypeOK'
    BY <1>0, <1>1, <1>2 DEF TypeOK
  <1>7. SilentAccounted' /\ LoudShown'
    BY <1>1 DEF IndInv, SilentAccounted, LoudShown
  <1> QED BY <1>4, <1>5, <1>6, <1>7 DEF IndInv

\* The connection, the turn and the end of Claude Code.
LEMMA EnvironmentKeeps ==
    ASSUME IndInv, Connect \/ Disconnect \/ Retry \/ TurnEnds \/ StdinCloses
    PROVE  IndInv'
  <1>0. TypeOK
    BY DEF IndInv
  <1>1. UNCHANGED <<deferred, loop, mcp, shown, row, handed, call, post>>
    BY DEF Connect, Disconnect, Retry, TurnEnds, StdinCloses, channel, daemon, replies
  <1>2. TypeOK'
    BY <1>0, <1>1 DEF Connect, Disconnect, Retry, TurnEnds, StdinCloses, daemon, code, TypeOK
  <1>3. stdin' => stdin
    BY DEF Connect, Disconnect, Retry, TurnEnds, StdinCloses, code
  <1>4. TurnWaits'
    BY <1>1 DEF Connect, Disconnect, Retry, TurnEnds, StdinCloses, code, IndInv, TurnWaits
  <1>5. SilentAccounted' /\ LoudShown' /\ FlushFirst'
    BY <1>1, <1>3 DEF IndInv, SilentAccounted, LoudShown, FlushFirst
  <1> QED BY <1>2, <1>4, <1>5 DEF IndInv

\* The write of the event loop fails: Claude Code is gone.
LEMMA LoopFailsKeeps ==
    ASSUME IndInv, LoopFails
    PROVE  IndInv'
  <1>0. TypeOK
    BY DEF IndInv
  <1>1. /\ ~stdin /\ loop' = Quiet /\ Answers(loop.then, "queued")
        /\ UNCHANGED <<deferred, mcp, shown, link, handed, turn, tools, stdin, call, post>>
    BY DEF LoopFails, code, replies
  <1>2. TypeOK'
    <2>1. row' \in [Events -> {"queued", "sent", "settled"}]
      BY <1>0, <1>1, AnswersTypes
    <2>2. loop' \in [batch : SilentSeqs, then : Events \cup {None}]
      BY <1>0, <1>1, BuffersTyped DEF Quiet
    <2> QED BY <1>0, <1>1, <2>1, <2>2 DEF TypeOK
  <1>3. LoudShown'
    <2>1. SUFFICES ASSUME NEW x \in Events \ Silent
                   PROVE  shown[x] <= handed[x] /\ shown[x] \in Nat
      BY <1>1, ClaudeConstants DEF LoudShown, Quiet
    <2>2. shown[x] \in Nat /\ handed[x] \in Nat
      BY <1>0, ClaudeConstants DEF TypeOK
    <2> QED BY <2>2 DEF IndInv, LoudShown
  <1>4. SilentAccounted' /\ TurnWaits' /\ FlushFirst'
    BY <1>1 DEF IndInv, SilentAccounted, TurnWaits, FlushFirst
  <1> QED BY <1>2, <1>3, <1>4 DEF IndInv

-----------------------------------------------------------------------------
(* the theorems *)

\* The adapter starts with nothing buffered and nothing shown.
LEMMA InitIndInv == Init => IndInv
  <1> SUFFICES ASSUME Init
               PROVE  IndInv
    OBVIOUS
  <1>1. /\ <<>> \in SilentSeqs /\ Len(<<>>) < MaxDeferred
        /\ \A x : Count(<<>>, x) = 0
    <2>1. 0 \in 0..MaxDeferred /\ <<>> \in [1..0 -> Silent] /\ Len(<<>>) = 0
      BY ClaudeConstants
    <2> QED BY <2>1, CountEmpty, ClaudeConstants DEF SilentSeqs, SeqOf
  <1>2. loop.batch = <<>> /\ mcp.batch = <<>> /\ loop.then = None /\ mcp.then = None
    BY DEF Init, Quiet
  <1>3. TypeOK
    <2>1. /\ Quiet \in [batch : SilentSeqs, then : Events \cup {None}]
          /\ Quiet \in [batch : SilentSeqs, then : Replies \cup {None, Permission}]
      BY <1>1 DEF Quiet
    <2>2. 0 \in 0..MaxHanded
      BY ClaudeConstants
    <2> QED BY <1>1, <2>1, <2>2 DEF Init, TypeOK
  <1>4. SilentAccounted
    BY <1>1, <1>2, ClaudeConstants DEF Init, SilentAccounted
  <1>5. LoudShown /\ TurnWaits /\ FlushFirst
    BY <1>2, ClaudeConstants DEF Init, LoudShown, TurnWaits, FlushFirst
  <1> QED BY <1>3, <1>4, <1>5 DEF IndInv

\* Every step of every thread keeps the invariant.
LEMMA NextIndInv == IndInv /\ [Next]_vars => IndInv'
  <1> SUFFICES ASSUME IndInv, [Next]_vars
               PROVE  IndInv'
    OBVIOUS
  <1>1. CASE UNCHANGED vars
    BY <1>1 DEF vars, channel, daemon, code, replies, IndInv, TypeOK, SilentAccounted,
                LoudShown, TurnWaits, FlushFirst
  <1>2. CASE \E e \in Events : Wake(e)
    BY <1>2, WakeKeeps
  <1>3. CASE LoopEmits
    BY <1>3, LoopEmitsKeeps
  <1>4. CASE LoopFails
    BY <1>4, LoopFailsKeeps
  <1>5. CASE McpEmits
    BY <1>5, McpEmitsKeeps
  <1>6. CASE PermissionRequest \/ \E r \in Replies : ToolsCall(r)
    BY <1>6, McpReadsKeeps
  <1>7. CASE McpDone
    BY <1>7, McpDoneKeeps
  <1>8. ASSUME NEW r \in Replies, Calls(r) \/ Send(r) \/ Posts(r) \/ WaitResult(r)
        PROVE  IndInv'
    BY <1>8, RepliesKeep
  <1>9. CASE Connect \/ Disconnect \/ Retry \/ TurnEnds \/ StdinCloses
    BY <1>9, EnvironmentKeeps
  <1> QED BY <1>1, <1>2, <1>3, <1>4, <1>5, <1>6, <1>7, <1>8, <1>9 DEF Next

\* The inductive invariant of the adapter's threads.
THEOREM ClaudeInvariant == Spec => []IndInv
  BY InitIndInv, NextIndInv, PTL DEF Spec

\* The buffer stays within MAX_DEFERRED, also while a thread holds what it took.
THEOREM ClaudeTypes == Spec => []TypeOK
  <1>1. IndInv => TypeOK
    BY DEF IndInv
  <1> QED BY <1>1, ClaudeInvariant, PTL

\* As long as Claude Code is there, no silent event is dropped or shown twice
\* for one delivery, however the two threads flush.
THEOREM SilentNeverDropped == Spec => []SilentAccounted
  <1>1. IndInv => SilentAccounted
    BY DEF IndInv
  <1> QED BY <1>1, ClaudeInvariant, PTL

\* What is taken for a tool call is written while the turn of the call runs.
THEOREM SilentRideAlong == Spec => []RidesAlong
  <1>1. IndInv => RidesAlong
    BY DEF IndInv, TypeOK, TurnWaits, FlushFirst, RidesAlong
  <1> QED BY <1>1, ClaudeInvariant, PTL
=============================================================================

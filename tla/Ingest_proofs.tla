--------------------------- MODULE Ingest_proofs ---------------------------
(***************************************************************************)
(* Proofs about the ingest and both its replay windows, the durable one of *)
(* module Dedupe and the one in memory of module Ingest, for any ids,      *)
(* bounds, configurations, secrets and requests.                           *)
(*   Dedupe: a replay inside the TTL is recognised unless the cap dropped  *)
(* it, and the table stays within the cap plus one interval; the bound is  *)
(* inductive once the rows are measured against the checks made since the  *)
(* last prune (Counted).                                                   *)
(*   Ingest: the window in memory holds the last ids admitted (WindowFits);*)
(* what a handler that waits for a secret relies on (HandlersFit) bounds   *)
(* the secrets it verifies with, and one that waits for a socket has only  *)
(* destinations of the configuration it resolved by (SendingFit).          *)
(***************************************************************************)
EXTENDS Dedupe, Ingest, FiniteSetTheorems, SequenceTheorems, WellFoundedInduction, TLAPS

-----------------------------------------------------------------------------
(* the durable window: module Dedupe *)

\* What the table holds beyond the cap has been counted since the last prune,
\* and a daemon that is not about to prune has counted less than an interval.
Counted ==
    /\ Cardinality(rows) <= MaxRows + since
    /\ daemon = "ready" => since < PruneInterval

DedupeInv == DedupeTypeOK /\ ReplayRejected /\ Counted

\* What every prune does: rows only go, those inside their window only by the
\* cap, and the cap is respected.
LEMMA PruneEffect ==
    ASSUME DedupeTypeOK, PruneRows
    PROVE  /\ rows' \subseteq rows
           /\ Cardinality(rows') <= MaxRows
           /\ Cardinality(rows') <= Cardinality(rows)
           /\ capped \subseteq capped' /\ capped' \subseteq Ids
           /\ \A i \in rows \ capped' : now - at[i] <= Ttl => i \in rows'
  <1> USE DedupeConstants
  <1>1. PICK V \in SUBSET Live :
          /\ Cardinality(Live \ V) =
               IF Cardinality(Live) > MaxRows THEN MaxRows ELSE Cardinality(Live)
          /\ rows' = Live \ V
          /\ capped' = capped \cup V
    BY DEF PruneRows
  <1>2. Live \subseteq rows /\ rows \subseteq Ids
    BY DEF Live, DedupeTypeOK
  <1>3. IsFiniteSet(rows)
    BY <1>2, FS_Subset
  <1>4. IsFiniteSet(Live) /\ Cardinality(Live) \in Nat
    BY <1>2, <1>3, FS_Subset, FS_CardinalityType
  <1>5. Cardinality(rows') <= Cardinality(rows)
    BY <1>1, <1>2, <1>3, FS_Subset
  <1>6. Cardinality(rows') <= MaxRows
    BY <1>1, <1>4
  <1>7. \A i \in rows \ capped' : now - at[i] <= Ttl => i \in rows'
    <2> SUFFICES ASSUME NEW i \in rows, i \notin capped', now - at[i] <= Ttl
                 PROVE  i \in rows'
      OBVIOUS
    <2>1. i \in Live
      BY <1>2 DEF Live, DedupeTypeOK
    <2> QED BY <1>1, <2>1
  <1> QED BY <1>1, <1>2, <1>5, <1>6, <1>7 DEF DedupeTypeOK

\* The empty table.
LEMMA DedupeInitInv == DedupeInit => DedupeInv
  <1> SUFFICES ASSUME DedupeInit PROVE DedupeInv
    OBVIOUS
  <1> USE DedupeConstants DEF DedupeInit
  <1>1. DedupeTypeOK
    BY DEF DedupeTypeOK
  <1>2. ReplayRejected
    BY DEF ReplayRejected
  <1>3. Counted
    BY FS_EmptySet DEF Counted
  <1> QED BY <1>1, <1>2, <1>3 DEF DedupeInv

\* A check adds at most the row it records.
LEMMA RecordEffect ==
    ASSUME DedupeTypeOK, NEW i \in Ids, RecordRow(i)
    PROVE  /\ rows' \subseteq Ids /\ Cardinality(rows') <= Cardinality(rows) + 1
           /\ Cardinality(rows) \in Nat /\ Cardinality(rows') \in Nat
  <1>1. IsFiniteSet(rows) /\ rows \subseteq Ids
    BY DedupeConstants, FS_Subset DEF DedupeTypeOK
  <1>2. Cardinality(rows) \in Nat
    BY <1>1, FS_CardinalityType
  <1>3. CASE i \in rows
    BY <1>1, <1>2, <1>3 DEF RecordRow
  <1>4. CASE i \notin rows
    <2>1. rows' = rows \cup {i}
      BY <1>4 DEF RecordRow
    <2>2. Cardinality(rows \cup {i}) = Cardinality(rows) + 1
      BY <1>1, <1>4, FS_AddElement
    <2> QED BY <1>1, <1>2, <2>1, <2>2
  <1> QED BY <1>3, <1>4

\* Every step keeps the invariant.
LEMMA DedupeStepInv ==
    ASSUME DedupeInv, [DedupeNext]_dedupeVars
    PROVE  DedupeInv'
  <1> USE DedupeConstants DEF DedupeInv
  <1>0. IsFiniteSet(rows) /\ Cardinality(rows) \in Nat
    BY FS_Subset, FS_CardinalityType DEF DedupeTypeOK
  <1>1. ASSUME NEW i \in Ids, Check(i) PROVE DedupeInv'
    <2>1. RecordRow(i)
      BY <1>1 DEF Check
    <2>2. DedupeTypeOK'
      BY <1>1, <2>1 DEF Check, RecordRow, DedupeTypeOK, Counted
    <2>3. ReplayRejected'
      BY <1>1 DEF Check, RecordRow, DedupeTypeOK, ReplayRejected
    <2>4. Counted'
      BY <1>1, <2>1, RecordEffect DEF Check, DedupeTypeOK, Counted
    <2> QED BY <2>2, <2>3, <2>4
  <1>2. ASSUME PruneRows, UNCHANGED <<now, at>>, since' = 0, daemon' = "ready" PROVE DedupeInv'
    <2>1. DedupeTypeOK'
      BY <1>2, PruneEffect DEF DedupeTypeOK
    <2>2. ReplayRejected'
      BY <1>2, PruneEffect DEF DedupeTypeOK, ReplayRejected
    <2>3. Counted'
      BY <1>2, PruneEffect DEF Counted
    <2> QED BY <2>1, <2>2, <2>3
  <1>3. CASE PruneWhenDue
    BY <1>2, <1>3 DEF PruneWhenDue
  <1>4. CASE Start
    BY <1>2, <1>4 DEF Start, Open
  <1>5. CASE OtherProcessPrunes
    <2>1. DedupeTypeOK'
      BY <1>5, PruneEffect DEF OtherProcessPrunes, DedupeTypeOK
    <2>2. ReplayRejected'
      BY <1>5, PruneEffect DEF OtherProcessPrunes, DedupeTypeOK, ReplayRejected
    <2>3. Cardinality(rows') \in Nat
      BY <2>1, FS_Subset, FS_CardinalityType DEF DedupeTypeOK
    <2>4. Counted'
      BY <1>0, <1>5, <2>3, PruneEffect DEF OtherProcessPrunes, DedupeTypeOK, Counted
    <2> QED BY <2>1, <2>2, <2>4
  <1>6. CASE Stop
    BY <1>6 DEF Stop, DedupeTypeOK, ReplayRejected, Counted
  <1>7. CASE Tick
    BY <1>7 DEF Tick, DedupeTypeOK, ReplayRejected, Counted
  <1>8. CASE UNCHANGED dedupeVars
    BY <1>8 DEF dedupeVars, DedupeTypeOK, ReplayRejected, Counted
  <1> QED BY <1>1, <1>3, <1>4, <1>5, <1>6, <1>7, <1>8 DEF DedupeNext

\* The inductive invariant holds in every reachable state.
THEOREM DedupeInvariant == DedupeSpec => []DedupeInv
  <1>1. DedupeInv /\ [DedupeNext]_dedupeVars => DedupeInv'
    BY DedupeStepInv
  <1> QED BY <1>1, DedupeInitInv, PTL DEF DedupeSpec

\* Type correctness of the replay window.
THEOREM DedupeTypes == DedupeSpec => []DedupeTypeOK
  <1>1. DedupeInv => DedupeTypeOK
    BY DEF DedupeInv
  <1> QED BY <1>1, DedupeInvariant, PTL

\* A replay inside the TTL is recognised, across restarts and prunes by other
\* processes, unless the row cap dropped the id (store.py:360-380, 643-659).
THEOREM DedupeRejectsReplays == DedupeSpec => []ReplayRejected
  <1>1. DedupeInv => ReplayRejected
    BY DEF DedupeInv
  <1> QED BY <1>1, DedupeInvariant, PTL

\* The dedupe table never holds more than the cap and one prune interval
\* (store.py:90, 375-379), however often the daemon is restarted.
THEOREM DedupeStaysBounded == DedupeSpec => []DedupeBounded
  <1>1. DedupeInv => DedupeBounded
    <2> SUFFICES ASSUME DedupeInv PROVE DedupeBounded
      OBVIOUS
    <2>1. Cardinality(rows) \in Nat
      BY DedupeConstants, FS_Subset, FS_CardinalityType DEF DedupeInv, DedupeTypeOK
    <2> QED BY <2>1, DedupeConstants DEF DedupeInv, DedupeTypeOK, Counted, DedupeBounded
  <1> QED BY <1>1, DedupeInvariant, PTL

\* Retention forgets the oldest ids first (store.py:650-659), in every step.
THEOREM DedupeForgetsOldestFirst == DedupeSpec => ForgetsOldestFirst
  <1>1. ASSUME DedupeTypeOK, [DedupeNext]_dedupeVars, NEW i \in rows \ rows', NEW j \in rows \cap rows'
        PROVE  at[i] <= at[j]
    <2>1. CASE PruneRows
      <3>1. PICK V \in SUBSET Live : OldestFirst(V) /\ rows' = Live \ V
        BY <2>1 DEF PruneRows
      <3>2. CASE i \in Live
        BY <1>1, <3>1, <3>2 DEF OldestFirst
      <3>3. CASE i \notin Live
        BY <1>1, <3>1, <3>3, DedupeConstants DEF Live, DedupeTypeOK
      <3> QED BY <3>2, <3>3
    <2>2. CASE rows \subseteq rows'
      BY <1>1, <2>2
    <2> QED BY <1>1, <2>1, <2>2 DEF DedupeNext, dedupeVars, Check, RecordRow, PruneWhenDue, Start, Open,
                                    OtherProcessPrunes, Stop, Tick
  <1>2. DedupeTypeOK /\ [DedupeNext]_dedupeVars
          => [\A i \in rows \ rows', j \in rows \cap rows' : at[i] <= at[j]]_dedupeVars
    BY <1>1
  <1> QED BY <1>2, DedupeTypes, PTL DEF DedupeSpec, ForgetsOldestFirst

-----------------------------------------------------------------------------
(* the window in memory: Dedupe without a store, in module Ingest *)

\* The ids that requests carry.
EventIds == {Req[r].id : r \in Reqs}

\* The window holds the last ids admitted, in order and no id twice.
WindowFits ==
    /\ order \in Seq(EventIds) /\ admitted \in Seq(EventIds)
    /\ Len(order) = IF Len(admitted) < MaxSize THEN Len(admitted) ELSE MaxSize
    /\ \A k \in 1..Len(order) : order[k] = admitted[Len(admitted) - Len(order) + k]
    /\ \A k, l \in 1..Len(order) : order[k] = order[l] => k = l

\* The inductive invariant of the window.
WindowInv == WindowFits /\ AdmittedOnce

\* An id the window does not hold is admitted.
NewId(id) ==
    /\ \A k \in 1..Len(order) : order[k] # id
    /\ Record(id)
    /\ admitted' = Append(admitted, id)

\* The gates answer, or they admit the event of the request.
LEMMA GatesEffect ==
    ASSUME NEW r, NEW held, NEW K, NEW T, Gates(r, held, K, T)
    PROVE  UNCHANGED <<order, admitted>> \/ NewId(Req[r].id)
  <1>1. CASE Admit(r, held)
    BY <1>1 DEF Admit, Contains, NewId, outcome
  <1>2. CASE ~Admit(r, held)
    BY <1>2 DEF Gates, outcome
  <1> QED BY <1>1, <1>2

\* Only a handler that has come through the gates touches the window.
LEMMA OnlyHandlersAdmit ==
    ASSUME [Next]_vars
    PROVE  UNCHANGED <<order, admitted>> \/ \E r \in Reqs : NewId(Req[r].id)
  <1>1. ASSUME NEW r \in Reqs, NEW held, NEW U, NEW K, NEW T, GoOn(r, held, U, K, T)
        PROVE  UNCHANGED <<order, admitted>> \/ NewId(Req[r].id)
    <2>1. CASE ReadyLen(U) = Len(U)
      BY <1>1, <2>1, GatesEffect DEF GoOn
    <2>2. CASE ReadyLen(U) # Len(U)
      BY <1>1, <2>2 DEF GoOn, outcome
    <2> QED BY <2>1, <2>2
  <1>2. ASSUME NEW r \in Reqs, Begin(r)
        PROVE  UNCHANGED <<order, admitted>> \/ NewId(Req[r].id)
    BY <1>1, <1>2 DEF Begin, outcome
  <1>3. ASSUME NEW r \in Reqs, FetchReturns(r)
        PROVE  UNCHANGED <<order, admitted>> \/ NewId(Req[r].id)
    BY <1>1, <1>3 DEF FetchReturns, outcome
  <1>4. ASSUME NEW r \in Reqs, FetchReads(r) \/ SendReturns(r) \/ SendFails(r)
        PROVE  UNCHANGED <<order, admitted>>
    BY <1>4 DEF FetchReads, SendReturns, SendFails, outcome
  <1>5. CASE Refill
    BY <1>5 DEF Refill, outcome
  <1>6. ASSUME NEW u \in Uris, Expire(u) \/ Rotate(u) \/ RefreshReads(u) \/ RefreshReturns(u)
        PROVE  UNCHANGED <<order, admitted>>
    BY <1>6 DEF Expire, Rotate, RefreshReads, RefreshReturns, outcome
  <1>7. ASSUME NEW c \in Configs, Reload(c) PROVE UNCHANGED <<order, admitted>>
    BY <1>7 DEF Reload, outcome
  <1>8. ASSUME NEW s \in Sessions, Hello(s) \/ Bye(s) PROVE UNCHANGED <<order, admitted>>
    BY <1>8 DEF Hello, Bye, outcome
  <1>9. CASE UNCHANGED vars
    BY <1>9 DEF vars, outcome
  <1> QED BY <1>2, <1>3, <1>4, <1>5, <1>6, <1>7, <1>8, <1>9 DEF Next

\* The sequence with the new id at its end, the oldest gone if it was full.
LEMMA RecordKeepsOrder ==
    ASSUME WindowFits, NEW id \in EventIds, NewId(id)
    PROVE  WindowFits'
  <1>0. MaxSize \in Nat \ {0}
    BY IngestConstants
  <1> DEFINE base == IF Len(order) = MaxSize THEN Tail(order) ELSE order
             cut == IF Len(order) = MaxSize THEN 1 ELSE 0
             n == Len(admitted)
  <1>1. /\ order \in Seq(EventIds) /\ admitted \in Seq(EventIds)
        /\ Len(order) \in Nat /\ n \in Nat /\ Len(order) <= n
        /\ Len(order) = IF n < MaxSize THEN n ELSE MaxSize
        /\ \/ cut = 1 /\ Len(order) = MaxSize
           \/ cut = 0 /\ Len(order) < MaxSize
    BY <1>0 DEF WindowFits
  <1>2. /\ base \in Seq(EventIds) /\ Len(base) = Len(order) - cut
        /\ \A k \in 1..Len(base) : base[k] = order[k + cut]
    <2>1. CASE Len(order) = MaxSize
      <3>1. order # <<>>
        BY <1>0, <2>1
      <3> QED BY <1>1, <2>1, <3>1, HeadTailProperties
    <2>2. CASE Len(order) # MaxSize
      BY <1>1, <2>2
    <2> QED BY <2>1, <2>2
  <1> HIDE DEF cut
  <1>3. /\ order' \in Seq(EventIds) /\ Len(order') = Len(base) + 1
        /\ order'[Len(base) + 1] = id
        /\ \A k \in 1..Len(base) : order'[k] = order[k + cut]
    BY <1>1, <1>2, AppendProperties DEF NewId, Record
  <1>4. /\ admitted' \in Seq(EventIds) /\ Len(admitted') = n + 1
        /\ admitted'[n + 1] = id
        /\ \A k \in 1..n : admitted'[k] = admitted[k]
    BY <1>1, AppendProperties DEF NewId
  <1> HIDE DEF base, n
  <1>8. /\ n \in Nat /\ Len(order) \in Nat /\ Len(base) \in Nat /\ cut \in {0, 1}
        /\ Len(order) <= n /\ Len(base) = Len(order) - cut
        /\ Len(order') = Len(base) + 1 /\ Len(admitted') = n + 1
    BY <1>1, <1>2, <1>3, <1>4
  <1>5. Len(order') = IF Len(admitted') < MaxSize THEN Len(admitted') ELSE MaxSize
    BY <1>0, <1>1, <1>2, <1>3, <1>4
  <1>6. \A k \in 1..Len(order') : order'[k] = admitted'[Len(admitted') - Len(order') + k]
    <2> SUFFICES ASSUME NEW k \in 1..Len(order')
                 PROVE  order'[k] = admitted'[Len(admitted') - Len(order') + k]
      OBVIOUS
    <2>1. CASE k = Len(base) + 1
      <3>1. Len(admitted') - Len(order') + k = n + 1
        BY <1>8, <2>1
      <3> QED BY <1>3, <1>4, <2>1, <3>1
    <2>2. CASE k # Len(base) + 1
      <3>1. k \in 1..Len(base) /\ k + cut \in 1..Len(order)
        BY <1>8, <2>2
      <3>2. order'[k] = admitted[n - Len(order) + (k + cut)]
        BY <1>3, <3>1 DEF WindowFits, n
      <3>3. /\ n - Len(order) + (k + cut) \in 1..n
            /\ Len(admitted') - Len(order') + k = n - Len(order) + (k + cut)
        BY <1>8, <3>1
      <3> QED BY <1>4, <3>2, <3>3
    <2> QED BY <2>1, <2>2
  <1>7. \A k, l \in 1..Len(order') : order'[k] = order'[l] => k = l
    <2> SUFFICES ASSUME NEW k \in 1..Len(order'), NEW l \in 1..Len(order'), order'[k] = order'[l]
                 PROVE  k = l
      OBVIOUS
    <2>1. \A m \in 1..Len(order') :
            m # Len(base) + 1 => /\ m + cut \in 1..Len(order)
                                 /\ order'[m] = order[m + cut]
                                 /\ order'[m] # id
      <3> SUFFICES ASSUME NEW m \in 1..Len(order'), m # Len(base) + 1
                   PROVE  /\ m + cut \in 1..Len(order)
                          /\ order'[m] = order[m + cut]
                          /\ order'[m] # id
        OBVIOUS
      <3>1. m \in 1..Len(base) /\ m + cut \in 1..Len(order)
        BY <1>8
      <3> QED BY <1>3, <3>1 DEF NewId
    <2>2. CASE k = Len(base) + 1 \/ l = Len(base) + 1
      BY <1>3, <2>1, <2>2
    <2>3. CASE k # Len(base) + 1 /\ l # Len(base) + 1
      <3>1. k + cut = l + cut
        BY <2>1, <2>3 DEF WindowFits
      <3> QED BY <1>8, <3>1
    <2> QED BY <2>2, <2>3
  <1> QED BY <1>3, <1>4, <1>5, <1>6, <1>7 DEF WindowFits

\* Between an id and its return lies the whole window, MaxSize other ids.
LEMMA RecordKeepsDistance ==
    ASSUME WindowInv, NEW id \in EventIds, NewId(id)
    PROVE  AdmittedOnce'
  <1>0. MaxSize \in Nat \ {0}
    BY IngestConstants
  <1> DEFINE n == Len(admitted)
             L == Len(order)
             Between(i, j) == {admitted'[k] : k \in (i + 1)..(j - 1)}
  <1>1. /\ order \in Seq(EventIds) /\ admitted \in Seq(EventIds)
        /\ L \in Nat /\ n \in Nat /\ L <= n
        /\ L = IF n < MaxSize THEN n ELSE MaxSize
    BY <1>0 DEF WindowInv, WindowFits
  <1>2. /\ DOMAIN admitted = 1..n /\ DOMAIN admitted' = 1..(n + 1)
        /\ admitted'[n + 1] = id
        /\ \A k \in 1..n : admitted'[k] = admitted[k]
    BY <1>1, AppendProperties, LenProperties DEF NewId
  <1> SUFFICES ASSUME NEW i \in 1..(n + 1), NEW j \in 1..(n + 1),
                      i < j, admitted'[i] = admitted'[j]
               PROVE  Cardinality(Between(i, j)) >= MaxSize
    BY <1>2 DEF AdmittedOnce
  <1>3. \A k \in 1..L : order[k] = admitted[n - L + k] /\ order[k] # id
    BY DEF NewId, WindowInv, WindowFits
  <1>4. \A k, l \in 1..L : order[k] = order[l] => k = l
    BY DEF WindowInv, WindowFits
  <1>5. i \in Int /\ j \in Int
    OBVIOUS
  <1> HIDE DEF n, L, Between
  <1>8. L \in Nat /\ n \in Nat /\ L <= n
    BY <1>1
  <1>9. L # MaxSize => L = n
    BY <1>1
  <1>6. CASE j # n + 1
    <2>1. /\ i \in 1..n /\ j \in 1..n /\ admitted[i] = admitted[j]
          /\ \A k \in (i + 1)..(j - 1) : admitted'[k] = admitted[k]
      BY <1>8, <1>2, <1>6
    <2>2. Between(i, j) = {admitted[k] : k \in (i + 1)..(j - 1)}
      BY <2>1 DEF Between
    <2> QED BY <1>2, <2>1, <2>2 DEF WindowInv, AdmittedOnce
  <1>7. CASE j = n + 1
    <2>1. i \in 1..n /\ admitted[i] = id
      BY <1>8, <1>2, <1>7
    <2>3. i <= n - L
      <3> SUFFICES ASSUME i > n - L PROVE FALSE
        BY <1>8, <2>1
      <3>1. i - (n - L) \in 1..L /\ n - L + (i - (n - L)) = i
        BY <1>8, <2>1
      <3> QED BY <1>3, <2>1, <3>1
    <2>4. L = MaxSize
      BY <1>8, <1>9, <2>1, <2>3
    <2>5. \A k \in 1..L : order[k] \in Between(i, j)
      <3> SUFFICES ASSUME NEW k \in 1..L PROVE order[k] \in Between(i, j)
        OBVIOUS
      <3>1. n - L + k \in (i + 1)..(j - 1) /\ n - L + k \in 1..n
        BY <1>8, <1>7, <2>1, <2>3
      <3>2. admitted'[n - L + k] = order[k]
        BY <1>2, <1>3, <3>1
      <3> QED BY <3>1, <3>2 DEF Between
    <2>6. IsFiniteSet(Between(i, j))
      <3> DEFINE g == [k \in (i + 1)..(j - 1) |-> admitted'[k]]
      <3>1. g \in Surjection((i + 1)..(j - 1), Between(i, j))
        BY DEF Surjection, Between
      <3>2. i + 1 \in Int /\ j - 1 \in Int
        BY <1>5
      <3>3. IsFiniteSet((i + 1)..(j - 1))
        BY <3>2, FS_Interval
      <3> QED BY <3>1, <3>3, FS_Surjection
    <2>7. L <= Cardinality(Between(i, j))
      <3> DEFINE h == [k \in 1..L |-> order[k]]
      <3>1. h \in Injection(1..L, Between(i, j))
        BY <1>4, <2>5 DEF Injection, IsInjective
      <3>2. Cardinality(1..L) = L
        BY <1>8, FS_Interval
      <3> QED BY <2>6, <3>1, <3>2, FS_Injection
    <2>8. Cardinality(Between(i, j)) \in Nat
      BY <2>6, FS_CardinalityType
    <2> QED BY <2>4, <2>7, <2>8
  <1> QED BY <1>6, <1>7

\* The window in memory holds the last ids admitted, in every reachable state.
THEOREM WindowInvariant == Spec => []WindowInv
  <1>1. Init => WindowInv
    BY IngestConstants DEF Init, WindowInv, WindowFits, AdmittedOnce
  <1>2. WindowInv /\ [Next]_vars => WindowInv'
    <2> SUFFICES ASSUME WindowInv, [Next]_vars PROVE WindowInv'
      OBVIOUS
    <2>1. CASE UNCHANGED <<order, admitted>>
      BY <2>1 DEF WindowInv, WindowFits, AdmittedOnce
    <2>2. ASSUME NEW r \in Reqs, NewId(Req[r].id) PROVE WindowInv'
      <3>1. Req[r].id \in EventIds
        BY DEF EventIds
      <3> QED BY <2>2, <3>1, RecordKeepsOrder, RecordKeepsDistance DEF WindowInv
    <2> QED BY <2>1, <2>2, OnlyHandlersAdmit
  <1> QED BY <1>1, <1>2, PTL DEF Spec

\* Without a store, too, an id is admitted again only after as many others as
\* the window holds (ingest.py:117-153), however the handlers of requests with
\* the same id interleave with each other and with a reload.
THEOREM IngestAdmitsOnce == Spec => []AdmittedOnce
  <1>1. WindowInv => AdmittedOnce
    BY DEF WindowInv
  <1> QED BY <1>1, WindowInvariant, PTL

-----------------------------------------------------------------------------
(* who reaches whom *)

\* What resolve returns is what the routes allow and the event asks for, and it
\* refuses only an event that can reach nothing (addressing.py:313-341, 366-410).
LEMMA ResolveExact ==
    ASSUME NEW c, NEW q
    PROVE  LET res == Resolve(c, q.src, q.dest, q.principal)
               reach == {n \in DestinationNames(c) : MayReach(c, q, n)}
           IN  (res.ok => res.dests = reach) /\ (~res.ok => reach = {})
  <1> DEFINE routed == RoutedDestinations(c, q.src)
             named == {n \in routed : q.dest \in {None, n}}
             match == {n \in named : q.principal \in {None, Destination(c, n).principal}}
             reach == {n \in DestinationNames(c) : MayReach(c, q, n)}
             res == Resolve(c, q.src, q.dest, q.principal)
  <1>1. match = reach
    <2>1. \A n : n \in routed <=>
            /\ n \in DestinationNames(c)
            /\ \E r \in c.routes :
                 /\ r.sender \in {q.src, AnySender}
                 /\ \/ n \in r.dests
                    \/ r.dests = {} /\ Destination(c, n).principal = r.principal /\ r.principal # None
      BY DEF RoutedDestinations, Expand, Applies
    <2> HIDE DEF routed
    <2> QED BY <2>1 DEF MayReach
  <1>2. CASE q.dest # None /\ named = {}
    <2>1. res = Refused("destination_not_routed") /\ match = {}
      BY <1>2 DEF Resolve
    <2> QED BY <1>1, <2>1 DEF Refused
  <1>3. CASE ~(q.dest # None /\ named = {}) /\ q.principal # None /\ match = {}
    <2>1. res = Refused("principal_not_routed")
      BY <1>3 DEF Resolve
    <2> QED BY <1>1, <1>3, <2>1 DEF Refused
  <1>4. CASE ~(q.dest # None /\ named = {}) /\ ~(q.principal # None /\ match = {})
    <2>1. res = Resolved(match)
      BY <1>4 DEF Resolve
    <2> QED BY <1>1, <2>1 DEF Resolved
  <1> QED BY <1>2, <1>3, <1>4

\* What the routes of a configuration allow a request.
Reach(c, r) == {n \in DestinationNames(c) : MayReach(c, Req[r], n)}

\* The loop of router.deliver has come to one of the destinations D of the
\* configuration c that has a subscriber ...
Sends(r, c, D) ==
    /\ pc' = [pc EXCEPT ![r] = "sending"] /\ scfg' = [scfg EXCEPT ![r] = c]
    /\ answer' = answer
    /\ \E n \in D, s \in Sessions : \E E \in SUBSET D :
         /\ n \in granted'[s] /\ AcceptsAdapter(Destination(c, n), AdapterOf[s])
         /\ left' = [left EXCEPT ![r] = E] /\ writing' = [writing EXCEPT ![r] = <<n, s>>]
         /\ sent' = sent \cup {<<r, n, s>>}

\* ... or the request is answered.
Finishes(r, a) ==
    /\ Answered(r, a)
    /\ sent' \subseteq sent /\ \A t \in sent : t[1] # r => t \in sent'
    /\ \/ UNCHANGED <<left, writing>>
       \/ /\ left' = [left EXCEPT ![r] = {}]
          /\ writing' = [writing EXCEPT ![r] = None]

\* One stretch of the loop: it ends only when no destination it had to go has a
\* subscriber, and without success only when every frame has failed.
LEMMA ServeEffect ==
    ASSUME NEW r, NEW c, NEW D, NEW B, Serve(r, c, D, B)
    PROVE  \/ Sends(r, c, D)
           \/ \E a \in {"queued", "no_subscriber"} :
                /\ Finishes(r, a)
                /\ \A m \in D : Subscribers(c, m, granted') = {}
                /\ a = "no_subscriber" => \A t \in sent : t[1] = r => t \in B
  <1>1. CASE \A m \in D : Subscribers(c, m, granted') = {}
    <2> DEFINE a == IF \E t \in sent \ B : t[1] = r THEN "queued" ELSE "no_subscriber"
    <2>1. /\ Answered(r, a) /\ sent' = {t \in sent : t[1] # r}
          /\ left' = [left EXCEPT ![r] = {}] /\ writing' = [writing EXCEPT ![r] = None]
      BY <1>1 DEF Serve
    <2> QED BY <1>1, <2>1 DEF Finishes
  <1>2. CASE ~\A m \in D : Subscribers(c, m, granted') = {}
    <2>1. PICK n \in D, s \in Sessions : \E passed \in SUBSET (D \ {n}) :
            /\ s \in Subscribers(c, n, granted')
            /\ left' = [left EXCEPT ![r] = D \ (passed \cup {n})]
            /\ writing' = [writing EXCEPT ![r] = <<n, s>>]
            /\ sent' = sent \cup {<<r, n, s>>}
            /\ pc' = [pc EXCEPT ![r] = "sending"]
            /\ scfg' = [scfg EXCEPT ![r] = c]
            /\ answer' = answer
      BY <1>2 DEF Serve
    <2>2. n \in granted'[s] /\ AcceptsAdapter(Destination(c, n), AdapterOf[s])
      BY <2>1 DEF Subscribers
    <2>3. PICK passed \in SUBSET (D \ {n}) : left' = [left EXCEPT ![r] = D \ (passed \cup {n})]
      BY <2>1
    <2>4. D \ (passed \cup {n}) \in SUBSET D
      OBVIOUS
    <2> QED BY <2>1, <2>2, <2>3, <2>4 DEF Sends
  <1> QED BY <1>1, <1>2

\* What one step may do to the histories and to a delivery in progress: nothing,
\* or what Admit does, or another stretch of the loop.
LEMMA HandlerSteps ==
    ASSUME TypeOK, [Next]_vars
    PROVE  \/ /\ UNCHANGED <<answer, dispatched, sends>>
              /\ \A q \in Reqs : pc'[q] = "sending" => pc[q] = "sending" /\ scfg'[q] = scfg[q]
           \/ \E r \in Reqs :
                /\ \E a \in {"429", "403", "500", "400"} : Answered(r, a)
                /\ UNCHANGED <<dispatched, sends>>
           \/ \E r \in Reqs : /\ pc[r] \notin {"sending", "done"} /\ granted' = granted
                              /\ \E held : Admit(r, held)
           \/ \E r \in Reqs : SendReturns(r) \/ SendFails(r)
  <1> DEFINE Still == /\ UNCHANGED <<answer, dispatched, sends>>
                      /\ \A q \in Reqs : pc'[q] = "sending" => pc[q] = "sending" /\ scfg'[q] = scfg[q]
             Goal == \/ Still
                     \/ \E r \in Reqs :
                          /\ \E a \in {"429", "403", "500", "400"} : Answered(r, a)
                          /\ UNCHANGED <<dispatched, sends>>
                     \/ \E r \in Reqs : /\ pc[r] \notin {"sending", "done"} /\ granted' = granted
                                        /\ \E held : Admit(r, held)
                     \/ \E r \in Reqs : SendReturns(r) \/ SendFails(r)
  <1> SUFFICES Goal
    OBVIOUS
  <1>0. /\ UNCHANGED <<request, outcome>> => Still
        /\ \A r \in Reqs : UNCHANGED <<scfg, answer, outcome>>
             /\ (\E v \in {"fetching", "fetched"} : pc' = [pc EXCEPT ![r] = v]) => Still
    <2>1. DOMAIN pc = Reqs
      BY DEF TypeOK
    <2> QED BY <2>1 DEF request, outcome
  <1>1. ASSUME NEW r \in Reqs, NEW held, NEW K, NEW T, Gates(r, held, K, T),
               pc[r] \notin {"sending", "done"}, granted' = granted
        PROVE  Goal
    <2>1. CASE Admit(r, held)
      BY <1>1, <2>1
    <2>2. CASE ~Admit(r, held)
      BY <1>1, <2>2 DEF Gates, BuildErrors, outcome
    <2> QED BY <2>1, <2>2
  <1>2. ASSUME NEW r \in Reqs, NEW held, NEW U, NEW K, NEW T, GoOn(r, held, U, K, T),
               pc[r] \notin {"sending", "done"}, granted' = granted
        PROVE  Goal
    <2>1. CASE ReadyLen(U) = Len(U)
      <3> HIDE DEF Goal
      <3> QED BY <1>1, <1>2, <2>1 DEF GoOn
    <2>2. CASE ReadyLen(U) # Len(U) /\ U[ReadyLen(U) + 1] \in EnvUris
      BY <1>2, <2>2 DEF GoOn, outcome
    <2>3. CASE ReadyLen(U) # Len(U) /\ U[ReadyLen(U) + 1] \notin EnvUris
      <3>1. /\ pc' = [pc EXCEPT ![r] = "fetching"] /\ scfg' = [scfg EXCEPT ![r] = held]
            /\ answer' = answer /\ outcome' = outcome
        BY <1>2, <2>3 DEF GoOn
      <3>2. DOMAIN pc = Reqs /\ DOMAIN scfg = Reqs
        BY DEF TypeOK
      <3>3. Still
        BY <3>1, <3>2 DEF outcome
      <3> QED BY <3>3
    <2> QED BY <2>1, <2>2, <2>3
  <1>3. ASSUME NEW r \in Reqs, Begin(r) PROVE Goal
    <2>1. CASE tokens[Req[r].peer] = 0 \/ Req[r].src \notin cfg.sources
      BY <1>3, <2>1 DEF Begin, outcome
    <2>2. CASE ~(tokens[Req[r].peer] = 0 \/ Req[r].src \notin cfg.sources)
      <3> HIDE DEF Goal
      <3> QED BY <1>2, <1>3, <2>2 DEF Begin
    <2> QED BY <2>1, <2>2
  <1>4. ASSUME NEW r \in Reqs, FetchReturns(r) PROVE Goal
    <2>1. CASE got[r] = Failed
      BY <1>4, <2>1 DEF FetchReturns, outcome
    <2>2. CASE got[r] # Failed
      <3> HIDE DEF Goal
      <3> QED BY <1>2, <1>4, <2>2 DEF FetchReturns
    <2> QED BY <2>1, <2>2
  <1> HIDE DEF Still
  <1>5. ASSUME NEW r \in Reqs, FetchReads(r) PROVE Goal
    BY <1>0, <1>5 DEF FetchReads
  <1>6. CASE Refill
    BY <1>0, <1>6 DEF Refill
  <1>7. ASSUME NEW u \in Uris, Expire(u) \/ Rotate(u) \/ RefreshReads(u) \/ RefreshReturns(u)
        PROVE  Goal
    BY <1>0, <1>7 DEF Expire, Rotate, RefreshReads, RefreshReturns
  <1>8. ASSUME NEW c \in Configs, Reload(c) PROVE Goal
    BY <1>0, <1>8 DEF Reload
  <1>9. ASSUME NEW s \in Sessions, Hello(s) \/ Bye(s) PROVE Goal
    BY <1>0, <1>9 DEF Hello, Bye
  <1>10. CASE UNCHANGED vars
    BY <1>0, <1>10 DEF vars
  <1>15. ASSUME NEW r \in Reqs, SendReturns(r) \/ SendFails(r) PROVE Goal
    BY <1>15
  <1> HIDE DEF Goal
  <1>11. CASE \E r \in Reqs : Begin(r) \/ FetchReads(r) \/ FetchReturns(r) \/ SendReturns(r)
                              \/ SendFails(r)
    BY <1>3, <1>4, <1>5, <1>11, <1>15
  <1>12. CASE \E u \in Uris : Expire(u) \/ Rotate(u) \/ RefreshReads(u) \/ RefreshReturns(u)
    BY <1>7, <1>12
  <1>13. CASE \E c \in Configs : Reload(c)
    BY <1>8, <1>13
  <1>14. CASE \E s \in Sessions : Hello(s) \/ Bye(s)
    BY <1>9, <1>14
  <1> QED BY <1>6, <1>10, <1>11, <1>12, <1>13, <1>14 DEF Next

\* Delivery begins with what the configuration in effect resolves to.
LEMMA DeliverEffect ==
    ASSUME NEW r, NEW D, Deliver(r, cfg, D), granted' = granted
    PROVE  /\ dispatched' = dispatched \cup D
           /\ \/ Sends(r, cfg, Reach(cfg, r))
              \/ \E a \in {"queued", "no_subscriber", "refused"} :
                   /\ Finishes(r, a)
                   /\ \A n \in Reach(cfg, r) : Subscribers(cfg, n, granted) = {}
  <1> DEFINE q == Req[r]
             res == Resolve(cfg, q.src, q.dest, q.principal)
  <1>1. (res.ok => res.dests = Reach(cfg, r)) /\ (~res.ok => Reach(cfg, r) = {})
    BY ResolveExact DEF Reach
  <1>2. CASE ~res.ok
    <2>1. /\ Answered(r, "refused") /\ dispatched' = dispatched \cup D
          /\ left' = left /\ writing' = writing /\ sent' = sent
      BY <1>2 DEF Deliver, sends
    <2> QED BY <1>1, <1>2, <2>1 DEF Finishes
  <1>3. CASE res.ok
    <2>1. Serve(r, cfg, Reach(cfg, r), broken) /\ dispatched' = dispatched \cup D
      BY <1>1, <1>3 DEF Deliver
    <2>2. CASE Sends(r, cfg, Reach(cfg, r))
      BY <2>1, <2>2
    <2>3. CASE ~Sends(r, cfg, Reach(cfg, r))
      <3>1. PICK a \in {"queued", "no_subscriber"} :
              /\ Finishes(r, a)
              /\ \A m \in Reach(cfg, r) : Subscribers(cfg, m, granted') = {}
        BY <2>1, <2>3, ServeEffect
      <3> QED BY <2>1, <3>1
    <2> QED BY <2>2, <2>3
  <1> QED BY <1>2, <1>3

\* The event that is let through goes where the configuration in effect allows.
LEMMA AdmitEffect ==
    ASSUME NEW r, NEW held, Admit(r, held), granted' = granted
    PROVE  /\ \A d \in dispatched' \ dispatched :
                d[1] = r /\ d[2] \in cfg.channels \cap OutOfBandPrincipals(cfg, Req[r].src)
           /\ \/ Sends(r, cfg, Reach(cfg, r))
              \/ \E a \in Answers \ {"none"} :
                   /\ Finishes(r, a)
                   /\ a \in {"no_subscriber", "refused"} =>
                        \A n \in Reach(cfg, r) : Subscribers(cfg, n, granted) = {}
  <1> DEFINE q == Req[r]
  <1>0. ASSUME NEW a \in {"duplicate", "422", "denied"}, Answered(r, a), sends' = sends
        PROVE  \E b \in Answers \ {"none"} :
                 /\ Finishes(r, b)
                 /\ b \in {"no_subscriber", "refused"} =>
                      \A n \in Reach(cfg, r) : Subscribers(cfg, n, granted) = {}
    <2>1. Finishes(r, a)
      BY <1>0 DEF Finishes, sends
    <2>2. a \in Answers \ {"none"} /\ a \notin {"no_subscriber", "refused"}
      BY DEF Answers
    <2> QED BY <2>1, <2>2
  <1>1. CASE Contains(order, q.id)
    <2>1. Answered(r, "duplicate") /\ dispatched' = dispatched /\ sends' = sends
      BY <1>1 DEF Admit, outcome
    <2> QED BY <1>0, <2>1
  <1>2. CASE ~Contains(order, q.id) /\ q.target = None
    <2>1. Deliver(r, cfg, {})
      BY <1>2 DEF Admit, Authority
    <2> QED BY <2>1, DeliverEffect DEF Answers
  <1>3. CASE ~Contains(order, q.id) /\ q.target # None /\ q.target \notin cfg.channels
    <2>1. Answered(r, "422") /\ dispatched' = dispatched /\ sends' = sends
      BY <1>3 DEF Admit, Authority
    <2> QED BY <1>0, <2>1
  <1>4. CASE /\ ~Contains(order, q.id) /\ q.target # None /\ q.target \in cfg.channels
             /\ q.target \notin OutOfBandPrincipals(cfg, q.src)
    <2>1. Answered(r, "denied") /\ dispatched' = dispatched /\ sends' = sends
      BY <1>4 DEF Admit, Authority
    <2> QED BY <1>0, <2>1
  <1>5. CASE /\ ~Contains(order, q.id) /\ q.target # None /\ q.target \in cfg.channels
             /\ q.target \in OutOfBandPrincipals(cfg, q.src)
    <2>1. Deliver(r, cfg, {<<r, q.target>>})
      BY <1>5 DEF Admit, Authority
    <2>2. ASSUME NEW d \in dispatched' \ dispatched PROVE d = <<r, q.target>>
      BY <2>1, DeliverEffect
    <2> QED BY <1>5, <2>1, <2>2, DeliverEffect DEF Answers
  <1> QED BY <1>1, <1>2, <1>3, <1>4, <1>5

-----------------------------------------------------------------------------
(* types, and what a handler knows while it waits *)

\* The rate buckets.
Tokens == [Sources \cup Peers -> 0..Burst]

\* A handler that waits has a secret to wait for and the configuration of its
\* source, has not answered, and has read a value or failed.
HandlersFit ==
    \A r \in Reqs :
        /\ pc[r] \in {"fetching", "fetched"} => need[r] # <<>> /\ scfg[r] \in Configs
        /\ pc[r] = "fetched" => got[r] \in Versions \cup {Failed}
        /\ pc[r] # "done" => answer[r] = "none"

\* A delivery in progress has a frame on its way, and to go are destinations
\* that the configuration it resolved under lets its request reach.
SendingFit ==
    \A r \in Reqs : pc[r] = "sending" =>
        /\ scfg[r] \in Configs /\ left[r] \subseteq Reach(scfg[r], r)
        /\ writing[r] \in Names \X Sessions
        /\ <<r, writing[r][1], writing[r][2]>> \in sent

SendsOK ==
    /\ left \in [Reqs -> SUBSET Names]
    /\ writing \in [Reqs -> (Names \X Sessions) \cup {None}]

\* The next frame is one of them ...
LEMMA SendsKeep ==
    ASSUME TypeOK, SendingFit, NEW r \in Reqs, NEW c \in Configs,
           NEW D \in SUBSET Reach(c, r), Sends(r, c, D)
    PROVE  SendsOK' /\ SendingFit'
  <1>1. PICK n \in D, s \in Sessions : \E E \in SUBSET D :
          /\ left' = [left EXCEPT ![r] = E] /\ writing' = [writing EXCEPT ![r] = <<n, s>>]
          /\ sent' = sent \cup {<<r, n, s>>}
    BY DEF Sends
  <1>2. PICK E \in SUBSET D : left' = [left EXCEPT ![r] = E]
    BY <1>1
  <1>3. Reach(c, r) \subseteq Names /\ n \in Names
    BY DEF Reach, Names
  <1>4. SendsOK'
    BY <1>1, <1>2, <1>3 DEF TypeOK, SendsOK
  <1>5. /\ pc' = [pc EXCEPT ![r] = "sending"] /\ scfg' = [scfg EXCEPT ![r] = c]
        /\ DOMAIN pc = Reqs /\ DOMAIN scfg = Reqs /\ DOMAIN left = Reqs /\ DOMAIN writing = Reqs
    BY DEF Sends, TypeOK
  <1>6. ASSUME NEW q \in Reqs, pc'[q] = "sending"
        PROVE  /\ scfg'[q] \in Configs /\ left'[q] \subseteq Reach(scfg'[q], q)
               /\ writing'[q] \in Names \X Sessions
               /\ <<q, writing'[q][1], writing'[q][2]>> \in sent'
    <2>1. CASE q = r
      <3>1. scfg'[q] = c /\ left'[q] = E /\ writing'[q] = <<n, s>>
        BY <1>1, <1>2, <1>5, <2>1
      <3> QED BY <1>1, <1>3, <2>1, <3>1
    <2>2. CASE q # r
      <3>1. pc[q] = "sending" /\ scfg'[q] = scfg[q] /\ left'[q] = left[q] /\ writing'[q] = writing[q]
        BY <1>1, <1>2, <1>5, <1>6, <2>2
      <3>2. /\ scfg[q] \in Configs /\ left[q] \subseteq Reach(scfg[q], q)
            /\ writing[q] \in Names \X Sessions
            /\ <<q, writing[q][1], writing[q][2]>> \in sent
        BY <3>1 DEF SendingFit
      <3> QED BY <1>1, <3>1, <3>2
    <2> QED BY <2>1, <2>2
  <1>7. SendingFit' = \A q \in Reqs : pc'[q] = "sending" =>
               /\ scfg'[q] \in Configs /\ left'[q] \subseteq Reach(scfg'[q], q)
               /\ writing'[q] \in Names \X Sessions
               /\ <<q, writing'[q][1], writing'[q][2]>> \in sent'
    BY DEF SendingFit, Reach, MayReach
  <1> QED BY <1>4, <1>6, <1>7

\* ... and an answer leaves those of the others alone.
LEMMA FinishesKeep ==
    ASSUME TypeOK, SendingFit, NEW r \in Reqs, NEW a, Finishes(r, a)
    PROVE  SendsOK' /\ SendingFit'
  <1>1. SendsOK'
    BY DEF Finishes, TypeOK, SendsOK
  <1>2. ASSUME NEW q \in Reqs, pc'[q] = "sending"
        PROVE  /\ q # r /\ pc[q] = "sending" /\ scfg'[q] = scfg[q]
               /\ left'[q] = left[q] /\ writing'[q] = writing[q]
    <2>1. q # r /\ pc[q] = "sending" /\ scfg'[q] = scfg[q]
      BY <1>2 DEF Finishes, Answered, TypeOK
    <2> QED BY <2>1 DEF Finishes, TypeOK
  <1>3. ASSUME NEW q \in Reqs, pc'[q] = "sending"
        PROVE  <<q, writing[q][1], writing[q][2]>> \in sent'
    <2>1. <<q, writing[q][1], writing[q][2]>> \in sent /\ q # r
      BY <1>2, <1>3 DEF SendingFit
    <2> QED BY <2>1 DEF Finishes
  <1>4. SendingFit'
    BY <1>2, <1>3 DEF SendingFit, Reach, MayReach
  <1> QED BY <1>1, <1>4

\* Every step keeps what a delivery in progress relies on.
LEMMA SendingStep ==
    ASSUME TypeOK, SendingFit, [Next]_vars
    PROVE  SendsOK' /\ SendingFit'
  <1>1. CASE /\ UNCHANGED <<answer, dispatched, sends>>
             /\ \A q \in Reqs : pc'[q] = "sending" => pc[q] = "sending" /\ scfg'[q] = scfg[q]
    <2>1. left' = left /\ writing' = writing /\ sent' = sent
      BY <1>1 DEF sends
    <2>2. SendsOK'
      BY <2>1 DEF TypeOK, SendsOK
    <2>3. SendingFit'
      BY <1>1, <2>1 DEF SendingFit, Reach, MayReach
    <2> QED BY <2>2, <2>3
  <1>2. ASSUME NEW r \in Reqs, NEW a, Answered(r, a), UNCHANGED <<dispatched, sends>>
        PROVE  SendsOK' /\ SendingFit'
    <2>1. Finishes(r, a)
      BY <1>2 DEF Finishes, sends
    <2> QED BY <2>1, FinishesKeep
  <1>3. ASSUME NEW r \in Reqs, NEW held, Admit(r, held), granted' = granted
        PROVE  SendsOK' /\ SendingFit'
    <2>1. cfg \in Configs
      BY DEF TypeOK
    <2> QED BY <1>3, <2>1, AdmitEffect, SendsKeep, FinishesKeep
  <1>4. ASSUME NEW r \in Reqs, SendReturns(r) \/ SendFails(r)
        PROVE  SendsOK' /\ SendingFit'
    <2>1. PICK B : Serve(r, scfg[r], left[r], B)
      BY <1>4 DEF SendReturns, SendFails
    <2>2. scfg[r] \in Configs /\ left[r] \in SUBSET Reach(scfg[r], r)
      BY <1>4 DEF SendReturns, SendFails, SendingFit
    <2> QED BY <2>1, <2>2, ServeEffect, SendsKeep, FinishesKeep
  <1> QED BY <1>1, <1>2, <1>3, <1>4, HandlerSteps

\* A set of numbers that is not empty has a least one.
LEMMA LeastOf ==
    ASSUME NEW T \in SUBSET Nat, T # {}
    PROVE  \E x \in T : \A y \in T : x <= y
  <1> DEFINE R == StrictSubsetOrdering(Nat)
             U == {1..x : x \in T}
  <1>1. U # {} /\ U \subseteq FiniteSubsetsOf(Nat)
    <2>1. \A x \in T : IsFiniteSet(1..x) /\ 1..x \subseteq Nat
      BY FS_Interval
    <2> QED BY <2>1 DEF FiniteSubsetsOf
  <1>2. IsWellFoundedOn(R, FiniteSubsetsOf(Nat))
    BY FS_StrictSubsetOrderingWellFounded
  <1>3. PICK u \in U : \A v \in U : <<v, u>> \notin R
    <2> HIDE DEF R, U
    <2> QED BY <1>1, <1>2, WFMin
  <1>4. PICK x \in T : u = 1..x
    OBVIOUS
  <1>5. ASSUME NEW y \in T PROVE x <= y
    <2> SUFFICES ASSUME y < x PROVE FALSE
      OBVIOUS
    <2>1. 1..y \subseteq 1..x /\ x \in 1..x /\ x \notin 1..y
      BY <1>5
    <2>2. <<1..y, 1..x>> \in R
      <3>1. 1..y # 1..x
        BY <2>1
      <3>2. 1..y \in SUBSET Nat /\ 1..x \in SUBSET Nat
        OBVIOUS
      <3> QED BY <2>1, <3>1, <3>2 DEF StrictSubsetOrdering
    <2> QED BY <1>3, <1>4, <2>2
  <1> QED BY <1>5

\* Everything before the first URI to wait for is ready.
LEMMA ReadyLenReady ==
    ASSUME NEW U \in Seq(Uris)
    PROVE  /\ ReadyLen(U) \in 0..Len(U)
           /\ \A i \in 1..ReadyLen(U) : Ready(U[i])
  <1> DEFINE waits == {i \in DOMAIN U : ~Ready(U[i])}
  <1>1. DOMAIN U = 1..Len(U) /\ Len(U) \in Nat
    BY LenProperties
  <1>2. CASE waits = {}
    <2>1. ReadyLen(U) = Len(U)
      BY <1>2 DEF ReadyLen
    <2> QED BY <1>1, <1>2, <2>1
  <1>3. CASE waits # {}
    <2> DEFINE first == CHOOSE i \in waits : \A j \in waits : i <= j
    <2>1. ReadyLen(U) = first - 1
      BY <1>3 DEF ReadyLen
    <2>2. waits \in SUBSET Nat
      BY <1>1
    <2>3. first \in waits /\ \A j \in waits : first <= j
      <3> HIDE DEF waits
      <3>1. \E i \in waits : \A j \in waits : i <= j
        BY <1>3, <2>2, LeastOf
      <3> QED BY <3>1
    <2>4. first \in 1..Len(U)
      BY <1>1, <2>3
    <2> HIDE DEF first
    <2>5. ASSUME NEW i \in 1..(first - 1) PROVE Ready(U[i])
      <3>1. i \in 1..Len(U) /\ ~(first <= i)
        BY <1>1, <2>4
      <3> QED BY <1>1, <2>3, <3>1
    <2> QED BY <1>1, <2>1, <2>4, <2>5
  <1> QED BY <1>2, <1>3

\* A secret that is ready has a value, the environment's or the cached one.
LEMMA ReadyValue ==
    ASSUME backend \in [Uris -> Versions], cache' \in [Uris -> Values], NEW u \in Uris, Ready(u)
    PROVE  /\ ValueOf(u) \in Versions
           /\ \/ ValueOf(u) = cache'[u]
              \/ u \in EnvUris /\ ValueOf(u) = backend[u]
  <1>1. CASE u \in EnvUris
    BY <1>1 DEF ValueOf
  <1>2. CASE u \notin EnvUris
    <2>1. cache'[u] # None
      BY <1>2, IngestConstants DEF Ready, Usable
    <2> QED BY <1>2, <2>1 DEF ValueOf, Values
  <1> QED BY <1>1, <1>2

\* An answer ends the handler.
LEMMA AnsweredTypes ==
    ASSUME TypeOK, HandlersFit, NEW r \in Reqs, NEW a \in Answers, Answered(r, a),
           need' \in [Reqs -> Seq(Uris)],
           \A q \in Reqs \ {r} : need'[q] = need[q] /\ got'[q] = got[q]
    PROVE  /\ pc' \in [Reqs -> {"new", "fetching", "fetched", "sending", "done"}]
           /\ scfg' \in [Reqs -> Configs \cup {None}] /\ answer' \in [Reqs -> Answers]
           /\ HandlersFit'
  <1>1. /\ pc' \in [Reqs -> {"new", "fetching", "fetched", "sending", "done"}]
        /\ scfg' \in [Reqs -> Configs \cup {None}] /\ answer' \in [Reqs -> Answers]
    BY DEF TypeOK, Answered
  <1>2. ASSUME NEW q \in Reqs
        PROVE  /\ pc'[q] \in {"fetching", "fetched"} => need'[q] # <<>> /\ scfg'[q] \in Configs
               /\ pc'[q] = "fetched" => got'[q] \in Versions \cup {Failed}
               /\ pc'[q] # "done" => answer'[q] = "none"
    <2>1. CASE q = r
      <3>1. pc'[q] = "done"
        BY <2>1 DEF TypeOK, Answered
      <3> QED BY <3>1
    <2>2. CASE q # r
      <3>1. pc'[q] = pc[q] /\ scfg'[q] = scfg[q] /\ answer'[q] = answer[q]
        BY <2>2 DEF TypeOK, Answered
      <3> QED BY <2>2, <3>1 DEF HandlersFit
    <2> QED BY <2>1, <2>2
  <1> QED BY <1>1, <1>2 DEF HandlersFit

\* So does a frame that has to be waited for.
LEMMA SendsTypes ==
    ASSUME TypeOK, HandlersFit, NEW r \in Reqs, pc[r] # "done", NEW c \in Configs, NEW D,
           Sends(r, c, D), need' \in [Reqs -> Seq(Uris)],
           \A q \in Reqs \ {r} : need'[q] = need[q] /\ got'[q] = got[q]
    PROVE  /\ pc' \in [Reqs -> {"new", "fetching", "fetched", "sending", "done"}]
           /\ scfg' \in [Reqs -> Configs \cup {None}] /\ answer' \in [Reqs -> Answers]
           /\ HandlersFit' /\ pc'[r] = "sending"
  <1>1. /\ pc' = [pc EXCEPT ![r] = "sending"] /\ scfg' = [scfg EXCEPT ![r] = c]
        /\ answer' = answer /\ DOMAIN pc = Reqs
    BY DEF Sends, TypeOK
  <1>2. /\ pc' \in [Reqs -> {"new", "fetching", "fetched", "sending", "done"}]
        /\ scfg' \in [Reqs -> Configs \cup {None}] /\ answer' \in [Reqs -> Answers]
        /\ pc'[r] = "sending"
    BY <1>1 DEF TypeOK
  <1>3. ASSUME NEW q \in Reqs
        PROVE  /\ pc'[q] \in {"fetching", "fetched"} => need'[q] # <<>> /\ scfg'[q] \in Configs
               /\ pc'[q] = "fetched" => got'[q] \in Versions \cup {Failed}
               /\ pc'[q] # "done" => answer'[q] = "none"
    <2>1. CASE q = r
      BY <1>1, <1>2, <2>1 DEF HandlersFit
    <2>2. CASE q # r
      <3>1. pc'[q] = pc[q] /\ scfg'[q] = scfg[q] /\ answer'[q] = answer[q]
        BY <1>1, <2>2 DEF TypeOK
      <3> QED BY <2>2, <3>1 DEF HandlersFit
    <2> QED BY <2>1, <2>2
  <1> QED BY <1>2, <1>3 DEF HandlersFit

\* The gates answer or hand the event on, and charge a token at most.
LEMMA GatesTypes ==
    ASSUME NEW r \in Reqs, NEW held, NEW K, NEW T \in Tokens, Gates(r, held, K, T),
           granted' = granted
    PROVE  /\ \/ \E a \in Answers \ {"none"} : Answered(r, a)
              \/ Sends(r, cfg, Reach(cfg, r))
           /\ tokens' \in Tokens
           /\ \A b \in Sources \cup Peers : tokens'[b] < T[b] => b = Req[r].src /\ key'[r] \in K
  <1> DEFINE s == Req[r].src
  <1>0. s \in Sources /\ Burst \in Nat
    BY IngestConstants
  <1>1. ASSUME Admit(r, held)
        PROVE  \/ \E a \in Answers \ {"none"} : Answered(r, a)
               \/ Sends(r, cfg, Reach(cfg, r))
    BY <1>1, AdmitEffect DEF Finishes
  <1>2. \/ \E a \in Answers \ {"none"} : Answered(r, a)
        \/ Sends(r, cfg, Reach(cfg, r))
    <2>1. CASE Admit(r, held)
      BY <1>1, <2>1
    <2>2. CASE ~Admit(r, held)
      BY <2>2 DEF Gates, BuildErrors, Answers
    <2> QED BY <2>1, <2>2
  <1>3. CASE key'[r] \notin K
    <2>1. tokens' = T
      BY <1>3 DEF Gates
    <2> QED BY <1>0, <1>2, <2>1 DEF Tokens
  <1>4. CASE key'[r] \in K
    <2>1. tokens' = [T EXCEPT ![s] = IF @ > 0 THEN @ - 1 ELSE 0]
      BY <1>4 DEF Gates
    <2>2. T[s] \in 0..Burst
      BY <1>0 DEF Tokens
    <2>3. tokens' \in Tokens
      BY <1>0, <2>1, <2>2 DEF Tokens
    <2>4. \A b \in Sources \cup Peers : b # s => tokens'[b] = T[b]
      BY <1>0, <2>1 DEF Tokens
    <2>5. \A b \in Sources \cup Peers : T[b] \in Int
      BY <1>0 DEF Tokens
    <2> QED BY <1>2, <1>4, <2>3, <2>4, <2>5
  <1> QED BY <1>3, <1>4

\* The secrets a source may be verified against: what its URIs resolve to.
Known == {cache'[u] : u \in Uris} \cup {backend[u] : u \in EnvUris}

\* A handler that goes on waits again, fails, or comes to the gates with secrets
\* that are in the cache or in the environment.
LEMMA GoOnEffect ==
    ASSUME TypeOK, HandlersFit, NEW r \in Reqs, pc[r] # "done",
           NEW held \in Configs, NEW U \in Seq(Uris), NEW K \in SUBSET Versions, NEW T \in Tokens,
           cache' \in [Uris -> Values], GoOn(r, held, U, K, T), granted' = granted
    PROVE  /\ pc' \in [Reqs -> {"new", "fetching", "fetched", "sending", "done"}]
           /\ scfg' \in [Reqs -> Configs \cup {None}] /\ answer' \in [Reqs -> Answers]
           /\ need' \in [Reqs -> Seq(Uris)] /\ keys' \in [Reqs -> SUBSET Versions]
           /\ got' \in [Reqs -> Values \cup {Failed}]
           /\ HandlersFit'
           /\ tokens' \in Tokens
           /\ \A b \in Sources \cup Peers : tokens'[b] < T[b] =>
                /\ b = Req[r].src /\ pc'[r] \in {"sending", "done"}
                /\ key'[r] \in K \cup Known /\ key'[r] \in Versions
  <1> DEFINE n == ReadyLen(U)
             K2 == K \cup {ValueOf(U[i]) : i \in 1..n}
  <1>1. n \in 0..Len(U) /\ Len(U) \in Nat /\ \A i \in 1..n : Ready(U[i]) /\ U[i] \in Uris
    BY ReadyLenReady, ElementOfSeq
  <1>2. K2 \in SUBSET Versions /\ K2 \subseteq K \cup Known
    <2> SUFFICES ASSUME NEW i \in 1..n
                 PROVE  ValueOf(U[i]) \in Versions /\ ValueOf(U[i]) \in Known
      OBVIOUS
    <2> HIDE DEF n
    <2>1. U[i] \in Uris /\ Ready(U[i])
      BY <1>1
    <2>2. backend \in [Uris -> Versions]
      BY DEF TypeOK
    <2> QED BY <2>1, <2>2, ReadyValue DEF Known
  <1>3. got' = [got EXCEPT ![r] = None]
    BY DEF GoOn
  <1>4. got' \in [Reqs -> Values \cup {Failed}] /\ \A q \in Reqs \ {r} : got'[q] = got[q]
    BY <1>3 DEF TypeOK, Values
  <1>5. <<>> \in Seq(Uris)
    OBVIOUS
  <1>6. DOMAIN pc = Reqs /\ cfg \in Configs
    BY DEF TypeOK
  <1>7. CASE n = Len(U)
    <2>1. /\ need' = [need EXCEPT ![r] = <<>>] /\ keys' = [keys EXCEPT ![r] = {}]
          /\ Gates(r, held, K2, T)
      BY <1>7 DEF GoOn
    <2> HIDE DEF n, K2
    <2>2. /\ need' \in [Reqs -> Seq(Uris)] /\ keys' \in [Reqs -> SUBSET Versions]
          /\ \A q \in Reqs \ {r} : need'[q] = need[q]
      BY <1>5, <2>1 DEF TypeOK
    <2>3. /\ pc' \in [Reqs -> {"new", "fetching", "fetched", "sending", "done"}]
          /\ scfg' \in [Reqs -> Configs \cup {None}] /\ answer' \in [Reqs -> Answers]
          /\ HandlersFit' /\ pc'[r] \in {"sending", "done"}
      <3>1. CASE \E a \in Answers \ {"none"} : Answered(r, a)
        <4>1. PICK a \in Answers \ {"none"} : Answered(r, a)
          BY <3>1
        <4>2. pc'[r] = "done"
          BY <1>6, <4>1 DEF Answered
        <4> QED BY <1>4, <2>2, <4>1, <4>2, AnsweredTypes
      <3>2. CASE Sends(r, cfg, Reach(cfg, r))
        BY <1>4, <1>6, <2>2, <3>2, SendsTypes
      <3> QED BY <2>1, <3>1, <3>2, GatesTypes
    <2> QED BY <1>2, <1>4, <2>1, <2>2, <2>3, GatesTypes
  <1>8. CASE n # Len(U) /\ U[n + 1] \in EnvUris
    <2>1. /\ need' = [need EXCEPT ![r] = <<>>] /\ keys' = [keys EXCEPT ![r] = {}]
          /\ Answered(r, "500") /\ tokens' = T
      BY <1>8 DEF GoOn
    <2>2. /\ need' \in [Reqs -> Seq(Uris)] /\ keys' \in [Reqs -> SUBSET Versions]
          /\ \A q \in Reqs \ {r} : need'[q] = need[q]
      BY <1>5, <2>1 DEF TypeOK
    <2>3. "500" \in Answers
      BY DEF Answers
    <2>4. \A b \in Sources \cup Peers : ~(tokens'[b] < T[b])
      BY <2>1, IngestConstants DEF Tokens
    <2> QED BY <1>4, <2>1, <2>2, <2>3, <2>4, AnsweredTypes
  <1>9. CASE n # Len(U) /\ U[n + 1] \notin EnvUris
    <2>1. /\ need' = [need EXCEPT ![r] = SubSeq(U, n + 1, Len(U))]
          /\ keys' = [keys EXCEPT ![r] = K2]
          /\ pc' = [pc EXCEPT ![r] = "fetching"] /\ tokens' = T
          /\ scfg' = [scfg EXCEPT ![r] = held]
          /\ answer' = answer
      BY <1>9 DEF GoOn
    <2> DEFINE rest == SubSeq(U, n + 1, Len(U))
    <2>2. rest \in Seq(Uris) /\ rest # <<>>
      <3> HIDE DEF n
      <3>1. n + 1 \in 1..Len(U) /\ Len(U) \in 1..Len(U)
        BY <1>1, <1>9
      <3>2. rest \in Seq(Uris)
        BY <3>1, SubSeqProperties
      <3>3. Len(rest) = Len(U) - n
        BY <1>1, <3>1, SubSeqProperties
      <3> HIDE DEF rest
      <3>4. Len(rest) # 0
        BY <1>1, <1>9, <3>3
      <3> QED BY <3>2, <3>4
    <2> HIDE DEF n, K2, rest
    <2>3. /\ need' \in [Reqs -> Seq(Uris)] /\ need'[r] # <<>>
          /\ \A q \in Reqs \ {r} : need'[q] = need[q]
      BY <2>1, <2>2 DEF TypeOK, rest
    <2>4. keys' \in [Reqs -> SUBSET Versions]
      BY <1>2, <2>1 DEF TypeOK
    <2>5. /\ pc' \in [Reqs -> {"new", "fetching", "fetched", "sending", "done"}] /\ pc'[r] = "fetching"
          /\ \A q \in Reqs \ {r} : pc'[q] = pc[q]
      BY <2>1 DEF TypeOK
    <2>6. /\ scfg' \in [Reqs -> Configs \cup {None}] /\ scfg'[r] = held
          /\ \A q \in Reqs \ {r} : scfg'[q] = scfg[q]
      BY <2>1 DEF TypeOK
    <2>7. HandlersFit'
      BY <1>4, <2>1, <2>3, <2>5, <2>6 DEF HandlersFit
    <2>8. \A b \in Sources \cup Peers : ~(tokens'[b] < T[b])
      BY <2>1, IngestConstants DEF Tokens
    <2> QED BY <1>4, <2>1, <2>3, <2>4, <2>5, <2>6, <2>7, <2>8 DEF TypeOK
  <1> QED BY <1>7, <1>8, <1>9

\* The peer's bucket is not the bucket of a source.
LEMMA ChargePeerEffect ==
    ASSUME TypeOK, NEW r \in Reqs
    PROVE  /\ ChargePeer(Req[r]) \in Tokens
           /\ \A s \in Sources : ChargePeer(Req[r])[s] = tokens[s]
  <1> DEFINE p == Req[r].peer
  <1>1. p \in Peers /\ Burst \in Nat /\ \A s \in Sources : s # p
    BY IngestConstants
  <1>2. ChargePeer(Req[r]) = [tokens EXCEPT ![p] = IF @ > 0 THEN @ - 1 ELSE 0]
    BY DEF ChargePeer, Charge
  <1>3. tokens \in Tokens /\ tokens[p] \in 0..Burst
    BY <1>1 DEF TypeOK, Tokens
  <1> HIDE DEF p
  <1> QED BY <1>1, <1>2, <1>3 DEF Tokens

\* A request that arrives: a bucket is empty, the source unknown, or the
\* handler goes on with the URIs of the source.
LEMMA BeginEffect ==
    ASSUME TypeOK, HandlersFit, WindowFits', SendsOK', NEW r \in Reqs, Begin(r)
    PROVE  /\ TypeOK' /\ HandlersFit'
           /\ \A s \in Sources : tokens'[s] < tokens[s] =>
                /\ s = Req[r].src /\ pc[r] \notin {"sending", "done"} /\ pc'[r] \in {"sending", "done"}
                /\ key'[r] \in Known /\ key'[r] \in Versions
  <1> DEFINE q == Req[r]
             T == ChargePeer(q)
  <1>1. /\ UNCHANGED <<cfg, backend, cache, fresh, toRefresh, refreshing, rotations, granted,
                       reloads, refills>>
        /\ pc[r] = "new"
        /\ \/ key' = key
           \/ \E k \in 0..rotations \cup {None} : key' = [key EXCEPT ![r] = k]
    BY DEF Begin, secrets
  <1>2. key' \in [Reqs -> Values]
    <2>0. CASE key' = key
      BY <2>0 DEF TypeOK
    <2> SUFFICES ASSUME key' # key PROVE key' \in [Reqs -> Values]
      BY <2>0
    <2>1. PICK k \in 0..rotations \cup {None} : key' = [key EXCEPT ![r] = k]
      BY <1>1
    <2>2. rotations \in 0..MaxRotations /\ MaxRotations \in Nat
      BY IngestConstants DEF TypeOK, Versions
    <2>3. k \in Values
      BY <2>2 DEF Values, Versions
    <2> QED BY <2>1, <2>3 DEF TypeOK
  <1>3. answer[r] = "none"
    BY <1>1 DEF HandlersFit
  <1>4. T \in Tokens /\ \A s \in Sources : T[s] = tokens[s] /\ ~(T[s] < tokens[s])
    BY ChargePeerEffect, IngestConstants DEF TypeOK
  <1>5. Len(order') <= MaxSize
    BY IngestConstants DEF WindowFits
  <1> HIDE DEF T
  <1>6. CASE tokens[q.peer] = 0 \/ q.src \notin cfg.sources
    <2>1. /\ Answered(r, IF tokens[q.peer] = 0 THEN "429" ELSE "403")
          /\ tokens' = T /\ need' = need /\ keys' = keys /\ got' = got
      BY <1>6 DEF Begin, T
    <2>2. (IF tokens[q.peer] = 0 THEN "429" ELSE "403") \in Answers
      BY DEF Answers
    <2>3. /\ pc' \in [Reqs -> {"new", "fetching", "fetched", "sending", "done"}]
          /\ scfg' \in [Reqs -> Configs \cup {None}] /\ answer' \in [Reqs -> Answers]
          /\ HandlersFit'
      BY <2>1, <2>2, AnsweredTypes DEF TypeOK
    <2>4. TypeOK'
      BY <1>1, <1>2, <1>4, <1>5, <2>1, <2>3 DEF TypeOK, Tokens, SendsOK
    <2> QED BY <1>4, <2>1, <2>3, <2>4
  <1>7. CASE ~(tokens[q.peer] = 0 \/ q.src \notin cfg.sources)
    <2>1. GoOn(r, cfg, cfg.uris[q.src], {}, T)
      BY <1>7 DEF Begin, T
    <2>2. cfg \in Configs /\ cfg.uris[q.src] \in Seq(Uris) /\ {} \in SUBSET Versions
      BY <1>7, IngestConstants DEF TypeOK
    <2>3. cache' \in [Uris -> Values] /\ pc[r] # "done"
      BY <1>1 DEF TypeOK
    <2>4. /\ pc' \in [Reqs -> {"new", "fetching", "fetched", "sending", "done"}]
          /\ scfg' \in [Reqs -> Configs \cup {None}] /\ answer' \in [Reqs -> Answers]
          /\ need' \in [Reqs -> Seq(Uris)] /\ keys' \in [Reqs -> SUBSET Versions]
          /\ got' \in [Reqs -> Values \cup {Failed}]
          /\ HandlersFit' /\ tokens' \in Tokens
          /\ \A b \in Sources \cup Peers : tokens'[b] < T[b] =>
                /\ b = q.src /\ pc'[r] \in {"sending", "done"}
                /\ key'[r] \in {} \cup Known /\ key'[r] \in Versions
      BY <1>1, <1>4, <2>1, <2>2, <2>3, GoOnEffect
    <2>5. TypeOK'
      BY <1>1, <1>2, <1>5, <2>4 DEF TypeOK, Tokens, SendsOK
    <2> QED BY <1>1, <1>3, <1>4, <2>4, <2>5
  <1> QED BY <1>6, <1>7

\* A secret that arrives is cached, and known.
LEMMA FetchReturnsEffect ==
    ASSUME TypeOK, HandlersFit, WindowFits', SendsOK', NEW r \in Reqs, FetchReturns(r)
    PROVE  /\ TypeOK' /\ HandlersFit'
           /\ \A s \in Sources : tokens'[s] < tokens[s] =>
                /\ s = Req[r].src /\ pc[r] \notin {"sending", "done"} /\ pc'[r] \in {"sending", "done"}
                /\ key'[r] \in keys[r] \cup Known /\ key'[r] \in Versions
  <1>1. /\ UNCHANGED <<cfg, backend, toRefresh, refreshing, rotations, granted, reloads, refills>>
        /\ pc[r] = "fetched" /\ key' = key
    BY DEF FetchReturns
  <1>2. need[r] # <<>> /\ scfg[r] \in Configs /\ got[r] \in Versions \cup {Failed} /\ answer[r] = "none"
    BY <1>1 DEF HandlersFit
  <1>3. need[r] \in Seq(Uris) /\ keys[r] \in SUBSET Versions
    BY DEF TypeOK
  <1>4. need[r][1] \in Uris /\ Tail(need[r]) \in Seq(Uris)
    BY <1>2, <1>3, HeadTailProperties
  <1>5. Len(order') <= MaxSize
    BY IngestConstants DEF WindowFits
  <1>6. CASE got[r] = Failed
    <2>1. /\ Answered(r, "500")
          /\ need' = [need EXCEPT ![r] = <<>>] /\ keys' = [keys EXCEPT ![r] = {}]
          /\ got' = [got EXCEPT ![r] = None]
          /\ UNCHANGED <<tokens, cache, fresh>>
      BY <1>6 DEF FetchReturns
    <2>2. /\ need' \in [Reqs -> Seq(Uris)] /\ keys' \in [Reqs -> SUBSET Versions]
          /\ got' \in [Reqs -> Values \cup {Failed}]
          /\ \A q \in Reqs \ {r} : need'[q] = need[q] /\ got'[q] = got[q]
      BY <2>1 DEF TypeOK, Values
    <2>3. "500" \in Answers
      BY DEF Answers
    <2>4. /\ pc' \in [Reqs -> {"new", "fetching", "fetched", "sending", "done"}]
          /\ scfg' \in [Reqs -> Configs \cup {None}] /\ answer' \in [Reqs -> Answers]
          /\ HandlersFit'
      BY <2>1, <2>2, <2>3, AnsweredTypes
    <2>5. TypeOK'
      BY <1>1, <1>5, <2>1, <2>2, <2>4 DEF TypeOK, SendsOK
    <2>6. \A s \in Sources : ~(tokens'[s] < tokens[s])
      BY <2>1, IngestConstants DEF TypeOK
    <2> QED BY <2>4, <2>5, <2>6
  <1>7. CASE got[r] # Failed
    <2> DEFINE K == keys[r] \cup {got[r]}
    <2>1. /\ cache' = [cache EXCEPT ![need[r][1]] = got[r]] /\ fresh' = fresh \cup {need[r][1]}
          /\ GoOn(r, scfg[r], Tail(need[r]), K, tokens)
      BY <1>7 DEF FetchReturns, Store
    <2>2. got[r] \in Versions /\ K \in SUBSET Versions
      BY <1>2, <1>3, <1>7
    <2>3. cache' \in [Uris -> Values] /\ cache'[need[r][1]] = got[r] /\ fresh' \subseteq Uris
      BY <1>4, <2>1, <2>2 DEF TypeOK, Values
    <2>4. K \cup Known = keys[r] \cup Known
      BY <1>4, <2>3 DEF Known
    <2>5. pc[r] # "done" /\ tokens \in Tokens
      BY <1>1 DEF TypeOK, Tokens, SendsOK
    <2> HIDE DEF K
    <2>6. /\ pc' \in [Reqs -> {"new", "fetching", "fetched", "sending", "done"}]
          /\ scfg' \in [Reqs -> Configs \cup {None}] /\ answer' \in [Reqs -> Answers]
          /\ need' \in [Reqs -> Seq(Uris)] /\ keys' \in [Reqs -> SUBSET Versions]
          /\ got' \in [Reqs -> Values \cup {Failed}]
          /\ HandlersFit' /\ tokens' \in Tokens
          /\ \A b \in Sources \cup Peers : tokens'[b] < tokens[b] =>
                /\ b = Req[r].src /\ pc'[r] \in {"sending", "done"}
                /\ key'[r] \in K \cup Known /\ key'[r] \in Versions
      BY <1>1, <1>2, <1>4, <2>1, <2>2, <2>3, <2>5, GoOnEffect
    <2>7. TypeOK'
      BY <1>1, <1>5, <2>3, <2>6 DEF TypeOK, Tokens, SendsOK
    <2> QED BY <1>1, <1>2, <2>4, <2>6, <2>7
  <1> QED BY <1>6, <1>7

\* A delivery that goes on.
LEMMA ResumeTypes ==
    ASSUME TypeOK, HandlersFit, SendingFit, WindowFits', SendsOK', NEW r \in Reqs,
           SendReturns(r) \/ SendFails(r)
    PROVE  TypeOK' /\ HandlersFit'
  <1>1. PICK B : Serve(r, scfg[r], left[r], B)
    BY DEF SendReturns, SendFails
  <1>2. /\ UNCHANGED <<cfg, need, keys, got, key, tokens, secrets, dispatched, reloads, refills>>
        /\ pc[r] = "sending" /\ scfg[r] \in Configs
    BY DEF SendReturns, SendFails, SendingFit
  <1>3. /\ pc' \in [Reqs -> {"new", "fetching", "fetched", "sending", "done"}]
        /\ scfg' \in [Reqs -> Configs \cup {None}] /\ answer' \in [Reqs -> Answers]
        /\ HandlersFit'
    <2>0. need' = need /\ got' = got /\ need \in [Reqs -> Seq(Uris)]
      BY <1>2 DEF TypeOK
    <2>1. CASE Sends(r, scfg[r], left[r])
      BY <1>2, <2>0, <2>1, SendsTypes
    <2>2. CASE ~Sends(r, scfg[r], left[r])
      <3>1. PICK a \in {"queued", "no_subscriber"} : Answered(r, a)
        BY <1>1, <2>2, ServeEffect DEF Finishes
      <3>2. a \in Answers
        BY DEF Answers
      <3> QED BY <2>0, <3>1, <3>2, AnsweredTypes
    <2> QED BY <2>1, <2>2
  <1>4. DOMAIN granted' = Sessions /\ \A s \in Sessions : granted'[s] \subseteq Claims[s]
    BY DEF SendReturns, SendFails, TypeOK
  <1>5. Len(order') <= MaxSize
    BY IngestConstants DEF WindowFits
  <1> QED BY <1>2, <1>3, <1>4, <1>5 DEF TypeOK, SendsOK, secrets

\* The inductive invariant of the ingest, next to WindowInv.
IngestInv == TypeOK /\ HandlersFit /\ SendingFit

\* The empty daemon, with the configuration it was started with.
LEMMA IngestInitInv == Init => IngestInv
  <1> SUFFICES ASSUME Init PROVE IngestInv
    OBVIOUS
  <1>1. TypeOK
    <2>1. 0 \in Versions /\ 0 \in Nat
      BY IngestConstants DEF Versions
    <2>2. Burst \in 0..Burst /\ MaxSize \in Nat /\ FirstConfig \in Configs
      BY IngestConstants
    <2>3. Len(order) <= MaxSize
      BY <2>2 DEF Init
    <2> QED BY <2>1, <2>2, <2>3 DEF Init, TypeOK, Values, Answers
  <1>2. HandlersFit /\ SendingFit
    BY DEF Init, HandlersFit, SendingFit
  <1> QED BY <1>1, <1>2 DEF IngestInv

\* Every step keeps the types and what the handlers rely on.
LEMMA StepTypes ==
    ASSUME TypeOK, HandlersFit, SendingFit, WindowFits', SendsOK', [Next]_vars
    PROVE  TypeOK' /\ HandlersFit'
  <1>1. ASSUME NEW r \in Reqs, Begin(r) PROVE TypeOK' /\ HandlersFit'
    BY <1>1, BeginEffect
  <1>2. ASSUME NEW r \in Reqs, FetchReturns(r) PROVE TypeOK' /\ HandlersFit'
    BY <1>2, FetchReturnsEffect
  <1>3. ASSUME NEW r \in Reqs, FetchReads(r) PROVE TypeOK' /\ HandlersFit'
    <2>1. PICK v \in {backend[need[r][1]], Failed} : got' = [got EXCEPT ![r] = v]
      BY <1>3 DEF FetchReads
    <2>2. need[r] \in Seq(Uris) /\ need[r] # <<>>
      BY <1>3 DEF FetchReads, TypeOK, HandlersFit
    <2>3. need[r][1] \in Uris
      BY <2>2, HeadTailProperties
    <2>4. v \in Versions \cup {Failed}
      BY <2>3 DEF TypeOK
    <2>5. TypeOK'
      BY <1>3, <2>1, <2>4 DEF FetchReads, TypeOK, SendsOK, Values, outcome, secrets
    <2>6. HandlersFit'
      BY <1>3, <2>1, <2>4 DEF FetchReads, TypeOK, HandlersFit
    <2> QED BY <2>5, <2>6
  <1>4. CASE Refill
    <2>1. tokens' \in [Sources \cup Peers -> 0..Burst]
      <3>1. Burst \in Nat
        BY IngestConstants
      <3>2. \A b \in Sources \cup Peers : tokens[b] \in 0..Burst
        BY DEF TypeOK
      <3> QED BY <1>4, <3>1, <3>2 DEF Refill
    <2>2. refills' \in Nat
      BY <1>4 DEF Refill, TypeOK
    <2>3. TypeOK'
      BY <1>4, <2>1, <2>2 DEF Refill, TypeOK, SendsOK, request, secrets, outcome
    <2> QED BY <1>4, <2>3 DEF Refill, HandlersFit, request
  <1>5. ASSUME NEW u \in Uris, Expire(u) PROVE TypeOK' /\ HandlersFit'
    BY <1>5 DEF Expire, TypeOK, SendsOK, HandlersFit, request, outcome
  <1>6. ASSUME NEW u \in Uris, Rotate(u) PROVE TypeOK' /\ HandlersFit'
    <2>1. rotations + 1 \in Versions
      BY <1>6, IngestConstants DEF Rotate, TypeOK, Versions
    <2>2. backend' \in [Uris -> Versions] /\ rotations' \in Versions
      BY <1>6, <2>1 DEF Rotate, TypeOK
    <2>3. TypeOK'
      BY <1>6, <2>2 DEF Rotate, TypeOK, SendsOK, request, outcome
    <2> QED BY <1>6, <2>3 DEF Rotate, HandlersFit, request
  <1>7. ASSUME NEW u \in Uris, RefreshReads(u) PROVE TypeOK' /\ HandlersFit'
    <2>1. refreshing' \in Values \cup {Failed}
      BY <1>7 DEF RefreshReads, TypeOK, Values
    <2>2. TypeOK'
      BY <1>7, <2>1 DEF RefreshReads, TypeOK, SendsOK, request, outcome
    <2> QED BY <1>7, <2>2 DEF RefreshReads, HandlersFit, request
  <1>8. ASSUME NEW u \in Uris, RefreshReturns(u) PROVE TypeOK' /\ HandlersFit'
    <2>1. cache' \in [Uris -> Values] /\ fresh' \subseteq Uris
      BY <1>8 DEF RefreshReturns, Store, TypeOK
    <2>2. TypeOK'
      BY <1>8, <2>1 DEF RefreshReturns, TypeOK, SendsOK, Values, request, outcome
    <2> QED BY <1>8, <2>2 DEF RefreshReturns, HandlersFit, request
  <1>9. ASSUME NEW c \in Configs, Reload(c) PROVE TypeOK' /\ HandlersFit'
    BY <1>9 DEF Reload, TypeOK, SendsOK, HandlersFit, request, outcome
  <1>10. ASSUME NEW s \in Sessions, Hello(s) \/ Bye(s) PROVE TypeOK' /\ HandlersFit'
    <2>1. DestinationsForHello(cfg, AdapterOf[s], Claims[s]) \subseteq Claims[s]
      BY DEF DestinationsForHello
    <2>2. DOMAIN granted' = Sessions /\ \A t \in Sessions : granted'[t] \subseteq Claims[t]
      BY <1>10, <2>1 DEF Hello, Bye, TypeOK
    <2>3. TypeOK'
      BY <1>10, <2>2 DEF Hello, Bye, TypeOK, SendsOK, request, secrets, outcome
    <2> QED BY <1>10, <2>3 DEF Hello, Bye, HandlersFit, request
  <1>12. ASSUME NEW r \in Reqs, SendReturns(r) \/ SendFails(r) PROVE TypeOK' /\ HandlersFit'
    BY <1>12, ResumeTypes
  <1>11. CASE UNCHANGED vars
    BY <1>11 DEF vars, TypeOK, SendsOK, HandlersFit, request, secrets, outcome
  <1> QED BY <1>1, <1>2, <1>3, <1>4, <1>5, <1>6, <1>7, <1>8, <1>9, <1>10, <1>11, <1>12 DEF Next

\* The invariant of the ingest holds in every reachable state.
THEOREM IngestInvariant == Spec => []IngestInv
  <1>1. WindowInv => WindowFits
    BY DEF WindowInv
  <1>2. IngestInv /\ WindowFits' /\ [Next]_vars => IngestInv'
    BY StepTypes, SendingStep DEF IngestInv
  <1> QED BY <1>1, <1>2, IngestInitInv, WindowInvariant, PTL DEF Spec

\* Type correctness of the ingest.
THEOREM IngestTypes == Spec => []TypeOK
  <1>1. IngestInv => TypeOK
    BY DEF IngestInv
  <1> QED BY <1>1, IngestInvariant, PTL

\* Authorization follows the configuration in effect when an event is handed on
\* (main.py:205-218, ingest.py:477-487), whatever was in effect when its handler
\* began or its adapter connected; a fan-out under way keeps the one it resolved
\* under (router.py:588-604) and sends only to sessions still connected.
THEOREM IngestActsOnLiveConfig == Spec => ActsOnLiveConfig
  <1> DEFINE Lawful(t, c) == /\ t[2] \in DestinationNames(c) /\ MayReach(c, Req[t[1]], t[2])
                             /\ t[2] \in granted'[t[3]]
                             /\ AcceptsAdapter(Destination(c, t[2]), AdapterOf[t[3]])
             Keeps(r) == pc'[r] = "sending" =>
                           scfg'[r] = IF pc[r] = "sending" THEN scfg[r] ELSE cfg
             A == /\ \A d \in dispatched' \ dispatched :
                       d[2] \in cfg.channels \cap OutOfBandPrincipals(cfg, Req[d[1]].src)
                  /\ \A r \in Reqs : Keeps(r)
                  /\ \A t \in sent' \ sent : Lawful(t, scfg'[t[1]])
  <1>1. IngestInv /\ [Next]_vars => A
    <2> SUFFICES ASSUME IngestInv, [Next]_vars PROVE A
      OBVIOUS
    <2>0. DOMAIN pc = Reqs /\ DOMAIN scfg = Reqs /\ TypeOK
      BY DEF IngestInv, TypeOK
    <2>1. CASE /\ UNCHANGED <<answer, dispatched, sends>>
               /\ \A q \in Reqs : pc'[q] = "sending" => pc[q] = "sending" /\ scfg'[q] = scfg[q]
      BY <2>1 DEF sends
    <2>2. ASSUME NEW r \in Reqs, NEW a, Finishes(r, a)
          PROVE  (\A q \in Reqs : Keeps(q)) /\ \A t \in sent' \ sent : Lawful(t, scfg'[t[1]])
      BY <2>0, <2>2 DEF Finishes, Answered
    <2>3. ASSUME NEW r \in Reqs, NEW c, NEW D \in SUBSET Reach(c, r), Sends(r, c, D),
                 c = IF pc[r] = "sending" THEN scfg[r] ELSE cfg
          PROVE  (\A q \in Reqs : Keeps(q)) /\ \A t \in sent' \ sent : Lawful(t, scfg'[t[1]])
      <3>1. pc' = [pc EXCEPT ![r] = "sending"] /\ scfg' = [scfg EXCEPT ![r] = c]
        BY <2>3 DEF Sends
      <3>2. PICK n \in D, s \in Sessions :
              /\ n \in granted'[s] /\ AcceptsAdapter(Destination(c, n), AdapterOf[s])
              /\ sent' = sent \cup {<<r, n, s>>}
        BY <2>3 DEF Sends
      <3>3. n \in DestinationNames(c) /\ MayReach(c, Req[r], n)
        BY DEF Reach
      <3>4. \A q \in Reqs : Keeps(q)
        BY <2>0, <2>3, <3>1
      <3>5. ASSUME NEW t \in sent' \ sent PROVE Lawful(t, scfg'[t[1]])
        <4>1. t = <<r, n, s>>
          BY <3>2
        <4>2. t[1] = r /\ t[2] = n /\ t[3] = s /\ scfg'[r] = c
          BY <2>0, <3>1, <4>1
        <4> QED BY <3>2, <3>3, <4>2
      <3> QED BY <3>4, <3>5
    <2>4. ASSUME NEW r \in Reqs, pc[r] \notin {"sending", "done"}, NEW held, Admit(r, held),
                 granted' = granted
          PROVE  A
      <3>1. \A d \in dispatched' \ dispatched :
              d[2] \in cfg.channels \cap OutOfBandPrincipals(cfg, Req[d[1]].src)
        BY <2>4, AdmitEffect
      <3> HIDE DEF Keeps, Lawful
      <3>2. CASE Sends(r, cfg, Reach(cfg, r))
        BY <2>3, <2>4, <3>1, <3>2
      <3>3. CASE ~Sends(r, cfg, Reach(cfg, r))
        BY <2>2, <2>4, <3>1, <3>3, AdmitEffect
      <3> QED BY <3>2, <3>3
    <2>5. ASSUME NEW r \in Reqs, SendReturns(r) \/ SendFails(r) PROVE A
      <3>1. PICK B : Serve(r, scfg[r], left[r], B)
        BY <2>5 DEF SendReturns, SendFails
      <3>2. dispatched' = dispatched /\ pc[r] = "sending" /\ left[r] \in SUBSET Reach(scfg[r], r)
        BY <2>5 DEF SendReturns, SendFails, IngestInv, SendingFit
      <3> HIDE DEF Keeps, Lawful
      <3>3. CASE Sends(r, scfg[r], left[r])
        BY <2>3, <3>2, <3>3
      <3>4. CASE ~Sends(r, scfg[r], left[r])
        BY <2>2, <3>1, <3>2, <3>4, ServeEffect
      <3> QED BY <3>3, <3>4
    <2>6. ASSUME NEW r \in Reqs, NEW a, Answered(r, a), UNCHANGED <<dispatched, sends>> PROVE A
      <3>1. Finishes(r, a)
        BY <2>6 DEF Finishes, sends
      <3> HIDE DEF Keeps, Lawful
      <3> QED BY <2>2, <2>6, <3>1
    <2> HIDE DEF A
    <2> QED BY <2>0, <2>1, <2>4, <2>5, <2>6, HandlerSteps
  <1>2. IngestInv /\ [Next]_vars => [A]_vars
    BY <1>1
  <1> QED BY <1>2, IngestInvariant, PTL DEF Spec, ActsOnLiveConfig

\* An event is refused, or reported as without a subscriber, only if no
\* destination its sender's routes allow has one (addressing.py:313-341), or, of
\* one that was written to a subscriber, if every such write has failed
\* (router.py:640-664).
THEOREM IngestReachesSubscribers == Spec => ReachesSubscriber
  <1> DEFINE Unserved(r) ==
               IF pc[r] = "sending"
                 THEN /\ \E t \in sent : t[1] = r
                      /\ \A t \in sent : t[1] = r =>
                           \/ t \in broken
                           \/ <<t[2], t[3]>> = writing[r] /\ granted'[t[3]] = {}
                 ELSE \A n \in DestinationNames(cfg) :
                        MayReach(cfg, Req[r], n) => Subscribers(cfg, n, granted) = {}
             A == \A r \in Reqs :
                    answer[r] = "none" /\ answer'[r] \in {"no_subscriber", "refused"} => Unserved(r)
  <1>1. IngestInv /\ [Next]_vars => A
    <2> SUFFICES ASSUME IngestInv, [Next]_vars, NEW r \in Reqs,
                        answer[r] = "none", answer'[r] \in {"no_subscriber", "refused"}
                 PROVE  Unserved(r)
      OBVIOUS
    <2>0. DOMAIN answer = Reqs /\ DOMAIN granted = Sessions /\ TypeOK
      BY DEF IngestInv, TypeOK
    <2>1. ASSUME NEW q \in Reqs, NEW a, Answered(q, a)
          PROVE  q = r /\ a \in {"no_subscriber", "refused"}
      BY <2>0, <2>1 DEF Answered
    <2>2. ASSUME NEW q \in Reqs, pc[q] \notin {"sending", "done"}, NEW held, Admit(q, held),
                 granted' = granted
          PROVE  Unserved(r)
      <3>1. ~Sends(q, cfg, Reach(cfg, q))
        BY DEF Sends
      <3>2. PICK a \in Answers \ {"none"} :
              /\ Finishes(q, a)
              /\ a \in {"no_subscriber", "refused"} =>
                   \A n \in Reach(cfg, q) : Subscribers(cfg, n, granted) = {}
        BY <2>2, <3>1, AdmitEffect
      <3>3. q = r /\ a \in {"no_subscriber", "refused"}
        BY <2>1, <3>2 DEF Finishes
      <3> QED BY <2>2, <3>2, <3>3 DEF Reach
    <2>3. ASSUME NEW q \in Reqs, NEW B, pc[q] = "sending", Serve(q, scfg[q], left[q], B)
          PROVE  q = r /\ \A t \in sent : t[1] = r => t \in B
      <3>1. ~Sends(q, scfg[q], left[q])
        BY DEF Sends
      <3>2. PICK a \in {"queued", "no_subscriber"} :
              Finishes(q, a) /\ (a = "no_subscriber" => \A t \in sent : t[1] = q => t \in B)
        BY <2>3, <3>1, ServeEffect
      <3>3. q = r /\ a \in {"no_subscriber", "refused"}
        BY <2>1, <3>2 DEF Finishes
      <3> QED BY <3>2, <3>3
    <2>4. ASSUME NEW q \in Reqs, SendReturns(q) \/ SendFails(q) PROVE Unserved(r)
      <3>0. /\ pc[q] = "sending" /\ writing[q] \in Names \X Sessions
            /\ <<q, writing[q][1], writing[q][2]>> \in sent
        BY <2>4 DEF SendReturns, SendFails, IngestInv, SendingFit
      <3>1. CASE SendReturns(q)
        <4>1. q = r /\ \A t \in sent : t[1] = r => t \in broken
          BY <2>3, <3>0, <3>1 DEF SendReturns
        <4> QED BY <3>0, <4>1
      <3>2. CASE SendFails(q)
        <4> DEFINE frame == <<q, writing[q][1], writing[q][2]>>
        <4>1. q = r /\ \A t \in sent : t[1] = r => t \in broken \cup {frame}
          BY <2>3, <3>0, <3>2 DEF SendFails
        <4>2. granted'[writing[q][2]] = {}
          BY <2>0, <3>0, <3>2 DEF SendFails
        <4>3. <<frame[2], frame[3]>> = writing[q] /\ granted'[frame[3]] = {} /\ frame[1] = q
          BY <3>0, <4>2
        <4> HIDE DEF frame
        <4> QED BY <3>0, <4>1, <4>3 DEF frame
      <3> QED BY <2>4, <3>1, <3>2
    <2> HIDE DEF Unserved
    <2> QED BY <2>0, <2>1, <2>2, <2>4, HandlerSteps
  <1>2. IngestInv /\ [Next]_vars => [A]_vars
    BY <1>1
  <1> QED BY <1>2, IngestInvariant, PTL DEF Spec, ReachesSubscriber

\* WI-008 (ingest.py:353-358): only a request that verifies against a secret of
\* the environment or of the cache takes a token of the source it names.
THEOREM IngestSparesSourceBuckets == Spec => SourceBucketClean
  <1> DEFINE A == \A s \in Sources : tokens'[s] < tokens[s] =>
                   \E r \in Reqs :
                     /\ Req[r].src = s
                     /\ pc[r] \notin {"sending", "done"} /\ pc'[r] \in {"sending", "done"}
                     /\ key'[r] \in keys[r] \cup {cache'[u] : u \in Uris}
                                           \cup {backend[u] : u \in EnvUris}
                     /\ key'[r] # None
  <1>0. WindowInv => WindowFits
    BY DEF WindowInv
  <1>3. IngestInv /\ [Next]_vars => SendsOK'
    BY SendingStep DEF IngestInv
  <1>1. IngestInv /\ WindowFits' /\ [Next]_vars => A
    <2> SUFFICES ASSUME IngestInv, WindowFits', [Next]_vars,
                        NEW s \in Sources, tokens'[s] < tokens[s]
                 PROVE  \E r \in Reqs :
                          /\ Req[r].src = s /\ pc[r] \notin {"sending", "done"} /\ pc'[r] \in {"sending", "done"}
                          /\ key'[r] \in keys[r] \cup Known
                          /\ key'[r] # None
      BY DEF Known
    <2>1. None \notin Versions
      BY IngestConstants DEF Versions
    <2>2. ASSUME NEW r \in Reqs, Begin(r) \/ FetchReturns(r)
          PROVE  /\ Req[r].src = s /\ pc[r] \notin {"sending", "done"} /\ pc'[r] \in {"sending", "done"}
                 /\ key'[r] \in keys[r] \cup Known
                 /\ key'[r] # None
      BY <1>3, <2>1, <2>2, BeginEffect, FetchReturnsEffect DEF IngestInv
    <2>3. tokens[s] \in 0..Burst /\ Burst \in Nat
      BY IngestConstants DEF IngestInv, TypeOK
    <2>4. ~Refill
      BY <2>3 DEF Refill
    <2>5. tokens' # tokens
      BY <2>3
    <2>6. PICK r \in Reqs : Begin(r) \/ FetchReturns(r)
      BY <2>4, <2>5 DEF Next, vars, FetchReads, Expire, Rotate, RefreshReads, RefreshReturns,
                        Reload, Hello, Bye, SendReturns, SendFails
    <2> QED BY <2>2, <2>6
  <1>2. IngestInv /\ WindowFits' /\ [Next]_vars => [A]_vars
    BY <1>1
  <1> QED BY <1>0, <1>2, IngestInvariant, WindowInvariant, PTL DEF Spec, SourceBucketClean

-----------------------------------------------------------------------------
(* migration of the old vocabulary *)

\* addressing.py:142-156, 357-359: migrations "may not mint" authority.  A file
\* in the old vocabulary, in which no source is called "*" (that name makes its
\* route one for every sender), gives each sender the destination of its own
\* name and no other, and out of band what it had.
THEOREM MigrationPreservesAuthority ==
    ASSUME NEW L, AnySender \notin L.sources, None \notin L.sources
    PROVE  MigrationMintsNothing(L)
  <1> DEFINE c == DeriveFromLegacy(L)
             route(n) == [sender |-> n, principal |-> L.principalOf[n], dests |-> {n}]
  <1>1. /\ c.sources = L.sources /\ c.targets = L.targets
        /\ DOMAIN c.dests = L.sources
        /\ c.routes = {route(n) : n \in L.sources}
    BY DEF DeriveFromLegacy
  <1>2. ASSUME NEW n \in L.sources PROVE Expand(c, route(n)) = {n}
    BY <1>1 DEF Expand, DestinationNames
  <1>3. ASSUME NEW s \in L.sources
        PROVE  {r \in c.routes : Applies(r, s)} = {route(s)}
    BY <1>1, <1>3 DEF Applies
  <1> HIDE DEF c, route
  <1>4. ASSUME NEW s \in L.sources PROVE RoutedDestinations(c, s) = {s}
    BY <1>2, <1>3, <1>4 DEF RoutedDestinations
  <1>5. ASSUME NEW s \in L.sources PROVE OutOfBandPrincipals(c, s) = L.targets[s]
    BY <1>1, <1>5 DEF OutOfBandPrincipals
  <1>6. ASSUME NEW s \in L.sources, NEW n \in L.sources \ {s}
        PROVE  ~Resolve(c, s, n, None).ok
    <2>1. {m \in RoutedDestinations(c, s) : n \in {None, m}} = {}
      BY <1>4, <1>6
    <2> QED BY <2>1 DEF Resolve, Refused
  <1> QED BY <1>4, <1>5, <1>6 DEF MigrationMintsNothing, c
=============================================================================

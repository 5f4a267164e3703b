-------------------------- MODULE IdleNotify_proofs --------------------------
(***************************************************************************)
(* Proofs about notify-on-idle, for any number of sessions, turns,         *)
(* connections, edits and restarts.                                        *)
(***************************************************************************)
EXTENDS IdleNotify, FiniteSetTheorems, SequenceTheorems, TLAPS

\* An ack counts only on the connection it was read from, and says what the
\* daemon granted there.
GuardTrue ==
    /\ link # "down" => conn > 0
    /\ ackConfirmed => link = "up" /\ accepted = granted

\* An event belongs to the connection of its check.  While that one is still the
\* last, the daemon has not granted the source on it.
RunFits(r) ==
    /\ r.on <= conn
    /\ r.ev # "none" => r.on > 0
    /\ r.on > 0 /\ r.on = conn => ~granted /\ link \in {"up", "down"}

RunsFit == \A s \in Sessions : \A i \in DOMAIN idle[s] : RunFits(idle[s][i])

\* Each run of handleSessionIdle, and a mark of a session that runs no turn, stands
\* for a turn that is over or a message outside a turn, its own.
Earned(s) ==
    /\ busy[s] => turns[s] < MaxTurns
    /\ Len(idle[s]) <= turns[s] + notes[s]
    /\ Contains(active, s) /\ ~busy[s] => Len(idle[s]) < turns[s] + notes[s]

TurnsEarned == \A s \in Sessions : Earned(s)

\* A session in the set has one run that posts; another has none.
PostFits(s) ==
    /\ s \in inFlight <=> \E i \in DOMAIN idle[s] : idle[s][i].at = "posting"
    /\ \A i, j \in DOMAIN idle[s] :
         idle[s][i].at = "posting" /\ idle[s][j].at = "posting" => i = j

PostsFit == \A s \in Sessions : PostFits(s)

IndInv == TypeOK /\ GuardTrue /\ RunsFit /\ TurnsEarned /\ PostsFit /\ LoopNeedsCrossed

-----------------------------------------------------------------------------
(* marks *)

\* Deleting a mark keeps the others, in order.
LEMMA WithoutKeeps ==
    ASSUME NEW S, NEW q \in Seq(S), NEW s \in S, IsInjective(q)
    PROVE  /\ Without(q, s) \in Seq(S) /\ Len(Without(q, s)) <= Len(q)
           /\ IsInjective(Without(q, s))
           /\ \A e : Contains(Without(q, s), e) => Contains(q, e) /\ e # s
  <1>1. CASE ~Contains(q, s)
    BY <1>1 DEF Without
  <1>2. CASE Contains(q, s)
    <2> DEFINE k == CHOOSE i \in DOMAIN q : q[i] = s
               w == RemoveAt(q, k)
    <2>1. k \in 1..Len(q) /\ q[k] = s
      BY <1>2 DEF Contains
    <2> HIDE DEF k
    <2>2. /\ w \in Seq(S) /\ Len(w) = Len(q) - 1
          /\ \A j \in 1..(Len(q) - 1) : w[j] = IF j < k THEN q[j] ELSE q[j + 1]
      <3> DEFINE a == SubSeq(q, 1, k - 1)
                 b == SubSeq(q, k + 1, Len(q))
      <3>1. /\ a \in Seq(S) /\ Len(a) = k - 1
            /\ \A j \in 1..(k - 1) : a[j] = q[j]
        BY <2>1, SubSeqProperties
      <3>2. /\ b \in Seq(S) /\ Len(b) = Len(q) - k
            /\ \A j \in 1..(Len(q) - k) : b[j] = q[j + k]
        BY <2>1, SubSeqProperties
      <3>3. w = a \o b
        BY DEF RemoveAt
      <3> HIDE DEF a, b, w
      <3>4. /\ w \in Seq(S) /\ Len(w) = Len(a) + Len(b)
            /\ \A j \in 1..(Len(a) + Len(b)) :
                 w[j] = IF j <= Len(a) THEN a[j] ELSE b[j - Len(a)]
        BY <3>1, <3>2, <3>3, ConcatProperties
      <3>5. /\ Len(a) + Len(b) = Len(q) - 1 /\ Len(a) = k - 1
            /\ Len(q) \in Nat
        BY <2>1, <3>1, <3>2
      <3> QED
        <4> SUFFICES ASSUME NEW j \in 1..(Len(q) - 1)
                     PROVE  w[j] = IF j < k THEN q[j] ELSE q[j + 1]
          BY <3>4, <3>5
        <4>1. CASE j < k
          BY <2>1, <3>1, <3>4, <3>5, <4>1
        <4>2. CASE ~(j < k)
          <5>1. j - (k - 1) \in 1..(Len(q) - k) /\ (j - (k - 1)) + k = j + 1
            BY <2>1, <3>5, <4>2
          <5>2. w[j] = b[j - (k - 1)]
            BY <2>1, <3>4, <3>5, <4>2
          <5> QED BY <3>2, <4>2, <5>1, <5>2
        <4> QED BY <4>1, <4>2
    <2>3. Without(q, s) = w
      BY <1>2 DEF Without, k
    <2> HIDE DEF w
    <2>4. IsInjective(w)
      <3> SUFFICES ASSUME NEW x \in 1..(Len(q) - 1), NEW y \in 1..(Len(q) - 1), w[x] = w[y]
                   PROVE  x = y
        BY <2>2 DEF IsInjective
      <3> DEFINE f(j) == IF j < k THEN j ELSE j + 1
      <3>1. /\ f(x) \in DOMAIN q /\ w[x] = q[f(x)]
            /\ f(y) \in DOMAIN q /\ w[y] = q[f(y)]
        BY <2>1, <2>2
      <3>2. f(x) = f(y)
        BY <3>1 DEF IsInjective
      <3> QED BY <2>1, <3>2
    <2>5. ASSUME NEW e, Contains(w, e) PROVE Contains(q, e) /\ e # s
      <3>1. PICK j \in 1..(Len(q) - 1) : w[j] = e
        BY <2>2, <2>5 DEF Contains
      <3>2. \/ j < k /\ j \in 1..Len(q) /\ q[j] = e
            \/ ~(j < k) /\ j + 1 \in 1..Len(q) /\ q[j + 1] = e /\ j + 1 # k
        BY <2>1, <2>2, <3>1
      <3> QED BY <2>1, <3>2 DEF Contains, IsInjective
    <2> QED BY <2>2, <2>3, <2>4, <2>5
  <1> QED BY <1>1, <1>2

\* noteSessionActivity stays under the cap, and marks one session.
LEMMA MarksOne ==
    ASSUME TypeOK, NEW s \in Sessions
    PROVE  /\ Marks(s) \in Seq(Sessions) /\ Len(Marks(s)) <= MaxActive
           /\ IsInjective(Marks(s))
           /\ \A e : Contains(Marks(s), e) => Contains(active, e) \/ e = s
  <1> DEFINE w == Without(active, s)
             q == Append(w, s)
  <1>1. /\ w \in Seq(Sessions) /\ Len(w) <= MaxActive /\ IsInjective(w)
        /\ \A e : Contains(w, e) => Contains(active, e) /\ e # s
    BY WithoutKeeps, IdleNotifyConstants DEF TypeOK
  <1> HIDE DEF w
  <1>2. /\ q \in Seq(Sessions) /\ Len(q) = Len(w) + 1
        /\ \A j \in 1..Len(q) : q[j] = IF j = Len(q) THEN s ELSE w[j]
    BY <1>1
  <1> HIDE DEF q
  <1>3. IsInjective(q)
    <2> SUFFICES ASSUME NEW x \in 1..Len(q), NEW y \in 1..Len(q), q[x] = q[y]
                 PROVE  x = y
      BY <1>2 DEF IsInjective
    <2>1. \A j \in 1..Len(w) : w[j] # s
      BY <1>1 DEF Contains
    <2>2. /\ x # Len(q) => x \in DOMAIN w
          /\ y # Len(q) => y \in DOMAIN w
      BY <1>1, <1>2
    <2> QED BY <1>1, <1>2, <2>1, <2>2 DEF IsInjective
  <1>4. \A e : Contains(q, e) => Contains(active, e) \/ e = s
    <2> SUFFICES ASSUME NEW e, Contains(q, e), e # s PROVE Contains(active, e)
      OBVIOUS
    <2>1. PICK j \in 1..Len(q) : q[j] = e
      BY DEF Contains
    <2>2. j \in 1..Len(w) /\ w[j] = e
      BY <1>1, <1>2, <2>1
    <2>3. Contains(w, e)
      BY <2>2 DEF Contains
    <2> QED BY <1>1, <2>3
  <1>5. CASE Len(q) > MaxActive
    <2> DEFINE t == Tail(q)
    <2>1. /\ t \in Seq(Sessions) /\ Len(t) = Len(q) - 1
          /\ \A j \in 1..Len(t) : t[j] = q[j + 1]
      BY <1>2, <1>5, IdleNotifyConstants
    <2>2. Marks(s) = t
      BY <1>5 DEF Marks, EvictOldest, q, w
    <2> HIDE DEF t
    <2>3. IsInjective(t)
      <3> SUFFICES ASSUME NEW x \in 1..Len(t), NEW y \in 1..Len(t), t[x] = t[y]
                   PROVE  x = y
        BY <2>1 DEF IsInjective
      <3>1. x + 1 \in DOMAIN q /\ y + 1 \in DOMAIN q /\ q[x + 1] = q[y + 1]
        BY <1>2, <2>1
      <3> QED BY <1>3, <3>1 DEF IsInjective
    <2>4. ASSUME NEW e, Contains(t, e) PROVE Contains(q, e)
      <3>1. PICK j \in 1..Len(t) : t[j] = e
        BY <2>4 DEF Contains
      <3>2. j + 1 \in 1..Len(q) /\ q[j + 1] = e
        BY <1>2, <2>1, <3>1
      <3> QED BY <3>2 DEF Contains
    <2>5. Len(t) <= MaxActive
      BY <1>1, <1>2, <2>1, IdleNotifyConstants
    <2> QED BY <1>4, <2>1, <2>2, <2>3, <2>4, <2>5
  <1>6. CASE ~(Len(q) > MaxActive)
    <2>1. Marks(s) = q
      BY <1>6 DEF Marks, EvictOldest, q, w
    <2>2. Len(q) <= MaxActive
      BY <1>1, <1>2, <1>6, IdleNotifyConstants
    <2> QED BY <1>2, <1>3, <1>4, <2>1, <2>2
  <1> QED BY <1>5, <1>6
-----------------------------------------------------------------------------
(* runs *)

\* The steps of a run of handleSessionIdle.
RunStep == \E s \in Sessions : \E i \in DOMAIN idle[s] :
              Arrives(s, i) \/ Checks(s, i) \/ PostEnds(s, i) \/ Vanishes(s, i)

\* A step of one run leaves every other run as it was.
LEMMA OneRun ==
    ASSUME TypeOK, NEW s \in Sessions, NEW i \in DOMAIN idle[s], NEW r \in Run,
           idle' = [idle EXCEPT ![s][i] = r]
    PROVE  /\ idle' \in [Sessions -> Seq(Run)]
           /\ \A t \in Sessions : Len(idle'[t]) = Len(idle[t])
           /\ \A t \in Sessions : \A j \in DOMAIN idle[t] :
                idle'[t][j] = IF t = s /\ j = i THEN r ELSE idle[t][j]
  <1>1. idle[s] \in Seq(Run)
    BY DEF TypeOK
  <1>2. [idle[s] EXCEPT ![i] = r] \in Seq(Run)
    BY <1>1, ExceptSeq
  <1>3. Len([idle[s] EXCEPT ![i] = r]) = Len(idle[s])
    BY <1>1, ExceptSeq
  <1>4. idle' = [idle EXCEPT ![s] = [idle[s] EXCEPT ![i] = r]]
    OBVIOUS
  <1> QED BY <1>1, <1>2, <1>3, <1>4 DEF TypeOK

\* A restart and a hello leave every session as many runs as it had.
LEMMA AllRuns ==
    ASSUME TypeOK, NEW f, \A s \in Sessions : \A i \in DOMAIN idle[s] : f[s][i] \in Run,
           f = [s \in Sessions |-> [i \in DOMAIN idle[s] |-> f[s][i]]]
    PROVE  /\ f \in [Sessions -> Seq(Run)]
           /\ \A s \in Sessions : Len(f[s]) = Len(idle[s])
  <1> SUFFICES ASSUME NEW s \in Sessions
               PROVE  f[s] \in Seq(Run) /\ Len(f[s]) = Len(idle[s])
    OBVIOUS
  <1>1. idle[s] \in Seq(Run)
    BY DEF TypeOK
  <1>2. f[s] = [i \in 1..Len(idle[s]) |-> f[s][i]]
    BY <1>1
  <1> DEFINE g == f[s]
  <1>3. g \in [1..Len(idle[s]) -> Run]
    BY <1>1, <1>2
  <1>4. Len(idle[s]) \in Nat
    BY <1>1
  <1> HIDE DEF g
  <1>5. g \in Seq(Run)
    BY <1>3, <1>4, SeqDef
  <1>6. Len(g) = Len(idle[s])
    BY <1>3, <1>4, <1>5
  <1> QED BY <1>5, <1>6 DEF g
\* As long as no run is added and no mark, every turn still has its run.
LEMMA SameTurns ==
    ASSUME TurnsEarned, UNCHANGED <<busy, turns, notes>>,
           \A t \in Sessions : Len(idle'[t]) = Len(idle[t]),
           \A e : Contains(active', e) => Contains(active, e)
    PROVE  TurnsEarned'
  BY DEF TurnsEarned, Earned

\* As long as no run begins or ends to post, the set is right.
LEMMA SamePosts ==
    ASSUME TypeOK, PostsFit, UNCHANGED inFlight,
           \A t \in Sessions : DOMAIN idle'[t] = DOMAIN idle[t],
           \A t \in Sessions : \A j \in DOMAIN idle[t] : idle'[t][j].at = idle[t][j].at
    PROVE  PostsFit'
  BY DEF PostsFit, PostFits

\* The domain of a session's runs follows from their number.
LEMMA SameDomain ==
    ASSUME TypeOK, idle' \in [Sessions -> Seq(Run)], NEW t \in Sessions,
           Len(idle'[t]) = Len(idle[t])
    PROVE  DOMAIN idle'[t] = DOMAIN idle[t]
  <1>1. idle[t] \in Seq(Run) /\ idle'[t] \in Seq(Run)
    BY DEF TypeOK
  <1> QED BY <1>1

\* A run that goes on over the same connection keeps what relates it to the
\* others; where its event is, and whether it posts, is for the caller.
LEMMA GoesOn ==
    ASSUME IndInv, NEW s \in Sessions, NEW i \in DOMAIN idle[s], NEW r \in Run,
           idle' = [idle EXCEPT ![s][i] = r], UNCHANGED <<client, active, busy, turns, notes>>,
           RunFits(r)
    PROVE  /\ idle' \in [Sessions -> Seq(Run)] /\ RunsFit' /\ TurnsEarned'
           /\ \A t \in Sessions : DOMAIN idle'[t] = DOMAIN idle[t]
           /\ \A t \in Sessions : \A j \in DOMAIN idle[t] :
                idle'[t][j] = IF t = s /\ j = i THEN r ELSE idle[t][j]
  <1>1. TypeOK /\ RunsFit /\ TurnsEarned
    BY DEF IndInv
  <1>2. /\ idle' \in [Sessions -> Seq(Run)]
        /\ \A t \in Sessions : Len(idle'[t]) = Len(idle[t])
        /\ \A t \in Sessions : \A j \in DOMAIN idle[t] :
             idle'[t][j] = IF t = s /\ j = i THEN r ELSE idle[t][j]
    BY <1>1, OneRun
  <1>3. \A t \in Sessions : DOMAIN idle'[t] = DOMAIN idle[t]
    BY <1>1, <1>2, SameDomain
  <1>4. RunsFit'
    <2> SUFFICES ASSUME NEW t \in Sessions, NEW j \in DOMAIN idle[t]
                 PROVE  RunFits(idle[t][j])'
      BY <1>3 DEF RunsFit
    <2>1. idle'[t][j] = r \/ idle'[t][j] = idle[t][j]
      BY <1>2
    <2>2. RunFits(idle[t][j])
      BY <1>1 DEF RunsFit
    <2> QED BY <2>1, <2>2 DEF RunFits, client
  <1>5. TurnsEarned'
    BY <1>1, <1>2, SameTurns
  <1> QED BY <1>2, <1>3, <1>4, <1>5

\* A run that is there has its type.
LEMMA RunTyped ==
    ASSUME TypeOK, NEW s \in Sessions, NEW i \in DOMAIN idle[s]
    PROVE  idle[s][i] \in Run
  <1>1. idle[s] \in Seq(Run)
    BY DEF TypeOK
  <1> QED BY <1>1

\* The ingest has the event.
LEMMA ArrivesKeeps ==
    ASSUME IndInv, NEW s \in Sessions, NEW i \in DOMAIN idle[s], Arrives(s, i)
    PROVE  IndInv'
  <1> DEFINE r == Moved(idle[s][i], IF (Grants(applied) \/ applied = "crossed") /\ ~ComesBack
                                       THEN "queued" ELSE "gone")
             x == idle[s][i]
  <1>1. TypeOK /\ GuardTrue /\ RunsFit /\ PostsFit /\ LoopNeedsCrossed
    BY DEF IndInv
  <1>2. UNCHANGED <<daemon, client, guard, active, busy, turns, notes, inFlight, restarts>>
    BY DEF Arrives
  <1>3. /\ r \in Run /\ r.on = x.on /\ r.at = x.at
        /\ x.on \in 0..MaxConns /\ x.on > 0 /\ RunFits(x) /\ RunFits(r)
    <2>1. x.ev = "way" /\ RunFits(x) /\ x \in Run
      BY <1>1, RunTyped DEF Arrives, RunsFit
    <2> QED BY <2>1 DEF Run, Moved, RunFits
  <1>4. idle' = [idle EXCEPT ![s][i] = r]
    BY DEF Arrives
  <1>5. looped' = IF ComesBack THEN looped \cup {<<x.on, conn, applied>>} ELSE looped
    BY DEF Arrives
  <1> HIDE DEF r
  <1>6. /\ idle' \in [Sessions -> Seq(Run)] /\ RunsFit' /\ TurnsEarned'
        /\ \A t \in Sessions : DOMAIN idle'[t] = DOMAIN idle[t]
        /\ \A t \in Sessions : \A j \in DOMAIN idle[t] :
             idle'[t][j] = IF t = s /\ j = i THEN r ELSE idle[t][j]
    BY <1>2, <1>3, <1>4, GoesOn
  <1>7. TypeOK'
    <2>1. x.on \in 1..MaxConns /\ conn \in 1..MaxConns
      BY <1>1, <1>3, IdleNotifyConstants DEF TypeOK, RunFits
    <2>2. looped' \subseteq (1..MaxConns) \X (1..MaxConns) \X Docs
      BY <1>1, <1>5, <2>1 DEF TypeOK
    <2> QED BY <1>1, <1>2, <1>6, <2>2 DEF TypeOK, daemon, client, guard
  <1>8. GuardTrue'
    BY <1>1, <1>2 DEF GuardTrue, client, guard
  <1>9. PostsFit'
    <2>1. \A t \in Sessions : \A j \in DOMAIN idle[t] : idle'[t][j].at = idle[t][j].at
      BY <1>3, <1>6 DEF x
    <2> QED BY <1>1, <1>2, <1>6, <2>1, SamePosts
  <1>10. LoopNeedsCrossed'
    <2> SUFFICES ASSUME applied # "crossed", ComesBack PROVE x.on < conn
      BY <1>1, <1>5 DEF LoopNeedsCrossed
    <2>1. granted
      BY DEF ComesBack
    <2> QED BY <1>1, <1>3, <2>1, IdleNotifyConstants DEF RunFits, TypeOK
  <1> QED BY <1>6, <1>7, <1>8, <1>9, <1>10 DEF IndInv

\* postIdleEvent is over, and the session leaves the set with it.
LEMMA PostEndsKeeps ==
    ASSUME IndInv, NEW s \in Sessions, NEW i \in DOMAIN idle[s], PostEnds(s, i)
    PROVE  IndInv'
  <1> DEFINE r == Ended(idle[s][i])
             x == idle[s][i]
  <1>1. TypeOK /\ GuardTrue /\ RunsFit /\ PostsFit /\ LoopNeedsCrossed
    BY DEF IndInv
  <1>2. UNCHANGED <<daemon, client, guard, active, busy, turns, notes, looped, restarts>>
    BY DEF PostEnds
  <1>3. r \in Run /\ r.at = "done" /\ x.at = "posting" /\ RunFits(r)
    <2>1. RunFits(x) /\ x \in Run
      BY <1>1, RunTyped DEF RunsFit
    <2> QED BY <2>1 DEF Run, Ended, RunFits, PostEnds
  <1>4. idle' = [idle EXCEPT ![s][i] = r] /\ inFlight' = inFlight \ {s}
    BY DEF PostEnds, Released
  <1> HIDE DEF r
  <1>5. /\ idle' \in [Sessions -> Seq(Run)] /\ RunsFit' /\ TurnsEarned'
        /\ \A t \in Sessions : DOMAIN idle'[t] = DOMAIN idle[t]
        /\ \A t \in Sessions : \A j \in DOMAIN idle[t] :
             idle'[t][j] = IF t = s /\ j = i THEN r ELSE idle[t][j]
    BY <1>2, <1>3, <1>4, GoesOn
  <1>6. TypeOK'
    BY <1>1, <1>2, <1>4, <1>5 DEF TypeOK, daemon, client, guard
  <1>7. GuardTrue'
    BY <1>1, <1>2 DEF GuardTrue, client, guard
  <1>8. PostsFit'
    <2> SUFFICES ASSUME NEW t \in Sessions PROVE PostFits(t)'
      BY DEF PostsFit
    <2>1. PostFits(t)
      BY <1>1 DEF PostsFit
    <2>2. CASE t = s
      <3>1. \A j \in DOMAIN idle[s] : idle'[s][j].at # "posting"
        BY <1>3, <1>5, <2>1, <2>2 DEF PostFits
      <3> QED BY <1>4, <1>5, <2>2, <3>1 DEF PostFits
    <2>3. CASE t # s
      <3>1. \A j \in DOMAIN idle[t] : idle'[t][j] = idle[t][j]
        BY <1>5, <2>3
      <3> QED BY <1>4, <1>5, <2>1, <2>3, <3>1 DEF PostFits
    <2> QED BY <2>2, <2>3
  <1>9. LoopNeedsCrossed'
    BY <1>1, <1>2 DEF LoopNeedsCrossed
  <1> QED BY <1>5, <1>6, <1>7, <1>8, <1>9 DEF IndInv

\* The request never arrives.
LEMMA VanishesKeeps ==
    ASSUME IndInv, NEW s \in Sessions, NEW i \in DOMAIN idle[s], Vanishes(s, i)
    PROVE  IndInv'
  <1> DEFINE r == Moved(idle[s][i], "gone")
             x == idle[s][i]
  <1>1. TypeOK /\ GuardTrue /\ RunsFit /\ PostsFit /\ LoopNeedsCrossed
    BY DEF IndInv
  <1>2. UNCHANGED <<daemon, client, guard, active, busy, turns, notes, inFlight, looped, restarts>>
    BY DEF Vanishes
  <1>3. r \in Run /\ r.at = x.at /\ RunFits(r)
    <2>1. x.ev = "way" /\ RunFits(x) /\ x \in Run
      BY <1>1, RunTyped DEF RunsFit, Vanishes
    <2> QED BY <2>1 DEF Run, Moved, RunFits
  <1>4. idle' = [idle EXCEPT ![s][i] = r]
    BY DEF Vanishes
  <1> HIDE DEF r
  <1>5. /\ idle' \in [Sessions -> Seq(Run)] /\ RunsFit' /\ TurnsEarned'
        /\ \A t \in Sessions : DOMAIN idle'[t] = DOMAIN idle[t]
        /\ \A t \in Sessions : \A j \in DOMAIN idle[t] :
             idle'[t][j] = IF t = s /\ j = i THEN r ELSE idle[t][j]
    BY <1>2, <1>3, <1>4, GoesOn
  <1>6. TypeOK'
    BY <1>1, <1>2, <1>5 DEF TypeOK, daemon, client, guard
  <1>7. GuardTrue'
    BY <1>1, <1>2 DEF GuardTrue, client, guard
  <1>8. PostsFit'
    <2>1. \A t \in Sessions : \A j \in DOMAIN idle[t] : idle'[t][j].at = idle[t][j].at
      BY <1>3, <1>5 DEF x
    <2> QED BY <1>1, <1>2, <1>5, <2>1, SamePosts
  <1>9. LoopNeedsCrossed'
    BY <1>1, <1>2 DEF LoopNeedsCrossed
  <1> QED BY <1>5, <1>6, <1>7, <1>8, <1>9 DEF IndInv
\* The session is looked up, and the guards refuse the event or let it go.
LEMMA ChecksKeeps ==
    ASSUME IndInv, NEW s \in Sessions, NEW i \in DOMAIN idle[s], Checks(s, i)
    PROVE  IndInv'
  <1> DEFINE x == idle[s][i]
  <1>1. TypeOK /\ GuardTrue /\ RunsFit /\ PostsFit /\ LoopNeedsCrossed
    BY DEF IndInv
  <1>2. UNCHANGED <<daemon, client, ackConfirmed, accepted, active, busy, turns, notes, looped, restarts>>
    BY DEF Checks
  <1>3. x.at = "getting" /\ x \in Run /\ RunFits(x)
    BY <1>1, RunTyped DEF Checks, RunsFit
  <1>4. GuardTrue'
    BY <1>1, <1>2 DEF GuardTrue, client
  <1>5. LoopNeedsCrossed'
    BY <1>1, <1>2 DEF LoopNeedsCrossed
  <1>6. latched' \in BOOLEAN
    BY <1>1 DEF Checks, TypeOK
  <1>7. CASE idle' = [idle EXCEPT ![s][i] = Ended(@)] /\ UNCHANGED inFlight
    <2> DEFINE r == Ended(idle[s][i])
    <2>1. r \in Run /\ r.at = "done" /\ RunFits(r)
      BY <1>3 DEF Run, Ended, RunFits
    <2>2. idle' = [idle EXCEPT ![s][i] = r]
      BY <1>7
    <2> HIDE DEF r
    <2>3. /\ idle' \in [Sessions -> Seq(Run)] /\ RunsFit' /\ TurnsEarned'
          /\ \A t \in Sessions : DOMAIN idle'[t] = DOMAIN idle[t]
          /\ \A t \in Sessions : \A j \in DOMAIN idle[t] :
               idle'[t][j] = IF t = s /\ j = i THEN r ELSE idle[t][j]
      BY <1>2, <2>1, <2>2, GoesOn
    <2>4. TypeOK'
      BY <1>1, <1>2, <1>6, <1>7, <2>3 DEF TypeOK, daemon, client
    <2>5. PostsFit'
      <3>1. \A t \in Sessions : \A j \in DOMAIN idle[t] :
              idle'[t][j].at = "posting" <=> idle[t][j].at = "posting"
        BY <1>3, <2>1, <2>3
      <3> QED BY <1>1, <1>7, <2>3, <3>1 DEF PostsFit, PostFits
    <2> QED BY <1>4, <1>5, <2>3, <2>4, <2>5 DEF IndInv
  <1>8. CASE /\ ~RefusesByAck /\ s \notin inFlight /\ inFlight' = inFlight \cup {s}
             /\ idle' = [idle EXCEPT ![s][i] = [at |-> "posting", on |-> conn, ev |-> "way"]]
    <2> DEFINE r == [at |-> "posting", on |-> conn, ev |-> "way"]
    <2>1. ~granted /\ link = "up" /\ conn \in 1..MaxConns
      BY <1>1, <1>8, IdleNotifyConstants DEF RefusesByAck, GuardTrue, TypeOK
    <2>2. r \in Run /\ r.at = "posting" /\ RunFits(r)
      BY <2>1 DEF Run, RunFits
    <2>3. idle' = [idle EXCEPT ![s][i] = r]
      BY <1>8
    <2> HIDE DEF r
    <2>4. /\ idle' \in [Sessions -> Seq(Run)] /\ RunsFit' /\ TurnsEarned'
          /\ \A t \in Sessions : DOMAIN idle'[t] = DOMAIN idle[t]
          /\ \A t \in Sessions : \A j \in DOMAIN idle[t] :
               idle'[t][j] = IF t = s /\ j = i THEN r ELSE idle[t][j]
      BY <1>2, <2>2, <2>3, GoesOn
    <2>5. TypeOK'
      BY <1>1, <1>2, <1>6, <1>8, <2>4 DEF TypeOK, daemon, client
    <2>6. PostsFit'
      <3> SUFFICES ASSUME NEW t \in Sessions PROVE PostFits(t)'
        BY DEF PostsFit
      <3>1. PostFits(t)
        BY <1>1 DEF PostsFit
      <3>2. CASE t = s
        <4>1. \A j \in DOMAIN idle[s] : idle'[s][j].at = "posting" <=> j = i
          BY <1>8, <2>2, <2>4, <3>1, <3>2 DEF PostFits
        <4> QED BY <1>8, <2>4, <3>2, <4>1 DEF PostFits
      <3>3. CASE t # s
        <4>1. \A j \in DOMAIN idle[t] : idle'[t][j] = idle[t][j]
          BY <2>4, <3>3
        <4> QED BY <1>8, <2>4, <3>1, <3>3, <4>1 DEF PostFits
      <3> QED BY <3>2, <3>3
    <2> QED BY <1>4, <1>5, <2>4, <2>5, <2>6 DEF IndInv
  <1> QED BY <1>7, <1>8 DEF Checks

-----------------------------------------------------------------------------
(* opencode's events *)

\* The runs are untouched: what relates them to the rest stands.
LEMMA RunsStand ==
    ASSUME IndInv, UNCHANGED <<idle, inFlight, conn, granted, link>>
    PROVE  RunsFit' /\ PostsFit'
  BY DEF IndInv, RunsFit, RunFits, PostsFit, PostFits

\* A session works: its mark is renewed.
LEMMA WorksKeeps ==
    ASSUME IndInv, NEW s \in Sessions, Works(s)
    PROVE  IndInv'
  <1>1. TypeOK /\ GuardTrue /\ TurnsEarned /\ LoopNeedsCrossed
    BY DEF IndInv
  <1>2. /\ Marks(s) \in Seq(Sessions) /\ Len(Marks(s)) <= MaxActive
        /\ IsInjective(Marks(s))
        /\ \A e : Contains(Marks(s), e) => Contains(active, e) \/ e = s
    BY <1>1, MarksOne
  <1>3. active' = Marks(s) /\ busy' = [busy EXCEPT ![s] = TRUE]
        /\ UNCHANGED <<daemon, client, guard, turns, notes, idle, inFlight, looped, restarts>>
        /\ (busy[s] \/ turns[s] < MaxTurns)
    BY DEF Works
  <1>4. busy' \in [Sessions -> BOOLEAN] /\ busy'[s]
        /\ \A t \in Sessions : t # s => busy'[t] = busy[t]
    BY <1>1, <1>3 DEF TypeOK
  <1>5. TypeOK'
    BY <1>1, <1>2, <1>3, <1>4 DEF TypeOK, daemon, client, guard
  <1>6. GuardTrue'
    BY <1>1, <1>3 DEF GuardTrue, client, guard
  <1>7. RunsFit' /\ PostsFit'
    BY <1>3, RunsStand DEF client
  <1>8. TurnsEarned'
    <2> SUFFICES ASSUME NEW t \in Sessions PROVE Earned(t)'
      BY DEF TurnsEarned
    <2>1. Earned(t)
      BY <1>1 DEF TurnsEarned
    <2>2. CASE t = s
      BY <1>3, <1>4, <2>1, <2>2 DEF Earned
    <2>3. CASE t # s
      BY <1>2, <1>3, <1>4, <2>1, <2>3 DEF Earned
    <2> QED BY <2>2, <2>3
  <1>9. LoopNeedsCrossed'
    BY <1>1, <1>3 DEF LoopNeedsCrossed
  <1> QED BY <1>5, <1>6, <1>7, <1>8, <1>9 DEF IndInv
\* A message outside a turn: the mark it leaves is paid for.
LEMMA NotedKeeps ==
    ASSUME IndInv, NEW s \in Sessions, Noted(s)
    PROVE  IndInv'
  <1>1. TypeOK /\ GuardTrue /\ TurnsEarned /\ LoopNeedsCrossed
    BY DEF IndInv
  <1>2. /\ Marks(s) \in Seq(Sessions) /\ Len(Marks(s)) <= MaxActive
        /\ IsInjective(Marks(s))
        /\ \A e : Contains(Marks(s), e) => Contains(active, e) \/ e = s
    BY <1>1, MarksOne
  <1>3. active' = Marks(s) /\ notes' = [notes EXCEPT ![s] = notes[s] + 1]
        /\ UNCHANGED <<daemon, client, guard, busy, turns, idle, inFlight, looped, restarts>>
        /\ ~busy[s] /\ notes[s] < MaxNotes
    BY DEF Noted
  <1>4. /\ notes[s] \in Nat /\ turns[s] \in Nat /\ Len(idle[s]) \in Nat
        /\ notes[s] + 1 \in 0..MaxNotes
    BY <1>1, <1>3, IdleNotifyConstants DEF TypeOK
  <1>5. /\ notes' \in [Sessions -> 0..MaxNotes] /\ notes'[s] = notes[s] + 1
        /\ \A t \in Sessions : t # s => notes'[t] = notes[t]
    BY <1>1, <1>3, <1>4 DEF TypeOK
  <1>6. TypeOK'
    BY <1>1, <1>2, <1>3, <1>5 DEF TypeOK, daemon, client, guard
  <1>7. GuardTrue' /\ LoopNeedsCrossed'
    BY <1>1, <1>3 DEF GuardTrue, LoopNeedsCrossed, client, guard
  <1>8. RunsFit' /\ PostsFit'
    BY <1>3, RunsStand DEF client
  <1>9. TurnsEarned'
    <2> SUFFICES ASSUME NEW t \in Sessions PROVE Earned(t)'
      BY DEF TurnsEarned
    <2>1. Earned(t)
      BY <1>1 DEF TurnsEarned
    <2>2. CASE t = s
      BY <1>3, <1>4, <1>5, <2>1, <2>2 DEF Earned
    <2>3. CASE t # s
      BY <1>2, <1>3, <1>5, <2>1, <2>3 DEF Earned
    <2> QED BY <2>2, <2>3
  <1> QED BY <1>6, <1>7, <1>8, <1>9 DEF IndInv

\* handleSessionIdle consumes the mark and begins a run, if one is earned.
LEMMA HandleIdleKeeps ==
    ASSUME IndInv, NEW s \in Sessions, HandleIdle(s),
           UNCHANGED <<daemon, client, guard, notes, inFlight, looped, restarts>>,
           busy' \in [Sessions -> BOOLEAN], turns' \in [Sessions -> 0..MaxTurns],
           ~busy'[s], Len(idle[s]) <= turns'[s] + notes[s],
           Contains(active, s) => Len(idle[s]) < turns'[s] + notes[s],
           \A t \in Sessions \ {s} : busy'[t] = busy[t] /\ turns'[t] = turns[t]
    PROVE  IndInv'
  <1> DEFINE r == [at |-> "getting", on |-> 0, ev |-> "none"]
  <1>1. TypeOK /\ GuardTrue /\ RunsFit /\ TurnsEarned /\ PostsFit /\ LoopNeedsCrossed
    BY DEF IndInv
  <1>2. /\ active' \in Seq(Sessions) /\ Len(active') <= Len(active) /\ IsInjective(active')
        /\ \A e : Contains(active', e) => Contains(active, e) /\ e # s
    BY <1>1, WithoutKeeps DEF HandleIdle, MarkConsumed, TypeOK
  <1>3. r \in Run /\ r.at # "posting" /\ r.on = 0 /\ r.ev = "none"
    BY IdleNotifyConstants DEF Run
  <1>4. idle[s] \in Seq(Run)
    BY <1>1 DEF TypeOK
  <1>5. \/ Contains(active, s) /\ idle' = [idle EXCEPT ![s] = Append(idle[s], r)]
        \/ idle' = idle
    BY DEF HandleIdle
  <1> HIDE DEF r
  <1>6. /\ idle' \in [Sessions -> Seq(Run)]
        /\ \A t \in Sessions \ {s} : idle'[t] = idle[t]
    <2>1. Append(idle[s], r) \in Seq(Run)
      BY <1>3, <1>4
    <2>2. idle \in [Sessions -> Seq(Run)]
      BY <1>1 DEF TypeOK
    <2> QED BY <1>5, <2>1, <2>2
  <1>7. /\ Len(idle'[s]) <= turns'[s] + notes'[s]
        /\ \A j \in DOMAIN idle[s] : j \in DOMAIN idle'[s] /\ idle'[s][j] = idle[s][j]
        /\ \A j \in DOMAIN idle'[s] : j \notin DOMAIN idle[s] => idle'[s][j] = r
    <2>1. CASE idle' = idle
      BY <2>1
    <2>2. CASE Contains(active, s) /\ idle' = [idle EXCEPT ![s] = Append(idle[s], r)]
      <3>1. idle'[s] = Append(idle[s], r)
        BY <1>1, <2>2 DEF TypeOK
      <3>2. turns'[s] + notes[s] \in Nat /\ Len(idle[s]) \in Nat /\ Len(Append(idle[s], r)) = Len(idle[s]) + 1
        BY <1>1, <1>3, <1>4, IdleNotifyConstants DEF TypeOK
      <3>3. \A j \in 1..(Len(idle[s]) + 1) :
               Append(idle[s], r)[j] = IF j <= Len(idle[s]) THEN idle[s][j] ELSE r
        BY <1>3, <1>4
      <3>4. DOMAIN idle[s] = 1..Len(idle[s]) /\ DOMAIN idle'[s] = 1..(Len(idle[s]) + 1)
        BY <1>3, <1>4, <3>1
      <3> QED BY <2>2, <3>1, <3>2, <3>3, <3>4
    <2> QED BY <1>5, <2>1, <2>2
  <1>8. TypeOK'
    <2>1. Len(active') <= MaxActive
      BY <1>1, <1>2, IdleNotifyConstants DEF TypeOK
    <2> QED BY <1>1, <1>2, <1>6, <2>1 DEF TypeOK, daemon, client, guard
  <1>9. GuardTrue'
    BY <1>1 DEF GuardTrue, client, guard
  <1>10. RunsFit'
    <2> SUFFICES ASSUME NEW t \in Sessions, NEW j \in DOMAIN idle'[t]
                 PROVE  RunFits(idle[t][j])'
      BY DEF RunsFit
    <2>1. CASE j \in DOMAIN idle[t] /\ idle'[t][j] = idle[t][j]
      BY <1>1, <2>1 DEF RunsFit, RunFits, client
    <2>2. CASE idle'[t][j] = r
      <3>1. conn' \in Nat
        BY <1>1, IdleNotifyConstants DEF TypeOK, client
      <3> QED BY <1>3, <2>2, <3>1 DEF RunFits
    <2>3. (j \in DOMAIN idle[t] /\ idle'[t][j] = idle[t][j]) \/ idle'[t][j] = r
      BY <1>6, <1>7
    <2> QED BY <2>1, <2>2, <2>3
  <1>11. TurnsEarned'
    <2> SUFFICES ASSUME NEW t \in Sessions PROVE Earned(t)'
      BY DEF TurnsEarned
    <2>1. CASE t = s
      BY <1>2, <1>7, <2>1 DEF Earned
    <2>2. CASE t # s
      BY <1>1, <1>2, <1>6, <2>2 DEF TurnsEarned, Earned
    <2> QED BY <2>1, <2>2
  <1>12. PostsFit'
    <2> SUFFICES ASSUME NEW t \in Sessions PROVE PostFits(t)'
      BY DEF PostsFit
    <2>1. PostFits(t)
      BY <1>1 DEF PostsFit
    <2>2. CASE t = s
      <3>1. \A j \in DOMAIN idle'[s] : idle'[s][j].at = "posting" =>
               j \in DOMAIN idle[s] /\ idle[s][j].at = "posting"
        BY <1>3, <1>7
      <3> QED BY <1>7, <2>1, <2>2, <3>1 DEF PostFits
    <2>3. CASE t # s
      BY <1>6, <2>1, <2>3 DEF PostFits
    <2> QED BY <2>2, <2>3
  <1>13. LoopNeedsCrossed'
    BY <1>1 DEF LoopNeedsCrossed
  <1> QED BY <1>8, <1>9, <1>10, <1>11, <1>12, <1>13 DEF IndInv

\* A turn ends, its idle event is seen.
LEMMA TurnEndsKeeps ==
    ASSUME IndInv, NEW s \in Sessions, TurnEnds(s)
    PROVE  IndInv'
  <1>1. TypeOK /\ Earned(s)
    BY DEF IndInv, TurnsEarned
  <1>2. /\ busy[s] /\ busy' = [busy EXCEPT ![s] = FALSE]
        /\ turns' = [turns EXCEPT ![s] = turns[s] + 1] /\ HandleIdle(s)
        /\ UNCHANGED <<daemon, client, guard, notes, inFlight, looped, restarts>>
    BY DEF TurnEnds
  <1>3. /\ turns[s] + 1 \in 0..MaxTurns
        /\ Len(idle[s]) < (turns[s] + 1) + notes[s]
    <2>1. /\ turns[s] \in 0..MaxTurns /\ notes[s] \in 0..MaxNotes
          /\ idle[s] \in Seq(Run)
      BY <1>1 DEF TypeOK
    <2>2. Len(idle[s]) \in Nat /\ turns[s] \in Nat /\ notes[s] \in Nat /\ MaxTurns \in Nat
      BY <2>1, IdleNotifyConstants
    <2> QED BY <1>1, <1>2, <2>1, <2>2 DEF Earned
  <1>4. /\ busy' \in [Sessions -> BOOLEAN] /\ ~busy'[s]
        /\ turns' \in [Sessions -> 0..MaxTurns] /\ turns'[s] = turns[s] + 1
        /\ \A t \in Sessions \ {s} : busy'[t] = busy[t] /\ turns'[t] = turns[t]
    BY <1>1, <1>2, <1>3 DEF TypeOK
  <1>5. /\ Len(idle[s]) <= turns'[s] + notes[s]
        /\ Len(idle[s]) < turns'[s] + notes[s]
    <2>1. turns[s] \in Nat /\ notes[s] \in Nat /\ Len(idle[s]) \in Nat
      BY <1>1, IdleNotifyConstants DEF TypeOK
    <2> QED BY <1>3, <1>4, <2>1
  <1> QED BY <1>2, <1>4, <1>5, HandleIdleKeeps

\* An idle event is seen again.
LEMMA ReplayedKeeps ==
    ASSUME IndInv, NEW s \in Sessions, Replayed(s)
    PROVE  IndInv'
  <1>1. TypeOK /\ Earned(s)
    BY DEF IndInv, TurnsEarned
  <1>2. /\ ~busy[s] /\ HandleIdle(s)
        /\ UNCHANGED <<daemon, client, guard, busy, turns, notes, inFlight, looped, restarts>>
    BY DEF Replayed
  <1> QED BY <1>1, <1>2, HandleIdleKeeps DEF Earned, TypeOK

\* A run that stalls leaves its mark, and a turn for it.
LEMMA StallsKeeps ==
    ASSUME IndInv, NEW s \in Sessions, Stalls(s)
    PROVE  IndInv'
  <1>1. TypeOK /\ GuardTrue /\ TurnsEarned /\ LoopNeedsCrossed
    BY DEF IndInv
  <1>2. /\ busy[s] /\ busy' = [busy EXCEPT ![s] = FALSE]
        /\ turns' = [turns EXCEPT ![s] = turns[s] + 1]
        /\ UNCHANGED <<daemon, client, guard, active, notes, idle, inFlight, looped, restarts>>
    BY DEF Stalls
  <1>3. /\ turns[s] + 1 \in 0..MaxTurns
        /\ Len(idle[s]) < (turns[s] + 1) + notes[s]
    <2>1. /\ turns[s] \in 0..MaxTurns /\ notes[s] \in 0..MaxNotes
          /\ idle[s] \in Seq(Run) /\ Earned(s)
      BY <1>1 DEF TypeOK, TurnsEarned
    <2>2. Len(idle[s]) \in Nat /\ turns[s] \in Nat /\ notes[s] \in Nat /\ MaxTurns \in Nat
      BY <2>1, IdleNotifyConstants
    <2> QED BY <1>2, <2>1, <2>2 DEF Earned
  <1>4. /\ busy' \in [Sessions -> BOOLEAN] /\ ~busy'[s]
        /\ turns' \in [Sessions -> 0..MaxTurns] /\ turns'[s] = turns[s] + 1
        /\ \A t \in Sessions \ {s} : busy'[t] = busy[t] /\ turns'[t] = turns[t]
    BY <1>1, <1>2, <1>3 DEF TypeOK
  <1>5. TypeOK' /\ GuardTrue' /\ LoopNeedsCrossed'
    BY <1>1, <1>2, <1>4 DEF TypeOK, GuardTrue, LoopNeedsCrossed, daemon, client, guard
  <1>6. RunsFit' /\ PostsFit'
    BY <1>2, RunsStand DEF client
  <1>7. TurnsEarned'
    <2> SUFFICES ASSUME NEW t \in Sessions PROVE Earned(t)'
      BY DEF TurnsEarned
    <2>1. CASE t = s
      <3>1. turns[s] \in Nat /\ notes[s] \in Nat /\ Len(idle[s]) \in Nat
        BY <1>1, IdleNotifyConstants DEF TypeOK
      <3> QED BY <1>2, <1>3, <1>4, <2>1, <3>1 DEF Earned
    <2>2. CASE t # s
      BY <1>1, <1>2, <1>4, <2>2 DEF TurnsEarned, Earned
    <2> QED BY <2>1, <2>2
  <1> QED BY <1>5, <1>6, <1>7 DEF IndInv

\* A deleted session has no mark.
LEMMA DeletedKeeps ==
    ASSUME IndInv, NEW s \in Sessions, Deleted(s)
    PROVE  IndInv'
  <1>1. TypeOK /\ GuardTrue /\ TurnsEarned /\ LoopNeedsCrossed
    BY DEF IndInv
  <1>2. /\ active' = Without(active, s) /\ busy' = [busy EXCEPT ![s] = FALSE]
        /\ UNCHANGED <<daemon, client, guard, turns, notes, idle, inFlight, looped, restarts>>
    BY DEF Deleted
  <1>3. /\ active' \in Seq(Sessions) /\ Len(active') <= Len(active) /\ IsInjective(active')
        /\ \A e : Contains(active', e) => Contains(active, e) /\ e # s
    BY <1>1, <1>2, WithoutKeeps DEF TypeOK
  <1>4. Len(active') <= MaxActive
    BY <1>1, <1>3, IdleNotifyConstants DEF TypeOK
  <1>5. /\ busy' \in [Sessions -> BOOLEAN] /\ ~busy'[s]
        /\ \A t \in Sessions \ {s} : busy'[t] = busy[t]
    BY <1>1, <1>2 DEF TypeOK
  <1>6. TypeOK' /\ GuardTrue' /\ LoopNeedsCrossed'
    BY <1>1, <1>2, <1>3, <1>4, <1>5 DEF TypeOK, GuardTrue, LoopNeedsCrossed, daemon, client, guard
  <1>7. RunsFit' /\ PostsFit'
    BY <1>2, RunsStand DEF client
  <1>8. TurnsEarned'
    <2> SUFFICES ASSUME NEW t \in Sessions PROVE Earned(t)'
      BY DEF TurnsEarned
    <2>1. Earned(t)
      BY <1>1 DEF TurnsEarned
    <2>2. CASE t = s
      BY <1>2, <1>3, <1>5, <2>1, <2>2 DEF Earned
    <2>3. CASE t # s
      BY <1>2, <1>3, <1>5, <2>1, <2>3 DEF Earned
    <2> QED BY <2>2, <2>3
  <1> QED BY <1>6, <1>7, <1>8 DEF IndInv
-----------------------------------------------------------------------------
(* the daemon and the connection *)

\* No connection begins, is granted or is left: the file and the configuration.
LEMMA DaemonKeeps ==
    ASSUME IndInv, (\E d \in Docs : Edit(d)) \/ Sighup
    PROVE  IndInv'
  <1>1. TypeOK /\ GuardTrue /\ TurnsEarned /\ LoopNeedsCrossed
    BY DEF IndInv
  <1>2. UNCHANGED <<client, guard, notify, looped, restarts>>
    BY DEF Edit, Sighup
  <1>3. doc' \in Docs /\ applied' \in Docs \ {"unreadable"} /\ edits' \in 0..MaxEdits
    BY <1>1, IdleNotifyConstants DEF Edit, Sighup, TypeOK
  <1>4. TypeOK'
    BY <1>1, <1>2, <1>3 DEF TypeOK, client, guard, notify
  <1>5. GuardTrue' /\ LoopNeedsCrossed'
    BY <1>1, <1>2 DEF GuardTrue, LoopNeedsCrossed, client, guard
  <1>6. RunsFit' /\ PostsFit'
    BY <1>2, RunsStand DEF client, notify
  <1>7. TurnsEarned'
    BY <1>1, <1>2 DEF TurnsEarned, Earned, notify
  <1> QED BY <1>4, <1>5, <1>6, <1>7 DEF IndInv

\* A connection begins, is acknowledged, ends.
LEMMA LinkKeeps ==
    ASSUME IndInv, Connect \/ Ack \/ Close
    PROVE  IndInv'
  <1>1. TypeOK /\ GuardTrue /\ RunsFit /\ TurnsEarned /\ PostsFit /\ LoopNeedsCrossed
    BY DEF IndInv
  <1>2. UNCHANGED <<daemon, notify, looped, restarts>>
    BY DEF Connect, Ack, Close
  <1>3. conn \in Nat /\ conn \in 0..MaxConns /\ MaxConns \in Nat
    BY <1>1, IdleNotifyConstants DEF TypeOK
  <1>4. /\ link' \in {"down", "greeting", "acking", "up"} /\ conn' \in 0..MaxConns
        /\ {granted', ackConfirmed', accepted', latched'} \subseteq BOOLEAN
    <2>1. /\ link' \in {"down", "greeting", "acking", "up"}
          /\ conn' = conn \/ (conn < MaxConns /\ conn' = conn + 1)
      BY DEF Connect, Ack, Close
    <2>2. granted \in BOOLEAN /\ ackConfirmed \in BOOLEAN /\ accepted \in BOOLEAN /\ latched \in BOOLEAN
      BY <1>1 DEF TypeOK
    <2>3. /\ granted' \in BOOLEAN /\ ackConfirmed' \in BOOLEAN
          /\ accepted' \in BOOLEAN /\ latched' \in BOOLEAN
      BY <2>2 DEF Connect, Ack, Close, LatchAfterAck, AckAfterClose, guard
    <2> QED BY <1>3, <2>1, <2>3
  <1>5. TypeOK'
    BY <1>1, <1>2, <1>4 DEF TypeOK, daemon, notify
  <1>6. GuardTrue'
    BY <1>1, <1>3 DEF GuardTrue, Connect, Ack, Close, AckAfterClose, guard
  <1>7. RunsFit'
    <2> SUFFICES ASSUME NEW s \in Sessions, NEW i \in DOMAIN idle[s]
                 PROVE  RunFits(idle[s][i])'
      BY <1>2 DEF RunsFit, notify
    <2> DEFINE x == idle[s][i]
    <2>1. idle'[s][i] = x
      BY <1>2 DEF notify
    <2>2. x.on \in Nat
      <3>1. x \in Run
        BY <1>1, RunTyped
      <3> QED BY <3>1, IdleNotifyConstants DEF Run
    <2>3. RunFits(x)
      BY <1>1 DEF RunsFit
    <2> HIDE DEF x
    <2>4. CASE Connect
      BY <1>3, <2>1, <2>2, <2>3, <2>4 DEF RunFits, Connect
    <2>5. CASE Ack
      BY <2>1, <2>3, <2>5 DEF RunFits, Ack
    <2>6. CASE Close
      BY <2>1, <2>3, <2>6 DEF RunFits, Close
    <2> QED BY <2>4, <2>5, <2>6
  <1>8. PostsFit' /\ TurnsEarned'
    BY <1>1, <1>2 DEF PostsFit, PostFits, TurnsEarned, Earned, notify
  <1>9. LoopNeedsCrossed'
    BY <1>1, <1>2 DEF LoopNeedsCrossed
  <1> QED BY <1>5, <1>6, <1>7, <1>8, <1>9 DEF IndInv

\* opencode is restarted.
LEMMA RestartKeeps ==
    ASSUME IndInv, Restart
    PROVE  IndInv'
  <1>1. TypeOK /\ GuardTrue /\ RunsFit /\ TurnsEarned /\ LoopNeedsCrossed
    BY DEF IndInv
  <1>2. /\ link' = "down" /\ ~granted' /\ ~ackConfirmed' /\ active' = <<>>
        /\ {granted', accepted', ackConfirmed', latched'} \subseteq BOOLEAN
        /\ busy' = [s \in Sessions |-> FALSE] /\ inFlight' = {}
        /\ idle' = [s \in Sessions |-> [i \in DOMAIN idle[s] |-> Ended(idle[s][i])]]
        /\ restarts' \in 0..MaxRestarts
        /\ UNCHANGED <<daemon, conn, turns, notes, looped>>
    <2>1. restarts' \in 0..MaxRestarts
      BY <1>1, IdleNotifyConstants DEF Restart, TypeOK
    <2> QED BY <2>1 DEF Restart
  <1>3. /\ \A s \in Sessions : DOMAIN idle'[s] = DOMAIN idle[s]
        /\ \A s \in Sessions : \A i \in DOMAIN idle[s] : idle'[s][i] = Ended(idle[s][i])
    BY <1>2
  <1>4. \A s \in Sessions : \A i \in DOMAIN idle[s] :
          Ended(idle[s][i]) \in Run /\ Ended(idle[s][i]).at = "done"
    BY <1>1, RunTyped DEF Ended, Run
  <1>5. /\ idle' \in [Sessions -> Seq(Run)]
        /\ \A s \in Sessions : Len(idle'[s]) = Len(idle[s])
    <2>1. idle' = [s \in Sessions |-> [i \in DOMAIN idle[s] |-> idle'[s][i]]]
      BY <1>2, <1>3
    <2> QED BY <1>1, <1>3, <1>4, <2>1, AllRuns
  <1>6. TypeOK'
    <2>1. active' \in Seq(Sessions) /\ Len(active') <= MaxActive /\ IsInjective(active')
      BY <1>2, IdleNotifyConstants DEF IsInjective
    <2> QED BY <1>1, <1>2, <1>5, <2>1 DEF TypeOK, daemon
  <1>7. GuardTrue'
    BY <1>2 DEF GuardTrue
  <1>8. RunsFit'
    <2> SUFFICES ASSUME NEW s \in Sessions, NEW i \in DOMAIN idle[s]
                 PROVE  RunFits(idle[s][i])'
      BY <1>3 DEF RunsFit
    <2>1. RunFits(idle[s][i])
      BY <1>1 DEF RunsFit
    <2> QED BY <1>2, <1>3, <2>1 DEF RunFits, Ended
  <1>9. TurnsEarned'
    BY <1>1, <1>2, <1>5 DEF TurnsEarned, Earned, Contains
  <1>10. PostsFit'
    BY <1>2, <1>3, <1>4 DEF PostsFit, PostFits
  <1>11. LoopNeedsCrossed'
    BY <1>1, <1>2 DEF LoopNeedsCrossed
  <1> QED BY <1>6, <1>7, <1>8, <1>9, <1>10, <1>11 DEF IndInv

\* The daemon reads hello, and delivers what it holds for this adapter.
LEMMA HelloKeeps ==
    ASSUME IndInv, Hello
    PROVE  IndInv'
  <1>1. TypeOK /\ GuardTrue /\ RunsFit /\ TurnsEarned /\ PostsFit /\ LoopNeedsCrossed
    BY DEF IndInv
  <1>2. /\ link = "greeting" /\ link' = "acking" /\ granted' \in BOOLEAN
        /\ UNCHANGED <<daemon, conn, guard, active, busy, turns, notes, inFlight, restarts>>
    BY DEF Hello, Grants
  <1>3. \A s \in Sessions : \A i \in DOMAIN idle[s] :
          /\ idle[s][i] \in Run /\ RunFits(idle[s][i])
          /\ Moved(idle[s][i], "gone") \in Run
    BY <1>1, RunTyped DEF RunsFit, Run, Moved
  <1>4. /\ idle' \in [Sessions -> Seq(Run)]
        /\ \A s \in Sessions : Len(idle'[s]) = Len(idle[s]) /\ DOMAIN idle'[s] = DOMAIN idle[s]
        /\ \A s \in Sessions : \A i \in DOMAIN idle[s] :
             /\ idle'[s][i].at = idle[s][i].at /\ idle'[s][i].on = idle[s][i].on
             /\ idle'[s][i].ev # "none" => idle[s][i].ev # "none"
    <2>1. CASE UNCHANGED idle
      BY <1>1, <2>1 DEF TypeOK
    <2>2. CASE idle' = [s \in Sessions |-> [i \in DOMAIN idle[s] |->
                           IF i \in Redelivered(s) THEN Moved(idle[s][i], "gone")
                                                   ELSE idle[s][i]]]
      <3>1. \A s \in Sessions : DOMAIN idle'[s] = DOMAIN idle[s]
        BY <2>2
      <3>2. \A s \in Sessions : \A i \in DOMAIN idle[s] :
              \/ idle'[s][i] = idle[s][i]
              \/ idle[s][i].ev = "queued" /\ idle'[s][i] = Moved(idle[s][i], "gone")
        BY <2>2 DEF Redelivered
      <3>3. idle' = [s \in Sessions |-> [i \in DOMAIN idle[s] |-> idle'[s][i]]]
        BY <2>2, <3>1
      <3>4. /\ idle' \in [Sessions -> Seq(Run)]
            /\ \A s \in Sessions : Len(idle'[s]) = Len(idle[s])
        <4>1. \A s \in Sessions : \A i \in DOMAIN idle[s] : idle'[s][i] \in Run
          BY <1>3, <3>2
        <4> QED BY <1>1, <3>3, <4>1, AllRuns
      <3>5. ASSUME NEW s \in Sessions, NEW i \in DOMAIN idle[s]
            PROVE  /\ idle'[s][i].at = idle[s][i].at /\ idle'[s][i].on = idle[s][i].on
                   /\ idle'[s][i].ev # "none" => idle[s][i].ev # "none"
        <4>1. CASE idle'[s][i] = idle[s][i]
          BY <4>1
        <4>2. CASE idle[s][i].ev = "queued" /\ idle'[s][i] = Moved(idle[s][i], "gone")
          BY <4>2 DEF Moved
        <4> QED BY <3>2, <4>1, <4>2
      <3> QED BY <3>1, <3>4, <3>5
    <2> QED BY <2>1, <2>2 DEF Hello
  <1>5. \A l \in looped' \ looped : \E s \in Sessions : \E i \in DOMAIN idle[s] :
          idle[s][i].ev = "queued" /\ l = <<idle[s][i].on, conn, applied>>
    <2>1. CASE UNCHANGED looped
      BY <2>1
    <2>2. CASE looped' = looped \cup
                 UNION {{<<idle[s][i].on, conn, applied>> : i \in Redelivered(s)} : s \in Sessions}
      BY <2>2 DEF Redelivered
    <2> QED BY <2>1, <2>2 DEF Hello
  <1>6. looped \subseteq looped'
    BY DEF Hello
  <1>7. \A l \in looped' \ looped :
          l \in (1..MaxConns) \X (1..MaxConns) \X Docs /\ l[1] < l[2]
    <2> SUFFICES ASSUME NEW l \in looped' \ looped
                 PROVE  l \in (1..MaxConns) \X (1..MaxConns) \X Docs /\ l[1] < l[2]
      OBVIOUS
    <2>1. PICK s \in Sessions : \E i \in DOMAIN idle[s] :
             idle[s][i].ev = "queued" /\ l = <<idle[s][i].on, conn, applied>>
      BY <1>5
    <2>2. PICK i \in DOMAIN idle[s] :
             idle[s][i].ev = "queued" /\ l = <<idle[s][i].on, conn, applied>>
      BY <2>1
    <2> DEFINE x == idle[s][i]
    <2>3. x \in Run /\ RunFits(x) /\ x.ev = "queued" /\ l = <<x.on, conn, applied>>
      BY <1>3, <2>2
    <2> HIDE DEF x
    <2>4. x.on \in Nat /\ conn \in 0..MaxConns /\ MaxConns \in Nat
      BY <1>1, <2>3, IdleNotifyConstants DEF Run, TypeOK
    <2>5. x.on > 0 /\ x.on < conn
      BY <1>2, <2>3, <2>4 DEF RunFits
    <2>6. x.on \in 1..MaxConns /\ conn \in 1..MaxConns
      BY <2>4, <2>5
    <2>7. applied \in Docs
      BY <1>1 DEF TypeOK
    <2> QED BY <2>3, <2>5, <2>6, <2>7
  <1>8. TypeOK'
    <2>1. looped' \subseteq (1..MaxConns) \X (1..MaxConns) \X Docs
      BY <1>1, <1>7 DEF TypeOK
    <2> QED BY <1>1, <1>2, <1>4, <2>1 DEF TypeOK, daemon, guard
  <1>9. GuardTrue'
    BY <1>1, <1>2 DEF GuardTrue, guard
  <1>10. RunsFit'
    <2> SUFFICES ASSUME NEW s \in Sessions, NEW i \in DOMAIN idle[s]
                 PROVE  RunFits(idle[s][i])'
      BY <1>4 DEF RunsFit
    <2>1. RunFits(idle[s][i])
      BY <1>3
    <2> QED BY <1>2, <1>4, <2>1 DEF RunFits
  <1>11. TurnsEarned'
    BY <1>1, <1>2, <1>4, SameTurns
  <1>12. PostsFit'
    BY <1>1, <1>2, <1>4, SamePosts
  <1>13. LoopNeedsCrossed'
    BY <1>1, <1>7 DEF LoopNeedsCrossed
  <1> QED BY <1>8, <1>9, <1>10, <1>11, <1>12, <1>13 DEF IndInv
-----------------------------------------------------------------------------
(* the theorems *)

\* Nothing has happened yet.
LEMMA InitIndInv == Init => IndInv
  <1> SUFFICES ASSUME Init PROVE IndInv
    OBVIOUS
  <1>1. /\ \A s \in Sessions : idle[s] = <<>> /\ ~busy[s]
        /\ turns = [s \in Sessions |-> 0] /\ notes = [s \in Sessions |-> 0]
        /\ active = <<>> /\ inFlight = {} /\ looped = {} /\ ~ackConfirmed /\ link = "down"
    BY DEF Init
  <1>2. TypeOK
    <2>1. active \in Seq(Sessions) /\ Len(active) <= MaxActive /\ IsInjective(active)
      BY <1>1, IdleNotifyConstants DEF IsInjective
    <2>2. idle \in [Sessions -> Seq(Run)]
      BY DEF Init
    <2>3. doc \in Docs /\ applied \in Docs \ {"unreadable"}
      BY IdleNotifyConstants DEF Init
    <2>4. /\ edits \in 0..MaxEdits /\ conn \in 0..MaxConns /\ restarts \in 0..MaxRestarts
          /\ 0 \in 0..MaxTurns /\ 0 \in 0..MaxNotes
      BY IdleNotifyConstants DEF Init
    <2>5. /\ busy \in [Sessions -> BOOLEAN] /\ turns \in [Sessions -> 0..MaxTurns]
          /\ notes \in [Sessions -> 0..MaxNotes]
      BY <2>4 DEF Init
    <2>6. /\ link \in {"down", "greeting", "acking", "up"}
          /\ {granted, ackConfirmed, accepted, latched} \subseteq BOOLEAN
          /\ inFlight \subseteq Sessions /\ looped \subseteq (1..MaxConns) \X (1..MaxConns) \X Docs
      BY DEF Init
    <2> QED BY <2>1, <2>2, <2>3, <2>4, <2>5, <2>6 DEF TypeOK
  <1>3. GuardTrue
    BY <1>1 DEF GuardTrue
  <1>4. RunsFit /\ PostsFit
    BY <1>1 DEF RunsFit, PostsFit, PostFits
  <1>5. TurnsEarned
    <2>1. ~\E s \in Sessions : Contains(active, s)
      BY <1>1 DEF Contains
    <2>2. \A s \in Sessions : Len(idle[s]) <= turns[s] + notes[s]
      BY <1>1
    <2> QED BY <1>1, <2>1, <2>2 DEF TurnsEarned, Earned
  <1>6. LoopNeedsCrossed
    BY <1>1 DEF LoopNeedsCrossed
  <1> QED BY <1>2, <1>3, <1>4, <1>5, <1>6 DEF IndInv

\* Every action keeps the invariant.
LEMMA NextIndInv == IndInv /\ [Next]_vars => IndInv'
  <1> SUFFICES ASSUME IndInv, [Next]_vars PROVE IndInv'
    OBVIOUS
  <1>1. CASE (\E d \in Docs : Edit(d)) \/ Sighup
    BY <1>1, DaemonKeeps
  <1>2. CASE Connect \/ Ack \/ Close
    BY <1>2, LinkKeeps
  <1>3. CASE Hello
    BY <1>3, HelloKeeps
  <1>4. CASE Restart
    BY <1>4, RestartKeeps
  <1>5. ASSUME NEW s \in Sessions,
               Works(s) \/ Noted(s) \/ TurnEnds(s) \/ Stalls(s) \/ Replayed(s) \/ Deleted(s)
        PROVE  IndInv'
    BY <1>5, WorksKeeps, NotedKeeps, TurnEndsKeeps, StallsKeeps, ReplayedKeeps, DeletedKeeps
  <1>6. ASSUME NEW s \in Sessions, NEW i \in DOMAIN idle[s],
               Arrives(s, i) \/ Checks(s, i) \/ PostEnds(s, i) \/ Vanishes(s, i)
        PROVE  IndInv'
    BY <1>6, ArrivesKeeps, ChecksKeeps, PostEndsKeeps, VanishesKeeps
  <1>7. CASE UNCHANGED vars
    <2>1. UNCHANGED <<daemon, client, guard, notify, looped, restarts>>
      BY <1>7 DEF vars
    <2>2. TypeOK'
      BY <2>1 DEF IndInv, TypeOK, daemon, client, guard, notify
    <2>3. GuardTrue' /\ LoopNeedsCrossed'
      BY <2>1 DEF IndInv, GuardTrue, LoopNeedsCrossed, client, guard
    <2>4. RunsFit' /\ PostsFit'
      BY <2>1, RunsStand DEF client, notify
    <2>5. TurnsEarned'
      BY <2>1 DEF IndInv, TurnsEarned, Earned, notify
    <2> QED BY <2>2, <2>3, <2>4, <2>5 DEF IndInv
  <1> QED BY <1>1, <1>2, <1>3, <1>4, <1>5, <1>6, <1>7 DEF Next

\* What notify-on-idle keeps, whatever the daemon, the network and opencode do.
THEOREM IdleNotifyInvariant == Spec => []IndInv
  BY InitIndInv, NextIndInv, PTL DEF Spec

\* The state keeps its types, and activeSessions its cap, one mark per session.
THEOREM IdleNotifyTypes == Spec => []TypeOK
  <1>1. IndInv => TypeOK
    BY DEF IndInv
  <1> QED BY <1>1, IdleNotifyInvariant, PTL

\* Loop prevention (idle-notify.ts:35-46): unless the daemon applies a version 2
\* file that leads back under another name, an event comes back over a later
\* connection only.
THEOREM IdleNotifyLoops == Spec => []LoopNeedsCrossed
  <1>1. IndInv => LoopNeedsCrossed
    BY DEF IndInv
  <1> QED BY <1>1, IdleNotifyInvariant, PTL

\* Every wake is earned: each published run has a turn, or a message outside a
\* turn, of its own.
THEOREM WakesAreEarned == Spec => []WakesEarned
  <1>1. IndInv => WakesEarned
    <2> SUFFICES ASSUME IndInv, NEW s \in Sessions
                 PROVE  Cardinality({i \in DOMAIN idle[s] : idle[s][i].on > 0}) <= turns[s] + notes[s]
      BY DEF WakesEarned
    <2> DEFINE P == {i \in DOMAIN idle[s] : idle[s][i].on > 0}
               n == Len(idle[s])
    <2>1. idle[s] \in Seq(Run) /\ turns[s] + notes[s] \in Nat /\ n <= turns[s] + notes[s]
      BY IdleNotifyConstants DEF IndInv, TypeOK, TurnsEarned, Earned
    <2>2. n \in Nat /\ P \subseteq 1..n
      BY <2>1
    <2> HIDE DEF P, n
    <2>3. IsFiniteSet(1..n) /\ Cardinality(1..n) = n
      BY <2>2, FS_Interval
    <2>4. Cardinality(P) \in Nat /\ Cardinality(P) <= n
      BY <2>2, <2>3, FS_Subset, FS_CardinalityType
    <2>5. Cardinality(P) <= turns[s] + notes[s]
      BY <2>1, <2>2, <2>4
    <2> QED BY <2>5 DEF P
  <1> QED BY <1>1, IdleNotifyInvariant, PTL

\* inFlight holds the sessions with a POST under way, and each has one.
THEOREM InFlightIsExact == Spec => []InFlightExact
  <1>1. IndInv => InFlightExact
    <2> SUFFICES ASSUME IndInv, NEW s \in Sessions
                 PROVE  Cardinality({i \in DOMAIN idle[s] : idle[s][i].at = "posting"})
                          = IF s \in inFlight THEN 1 ELSE 0
      BY DEF InFlightExact
    <2> DEFINE P == {i \in DOMAIN idle[s] : idle[s][i].at = "posting"}
    <2>1. PostFits(s)
      BY DEF IndInv, PostsFit
    <2>2. CASE s \in inFlight
      <3>1. PICK i \in DOMAIN idle[s] : idle[s][i].at = "posting"
        BY <2>1, <2>2 DEF PostFits
      <3>2. P = {i}
        BY <2>1, <3>1 DEF PostFits
      <3>3. Cardinality(P) = 1
        BY <3>2, FS_Singleton
      <3> QED BY <2>2, <3>3
    <2>3. CASE s \notin inFlight
      <3>1. P = {}
        BY <2>1, <2>3 DEF PostFits
      <3>2. Cardinality(P) = 0
        BY <3>1, FS_EmptySet
      <3> QED BY <2>3, <3>2
    <2> QED BY <2>2, <2>3
  <1> QED BY <1>1, IdleNotifyInvariant, PTL
=============================================================================

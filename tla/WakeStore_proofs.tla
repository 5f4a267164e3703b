-------------------------- MODULE WakeStore_proofs --------------------------
(***************************************************************************)
(* Proofs about the pending and dead_letter tables, for any number of      *)
(* events, operator commands and rows, and any retention settings; and the *)
(* proof that the store implements Custody.                                *)
(***************************************************************************)
EXTENDS WakeStore, FiniteSetTheorems, TLAPS

\* What is in a process's hands is well formed: a queue job names an event, a
\* redrive that is about to insert names the entry it took the event from, and
\* only a running prune holds swept rows.
JobsFit ==
    \A p \in Procs :
        /\ op[p] = "enq" => job[p].ev \in Events /\ job[p].dest \in Names
        /\ op[p] # "sweep" => swept[p] = {}
        /\ job[p].dl < nextDead
        /\ \A d \in dead : op[p] = "enq" /\ job[p].dl = d.id => d.ref = job[p].ev

\* A row id names one row for ever: rows and copies have ids below the counter,
\* no two rows share an id or an event, and a copy of a row still queued is of
\* the same event.
RowsKeyed ==
    /\ \A r \in pending : r.id < nextRow
    /\ \A r, s \in pending : r.id = s.id \/ r.ev = s.ev => r = s
    /\ \A c \in selected \cup claimed \cup sent :
         /\ c.id < nextRow
         /\ \A r \in pending : r.id = c.id => r.ev = c.ev

DeadKeyed ==
    /\ \A d \in dead : /\ 0 < d.id /\ d.id < nextDead
                       /\ d.kind = "next_session" => d.ref \in Events
    /\ \A c, d \in dead : c.id = d.id => c = d

\* An exhausted row that is about to be deleted is already dead-lettered.
BuriedFirst ==
    op[Daemon] = "bury" =>
        \A c \in selected : (\E r \in pending : r.id = c.id) =>
            InDead(c.ev) \/ c.ev \in released

IndInv == TypeOK /\ JobsFit /\ RowsKeyed /\ DeadKeyed /\ BuriedFirst /\ NoSilentLoss

-----------------------------------------------------------------------------
(* typing *)

\* Every step keeps the types of the tables and of what the processes hold.
LEMMA TypeStep ==
    ASSUME TypeOK, JobsFit, DeadKeyed, [Next]_vars
    PROVE  TypeOK'
  <1> USE StoreConstants DEF tables, ids, copies, history, Procs
  <1>1. ASSUME NEW e \in Events, NEW d \in Names, EnqueueCount(e, d) PROVE TypeOK'
    BY <1>1 DEF EnqueueCount, TypeOK, JobOf, NoJob, Job, Statuses, Ops
  <1>2. CASE EnqueueInsert
    BY <1>2 DEF EnqueueInsert, TypeOK, Insert, InsertAs, PendingRow, JobOf, NoJob, Job,
       Statuses, Ops, JobsFit
  <1>3. ASSUME NEW d \in Names, ClaimSelect(d) PROVE TypeOK'
    BY <1>3 DEF ClaimSelect, TypeOK, FirstClaimable, Claimable, Ops
  <1>4. CASE ClaimUpdate
    BY <1>4 DEF ClaimUpdate, TypeOK, Attempted, PendingRow, Ops
  <1>5. ASSUME NEW c \in claimed, SendPending(c) PROVE TypeOK'
    BY <1>5 DEF SendPending, TypeOK
  <1>6. ASSUME NEW c \in claimed, BuryExhausted(c) PROVE TypeOK'
    BY <1>6 DEF BuryExhausted, TypeOK, DeadLetterRow, DeadRow, PendingRow, Kinds, Statuses, Ops
  <1>7. CASE DeleteExhausted
    BY <1>7 DEF DeleteExhausted, TypeOK, DeletePending, Ops
  <1>8. ASSUME NEW c \in sent, SettleAck(c) PROVE TypeOK'
    BY <1>8 DEF SettleAck, TypeOK, DeletePending, PendingRow
  <1>9. ASSUME NEW c \in sent, SettleUnacked(c) PROVE TypeOK'
    BY <1>9 DEF SettleUnacked, TypeOK
  <1>10. ASSUME NEW a \in Alerts, NEW k \in {"reply", "human_delivery"}, DeadLetterAlert(k, a)
        PROVE  TypeOK'
    BY <1>10 DEF DeadLetterAlert, TypeOK, DeadLetterRow, DeadRow, Kinds, Statuses
  <1>11. ASSUME NEW p \in Clis, NEW dl \in dead, RedriveCount(p, dl) PROVE TypeOK'
    BY <1>11 DEF RedriveCount, TypeOK, JobOf, Job, Statuses, Ops, DeadRow, DeadKeyed
  <1>12. ASSUME NEW p \in Clis, NEW dl \in dead, NEW st \in {"ok", "failed"}, RedriveAlert(p, dl, st)
        PROVE  TypeOK'
    BY <1>12 DEF RedriveAlert, TypeOK, JobOf, Job, Statuses, Ops, DeadRow
  <1>13. ASSUME NEW p \in Clis, RedriveInsert(p) PROVE TypeOK'
    BY <1>13 DEF RedriveInsert, TypeOK, Insert, InsertAs, PendingRow, JobOf, Job,
       Statuses, Ops, JobsFit
  <1>14. ASSUME NEW p \in Clis, MarkRedriven(p) PROVE TypeOK'
    BY <1>14 DEF MarkRedriven, TypeOK, Marked, DeadRow, JobOf, NoJob, Job, Statuses, Ops
  <1>15. ASSUME NEW p \in Clis, CliExit(p) PROVE TypeOK'
    BY <1>15 DEF CliExit, TypeOK, Ops
  <1>16. ASSUME NEW p \in Clis, NEW c \in 0..(now + 1), NEW o \in BOOLEAN, Purge(p, c, o)
        PROVE  TypeOK'
    BY <1>16 DEF Purge, TypeOK, EventsIn, Ops
  <1>17. ASSUME NEW p \in Procs, PruneTxn(p) PROVE TypeOK'
    BY <1>17 DEF PruneTxn, TypeOK, Expired, DeadLive, EventsIn, Ops
  <1>18. ASSUME NEW p \in Procs, SweepDone(p) PROVE TypeOK'
    BY <1>18 DEF SweepDone, TypeOK, Ops
  <1>19. ASSUME NEW p \in Procs, Crash(p) PROVE TypeOK'
    BY <1>19 DEF Crash, TypeOK, JobOf, NoJob, Job, Statuses, Ops, PendingRow
  <1>20. ASSUME NEW p \in Procs, NEW r \in swept[p], SweepRow(p, r) PROVE TypeOK'
    BY <1>20 DEF SweepRow, TypeOK, DeadLetterRow, DeadRow, PendingRow, Kinds, Statuses
  <1>21. CASE Tick
    BY <1>21 DEF Tick, TypeOK
  <1>22. CASE UNCHANGED vars
    BY <1>22 DEF vars, tables, ids, copies, history, TypeOK
  <1> QED BY <1>1, <1>2, <1>3, <1>4, <1>5, <1>6, <1>7, <1>8, <1>9, <1>10, <1>11, <1>12,
     <1>13, <1>14, <1>15, <1>16, <1>17, <1>18, <1>19, <1>20, <1>21, <1>22 DEF Next

\* Every step keeps what the processes hold well formed.
LEMMA JobsStep ==
    ASSUME TypeOK, JobsFit, DeadKeyed, [Next]_vars
    PROVE  JobsFit'
  <1> USE StoreConstants DEF tables, ids, copies, history, Procs
  <1>1. ASSUME NEW e \in Events, NEW d \in Names, EnqueueCount(e, d) PROVE JobsFit'
    BY <1>1 DEF EnqueueCount, TypeOK, JobsFit, JobOf, DeadKeyed
  <1>2. CASE EnqueueInsert
    BY <1>2 DEF EnqueueInsert, TypeOK, JobsFit, JobOf, NoJob
  <1>3. ASSUME NEW d \in Names, ClaimSelect(d) PROVE JobsFit'
    BY <1>3 DEF ClaimSelect, TypeOK, JobsFit
  <1>4. CASE ClaimUpdate
    BY <1>4 DEF ClaimUpdate, TypeOK, JobsFit
  <1>5. ASSUME NEW c \in claimed, SendPending(c) PROVE JobsFit'
    BY <1>5 DEF SendPending, TypeOK, JobsFit
  <1>6. ASSUME NEW c \in claimed, BuryExhausted(c) PROVE JobsFit'
    BY <1>6 DEF BuryExhausted, TypeOK, JobsFit, DeadLetterRow, Job
  <1>7. CASE DeleteExhausted
    BY <1>7 DEF DeleteExhausted, TypeOK, JobsFit
  <1>8. ASSUME NEW c \in sent, SettleAck(c) PROVE JobsFit'
    BY <1>8 DEF SettleAck, TypeOK, JobsFit
  <1>9. ASSUME NEW c \in sent, SettleUnacked(c) PROVE JobsFit'
    BY <1>9 DEF SettleUnacked, TypeOK, JobsFit
  <1>10. ASSUME NEW a \in Alerts, NEW k \in {"reply", "human_delivery"}, DeadLetterAlert(k, a)
        PROVE  JobsFit'
    BY <1>10 DEF DeadLetterAlert, TypeOK, JobsFit, DeadLetterRow, Job
  <1>11. ASSUME NEW p \in Clis, NEW dl \in dead, RedriveCount(p, dl) PROVE JobsFit'
    BY <1>11 DEF RedriveCount, TypeOK, JobsFit, JobOf, DeadKeyed
  <1>12. ASSUME NEW p \in Clis, NEW dl \in dead, NEW st \in {"ok", "failed"}, RedriveAlert(p, dl, st)
        PROVE  JobsFit'
    BY <1>12 DEF RedriveAlert, TypeOK, JobsFit, JobOf, DeadKeyed
  <1>13. ASSUME NEW p \in Clis, RedriveInsert(p) PROVE JobsFit'
    BY <1>13 DEF RedriveInsert, TypeOK, JobsFit, JobOf
  <1>14. ASSUME NEW p \in Clis, MarkRedriven(p) PROVE JobsFit'
    BY <1>14 DEF MarkRedriven, TypeOK, JobsFit, Marked, JobOf, NoJob
  <1>15. ASSUME NEW p \in Clis, CliExit(p) PROVE JobsFit'
    BY <1>15 DEF CliExit, TypeOK, JobsFit
  <1>16. ASSUME NEW p \in Clis, NEW c \in 0..(now + 1), NEW o \in BOOLEAN, Purge(p, c, o)
        PROVE  JobsFit'
    BY <1>16 DEF Purge, TypeOK, JobsFit
  <1>17. ASSUME NEW p \in Procs, PruneTxn(p) PROVE JobsFit'
    BY <1>17 DEF PruneTxn, TypeOK, JobsFit, Expired, DeadLive
  <1>18. ASSUME NEW p \in Procs, SweepDone(p) PROVE JobsFit'
    BY <1>18 DEF SweepDone, TypeOK, JobsFit
  <1>19. ASSUME NEW p \in Procs, Crash(p) PROVE JobsFit'
    BY <1>19 DEF Crash, TypeOK, JobsFit, JobOf, NoJob
  <1>20. ASSUME NEW p \in Procs, NEW r \in swept[p], SweepRow(p, r) PROVE JobsFit'
    BY <1>20 DEF SweepRow, TypeOK, JobsFit, DeadLetterRow, Job
  <1>21. CASE Tick
    BY <1>21 DEF Tick, TypeOK, JobsFit
  <1>22. CASE UNCHANGED vars
    BY <1>22 DEF vars, tables, ids, copies, history, TypeOK, JobsFit
  <1> QED BY <1>1, <1>2, <1>3, <1>4, <1>5, <1>6, <1>7, <1>8, <1>9, <1>10, <1>11, <1>12,
     <1>13, <1>14, <1>15, <1>16, <1>17, <1>18, <1>19, <1>20, <1>21, <1>22 DEF Next

\* Every step keeps row ids unique and tied to their event.
LEMMA RowsStep ==
    ASSUME TypeOK, JobsFit, RowsKeyed, [Next]_vars
    PROVE  RowsKeyed'
  <1> USE StoreConstants DEF tables, ids, copies, history, Procs
  <1>1. ASSUME NEW e \in Events, NEW d \in Names, EnqueueCount(e, d) PROVE RowsKeyed'
    BY <1>1 DEF EnqueueCount, TypeOK, RowsKeyed
  <1>2. CASE EnqueueInsert
    BY <1>2 DEF EnqueueInsert, TypeOK, RowsKeyed, Insert, InsertAs, PendingRow, JobsFit
  <1>3. ASSUME NEW d \in Names, ClaimSelect(d) PROVE RowsKeyed'
    BY <1>3 DEF ClaimSelect, TypeOK, RowsKeyed, FirstClaimable, Claimable, PendingRow
  <1>4. CASE ClaimUpdate
    BY <1>4 DEF ClaimUpdate, TypeOK, RowsKeyed, Attempted, PendingRow
  <1>5. ASSUME NEW c \in claimed, SendPending(c) PROVE RowsKeyed'
    BY <1>5 DEF SendPending, TypeOK, RowsKeyed
  <1>6. ASSUME NEW c \in claimed, BuryExhausted(c) PROVE RowsKeyed'
    BY <1>6 DEF BuryExhausted, TypeOK, RowsKeyed
  <1>7. CASE DeleteExhausted
    BY <1>7 DEF DeleteExhausted, TypeOK, RowsKeyed, DeletePending
  <1>8. ASSUME NEW c \in sent, SettleAck(c) PROVE RowsKeyed'
    BY <1>8 DEF SettleAck, TypeOK, RowsKeyed, DeletePending
  <1>9. ASSUME NEW c \in sent, SettleUnacked(c) PROVE RowsKeyed'
    BY <1>9 DEF SettleUnacked, TypeOK, RowsKeyed
  <1>10. ASSUME NEW a \in Alerts, NEW k \in {"reply", "human_delivery"}, DeadLetterAlert(k, a)
        PROVE  RowsKeyed'
    BY <1>10 DEF DeadLetterAlert, TypeOK, RowsKeyed
  <1>11. ASSUME NEW p \in Clis, NEW dl \in dead, RedriveCount(p, dl) PROVE RowsKeyed'
    BY <1>11 DEF RedriveCount, TypeOK, RowsKeyed
  <1>12. ASSUME NEW p \in Clis, NEW dl \in dead, NEW st \in {"ok", "failed"}, RedriveAlert(p, dl, st)
        PROVE  RowsKeyed'
    BY <1>12 DEF RedriveAlert, TypeOK, RowsKeyed
  <1>13. ASSUME NEW p \in Clis, RedriveInsert(p) PROVE RowsKeyed'
    BY <1>13 DEF RedriveInsert, TypeOK, RowsKeyed, Insert, InsertAs, PendingRow, JobsFit
  <1>14. ASSUME NEW p \in Clis, MarkRedriven(p) PROVE RowsKeyed'
    BY <1>14 DEF MarkRedriven, TypeOK, RowsKeyed
  <1>15. ASSUME NEW p \in Clis, CliExit(p) PROVE RowsKeyed'
    BY <1>15 DEF CliExit, TypeOK, RowsKeyed
  <1>16. ASSUME NEW p \in Clis, NEW c \in 0..(now + 1), NEW o \in BOOLEAN, Purge(p, c, o)
        PROVE  RowsKeyed'
    BY <1>16 DEF Purge, TypeOK, RowsKeyed
  <1>17. ASSUME NEW p \in Procs, PruneTxn(p) PROVE RowsKeyed'
    BY <1>17 DEF PruneTxn, TypeOK, RowsKeyed, Expired
  <1>18. ASSUME NEW p \in Procs, SweepDone(p) PROVE RowsKeyed'
    BY <1>18 DEF SweepDone, TypeOK, RowsKeyed
  <1>19. ASSUME NEW p \in Procs, Crash(p) PROVE RowsKeyed'
    BY <1>19 DEF Crash, TypeOK, RowsKeyed
  <1>20. ASSUME NEW p \in Procs, NEW r \in swept[p], SweepRow(p, r) PROVE RowsKeyed'
    BY <1>20 DEF SweepRow, TypeOK, RowsKeyed
  <1>21. CASE Tick
    BY <1>21 DEF Tick, TypeOK, RowsKeyed
  <1>22. CASE UNCHANGED vars
    BY <1>22 DEF vars, tables, ids, copies, history, TypeOK, RowsKeyed
  <1> QED BY <1>1, <1>2, <1>3, <1>4, <1>5, <1>6, <1>7, <1>8, <1>9, <1>10, <1>11, <1>12,
     <1>13, <1>14, <1>15, <1>16, <1>17, <1>18, <1>19, <1>20, <1>21, <1>22 DEF Next

\* Every step keeps dead-letter ids unique.
LEMMA DeadStep ==
    ASSUME TypeOK, JobsFit, DeadKeyed, [Next]_vars
    PROVE  DeadKeyed'
  <1> USE StoreConstants DEF tables, ids, copies, history, Procs
  <1>1. ASSUME NEW e \in Events, NEW d \in Names, EnqueueCount(e, d) PROVE DeadKeyed'
    BY <1>1 DEF EnqueueCount, TypeOK, DeadKeyed
  <1>2. CASE EnqueueInsert
    BY <1>2 DEF EnqueueInsert, TypeOK, DeadKeyed
  <1>3. ASSUME NEW d \in Names, ClaimSelect(d) PROVE DeadKeyed'
    BY <1>3 DEF ClaimSelect, TypeOK, DeadKeyed
  <1>4. CASE ClaimUpdate
    BY <1>4 DEF ClaimUpdate, TypeOK, DeadKeyed
  <1>5. ASSUME NEW c \in claimed, SendPending(c) PROVE DeadKeyed'
    BY <1>5 DEF SendPending, TypeOK, DeadKeyed
  <1>6. ASSUME NEW c \in claimed, BuryExhausted(c) PROVE DeadKeyed'
    BY <1>6 DEF BuryExhausted, TypeOK, DeadKeyed, DeadLetterRow, DeadRow, PendingRow
  <1>7. CASE DeleteExhausted
    BY <1>7 DEF DeleteExhausted, TypeOK, DeadKeyed
  <1>8. ASSUME NEW c \in sent, SettleAck(c) PROVE DeadKeyed'
    BY <1>8 DEF SettleAck, TypeOK, DeadKeyed
  <1>9. ASSUME NEW c \in sent, SettleUnacked(c) PROVE DeadKeyed'
    BY <1>9 DEF SettleUnacked, TypeOK, DeadKeyed
  <1>10. ASSUME NEW a \in Alerts, NEW k \in {"reply", "human_delivery"}, DeadLetterAlert(k, a)
        PROVE  DeadKeyed'
    BY <1>10 DEF DeadLetterAlert, TypeOK, DeadKeyed, DeadLetterRow, DeadRow
  <1>11. ASSUME NEW p \in Clis, NEW dl \in dead, RedriveCount(p, dl) PROVE DeadKeyed'
    BY <1>11 DEF RedriveCount, TypeOK, DeadKeyed
  <1>12. ASSUME NEW p \in Clis, NEW dl \in dead, NEW st \in {"ok", "failed"}, RedriveAlert(p, dl, st)
        PROVE  DeadKeyed'
    BY <1>12 DEF RedriveAlert, TypeOK, DeadKeyed
  <1>13. ASSUME NEW p \in Clis, RedriveInsert(p) PROVE DeadKeyed'
    BY <1>13 DEF RedriveInsert, TypeOK, DeadKeyed
  <1>14. ASSUME NEW p \in Clis, MarkRedriven(p) PROVE DeadKeyed'
    BY <1>14 DEF MarkRedriven, TypeOK, DeadKeyed, Marked, DeadRow
  <1>15. ASSUME NEW p \in Clis, CliExit(p) PROVE DeadKeyed'
    BY <1>15 DEF CliExit, TypeOK, DeadKeyed
  <1>16. ASSUME NEW p \in Clis, NEW c \in 0..(now + 1), NEW o \in BOOLEAN, Purge(p, c, o)
        PROVE  DeadKeyed'
    BY <1>16 DEF Purge, TypeOK, DeadKeyed
  <1>17. ASSUME NEW p \in Procs, PruneTxn(p) PROVE DeadKeyed'
    BY <1>17 DEF PruneTxn, TypeOK, DeadKeyed, DeadLive
  <1>18. ASSUME NEW p \in Procs, SweepDone(p) PROVE DeadKeyed'
    BY <1>18 DEF SweepDone, TypeOK, DeadKeyed
  <1>19. ASSUME NEW p \in Procs, Crash(p) PROVE DeadKeyed'
    BY <1>19 DEF Crash, TypeOK, DeadKeyed
  <1>20. ASSUME NEW p \in Procs, NEW r \in swept[p], SweepRow(p, r) PROVE DeadKeyed'
    BY <1>20 DEF SweepRow, TypeOK, DeadKeyed, DeadLetterRow, DeadRow, PendingRow
  <1>21. CASE Tick
    BY <1>21 DEF Tick, TypeOK, DeadKeyed
  <1>22. CASE UNCHANGED vars
    BY <1>22 DEF vars, tables, ids, copies, history, TypeOK, DeadKeyed
  <1> QED BY <1>1, <1>2, <1>3, <1>4, <1>5, <1>6, <1>7, <1>8, <1>9, <1>10, <1>11, <1>12,
     <1>13, <1>14, <1>15, <1>16, <1>17, <1>18, <1>19, <1>20, <1>21, <1>22 DEF Next

-----------------------------------------------------------------------------
(* where an event can go in one step *)

\* INSERT OR IGNORE of an event not queued leaves it queued.
LEMMA Inserted ==
    ASSUME NEW p \in Procs, Insert(p), ~InQueue(job[p].ev)
    PROVE  \E r \in pending' : r.ev = job[p].ev
  <1> DEFINE row == [id |-> nextRow, ev |-> job[p].ev, dest |-> job[p].dest,
                     exp |-> now + PendingTtl, att |-> 0]
  <1>1. row \in pending'
    BY DEF Insert, InsertAs, InQueue
  <1>2. row.ev = job[p].ev
    OBVIOUS
  <1> QED BY <1>1, <1>2

\* An entry counted for e stays counted, or is dropped with notice, or e has
\* just been queued again from it.
LEMMA DeadKept ==
    ASSUME TypeOK, JobsFit, DeadKeyed, [Next]_vars, NEW e \in Events, InDead(e)
    PROVE  InDead(e)' \/ e \in released' \/ (~InQueue(e) /\ InQueue(e)')
  <1> USE StoreConstants DEF tables, ids, copies, history, Procs
  <1>0. PICK d \in dead : /\ d.kind = "next_session" /\ d.ref = e /\ d.status # "ok"
                          /\ ~BeingMarkedOk(d)
    BY DEF InDead
  <1>1. ASSUME d \in dead', ~BeingMarkedOk(d)' PROVE InDead(e)'
    BY <1>0, <1>1 DEF InDead
  <1>2. CASE UNCHANGED <<dead, op, job>>
    BY <1>0, <1>1, <1>2 DEF BeingMarkedOk
  <1>3. ASSUME NEW x \in Events, NEW n \in Names, EnqueueCount(x, n) PROVE InDead(e)'
    BY <1>0, <1>1, <1>3 DEF EnqueueCount, BeingMarkedOk, JobOf, TypeOK
  <1>4. CASE EnqueueInsert \/ ClaimUpdate \/ DeleteExhausted
    BY <1>0, <1>1, <1>4
    DEF EnqueueInsert, ClaimUpdate, DeleteExhausted, BeingMarkedOk, JobOf, NoJob, TypeOK
  <1>5. ASSUME NEW n \in Names, ClaimSelect(n) PROVE InDead(e)'
    BY <1>0, <1>1, <1>5 DEF ClaimSelect, BeingMarkedOk, TypeOK
  <1>6. ASSUME NEW c \in claimed, BuryExhausted(c) PROVE InDead(e)'
    BY <1>0, <1>1, <1>6 DEF BuryExhausted, BeingMarkedOk, TypeOK
  <1>7. ASSUME NEW a \in Alerts, NEW k \in {"reply", "human_delivery"}, DeadLetterAlert(k, a)
        PROVE  InDead(e)'
    BY <1>0, <1>1, <1>7 DEF DeadLetterAlert, BeingMarkedOk
  <1>8. ASSUME NEW p \in Clis, NEW dl \in dead, RedriveCount(p, dl) PROVE InDead(e)'
    BY <1>0, <1>1, <1>8 DEF RedriveCount, BeingMarkedOk, JobOf, TypeOK
  <1>9. ASSUME NEW p \in Clis, NEW dl \in dead, NEW st \in {"ok", "failed"},
               RedriveAlert(p, dl, st)
        PROVE  InDead(e)'
    BY <1>0, <1>1, <1>9 DEF RedriveAlert, BeingMarkedOk, JobOf, TypeOK, DeadKeyed
  <1>10. ASSUME NEW p \in Clis, RedriveInsert(p)
         PROVE  InDead(e)' \/ (~InQueue(e) /\ InQueue(e)')
    <2>1. CASE job[p].dl = d.id /\ ~InQueue(e)
      <3>1. job[p].ev = e
        BY <1>0, <1>10, <2>1 DEF RedriveInsert, JobsFit
      <3>2. PICK r \in pending' : r.ev = job[p].ev
        BY <1>10, <2>1, <3>1, Inserted DEF RedriveInsert
      <3> QED BY <2>1, <3>1, <3>2 DEF InQueue
    <2>2. CASE job[p].dl = d.id /\ InQueue(e)
      <3>1. job[p].ev = e
        BY <1>0, <1>10, <2>2 DEF RedriveInsert, JobsFit
      <3> QED BY <1>0, <1>1, <1>10, <2>2, <3>1
              DEF RedriveInsert, BeingMarkedOk, JobOf, TypeOK, InQueue
    <2>3. CASE job[p].dl # d.id
      BY <1>0, <1>1, <1>10, <2>3 DEF RedriveInsert, BeingMarkedOk, JobOf, TypeOK
    <2> QED BY <2>1, <2>2, <2>3
  <1>11. ASSUME NEW p \in Clis, MarkRedriven(p) PROVE InDead(e)'
    <2>1. ~BeingMarkedOk(d)' /\ (job[p].dl = d.id => job[p].status # "ok")
      BY <1>0, <1>11 DEF MarkRedriven, BeingMarkedOk, JobOf, NoJob, TypeOK
    <2>2. CASE job[p].dl # d.id
      BY <1>0, <1>1, <1>11, <2>1, <2>2 DEF MarkRedriven
    <2>3. CASE job[p].dl = d.id
      <3>1. PICK m \in dead' : m = Marked(d, job[p].status)
        BY <1>0, <1>11, <2>3 DEF MarkRedriven
      <3>2. ~BeingMarkedOk(m)'
        BY <2>1, <1>11, <3>1 DEF MarkRedriven, BeingMarkedOk, Marked, JobOf, NoJob, TypeOK
      <3> QED BY <1>0, <2>1, <2>3, <3>1, <3>2 DEF InDead, Marked
    <2> QED BY <2>2, <2>3
  <1>12. ASSUME NEW p \in Clis, CliExit(p) PROVE InDead(e)'
    BY <1>0, <1>1, <1>12 DEF CliExit, BeingMarkedOk, TypeOK
  <1>13. ASSUME NEW p \in Clis, NEW c \in 0..(now + 1), NEW o \in BOOLEAN, Purge(p, c, o)
         PROVE  InDead(e)' \/ e \in released'
    BY <1>0, <1>1, <1>13 DEF Purge, EventsIn, BeingMarkedOk, TypeOK
  <1>14. ASSUME NEW p \in Procs, PruneTxn(p) PROVE InDead(e)' \/ e \in released'
    <2>1. PICK V \in SUBSET DeadLive :
            /\ dead' = DeadLive \ V
            /\ released' = released \cup EventsIn(dead \ (DeadLive \ V))
      BY <1>14 DEF PruneTxn
    <2>2. ~BeingMarkedOk(d)'
      BY <1>0, <1>14 DEF PruneTxn, BeingMarkedOk, TypeOK
    <2> QED BY <1>0, <1>1, <2>1, <2>2 DEF EventsIn
  <1>15. ASSUME NEW p \in Procs, SweepDone(p) PROVE InDead(e)'
    BY <1>0, <1>1, <1>15 DEF SweepDone, BeingMarkedOk, TypeOK
  <1>16. ASSUME NEW p \in Procs, Crash(p) PROVE InDead(e)'
    BY <1>0, <1>1, <1>16 DEF Crash, BeingMarkedOk, JobOf, NoJob, TypeOK
  <1>17. ASSUME NEW p \in Procs, NEW r \in swept[p], SweepRow(p, r) PROVE InDead(e)'
    BY <1>0, <1>1, <1>17 DEF SweepRow, BeingMarkedOk
  <1> QED
    BY <1>2, <1>3, <1>4, <1>5, <1>6, <1>7, <1>8, <1>9, <1>10, <1>11, <1>12, <1>13, <1>14,
       <1>15, <1>16, <1>17
    DEF Next, vars, SendPending, SettleAck, SettleUnacked, Tick

\* A queued event stays queued, moves to a sweep, has been dead-lettered, or is
\* released.
LEMMA QueueKept ==
    ASSUME TypeOK, JobsFit, RowsKeyed, DeadKeyed, BuriedFirst, [Next]_vars,
           NEW e \in Events, InQueue(e)
    PROVE  InQueue(e)' \/ InSweep(e)' \/ (InDead(e) /\ InDead(e)') \/ e \in released'
  <1> USE StoreConstants DEF tables, ids, copies, history, Procs
  <1>0. PICK r \in pending : r.ev = e
    BY DEF InQueue
  <1>1. ASSUME r \in pending' PROVE InQueue(e)'
    BY <1>0, <1>1 DEF InQueue
  <1>2. CASE UNCHANGED pending
    BY <1>1, <1>2
  <1>3. CASE EnqueueInsert \/ \E p \in Clis : RedriveInsert(p)
    BY <1>1, <1>3 DEF EnqueueInsert, RedriveInsert, Insert, InsertAs
  <1>4. CASE ClaimUpdate
    <2>1. r \in pending' \/ Attempted(r) \in pending'
      BY <1>0, <1>4 DEF ClaimUpdate
    <2>2. Attempted(r).ev = e
      BY <1>0 DEF Attempted
    <2> QED BY <1>1, <2>1, <2>2 DEF InQueue
  <1>5. CASE DeleteExhausted
    <2>1. CASE \E c \in selected : c.id = r.id
      <3>1. PICK c \in selected : c.id = r.id
        BY <2>1
      <3>2. c.ev = e /\ op[Daemon] = "bury"
        BY <1>0, <1>5, <3>1 DEF DeleteExhausted, RowsKeyed
      <3>3. InDead(e) \/ e \in released
        BY <3>1, <3>2 DEF BuriedFirst
      <3>4. UNCHANGED <<dead, job, released, torn>>
            /\ \A p \in Procs : op'[p] = "mark" => op[p] = "mark"
        BY <1>5 DEF DeleteExhausted, TypeOK
      <3>5. InDead(e) => InDead(e)'
        BY <3>4 DEF InDead, BeingMarkedOk
      <3> QED BY <3>3, <3>4, <3>5
    <2>2. CASE ~\E c \in selected : c.id = r.id
      BY <1>1, <1>5, <2>2 DEF DeleteExhausted, DeletePending
    <2> QED BY <2>1, <2>2
  <1>6. ASSUME NEW c \in sent, SettleAck(c)
        PROVE  InQueue(e)' \/ e \in released'
    <2>1. c.id = r.id => c.ev = e
      BY <1>0, <1>6 DEF RowsKeyed
    <2> QED BY <1>1, <1>6, <2>1 DEF SettleAck, DeletePending
  <1>7. ASSUME NEW p \in Procs, PruneTxn(p) PROVE InQueue(e)' \/ InSweep(e)'
    <2>1. CASE r \in Expired
      <3>1. r \in swept'[p]
        BY <1>7, <2>1 DEF PruneTxn, TypeOK
      <3> QED BY <1>0, <3>1 DEF InSweep
    <2>2. CASE r \notin Expired
      BY <1>1, <1>7, <2>2 DEF PruneTxn
    <2> QED BY <2>1, <2>2
  <1> QED
    BY <1>2, <1>3, <1>4, <1>5, <1>6, <1>7
    DEF Next, vars, EnqueueCount, ClaimSelect, SendPending, BuryExhausted, SettleUnacked,
        DeadLetterAlert, RedriveCount, RedriveAlert, MarkRedriven, CliExit, Purge, SweepDone,
        Crash, SweepRow, Tick

\* A row in the hands of a prune is dead-lettered, or lost with its process.
LEMMA SweepKept ==
    ASSUME TypeOK, JobsFit, [Next]_vars, NEW e \in Events, InSweep(e)
    PROVE  InSweep(e)' \/ InDead(e)' \/ e \in torn'
  <1> USE StoreConstants DEF tables, ids, copies, history, Procs
  <1>a. PICK q \in Procs : \E r \in swept[q] : r.ev = e
    BY DEF InSweep
  <1>0. PICK r \in swept[q] : r.ev = e
    BY <1>a
  <1>1. ASSUME r \in swept'[q] PROVE InSweep(e)'
    BY <1>0, <1>1 DEF InSweep
  <1>2. CASE UNCHANGED swept
    BY <1>0, <1>1, <1>2
  <1>3. ASSUME NEW p \in Procs, PruneTxn(p) PROVE InSweep(e)'
    <2>1. p # q
      BY <1>0, <1>3 DEF PruneTxn, JobsFit
    <2> QED BY <1>0, <1>1, <1>3, <2>1 DEF PruneTxn, TypeOK
  <1>4. ASSUME NEW p \in Procs, Crash(p) PROVE InSweep(e)' \/ e \in torn'
    BY <1>0, <1>1, <1>4 DEF Crash, TypeOK
  <1>5. ASSUME NEW p \in Procs, NEW x \in swept[p], SweepRow(p, x)
        PROVE  InSweep(e)' \/ InDead(e)'
    <2>1. CASE x.ev = e
      <3>1. PICK d \in dead' : d = DeadLetterRow("next_session", e)
        BY <1>5, <2>1 DEF SweepRow
      <3>2. d.kind = "next_session" /\ d.ref = e /\ d.status = "none" /\ d.id = nextDead
        BY <3>1 DEF DeadLetterRow
      <3>3. ~BeingMarkedOk(d)'
        BY <1>5, <3>2 DEF SweepRow, BeingMarkedOk, JobsFit, TypeOK, Job
      <3> QED BY <3>2, <3>3 DEF InDead
    <2>2. CASE x.ev # e
      BY <1>0, <1>1, <1>5, <2>2 DEF SweepRow, TypeOK
    <2> QED BY <2>1, <2>2
  <1> QED
    BY <1>2, <1>3, <1>4, <1>5
    DEF Next, vars, EnqueueCount, EnqueueInsert, ClaimSelect, ClaimUpdate, SendPending,
        BuryExhausted, DeleteExhausted, SettleAck, SettleUnacked, DeadLetterAlert,
        RedriveCount, RedriveInsert, RedriveAlert, MarkRedriven, CliExit, Purge, SweepDone,
        Tick

\* What is recorded as released or torn stays so until the event is queued anew.
LEMMA ReleaseKept ==
    ASSUME TypeOK, [Next]_vars, NEW e \in Events
    PROVE  /\ e \in released => e \in released' \/ (~InQueue(e) /\ InQueue(e)')
           /\ e \in torn => e \in torn' \/ (~InQueue(e) /\ InQueue(e)')
  <1> USE StoreConstants DEF tables, ids, copies, history, Procs
  <1> DEFINE Kept1 == /\ e \in released => e \in released' \/ (~InQueue(e) /\ InQueue(e)')
                      /\ e \in torn => e \in torn' \/ (~InQueue(e) /\ InQueue(e)')
  <1>1. ASSUME NEW p \in Procs, Insert(p) PROVE Kept1
    <2>1. CASE job[p].ev = e /\ ~InQueue(e)
      <3>1. PICK r \in pending' : r.ev = job[p].ev
        BY <1>1, <2>1, Inserted
      <3> QED BY <2>1, <3>1 DEF InQueue
    <2>2. CASE ~(job[p].ev = e /\ ~InQueue(e))
      BY <1>1, <2>2 DEF Insert, InsertAs, InQueue
    <2> QED BY <2>1, <2>2
  <1>2. CASE released \subseteq released' /\ torn \subseteq torn'
    BY <1>2
  <1>3. CASE EnqueueInsert \/ \E p \in Clis : RedriveInsert(p)
    BY <1>1, <1>3 DEF EnqueueInsert, RedriveInsert
  <1>4. CASE ~(EnqueueInsert \/ \E p \in Clis : RedriveInsert(p))
    <2>1. released \subseteq released' /\ torn \subseteq torn'
      BY <1>4
      DEF Next, vars, EnqueueCount, ClaimSelect, ClaimUpdate, SendPending,
          BuryExhausted, DeleteExhausted, SettleAck, SettleUnacked, DeadLetterAlert,
          RedriveCount, RedriveAlert, MarkRedriven, CliExit, Purge, PruneTxn,
          SweepDone, SweepRow, Crash, Tick
    <2> QED BY <1>2, <2>1
  <1> QED BY <1>3, <1>4

-----------------------------------------------------------------------------
(* the invariant *)

\* Every step keeps an exhausted row dead-lettered until it is deleted.
LEMMA BuriedStep ==
    ASSUME TypeOK, JobsFit, RowsKeyed, DeadKeyed, BuriedFirst, [Next]_vars
    PROVE  BuriedFirst'
  <1> USE StoreConstants DEF tables, ids, copies, history, Procs
  <1> SUFFICES ASSUME op'[Daemon] = "bury", NEW c \in selected', NEW r \in pending', r.id = c.id
               PROVE  InDead(c.ev)' \/ c.ev \in released'
    BY DEF BuriedFirst
  <1>1. ASSUME NEW x \in claimed, BuryExhausted(x) PROVE InDead(c.ev)'
    <2>1. c = x
      BY <1>1 DEF BuryExhausted
    <2>2. PICK d \in dead' : d = DeadLetterRow("next_session", c.ev)
      BY <1>1, <2>1 DEF BuryExhausted
    <2>3. d.kind = "next_session" /\ d.ref = c.ev /\ d.status = "none" /\ d.id = nextDead
      BY <2>2 DEF DeadLetterRow
    <2>4. ~BeingMarkedOk(d)'
      BY <1>1, <2>3 DEF BuryExhausted, BeingMarkedOk, JobsFit, TypeOK, Job
    <2> QED BY <2>3, <2>4 DEF InDead
  <1>2. CASE /\ op[Daemon] = "bury" /\ c \in selected
             /\ \E s \in pending : s.id = r.id
    <2>1. PICK s \in pending : s.id = c.id
      BY <1>2
    <2>2. s.ev = c.ev /\ c.ev \in Events
      BY <1>2, <2>1 DEF RowsKeyed, TypeOK, PendingRow
    <2>3. InQueue(c.ev)
      BY <2>1, <2>2 DEF InQueue
    <2>4. InDead(c.ev) \/ c.ev \in released
      BY <1>2, <2>1 DEF BuriedFirst
    <2> QED BY <2>2, <2>3, <2>4, DeadKept, ReleaseKept
  <1>3. ASSUME NEW p \in Clis, RedriveInsert(p), op[Daemon] = "bury", c \in selected
        PROVE  \E s \in pending : s.id = r.id
    BY <1>3 DEF RedriveInsert, Insert, InsertAs, RowsKeyed, TypeOK, PendingRow
  <1> QED
    BY <1>1, <1>2, <1>3
    DEF Next, vars, EnqueueCount, EnqueueInsert, ClaimSelect, ClaimUpdate, SendPending,
        DeleteExhausted, SettleAck, SettleUnacked, DeadLetterAlert, RedriveCount,
        RedriveInsert, RedriveAlert, MarkRedriven, CliExit, Purge, PruneTxn, SweepDone,
        SweepRow, Crash, Tick, TypeOK

\* Every step keeps each queued event held or accounted for.
LEMMA LossStep ==
    ASSUME TypeOK, JobsFit, RowsKeyed, DeadKeyed, BuriedFirst, NoSilentLoss, [Next]_vars
    PROVE  NoSilentLoss'
  <1> SUFFICES ASSUME NEW e \in Queued'
               PROVE  Held(e)' \/ e \in released' \cup torn'
    BY DEF NoSilentLoss
  <1>1. e \in Events
    BY DEF Queued
  <1>2. CASE e \in Queued
    <2>1. InQueue(e) \/ InSweep(e) \/ InDead(e) \/ e \in released \cup torn
      BY <1>2 DEF NoSilentLoss, Held
    <2> QED BY <1>1, <2>1, QueueKept, SweepKept, DeadKept, ReleaseKept DEF Held
  <1>3. CASE e \notin Queued
    <2>0. PICK d \in Names : <<e, d>> \in addressed' /\ <<e, d>> \notin addressed
      BY <1>1, <1>3 DEF Queued
    <2>a. EnqueueInsert
      BY <2>0
      DEF Next, vars, tables, ids, copies, history, EnqueueCount, ClaimSelect, ClaimUpdate,
          SendPending, BuryExhausted, DeleteExhausted, SettleAck, SettleUnacked,
          DeadLetterAlert, RedriveCount, RedriveInsert, RedriveAlert, MarkRedriven, CliExit,
          Purge, PruneTxn, SweepDone, SweepRow, Crash, Tick
    <2>1. EnqueueInsert /\ e = job[Daemon].ev
      BY <2>0, <2>a DEF EnqueueInsert
    <2>2. CASE InQueue(e)
      BY <1>1, <2>2, QueueKept DEF Held
    <2>3. CASE ~InQueue(e)
      <3>1. PICK r \in pending' : r.ev = e
        BY <2>1, <2>3, Inserted DEF EnqueueInsert, Procs
      <3> QED BY <3>1 DEF Held, InQueue
    <2> QED BY <2>2, <2>3
  <1> QED BY <1>2, <1>3

\* Initially the tables are empty and no process runs.
LEMMA InitInv == Init => IndInv
  <1> SUFFICES ASSUME Init PROVE IndInv
    OBVIOUS
  <1> USE StoreConstants DEF Init, Procs
  <1>1. TypeOK
    BY DEF TypeOK, Ops, Job, NoJob, JobOf, Statuses
  <1>2. JobsFit
    BY DEF JobsFit, NoJob, JobOf
  <1>3. RowsKeyed /\ DeadKeyed /\ BuriedFirst /\ NoSilentLoss
    BY DEF RowsKeyed, DeadKeyed, BuriedFirst, NoSilentLoss, Queued
  <1> QED BY <1>1, <1>2, <1>3 DEF IndInv

\* The invariant is inductive.
LEMMA StepInv == IndInv /\ [Next]_vars => IndInv'
  BY TypeStep, JobsStep, RowsStep, DeadStep, BuriedStep, LossStep DEF IndInv

\* In every behaviour of the daemon and any number of operator commands on one
\* state db, the inductive invariant holds.
THEOREM StoreInvariant == Spec => []IndInv
  BY InitInv, StepInv, PTL DEF Spec

\* The tables and what the processes hold between transactions keep their types.
THEOREM StoreTypes == Spec => []TypeOK
  <1>1. IndInv => TypeOK
    BY DEF IndInv
  <1> QED BY <1>1, StoreInvariant, PTL

\* An event that enqueue_pending accepted leaves the store only by an ack, by a
\* warned or requested deletion, or with a process that died inside prune.
THEOREM StoreKeepsEvents == Spec => []NoSilentLoss
  <1>1. IndInv => NoSilentLoss
    BY DEF IndInv
  <1> QED BY <1>1, StoreInvariant, PTL

-----------------------------------------------------------------------------
(* the queue cap *)

\* Processes that have counted the queue and not inserted yet.
Counted == {p \in Procs : op[p] = "enq"}
CapInv == IsFiniteSet(pending) /\ QueueCap

\* The processes are the daemon and the operator commands.
LEMMA ProcsFinite ==
    /\ IsFiniteSet(Procs) /\ Cardinality(Clis) \in Nat
    /\ Cardinality(Procs) = Cardinality(Clis) + 1
  <1>1. Procs = Clis \cup {Daemon}
    BY DEF Procs
  <1> QED BY <1>1, StoreConstants, FS_AddElement, FS_CardinalityType

\* One more element adds at most one to the size of a finite set.
LEMMA AddOne ==
    ASSUME NEW S, NEW x, IsFiniteSet(S)
    PROVE  IsFiniteSet(S \cup {x}) /\ Cardinality(S \cup {x}) <= Cardinality(S) + 1
  <1>1. IsFiniteSet(S \cup {x})
        /\ Cardinality(S \cup {x}) = (IF x \in S THEN Cardinality(S) ELSE Cardinality(S) + 1)
    BY FS_AddElement, Zenon
  <1>2. Cardinality(S) \in Nat
    BY FS_CardinalityType
  <1> QED BY <1>1, <1>2

\* Every step keeps rows plus counted inserts within the cap.
LEMMA CapStep ==
    ASSUME TypeOK, CapInv, [Next]_vars
    PROVE  CapInv'
  <1> USE StoreConstants, ProcsFinite DEF tables, ids, copies, history
  <1>0. /\ IsFiniteSet(Counted) /\ Cardinality(Counted) \in Nat
        /\ IsFiniteSet(Counted') /\ Cardinality(Counted') \in Nat
        /\ Cardinality(Counted') <= Cardinality(Clis) + 1
    BY FS_Subset, FS_CardinalityType DEF Counted
  <1>1. /\ IsFiniteSet(pending) /\ Cardinality(pending) \in Nat
        /\ Cardinality(pending) + Cardinality(Counted) <= PendingMaxRows + Cardinality(Clis)
    BY FS_CardinalityType DEF CapInv, QueueCap, Counted
  <1>2. ASSUME IsFiniteSet(pending'),
               Cardinality(pending') + Cardinality(Counted')
                   <= PendingMaxRows + Cardinality(Clis)
        PROVE  CapInv'
    BY <1>2 DEF CapInv, QueueCap, Counted
  <1>3. CASE pending' \subseteq pending /\ Counted' \subseteq Counted
    <2>1. /\ IsFiniteSet(pending') /\ Cardinality(pending') \in Nat
          /\ Cardinality(pending') <= Cardinality(pending)
          /\ Cardinality(Counted') <= Cardinality(Counted)
      BY <1>0, <1>1, <1>3, FS_Subset, FS_CardinalityType
    <2> QED BY <1>0, <1>1, <1>2, <2>1
  <1>4. CASE pending' = pending /\ ~QueueFull
    BY <1>0, <1>1, <1>2, <1>4 DEF QueueFull
  <1>5. ASSUME NEW p \in Procs, op[p] = "enq", Insert(p), Counted' = Counted \ {p}
        PROVE  CapInv'
    <2>1. PICK row : pending' \subseteq pending \cup {row}
      BY <1>5 DEF Insert, InsertAs
    <2>2. /\ IsFiniteSet(pending \cup {row})
          /\ Cardinality(pending \cup {row}) <= Cardinality(pending) + 1
      BY <1>1, AddOne
    <2>3. /\ IsFiniteSet(pending') /\ Cardinality(pending') \in Nat
          /\ Cardinality(pending') <= Cardinality(pending \cup {row})
      BY <2>1, <2>2, FS_Subset, FS_CardinalityType
    <2>4. p \in Counted
      BY <1>5 DEF Counted
    <2>5. Cardinality(Counted \ {p}) = Cardinality(Counted) - 1
      BY <1>0, <2>4, FS_RemoveElement
    <2>6. Cardinality(Counted') = Cardinality(Counted) - 1
      BY <1>5, <2>5
    <2>7. Cardinality(pending') <= Cardinality(pending) + 1
      <3>1. Cardinality(pending \cup {row}) \in Nat
        BY <2>2, FS_CardinalityType
      <3> QED BY <1>1, <2>2, <2>3, <3>1
    <2> QED BY <1>0, <1>1, <1>2, <2>3, <2>6, <2>7
  <1>6. CASE ClaimUpdate
    <2> DEFINE f == [r \in pending |-> IF \E s \in selected : s.id = r.id
                                         THEN Attempted(r) ELSE r]
    <2>1. f \in Surjection(pending, pending')
      BY <1>6 DEF ClaimUpdate, Surjection
    <2>2. /\ IsFiniteSet(pending') /\ Cardinality(pending') \in Nat
          /\ Cardinality(pending') <= Cardinality(pending)
      BY <1>1, <2>1, FS_Surjection, FS_CardinalityType
    <2>3. Counted' = Counted
      BY <1>6 DEF ClaimUpdate, Counted, TypeOK
    <2> QED BY <1>0, <1>1, <1>2, <2>2, <2>3
  <1>7. CASE EnqueueInsert
    <2>1. Counted' = Counted \ {Daemon}
      BY <1>7 DEF EnqueueInsert, Counted, TypeOK
    <2> QED BY <1>5, <1>7, <2>1 DEF EnqueueInsert, Procs
  <1>8. ASSUME NEW p \in Clis, RedriveInsert(p) PROVE CapInv'
    <2>1. Counted' = Counted \ {p}
      BY <1>8 DEF RedriveInsert, Counted, TypeOK
    <2> QED BY <1>5, <1>8, <2>1 DEF RedriveInsert, Procs
  <1>9. ASSUME NEW p \in Clis, NEW dl \in dead, RedriveCount(p, dl) PROVE CapInv'
    <2>1. CASE QueueFull
      BY <1>3, <1>9, <2>1 DEF RedriveCount, Counted, TypeOK
    <2>2. CASE ~QueueFull
      BY <1>4, <1>9, <2>2 DEF RedriveCount
    <2> QED BY <2>1, <2>2
  <1>10. ASSUME NEW e \in Events, NEW d \in Names, EnqueueCount(e, d) PROVE CapInv'
    BY <1>4, <1>10 DEF EnqueueCount
  <1>11. CASE UNCHANGED <<pending, op>>
    BY <1>3, <1>11 DEF Counted
  <1>12. ASSUME NEW p \in Procs, NEW o \in Ops \ {"enq"}, op' = [op EXCEPT ![p] = o],
                pending' \subseteq pending
         PROVE  CapInv'
    BY <1>3, <1>12 DEF Counted, TypeOK
  <1>13. Daemon \in Procs /\ Clis \subseteq Procs
         /\ {"ready", "down", "sweep", "claim", "bury", "mark"} \subseteq Ops \ {"enq"}
    BY DEF Procs, Ops
  <1>14. ASSUME NEW c \in sent, SettleAck(c) PROVE CapInv'
    BY <1>3, <1>14 DEF SettleAck, DeletePending, Counted
  <1>15. CASE DeleteExhausted
    BY <1>12, <1>13, <1>15 DEF DeleteExhausted, DeletePending
  <1>16. ASSUME NEW p \in Procs, PruneTxn(p) PROVE CapInv'
    BY <1>12, <1>13, <1>16 DEF PruneTxn
  <1>17. ASSUME NEW p \in Procs, SweepDone(p) \/ Crash(p) PROVE CapInv'
    BY <1>12, <1>13, <1>17 DEF SweepDone, Crash
  <1>18. ASSUME NEW p \in Clis, NEW c \in 0..(now + 1), NEW o \in BOOLEAN, Purge(p, c, o)
         PROVE  CapInv'
    BY <1>12, <1>13, <1>18 DEF Purge
  <1>19. ASSUME NEW p \in Clis, MarkRedriven(p) \/ CliExit(p) PROVE CapInv'
    BY <1>12, <1>13, <1>19 DEF MarkRedriven, CliExit
  <1>20. ASSUME NEW p \in Clis, NEW dl \in dead, NEW st \in {"ok", "failed"},
                RedriveAlert(p, dl, st)
         PROVE  CapInv'
    BY <1>12, <1>13, <1>20 DEF RedriveAlert
  <1>21. ASSUME NEW d \in Names, ClaimSelect(d) PROVE CapInv'
    BY <1>12, <1>13, <1>21 DEF ClaimSelect
  <1>22. ASSUME NEW c \in claimed, BuryExhausted(c) PROVE CapInv'
    BY <1>12, <1>13, <1>22 DEF BuryExhausted
  <1> QED
    BY <1>6, <1>7, <1>8, <1>9, <1>10, <1>11, <1>14, <1>15, <1>16, <1>17, <1>18, <1>19, <1>20,
       <1>21, <1>22
    DEF Next, vars, SendPending, SettleUnacked, DeadLetterAlert, SweepRow, Tick

\* However the daemon and concurrent redrives interleave, the queue exceeds
\* pending_max_rows by at most one row per operator command.
THEOREM StoreCapsQueue == Spec => []QueueCap
  <1>1. Init => CapInv
    <2> SUFFICES ASSUME Init PROVE CapInv
      OBVIOUS
    <2>1. pending = {} /\ {p \in Procs : op[p] = "enq"} = {}
      BY DEF Init
    <2> QED BY <2>1, FS_EmptySet, ProcsFinite, StoreConstants DEF CapInv, QueueCap
  <1>2. TypeOK /\ CapInv /\ [Next]_vars => CapInv'
    BY CapStep
  <1>3. CapInv => QueueCap
    BY DEF CapInv
  <1> QED BY <1>1, <1>2, <1>3, StoreTypes, PTL DEF Spec

-----------------------------------------------------------------------------
(* WakeStore implements Custody: every transaction of the store, and every crash
   between two, is a step of the abstract specification or none. *)

\* The store knows only events that the router has queued: a row, a copy of
\* one, a swept row, an entry and a redrive all go back to an enqueue.
Known ==
    /\ \A r \in pending \cup selected \cup claimed \cup sent : r.ev \in Queued
    /\ \A p \in Procs : \A r \in swept[p] : r.ev \in Queued
    /\ \A d \in dead : d.kind = "next_session" => d.ref \in Queued
    /\ \A p \in Clis : op[p] = "enq" => job[p].ev \in Queued

\* What was queued once stays in the history.
LEMMA QueuedKept ==
    ASSUME [Next]_vars
    PROVE  Queued \subseteq Queued'
  <1>1. addressed \subseteq addressed'
    BY DEF Next, vars, tables, ids, copies, history, EnqueueCount, EnqueueInsert, ClaimSelect,
           ClaimUpdate, SendPending, BuryExhausted, DeleteExhausted, SettleAck, SettleUnacked,
           DeadLetterAlert, RedriveCount, RedriveInsert, RedriveAlert, MarkRedriven, CliExit,
           Purge, PruneTxn, SweepDone, SweepRow, Crash, Tick
  <1> QED BY <1>1 DEF Queued

\* Every step keeps Known: only enqueue_pending from the router brings in an
\* event that was not there.
LEMMA KnownStep ==
    ASSUME IndInv, Known, [Next]_vars
    PROVE  Known'
  <1> USE StoreConstants DEF tables, ids, copies, history, Procs
  <1> DEFINE Q == Queued
             Q1 == Queued'
  <1>0. Q \subseteq Q1
    BY QueuedKept
  <1>k. /\ \A r \in pending \cup selected \cup claimed \cup sent : r.ev \in Q1
        /\ \A p \in Procs : \A r \in swept[p] : r.ev \in Q1
        /\ \A d \in dead : d.kind = "next_session" => d.ref \in Q1
        /\ \A p \in Clis : op[p] = "enq" => job[p].ev \in Q1
    BY <1>0 DEF Known
  <1>t. TypeOK
    BY DEF IndInv
  <1>d. EnqueueInsert => job[Daemon].ev \in Q1
    BY DEF EnqueueInsert, Queued, IndInv, JobsFit
  <1> DEFINE K1 == /\ \A r \in pending' \cup selected' \cup claimed' \cup sent' : r.ev \in Q1
                   /\ \A p \in Procs : \A r \in swept'[p] : r.ev \in Q1
                   /\ \A d \in dead' : d.kind = "next_session" => d.ref \in Q1
                   /\ \A p \in Clis : op'[p] = "enq" => job'[p].ev \in Q1
  <1> SUFFICES K1
    BY DEF Known
  <1> HIDE DEF Q, Q1
  <1>1. CASE \E e \in Events, d \in Names : EnqueueCount(e, d)
    BY <1>1, <1>k, <1>t DEF EnqueueCount, TypeOK
  <1>2. CASE EnqueueInsert
    BY <1>2, <1>k, <1>t, <1>d DEF EnqueueInsert, Insert, InsertAs, TypeOK
  <1>3. CASE \E d \in Names : ClaimSelect(d)
    BY <1>3, <1>k, <1>t DEF ClaimSelect, FirstClaimable, Claimable, TypeOK
  <1>4. CASE ClaimUpdate
    <2>1. \A r \in pending \cup selected : Attempted(r).ev = r.ev
      BY DEF Attempted
    <2> QED BY <1>4, <1>k, <1>t, <2>1 DEF ClaimUpdate, TypeOK
  <1>5. CASE \E c \in claimed : SendPending(c)
    BY <1>5, <1>k, <1>t DEF SendPending, TypeOK
  <1>6. ASSUME NEW c \in claimed, BuryExhausted(c) PROVE K1
    <2>1. DeadLetterRow("next_session", c.ev).ref \in Q1
      BY <1>k DEF DeadLetterRow
    <2> QED BY <1>6, <1>k, <1>t, <2>1 DEF BuryExhausted, TypeOK
  <1>7. CASE DeleteExhausted
    BY <1>7, <1>k, <1>t DEF DeleteExhausted, DeletePending, TypeOK
  <1>8. CASE \E c \in sent : SettleAck(c) \/ SettleUnacked(c)
    BY <1>8, <1>k, <1>t DEF SettleAck, SettleUnacked, DeletePending, TypeOK
  <1>9. ASSUME NEW a \in Alerts, NEW k \in {"reply", "human_delivery"}, DeadLetterAlert(k, a)
        PROVE  K1
    <2>1. DeadLetterRow(k, a).kind # "next_session"
      BY DEF DeadLetterRow
    <2> QED BY <1>9, <1>k, <2>1 DEF DeadLetterAlert
  <1>10. ASSUME NEW p \in Clis, NEW dl \in dead, RedriveCount(p, dl) PROVE K1
    <2>1. dl.ref \in Q1
      BY <1>10, <1>k DEF RedriveCount
    <2> QED BY <1>10, <1>k, <1>t, <2>1 DEF RedriveCount, JobOf, TypeOK
  <1>11. CASE \E p \in Clis, dl \in dead, s \in {"ok", "failed"} : RedriveAlert(p, dl, s)
    BY <1>11, <1>k, <1>t DEF RedriveAlert, TypeOK
  <1>12. ASSUME NEW p \in Clis, RedriveInsert(p) PROVE K1
    BY <1>12, <1>k, <1>t DEF RedriveInsert, Insert, InsertAs, TypeOK
  <1>13. ASSUME NEW p \in Clis, MarkRedriven(p) PROVE K1
    <2>1. \A d \in dead : Marked(d, job[p].status).kind = d.kind
                          /\ Marked(d, job[p].status).ref = d.ref
      BY DEF Marked
    <2> QED BY <1>13, <1>k, <1>t, <2>1 DEF MarkRedriven, TypeOK
  <1>14. CASE \E p \in Clis : CliExit(p)
    BY <1>14, <1>k, <1>t DEF CliExit, TypeOK
  <1>15. CASE \E p \in Clis, c \in 0..(now + 1), o \in BOOLEAN : Purge(p, c, o)
    BY <1>15, <1>k, <1>t DEF Purge, TypeOK
  <1>16. ASSUME NEW p \in Procs, PruneTxn(p) PROVE K1
    BY <1>16, <1>k, <1>t DEF PruneTxn, Expired, DeadLive, TypeOK
  <1>17. CASE \E p \in Procs : SweepDone(p) \/ Crash(p)
    BY <1>17, <1>k, <1>t DEF SweepDone, Crash, TypeOK
  <1>18. ASSUME NEW p \in Procs, NEW r \in swept[p], SweepRow(p, r) PROVE K1
    <2>1. DeadLetterRow("next_session", r.ev).ref \in Q1
      BY <1>k DEF DeadLetterRow
    <2> QED BY <1>18, <1>k, <1>t, <2>1 DEF SweepRow, TypeOK
  <1>19. CASE Tick \/ UNCHANGED vars
    BY <1>19, <1>k DEF Tick, vars
  <1> QED
    BY <1>1, <1>2, <1>3, <1>4, <1>5, <1>6, <1>7, <1>8, <1>9, <1>10, <1>11, <1>12, <1>13, <1>14,
       <1>15, <1>16, <1>17, <1>18, <1>19 DEF Next
-----------------------------------------------------------------------------
(* what a step does to one event *)

\* An event enters the hands of a prune from the queue, which it leaves.
LEMMA PruneEnters ==
    ASSUME IndInv, [Next]_vars, NEW e \in Events, ~InSweep(e), InSweep(e)'
    PROVE  InQueue(e) /\ ~InQueue(e)'
  <1> USE StoreConstants DEF tables, ids, copies, history, Procs
  <1>1. PICK q \in Procs : \E r \in swept'[q] : r.ev = e
    BY DEF InSweep
  <1>2. PICK r \in swept'[q] : r.ev = e
    BY <1>1
  <1>3. \A p \in Procs : \A s \in swept[p] : s.ev # e
    BY DEF InSweep
  <1>4. ASSUME NEW p \in Procs, PruneTxn(p) PROVE InQueue(e) /\ ~InQueue(e)'
    <2>1. p = q /\ r \in Expired
      BY <1>2, <1>3, <1>4 DEF PruneTxn, IndInv, TypeOK
    <2>2. r \in pending /\ \A s \in pending : s.ev = e => s = r
      BY <1>2, <2>1 DEF Expired, IndInv, RowsKeyed
    <2> QED BY <1>2, <1>4, <2>1, <2>2 DEF PruneTxn, InQueue
  <1>5. CASE \A p \in Procs : swept'[p] \subseteq swept[p]
    BY <1>2, <1>3, <1>5
  <1>6. CASE UNCHANGED swept
    BY <1>5, <1>6
  <1>7. ASSUME NEW p \in Procs, Crash(p) \/ \E x \in swept[p] : SweepRow(p, x)
        PROVE  InQueue(e) /\ ~InQueue(e)'
    BY <1>5, <1>7 DEF Crash, SweepRow, IndInv, TypeOK
  <1> QED
    BY <1>4, <1>6, <1>7
    DEF Next, vars, EnqueueCount, EnqueueInsert, ClaimSelect, ClaimUpdate, SendPending,
        BuryExhausted, DeleteExhausted, SettleAck, SettleUnacked, DeadLetterAlert,
        RedriveCount, RedriveInsert, RedriveAlert, MarkRedriven, CliExit, Purge, SweepDone,
        Tick

\* The entry of an event appears only after the event was queued.
LEMMA EntryEnters ==
    ASSUME IndInv, Known', [Next]_vars, NEW e \in Events, ~HasEntry(e), HasEntry(e)'
    PROVE  e \in Queued
  <1>1. e \in Queued'
    BY DEF HasEntry, Known
  <1>2. addressed' = addressed
    BY DEF Next, vars, tables, ids, copies, history, HasEntry, EnqueueCount, EnqueueInsert,
           ClaimSelect, ClaimUpdate, SendPending, BuryExhausted, DeleteExhausted, SettleAck,
           SettleUnacked, DeadLetterAlert, RedriveCount, RedriveInsert, RedriveAlert,
           MarkRedriven, CliExit, Purge, PruneTxn, SweepDone, SweepRow, Crash, Tick
  <1> QED BY <1>1, <1>2 DEF Queued

\* An event is released by an ack, a purge or a retention step, and was queued.
LEMMA ReleaseGains ==
    ASSUME IndInv, Known, [Next]_vars, NEW e \in Events, e \notin released, e \in released'
    PROVE  e \in Queued
  <1> USE DEF tables, ids, copies, history
  <1>1. ASSUME NEW D \in SUBSET dead, e \in EventsIn(D) PROVE e \in Queued
    BY <1>1 DEF EventsIn, Known
  <1>2. ASSUME NEW c \in sent, SettleAck(c) PROVE e \in Queued
    BY <1>2 DEF SettleAck, Known
  <1>3. ASSUME NEW p \in Clis, NEW c \in 0..(now + 1), NEW o \in BOOLEAN, Purge(p, c, o)
        PROVE  e \in Queued
    <2>1. PICK D \in SUBSET dead : released' = released \cup EventsIn(D)
      BY <1>3 DEF Purge
    <2> QED BY <1>1, <2>1
  <1>4. ASSUME NEW p \in Procs, PruneTxn(p) PROVE e \in Queued
    <2>1. PICK D \in SUBSET dead : released' = released \cup EventsIn(D)
      BY <1>4 DEF PruneTxn
    <2> QED BY <1>1, <2>1
  <1>5. CASE released' \subseteq released
    BY <1>5
  <1> QED
    BY <1>2, <1>3, <1>4, <1>5
    DEF Next, vars, EnqueueCount, EnqueueInsert, Insert, InsertAs, ClaimSelect, ClaimUpdate,
        SendPending, BuryExhausted, DeleteExhausted, SettleUnacked, DeadLetterAlert,
        RedriveCount, RedriveInsert, RedriveAlert, MarkRedriven, CliExit, SweepDone, SweepRow,
        Crash, Tick

\* Only a prune that dies loses an event.
LEMMA LossGains ==
    ASSUME IndInv, [Next]_vars, NEW e \in Events, e \notin torn, e \in torn'
    PROVE  InSweep(e)
  <1> USE DEF tables, ids, copies, history
  <1>1. ASSUME NEW p \in Procs, Crash(p) PROVE InSweep(e)
    BY <1>1 DEF Crash, InSweep
  <1>2. CASE torn' \subseteq torn
    BY <1>2
  <1> QED
    BY <1>1, <1>2
    DEF Next, vars, EnqueueCount, EnqueueInsert, Insert, InsertAs, ClaimSelect, ClaimUpdate,
        SendPending, BuryExhausted, DeleteExhausted, SettleAck, SettleUnacked, DeadLetterAlert,
        RedriveCount, RedriveInsert, RedriveAlert, MarkRedriven, CliExit, Purge, PruneTxn,
        SweepDone, SweepRow, Tick

-----------------------------------------------------------------------------
(* the refinement *)

\* The store's places, as Custody reads them.
LEMMA Seen ==
    ASSUME NEW e \in Events
    PROVE  /\ PlacesOf(e) \subseteq {"queue", "prune", "dead"}
           /\ ("queue" \in PlacesOf(e)) = InQueue(e)
           /\ ("prune" \in PlacesOf(e)) = InSweep(e)
           /\ ("dead" \in PlacesOf(e)) = HasEntry(e)
           /\ (PlacesOf(e) = {}) = ~(InQueue(e) \/ InSweep(e) \/ HasEntry(e))
  <1> InQueue(e) \in BOOLEAN /\ InSweep(e) \in BOOLEAN /\ HasEntry(e) \in BOOLEAN
    BY DEF InQueue, InSweep, HasEntry
  <1> QED BY DEF PlacesOf

\* What a step of the store does to one event is what Custody allows.
LEMMA EventStep ==
    ASSUME IndInv, IndInv', Known, Known', [Next]_vars, NEW e \in Events
    PROVE  /\ InSweep(e)' /\ ~InSweep(e) => InQueue(e) /\ ~InQueue(e)'
           /\ HasEntry(e)' /\ ~HasEntry(e) =>
                InQueue(e) \/ InSweep(e) \/ HasEntry(e) \/ e \in released \cup torn
           /\ InQueue(e) /\ ~InQueue(e)' => InSweep(e)' \/ HasEntry(e) \/ e \in released'
           /\ InSweep(e) /\ ~InSweep(e)' => HasEntry(e)' \/ e \in torn'
           /\ InQueue(e) \/ InSweep(e) \/ HasEntry(e) =>
                InQueue(e)' \/ InSweep(e)' \/ HasEntry(e)' \/ e \in released' \cup torn'
           /\ e \in released' \ released =>
                InQueue(e) \/ InSweep(e) \/ HasEntry(e) \/ e \in torn
           /\ e \in torn' \ torn => InSweep(e)
           /\ e \in (released \ released') \cup (torn \ torn') => ~InQueue(e) /\ InQueue(e)'
  <1>1. (InDead(e) => HasEntry(e)) /\ (InDead(e)' => HasEntry(e)')
    BY DEF InDead, HasEntry
  <1>2. e \in Queued => InQueue(e) \/ InSweep(e) \/ HasEntry(e) \/ e \in released \cup torn
    BY <1>1 DEF IndInv, NoSilentLoss, Held
  <1>3. e \in Queued' =>
          InQueue(e)' \/ InSweep(e)' \/ HasEntry(e)' \/ e \in released' \cup torn'
    BY <1>1 DEF IndInv, NoSilentLoss, Held
  <1>4. InQueue(e) \/ InSweep(e) \/ HasEntry(e) => e \in Queued'
    BY QueuedKept DEF Known, InQueue, InSweep, HasEntry
  <1>5. /\ InQueue(e) => InQueue(e)' \/ InSweep(e)' \/ HasEntry(e) \/ e \in released'
        /\ InSweep(e) => InSweep(e)' \/ HasEntry(e)' \/ e \in torn'
    BY <1>1, QueueKept, SweepKept DEF IndInv
  <1>6. /\ e \in released => e \in released' \/ (~InQueue(e) /\ InQueue(e)')
        /\ e \in torn => e \in torn' \/ (~InQueue(e) /\ InQueue(e)')
    BY ReleaseKept DEF IndInv
  <1> QED BY <1>2, <1>3, <1>4, <1>5, <1>6, PruneEnters, EntryEnters, ReleaseGains, LossGains

\* Every step of the store is a step of Custody.
LEMMA CustodyStep ==
    ASSUME IndInv, IndInv', Known, Known', [Next]_vars
    PROVE  Kept!Next
  <1> DEFINE A == [e \in Events |-> PlacesOf(e)]
  <1>1. A' \in [Events -> SUBSET {"queue", "prune", "dead"}]
    BY DEF PlacesOf
  <1>2. released' \subseteq Events /\ torn' \subseteq Events
    BY DEF IndInv, TypeOK
  <1>3. ASSUME NEW e \in Events
        PROVE  Kept!Arrives(e) /\ Kept!Departs(e) /\ Kept!Ends(e)
    <2>1. /\ A[e] = PlacesOf(e) /\ A'[e] = PlacesOf(e)'
      OBVIOUS
    <2>2. /\ ("queue" \in PlacesOf(e)) = InQueue(e)
          /\ ("prune" \in PlacesOf(e)) = InSweep(e)
          /\ ("dead" \in PlacesOf(e)) = HasEntry(e)
          /\ (PlacesOf(e) = {}) = ~(InQueue(e) \/ InSweep(e) \/ HasEntry(e))
      BY Seen
    <2>3. /\ ("queue" \in PlacesOf(e)') = InQueue(e)'
          /\ ("prune" \in PlacesOf(e)') = InSweep(e)'
          /\ ("dead" \in PlacesOf(e)') = HasEntry(e)'
          /\ (PlacesOf(e)' = {}) = ~(InQueue(e)' \/ InSweep(e)' \/ HasEntry(e)')
      <3> InQueue(e)' \in BOOLEAN /\ InSweep(e)' \in BOOLEAN /\ HasEntry(e)' \in BOOLEAN
        BY DEF InQueue, InSweep, HasEntry
      <3> QED BY DEF PlacesOf
    <2> QED BY <2>1, <2>2, <2>3, EventStep
            DEF Kept!Arrives, Kept!Departs, Kept!Ends, Kept!Enters, Kept!Leaves
  <1> QED BY <1>1, <1>2, <1>3 DEF Kept!Next, Kept!Places

\* The daemon and any number of operator commands on one state db keep every
\* event they accept in custody: WakeStore implements Custody.
THEOREM StoreKeepsCustody == Spec => KeepsCustody
  <1>1. Init => Known /\ Kept!Init
    <2> SUFFICES ASSUME Init PROVE Known /\ Kept!Init
      OBVIOUS
    <2>1. Known
      BY StoreConstants DEF Init, Known, Procs
    <2>2. ASSUME NEW e \in Events PROVE PlacesOf(e) = {}
      <3>1. ~InQueue(e) /\ ~InSweep(e) /\ ~HasEntry(e)
        BY DEF Init, InQueue, InSweep, HasEntry
      <3> QED BY <3>1, Seen
    <2> QED BY <2>1, <2>2 DEF Init, Kept!Init
  <1>2. IndInv /\ Known /\ [Next]_vars => Known'
    BY KnownStep
  <1>3. IndInv /\ IndInv' /\ Known /\ Known' /\ [Next]_vars => [Kept!Next]_(Kept!vars)
    BY CustodyStep
  <1> QED BY <1>1, <1>2, <1>3, StoreInvariant, PTL DEF Spec, KeepsCustody, Kept!Spec
=============================================================================

---------------------------- MODULE JobQueueProofs ----------------------------
(***************************************************************************)
(* Proofs, for every value of the constants, of the safety properties of   *)
(* JobQueue.  IInv is inductive; each lemma below shows that a step keeps  *)
(* one part of it, and the theorems at the end conclude.                   *)
(***************************************************************************)
EXTENDS JobQueue, TLAPS

-----------------------------------------------------------------------------
(* What the record helpers return *)

\* A new row is a row.
LEMMA NewRowType ==
    ASSUME NEW k \in Keys, NEW e \in Nat, NEW s \in States, NEW m \in Nat
    PROVE  NewRow(k, e, s, m) \in Row
  BY BoundsAssumption DEF NewRow, Row

\* So is a pruned or never used identity.
LEMMA EmptyRowType == NewRow(RebuildKey, 0, "absent", 0) \in Row
  BY KeysAssumption, NewRowType DEF States

\* The updates of a row's columns keep it a row.
LEMMA RowEdit ==
    ASSUME NEW r \in Row
    PROVE  /\ \A s \in States : [r EXCEPT !.state = s] \in Row
           /\ \A b \in BOOLEAN : [r EXCEPT !.expired = b] \in Row
           /\ \A s \in States :
                 [r EXCEPT !.state = s, !.lease = NoLease, !.expired = FALSE] \in Row
           /\ \A n \in 0..MaxAttempts : [r EXCEPT !.attempts = n] \in Row
           /\ \A l \in Leases, n \in 0..MaxAttempts :
                 [r EXCEPT !.state = "running", !.lease = l,
                           !.expired = FALSE, !.attempts = n] \in Row
  <1>1. ASSUME NEW s \in States PROVE [r EXCEPT !.state = s] \in Row
    BY DEF Row
  <1>2. ASSUME NEW b \in BOOLEAN PROVE [r EXCEPT !.expired = b] \in Row
    BY DEF Row
  <1>3. ASSUME NEW s \in States
        PROVE  [r EXCEPT !.state = s, !.lease = NoLease, !.expired = FALSE] \in Row
    BY DEF Row
  <1>4. ASSUME NEW n \in 0..MaxAttempts PROVE [r EXCEPT !.attempts = n] \in Row
    BY DEF Row
  <1>5. ASSUME NEW l \in Leases, NEW n \in 0..MaxAttempts
        PROVE  [r EXCEPT !.state = "running", !.lease = l,
                         !.expired = FALSE, !.attempts = n] \in Row
    BY DEF Row, States
  <1> QED BY <1>1, <1>2, <1>3, <1>4, <1>5, Zenon

\* The updates of what a worker does keep it a Run.
LEMMA RunEdit ==
    ASSUME NEW r \in Run
    PROVE  /\ \A p \in PCs : [r EXCEPT !.pc = p] \in Run
           /\ \A p \in PCs, n \in Nat : [r EXCEPT !.pc = p, !.read = n] \in Run
           /\ \A p \in PCs, b \in BOOLEAN : [r EXCEPT !.pc = p, !.twin = b] \in Run
           /\ [r EXCEPT !.twin = TRUE] \in Run
           /\ [r EXCEPT !.lost = TRUE] \in Run
           /\ \A q \in Rels : [r EXCEPT !.rel = q] \in Run
           /\ [r EXCEPT !.lost = TRUE, !.rel = "due"] \in Run
  <1>1. ASSUME NEW p \in PCs PROVE [r EXCEPT !.pc = p] \in Run
    BY DEF Run
  <1>2. ASSUME NEW p \in PCs, NEW n \in Nat PROVE [r EXCEPT !.pc = p, !.read = n] \in Run
    BY DEF Run
  <1>3. ASSUME NEW p \in PCs, NEW b \in BOOLEAN PROVE [r EXCEPT !.pc = p, !.twin = b] \in Run
    BY DEF Run
  <1>4. [r EXCEPT !.twin = TRUE] \in Run /\ [r EXCEPT !.lost = TRUE] \in Run
    BY DEF Run
  <1>5. ASSUME NEW q \in Rels PROVE [r EXCEPT !.rel = q] \in Run
    BY DEF Run
  <1>6. [r EXCEPT !.lost = TRUE, !.rel = "due"] \in Run
    BY DEF Run, Rels
  <1> QED BY <1>1, <1>2, <1>3, <1>4, <1>5, <1>6, Zenon

\* The updates of the Library row keep it one.
LEMMA LibEdit ==
    ASSUME NEW r \in Library
    PROVE  /\ [r EXCEPT !.maintenance = FALSE] \in Library
           /\ \A n \in Nat : [r EXCEPT !.maintenance = TRUE, !.restores = n] \in Library
           /\ \A n \in Nat : [r EXCEPT !.maintenance = FALSE, !.epoch = n] \in Library
  <1>1. [r EXCEPT !.maintenance = FALSE] \in Library
    BY DEF Library
  <1>2. ASSUME NEW n \in Nat PROVE [r EXCEPT !.maintenance = TRUE, !.restores = n] \in Library
    BY DEF Library
  <1>3. ASSUME NEW n \in Nat PROVE [r EXCEPT !.maintenance = FALSE, !.epoch = n] \in Library
    BY DEF Library
  <1> QED BY <1>1, <1>2, <1>3, Zenon

\* A settled row is a row.
LEMMA SettleType ==
    ASSUME TypeOK, NEW j \in Jobs, NEW s \in States
    PROVE  Settle(j, s) \in Row
  BY RowEdit, Zenon DEF Settle, TypeOK

\* Settling a row changes its state and clears its lease.
LEMMA SettleFields ==
    ASSUME TypeOK, NEW j \in Jobs, NEW s
    PROVE  /\ Settle(j, s).state = s
           /\ Settle(j, s).key = job[j].key
           /\ Settle(j, s).epoch = job[j].epoch
           /\ Settle(j, s).attempts = job[j].attempts
           /\ Settle(j, s).lease = NoLease
  BY DEF Settle, TypeOK, Row

\* A worker with nothing to do is typed.
LEMMA IdleRunType == IdleRun \in Run
  BY DEF IdleRun, Run, PCs, Rels

\* A worker whose handler ended is typed.
LEMMA FinishedType ==
    ASSUME TypeOK, NEW w \in Workers
    PROVE  Finished(w) \in Run
  <1>1. "idle" \in PCs
    BY Zenon DEF PCs
  <1>2. [run[w] EXCEPT !.pc = "idle"] \in Run
    BY <1>1, RunEdit, Zenon DEF TypeOK
  <1> QED BY <1>2, IdleRunType DEF Finished

\* So is a row R4 passes over or cancels.
LEMMA SupersedeType ==
    ASSUME TypeOK, NEW j \in Jobs
    PROVE  Supersede(j) \in Row
  BY SettleType DEF Supersede, States, Settled, TypeOK

-----------------------------------------------------------------------------
(* Types *)

\* Every step keeps the types; a claim and a release keep attempts in range.
LEMMA TypeStep ==
    ASSUME TypeOK, RunsName, PickedKept, RunningCounted, [Next]_vars
    PROVE  TypeOK'
<1>1. ASSUME NEW k \in Keys, InsertJob(k) PROVE TypeOK'
  <2>1. NewRow(k, lib.epoch, "inserting", canonical[k] + 1) \in Row
    BY NewRowType DEF TypeOK, States, Library
  <2> QED BY <1>1, <2>1 DEF InsertJob, TypeOK
<1>2. ASSUME NEW k \in Keys, DedupeHit(k) PROVE TypeOK'
  BY <1>2 DEF DedupeHit, TypeOK
<1>3. ASSUME NEW k \in Keys, CommitChange(k) PROVE TypeOK'
  <2>1. \A j \in Jobs : [job[j] EXCEPT !.state = "queued"] \in Row
    BY RowEdit, Zenon DEF TypeOK, States
  <2>2. job' \in [Jobs -> Row]
    BY <1>3, <2>1 DEF CommitChange, TypeOK
  <2> QED BY <1>3, <2>2 DEF CommitChange, TypeOK
<1>4. ASSUME NEW k \in Keys, RollbackChange(k) PROVE TypeOK'
  <2>1. \A j \in Jobs : [job[j] EXCEPT !.state = "absent"] \in Row
    BY RowEdit, Zenon DEF TypeOK, States
  <2>2. job' \in [Jobs -> Row]
    BY <1>4, <2>1 DEF RollbackChange, TypeOK
  <2> QED BY <1>4, <2>2 DEF RollbackChange, TypeOK
<1>5. ASSUME NEW k \in Keys, Tick(k) PROVE TypeOK'
  <2>1. NewRow(k, lib.epoch, "queued", canonical[k]) \in Row
    BY NewRowType DEF TypeOK, States, Library
  <2> QED BY <1>5, <2>1 DEF Tick, TypeOK
<1>6. ASSUME NEW w \in Workers, NEW j \in Jobs, ClaimPick(w, j) PROVE TypeOK'
  <2>1. [IdleRun EXCEPT !.pc = "pick", !.job = j] \in Run
    BY DEF IdleRun, Run, PCs, Rels
  <2> QED BY <1>6, <2>1 DEF ClaimPick, TypeOK
<1>7. ASSUME NEW w \in Workers, ClaimTake(w) PROVE TypeOK'
  <2> DEFINE j == run[w].job
             n == job[j].attempts + 1
  <2>1. j \in Jobs /\ n \in 0..MaxAttempts /\ job[j] \in Row
    BY <1>7, BoundsAssumption DEF ClaimTake, RunsName, PickedKept, TypeOK, Row
  <2>2. PICK l \in FreshLeases(j) :
          /\ job' = [job EXCEPT ![j] = [job[j] EXCEPT
                        !.state = "running", !.lease = l, !.expired = FALSE, !.attempts = n]]
          /\ run' = [run EXCEPT ![w] = [IdleRun EXCEPT !.pc = "run", !.job = j, !.lease = l]]
    BY <1>7, Zenon DEF ClaimTake
  <2>3. l \in Leases
    BY DEF FreshLeases
  <2>4. [job[j] EXCEPT !.state = "running", !.lease = l, !.expired = FALSE, !.attempts = n] \in Row
    BY <2>1, <2>3, RowEdit, Zenon DEF States
  <2>5. job' \in [Jobs -> Row]
    BY <2>2, <2>4 DEF TypeOK
  <2>6. [IdleRun EXCEPT !.pc = "run", !.job = j, !.lease = l] \in Run
    BY <2>1, <2>3 DEF IdleRun, Run, PCs, Rels
  <2> QED BY <1>7, <2>2, <2>5, <2>6 DEF ClaimTake, TypeOK
<1>8. ASSUME NEW w \in Workers, ClaimLostRace(w) PROVE TypeOK'
  BY <1>8, IdleRunType DEF ClaimLostRace, TypeOK
<1>9. ASSUME NEW w \in Workers, BeginTx(w) PROVE TypeOK'
  <2>1. canonical[job[run[w].job].key] \in Nat
    BY <1>9, Zenon DEF TypeOK, BeginTx, RunsName, Row
  <2>2. [run[w] EXCEPT !.pc = "tx", !.read = canonical[job[run[w].job].key]] \in Run
    BY <2>1, RunEdit, Zenon DEF TypeOK, PCs
  <2> QED BY <1>9, <2>2 DEF BeginTx, TypeOK
<1>10. ASSUME NEW w \in Workers, BeginRefused(w) PROVE TypeOK'
  <2>1. [run[w] EXCEPT !.pc = "raised"] \in Run
    BY RunEdit, Zenon DEF TypeOK, PCs
  <2> QED BY <1>10, <2>1, FinishedType DEF BeginRefused, TypeOK
<1>11. ASSUME NEW w \in Workers, CommitTx(w) PROVE TypeOK'
  <2>1. [run[w] EXCEPT !.pc = "done", !.read = 0] \in Run
    BY RunEdit DEF TypeOK, PCs
  <2>2. run[w].read \in Nat
    BY DEF TypeOK, Run
  <2>3. job[run[w].job].key \in Keys
    BY <1>11 DEF CommitTx, RunsName, TypeOK, Row
  <2> QED BY <1>11, <2>1, <2>2, <2>3, Zenon DEF CommitTx, TypeOK
<1>12. ASSUME NEW w \in Workers, Complete(w) PROVE TypeOK'
  <2>1. run[w].job \in Jobs
    BY <1>12 DEF Complete, RunsName
  <2>2. Settle(run[w].job, "succeeded") \in Row
    BY <2>1, SettleType DEF States, Settled
  <2> QED BY <1>12, <2>2, FinishedType, Zenon DEF Complete, TypeOK
<1>13. ASSUME NEW w \in Workers, FailRead(w) PROVE TypeOK'
  <2> DEFINE t == QueuedTwins(run[w].job) # {}
  <2>1. [run[w] EXCEPT !.pc = "failing", !.twin = t] \in Run
    BY RunEdit, Zenon DEF TypeOK, PCs
  <2>2. run' = [run EXCEPT ![w] = IF run[w].lost \/ ~Holds(w) THEN Finished(w)
                                  ELSE [run[w] EXCEPT !.pc = "failing", !.twin = t]]
    BY <1>13 DEF FailRead, TypeOK
  <2> QED BY <1>13, <2>1, <2>2, FinishedType DEF FailRead, TypeOK
<1>14. ASSUME NEW w \in Workers, FailApply(w) PROVE TypeOK'
  <2> DEFINE j == run[w].job
             s == FailState(j, run[w].twin)
  <2>1. j \in Jobs
    BY <1>14 DEF FailApply, RunsName
  <2>2. s \in States
    BY DEF FailState, States, Settled
  <2>3. Settle(j, s) \in Row
    BY <2>1, <2>2, SettleType, Zenon
  <2>4. [run[w] EXCEPT !.twin = TRUE] \in Run
    BY RunEdit, Zenon DEF TypeOK, PCs
  <2>5. job' \in [Jobs -> Row]
    BY <1>14, <2>3 DEF FailApply, TypeOK
  <2>6. run' \in [Workers -> Run]
    BY <1>14, <2>4, FinishedType DEF FailApply, TypeOK
  <2> QED BY <1>14, <2>5, <2>6 DEF FailApply, TypeOK
<1>15. ASSUME NEW w \in Workers, Heartbeat(w) PROVE TypeOK'
  <2>1. run[w].job \in Jobs /\ [run[w] EXCEPT !.lost = TRUE] \in Run
    BY <1>15, RunEdit, Zenon DEF Heartbeat, RunsName, TypeOK, PCs, Rels
  <2>2. [job[run[w].job] EXCEPT !.expired = FALSE] \in Row
    BY <2>1, RowEdit, Zenon DEF TypeOK
  <2> QED BY <1>15, <2>1, <2>2 DEF Heartbeat, TypeOK
<1>16. ASSUME NEW w \in Workers, ReleaseRead(w) PROVE TypeOK'
  <2>1. /\ [run[w] EXCEPT !.rel = "twin"] \in Run
        /\ [run[w] EXCEPT !.rel = "single"] \in Run
    BY RunEdit, Zenon DEF TypeOK, Rels
  <2> QED BY <1>16, <2>1, Zenon DEF ReleaseRead, TypeOK
<1>17. ASSUME NEW w \in Workers, ReleaseApply(w) PROVE TypeOK'
  <2> DEFINE j == run[w].job
  <2>1. j \in Jobs
    BY <1>17 DEF ReleaseApply, RunsName
  <2>2. Settle(j, "cancelled") \in Row /\ Settle(j, "queued") \in Row
    BY <2>1, SettleType DEF States, Settled
  <2>3. ASSUME Holds(w) PROVE [Settle(j, "queued") EXCEPT !.attempts = @ - 1] \in Row
    <3>1. job[j] \in Row /\ job[j].attempts > 0
      BY <2>1, <2>3 DEF Holds, RunningCounted, InState, TypeOK
    <3>2. Settle(j, "queued").attempts = job[j].attempts
      BY <3>1 DEF Settle, Row
    <3>3. job[j].attempts - 1 \in 0..MaxAttempts
      BY <3>1, BoundsAssumption DEF Row
    <3> QED BY <2>2, <3>2, <3>3, RowEdit, BoundsAssumption, Zenon DEF Row
  <2>4. /\ [run[w] EXCEPT !.rel = "gone"] \in Run
        /\ [run[w] EXCEPT !.rel = "due"] \in Run
    BY RunEdit, Zenon DEF TypeOK, Rels
  <2>5. job' \in [Jobs -> Row]
    BY <1>17, <2>2, <2>3 DEF ReleaseApply, TypeOK
  <2>6. run' \in [Workers -> Run]
    BY <1>17, <2>4, Zenon DEF ReleaseApply, TypeOK
  <2> QED BY <1>17, <2>5, <2>6 DEF ReleaseApply, TypeOK
<1>18. ASSUME NEW w \in Workers, ReleaseFails(w) PROVE TypeOK'
  <2>1. [run[w] EXCEPT !.rel = "gone"] \in Run
    BY RunEdit, Zenon DEF TypeOK, Rels
  <2> QED BY <1>18, <2>1 DEF ReleaseFails, TypeOK
<1>19. ASSUME NEW w \in Workers, Restart(w) \/ Crash(w) PROVE TypeOK'
  BY <1>19, IdleRunType DEF Restart, Crash, Fault, TypeOK
<1>20. ASSUME NEW w \in Workers, Raise(w) PROVE TypeOK'
  <2>1. [run[w] EXCEPT !.pc = "raised", !.read = 0] \in Run
    BY RunEdit DEF TypeOK, PCs
  <2> QED BY <1>20, <2>1 DEF Raise, Fault, TypeOK
<1>21. ASSUME NEW w \in Workers, Abandon(w) PROVE TypeOK'
  <2>1. [run[w] EXCEPT !.lost = TRUE, !.rel = "due"] \in Run
    BY RunEdit, Zenon DEF TypeOK, PCs
  <2> QED BY <1>21, <2>1 DEF Abandon, Fault, TypeOK
<1>22. ASSUME NEW j \in Jobs, LeaseStalls(j) \/ LeaseExpires(j) PROVE TypeOK'
  <2>1. [job[j] EXCEPT !.expired = TRUE] \in Row
    BY RowEdit, Zenon DEF TypeOK
  <2>2. job' \in [Jobs -> Row]
    BY <1>22, <2>1 DEF LeaseStalls, LeaseExpires, TypeOK
  <2>3. faults' \in Nat
    BY <1>22 DEF LeaseStalls, LeaseExpires, Fault, TypeOK
  <2> QED BY <1>22, <2>2, <2>3 DEF LeaseStalls, LeaseExpires, TypeOK
<1>23. ASSUME NEW j \in Jobs, Reap(j) PROVE TypeOK'
  <2>1. Settle(j, "cancelled") \in Row /\ Settle(j, "failed") \in Row
    BY SettleType DEF States, Settled
  <2> QED BY <1>23, <2>1 DEF Reap, TypeOK
<1>24. ASSUME NEW j \in Jobs, Prune(j) PROVE TypeOK'
  BY <1>24, EmptyRowType DEF Prune, TypeOK
<1>25. CASE EnterMaintenance \/ AbortRestore
  <2>0. lib.restores + 1 \in Nat
    BY DEF TypeOK, Library
  <2>1. lib' \in Library
    BY <1>25, <2>0, LibEdit, Zenon DEF EnterMaintenance, AbortRestore, TypeOK
  <2> QED BY <1>25, <2>1 DEF EnterMaintenance, AbortRestore, TypeOK
<1>26. CASE CommitRestore
  <2>0. lib.epoch + 1 \in Nat
    BY DEF TypeOK, Library
  <2>1. lib' \in Library
    BY <1>26, <2>0, LibEdit, Zenon DEF CommitRestore, TypeOK
  <2>2. NewRow(RebuildKey, lib.epoch + 1, "queued", 1) \in Row
    BY NewRowType, KeysAssumption DEF States, TypeOK, Library
  <2>3. job' \in [Jobs -> Row]
    BY <1>26, <2>2, SupersedeType DEF CommitRestore, TypeOK
  <2> QED BY <1>26, <2>1, <2>3 DEF CommitRestore, TypeOK
<1>27. CASE UNCHANGED vars
  BY <1>27, Zenon DEF vars, TypeOK
<1> QED
  BY <1>1, <1>2, <1>3, <1>4, <1>5, <1>6, <1>7, <1>8, <1>9, <1>10, <1>11, <1>12, <1>13,
     <1>14, <1>15, <1>16, <1>17, <1>18, <1>19, <1>20, <1>21, <1>22, <1>23, <1>24, <1>25,
     <1>26, <1>27
  DEF Next, ClaimStep, RunStep, StopStep, FaultStep

-----------------------------------------------------------------------------
(* Row locks *)

\* No step but the claim's own update changes a locked row's state, key,
\* epoch, attempts or lease: every other statement waits for the lock.
LEMMA LockedRowKept ==
    ASSUME TypeOK, RunsName, PickedKept, OneLocker, FencedTx, [Next]_vars,
           NEW w \in Workers, run[w].pc \in {"pick", "tx"}, ~ClaimTake(w),
           NEW j \in Jobs, run[w].job = j
    PROVE  /\ job'[j].state = job[j].state /\ job'[j].key = job[j].key
           /\ job'[j].epoch = job[j].epoch /\ job'[j].attempts = job[j].attempts
           /\ job'[j].lease = job[j].lease
<1> DEFINE Kept == /\ job'[j].state = job[j].state /\ job'[j].key = job[j].key
                   /\ job'[j].epoch = job[j].epoch /\ job'[j].attempts = job[j].attempts
                   /\ job'[j].lease = job[j].lease
<1>1. job[j] \in Row /\ Locked(j) /\ job[j].state \in {"queued", "running"}
  BY DEF TypeOK, Locked, Lockers, PickedKept, FencedTx, Holds
<1>2. CASE UNCHANGED job
  BY <1>2
<1>3. ASSUME NEW k \in Keys, InsertJob(k) \/ Tick(k) PROVE Kept
  BY <1>1, <1>3 DEF InsertJob, Tick, InState, TypeOK
<1>4. ASSUME NEW k \in Keys, CommitChange(k) \/ RollbackChange(k) PROVE Kept
  BY <1>1, <1>4 DEF CommitChange, RollbackChange, TypeOK
<1>5. ASSUME NEW v \in Workers, ClaimTake(v) PROVE Kept
  <2>1. run[v].job # j
    BY <1>5, Zenon DEF ClaimTake, OneLocker
  <2> QED BY <1>5, <2>1, Zenon DEF ClaimTake, TypeOK
<1>6. ASSUME NEW v \in Workers, Heartbeat(v) \/ Complete(v) \/ FailApply(v) \/ ReleaseApply(v)
      PROVE  Kept
  <2>1. CASE run[v].job = j
    BY <1>1, <1>6, <2>1 DEF Heartbeat, Complete, FailApply, ReleaseApply
  <2>2. CASE run[v].job # j
    BY <1>6, <2>2 DEF Heartbeat, Complete, FailApply, ReleaseApply, TypeOK
  <2> QED BY <2>1, <2>2
<1>7. ASSUME NEW i \in Jobs, LeaseStalls(i) \/ LeaseExpires(i) PROVE Kept
  BY <1>1, <1>7 DEF LeaseStalls, LeaseExpires, TypeOK, Row
<1>8. ASSUME NEW i \in Jobs, Reap(i) \/ Prune(i) PROVE Kept
  BY <1>1, <1>8 DEF Reap, Prune, TypeOK
<1>9. CASE CommitRestore
  BY <1>1, <1>9 DEF CommitRestore, Drained, Supersede, InState, TypeOK
<1> QED
  BY <1>2, <1>3, <1>4, <1>5, <1>6, <1>7, <1>8, <1>9, Zenon
  DEF Next, ClaimStep, RunStep, StopStep, FaultStep, vars, DedupeHit, ClaimPick, ClaimLostRace,
      BeginTx, BeginRefused, CommitTx, FailRead, ReleaseRead, ReleaseFails, Restart, Raise,
      Abandon, Crash, EnterMaintenance, AbortRestore

\* A worker locks a row by a claim or by a fenced transaction, or keeps it.
LEMMA NewLockers ==
    ASSUME TypeOK, [Next]_vars, NEW w \in Workers, run'[w].pc \in {"pick", "tx"}
    PROVE  \/ /\ run'[w].pc = run[w].pc /\ run'[w].job = run[w].job
              /\ run'[w].lease = run[w].lease /\ run'[w].read = run[w].read
           \/ \E j \in Jobs : ClaimPick(w, j)
           \/ BeginTx(w)
<1> DEFINE Kept == /\ run'[w].pc = run[w].pc /\ run'[w].job = run[w].job
                   /\ run'[w].lease = run[w].lease /\ run'[w].read = run[w].read
           Goal == Kept \/ (\E j \in Jobs : ClaimPick(w, j)) \/ BeginTx(w)
<1>0. run \in [Workers -> Run]
  BY DEF TypeOK
<1>1. CASE UNCHANGED run
  BY <1>1
<1>2. ASSUME NEW v \in Workers,
             BeginTx(v) \/ \E j \in Jobs : ClaimPick(v, j)
      PROVE  Goal
  <2>1. CASE v # w
    BY <1>0, <1>2, <2>1, Zenon DEF BeginTx, ClaimPick
  <2> QED BY <1>2, <2>1
<1>3. ASSUME NEW v \in Workers, ClaimTake(v) \/ ClaimLostRace(v) PROVE Goal
  <2>1. CASE ClaimTake(v)
    BY <1>0, <2>1 DEF ClaimTake, IdleRun
  <2>2. CASE ClaimLostRace(v)
    BY <1>0, <2>2 DEF ClaimLostRace, IdleRun
  <2> QED BY <1>3, <2>1, <2>2
<1>4. ASSUME NEW v \in Workers,
             BeginRefused(v) \/ CommitTx(v) \/ Complete(v) \/ FailRead(v) \/ FailApply(v)
      PROVE  Goal
  <2>1. CASE BeginRefused(v)
    BY <1>0, <2>1 DEF BeginRefused, Finished, IdleRun, Run
  <2>2. CASE CommitTx(v)
    BY <1>0, <2>2 DEF CommitTx, Run
  <2>3. CASE Complete(v)
    BY <1>0, <2>3 DEF Complete, Finished, IdleRun, Run
  <2>4. CASE FailRead(v)
    BY <1>0, <2>4 DEF FailRead, Finished, IdleRun, Run
  <2>5. CASE FailApply(v)
    BY <1>0, <2>5 DEF FailApply, Finished, IdleRun, Run
  <2> QED BY <1>4, <2>1, <2>2, <2>3, <2>4, <2>5
<1>5. ASSUME NEW v \in Workers, Heartbeat(v) \/ Raise(v) \/ Abandon(v) PROVE Goal
  BY <1>0, <1>5 DEF Heartbeat, Raise, Abandon, Run
<1>6. ASSUME NEW v \in Workers, ReleaseRead(v) \/ ReleaseApply(v) \/ ReleaseFails(v) PROVE Goal
  BY <1>0, <1>6 DEF ReleaseRead, ReleaseApply, ReleaseFails, Run
<1>7. ASSUME NEW v \in Workers, Restart(v) \/ Crash(v) PROVE Goal
  BY <1>0, <1>7 DEF Restart, Crash, IdleRun
<1> QED
  BY <1>1, <1>2, <1>3, <1>4, <1>5, <1>6, <1>7
  DEF Next, ClaimStep, RunStep, StopStep, FaultStep, vars, InsertJob, DedupeHit, CommitChange,
      RollbackChange, Tick, LeaseStalls, LeaseExpires, Reap, Prune, EnterMaintenance,
      AbortRestore, CommitRestore

\* Only R4 changes the epoch.
LEMMA EpochKept ==
    ASSUME TypeOK, [Next]_vars, ~CommitRestore
    PROVE  lib'.epoch = lib.epoch
<1>1. CASE UNCHANGED lib
  BY <1>1
<1>2. CASE EnterMaintenance \/ AbortRestore
  BY <1>2 DEF EnterMaintenance, AbortRestore, TypeOK, Library
<1> QED
  BY <1>1, <1>2, Zenon
  DEF Next, ClaimStep, RunStep, StopStep, FaultStep, vars, InsertJob, DedupeHit, CommitChange,
      RollbackChange, Tick, ClaimPick, ClaimTake, ClaimLostRace, BeginTx, BeginRefused, CommitTx,
      Complete, FailRead, FailApply, Heartbeat, ReleaseRead, ReleaseApply, ReleaseFails, Restart,
      Raise, Abandon, Crash, LeaseStalls, LeaseExpires, Reap, Prune

\* A claim and a fenced transaction keep the row they lock as they found it.
LEMMA LockStep ==
    ASSUME TypeOK, RunsName, PickedKept, OneLocker, FencedTx, [Next]_vars
    PROVE  PickedKept' /\ OneLocker' /\ FencedTx'
<1>1. PickedKept'
  <2> SUFFICES ASSUME NEW w \in Workers, run'[w].pc = "pick"
               PROVE  /\ job'[run'[w].job].state \in {"queued", "running"}
                      /\ job'[run'[w].job].attempts < MaxAttempts
    BY DEF PickedKept
  <2>1. CASE \E j \in Jobs : ClaimPick(w, j)
    BY <2>1 DEF ClaimPick, Claimable, IdleRun, TypeOK
  <2>2. CASE run'[w].pc = run[w].pc /\ run'[w].job = run[w].job
    <3>1. run[w].job \in Jobs /\ run[w].pc = "pick"
      BY <2>2 DEF RunsName
    <3>2. ~ClaimTake(w)
      BY Zenon DEF ClaimTake, IdleRun, TypeOK
    <3> QED BY <2>2, <3>1, <3>2, LockedRowKept DEF PickedKept
  <2>3. ~BeginTx(w)
    BY DEF BeginTx, TypeOK, Run
  <2> QED BY <2>1, <2>2, <2>3, NewLockers
<1>2. OneLocker'
  <2> SUFFICES ASSUME NEW v \in Workers, NEW w \in Workers,
                      run'[v].pc \in {"pick", "tx"}, run'[w].pc \in {"pick", "tx"},
                      run'[v].job = run'[w].job, v # w
               PROVE  FALSE
    BY DEF OneLocker
  <2> DEFINE Stays(u) == run'[u].pc = run[u].pc /\ run'[u].job = run[u].job
             Begins(u) == BeginTx(u) \/ \E j \in Jobs : ClaimPick(u, j)
  <2>1. \A u \in {v, w} : Stays(u) \/ Begins(u)
    BY NewLockers
  <2>2. ASSUME NEW u \in {v, w}, NEW x \in {v, w}, u # x, Begins(u)
        PROVE  Stays(x) /\ ~Locked(run'[u].job)
    <3>1. CASE BeginTx(u)
      BY <2>2, <3>1 DEF BeginTx, TypeOK, Run
    <3>2. ASSUME NEW j \in Jobs, ClaimPick(u, j)
          PROVE  Stays(x) /\ ~Locked(run'[u].job)
      BY <2>2, <3>2, Zenon DEF ClaimPick, IdleRun, TypeOK
    <3> QED BY <2>2, <3>1, <3>2
  <2>3. Stays(v) /\ Stays(w)
    BY <2>1, <2>2 DEF Locked, Lockers
  <2> QED BY <2>3 DEF OneLocker
<1>3. FencedTx'
  <2> SUFFICES ASSUME NEW w \in Workers, run'[w].pc = "tx"
               PROVE  Holds(w)' /\ ~Stale(run[w].job)' /\ run'[w].job = run[w].job
    BY DEF FencedTx
  <2>1. CASE BeginTx(w)
    BY <2>1 DEF BeginTx, Fenced, Holds, Stale, IsLibrary, TypeOK, Run
  <2>2. CASE /\ run'[w].pc = run[w].pc /\ run'[w].job = run[w].job
             /\ run'[w].lease = run[w].lease
    <3> DEFINE j == run[w].job
    <3>1. Holds(w) /\ ~Stale(j) /\ j \in Jobs /\ Locked(j)
      BY <2>2 DEF FencedTx, Holds, Locked, Lockers
    <3>2. ~ClaimTake(w)
      BY <2>2, Zenon DEF ClaimTake
    <3>3. Holds(w)'
      BY <2>2, <3>1, <3>2, LockedRowKept DEF Holds
    <3>4. CASE IsLibrary(j)
      <4>1. ~CommitRestore
        BY <3>1, <3>4 DEF CommitRestore, Drained
      <4>2. lib'.epoch = lib.epoch
        BY <4>1, EpochKept
      <4> QED BY <2>2, <3>1, <3>2, <3>3, <4>2, LockedRowKept DEF Stale, IsLibrary
    <3>5. CASE ~IsLibrary(j)
      BY <2>2, <3>1, <3>2, <3>3, <3>5, LockedRowKept DEF Stale, IsLibrary
    <3> QED BY <2>2, <3>3, <3>4, <3>5
  <2>3. ~ \E j \in Jobs : ClaimPick(w, j)
    BY Zenon DEF ClaimPick, IdleRun, TypeOK
  <2> QED BY <2>1, <2>2, <2>3, NewLockers
<1> QED BY <1>1, <1>2, <1>3

-----------------------------------------------------------------------------
(* Names and counts *)

\* A run keeps naming a row until it is idle with no release to make.
LEMMA NamesStep ==
    ASSUME TypeOK, RunsName, [Next]_vars
    PROVE  RunsName'
<1> DEFINE Named(w) == run'[w].pc # "idle" \/ run'[w].rel # "no" => run'[w].job \in Jobs
<1>0. run \in [Workers -> Run]
  BY DEF TypeOK
<1> SUFFICES ASSUME NEW w \in Workers PROVE Named(w)
  BY DEF RunsName
<1>1. CASE run'[w] = run[w]
  BY <1>1 DEF RunsName
<1>2. CASE run'[w].job = run[w].job /\ run[w].pc # "idle"
  BY <1>2 DEF RunsName
<1>3. CASE run'[w].job = run[w].job /\ run[w].rel # "no"
  BY <1>3 DEF RunsName
<1>4. CASE run'[w] = IdleRun
  BY <1>4 DEF IdleRun
<1>5. ASSUME NEW v \in Workers, NEW j \in Jobs, ClaimPick(v, j) PROVE Named(w)
  BY <1>0, <1>1, <1>5 DEF ClaimPick, IdleRun
<1>6. ASSUME NEW v \in Workers, ClaimTake(v) PROVE Named(w)
  BY <1>0, <1>1, <1>6 DEF ClaimTake, IdleRun, RunsName
<1>7. ASSUME NEW v \in Workers, BeginTx(v) PROVE Named(w)
  BY <1>0, <1>1, <1>2, <1>7 DEF BeginTx, Run
<1>8. ASSUME NEW v \in Workers, BeginRefused(v) PROVE Named(w)
  BY <1>0, <1>1, <1>2, <1>4, <1>8 DEF BeginRefused, Finished, Run
<1>9. ASSUME NEW v \in Workers, CommitTx(v) \/ Raise(v) PROVE Named(w)
  BY <1>0, <1>1, <1>2, <1>9 DEF CommitTx, Raise, Run
<1>10. ASSUME NEW v \in Workers, Complete(v) PROVE Named(w)
  BY <1>0, <1>1, <1>2, <1>4, <1>10 DEF Complete, Finished, Run
<1>11. ASSUME NEW v \in Workers, FailRead(v) PROVE Named(w)
  BY <1>0, <1>1, <1>2, <1>4, <1>11 DEF FailRead, Finished, Run
<1>12. ASSUME NEW v \in Workers, FailApply(v) PROVE Named(w)
  BY <1>0, <1>1, <1>2, <1>4, <1>12 DEF FailApply, Finished, Run
<1>13. ASSUME NEW v \in Workers, Heartbeat(v) PROVE Named(w)
  BY <1>0, <1>1, <1>2, <1>13 DEF Heartbeat, Run
<1>14. ASSUME NEW v \in Workers, Abandon(v) PROVE Named(w)
  BY <1>0, <1>1, <1>2, <1>14 DEF Abandon, Working, Run
<1>15. ASSUME NEW v \in Workers, ReleaseRead(v) PROVE Named(w)
  BY <1>0, <1>1, <1>3, <1>15 DEF ReleaseRead, Run
<1>16. ASSUME NEW v \in Workers, ReleaseApply(v) PROVE Named(w)
  BY <1>0, <1>1, <1>3, <1>16 DEF ReleaseApply, Run
<1>17. ASSUME NEW v \in Workers, ReleaseFails(v) PROVE Named(w)
  BY <1>0, <1>1, <1>3, <1>17 DEF ReleaseFails, Run
<1>18. ASSUME NEW v \in Workers, ClaimLostRace(v) \/ Restart(v) \/ Crash(v) PROVE Named(w)
  BY <1>0, <1>1, <1>4, <1>18 DEF ClaimLostRace, Restart, Crash
<1>19. CASE UNCHANGED run
  BY <1>1, <1>19, Zenon
<1> QED
  BY <1>5, <1>6, <1>7, <1>8, <1>9, <1>10, <1>11, <1>12, <1>13, <1>14, <1>15, <1>16, <1>17,
     <1>18, <1>19
  DEF Next, ClaimStep, RunStep, StopStep, FaultStep, vars, InsertJob, DedupeHit, CommitChange,
      RollbackChange, Tick, LeaseStalls, LeaseExpires, Reap, Prune, EnterMaintenance,
      AbortRestore, CommitRestore

\* A row becomes running only by a claim's update; while it stays running its
\* key, epoch and attempts stay.
LEMMA NewRunning ==
    ASSUME TypeOK, RunsName, [Next]_vars, NEW j \in Jobs, job'[j].state = "running"
    PROVE  \/ \E w \in Workers : ClaimTake(w) /\ run[w].job = j
           \/ /\ job[j].state = "running" /\ job'[j].key = job[j].key
              /\ job'[j].attempts = job[j].attempts
<1> DEFINE Kept == /\ job[j].state = "running" /\ job'[j].key = job[j].key
                   /\ job'[j].attempts = job[j].attempts
           Goal == Kept \/ \E w \in Workers : ClaimTake(w) /\ run[w].job = j
<1>0. job \in [Jobs -> Row]
  BY DEF TypeOK
<1>1. CASE UNCHANGED job
  BY <1>1
<1>2. ASSUME NEW k \in Keys, InsertJob(k) \/ Tick(k) PROVE Goal
  BY <1>0, <1>2 DEF InsertJob, Tick, InState, NewRow
<1>3. ASSUME NEW k \in Keys, CommitChange(k) PROVE Goal
  BY <1>0, <1>3 DEF CommitChange, Row
<1>4. ASSUME NEW k \in Keys, RollbackChange(k) PROVE Goal
  BY <1>0, <1>4 DEF RollbackChange, Row
<1>5. ASSUME NEW w \in Workers, ClaimTake(w) PROVE Goal
  BY <1>0, <1>5, Zenon DEF ClaimTake
<1>6. ASSUME NEW w \in Workers, Heartbeat(w) PROVE Goal
  BY <1>0, <1>6 DEF Heartbeat, Row
<1>7. ASSUME NEW w \in Workers, Complete(w) PROVE Goal
  BY <1>0, <1>7 DEF Complete, Settle, Row
<1>8. ASSUME NEW w \in Workers, FailApply(w) PROVE Goal
  <2> DEFINE i == run[w].job
             s == FailState(i, run[w].twin)
  <2>1. i \in Jobs /\ s # "running"
    BY <1>8 DEF FailApply, RunsName, FailState
  <2>2. Settle(i, s).state # "running"
    BY <2>1, SettleFields
  <2> QED BY <1>0, <1>8, <2>1, <2>2 DEF FailApply
<1>9. ASSUME NEW w \in Workers, ReleaseApply(w) PROVE Goal
  <2> DEFINE i == run[w].job
  <2>1. i \in Jobs
    BY <1>9 DEF ReleaseApply, RunsName
  <2>2. CASE job' = [job EXCEPT ![i] = Settle(i, "cancelled")]
    BY <1>0, <2>1, <2>2, SettleFields
  <2>3. CASE job' = [job EXCEPT ![i] = [Settle(i, "queued") EXCEPT !.attempts = @ - 1]]
    BY <1>0, <2>1, <2>3 DEF Settle
  <2>4. CASE UNCHANGED job
    BY <1>1, <2>4
  <2> QED BY <1>9, <2>2, <2>3, <2>4, Zenon DEF ReleaseApply
<1>10. ASSUME NEW i \in Jobs, LeaseStalls(i) \/ LeaseExpires(i) PROVE Goal
  BY <1>0, <1>10 DEF LeaseStalls, LeaseExpires, Row
<1>11. ASSUME NEW i \in Jobs, Reap(i) \/ Prune(i) PROVE Goal
  <2>1. CASE Reap(i)
    BY <1>0, <2>1, SettleFields DEF Reap
  <2>2. CASE Prune(i)
    BY <1>0, <2>2 DEF Prune, NewRow
  <2> QED BY <1>11, <2>1, <2>2
<1>12. CASE CommitRestore
  <2>1. PICK r \in InState("absent") :
          job' = [i \in Jobs |-> IF i = r THEN NewRow(RebuildKey, lib.epoch + 1, "queued", 1)
                                 ELSE Supersede(i)]
    BY <1>12 DEF CommitRestore
  <2>2. j # r /\ job'[j] = Supersede(j)
    BY <2>1 DEF NewRow
  <2>3. Supersede(j) = job[j]
    BY <2>2, SettleFields DEF Supersede
  <2> QED BY <2>2, <2>3
<1> QED
  BY <1>1, <1>2, <1>3, <1>4, <1>5, <1>6, <1>7, <1>8, <1>9, <1>10, <1>11, <1>12, Zenon
  DEF Next, ClaimStep, RunStep, StopStep, FaultStep, vars, DedupeHit, ClaimPick, ClaimLostRace,
      BeginTx, BeginRefused, CommitTx, FailRead, ReleaseRead, ReleaseFails, Restart, Raise,
      Abandon, Crash, EnterMaintenance, AbortRestore

\* A claim counts an attempt, and no later step of a running row takes it back.
LEMMA CountedStep ==
    ASSUME TypeOK, RunsName, RunningCounted, [Next]_vars
    PROVE  RunningCounted'
<1> SUFFICES ASSUME NEW j \in Jobs, job'[j].state = "running"
             PROVE  job'[j].attempts > 0
  BY DEF RunningCounted, InState
<1>1. ASSUME NEW w \in Workers, ClaimTake(w), run[w].job = j
      PROVE  job'[j].attempts > 0
  <2>1. job[j] \in Row
    BY DEF TypeOK
  <2>2. job'[j].attempts = job[j].attempts + 1
    BY <1>1, <2>1 DEF ClaimTake, TypeOK, Row
  <2> QED BY <2>1, <2>2, BoundsAssumption DEF Row
<1>2. CASE job[j].state = "running" /\ job'[j].attempts = job[j].attempts
  BY <1>2 DEF RunningCounted, InState
<1> QED BY <1>1, <1>2, NewRunning

-----------------------------------------------------------------------------
(* Exclusion *)

\* A claim's update finds no running row of its singleton_key.
LEMMA ApartStep ==
    ASSUME TypeOK, RunsName, RunningApart, [Next]_vars
    PROVE  RunningApart'
<1> SUFFICES ASSUME NEW i \in Jobs, NEW j \in Jobs, i # j,
                    job'[i].state = "running", job'[j].state = "running"
             PROVE  ~SameSingleton(job'[i].key, job'[j].key)
  BY DEF RunningApart, InState
<1> DEFINE Stays(r) == job[r].state = "running" /\ job'[r].key = job[r].key
           Taken(r) == \E w \in Workers : ClaimTake(w) /\ run[w].job = r
<1>1. \A r \in {i, j} : Stays(r) \/ Taken(r)
  BY NewRunning
<1>2. ASSUME NEW r \in {i, j}, NEW s \in {i, j}, r # s, Taken(r)
      PROVE  Stays(s) /\ ~SameSingleton(job'[s].key, job'[r].key)
  <2>1. PICK w \in Workers : ClaimTake(w) /\ run[w].job = r
    BY <1>2
  <2>2. RunningPeers(r) = {} /\ job'[s] = job[s] /\ job'[r].key = job[r].key
    BY <1>2, <2>1 DEF ClaimTake, TypeOK, Row
  <2> QED BY <1>2, <2>2 DEF RunningPeers
<1>3. CASE Stays(i) /\ Stays(j)
  BY <1>3 DEF RunningApart, InState
<1> QED BY <1>1, <1>2, <1>3 DEF SameSingleton

\* A transaction begins only when its subject is free: by the advisory lock,
\* or because the rows of its singleton_key are not running.
LEMMA ExclusiveStep ==
    ASSUME TypeOK, RunsName, PickedKept, OneLocker, FencedTx, RunningApart, ExclusiveTx,
           [Next]_vars
    PROVE  ExclusiveTx'
<1> DEFINE Key(u) == job[run[u].job].key
           Apart(u, x) == Key(u) # Key(x) /\ ~SameSingleton(Key(u), Key(x))
<1>1. SUFFICES ASSUME NEW v \in Workers, NEW w \in Workers, v # w,
                      run'[v].pc = "tx", run'[w].pc = "tx"
               PROVE  Apart(v, w)'
  BY DEF ExclusiveTx
<1> DEFINE Stays(u) == run[u].pc = "tx" /\ run'[u].job = run[u].job
<1>2. \A u \in {v, w} : Stays(u) \/ BeginTx(u)
  <2>1. \A u \in {v, w} : ~ \E j \in Jobs : ClaimPick(u, j)
    BY <1>1, Zenon DEF ClaimPick, IdleRun, TypeOK
  <2> QED BY <1>1, <2>1, NewLockers
<1>3. ASSUME NEW u \in {v, w}, NEW x \in {v, w}, u # x, BeginTx(u)
      PROVE  Apart(u, x)'
  <2>1. Stays(x) /\ run'[u].job = run[u].job /\ UNCHANGED job
    BY <1>2, <1>3 DEF BeginTx, TypeOK, Run
  <2>2. Holds(u) /\ Holds(x) /\ run[u].job # run[x].job
    BY <1>3, <2>1 DEF BeginTx, Fenced, FencedTx, Locked, Lockers
  <2>3. ~SameSingleton(Key(u), Key(x))
    BY <2>2 DEF RunningApart, InState, Holds
  <2>4. CASE Key(u) = Key(x)
    <3>1. Key(u) \notin UNION SingletonGroups
      BY <2>3, <2>4 DEF SameSingleton
    <3> QED BY <1>3, <2>1, <2>4, <3>1 DEF BeginTx, SubjectFree
  <2> QED BY <2>1, <2>3, <2>4
<1>4. CASE Stays(v) /\ Stays(w)
  <2>1. ASSUME NEW u \in {v, w} PROVE Key(u)' = Key(u)
    <3>1. run[u].job \in Jobs /\ ~ClaimTake(u)
      BY <1>4, Zenon DEF RunsName, ClaimTake
    <3> QED BY <1>4, <3>1, LockedRowKept, Zenon
  <2> QED BY <1>1, <1>4, <2>1 DEF ExclusiveTx
<1>5. Apart(w, v)' => Apart(v, w)'
  BY Zenon DEF SameSingleton
<1> QED BY <1>1, <1>2, <1>3, <1>4, <1>5

-----------------------------------------------------------------------------
(* Queued rows *)

\* While a row is uncommitted its command is open, so R4 waits for it.
LEMMA InsertingStep ==
    ASSUME TypeOK, RunsName, InsertingOpen, [Next]_vars
    PROVE  InsertingOpen'
<1> DEFINE Open(j) == cmd[job[j].key] = "inserted" /\ job[j].attempts = 0 /\ ~Stale(j)
<1> SUFFICES ASSUME NEW j \in Jobs, job'[j].state = "inserting"
             PROVE  Open(j)'
  BY DEF InsertingOpen, InState
<1>0. job \in [Jobs -> Row] /\ cmd \in [Keys -> {"none", "inserted", "coalesced"}]
  BY DEF TypeOK
<1> DEFINE Same == job[j].state = "inserting" /\ job'[j] = job[j]
<1>1. CASE Same /\ UNCHANGED <<lib, cmd>>
  BY <1>1 DEF InsertingOpen, InState, Stale, IsLibrary
<1>2. ASSUME NEW k \in Keys, InsertJob(k) PROVE Open(j)'
  <2>1. CASE job'[j] = job[j]
    BY <1>0, <1>2, <2>1 DEF InsertJob, InsertingOpen, InState, Stale, IsLibrary, Row
  <2>2. CASE job'[j] = NewRow(k, lib.epoch, "inserting", canonical[k] + 1)
    BY <1>0, <1>2, <2>2 DEF InsertJob, NewRow, Stale, IsLibrary
  <2> QED BY <1>0, <1>2, <2>1, <2>2 DEF InsertJob
<1>3. ASSUME NEW k \in Keys, DedupeHit(k) PROVE Open(j)'
  BY <1>0, <1>3 DEF DedupeHit, InsertingOpen, InState, Stale, IsLibrary, Row
<1>4. ASSUME NEW k \in Keys, CommitChange(k) PROVE Open(j)'
  <2>1. Same /\ job[j].key # k
    BY <1>0, <1>4 DEF CommitChange, Row
  <2> QED BY <1>0, <1>4, <2>1 DEF CommitChange, InsertingOpen, InState, Stale, IsLibrary, Row
<1>5. ASSUME NEW k \in Keys, RollbackChange(k) PROVE Open(j)'
  <2>1. Same /\ job[j].key # k
    BY <1>0, <1>5 DEF RollbackChange, Row
  <2> QED BY <1>0, <1>5, <2>1 DEF RollbackChange, InsertingOpen, InState, Stale, IsLibrary, Row
<1>6. ASSUME NEW k \in Keys, Tick(k) PROVE Open(j)'
  BY <1>0, <1>1, <1>6 DEF Tick, NewRow
<1>7. ASSUME NEW w \in Workers, ClaimTake(w) PROVE Open(j)'
  BY <1>0, <1>1, <1>7 DEF ClaimTake, Row
<1>8. ASSUME NEW w \in Workers, Heartbeat(w) PROVE Open(j)'
  BY <1>0, <1>1, <1>8 DEF Heartbeat, Holds, Row
<1>9. ASSUME NEW w \in Workers, Complete(w) PROVE Open(j)'
  BY <1>0, <1>1, <1>9, SettleFields DEF Complete, RunsName
<1>10. ASSUME NEW w \in Workers, FailApply(w) PROVE Open(j)'
  <2> DEFINE i == run[w].job
             s == FailState(i, run[w].twin)
  <2>1. i \in Jobs /\ s # "inserting"
    BY <1>10 DEF FailApply, RunsName, FailState
  <2>2. Settle(i, s).state # "inserting"
    BY <2>1, SettleFields
  <2> QED BY <1>0, <1>1, <1>10, <2>1, <2>2 DEF FailApply
<1>11. ASSUME NEW w \in Workers, ReleaseApply(w) PROVE Open(j)'
  <2> DEFINE i == run[w].job
             back == [Settle(i, "queued") EXCEPT !.attempts = @ - 1]
  <2>1. i \in Jobs
    BY <1>11 DEF ReleaseApply, RunsName
  <2>2. Settle(i, "cancelled").state # "inserting" /\ back.state # "inserting"
    BY <1>0, <2>1, SettleFields DEF Settle, Row
  <2> QED BY <1>0, <1>1, <1>11, <2>1, <2>2 DEF ReleaseApply
<1>12. ASSUME NEW i \in Jobs, LeaseStalls(i) \/ LeaseExpires(i) PROVE Open(j)'
  BY <1>0, <1>1, <1>12 DEF LeaseStalls, LeaseExpires, Row
<1>13. ASSUME NEW i \in Jobs, Reap(i) PROVE Open(j)'
  BY <1>0, <1>1, <1>13, SettleFields DEF Reap
<1>14. ASSUME NEW i \in Jobs, Prune(i) PROVE Open(j)'
  BY <1>0, <1>1, <1>14 DEF Prune, NewRow
<1>15. CASE EnterMaintenance \/ AbortRestore
  <2>1. lib'.epoch = lib.epoch
    BY <1>15 DEF EnterMaintenance, AbortRestore, TypeOK, Library
  <2> QED BY <1>15, <2>1
      DEF EnterMaintenance, AbortRestore, InsertingOpen, InState, Stale, IsLibrary
<1>16. CASE CommitRestore
  <2>1. PICK r \in InState("absent") :
          job' = [i \in Jobs |-> IF i = r THEN NewRow(RebuildKey, lib.epoch + 1, "queued", 1)
                                 ELSE Supersede(i)]
    BY <1>16 DEF CommitRestore
  <2>2. j # r /\ job'[j] = Supersede(j)
    BY <2>1 DEF NewRow
  <2>3. Same
    BY <2>2, SettleFields DEF Supersede
  <2>4. cmd[job[j].key] = "inserted" /\ job[j].attempts = 0
    BY <2>3 DEF InsertingOpen, InState
  <2>5. job[j].key \notin LibraryKeys
    BY <1>16, <2>4 DEF CommitRestore, Drained, LibraryRowFree
  <2> QED BY <1>16, <2>3, <2>4, <2>5 DEF CommitRestore, Stale, IsLibrary
<1>17. CASE UNCHANGED <<job, lib, cmd>>
  BY <1>1, <1>17
<1> QED
  BY Zenon, <1>2, <1>3, <1>4, <1>5, <1>6, <1>7, <1>8, <1>9, <1>10, <1>11, <1>12, <1>13, <1>14, <1>15,
     <1>16, <1>17
  DEF Next, ClaimStep, RunStep, StopStep, FaultStep, vars, ClaimPick, ClaimLostRace, BeginTx,
      BeginRefused, CommitTx, FailRead, ReleaseRead, ReleaseFails, Restart, Raise, Abandon, Crash

\* Whoever queues a row leaves it an attempt and the current epoch.
LEMMA QueuedStep ==
    ASSUME TypeOK, RunsName, RunningCounted, InsertingOpen, QueuedRunnable, [Next]_vars
    PROVE  QueuedRunnable'
<1> DEFINE Runnable(j) == job[j].attempts < MaxAttempts /\ ~Stale(j)
<1> SUFFICES ASSUME NEW j \in Jobs, job'[j].state = "queued"
             PROVE  Runnable(j)'
  BY DEF QueuedRunnable, InState
<1>0. job \in [Jobs -> Row]
  BY DEF TypeOK
<1> DEFINE Same == job[j].state = "queued" /\ job'[j] = job[j]
<1>1. CASE Same /\ UNCHANGED lib
  BY <1>1 DEF QueuedRunnable, InState, Stale, IsLibrary
<1>2. ASSUME NEW k \in Keys, InsertJob(k) PROVE Runnable(j)'
  BY <1>0, <1>1, <1>2 DEF InsertJob, NewRow
<1>3. ASSUME NEW k \in Keys, CommitChange(k) PROVE Runnable(j)'
  <2>1. CASE job[j].state = "inserting"
    <3>1. job[j].attempts = 0 /\ ~Stale(j)
      BY <2>1 DEF InsertingOpen, InState
    <3> QED BY <1>0, <1>3, <2>1, <3>1, BoundsAssumption DEF CommitChange, Stale, IsLibrary, Row
  <2>2. CASE job[j].state # "inserting"
    BY <1>0, <1>1, <1>3, <2>2 DEF CommitChange
  <2> QED BY <2>1, <2>2
<1>4. ASSUME NEW k \in Keys, RollbackChange(k) PROVE Runnable(j)'
  BY <1>0, <1>1, <1>4 DEF RollbackChange, Row
<1>5. ASSUME NEW k \in Keys, Tick(k) PROVE Runnable(j)'
  <2>1. CASE job'[j] = NewRow(k, lib.epoch, "queued", canonical[k])
    BY <1>5, <2>1, BoundsAssumption DEF Tick, NewRow, Stale, IsLibrary
  <2> QED BY <1>0, <1>1, <1>5, <2>1 DEF Tick
<1>6. ASSUME NEW w \in Workers, ClaimTake(w) PROVE Runnable(j)'
  BY <1>0, <1>1, <1>6 DEF ClaimTake, Row
<1>7. ASSUME NEW w \in Workers, Heartbeat(w) PROVE Runnable(j)'
  BY <1>0, <1>1, <1>7 DEF Heartbeat, Holds, Row
<1>8. ASSUME NEW w \in Workers, Complete(w) PROVE Runnable(j)'
  BY <1>0, <1>1, <1>8, SettleFields DEF Complete, RunsName
<1>9. ASSUME NEW w \in Workers, FailApply(w) PROVE Runnable(j)'
  <2> DEFINE i == run[w].job
             s == FailState(i, run[w].twin)
  <2>1. i \in Jobs
    BY <1>9 DEF FailApply, RunsName
  <2>2. CASE job'[j] = job[j]
    BY <1>1, <1>9, <2>2 DEF FailApply
  <2>3. CASE i = j /\ job'[j] = Settle(j, s)
    <3>1. s = "queued"
      BY <2>3, SettleFields
    <3>2. ~Stale(j) /\ job[j].attempts < MaxAttempts
      BY <1>0, <2>3, <3>1, BoundsAssumption DEF FailState, Row
    <3> QED BY <1>9, <2>3, <3>2, SettleFields DEF FailApply, Stale, IsLibrary
  <2> QED BY <1>0, <1>9, <2>1, <2>2, <2>3 DEF FailApply
<1>10. ASSUME NEW w \in Workers, ReleaseApply(w) PROVE Runnable(j)'
  <2> DEFINE i == run[w].job
             back == [Settle(i, "queued") EXCEPT !.attempts = @ - 1]
  <2>1. i \in Jobs
    BY <1>10 DEF ReleaseApply, RunsName
  <2>2. CASE job'[j] = job[j]
    BY <1>1, <1>10, <2>2 DEF ReleaseApply
  <2>3. CASE i = j /\ Holds(w) /\ ~Stale(j) /\ job'[j] = back
    <3>1. /\ back.attempts = job[j].attempts - 1
          /\ back.key = job[j].key /\ back.epoch = job[j].epoch
      BY <1>0, <2>3 DEF Settle, Row
    <3>2. job[j].attempts - 1 < MaxAttempts
      BY <1>0, BoundsAssumption DEF Row
    <3> QED BY <1>10, <2>3, <3>1, <3>2 DEF ReleaseApply, Stale, IsLibrary
  <2>4. CASE job'[j] = Settle(i, "cancelled")
    BY <2>1, <2>4, SettleFields
  <2> QED BY <1>0, <1>10, <2>1, <2>2, <2>3, <2>4 DEF ReleaseApply
<1>11. ASSUME NEW i \in Jobs, LeaseStalls(i) \/ LeaseExpires(i) PROVE Runnable(j)'
  BY <1>0, <1>1, <1>11 DEF LeaseStalls, LeaseExpires, Row
<1>12. ASSUME NEW i \in Jobs, Reap(i) PROVE Runnable(j)'
  BY <1>0, <1>1, <1>12, SettleFields DEF Reap
<1>13. ASSUME NEW i \in Jobs, Prune(i) PROVE Runnable(j)'
  BY <1>0, <1>1, <1>13 DEF Prune, NewRow
<1>14. CASE EnterMaintenance \/ AbortRestore
  <2>1. lib'.epoch = lib.epoch
    BY <1>14, Zenon DEF EnterMaintenance, AbortRestore, TypeOK, Library
  <2> QED BY <1>14, <2>1
      DEF EnterMaintenance, AbortRestore, QueuedRunnable, InState, Stale, IsLibrary
<1>15. CASE CommitRestore
  <2>1. PICK r \in InState("absent") :
          job' = [i \in Jobs |-> IF i = r THEN NewRow(RebuildKey, lib.epoch + 1, "queued", 1)
                                 ELSE Supersede(i)]
    BY <1>15 DEF CommitRestore
  <2>2. CASE j = r
    BY <1>15, <2>1, <2>2, BoundsAssumption DEF CommitRestore, NewRow, Stale, TypeOK, Library
  <2>3. CASE j # r
    <3>1. ~IsLibrary(j) /\ Same
      BY <2>1, <2>3, SettleFields DEF Supersede, Active
    <3> QED BY <3>1 DEF QueuedRunnable, InState, Stale, IsLibrary
  <2> QED BY <2>2, <2>3
<1>16. CASE UNCHANGED <<job, lib>>
  BY <1>1, <1>16
<1> QED
  BY Zenon, <1>2, <1>3, <1>4, <1>5, <1>6, <1>7, <1>8, <1>9, <1>10, <1>11, <1>12, <1>13, <1>14, <1>15,
     <1>16
  DEF Next, ClaimStep, RunStep, StopStep, FaultStep, vars, DedupeHit, ClaimPick, ClaimLostRace,
      BeginTx, BeginRefused, CommitTx, FailRead, ReleaseRead, ReleaseFails, Restart, Raise,
      Abandon, Crash

-----------------------------------------------------------------------------
(* Derived rows *)

\* The step that commits a handler's transaction, the one that replaces the
\* Library and the ones that commit a change are all that touch the data.
LEMMA DataKept ==
    ASSUME TypeOK, [Next]_vars
    PROVE  \/ UNCHANGED <<canonical, derived>>
           \/ \E k \in Keys : CommitChange(k)
           \/ \E w \in Workers : CommitTx(w)
           \/ CommitRestore
  BY Zenon DEF Next, ClaimStep, RunStep, StopStep, FaultStep, vars, InsertJob, DedupeHit,
         RollbackChange, Tick, ClaimPick, ClaimTake, ClaimLostRace, BeginTx, BeginRefused,
         Complete, FailRead, FailApply, Heartbeat, ReleaseRead, ReleaseApply, ReleaseFails,
         Restart, Raise, Abandon, Crash, LeaseStalls, LeaseExpires, Reap, Prune,
         EnterMaintenance, AbortRestore

\* An open transaction's result is at least as new as the derived rows it will
\* replace, and no newer than what is committed: nobody else writes that key.
LEMMA ReadsStep ==
    ASSUME TypeOK, RunsName, PickedKept, OneLocker, FencedTx, ExclusiveTx, TxReads,
           DerivedFromCurrent, [Next]_vars
    PROVE  TxReads'
<1> DEFINE k(u) == job[run[u].job].key
<1> SUFFICES ASSUME NEW w \in Workers, run'[w].pc = "tx"
             PROVE  derived'[k(w)'] <= run'[w].read /\ run'[w].read <= canonical'[k(w)']
  BY DEF TxReads
<1>1. CASE BeginTx(w)
  <2>1. run'[w].job = run[w].job /\ run'[w].read = canonical[k(w)]
    BY <1>1 DEF BeginTx, TypeOK, Run
  <2>2. k(w) \in Keys
    BY <1>1 DEF BeginTx, RunsName, TypeOK, Row
  <2> QED BY <1>1, <2>1, <2>2 DEF BeginTx, DerivedFromCurrent, TypeOK
<1>2. CASE /\ run[w].pc = "tx" /\ run'[w].job = run[w].job /\ run'[w].read = run[w].read
  <2>1. run[w].job \in Jobs /\ ~ClaimTake(w)
    BY <1>2 DEF RunsName, ClaimTake
  <2>2. k(w)' = k(w) /\ k(w) \in Keys
    BY <1>2, <2>1, LockedRowKept DEF TypeOK, Row
  <2>3. derived[k(w)] <= run[w].read /\ run[w].read <= canonical[k(w)]
    BY <1>2 DEF TxReads
  <2>4. CASE UNCHANGED <<canonical, derived>>
    BY <1>2, <2>2, <2>3, <2>4
  <2>5. ASSUME NEW x \in Keys, CommitChange(x)
        PROVE  derived'[k(w)] <= run[w].read /\ run[w].read <= canonical'[k(w)]
    BY <2>2, <2>3, <2>5 DEF CommitChange, TypeOK, Run
  <2>6. ASSUME NEW v \in Workers, CommitTx(v)
        PROVE  derived'[k(w)] <= run[w].read /\ run[w].read <= canonical'[k(w)]
    <3>1. v # w
      BY <2>6 DEF CommitTx, TypeOK, Run
    <3>2. k(v) # k(w)
      BY <1>2, <2>6, <3>1 DEF CommitTx, ExclusiveTx
    <3> QED BY <2>2, <2>3, <2>6, <3>2 DEF CommitTx, TypeOK
  <2>7. CASE CommitRestore
    <3>1. k(w) \notin LibraryKeys
      BY <1>2, <2>1, <2>7 DEF CommitRestore, Drained, IsLibrary, Locked, Lockers
    <3> QED BY <1>2, <2>2, <2>3, <2>7, <3>1, KeysAssumption DEF CommitRestore
  <2> QED BY <1>2, <2>2, <2>4, <2>5, <2>6, <2>7, DataKept
<1>3. ~ \E j \in Jobs : ClaimPick(w, j)
  BY Zenon DEF ClaimPick, IdleRun, TypeOK
<1> QED BY <1>1, <1>2, <1>3, NewLockers

\* What a transaction writes was committed when it read it.
LEMMA CurrentStep ==
    ASSUME TypeOK, RunsName, FencedTx, TxReads, DerivedFromCurrent, [Next]_vars
    PROVE  DerivedFromCurrent'
<1> SUFFICES ASSUME NEW k \in Keys PROVE derived'[k] <= canonical'[k]
  BY DEF DerivedFromCurrent
<1>0. derived[k] <= canonical[k] /\ derived[k] \in Nat /\ canonical[k] \in Nat
  BY DEF DerivedFromCurrent, TypeOK
<1>1. CASE UNCHANGED <<canonical, derived>>
  BY <1>0, <1>1
<1>2. ASSUME NEW x \in Keys, CommitChange(x) PROVE derived'[k] <= canonical'[k]
  BY <1>0, <1>2 DEF CommitChange, TypeOK
<1>3. ASSUME NEW w \in Workers, CommitTx(w) PROVE derived'[k] <= canonical'[k]
  BY <1>0, <1>3 DEF CommitTx, TxReads, TypeOK
<1>4. CASE CommitRestore
  <2>1. CASE k \in LibraryKeys
    <3>1. derived'[k] = 0 /\ canonical'[k] \in {0, 1}
      BY <1>4, <2>1 DEF CommitRestore
    <3> QED BY <3>1
  <2>2. CASE k \notin LibraryKeys
    <3>1. derived'[k] = derived[k] /\ canonical'[k] = canonical[k]
      BY <1>4, <2>2, KeysAssumption DEF CommitRestore
    <3> QED BY <1>0, <3>1
  <2> QED BY <2>1, <2>2
<1> QED BY <1>1, <1>2, <1>3, <1>4, DataKept

\* So no commit of one epoch takes the derived rows back.
LEMMA NeverBackStep ==
    ASSUME TypeOK, TxReads, [Next]_vars, lib'.epoch = lib.epoch, NEW k \in Keys
    PROVE  derived'[k] >= derived[k]
<1>0. derived[k] \in Nat
  BY DEF TypeOK
<1>1. CASE UNCHANGED <<canonical, derived>>
  BY <1>0, <1>1
<1>2. ASSUME NEW x \in Keys, CommitChange(x) PROVE derived'[k] >= derived[k]
  BY <1>0, <1>2 DEF CommitChange
<1>3. ASSUME NEW w \in Workers, CommitTx(w) PROVE derived'[k] >= derived[k]
  BY <1>0, <1>3 DEF CommitTx, TxReads, TypeOK, Run
<1>4. ASSUME CommitRestore PROVE FALSE
  <2>1. lib \in Library
    BY DEF TypeOK
  <2>2. lib'.epoch = lib.epoch + 1
    BY <1>4, <2>1 DEF CommitRestore, Library
  <2>3. lib.epoch \in Nat
    BY <2>1 DEF Library
  <2> QED BY <2>2, <2>3
<1> QED BY <1>1, <1>2, <1>3, <1>4, DataKept

-----------------------------------------------------------------------------
(* The theorems *)

\* A new database has no job, no run and no change.
LEMMA Initial == Init => IInv
  <1> SUFFICES ASSUME Init PROVE IInv
    OBVIOUS
  <1>1. \A j \in Jobs : job[j] \in Row /\ job[j].state = "absent"
    BY EmptyRowType DEF Init, NewRow
  <1>2. \A w \in Workers : run[w] \in Run /\ run[w].pc = "idle" /\ run[w].rel = "no"
    BY IdleRunType DEF Init, IdleRun
  <1>3. TypeOK
    BY <1>1, <1>2, EmptyRowType, IdleRunType DEF Init, TypeOK, Library
  <1>4. InState("running") = {} /\ InState("queued") = {} /\ InState("inserting") = {}
    BY <1>1 DEF InState
  <1>5. DerivedFromCurrent
    BY DEF Init, DerivedFromCurrent
  <1> QED BY <1>2, <1>3, <1>4, <1>5
      DEF IInv, RunsName, PickedKept, RunningCounted, OneLocker, FencedTx, RunningApart,
          ExclusiveTx, InsertingOpen, QueuedRunnable, TxReads

\* The inductive invariant: what JobQueue's safety properties rest on.
THEOREM Inductive == Spec => []IInv
<1>1. IInv /\ [Next]_vars => IInv'
  <2> SUFFICES ASSUME IInv, [Next]_vars PROVE IInv'
    OBVIOUS
  <2>1. TypeOK' /\ RunsName' /\ RunningCounted'
    BY TypeStep, NamesStep, CountedStep DEF IInv
  <2>2. PickedKept' /\ OneLocker' /\ FencedTx'
    BY LockStep DEF IInv
  <2>3. RunningApart' /\ ExclusiveTx'
    BY ApartStep, ExclusiveStep DEF IInv
  <2>4. InsertingOpen' /\ QueuedRunnable'
    BY InsertingStep, QueuedStep DEF IInv
  <2>5. TxReads' /\ DerivedFromCurrent'
    BY ReadsStep, CurrentStep DEF IInv
  <2> QED BY <2>1, <2>2, <2>3, <2>4, <2>5 DEF IInv
<1> QED BY Initial, <1>1, PTL DEF Spec

\* Every reachable state has the shape the code gives it.
THEOREM Types == Spec => []TypeOK
<1>1. IInv => TypeOK
  BY DEF IInv
<1> QED BY Inductive, <1>1, PTL

\* No handler's transaction outlives its lease or its Library's epoch.
THEOREM Fencing == Spec => []FencedTx
<1>1. IInv => FencedTx
  BY DEF IInv
<1> QED BY Inductive, <1>1, PTL

\* Two transactions about one key or singleton_key are never open together.
THEOREM Exclusion == Spec => []ExclusiveTx
<1>1. IInv => ExclusiveTx
  BY DEF IInv
<1> QED BY Inductive, <1>1, PTL

\* No queued job is beyond every claim.
THEOREM Runnable == Spec => []QueuedRunnable
<1>1. IInv => QueuedRunnable
  BY DEF IInv
<1> QED BY Inductive, <1>1, PTL

\* Derived rows never show a change the catalogue does not have.
THEOREM Current == Spec => []DerivedFromCurrent
<1>1. IInv => DerivedFromCurrent
  BY DEF IInv
<1> QED BY Inductive, <1>1, PTL

\* Derived rows never go back within an epoch.
THEOREM NeverBack == Spec => DerivedNeverBack
<1>1. IInv /\ [Next]_vars
        => [lib'.epoch = lib.epoch => \A k \in Keys : derived'[k] >= derived[k]]_vars
  BY NeverBackStep DEF IInv
<1> QED BY Inductive, <1>1, PTL DEF Spec, DerivedNeverBack

=============================================================================

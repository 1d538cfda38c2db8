---------------------------- MODULE JobQueueServed ----------------------------
(***************************************************************************)
(* Proofs, for every value of the constants, that the queue serves what it *)
(* was asked: a succeeded job's change is derived, and an uncoalesced      *)
(* change keeps its job until it is.  SInv strengthens JobQueue's IInv     *)
(* with what a row's change and epoch say of the committed ones.           *)
(***************************************************************************)
EXTENDS JobQueueProofs

-----------------------------------------------------------------------------
(* The inductive invariant *)

\* A row a run names has been committed and is not pruned under it.
NamedRowKept == \A w \in Workers :
    run[w].job \in Jobs => job[run[w].job].state \notin {"absent", "inserting"}

\* No row is of a later epoch than the Library's.
EpochsPast == \A j \in Jobs : job[j].epoch <= lib.epoch

\* A committed row was made by a change that is committed too, or replaced.
MadeCommitted == \A j \in Jobs :
    job[j].state \notin {"absent", "inserting"} /\ ~Stale(j)
        => job[j].made <= canonical[job[j].key]

\* An uncommitted row was made by the next change of its key.
InsertingNext == \A j \in InState("inserting") : job[j].made = canonical[job[j].key] + 1

\* An open command has inserted its row, or found one of a coalesced kind.
OpenHasRow == \A k \in Keys :
    /\ cmd[k] = "inserted" => \E j \in InState("inserting") : job[j].key = k
    /\ cmd[k] = "coalesced" => k \in CoalescedKeys

\* An open transaction read the change its job was made for.
TxReadsMade == \A w \in Workers :
    run[w].pc = "tx" => job[run[w].job].made <= run[w].read

\* A returned handler that still holds its row has derived that change.
DoneServed == \A w \in Workers :
    run[w].pc = "done" /\ Holds(w) /\ ~Stale(run[w].job)
        => LET j == run[w].job IN job[j].made <= derived[job[j].key]

\* Only a coalesced kind has the queued twin for which a row is given up.
TwinsCoalesced == \A w \in Workers :
    (run[w].pc = "failing" /\ run[w].twin) \/ run[w].rel = "twin"
        => job[run[w].job].key \in CoalescedKeys

SInv ==
    /\ IInv
    /\ NamedRowKept /\ EpochsPast /\ MadeCommitted /\ InsertingNext /\ OpenHasRow
    /\ TxReadsMade /\ DoneServed /\ TwinsCoalesced
    /\ SucceededServed /\ NoLostChange

-----------------------------------------------------------------------------
(* What a step does to a row *)

\* What a new row records.
LEMMA NewRowFields ==
    \A k, e, s, m : /\ NewRow(k, e, s, m).key = k /\ NewRow(k, e, s, m).epoch = e
                    /\ NewRow(k, e, s, m).state = s /\ NewRow(k, e, s, m).made = m
  BY Zenon DEF NewRow

\* A row keeps what it is about from its insertion to its deletion.
SameJob(j) == /\ job'[j].key = job[j].key /\ job'[j].epoch = job[j].epoch
              /\ job'[j].made = job[j].made

\* An active row goes on, or ends: succeeded by its own run, and cancelled
\* only when it is superseded or a twin of a coalesced kind is queued.
Moves(j) ==
    /\ SameJob(j) /\ Active(j)
    /\ job'[j].state \in {"queued", "running"} \cup Settled
    /\ job'[j].state = "succeeded" =>
          \E w \in Workers : Complete(w) /\ run[w].job = j /\ Holds(w)
    /\ job'[j].state = "cancelled" =>
          \/ Stale(j) \/ job[j].key \in CoalescedKeys
          \/ CommitRestore /\ IsLibrary(j)

\* A new row: a command's, the idle task's or the rebuild's.
Appears(j) ==
    /\ job[j].state = "absent"
    /\ \/ \E k \in Keys : /\ InsertJob(k)
                          /\ job'[j] = NewRow(k, lib.epoch, "inserting", canonical[k] + 1)
       \/ \E k \in Keys : Tick(k) /\ job'[j] = NewRow(k, lib.epoch, "queued", canonical[k])
       \/ CommitRestore /\ job'[j] = NewRow(RebuildKey, lib.epoch + 1, "queued", 1)

\* An uncommitted row is committed or rolled back with its change.
Resolves(j) == LET k == job[j].key IN
    /\ SameJob(j) /\ job[j].state = "inserting"
    /\ \/ CommitChange(k) /\ job'[j].state = "queued"
       \/ RollbackChange(k) /\ job'[j].state = "absent"

\* Nothing else happens to a row.
Rests(j) == SameJob(j) /\ job'[j].state = job[j].state

RowSteps(j) == Rests(j) \/ Moves(j) \/ Appears(j) \/ Resolves(j) \/ Prune(j)

\* Every step of the system is, for one row, one of the five.
LEMMA RowStep ==
    ASSUME TypeOK, RunsName, PickedKept, TwinsCoalesced, [Next]_vars, NEW j \in Jobs
    PROVE  RowSteps(j)
<1>0. job \in [Jobs -> Row] /\ job[j] \in Row
  BY DEF TypeOK
<1>1. CASE job'[j] = job[j]
  BY <1>1 DEF RowSteps, Rests, SameJob
<1>2. ASSUME NEW k \in Keys, InsertJob(k) \/ Tick(k) PROVE RowSteps(j)
  <2>1. CASE InsertJob(k)
    BY <1>0, <1>1, <2>1 DEF RowSteps, Appears, InsertJob, InState
  <2>2. CASE Tick(k)
    BY <1>0, <1>1, <2>2 DEF RowSteps, Appears, Tick, InState
  <2> QED BY <1>2, <2>1, <2>2
<1>3. ASSUME NEW k \in Keys, CommitChange(k) \/ RollbackChange(k) PROVE RowSteps(j)
  <2>1. CASE job[j].state = "inserting" /\ job[j].key = k
    <3>1. CASE CommitChange(k)
      <4>1. job'[j] = [job[j] EXCEPT !.state = "queued"]
        BY <2>1, <3>1 DEF CommitChange
      <4> QED BY <1>0, <2>1, <3>1, <4>1 DEF RowSteps, Resolves, SameJob, Row
    <3>2. CASE RollbackChange(k)
      <4>1. job'[j] = [job[j] EXCEPT !.state = "absent"]
        BY <2>1, <3>2 DEF RollbackChange
      <4> QED BY <1>0, <2>1, <3>2, <4>1 DEF RowSteps, Resolves, SameJob, Row
    <3> QED BY <1>3, <3>1, <3>2
  <2>2. CASE ~(job[j].state = "inserting" /\ job[j].key = k)
    BY <1>0, <1>1, <1>3, <2>2 DEF CommitChange, RollbackChange
  <2> QED BY <2>1, <2>2
<1>4. ASSUME NEW w \in Workers, ClaimTake(w) PROVE RowSteps(j)
  <2>1. CASE run[w].job = j
    <3>1. Active(j)
      BY <1>4, <2>1 DEF ClaimTake, PickedKept, Active
    <3>2. SameJob(j) /\ job'[j].state = "running"
      BY <1>0, <1>4, <2>1 DEF ClaimTake, SameJob, Row
    <3> QED BY <3>1, <3>2 DEF RowSteps, Moves
  <2> QED BY <1>0, <1>1, <1>4, <2>1 DEF ClaimTake
<1>5. ASSUME NEW w \in Workers, Heartbeat(w) PROVE RowSteps(j)
  BY <1>0, <1>1, <1>5 DEF Heartbeat, RowSteps, Rests, SameJob, Row
<1>6. ASSUME NEW w \in Workers, Complete(w) PROVE RowSteps(j)
  <2>1. CASE run[w].job = j /\ Holds(w) /\ job'[j] = Settle(j, "succeeded")
    <3>1. SameJob(j) /\ job'[j].state = "succeeded"
      BY <1>0, <2>1 DEF Settle, SameJob, Row
    <3> QED BY <1>6, <2>1, <3>1 DEF RowSteps, Moves, Active, Holds, Settled
  <2> QED BY <1>0, <1>1, <1>6, <2>1 DEF Complete
<1>7. ASSUME NEW w \in Workers, FailApply(w) PROVE RowSteps(j)
  <2> DEFINE s == FailState(j, run[w].twin)
  <2>1. CASE run[w].job = j /\ Holds(w) /\ job'[j] = Settle(j, s)
    <3>1. SameJob(j) /\ job'[j].state = s
      BY <1>0, <2>1 DEF Settle, SameJob, Row
    <3>2. s \in {"queued"} \cup Settled /\ s # "succeeded"
      BY DEF FailState, Settled
    <3>3. s = "cancelled" => Stale(j) \/ job[j].key \in CoalescedKeys
      BY <1>7, <2>1 DEF FailState, FailApply, TwinsCoalesced
    <3> QED BY <2>1, <3>1, <3>2, <3>3 DEF RowSteps, Moves, Active, Holds
  <2> QED BY <1>0, <1>1, <1>7, <2>1 DEF FailApply
<1>8. ASSUME NEW w \in Workers, ReleaseApply(w) PROVE RowSteps(j)
  <2>1. CASE /\ run[w].job = j /\ Holds(w) /\ (Stale(j) \/ run[w].rel = "twin")
             /\ job'[j] = Settle(j, "cancelled")
    <3>1. SameJob(j) /\ job'[j].state = "cancelled"
      BY <1>0, <2>1 DEF Settle, SameJob, Row
    <3>2. Stale(j) \/ job[j].key \in CoalescedKeys
      BY <2>1 DEF TwinsCoalesced
    <3> QED BY <1>8, <2>1, <3>1, <3>2 DEF RowSteps, Moves, Active, Holds, Settled
  <2>2. CASE /\ run[w].job = j /\ Holds(w)
             /\ job'[j] = [Settle(j, "queued") EXCEPT !.attempts = @ - 1]
    <3>1. SameJob(j) /\ job'[j].state = "queued"
      BY <1>0, <2>2 DEF Settle, SameJob, Row
    <3> QED BY <2>2, <3>1 DEF RowSteps, Moves, Active, Holds
  <2> QED BY <1>0, <1>1, <1>8, <2>1, <2>2 DEF ReleaseApply
<1>9. ASSUME NEW i \in Jobs, LeaseStalls(i) \/ LeaseExpires(i) PROVE RowSteps(j)
  BY <1>0, <1>1, <1>9 DEF LeaseStalls, LeaseExpires, RowSteps, Rests, SameJob, Row
<1>10. ASSUME NEW i \in Jobs, Reap(i) PROVE RowSteps(j)
  <2> DEFINE s == IF Stale(j) THEN "cancelled" ELSE "failed"
  <2>1. CASE i = j
    <3>1. SameJob(j) /\ job'[j].state = s
      BY <1>0, <1>10, <2>1 DEF Reap, Settle, SameJob, Row
    <3> QED BY <1>10, <2>1, <3>1 DEF RowSteps, Moves, Active, Reap, Settled
  <2> QED BY <1>0, <1>1, <1>10, <2>1 DEF Reap
<1>11. ASSUME NEW i \in Jobs, Prune(i) PROVE RowSteps(j)
  BY <1>0, <1>1, <1>11 DEF Prune, RowSteps
<1>12. CASE CommitRestore
  <2>1. PICK r \in InState("absent") :
          job' = [i \in Jobs |-> IF i = r THEN NewRow(RebuildKey, lib.epoch + 1, "queued", 1)
                                 ELSE Supersede(i)]
    BY <1>12 DEF CommitRestore
  <2>2. CASE j = r
    BY <1>12, <2>1, <2>2 DEF RowSteps, Appears, InState
  <2>3. CASE j # r /\ IsLibrary(j) /\ Active(j)
    <3>1. SameJob(j) /\ job'[j].state = "cancelled"
      BY <1>0, <2>1, <2>3, Zenon DEF Supersede, Settle, SameJob, Row
    <3> QED BY <1>12, <2>3, <3>1 DEF RowSteps, Moves, Settled
  <2>4. CASE j # r /\ ~(IsLibrary(j) /\ Active(j))
    BY <1>1, <2>1, <2>4 DEF Supersede
  <2> QED BY <2>2, <2>3, <2>4
<1>13. CASE UNCHANGED job
  BY <1>1, <1>13
<1> QED
  BY <1>2, <1>3, <1>4, <1>5, <1>6, <1>7, <1>8, <1>9, <1>10, <1>11, <1>12, <1>13, Zenon
  DEF Next, ClaimStep, RunStep, StopStep, FaultStep, vars, DedupeHit, ClaimPick, ClaimLostRace,
      BeginTx, BeginRefused, CommitTx, FailRead, ReleaseRead, ReleaseFails, Restart, Raise,
      Abandon, Crash, EnterMaintenance, AbortRestore

-----------------------------------------------------------------------------
(* What a step does to a run *)

\* A run's job is the one its claim picked.
LEMMA JobKept ==
    ASSUME TypeOK, [Next]_vars, NEW w \in Workers, run'[w].job \in Jobs
    PROVE  run'[w].job = run[w].job \/ ClaimPick(w, run'[w].job)
<1>0. run \in [Workers -> Run]
  BY DEF TypeOK
<1> DEFINE Goal == run'[w].job = run[w].job \/ ClaimPick(w, run'[w].job)
<1>1. CASE run'[w].job = run[w].job
  BY <1>1
<1>2. CASE run'[w] = IdleRun
  BY <1>2, SentinelsAssumption DEF IdleRun
<1>3. ASSUME NEW v \in Workers, NEW j \in Jobs, ClaimPick(v, j) PROVE Goal
  BY <1>0, <1>3 DEF ClaimPick, IdleRun
<1>4. ASSUME NEW v \in Workers, ClaimTake(v) PROVE Goal
  BY <1>0, <1>4 DEF ClaimTake, IdleRun
<1>5. ASSUME NEW v \in Workers, BeginTx(v) \/ CommitTx(v) \/ Heartbeat(v) \/ Raise(v) \/ Abandon(v)
      PROVE  Goal
  BY <1>0, <1>5 DEF BeginTx, CommitTx, Heartbeat, Raise, Abandon, Run
<1>6. ASSUME NEW v \in Workers, BeginRefused(v) PROVE Goal
  BY <1>0, <1>1, <1>2, <1>6 DEF BeginRefused, Finished, Run
<1>7. ASSUME NEW v \in Workers, Complete(v) PROVE Goal
  BY <1>0, <1>1, <1>2, <1>7 DEF Complete, Finished, Run
<1>8. ASSUME NEW v \in Workers, FailRead(v) PROVE Goal
  BY <1>0, <1>1, <1>2, <1>8 DEF FailRead, Finished, Run
<1>9. ASSUME NEW v \in Workers, FailApply(v) PROVE Goal
  BY <1>0, <1>1, <1>2, <1>9 DEF FailApply, Finished, Run
<1>10. ASSUME NEW v \in Workers, ReleaseRead(v) \/ ReleaseApply(v) \/ ReleaseFails(v) PROVE Goal
  BY <1>0, <1>10 DEF ReleaseRead, ReleaseApply, ReleaseFails, Run
<1>11. ASSUME NEW v \in Workers, ClaimLostRace(v) \/ Restart(v) \/ Crash(v) PROVE Goal
  BY <1>0, <1>1, <1>2, <1>11 DEF ClaimLostRace, Restart, Crash
<1>12. CASE UNCHANGED run
  BY <1>12
<1> QED
  BY <1>3, <1>4, <1>5, <1>6, <1>7, <1>8, <1>9, <1>10, <1>11, <1>12
  DEF Next, ClaimStep, RunStep, StopStep, FaultStep, vars, InsertJob, DedupeHit, CommitChange,
      RollbackChange, Tick, LeaseStalls, LeaseExpires, Reap, Prune, EnterMaintenance,
      AbortRestore, CommitRestore

\* A handler returns only from its transaction's commit, and stays returned.
LEMMA NewDone ==
    ASSUME TypeOK, [Next]_vars, NEW w \in Workers, run'[w].pc = "done"
    PROVE  /\ run'[w].job = run[w].job /\ run'[w].lease = run[w].lease
           /\ run[w].pc = "done" \/ CommitTx(w)
<1>0. run \in [Workers -> Run]
  BY DEF TypeOK
<1> DEFINE Goal == /\ run'[w].job = run[w].job /\ run'[w].lease = run[w].lease
                   /\ run[w].pc = "done" \/ CommitTx(w)
<1>1. CASE run'[w] = run[w]
  BY <1>1
<1>3. ASSUME NEW v \in Workers, NEW j \in Jobs, ClaimPick(v, j) PROVE Goal
  BY <1>0, <1>3 DEF ClaimPick, IdleRun
<1>4. ASSUME NEW v \in Workers, ClaimTake(v) PROVE Goal
  BY <1>0, <1>4 DEF ClaimTake, IdleRun
<1>5. ASSUME NEW v \in Workers, BeginTx(v) \/ Raise(v) PROVE Goal
  BY <1>0, <1>5 DEF BeginTx, Raise, Run
<1>6. ASSUME NEW v \in Workers, CommitTx(v) \/ Heartbeat(v) \/ Abandon(v) PROVE Goal
  BY <1>0, <1>6 DEF CommitTx, Heartbeat, Abandon, Run
<1>8. ASSUME NEW v \in Workers, BeginRefused(v) PROVE Goal
  BY <1>0, <1>8 DEF BeginRefused, Finished, IdleRun, Run
<1>9. ASSUME NEW v \in Workers, Complete(v) PROVE Goal
  BY <1>0, <1>9 DEF Complete, Finished, IdleRun, Run
<1>10. ASSUME NEW v \in Workers, FailRead(v) PROVE Goal
  BY <1>0, <1>10 DEF FailRead, Finished, IdleRun, Run
<1>11. ASSUME NEW v \in Workers, FailApply(v) PROVE Goal
  BY <1>0, <1>11 DEF FailApply, Finished, IdleRun, Run
<1>12. ASSUME NEW v \in Workers, ReleaseRead(v) \/ ReleaseApply(v) \/ ReleaseFails(v) PROVE Goal
  BY <1>0, <1>12 DEF ReleaseRead, ReleaseApply, ReleaseFails, Run
<1>13. ASSUME NEW v \in Workers, ClaimLostRace(v) \/ Restart(v) \/ Crash(v) PROVE Goal
  BY <1>0, <1>13 DEF ClaimLostRace, Restart, Crash, IdleRun
<1>14. CASE UNCHANGED run
  BY <1>1, <1>14
<1> QED
  BY <1>3, <1>4, <1>5, <1>6, <1>8, <1>9, <1>10, <1>11, <1>12, <1>13, <1>14
  DEF Next, ClaimStep, RunStep, StopStep, FaultStep, vars, InsertJob, DedupeHit, CommitChange,
      RollbackChange, Tick, LeaseStalls, LeaseExpires, Reap, Prune, EnterMaintenance,
      AbortRestore, CommitRestore

\* Whatever decided that a row has a twin read one, in this run or before.
LEMMA NewTwin ==
    ASSUME TypeOK, RunsName, [Next]_vars, NEW w \in Workers,
           (run'[w].pc = "failing" /\ run'[w].twin) \/ run'[w].rel = "twin"
    PROVE  /\ run'[w].job = run[w].job /\ run[w].job \in Jobs
           /\ \/ (run[w].pc = "failing" /\ run[w].twin) \/ run[w].rel = "twin"
              \/ QueuedTwins(run[w].job) # {}
<1>0. run \in [Workers -> Run]
  BY DEF TypeOK
<1> DEFINE Was == (run[w].pc = "failing" /\ run[w].twin) \/ run[w].rel = "twin"
           Goal == /\ run'[w].job = run[w].job /\ run[w].job \in Jobs
                   /\ Was \/ QueuedTwins(run[w].job) # {}
<1>1. CASE run'[w] = run[w]
  BY <1>1 DEF RunsName
<1>3. ASSUME NEW v \in Workers, NEW j \in Jobs, ClaimPick(v, j) PROVE Goal
  BY <1>0, <1>1, <1>3 DEF ClaimPick, IdleRun
<1>4. ASSUME NEW v \in Workers, ClaimTake(v) PROVE Goal
  BY <1>0, <1>1, <1>4 DEF ClaimTake, IdleRun
<1>5. ASSUME NEW v \in Workers, BeginTx(v) \/ CommitTx(v) \/ Raise(v) PROVE Goal
  BY <1>0, <1>1, <1>5 DEF BeginTx, CommitTx, Raise, Run, RunsName
<1>6. ASSUME NEW v \in Workers, Heartbeat(v) \/ Abandon(v) PROVE Goal
  BY <1>0, <1>1, <1>6 DEF Heartbeat, Abandon, Working, Run, RunsName
<1>8. ASSUME NEW v \in Workers, BeginRefused(v) PROVE Goal
  BY <1>0, <1>1, <1>8 DEF BeginRefused, Finished, IdleRun, Run, RunsName
<1>9. ASSUME NEW v \in Workers, Complete(v) PROVE Goal
  BY <1>0, <1>1, <1>9 DEF Complete, Finished, IdleRun, Run, RunsName
<1>10. ASSUME NEW v \in Workers, FailRead(v) PROVE Goal
  BY <1>0, <1>1, <1>10 DEF FailRead, Finished, IdleRun, Run, RunsName
<1>11. ASSUME NEW v \in Workers, FailApply(v) PROVE Goal
  BY <1>0, <1>1, <1>11 DEF FailApply, Finished, IdleRun, Run, RunsName
<1>12. ASSUME NEW v \in Workers, ReleaseRead(v) PROVE Goal
  BY <1>0, <1>1, <1>12 DEF ReleaseRead, Run, RunsName
<1>13. ASSUME NEW v \in Workers, ReleaseApply(v) \/ ReleaseFails(v) PROVE Goal
  BY <1>0, <1>1, <1>13 DEF ReleaseApply, ReleaseFails, Run, RunsName
<1>14. ASSUME NEW v \in Workers, ClaimLostRace(v) \/ Restart(v) \/ Crash(v) PROVE Goal
  BY <1>0, <1>1, <1>14 DEF ClaimLostRace, Restart, Crash, IdleRun
<1>15. CASE UNCHANGED run
  BY <1>1, <1>15, Zenon
<1> QED
  BY <1>3, <1>4, <1>5, <1>6, <1>8, <1>9, <1>10, <1>11, <1>12, <1>13, <1>14, <1>15
  DEF Next, ClaimStep, RunStep, StopStep, FaultStep, vars, InsertJob, DedupeHit, CommitChange,
      RollbackChange, Tick, LeaseStalls, LeaseExpires, Reap, Prune, EnterMaintenance,
      AbortRestore, CommitRestore

\* No claim gives a row a lease that some run still has, so a run that holds
\* its row held it before.
LEMMA HoldsBefore ==
    ASSUME TypeOK, RunsName, [Next]_vars, NEW w \in Workers,
           run'[w].job = run[w].job, run'[w].lease = run[w].lease, Holds(w)'
    PROVE  Holds(w)
<1> DEFINE j == run[w].job
<1>0. job \in [Jobs -> Row] /\ j \in Jobs /\ job'[j].state = "running"
      /\ job'[j].lease = run[w].lease
  BY DEF TypeOK, Holds
<1>1. CASE job'[j] = job[j]
  BY <1>0, <1>1 DEF Holds
<1>2. ASSUME NEW k \in Keys, InsertJob(k) \/ Tick(k) PROVE Holds(w)
  BY <1>0, <1>1, <1>2 DEF InsertJob, Tick, InState, NewRow
<1>3. ASSUME NEW k \in Keys, CommitChange(k) \/ RollbackChange(k) PROVE Holds(w)
  <2>1. CASE job[j].state = "inserting" /\ job[j].key = k
    BY <1>0, <1>3, <2>1 DEF CommitChange, RollbackChange, Row
  <2> QED BY <1>0, <1>1, <1>3, <2>1 DEF CommitChange, RollbackChange
<1>4. ASSUME NEW v \in Workers, ClaimTake(v) PROVE Holds(w)
  <2>1. PICK l \in FreshLeases(run[v].job) :
          job' = [job EXCEPT ![run[v].job] = [job[run[v].job] EXCEPT
                    !.state = "running", !.lease = l,
                    !.expired = FALSE, !.attempts = job[run[v].job].attempts + 1]]
    BY <1>4, Zenon DEF ClaimTake
  <2>2. l # run[w].lease
    BY DEF FreshLeases
  <2>3. run[v].job # j
    BY <1>0, <2>1, <2>2 DEF Row
  <2> QED BY <1>0, <1>1, <2>1, <2>3
<1>5. ASSUME NEW v \in Workers, Heartbeat(v) PROVE Holds(w)
  BY <1>0, <1>5 DEF Heartbeat, Holds, Row
<1>6. ASSUME NEW v \in Workers, Complete(v) PROVE Holds(w)
  BY <1>0, <1>1, <1>6, SettleFields DEF Complete, RunsName
<1>7. ASSUME NEW v \in Workers, FailApply(v) PROVE Holds(w)
  <2>1. FailState(run[v].job, run[v].twin) # "running" /\ run[v].job \in Jobs
    BY <1>7 DEF FailState, FailApply, RunsName
  <2> QED BY <1>0, <1>1, <1>7, <2>1, SettleFields DEF FailApply
<1>8. ASSUME NEW v \in Workers, ReleaseApply(v) PROVE Holds(w)
  <2> DEFINE i == run[v].job
             back == [Settle(i, "queued") EXCEPT !.attempts = @ - 1]
  <2>1. i \in Jobs
    BY <1>8 DEF ReleaseApply, RunsName
  <2>2. Settle(i, "cancelled").state # "running" /\ back.state # "running"
    BY <1>0, <2>1 DEF Settle, Row
  <2>3. \/ UNCHANGED job
        \/ job' = [job EXCEPT ![i] = Settle(i, "cancelled")]
        \/ job' = [job EXCEPT ![i] = back]
    BY <1>8 DEF ReleaseApply
  <2> QED BY <1>0, <1>1, <2>1, <2>2, <2>3
<1>9. ASSUME NEW i \in Jobs, LeaseStalls(i) \/ LeaseExpires(i) PROVE Holds(w)
  BY <1>0, <1>9 DEF LeaseStalls, LeaseExpires, Holds, Row
<1>10. ASSUME NEW i \in Jobs, Reap(i) \/ Prune(i) PROVE Holds(w)
  <2>1. CASE Reap(i)
    BY <1>0, <1>1, <2>1, SettleFields DEF Reap
  <2>2. CASE Prune(i)
    BY <1>0, <1>1, <2>2 DEF Prune, NewRow
  <2> QED BY <1>10, <2>1, <2>2
<1>11. CASE CommitRestore
  <2>1. PICK r \in InState("absent") :
          job' = [i \in Jobs |-> IF i = r THEN NewRow(RebuildKey, lib.epoch + 1, "queued", 1)
                                 ELSE Supersede(i)]
    BY <1>11 DEF CommitRestore
  <2>2. j # r /\ job'[j] = Supersede(j)
    BY <1>0, <2>1 DEF NewRow
  <2>3. Supersede(j) = job[j]
    BY <1>0, <2>2, SettleFields DEF Supersede
  <2> QED BY <1>1, <2>2, <2>3
<1>12. CASE UNCHANGED job
  BY <1>1, <1>12
<1> QED
  BY <1>2, <1>3, <1>4, <1>5, <1>6, <1>7, <1>8, <1>9, <1>10, <1>11, <1>12, Zenon
  DEF Next, ClaimStep, RunStep, StopStep, FaultStep, vars, DedupeHit, ClaimPick, ClaimLostRace,
      BeginTx, BeginRefused, CommitTx, FailRead, ReleaseRead, ReleaseFails, Restart, Raise,
      Abandon, Crash, EnterMaintenance, AbortRestore

-----------------------------------------------------------------------------
(* Rows and epochs *)

\* A deletion waits until no run names the row; a rollback's row was never
\* committed, so no run could.
LEMMA NamedStep ==
    ASSUME TypeOK, RunsName, PickedKept, TwinsCoalesced, NamedRowKept, [Next]_vars
    PROVE  NamedRowKept'
<1> SUFFICES ASSUME NEW w \in Workers, run'[w].job \in Jobs
             PROVE  job'[run'[w].job].state \notin {"absent", "inserting"}
  BY DEF NamedRowKept
<1> DEFINE j == run'[w].job
<1>1. CASE ClaimPick(w, j)
  BY <1>1 DEF ClaimPick, Claimable
<1>2. CASE run'[w].job = run[w].job
  <2>1. job[j].state \notin {"absent", "inserting"}
    BY <1>2 DEF NamedRowKept
  <2>2. ~Prune(j)
    BY <1>2 DEF Prune
  <2>3. Rests(j) \/ Moves(j)
    BY <2>1, <2>2, RowStep DEF RowSteps, Appears, Resolves
  <2> QED BY <2>1, <2>3 DEF Rests, Moves, Settled
<1> QED BY <1>1, <1>2, JobKept

\* R4 advances the epoch by one and every other step keeps it.
LEMMA EpochGrows ==
    ASSUME TypeOK, [Next]_vars
    PROVE  /\ lib.epoch \in Nat /\ lib'.epoch \in Nat
           /\ \/ ~CommitRestore /\ lib'.epoch = lib.epoch
              \/ CommitRestore /\ lib'.epoch = lib.epoch + 1
<1>1. lib.epoch \in Nat
  BY DEF TypeOK, Library
<1>2. CASE CommitRestore
  BY <1>1, <1>2 DEF CommitRestore, TypeOK, Library
<1> QED BY <1>1, <1>2, EpochKept

\* A new row records the epoch the Library has.
LEMMA EpochsStep ==
    ASSUME TypeOK, RunsName, PickedKept, TwinsCoalesced, EpochsPast, [Next]_vars
    PROVE  EpochsPast'
<1> SUFFICES ASSUME NEW j \in Jobs PROVE job'[j].epoch <= lib'.epoch
  BY DEF EpochsPast
<1>0. job[j].epoch \in Nat /\ job[j].epoch <= lib.epoch
  BY DEF EpochsPast, TypeOK, Row
<1>1. CASE SameJob(j)
  BY <1>0, <1>1, EpochGrows DEF SameJob
<1>2. CASE Appears(j)
  <2>1. CASE CommitRestore
    <3>1. lib'.epoch = lib.epoch + 1
      BY <2>1, EpochGrows
    <3>2. job'[j].epoch = lib.epoch \/ job'[j].epoch = lib.epoch + 1
      BY <1>2, NewRowFields DEF Appears
    <3> QED BY <3>1, <3>2, EpochGrows
  <2>2. CASE ~CommitRestore
    <3>1. job'[j].epoch = lib.epoch
      BY <1>2, <2>2, NewRowFields DEF Appears
    <3> QED BY <2>2, <3>1, EpochGrows
  <2> QED BY <2>1, <2>2
<1>3. CASE Prune(j)
  <2>1. job'[j].epoch = 0
    <3>1. job'[j] = NewRow(RebuildKey, 0, "absent", 0)
      BY <1>3 DEF Prune, TypeOK
    <3> QED BY <3>1, NewRowFields
  <2> QED BY <2>1, EpochGrows
<1> QED BY <1>1, <1>2, <1>3, RowStep DEF RowSteps, Rests, Moves, Resolves

\* A row that a restore has overtaken stays overtaken.
LEMMA StaleKept ==
    ASSUME TypeOK, EpochsPast, [Next]_vars, NEW j \in Jobs, SameJob(j), ~Stale(j)'
    PROVE  ~Stale(j) /\ (CommitRestore => ~IsLibrary(j))
<1>1. job[j].epoch \in Nat /\ job[j].epoch <= lib.epoch
  BY DEF EpochsPast, TypeOK, Row
<1>2. CASE lib'.epoch = lib.epoch
  <2>1. ~CommitRestore
    BY <1>2, EpochGrows
  <2> QED BY <1>2, <2>1 DEF Stale, IsLibrary, SameJob
<1>3. CASE lib'.epoch = lib.epoch + 1
  <2>1. job[j].epoch # lib'.epoch
    BY <1>1, <1>3, EpochGrows
  <2> QED BY <2>1 DEF Stale, IsLibrary, SameJob
<1> QED BY <1>2, <1>3, EpochGrows

-----------------------------------------------------------------------------
(* Changes and the rows made for them *)

\* Within an epoch, and for what no restore replaces, committed changes only
\* grow.
LEMMA CanonicalGrows ==
    ASSUME TypeOK, [Next]_vars, NEW k \in Keys, CommitRestore => k \notin LibraryKeys
    PROVE  canonical'[k] >= canonical[k]
<1>0. canonical[k] \in Nat
  BY DEF TypeOK
<1>1. CASE UNCHANGED canonical
  BY <1>0, <1>1
<1>2. ASSUME NEW x \in Keys, CommitChange(x) PROVE canonical'[k] >= canonical[k]
  BY <1>0, <1>2 DEF CommitChange, TypeOK
<1>3. CASE CommitRestore
  BY <1>0, <1>3, KeysAssumption DEF CommitRestore
<1>4. ASSUME NEW w \in Workers, CommitTx(w) PROVE UNCHANGED canonical
  BY <1>4 DEF CommitTx
<1> QED BY <1>1, <1>2, <1>3, <1>4, DataKept

\* Nor do the derived rows go back, but for a restore.
LEMMA DerivedGrows ==
    ASSUME TypeOK, TxReads, [Next]_vars, NEW k \in Keys, CommitRestore => k \notin LibraryKeys
    PROVE  derived'[k] >= derived[k]
<1>1. CASE CommitRestore
  <2>1. derived'[k] = derived[k] /\ derived[k] \in Nat
    BY <1>1 DEF CommitRestore, TypeOK
  <2> QED BY <2>1
<1>2. CASE ~CommitRestore
  BY <1>2, EpochGrows, NeverBackStep
<1> QED BY <1>1, <1>2

\* A row's change is committed with it.
LEMMA MadeStep ==
    ASSUME TypeOK, RunsName, PickedKept, TwinsCoalesced, EpochsPast, InsertingNext,
           MadeCommitted, [Next]_vars, TypeOK'
    PROVE  MadeCommitted'
<1> SUFFICES ASSUME NEW j \in Jobs, job'[j].state \notin {"absent", "inserting"}, ~Stale(j)'
             PROVE  job'[j].made <= canonical'[job'[j].key]
  BY DEF MadeCommitted
<1>0. /\ job[j].made \in Nat /\ job[j].key \in Keys /\ canonical[job[j].key] \in Nat
      /\ canonical'[job[j].key] \in Nat
  BY DEF TypeOK, Row
<1>1. CASE SameJob(j) /\ job[j].state \notin {"absent", "inserting"}
  <2>1. ~Stale(j) /\ (CommitRestore => job[j].key \notin LibraryKeys)
    BY <1>1, StaleKept DEF IsLibrary
  <2>2. canonical'[job[j].key] >= canonical[job[j].key]
    BY <1>0, <2>1, CanonicalGrows
  <2> QED BY <1>0, <1>1, <2>1, <2>2 DEF MadeCommitted, SameJob
<1>2. CASE Resolves(j)
  <2> DEFINE k == job[j].key
  <2>1. CommitChange(k) /\ job[j].state = "inserting" /\ job'[j].made = job[j].made
        /\ job'[j].key = k
    BY <1>2 DEF Resolves, SameJob
  <2>2. canonical'[k] = canonical[k] + 1
    BY <1>0, <2>1 DEF CommitChange, TypeOK
  <2>3. job[j].made = canonical[k] + 1
    BY <2>1 DEF InsertingNext, InState
  <2> QED BY <1>0, <2>1, <2>2, <2>3
<1>3. CASE Appears(j)
  <2>1. ASSUME NEW k \in Keys, Tick(k), job'[j] = NewRow(k, lib.epoch, "queued", canonical[k])
        PROVE  job'[j].made <= canonical'[job'[j].key]
    <3>1. job'[j].made = canonical[k] /\ job'[j].key = k
      BY <2>1, NewRowFields
    <3>2. canonical' = canonical /\ canonical[k] \in Nat
      BY <2>1 DEF Tick, TypeOK
    <3> QED BY <3>1, <3>2
  <2>2. CASE CommitRestore /\ job'[j] = NewRow(RebuildKey, lib.epoch + 1, "queued", 1)
    <3>1. job'[j].made = 1 /\ job'[j].key = RebuildKey
      BY <2>2, NewRowFields
    <3>2. canonical'[RebuildKey] = 1
      BY <2>2, KeysAssumption DEF CommitRestore
    <3> QED BY <3>1, <3>2
  <2> QED BY <1>3, <2>1, <2>2, NewRowFields DEF Appears
<1>4. ~Prune(j)
  BY NewRowFields DEF Prune, TypeOK
<1> QED BY <1>1, <1>2, <1>3, <1>4, RowStep DEF RowSteps, Rests, Moves, Active, Resolves

\* A restore waits for the commands that are open on its Library.
LEMMA DrainedRows ==
    ASSUME TypeOK, InsertingOpen, CommitRestore, NEW j \in InState("inserting")
    PROVE  job[j].key \notin LibraryKeys
  BY DEF CommitRestore, Drained, LibraryRowFree, InsertingOpen

\* The change that inserted a row is the next one of its key, and one command
\* at a time is open on a key.
LEMMA InsertingNextStep ==
    ASSUME TypeOK, RunsName, PickedKept, TwinsCoalesced, InsertingOpen, InsertingNext,
           [Next]_vars
    PROVE  InsertingNext'
<1> SUFFICES ASSUME NEW j \in Jobs, job'[j].state = "inserting"
             PROVE  job'[j].made = canonical'[job'[j].key] + 1
  BY DEF InsertingNext, InState
<1> DEFINE k == job[j].key
<1>1. CASE Rests(j)
  <2>1. /\ job[j].state = "inserting" /\ job'[j].key = k /\ job'[j].made = job[j].made
        /\ job[j].made = canonical[k] + 1 /\ k \in Keys
    BY <1>1 DEF Rests, SameJob, InsertingNext, InState, TypeOK, Row
  <2>2. canonical'[k] = canonical[k]
    <3>1. ASSUME NEW x \in Keys, CommitChange(x) PROVE canonical'[k] = canonical[k]
      <4>1. x # k
        BY <1>1, <2>1, <3>1 DEF CommitChange, TypeOK, Row
      <4> QED BY <2>1, <3>1, <4>1 DEF CommitChange, TypeOK
    <3>2. CASE CommitRestore
      <4>1. k \notin LibraryKeys
        BY <2>1, <3>2, DrainedRows DEF InState
      <4> QED BY <2>1, <3>2, <4>1, KeysAssumption DEF CommitRestore
    <3>3. ASSUME NEW w \in Workers, CommitTx(w) PROVE UNCHANGED canonical
      BY <3>3 DEF CommitTx
    <3> QED BY <3>1, <3>2, <3>3, DataKept
  <2> QED BY <2>1, <2>2
<1>2. ASSUME NEW x \in Keys, InsertJob(x),
             job'[j] = NewRow(x, lib.epoch, "inserting", canonical[x] + 1)
      PROVE  job'[j].made = canonical'[job'[j].key] + 1
  <2>1. job'[j].made = canonical[x] + 1 /\ job'[j].key = x
    BY <1>2, NewRowFields
  <2> QED BY <1>2, <2>1 DEF InsertJob
<1>3. ~Moves(j) /\ ~Prune(j) /\ ~Resolves(j)
  BY NewRowFields DEF Moves, Settled, Prune, TypeOK, Resolves
<1> QED BY <1>1, <1>2, <1>3, RowStep, NewRowFields DEF RowSteps, Appears

\* An open command keeps its row, or coalesced into a job of its key.
LEMMA OpenStep ==
    ASSUME TypeOK, RunsName, PickedKept, TwinsCoalesced, InsertingOpen, OpenHasRow, [Next]_vars
    PROVE  OpenHasRow'
<1> DEFINE Open(k) == /\ cmd'[k] = "inserted" =>
                            \E j \in Jobs : job'[j].state = "inserting" /\ job'[j].key = k
                      /\ cmd'[k] = "coalesced" => k \in CoalescedKeys
<1> SUFFICES ASSUME NEW k \in Keys PROVE Open(k)
  BY DEF OpenHasRow, InState
<1>0. cmd \in [Keys -> {"none", "inserted", "coalesced"}]
  BY DEF TypeOK
<1>1. ASSUME cmd'[k] = cmd[k], ~CommitChange(k), ~RollbackChange(k) PROVE Open(k)
  <2>1. CASE cmd[k] = "inserted"
    <3>1. PICK j \in Jobs : job[j].state = "inserting" /\ job[j].key = k
      BY <2>1 DEF OpenHasRow, InState
    <3>2. Rests(j)
      BY <1>1, <3>1, RowStep DEF RowSteps, Moves, Active, Appears, Resolves, Prune
    <3> QED BY <1>1, <2>1, <3>1, <3>2 DEF Rests, SameJob
  <2> QED BY <1>1, <2>1 DEF OpenHasRow
<1>2. ASSUME NEW x \in Keys, InsertJob(x) PROVE Open(k)
  <2>1. CASE x = k
    <3>1. PICK j \in Jobs : job' = [job EXCEPT ![j] =
                               NewRow(k, lib.epoch, "inserting", canonical[k] + 1)]
      BY <1>2, <2>1 DEF InsertJob, InState
    <3>2. job'[j].state = "inserting" /\ job'[j].key = k
      BY <3>1, NewRowFields DEF TypeOK
    <3> QED BY <1>0, <1>2, <2>1, <3>2 DEF InsertJob
  <2>2. CASE x # k
    <3>1. cmd'[k] = cmd[k] /\ ~CommitChange(k) /\ ~RollbackChange(k)
      BY <1>0, <1>2, <2>2 DEF InsertJob, CommitChange, RollbackChange
    <3> QED BY <1>1, <3>1
  <2> QED BY <2>1, <2>2
<1>3. ASSUME NEW x \in Keys, DedupeHit(x) PROVE Open(k)
  <2>1. CASE x = k
    BY <1>0, <1>3, <2>1 DEF DedupeHit
  <2>2. CASE x # k
    <3>1. cmd'[k] = cmd[k] /\ ~CommitChange(k) /\ ~RollbackChange(k)
      BY <1>0, <1>3, <2>2 DEF DedupeHit, CommitChange, RollbackChange
    <3> QED BY <1>1, <3>1
  <2> QED BY <2>1, <2>2
<1>4. ASSUME NEW x \in Keys, CommitChange(x) \/ RollbackChange(x) PROVE Open(k)
  <2>1. CASE x = k
    BY <1>0, <1>4, <2>1 DEF CommitChange, RollbackChange
  <2>2. CASE x # k
    <3>1. cmd'[k] = cmd[k] /\ ~CommitChange(k) /\ ~RollbackChange(k)
      BY <1>0, <1>4, <2>2 DEF CommitChange, RollbackChange
    <3> QED BY <1>1, <3>1
  <2> QED BY <2>1, <2>2
<1>5. CASE UNCHANGED cmd
  <2>1. ~CommitChange(k) /\ ~RollbackChange(k)
    BY <1>0, <1>5 DEF CommitChange, RollbackChange
  <2> QED BY <1>1, <1>5, <2>1
<1> QED
  BY <1>2, <1>3, <1>4, <1>5, Zenon
  DEF Next, ClaimStep, RunStep, StopStep, FaultStep, vars, Tick, ClaimPick, ClaimTake,
      ClaimLostRace, BeginTx, BeginRefused, CommitTx, Complete, FailRead, FailApply, Heartbeat,
      ReleaseRead, ReleaseApply, ReleaseFails, Restart, Raise, Abandon, Crash, LeaseStalls,
      LeaseExpires, Reap, Prune, EnterMaintenance, AbortRestore, CommitRestore

-----------------------------------------------------------------------------
(* Runs and what they derived *)

\* A row a run names stays the same job.
LEMMA NamedSame ==
    ASSUME TypeOK, RunsName, PickedKept, TwinsCoalesced, NamedRowKept, [Next]_vars,
           NEW w \in Workers, run[w].job \in Jobs, run'[w].job = run[w].job
    PROVE  SameJob(run[w].job)
<1>1. job[run[w].job].state \notin {"absent", "inserting"}
  BY DEF NamedRowKept
<1>2. ~Prune(run[w].job)
  BY DEF Prune
<1> QED BY <1>1, <1>2, RowStep DEF RowSteps, Rests, Moves, Appears, Resolves

\* A transaction begins after its job's change is committed.
LEMMA TxMadeStep ==
    ASSUME TypeOK, RunsName, PickedKept, TwinsCoalesced, NamedRowKept, MadeCommitted,
           TxReadsMade, [Next]_vars
    PROVE  TxReadsMade'
<1> SUFFICES ASSUME NEW w \in Workers, run'[w].pc = "tx"
             PROVE  job'[run'[w].job].made <= run'[w].read
  BY DEF TxReadsMade
<1>1. CASE BeginTx(w)
  <2> DEFINE j == run[w].job
  <2>1. j \in Jobs /\ job' = job /\ run'[w].job = j /\ run'[w].read = canonical[job[j].key]
    BY <1>1 DEF BeginTx, RunsName, TypeOK, Run
  <2>2. job[j].state = "running" /\ ~Stale(j)
    BY <1>1 DEF BeginTx, Fenced, Holds, Stale
  <2> QED BY <2>1, <2>2 DEF MadeCommitted
<1>2. CASE run[w].pc = "tx" /\ run'[w].job = run[w].job /\ run'[w].read = run[w].read
  <2>1. run[w].job \in Jobs
    BY <1>2 DEF RunsName
  <2> QED BY <1>2, <2>1, NamedSame DEF SameJob, TxReadsMade
<1>3. ~ \E j \in Jobs : ClaimPick(w, j)
  BY Zenon DEF ClaimPick, IdleRun, TypeOK
<1> QED BY <1>1, <1>2, <1>3, NewLockers

\* A run that commits has derived its job's change, and only a restore, which
\* cancels the row, could take that back.
LEMMA DoneStep ==
    ASSUME TypeOK, RunsName, PickedKept, TwinsCoalesced, NamedRowKept, EpochsPast, TxReads,
           TxReadsMade, DoneServed, [Next]_vars, TypeOK'
    PROVE  DoneServed'
<1> SUFFICES ASSUME NEW w \in Workers, run'[w].pc = "done", Holds(w)', ~Stale(run[w].job)',
                    run'[w].job = run[w].job, run'[w].lease = run[w].lease
             PROVE  job'[run[w].job].made <= derived'[job'[run[w].job].key]
  BY NewDone DEF DoneServed
<1> DEFINE j == run[w].job
           k == job[j].key
<1>1. run[w].pc = "done" \/ CommitTx(w)
  BY NewDone
<1>2. j \in Jobs /\ SameJob(j) /\ Holds(w)
  BY <1>1, NamedSame, HoldsBefore DEF RunsName, CommitTx
<1>3. ~Stale(j) /\ (CommitRestore => k \notin LibraryKeys)
  BY <1>2, StaleKept DEF IsLibrary
<1>4. k \in Keys /\ job[j].made \in Nat /\ derived[k] \in Nat /\ derived'[k] \in Nat
  BY <1>2 DEF TypeOK, Row
<1>5. CASE CommitTx(w)
  <2>1. derived'[k] = run[w].read
    BY <1>4, <1>5 DEF CommitTx, TypeOK
  <2>2. job[j].made <= run[w].read
    BY <1>5 DEF TxReadsMade, CommitTx
  <2> QED BY <1>2, <2>1, <2>2 DEF SameJob
<1>6. CASE run[w].pc = "done"
  <2>1. job[j].made <= derived[k]
    BY <1>2, <1>3, <1>6 DEF DoneServed
  <2>2. derived'[k] >= derived[k]
    BY <1>3, <1>4, DerivedGrows
  <2> QED BY <1>2, <1>4, <2>1, <2>2 DEF SameJob
<1> QED BY <1>1, <1>5, <1>6

\* Only a coalesced row has a queued twin.
LEMMA TwinsStep ==
    ASSUME TypeOK, RunsName, PickedKept, NamedRowKept, TwinsCoalesced, [Next]_vars
    PROVE  TwinsCoalesced'
<1> SUFFICES ASSUME NEW w \in Workers,
                    (run'[w].pc = "failing" /\ run'[w].twin) \/ run'[w].rel = "twin"
             PROVE  job'[run'[w].job].key \in CoalescedKeys
  BY DEF TwinsCoalesced
<1>1. run'[w].job = run[w].job /\ run[w].job \in Jobs
  BY NewTwin
<1>2. job[run[w].job].key \in CoalescedKeys
  BY NewTwin DEF TwinsCoalesced, QueuedTwins
<1> QED BY <1>1, <1>2, NamedSame DEF SameJob

-----------------------------------------------------------------------------
(* The two promises *)

\* A job succeeds only after its change is derived, and stays served.
LEMMA ServedStep ==
    ASSUME TypeOK, RunsName, PickedKept, TwinsCoalesced, EpochsPast, TxReads, DoneServed,
           SucceededServed, [Next]_vars, TypeOK'
    PROVE  SucceededServed'
<1> SUFFICES ASSUME NEW j \in Jobs, job'[j].state = "succeeded", ~Stale(j)'
             PROVE  derived'[job'[j].key] >= job'[j].made
  BY DEF SucceededServed, InState
<1> DEFINE k == job[j].key
<1>1. k \in Keys /\ job[j].made \in Nat /\ derived[k] \in Nat /\ derived'[k] \in Nat
  BY DEF TypeOK, Row
<1>2. Rests(j) \/ Moves(j)
  BY RowStep, NewRowFields DEF RowSteps, Appears, Resolves, Prune, TypeOK
<1>3. SameJob(j)
  BY <1>2 DEF Rests, Moves
<1>4. ~Stale(j) /\ (CommitRestore => k \notin LibraryKeys)
  BY <1>3, StaleKept DEF IsLibrary
<1>5. derived'[k] >= derived[k]
  BY <1>1, <1>4, DerivedGrows
<1>6. derived[k] >= job[j].made
  <2>1. CASE Rests(j)
    BY <1>4, <2>1 DEF Rests, SucceededServed, InState
  <2>2. CASE Moves(j)
    <3>1. PICK w \in Workers : Complete(w) /\ run[w].job = j /\ Holds(w)
      BY <2>2 DEF Moves
    <3> QED BY <1>1, <1>4, <3>1 DEF Complete, DoneServed
  <2> QED BY <1>2, <2>1, <2>2
<1> QED BY <1>1, <1>3, <1>5, <1>6 DEF SameJob

\* The job of the last change of an uncoalesced kind.
Carries(j, k) == /\ job[j].key = k /\ job[j].made = canonical[k] /\ ~Stale(j)
                 /\ job[j].state \in {"queued", "running", "failed"}

\* It is given up by no other step than the one that has derived the change.
LEMMA CarriedStep ==
    ASSUME TypeOK, RunsName, PickedKept, TwinsCoalesced, DoneServed, [Next]_vars,
           NEW k \in Keys \ CoalescedKeys, NEW j \in Jobs, Carries(j, k),
           canonical'[k] = canonical[k], CommitRestore => k \notin LibraryKeys
    PROVE  Carries(j, k)' \/ canonical[k] <= derived[k]
<1>1. Rests(j) \/ Moves(j)
  BY RowStep DEF Carries, RowSteps, Appears, Resolves, Prune
<1>2. SameJob(j)
  BY <1>1 DEF Rests, Moves
<1>3. ~Stale(j)'
  <2>1. CASE CommitRestore
    BY <1>2, <2>1 DEF Carries, Stale, IsLibrary, SameJob
  <2>2. CASE ~CommitRestore
    BY <1>2, <2>2, EpochGrows DEF Carries, Stale, IsLibrary, SameJob
  <2> QED BY <2>1, <2>2
<1>4. CASE job'[j].state \in {"queued", "running", "failed"}
  BY <1>2, <1>3, <1>4 DEF Carries, SameJob
<1>5. CASE job'[j].state = "cancelled"
  BY <1>1, <1>5 DEF Carries, Rests, Moves, IsLibrary
<1>6. CASE job'[j].state = "succeeded"
  <2>1. PICK w \in Workers : Complete(w) /\ run[w].job = j /\ Holds(w)
    BY <1>1, <1>6 DEF Carries, Rests, Moves
  <2> QED BY <2>1 DEF Carries, Complete, DoneServed
<1> QED BY <1>1, <1>4, <1>5, <1>6 DEF Carries, Rests, Moves, Settled

\* A change's own row carries it from the commit on.
LEMMA NoLostStep ==
    ASSUME TypeOK, RunsName, PickedKept, TwinsCoalesced, TxReads, InsertingOpen,
           InsertingNext, OpenHasRow, DoneServed, NoLostChange, [Next]_vars, TypeOK'
    PROVE  NoLostChange'
<1> SUFFICES ASSUME NEW k \in Keys \ CoalescedKeys, derived'[k] < canonical'[k]
             PROVE  \E j \in Jobs : Carries(j, k)'
  BY DEF NoLostChange, Carries
<1>0. /\ derived[k] \in Nat /\ derived'[k] \in Nat /\ canonical[k] \in Nat
      /\ canonical'[k] \in Nat
  BY DEF TypeOK
<1>1. CASE CommitChange(k)
  <2>1. PICK j \in Jobs : job[j].state = "inserting" /\ job[j].key = k
    BY <1>1 DEF CommitChange, OpenHasRow, InState, TypeOK
  <2>2. job'[j] = [job[j] EXCEPT !.state = "queued"] /\ lib' = lib
    BY <1>1, <2>1 DEF CommitChange
  <2>3. job[j].made = canonical[k] + 1 /\ ~Stale(j)
    BY <2>1 DEF InsertingNext, InsertingOpen, InState
  <2>4. canonical'[k] = canonical[k] + 1
    BY <1>1 DEF CommitChange, TypeOK
  <2>5. job[j] \in Row
    BY DEF TypeOK
  <2>6. /\ job'[j].state = "queued" /\ job'[j].key = k /\ job'[j].epoch = job[j].epoch
        /\ job'[j].made = canonical'[k]
    BY <2>1, <2>2, <2>3, <2>4, <2>5 DEF Row
  <2> QED BY <2>1, <2>2, <2>3, <2>6 DEF Carries, Stale, IsLibrary
<1>2. ASSUME canonical'[k] = canonical[k], CommitRestore => k \notin LibraryKeys
      PROVE  \E j \in Jobs : Carries(j, k)'
  <2>1. derived[k] < canonical[k]
    BY <1>0, <1>2, DerivedGrows
  <2>2. PICK j \in Jobs : Carries(j, k)
    BY <2>1 DEF NoLostChange, Carries
  <2> QED BY <1>0, <1>2, <2>1, <2>2, CarriedStep
<1>3. CASE CommitRestore
  <2>1. CASE k \in LibraryKeys
    <3>1. canonical'[k] = 0
      BY <1>3, <2>1, KeysAssumption DEF CommitRestore
    <3> QED BY <1>0, <3>1
  <2>2. CASE k \notin LibraryKeys
    <3>1. canonical'[k] = canonical[k]
      BY <1>3, <2>2, KeysAssumption DEF CommitRestore
    <3> QED BY <1>2, <2>2, <3>1
  <2> QED BY <2>1, <2>2
<1>4. ASSUME NEW x \in Keys, CommitChange(x), x # k PROVE \E j \in Jobs : Carries(j, k)'
  <2>1. canonical'[k] = canonical[k]
    BY <1>4 DEF CommitChange, TypeOK
  <2>2. ~CommitRestore
    BY <1>4 DEF CommitChange, CommitRestore, TypeOK, Library
  <2> QED BY <1>2, <2>1, <2>2
<1>5. ASSUME ~CommitRestore, UNCHANGED canonical PROVE \E j \in Jobs : Carries(j, k)'
  BY <1>2, <1>5
<1>6. ASSUME NEW w \in Workers, CommitTx(w) PROVE UNCHANGED canonical
  BY <1>6 DEF CommitTx
<1> QED BY <1>1, <1>3, <1>4, <1>5, <1>6, DataKept

-----------------------------------------------------------------------------
(* The theorems *)

\* A new database has made no promise yet.
LEMMA ServedInitial == Init => SInv
  <1> SUFFICES ASSUME Init PROVE SInv
    OBVIOUS
  <1>1. \A j \in Jobs : job[j].state = "absent" /\ job[j].epoch = 0
    BY NewRowFields DEF Init
  <1>2. \A w \in Workers : run[w].pc = "idle" /\ run[w].rel = "no" /\ run[w].job \notin Jobs
    BY SentinelsAssumption DEF Init, IdleRun
  <1>3. NamedRowKept /\ TxReadsMade /\ DoneServed /\ TwinsCoalesced
    BY <1>2 DEF NamedRowKept, TxReadsMade, DoneServed, TwinsCoalesced
  <1>4. EpochsPast /\ MadeCommitted /\ InsertingNext /\ SucceededServed
    BY <1>1 DEF Init, EpochsPast, MadeCommitted, InsertingNext, SucceededServed, InState
  <1>5. OpenHasRow /\ NoLostChange
    BY DEF Init, OpenHasRow, NoLostChange
  <1> QED BY <1>3, <1>4, <1>5, Initial DEF SInv

\* The strengthened invariant is inductive.
THEOREM ServedInductive == Spec => []SInv
<1>1. SInv /\ [Next]_vars => SInv'
  <2> SUFFICES ASSUME SInv, [Next]_vars PROVE SInv'
    OBVIOUS
  <2>1. IInv'
    <3>1. TypeOK' /\ RunsName' /\ RunningCounted'
      BY TypeStep, NamesStep, CountedStep DEF SInv, IInv
    <3>2. PickedKept' /\ OneLocker' /\ FencedTx'
      BY LockStep DEF SInv, IInv
    <3>3. RunningApart' /\ ExclusiveTx'
      BY ApartStep, ExclusiveStep DEF SInv, IInv
    <3>4. InsertingOpen' /\ QueuedRunnable'
      BY InsertingStep, QueuedStep DEF SInv, IInv
    <3>5. TxReads' /\ DerivedFromCurrent'
      BY ReadsStep, CurrentStep DEF SInv, IInv
    <3> QED BY <3>1, <3>2, <3>3, <3>4, <3>5 DEF IInv
  <2>2. TypeOK'
    BY <2>1 DEF IInv
  <2>3. NamedRowKept' /\ EpochsPast' /\ TwinsCoalesced'
    BY NamedStep, EpochsStep, TwinsStep DEF SInv, IInv
  <2>4. MadeCommitted' /\ InsertingNext' /\ OpenHasRow'
    BY <2>2, MadeStep, InsertingNextStep, OpenStep DEF SInv, IInv
  <2>5. TxReadsMade' /\ DoneServed'
    BY <2>2, TxMadeStep, DoneStep DEF SInv, IInv
  <2>6. SucceededServed' /\ NoLostChange'
    BY <2>2, ServedStep, NoLostStep DEF SInv, IInv
  <2> QED BY <2>1, <2>3, <2>4, <2>5, <2>6 DEF SInv
<1> QED BY ServedInitial, <1>1, PTL DEF Spec

\* A succeeded job's change is in the derived rows.
THEOREM Served == Spec => []SucceededServed
<1>1. SInv => SucceededServed
  BY DEF SInv
<1> QED BY ServedInductive, <1>1, PTL

\* No change of an uncoalesced kind is left without a job, unless its job
\* failed visibly.
THEOREM NoneLost == Spec => []NoLostChange
<1>1. SInv => NoLostChange
  BY DEF SInv
<1> QED BY ServedInductive, <1>1, PTL

=============================================================================

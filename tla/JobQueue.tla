------------------------------ MODULE JobQueue ------------------------------
(***************************************************************************)
(* The PostgreSQL job queue and the workers that run it: backend/jobs/     *)
(* queue.py (the statements), runner.py (one claimed job), worker.py (the  *)
(* loop and its graceful stop), with the two parts of the system that race *)
(* it: the commands that enqueue a job in their own transaction, and the   *)
(* restore transaction that cancels a Library's jobs and advances its      *)
(* epoch.                                                                  *)
(*                                                                         *)
(* One Library is modelled.  A key stands for what a job is about: its     *)
(* kind, its dedupe_key, its singleton_key and the derived rows it writes. *)
(* canonical[k] counts the committed changes that made work on k due,      *)
(* derived[k] is the change the derived rows of k were computed from.      *)
(*                                                                         *)
(* Time is abstract: a lease may run out, and a backoff may end, at any    *)
(* moment.  A statement that is one atomic update is one action.  A claim  *)
(* and a fail or release are two, because each decides from a snapshot     *)
(* that another worker can outdate before the unique index is checked.     *)
(***************************************************************************)
EXTENDS Naturals, FiniteSets

CONSTANTS
    Jobs,          \* row identities of prks.jobs
    Workers,       \* worker processes
    Leases,        \* lease_id values
    Keys,          \* what a job is about
    LibraryKeys,   \* keys whose jobs carry library_id and library_epoch
    CoalescedKeys, \* keys enqueued with a dedupe_key
    SingletonGroups, \* sets of keys enqueued with one common singleton_key
    TickedKeys,    \* instance keys an idle task re-enqueues while they are due
    RebuildKey,    \* the key R4 enqueues at the new epoch
    NoJob, NoLease,
    MaxAttempts,   \* max_attempts of every row
    MaxChanges,    \* bound: committed changes of each key
    MaxRestores,   \* bound: restores that enter maintenance
    MaxFaults      \* bound: stalls, errors, crashes and stops

ASSUME KeysAssumption ==
    /\ LibraryKeys \subseteq Keys
    /\ CoalescedKeys \subseteq Keys
    /\ SingletonGroups \subseteq SUBSET Keys
    /\ TickedKeys \subseteq CoalescedKeys \ LibraryKeys
    /\ RebuildKey \in LibraryKeys \cap CoalescedKeys
ASSUME SentinelsAssumption == NoJob \notin Jobs /\ NoLease \notin Leases
ASSUME LeasesAssumption == Leases \subseteq Nat
ASSUME BoundsAssumption ==
    /\ MaxAttempts \in Nat \ {0}
    /\ MaxChanges \in [Keys -> Nat]
    /\ MaxRestores \in Nat
    /\ MaxFaults \in Nat

VARIABLES
    job,        \* the rows of prks.jobs
    run,        \* what each worker process is doing
    lib,        \* the Library row: epoch and maintenance flag
    cmd,        \* per key, the open command transaction changing it
    canonical, derived,
    faults

vars == <<job, run, lib, cmd, canonical, derived, faults>>

-----------------------------------------------------------------------------
(* Rows *)

Settled == {"succeeded", "failed", "cancelled"}
States  == {"absent", "inserting", "queued", "running"} \cup Settled

Row == [state: States, key: Keys, epoch: Nat, attempts: 0..MaxAttempts,
        lease: Leases \cup {NoLease}, expired: BOOLEAN, made: Nat]

\* The columns of prks.libraries the queue reads, and a bound's counter.
Library == [epoch: Nat, maintenance: BOOLEAN, restores: Nat]

NewRow(k, e, s, m) == [state |-> s, key |-> k, epoch |-> e, attempts |-> 0,
                       lease |-> NoLease, expired |-> FALSE, made |-> m]

InState(s)   == {j \in Jobs : job[j].state = s}
Active(j)    == job[j].state \in {"queued", "running"}
IsLibrary(j) == job[j].key \in LibraryKeys

\* _STALE_EPOCH: the Library is no longer at the epoch the row recorded.
Stale(j) == IsLibrary(j) /\ job[j].epoch # lib.epoch

\* The unique indexes jobs_dedupe and jobs_singleton.
SameSingleton(k, l) == \E G \in SingletonGroups : k \in G /\ l \in G

QueuedTwins(j) == {t \in Jobs \ {j} : /\ job[t].state = "queued"
                                      /\ job[t].key = job[j].key
                                      /\ job[j].key \in CoalescedKeys}
\* Mutant: a singleton_key that differs per dedupe_key.
RunningPeersOfKey(j) == {r \in Jobs \ {j} : job[r].state = "running" /\ job[r].key = job[j].key}

RunningPeers(j) == {r \in Jobs \ {j} : /\ job[r].state = "running"
                                       /\ SameSingleton(job[r].key, job[j].key)}

\* An uncommitted insert makes an insert or update of the same key wait.
InsertWaits(k) == \E t \in InState("inserting") :
                      job[t].key = k /\ k \in CoalescedKeys

\* The row is given back or ended: no statement of the old lease matches it.
Settle(j, s) == [job[j] EXCEPT !.state = s, !.lease = NoLease, !.expired = FALSE]

-----------------------------------------------------------------------------
(* Workers *)

(* pc: "pick" a claim holds the row FOR UPDATE; "run" the handler between  *)
(* transactions; "tx" inside a fenced transaction; "done" it returned;     *)
(* "raised" it failed; "failing" fail() has read its snapshot.             *)
(* rel: the main thread's release of the job on a stop, "twin"/"single"    *)
(* once release() has read its snapshot, "gone" when it is over.           *)
PCs  == {"idle", "pick", "run", "tx", "done", "raised", "failing"}
Rels == {"no", "due", "twin", "single", "gone"}

Run == [pc: PCs, job: Jobs \cup {NoJob}, lease: Leases \cup {NoLease},
        lost: BOOLEAN, read: Nat, twin: BOOLEAN, rel: Rels]

IdleRun == [pc |-> "idle", job |-> NoJob, lease |-> NoLease, lost |-> FALSE,
            read |-> 0, twin |-> FALSE, rel |-> "no"]

\* The handler thread ends; a pending release still names the job.
Finished(w) == IF run[w].rel = "no" THEN IdleRun
               ELSE [run[w] EXCEPT !.pc = "idle"]

\* The row still carries this run's lease (id, lease_id, state = 'running').
Holds(w) == LET j == run[w].job IN
    j \in Jobs /\ job[j].state = "running" /\ job[j].lease = run[w].lease

\* Mutant: a fenced transaction reads its row without FOR SHARE.
LockersNoShare(j) == {w \in Workers : run[w].job = j /\ run[w].pc = "pick"}

\* Row locks: a claim's FOR UPDATE and a fenced transaction's FOR SHARE.
Lockers(j) == {w \in Workers : run[w].job = j /\ run[w].pc \in {"pick", "tx"}}
Locked(j)  == Lockers(j) # {}

\* A lease_id no run and no other row has, as gen_random_uuid() gives: which of
\* them makes no difference, nor whether it is one this row had.
FreshLeases(i) ==
    LET fresh == Leases \ ({job[j].lease : j \in Jobs \ {i}} \cup {run[w].lease : w \in Workers})
    IN  {l \in fresh : \A m \in fresh : l <= m}

\* The handler runs: its row has not been settled by this run yet.
Working(w) == run[w].pc \in {"run", "tx", "done", "raised", "failing"}

-----------------------------------------------------------------------------
Init ==
    /\ job = [j \in Jobs |-> NewRow(RebuildKey, 0, "absent", 0)]
    /\ run = [w \in Workers |-> IdleRun]
    /\ lib = [epoch |-> 0, maintenance |-> FALSE, restores |-> 0]
    /\ cmd = [k \in Keys |-> "none"]
    /\ canonical = [k \in Keys |-> 0]
    /\ derived = [k \in Keys |-> 0]
    /\ faults = 0

Fault == faults < MaxFaults /\ faults' = faults + 1

-----------------------------------------------------------------------------
(* Commands: a change and its job in one transaction *)

\* library_command refuses a Library in maintenance before it writes.
Admitted(k) == k \in LibraryKeys => ~lib.maintenance

\* Mutant: the job is enqueued in a transaction of its own, before the change.
InsertJobEarly(k) ==
    /\ Admitted(k)
    /\ cmd[k] = "none" /\ canonical[k] < MaxChanges[k]
    /\ \E j \in InState("absent") :
          job' = [job EXCEPT ![j] = NewRow(k, lib.epoch, "queued", canonical[k] + 1)]
    /\ cmd' = [cmd EXCEPT ![k] = "inserted"]
    /\ UNCHANGED <<run, lib, canonical, derived, faults>>

\* Insert the change's row, still uncommitted.
InsertJob(k) ==
    /\ Admitted(k)
    /\ cmd[k] = "none" /\ canonical[k] < MaxChanges[k]
    /\ ~InsertWaits(k)
    /\ k \in CoalescedKeys => \A j \in InState("queued") : job[j].key # k
    /\ \E j \in InState("absent") :
          job' = [job EXCEPT ![j] = NewRow(k, lib.epoch, "inserting", canonical[k] + 1)]
    /\ cmd' = [cmd EXCEPT ![k] = "inserted"]
    /\ UNCHANGED <<run, lib, canonical, derived, faults>>

\* Mutant: every kind is coalesced.
DedupeHitAny(k) ==
    /\ Admitted(k)
    /\ cmd[k] = "none" /\ canonical[k] < MaxChanges[k]
    /\ \E j \in InState("queued") : job[j].key = k
    /\ cmd' = [cmd EXCEPT ![k] = "coalesced"]
    /\ UNCHANGED <<job, run, lib, canonical, derived, faults>>

\* ON CONFLICT DO NOTHING: a queued job of the key is there already.
DedupeHit(k) ==
    /\ Admitted(k)
    /\ cmd[k] = "none" /\ canonical[k] < MaxChanges[k]
    /\ k \in CoalescedKeys /\ \E j \in InState("queued") : job[j].key = k
    /\ cmd' = [cmd EXCEPT ![k] = "coalesced"]
    /\ UNCHANGED <<job, run, lib, canonical, derived, faults>>

\* COMMIT: the change and its job become visible together.
CommitChange(k) ==
    /\ cmd[k] # "none"
    /\ job' = [j \in Jobs |-> IF job[j].state = "inserting" /\ job[j].key = k
                              THEN [job[j] EXCEPT !.state = "queued"] ELSE job[j]]
    /\ canonical' = [canonical EXCEPT ![k] = @ + 1]
    /\ cmd' = [cmd EXCEPT ![k] = "none"]
    /\ UNCHANGED <<run, lib, derived, faults>>

\* ROLLBACK: neither remains.
RollbackChange(k) ==
    /\ cmd[k] # "none"
    /\ job' = [j \in Jobs |-> IF job[j].state = "inserting" /\ job[j].key = k
                              THEN [job[j] EXCEPT !.state = "absent"] ELSE job[j]]
    /\ cmd' = [cmd EXCEPT ![k] = "none"]
    /\ UNCHANGED <<run, lib, canonical, derived, faults>>

-----------------------------------------------------------------------------
(* claim() *)

\* Mutant: the attempts are not checked.
ClaimableAgain(j) ==
    /\ \/ job[j].state = "queued"
       \/ job[j].state = "running" /\ job[j].expired
    /\ IsLibrary(j) => ~lib.maintenance /\ ~Stale(j)
    /\ job[j].state = "queued" => RunningPeers(j) = {}

\* Mutant: an expired row is left to the reaper, which takes only exhausted ones.
ClaimableQueued(j) ==
    /\ job[j].state = "queued" /\ job[j].attempts < MaxAttempts
    /\ IsLibrary(j) => ~lib.maintenance /\ ~Stale(j)
    /\ RunningPeers(j) = {}

Claimable(j) ==
    /\ \/ job[j].state = "queued"
       \/ job[j].state = "running" /\ job[j].expired
    /\ job[j].attempts < MaxAttempts
    /\ IsLibrary(j) => ~lib.maintenance /\ ~Stale(j)
    /\ job[j].state = "queued" => RunningPeers(j) = {}

\* The inner SELECT: FOR UPDATE SKIP LOCKED takes one claimable row.
ClaimPick(w, j) ==
    /\ run[w].pc = "idle" /\ run[w].rel = "no"
    /\ Claimable(j) /\ ~Locked(j)
    /\ run' = [run EXCEPT ![w] = [IdleRun EXCEPT !.pc = "pick", !.job = j]]
    /\ UNCHANGED <<job, lib, cmd, canonical, derived, faults>>

\* The UPDATE: a new lease and one attempt more.
ClaimTake(w) == LET j == run[w].job IN
    /\ run[w].pc = "pick"
    /\ RunningPeers(j) = {}
    /\ \E l \in FreshLeases(j) :
          /\ job' = [job EXCEPT ![j] = [job[j] EXCEPT
                        !.state = "running", !.lease = l,
                        !.expired = FALSE, !.attempts = job[j].attempts + 1]]
          /\ run' = [run EXCEPT ![w] = [IdleRun EXCEPT !.pc = "run", !.job = j, !.lease = l]]
    /\ UNCHANGED <<lib, cmd, canonical, derived, faults>>

\* 23505 on jobs_singleton: another worker took the key; claim again.
ClaimLostRace(w) ==
    /\ run[w].pc = "pick"
    /\ RunningPeers(run[w].job) # {}
    /\ run' = [run EXCEPT ![w] = IdleRun]
    /\ UNCHANGED <<job, lib, cmd, canonical, derived, faults>>

-----------------------------------------------------------------------------
(* JobRun: the handler, its fenced transactions and its heartbeat *)

\* The job row FOR SHARE with its lease, then the clock; a Library job also
\* passes library_command's maintenance and epoch checks.
Fenced(w) == LET j == run[w].job IN
    /\ Holds(w) /\ ~job[j].expired
    /\ IsLibrary(j) => ~lib.maintenance /\ ~Stale(j)

\* Mutant: no advisory lock on the subject.
SubjectFreeAlways(w) == TRUE

\* A handler of a key without a singleton_key serializes on its subject
\* (reindex_work's advisory lock).
SubjectFree(w) == LET k == job[run[w].job].key IN
    \/ k \in UNION SingletonGroups
    \/ \A v \in Workers \ {w} : run[v].pc = "tx" => job[run[v].job].key # k

\* The fenced transaction starts and reads the canonical rows.
BeginTx(w) ==
    /\ run[w].pc = "run" /\ ~run[w].lost
    /\ ~Locked(run[w].job) /\ Fenced(w) /\ SubjectFree(w)
    /\ run' = [run EXCEPT ![w].pc = "tx", ![w].read = canonical[job[run[w].job].key]]
    /\ UNCHANGED <<job, lib, cmd, canonical, derived, faults>>

\* Nothing is written: LeaseLost ends the run.  A lease that is still this
\* run's but expired, or a maintenance refusal, reaches a Library job inside
\* library_command, where it is an error of the handler (AccessRefused).
BeginRefused(w) ==
    /\ run[w].pc = "run" /\ (run[w].lost \/ (~Locked(run[w].job) /\ ~Fenced(w)))
    /\ \/ /\ run[w].lost \/ ~Holds(w) \/ job[run[w].job].expired
          /\ run' = [run EXCEPT ![w] = Finished(w)]
       \/ /\ ~run[w].lost /\ Holds(w) /\ IsLibrary(run[w].job)
          /\ run' = [run EXCEPT ![w].pc = "raised"]
    /\ UNCHANGED <<job, lib, cmd, canonical, derived, faults>>

\* COMMIT: the derived rows now stand for what the transaction read, and what
\* it read is forgotten.
CommitTx(w) ==
    /\ run[w].pc = "tx"
    /\ derived' = [derived EXCEPT ![job[run[w].job].key] = run[w].read]
    /\ run' = [run EXCEPT ![w].pc = "done", ![w].read = 0]
    /\ UNCHANGED <<job, lib, cmd, canonical, faults>>

\* The handler raises, inside a transaction (rolled back) or outside one.
Raise(w) ==
    /\ run[w].pc \in {"run", "tx", "done"}
    /\ run' = [run EXCEPT ![w].pc = "raised", ![w].read = 0]
    /\ Fault
    /\ UNCHANGED <<job, lib, cmd, canonical, derived>>

\* A beat extends the lease, or finds it gone and marks the run lost.  It
\* waits for the row lock of the run's own transaction.
Heartbeat(w) == LET j == run[w].job IN
    /\ run[w].pc = "run" /\ ~run[w].lost /\ ~Locked(j)
    /\ IF Holds(w)
       THEN /\ job[j].expired
            /\ job' = [job EXCEPT ![j].expired = FALSE]
            /\ UNCHANGED run
       ELSE /\ run' = [run EXCEPT ![w].lost = TRUE]
            /\ UNCHANGED job
    /\ UNCHANGED <<lib, cmd, canonical, derived, faults>>

\* complete(): succeeded, or nothing when the lease was lost.
Complete(w) == LET j == run[w].job IN
    /\ run[w].pc = "done" /\ ~Locked(j)
    /\ job' = IF ~run[w].lost /\ Holds(w)
              THEN [job EXCEPT ![j] = Settle(j, "succeeded")] ELSE job
    /\ run' = [run EXCEPT ![w] = Finished(w)]
    /\ UNCHANGED <<lib, cmd, canonical, derived, faults>>

\* fail() reads its snapshot: is a twin queued?  An abandoned run is LOST.
FailRead(w) ==
    /\ run[w].pc = "raised"
    /\ run' = [run EXCEPT ![w] = IF run[w].lost \/ ~Holds(w) THEN Finished(w)
                                 ELSE [@ EXCEPT !.pc = "failing",
                                                !.twin = QueuedTwins(run[w].job) # {}]]
    /\ UNCHANGED <<job, lib, cmd, canonical, derived, faults>>

\* _FAIL_SQL's order: stale, then exhausted, then a twin, else queued again.
FailState(j, twin) ==
    IF Stale(j) THEN "cancelled"
    ELSE IF job[j].attempts >= MaxAttempts THEN "failed"
    ELSE IF twin THEN "cancelled" ELSE "queued"

\* The update, or 23505 on jobs_dedupe when a twin committed meanwhile.
FailApply(w) == LET j == run[w].job
                    s == FailState(j, run[w].twin) IN
    /\ run[w].pc = "failing" /\ ~Locked(j)
    /\ IF ~Holds(w)
       THEN /\ run' = [run EXCEPT ![w] = Finished(w)]
            /\ UNCHANGED job
       ELSE /\ s = "queued" => ~InsertWaits(job[j].key)
            /\ IF s = "queued" /\ QueuedTwins(j) # {}
               THEN /\ run' = [run EXCEPT ![w].twin = TRUE]
                    /\ UNCHANGED job
               ELSE /\ job' = [job EXCEPT ![j] = Settle(j, s)]
                    /\ run' = [run EXCEPT ![w] = Finished(w)]
    /\ UNCHANGED <<lib, cmd, canonical, derived, faults>>

-----------------------------------------------------------------------------
(* Worker._run on a stop: the job is given back, its handler abandoned *)

\* The grace period is over (or the job never began): mark_lost, then release.
Abandon(w) ==
    /\ Working(w) /\ run[w].rel = "no"
    /\ run' = [run EXCEPT ![w].lost = TRUE, ![w].rel = "due"]
    /\ Fault
    /\ UNCHANGED <<job, lib, cmd, canonical, derived>>

ReleaseRead(w) ==
    /\ run[w].rel = "due"
    /\ run' = [run EXCEPT ![w].rel = IF QueuedTwins(run[w].job) # {} THEN "twin" ELSE "single"]
    /\ UNCHANGED <<job, lib, cmd, canonical, derived, faults>>

\* Cancelled when stale or a twin is queued; else queued without spending
\* the attempt; 23505 on jobs_dedupe reads the snapshot again.
ReleaseApply(w) == LET j == run[w].job IN
    /\ run[w].rel \in {"twin", "single"} /\ ~Locked(j)
    /\ IF ~Holds(w)
       THEN run' = [run EXCEPT ![w].rel = "gone"] /\ UNCHANGED job
       ELSE IF Stale(j) \/ run[w].rel = "twin"
       THEN /\ job' = [job EXCEPT ![j] = Settle(j, "cancelled")]
            /\ run' = [run EXCEPT ![w].rel = "gone"]
       ELSE /\ ~InsertWaits(job[j].key)
            /\ IF QueuedTwins(j) # {}
               THEN run' = [run EXCEPT ![w].rel = "due"] /\ UNCHANGED job
               ELSE /\ job' = [job EXCEPT ![j] = [Settle(j, "queued") EXCEPT !.attempts = @ - 1]]
                    /\ run' = [run EXCEPT ![w].rel = "gone"]
    /\ UNCHANGED <<lib, cmd, canonical, derived, faults>>

\* The release could not be recorded (the handler's own transaction holds
\* the row): the lease simply expires.
ReleaseFails(w) ==
    /\ run[w].rel \in {"due", "twin", "single"} /\ Locked(run[w].job)
    /\ run' = [run EXCEPT ![w].rel = "gone"]
    /\ UNCHANGED <<job, lib, cmd, canonical, derived, faults>>

\* The stopped process exits (its daemon thread dies, an open transaction
\* rolls back) and a new one starts.
Restart(w) ==
    /\ run[w].rel = "gone"
    /\ run' = [run EXCEPT ![w] = IdleRun]
    /\ UNCHANGED <<job, lib, cmd, canonical, derived, faults>>

\* The process dies, or its statement that records the outcome fails and the
\* thread ends: nothing is recorded, row locks are released.
Crash(w) ==
    /\ run[w].pc # "idle" \/ run[w].rel # "no"
    /\ run' = [run EXCEPT ![w] = IdleRun]
    /\ Fault
    /\ UNCHANGED <<job, lib, cmd, canonical, derived>>

-----------------------------------------------------------------------------
(* The clock, the reaper, the idle task, the prune job, the restore *)

\* A run that has not been abandoned extends this row's lease, or is about to
\* settle the row.
Attended(j) == \E w \in Workers : Working(w) /\ ~run[w].lost
                                  /\ run[w].job = j /\ run[w].lease = job[j].lease

\* locked_until passes: because the worker stalled (a fault) ...
LeaseStalls(j) ==
    /\ job[j].state = "running" /\ ~job[j].expired /\ Attended(j)
    /\ job' = [job EXCEPT ![j].expired = TRUE]
    /\ Fault
    /\ UNCHANGED <<run, lib, cmd, canonical, derived>>

\* ... or because no run attends to it any more.
LeaseExpires(j) ==
    /\ job[j].state = "running" /\ ~job[j].expired /\ ~Attended(j)
    /\ job' = [job EXCEPT ![j].expired = TRUE]
    /\ UNCHANGED <<run, lib, cmd, canonical, derived, faults>>

\* Mutant: one attempt more than a claim gives counts as exhausted.
ReapBeyond(j) ==
    /\ job[j].state = "running" /\ job[j].expired /\ ~Locked(j)
    /\ job[j].attempts > MaxAttempts \/ Stale(j)
    /\ job' = [job EXCEPT ![j] = Settle(j, IF Stale(j) THEN "cancelled" ELSE "failed")]
    /\ UNCHANGED <<run, lib, cmd, canonical, derived, faults>>

\* reap(): an expired row no claim can take.
Reap(j) ==
    /\ job[j].state = "running" /\ job[j].expired /\ ~Locked(j)
    /\ job[j].attempts >= MaxAttempts \/ Stale(j)
    /\ job' = [job EXCEPT ![j] = Settle(j, IF Stale(j) THEN "cancelled" ELSE "failed")]
    /\ UNCHANGED <<run, lib, cmd, canonical, derived, faults>>

\* The idle task of a coalesced kind: due, and no job of it active.
Tick(k) ==
    /\ k \in TickedKeys /\ derived[k] < canonical[k]
    /\ ~InsertWaits(k)
    /\ \A j \in Jobs : job[j].key = k => ~Active(j)
    /\ \E j \in InState("absent") :
          job' = [job EXCEPT ![j] = NewRow(k, lib.epoch, "queued", canonical[k])]
    /\ UNCHANGED <<run, lib, cmd, canonical, derived, faults>>

\* jobs.prune deletes a succeeded or cancelled row after the retention.
Prune(j) ==
    /\ job[j].state \in {"succeeded", "cancelled"}
    /\ \A w \in Workers : run[w].job # j
    /\ job' = [job EXCEPT ![j] = NewRow(RebuildKey, 0, "absent", 0)]
    /\ UNCHANGED <<run, lib, cmd, canonical, derived, faults>>

\* Library transactions hold the Library row FOR SHARE until they end.
LibraryRowFree ==
    /\ \A k \in LibraryKeys : cmd[k] = "none"
    /\ \A w \in Workers : run[w].pc = "tx" => ~IsLibrary(run[w].job)

\* R2: the Library row FOR NO KEY UPDATE, then the maintenance flag.
EnterMaintenance ==
    /\ ~lib.maintenance /\ lib.restores < MaxRestores
    /\ LibraryRowFree
    /\ lib' = [lib EXCEPT !.maintenance = TRUE, !.restores = lib.restores + 1]
    /\ UNCHANGED <<job, run, cmd, canonical, derived, faults>>

\* R5 of an aborted restore: the flag clears, the epoch stays.
AbortRestore ==
    /\ lib.maintenance
    /\ lib' = [lib EXCEPT !.maintenance = FALSE]
    /\ UNCHANGED <<job, run, cmd, canonical, derived, faults>>

\* R3 has drained the Library's transactions, and the update that cancels
\* its jobs waits for a claim's row lock.
Drained == LibraryRowFree /\ \A j \in Jobs : IsLibrary(j) => ~Locked(j)

\* Mutant: R4 cancels only the running jobs.
SupersedeRunning(j) == IF IsLibrary(j) /\ job[j].state = "running"
                       THEN Settle(j, "cancelled") ELSE job[j]

\* _CANCEL_JOBS_SQL, on every row.
Supersede(j) == IF IsLibrary(j) /\ Active(j) THEN Settle(j, "cancelled") ELSE job[j]

\* Mutant: the rows are replaced under commands and handlers still open.
CommitRestoreAtOnce ==
    /\ lib.epoch < MaxRestores
    /\ lib' = [lib EXCEPT !.maintenance = FALSE, !.epoch = lib.epoch + 1]
    /\ canonical' = [k \in Keys |-> IF k \in LibraryKeys THEN 0 ELSE canonical[k]]
    /\ derived' = [k \in Keys |-> IF k \in LibraryKeys THEN 0 ELSE derived[k]]
    /\ job' = [j \in Jobs |-> Supersede(j)]
    /\ UNCHANGED <<run, cmd, faults>>

\* R4: the rows are replaced, the Library's jobs cancelled, the epoch
\* advances, the flag clears and the rebuild is enqueued at the new epoch.
CommitRestore ==
    /\ lib.maintenance /\ Drained
    /\ lib' = [lib EXCEPT !.maintenance = FALSE, !.epoch = lib.epoch + 1]
    /\ canonical' = [k \in Keys |-> IF k = RebuildKey THEN 1
                                    ELSE IF k \in LibraryKeys THEN 0 ELSE canonical[k]]
    /\ derived' = [k \in Keys |-> IF k \in LibraryKeys THEN 0 ELSE derived[k]]
    /\ \E r \in InState("absent") :
          job' = [j \in Jobs |-> IF j = r THEN NewRow(RebuildKey, lib.epoch + 1, "queued", 1)
                                 ELSE Supersede(j)]
    /\ UNCHANGED <<run, cmd, faults>>

-----------------------------------------------------------------------------
ClaimStep(w) == (\E j \in Jobs : ClaimPick(w, j)) \/ ClaimTake(w) \/ ClaimLostRace(w)
RunStep(w)   == BeginTx(w) \/ BeginRefused(w) \/ CommitTx(w) \/ Complete(w)
                \/ FailRead(w) \/ FailApply(w)
StopStep(w)  == ReleaseRead(w) \/ ReleaseApply(w) \/ ReleaseFails(w) \/ Restart(w)
FaultStep(w) == Raise(w) \/ Abandon(w) \/ Crash(w)

Next ==
    \/ \E k \in Keys : InsertJob(k) \/ DedupeHit(k) \/ CommitChange(k)
                       \/ RollbackChange(k) \/ Tick(k)
    \/ \E w \in Workers : ClaimStep(w) \/ RunStep(w) \/ Heartbeat(w)
                          \/ StopStep(w) \/ FaultStep(w)
    \/ \E j \in Jobs : LeaseStalls(j) \/ LeaseExpires(j) \/ Reap(j) \/ Prune(j)
    \/ EnterMaintenance \/ AbortRestore \/ CommitRestore

Spec == Init /\ [][Next]_vars

(* A worker process keeps taking its steps, a client transaction ends, the *)
(* clock runs, the reaper, the idle task and the prune job recur, and a    *)
(* restore that entered maintenance ends.  Statements that wait for a row  *)
(* lock or for an uncommitted unique key get their turn when its holder    *)
(* ends (strong fairness); a claim skips locked rows instead, and nothing  *)
(* locks an exhausted row (weak).  Heartbeats, faults and new changes are  *)
(* never owed.                                                             *)
Fairness ==
    /\ \A w \in Workers : WF_vars(ClaimStep(w)) /\ SF_vars(RunStep(w) \/ StopStep(w))
    /\ \A k \in Keys : WF_vars(CommitChange(k) \/ RollbackChange(k))
    /\ \A k \in TickedKeys : SF_vars(Tick(k))
    /\ \A j \in Jobs : WF_vars(LeaseExpires(j)) /\ WF_vars(Reap(j)) /\ WF_vars(Prune(j))
    /\ WF_vars(AbortRestore \/ CommitRestore)

FairSpec == Spec /\ Fairness

-----------------------------------------------------------------------------
(* Properties *)

\* Every variable keeps the shape the code gives it.
TypeOK ==
    /\ job \in [Jobs -> Row]
    /\ run \in [Workers -> Run]
    /\ lib \in Library
    /\ cmd \in [Keys -> {"none", "inserted", "coalesced"}]
    /\ canonical \in [Keys -> Nat]
    /\ derived \in [Keys -> Nat]
    /\ faults \in Nat

\* A handler's open transaction belongs to the row's current lease and epoch
\* until it commits, whatever reclaims, reaps, stops or restores happen
\* meanwhile ("either commits while the lease is still this worker's or does
\* not commit at all", runner.py).
FencedTx == \A w \in Workers :
    run[w].pc = "tx" => Holds(w) /\ ~Stale(run[w].job)

\* Two handler transactions about one key or one singleton_key are never open
\* together, although two handlers of it may run (a stalled worker and the one
\* that reclaimed its job).
ExclusiveTx == \A v, w \in Workers :
    (v # w /\ run[v].pc = "tx" /\ run[w].pc = "tx") =>
        LET k == job[run[v].job].key
            l == job[run[w].job].key
        IN k # l /\ ~SameSingleton(k, l)

\* No job is left queued but unclaimable: it has an attempt left, and a
\* Library job is of the current epoch (queue.py on the exhausted branch and
\* _STALE_EPOCH; restore's cancellation).
QueuedRunnable == \A j \in InState("queued") :
    job[j].attempts < MaxAttempts /\ ~Stale(j)

\* A succeeded job's change is in the derived rows, whoever wrote them last.
SucceededServed == \A j \in InState("succeeded") :
    ~Stale(j) => derived[job[j].key] >= job[j].made

\* A committed change of an uncoalesced kind is derived, or a job made for it
\* is queued or running, or it failed visibly ("each change gets a job that
\* runs after it", reindex.py).
NoLostChange == \A k \in Keys \ CoalescedKeys :
    derived[k] < canonical[k] =>
        \E j \in Jobs : /\ job[j].key = k /\ job[j].made = canonical[k]
                        /\ ~Stale(j)
                        /\ job[j].state \in {"queued", "running", "failed"}

\* Derived rows hold nothing a restore has replaced: no handler that read the
\* old rows writes after R4 ("once step 5 passes, the epoch cannot change before
\* the command commits", library_scope.py).
DerivedFromCurrent == \A k \in Keys : derived[k] <= canonical[k]

\* Derived rows never go back to an older change within one epoch: a stale
\* worker's late transaction cannot overwrite a newer one's result.
DerivedNeverBack ==
    [][lib'.epoch = lib.epoch => \A k \in Keys : derived'[k] >= derived[k]]_vars

\* Every job is settled: no crash, stall, stop, singleton or maintenance
\* leaves one queued or running for ever, nor does its last attempt's lease
\* when it runs out, which no claim takes (reap).
EveryJobSettles == \A j \in Jobs : Active(j) ~> ~Active(j)

\* A coalesced kind catches up with every committed change, although a change
\* may coalesce into a job that runs before it commits (the idle task).
TickedCatchUp == \A k \in TickedKeys :
    derived[k] < canonical[k] ~> derived[k] = canonical[k]

-----------------------------------------------------------------------------
(* The inductive invariant of the safety properties above *)

\* A run that is not idle, or still has a release to make, names a row.
RunsName == \A w \in Workers :
    run[w].pc # "idle" \/ run[w].rel # "no" => run[w].job \in Jobs

\* A claim's row stays claimable while the claim holds its lock.
PickedKept == \A w \in Workers : run[w].pc = "pick" =>
    /\ job[run[w].job].state \in {"queued", "running"}
    /\ job[run[w].job].attempts < MaxAttempts

\* A running row has spent an attempt, which a release gives back.
RunningCounted == \A j \in InState("running") : job[j].attempts > 0

\* A row has one locker: SKIP LOCKED and FOR SHARE exclude each other, and
\* only the run that holds the lease shares it.
OneLocker == \A v, w \in Workers :
    /\ run[v].pc \in {"pick", "tx"} /\ run[w].pc \in {"pick", "tx"}
    /\ run[v].job = run[w].job
    => v = w

\* The index jobs_singleton: running rows of one singleton_key are one row.
RunningApart == \A i, j \in InState("running") :
    i # j => ~SameSingleton(job[i].key, job[j].key)

\* An uncommitted row belongs to the open command on its key, which keeps the
\* Library at the epoch the row recorded.
InsertingOpen == \A j \in InState("inserting") :
    cmd[job[j].key] = "inserted" /\ job[j].attempts = 0 /\ ~Stale(j)

\* What an open transaction read lies between the derived and the canonical.
TxReads == \A w \in Workers : run[w].pc = "tx" =>
    LET k == job[run[w].job].key IN
    derived[k] <= run[w].read /\ run[w].read <= canonical[k]

IInv ==
    /\ TypeOK /\ RunsName /\ PickedKept /\ RunningCounted
    /\ OneLocker /\ FencedTx
    /\ RunningApart /\ ExclusiveTx
    /\ InsertingOpen /\ QueuedRunnable
    /\ TxReads /\ DerivedFromCurrent

=============================================================================

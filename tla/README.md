# PRKS in TLA+

PRKS is a self-hosted research library: works, notes, annotations, people,
arguments and files. This directory holds TLA+ models of the parts of its
PostgreSQL backend and of its browser client whose correctness depends on the
order in which several actors act, the TLC configurations that check them on
small instances, and TLAPS proofs of their safety properties and of one
refinement for every instance.

    tlc -workers 2 -config MCJobQueueFence.cfg MCJobQueue     # a run
    tlapm JobQueueServed.tla                                  # the proofs

Six parts are done: the job queue (`JobQueue`), the stored objects with
restore and backup (`ObjectStore`), the pairing of a database with a data root
(`RootPairing`), the accounts whose stores a page of the browser may open
(`BrowserScope`), the browser's queue of operations with the server's ledger of
them (`Outbox`, which implements the abstract `Intents`), and the browser's
recovery of unsaved editor text (`EditorRecovery`). Each has a module `MC...`
with the values of its runs, and one or two modules of proofs.

## 1. The system

| Part | State | Operations | Meets |
|---|---|---|---|
| Commands (`backend/domain/**`, `identity/library_scope.py`) | the catalogue rows of one Library | one transaction per command, after an advisory lock, the Library row's share lock, authorization and an epoch check | restore (the locks), jobs (enqueued in the same transaction), sync ledger |
| Job queue (`backend/jobs/queue.py`) | `prks.jobs`: state, lease, attempts, epoch, dedupe and singleton keys | enqueue, claim and reclaim, heartbeat, complete, fail, release, reap, prune | commands, workers, restore (which cancels) |
| Workers (`jobs/runner.py`, `jobs/worker.py`) | the current run: job, lease, "lost" flag | run a handler, its fenced transactions, its heartbeat thread, stop with a grace period, idle tasks | queue, handlers |
| Derived data (`research/reindex.py`, `search/*`) | mentions, search rows, extracted text | reindex one Work, rebuild a Library in batches, repair | queue, notes, restore |
| Object lifecycle (`objects/lifecycle.py`, `objects/jobs.py`) | cleanup claims; which catalogue rows name which stored object | adopt, release, settle, sweep orphans | object store, restore staging, backup |
| Restore and backup (`domain/maintenance/*`) | a run row with a lease and a phase, the Library's maintenance flag and epoch, staged keys | R0 to R5, recovery of an expired run, backup create | commands, queue, object lifecycle |
| Sync ledger (`backend/sync/*`) | one row per operation id and its stored answer | normalise, claim, apply, replay, refuse | browser outbox, commands |
| Data root pairing (`storage/root_*.py`, `identity/root_pairing.py`) | the marker file and `prks.instance` | claim, verify at start, count starts | web and worker start |
| Identity (`identity/*`) | users, sessions, bootstrap tokens, login attempts | log in, renew, revoke, limit | commands |
| SQLite backend (`backend/*.py`) | one SQLite file and its derived caches | the same product on the older store | browser |
| Browser queue (`frontend/js/local-store.js`, `sync-runtime.js`) | per account an IndexedDB outbox all tabs share; per tab a coordinator | record, coalesce, claim, send, give back, acknowledge, settle, retire, review | sync ledger, account scope |
| Browser account scope (`frontend/js/browser-scope.js`) | the last confirmed account and the last explicit sign-out, in IndexedDB; per page the bound account and its epochs | resolve, verify, note an epoch, sign out, retire | sessions, browser queue |
| Editor recovery (`frontend-app/src/lifecycle/editor-recovery/*`, `frontend/js/work-note-recovery.js`) | per account an IndexedDB store of drafts; per page a writer for each editor and a localStorage key with what is not yet stored | write, hide, merge dead pages' keys, acknowledge, clear, discard, adopt and restore a draft | browser queue, page locks |
| Browser, the rest (`frontend/js`, `frontend-app`) | caches, workspace layout | show what is cached | browser queue |

What is hard in it, and at which line, is the list `hazards` of `PROJECT.json`.
In short: a worker that stalls past its lease and comes back; claims that race
for one unique index; a decision taken from a snapshot that a concurrent commit
outdates; a restore that replaces a Library under running jobs; work that is
coalesced into a job that may run too early; a crash between a commit and its
record; a stored object whose last reference goes while another command adopts
it.

What makes each part correct:

- **Queue and workers.** No handler writes with a lease it no longer holds; two
  transactions about one subject never overlap; no job is left queued that no
  claim can take; every committed change is derived, queued, running or visibly
  failed; every job ends.
- **Restore.** Nothing read from the replaced rows is written after the epoch
  advances; the maintenance flag is cleared by the run that set it, or by the
  recovery of that run, and by nobody else.
- **Object lifecycle.** Bytes are deleted only when no row names them, and what
  no row names is deleted in the end.
- **Browser queue and sync ledger.** An operation takes effect at most once
  between two restores, however often it is sent; never after the user took it
  back; never in a Library restored since it was made; and it leaves the queue
  unapplied only to the user. It is not sent before what it depends on, and the
  queue empties.
- **Editor recovery.** Text that was once stored is lost only to the user or to
  the server that has it (refuted, section 9; nothing but a merge or a tombstone
  loses it); a discarded draft stays discarded (refuted for two mergers); an
  older text never replaces a newer one.
- **Account scope.** A page opens only the stores of its own account and takes
  no other Library's epoch for its own; a session that was signed out is never
  what an offline reload opens.
- **Pairing.** Two instances never serve one data root, also after a crash
  halfway through the claim.

## 2. Plan

The order is by how much of the system leans on the part.

| Step | Module | Content | State |
|---|---|---|---|
| 1 | `JobQueue` | queue, worker, runner, and the restore as the queue sees it | done |
| 2 | `ObjectStore` | adopt, release, settle and sweep; restore R1 to R5 and backup as objects see them | done |
| 3 | `RootPairing` | bootstrap, start check, reconcile and bump against the marker file | done |
| 4 | `Outbox`, `Intents` | at-least-once sending from the browser against the ledger of operation ids, and the abstract specification it implements | done, with the Person family |
| 5 | `BrowserScope` | session reads, the two shared records, sign-out, the pages that bind and retire | done |
| 6 | `WorkerStop` | the two threads of `Worker._run` with `_begin_lock`, its stop and its grace period; abstraction: JobQueue's Abandon | next |
| 7 | `JobLease` | what the queue promises to one job (one lease holder, attempts, an end), an abstract specification refined by JobQueue | later |
| 8 | `EditorRecovery` | the drafts of unsaved text between pages that hide, die, merge and take over | done, for one editor |
| 9 | `LoginLimiter`, `LibraryAccessGate` | the limiter's window; the SQLite backend's readers and restore | later |

JobQueue and ObjectStore both have a restore. They meet in its maintenance flag,
lease and commit: JobQueue keeps the jobs and the epoch, ObjectStore the rows,
claims and bytes. An abstract `LibraryState` (open, under maintenance of one
run, replaced) that both implement is the composition to state next to step 7.
Outbox sees the same restore as a new epoch and an older ledger.

Every invariant and action property that a passing run checks has its theorem
(section 10). Proofs still to write: for each later module its type invariant,
its main safety invariant and its refinement.

## 3. JobQueue

One module for the rows of `prks.jobs` and the processes that act on them.

| Variable | Code |
|---|---|
| `job` | the rows: `state`, `library_epoch`, `attempts`, `lease_id`, and `expired` for `locked_until < now()`; `made` is a history variable, the change the row was enqueued for; `"inserting"` is a row whose transaction has not committed |
| `run` | what a worker process does: the job thread's program counter, the lease it was given, `JobRun._lost`, what its transaction read, and the release of a stop |
| `lib` | the Library row: epoch and maintenance flag |
| `cmd` | per key, the open transaction of a command that changes it |
| `canonical`, `derived` | per key, the committed changes, and the change the derived rows were computed from |

A **key** bundles what identifies work: kind, dedupe_key, singleton_key and the
derived rows written. The constants say how a key is enqueued: with an epoch
(`LibraryKeys`), with a dedupe_key (`CoalescedKeys`), with a singleton_key shared
by a group of keys (`SingletonGroups`), and again by an idle task while due
(`TickedKeys`).

**Grain.** A statement that decides and updates at once (heartbeat, complete,
reap, prune) is one action. Three statements are split where the code can lose a
race: a claim's `FOR UPDATE SKIP LOCKED` select, then its update, which meets
`jobs_singleton`; `fail()` and `release()`, whose common table expression reads
whether a twin is queued before their update meets `jobs_dedupe`. A command is
insert, then commit or rollback, because an uncommitted insert makes others wait.
A fenced transaction is begin (locks, lease and epoch checks, read of the
canonical rows) and commit. Row locks are not stored: a claim in progress and an
open fenced transaction are the lockers of their row (`Lockers`).

**Abstractions.**
- Time: a lease may run out whenever its run no longer attends to it, or by a
  stall, which is a counted fault. `run_after` and priorities only order claims,
  so a claim takes any claimable row.
- A handler has one fenced transaction. The code's batch handlers run several in
  a row; each is checked like the first.
- `research.reindex_work` reads the note `FOR SHARE` and would wait for a command
  that has changed it; the model lets it read the committed note at once, which
  allows more behaviours.
- After a restore the counters of a Library's keys start again at 0: the
  replaced rows have no changes that are due except the rebuild R4 enqueues.
- A worker that records nothing (it died, or its statement failed and the job
  thread ended) is `Crash`.
- A failed row stays for ever, as in the code; an identity of a row is used again
  only after the prune job deleted it.
- A lease_id is drawn as the least number that no run and no other row has
  (`FreshLeases`): the code's are random, and only whether two are equal matters.

**Properties** (each stated in words above its definition): TypeOK, FencedTx,
ExclusiveTx, QueuedRunnable, SucceededServed, NoLostChange, DerivedFromCurrent,
DerivedNeverBack; and under fairness EveryJobSettles and TickedCatchUp.

## 4. ObjectStore

One module for the stored objects of a data root and the three parties that name
or delete them: Library commands with the cleanup pass, restores, and backups.

| Variable | Code |
|---|---|
| `bytes` | the objects that exist in the data root (`put_new` never overwrites, so only existence matters) |
| `minted` | the keys drawn so far: a new upload's key is fresh |
| `named` | the committed catalogue: per Library and row, the key it names (asset locators, processing items, portraits) |
| `claim` | `prks.object_cleanup_claims`: the claim's Library (none for an orphan) and its hold |
| `change` | the upload and then the transaction of a command: adopt, release, commit, and what follows a create |
| `settle` | the transaction of `settle_tx`, with what `references()` has read so far |
| `run`, `maint` | `prks.restore_runs` and `restore_run_objects` with the restoring process; `libraries.maintenance_run` |
| `backup`, `archives` | the backup run with its lease and copies; the published archives |

| Action | Code |
|---|---|
| Store, AdoptStored, AdoptShared, Drop, ReleaseOld, CommitChange, RefuseStored, UndoCreate, Abandon | an ingest or replacement: `store_pdf`, `adopt`, `release`, the commit, a refused command's claim, `delete_work(claim_files=False)` |
| Sweep, SettleClaim, SettleStaged, SettleNamed, SettleUnlink, SettleForget, SettleAbort | `claim_orphan`; `settle_tx` statement by statement, and its rollback |
| StartRestore, CheckIds, StageKey, PlaceKey, EnterRestore, DrainRestore, RecheckRestore, CommitRestore, AbortRestore, CrashRestore, ExpireRestore, RecoverRestore | R1 to R5, the abort, the death of the process, the lease, `recover()` |
| StartBackup, ShareObjects, ReadSnapshot, CopyObject, Publish, FailBackup, ExpireBackup, RenewBackup, RecoverBackup | the backup run |

**Locks** are not stored: the per-object advisory lock, the Library's
maintenance lock and its objects lock are held by whoever is at the pc that
holds them (`ObjectFree`, `CommandsDone`, `RestoreHolds`, `BackupShares`,
`SettleHolds`).

**Grain.** A step ends where another transaction could act in between. A settle
is five steps because its two reads run in one READ COMMITTED transaction that
sees commits between them, and because the file goes before the transaction
commits. A command adopts and releases in two steps and its effect is seen at its
commit. R1 inserts a staged row and then places its bytes.

**Abstractions.**
- A command works on one row. One that moves two keys is two rows here.
- The key a client names without uploading it is one its Library names or has
  released (`Known`); the import path is AdoptShared and Drop.
- One backup of a Library at a time, one settle at a time (the job
  `objects.cleanup` is a singleton).
- The grace period of the sweep and every lease may end at any moment.
- R0's validation, identity mapping and the archive's bytes are data: an archive
  is what its snapshot named and claimed.

**CreatesUndone.** A create that adopted stored bytes may be undone without a
claim. A file that loses its last name so has no claim, and the sweep makes one
without a Library, which no objects lock protects. With `CreatesUndone = TRUE`
neither BackupWhole nor LastNameClaimed holds; the run `undone_create` shows it,
and the runs that check these two set it to FALSE. Only the proofs of these two
need a value of it.

**BackupWhole is for one Library.** `adopt`'s docstring says that "the claim's
Library is the only one whose backups can hold it in a snapshot"
(`lifecycle.py:300`), and a settle takes the objects lock of the claim's Library
only. Among several Libraries a restore breaks that. An archive of Library 1,
made while it had released key k, carries the claim on k. Library 1 then names k
again through an older archive, which deletes its own claim. The first archive
may now be restored over Library 2: `_check_foreign_library_ids` compares its
claims with the claims of other Libraries, not with what they name, and R4
records k as claimed by Library 2. When Library 1 releases k, `_RECORD_CLAIM`
leaves that claim as it is, and a settle under Library 2's lock deletes k while a
backup of Library 1 has yet to copy it. TLC finds this behaviour, 25 steps long,
with two Libraries, one key and those two archives as InitialArchives. The run
and the proof (section 10) have one Library.

**Properties.** TypeOK, NamedStored, StagedStored, OneLibrary, BackupWhole,
LastNameClaimed, HoldsKept; under fairness GarbageGoes and MaintenanceEnds.


## 5. RootPairing

One module for processes that bootstrap, start and serve databases against data
roots. A database may be copied at any moment, as an operator would.

| Variable | Code |
|---|---|
| `db` | per database, the row of `prks.instance`: setup state, id, root, generation and token, previous token |
| `marker` | per root, the pairing fields of `prks-root.json` as a process reads them |
| `disk` | per root, the markers a loss of power may leave: the last one synced and every one renamed since |
| `holds` | the roots that hold stored objects |
| `proc` | per process, its pc, database and root, `root_is_new`, the row it read, the marker state its write expects, whether its bump is still owed, whether its session still has the start key |
| `past`, `served`, `faults` | history: every token a database has had, the tokens of the starts that served on a root, the faults that happened |

| Action | Code |
|---|---|
| ReadRoot, InsertInstance, ResumeInstance | `begin_bootstrap`: the file checks before the transaction, the insert, `_resume` |
| ClaimRoot, SyncClaim | `claim_root` under `root.claim`, and the directory sync |
| ReadClaim, MarkReady | `finish_bootstrap` |
| TakeStartKey, ReadInstance, CheckPasses, CheckReconciles | `start_process`, `_check_pairing`, `_needs_reconcile` |
| BumpDatabase, CompareMarker, ReplaceMarker, SyncMarker, ProveDurable | `_bump_database`, `bump_start_generation`, `marker_is_durable` |
| StoreObject, Quit, LoseSession, LosePower, CopyDatabase | the environment |

**Grain.** Every read and write of the marker file is a step of its own, and so
is every statement on the dedicated session. The sync and the read-back of a
marker write are one step: a rename of another process in between, possible only
after a lost session, counts as coming before the sync, and is refused by the
read-back all the same.

**Abstractions.** An instance is named by its first start token, since both are
drawn at once. Refusals, kills and failed writes all end the process (`Quit`);
so may a bootstrap token, which is left out with the testing flag, relocation
and the exclusive lock `root.lock`. `OneCopyStarts` is the limitation the
deployment documentation accepts as risk R20: a copy and its original are not
started against one root at the same moment. One may start while the other
serves.

**Properties.** TypeOK, OneInstance, OneLineage, StartableUnlessLost,
MarkerForward. Startable, without the exception for faults, is what a comment
and the architecture document promise, and is refuted (section 9). OneInstance
holds under every fault; the other three leave out, through `faults`, what a lost
session or a loss of power excuses.

## 6. BrowserScope

One module for the tabs of one browser. A page binds one account when it loads
and keeps it; all tabs share one cookie and two records in IndexedDB.

| Variable | Code |
|---|---|
| `session`, `epoch` | the server's side: whose session the cookie is, the epoch of each account's Library |
| `pointer` | the record of the last confirmed account, or of the time there was none (`noScopeRecord`) |
| `logout` | the record of an explicit sign-out |
| `page` | per tab: resolving, resolved or retired; the bound scope, `pageEpoch`, `latestEpoch`; a broadcast not yet delivered |
| `read` | the session reads: which tab's page began each and when, what it was answered, how often it was repeated, whether a later one was recorded before it |
| `leaving` | a tab's `signOut()` |
| `ended` | history: the sessions whose sign-out was recorded |

| Action | Code |
|---|---|
| Load, Verify, NoteEpoch | `resolve()`, `verify()`, `noteEpoch()` begin a read and take its stamp |
| Answer, FetchFails, Deadline | `fetchAnswer` and the deadline of a read |
| ArriveLate, RecordSession, RecordRefusal, RecordNothing, RecordFails | `readSession` after the answer: the order of reads, `pointer.write`, `pointer.forget`, and the repetition of an outranked answer |
| Fallback, Resolve, Settle, SignedOut | what `resolve()` and `verify()` do with the answer |
| Leave, LeaveFails, LeaveStamp, LeaveMark, LeaveMarkFails, Told | `signOut()`, `pointer.markLoggedOut`, the broadcast and `onChannelMessage` |
| SignIn, Expire, Restore | the server and what other pages do to the session |

**Grain.** A read is four steps, because other tabs act between them: it begins,
the server answers, one transaction records the answer, the page acts on it. The
arrival of an answer and its transaction are one step. A sign-out is three: the
server ends the session, the stamp is taken, the record is written.

**Abstractions.** The tabs share a pool of reads (`Reads`), a bound on those under
way in the whole browser; which of the free ones a page takes makes no difference.
A user stands for a scope and owns its Library. Stamps are
told apart up to `MaxClock` and equal from there on, as two stamps of one
millisecond are; a sign-out takes only a stamp that is told apart, because the
code's comparisons with it are what the properties are about. Within a page
`readSeq` rises with the stamps, so the stamp stands for both.

**Properties.** TypeOK; SignOutHolds (a session whose sign-out was recorded is
never the recorded one again); EpochOwn (a page's epochs are never ahead of its
own Library's); under fairness ForeignPageRetires and SignedOutPageRetires.

## 7. Outbox and Intents

`Outbox` has the queue of one account's browser, the coordinator of each of its
tabs, the requests under way, and the server's ledger. `Intents` is what they
promise together, with two variables: the fate of each change and how often it
took effect.

| Variable | Code |
|---|---|
| `row` | the operations as the browser keeps them: status, kind, dependencies, `library_epoch`, `attempt_count`, `server_result`; whether the server's rules take the payload |
| `storeEpoch` | the store's epoch, below which no operation is queued |
| `tab` | per tab the page and its coordinator: the step of `drain()`, the candidate, `priorAttempts`, the claim's attempt, the answer, `recovered`, `pageEpoch`, `latestEpoch` |
| `wire` | requests on their way or being served, with the attempt they belong to |
| `ledger`, `epoch`, `archive` | `prks.sync_operations`; the Library's epoch; the ledger in the archive of a restore |
| `applied` | history: how often each operation took effect |

| Action | Code |
|---|---|
| Create, SaveField, Delete | `createPerson`, `savePersonMetadataFields`, `deletePerson`, each one `runIntent` with its epoch check and its coalescing |
| Discard, DiscardRestored | `resolveConflict` without reapplying, with its dependents; the review list |
| Start, Crash, Verify | a page loads, dies, reads its session |
| Wake | `wake()`, `fenceEpoch`, `recover`, `repairTerminalConflictDependents` |
| Pick, Claim, Release, Send, Rest | `drain()` up to its request |
| Lose, Hold, Look, Apply | the network; admission; `process_operation`, `_claim_and_apply` |
| Timeout, GiveBack, EpochMoved, Record, RecordFails, Settle | what `drain()` makes of the answer, its catch, `settle`, `retire` |
| Backup, Restore | the Library's ledger goes back, its epoch forward |

**The refinement.** `Fate` reads from row and ledger what has become of an
operation: kept by the queue, stale (kept, but the Library was restored since),
applied, withdrawn, refused, up for review, or undone by a restore. `Intents`
lets only a kept change take effect, once; a restore leaves nothing kept. The
property KeepsPromise, `Promise!Spec`, therefore says in one formula what the
tests of the code check piece by piece: the claim of the op_id, the count of
attempts that decides what may still be withdrawn, the epoch sent with each
request, and the order of acknowledgement and retirement. `Late` is the one
freedom that is not obvious: after a restore the queue may learn that the change
had taken effect in the state the restore replaced.

**Grain.** Every IndexedDB transaction, every request and every server
transaction is a step. Merged are: the start of a drain (under the lock nobody
else resumes, retires or repairs), the transactions of one retirement (nothing
new can name an acknowledged row), and reconciliation with its acknowledgement,
which may fail as a whole and be repeated. A server transaction that an arbiter
of a race refuses leaves nothing, so it is no step.

**Abstractions.** One Person and one field; the number of an
operation stands for its op_id and its sequence. What other devices write shows
as the outcome of an application: acknowledged or refused. The other families
use the same outbox, coordinator and ledger with other scopes and outcomes;
reapplying a conflict and Work lifecycle markers are left out.

**The lock.** `Locks` says that the browser has `navigator.locks`, which it has
only on a secure origin. The runs have it, and the proofs of DependencyStored
and KeepsPromise assume it. Without it (`Locks = FALSE` in `MCOutbox.cfg`, and
`MaxFaults = 2` for DependencyStored) TLC
refutes both: the second tab's `recover()` puts the first tab's operation back
while its request is under way; an attempt of the second that is held at
admission gives the count of attempts back to 0; the user withdraws the
operation as one never sent; and the first request is applied all the same.
SentInOrder holds, and is proved, with and without the lock.

**Properties.** TypeOK, SentInOrder, DependencyStored, KeepsPromise; under
fairness Drains.

## 8. EditorRecovery

Text typed into a note's editor is stored in IndexedDB until the server has it.
A page that hides writes what it could not store yet to a localStorage key of
its own, with an entry for the lineage of the text; another page merges the keys
of dead pages into the store. The module has one note, at most one session of
its editor per page, and every page of the account.

| Variable | Code |
|---|---|
| `page` | a page load: not yet, open, or gone (its page lock is free, or it recorded its close) |
| `typed` | the bodies reported to a writer: generation, and the texts it was typed over |
| `draft` | the two object stores: a record and its body, or a tombstone |
| `key`, `marks` | `localStorage`: the entry of a page's emergency key; the generations marked superseded |
| `ed` | `WriterImpl`: the lineage, `lineageStored`, `committed`, `latest`, whether the last write failed; the text the editor shows |
| `listed`, `stones` | `emergencyIds` and `tombstoned`: what a page knows of its own key |
| `write`, `chore`, `scan`, `plan` | a page's promises under way: `startWrite`, `acknowledged`, `mergeKey`, a restore or a discard |
| `served` | the texts the server has acknowledged |
| `safe`, `dropped`, `discarded`, `gone` | histories the properties speak of |

| Action | Code |
|---|---|
| Edit, StartWrite, CommitWrite, FailWrite, AfterWrite | `edit`, `startWrite` with its continuations, the transaction of `writeGeneration` |
| Hide, Close, Crash | `onVisibility`, `onPageHide`; a page killed |
| Acknowledge, AskDelete, DeleteAcknowledged, AfterDelete | `onSync`, `acknowledged` with its `flush`, the transaction of `deleteIfAcknowledged` |
| Sweep, LeaveStone, ReleaseStone | `removeSuperseded` and the sweep at startup, `tombstoneIfListed`, `releaseTombstones` |
| StartScan, SkipKey, PickKey, ApplyEntry, RemoveKey, Unmark, EndScan | `readEmergencyKeys`, `mergeable`, and `mergeKey` between its awaits |
| Decide, ClearDraft, DiscardDraft, AdoptDraft, Restore | `restoreNow` and its plan, `discardReviewed`, `adopt` |

RefreshKey, which `changed()` runs after every change of a writer, is part of
those steps.

**Grain.** Every IndexedDB transaction is a step, and so is what a promise does
between two awaits; a read of localStorage is one with the step that begins
after it. A page that dies may have a transaction open: it commits before any
that another page begins, or never, so it is CommitWrite followed by Crash.

**Abstractions.** A text is a number, and the texts it was typed over stand for
its base: a draft may be restored while the note is none or one of those
(`judge` compares revision, length and fingerprint). A page that is gone is
known to be gone; a page that is there may miss a ping (`TakenForDead`,
Discardable), and the scan at startup then merges its key. A refused storage
write and a missed ping are faults.

**Properties.**
- TextKept: a text that was stored, or in a key with its body, is afterwards on
  the server, in the store, in a key, in a writer or discarded, or one typed
  over it is, whatever pages die, merge, acknowledge and adopt in between. The
  repository says so, and the code does not keep it.
- LostOnlyDropped: what is lost, a merge dropped or a tombstone buried; no
  acknowledgement, late write, adoption, crash or refused write loses a text.
- DiscardStays: a discarded draft of a page that was gone does not come back.
  The repository says so, and the code does not keep it.
- AdoptsDecided: a draft that a page takes over has the text on which the page
  decided, although `adopt` compares only owner and generation.
- LineageForward: a lineage's text is replaced only by one typed over it.

**How text is lost.** There are four ways, and `dropped` records each text
they concern. The run `text_dropped` has the first. A merge drops an entry with
a body when its lineage was committed and has no record left, and then removes
the key. The comment in `applyEmergencyEntry` (`store.ts:650`) takes such a
lineage for one "discarded by the user after it was committed". But the page
may have stored text 1, the user typed text 2 over it, the server acknowledged
text 1, its record been deleted, and the page closed with text 2 in its key,
naming the deleted lineage, before its writer moved to a new one. The other
three were met while the invariant below was looked for; TLC reaches each in a
run directed along it, with more texts, faults or pages than the runs have.

- "suppressed" (`store.ts:633`): the merge compares the tombstone's generation
  with the entry's, not its text. A tombstone of a longer chain of the same
  lineage suppresses a tail that was never part of it.
- "noop" on a fork: with three pages, a key that was merged, restored and typed
  over leaves a fork of another page with a higher generation, and a later tail
  of the first page whose fork has the same name and no higher generation is not
  applied.
- `tombstoneIfListed` (`writer.ts:990`) puts its tombstone without a look at the
  record. If a merge has made a draft of the key since the record was deleted,
  the draft is buried, which the comment in `discard` (`store.ts:564`) leaves to
  its caller.

LostOnlyDropped, which `editor` checks and section 10 proves, says that this
list is complete.

**Of how many pages AdoptsDecided and LineageForward are.** Generations tell
the texts of one chain apart. A lineage has one chain as long as one page at a
time takes it over, which two pages keep (section 10). With five, two forks of
one name can meet: an adoption then may take another text of the generation it
decided on. That is reasoned from the code and not run.

**How a discard is undone.** A scan is serialized within its page only, and the
transaction of `applyEmergencyEntry` does not know whether the key it came from
is still there. With three pages, two can merge one dead page's key: if the
first has re-read the key and not yet applied it when the second, which has,
removes the key and the user discards the draft there, that discard finds no
mark and no key and leaves no tombstone, and the first one's transaction
recreates the draft. That is the run `discard_undone`.

## 9. Runs

Symmetry is used only for safety. `CHECK_DEADLOCK FALSE` everywhere: once the
bounded changes, keys, tokens, faults and runs are spent a system may have
nothing left to do.

| Run | Instance | Question |
|---|---|---|
| `fence` | `research.reindex_work` (2 changes) beside two target lists of `derived.rebuild`, 2 workers, 2 rows, 3 leases, a restore, 1 fault | are leases, row locks and epochs enough for every kind of job at once? |
| `ends` | `objects.cleanup` (2 changes) with its idle task beside `derived.rebuild`, of a command and of a restore, 1 worker, 2 rows, 2 attempts, 2 faults, fair | is a change whose job coalesced and ran too early still served, and does every job end? |
| `objects_restore` | 2 Libraries, 1 command, 2 rows, 2 keys, 2 restores of one archive | can a settle, a sweep or another Library take a key a restore stages? |
| `objects_end` | 1 Library, 2 commands, 2 rows, 1 key, backups, a restore of an archive, fair | does the objects lock alone keep what a snapshot names, does every last name leave a claim, does garbage go, and does maintenance end? |
| `undone_create` | 1 Library, 2 commands, a backup | the backup's objects lock against an orphan: refuted |
| `pairing` | 2 processes, 2 databases, 1 root, 3 tokens, loss of power and of sessions | can two databases serve one root, and can one be locked out of its own? |
| `unsynced_start` | 2 processes, 1 database, 3 tokens, loss of power | the next start always reconciles: refuted |
| `scope` | 2 accounts, 2 tabs, 2 session reads under way, 4 stamps less the faults, 2 sign-ins, 1 fault, fair | can an answer that predates a sign-out, or that is about another account, bring an account back or raise a page's epoch, and does every page of an account that is gone retire? |
| `outbox` | 2 tabs, 2 operations, a restore, 1 fault, fair | do queue and ledger keep the promise of Intents, and does the queue empty? |
| `editor` | 2 pages, 2 texts, 1 adoption, 1 served text, 1 fault | what but a merge that drops it or a tombstone over it can lose stored text, and can an older or another text get into a lineage? |
| `text_dropped` | 2 pages, 2 texts, 1 served text, no adoption, no fault | stored text is lost only to the user or the server: refuted |
| `discard_undone` | 3 pages, 1 text, no fault | a key cannot recreate a discarded draft: refuted |

**Bounds of JobQueue.** Two workers are needed for every race in the queue (a
stalled one and its successor, two claims of one key); a third worker adds no
new pair. Two rows give a job and its twin or its singleton peer. Two attempts
give a retry and an exhausted row. There is a lease more than other rows and
other workers can have, so a claim always gets one. In `fence`, one fault gives a
stalled worker with a successor, or a failure, a stop or a crash beside a
restore: a claim loses its race for the singleton_key, a read of a twin is
outdated and a restore commits under a stalled worker. In `ends` there are as
many faults as attempts: a row may stall or lose its worker on both, and then no
claim takes it and only the reaper ends it; or it fails, its retry fails too,
and it ends as failed; or its release falls between. A rebuild that a command
enqueued may be queued, running, stalled or exhausted when the restore cancels
it, and the restore's own rebuild takes its singleton_key. A dedupe hit and a
tick fire. One worker is enough there, since what must end is the job it left.

**Bounds of ObjectStore.** `objects_end` has the two commands that two last names
going at once, and an adoption beside a release, need; the two rows that two
names of a key need; and backups beside a restore in its liveness, so that their
objects lock and their leases are in a settle's way. Its key is stored, named by
one row or both, let go, deleted, and placed again by a restore, which takes the
archive that a backup made or that of an empty Library (`MaxArchives = 2`). A
replacement of one key by another is in `objects_restore`, with two restores and
two Libraries: a key staged by both, and a second run after the first crashed. An
archive that names a key is given there, since taking one inside the run costs a
whole backup first. The third party of each hazard, a settle or a sweep, is
always there.

**Bounds of RootPairing.** Three tokens are two independent instances and one
bump, or one claim and two bumps, which is what a fork or an interrupted bump
needs (a bump, its interruption, the next). Two processes and two databases give
each race of two bootstraps, of two starts, and of a copy with its original. One
root suffices, because no check reads two.

**Bounds of BrowserScope.** Two tabs are one that signs out and one whose read
is under way. Two reads under way are two of one page, of which the later one may
be recorded first, or one of each page. Four stamps order a read before the
sign-out, the sign-out, a read after it and one to repeat it; a behaviour may
have a fault or a stamp more, not both (`Init`). A fault is a read without an
answer, a failed transaction, a lost sign-out answer, an expired session or a
restore. Two sign-ins are the same account again (its old session against its new
one) or two accounts. Two tries per read (`MaxReads`; the code has more) give a
repetition and its end. The accounts are alike and so are the tabs; `Alike`
names the first of each, in place of a symmetry, which liveness would forbid.

**Bounds of Outbox.** Two operations are a Person and an edit or a deletion of
it, one waiting for the other, or two edits of a field that coalesce. Longer
chains are the proofs' (section 10): all of the safety is proved for any number
of operations. Two tabs are a coordinator and one that wakes, edits or takes over.
One restore gives operations of an old epoch in every status. One fault is one
page that dies, one lost or late request, one failed transaction or one refused
session, each followed by every recovery.

**Bounds of EditorRecovery.** Two pages are one that types and dies and one that
merges, takes over and goes on typing, or two that are both there and one misses
a ping. Two texts of one lineage are a stored one and a tail, or a tail and what
is typed over the draft; of two lineages, two drafts of one note. One adoption
makes the entry of the first page's key a fork. One served text is an
acknowledgement before, between or after the writes; one fault is one refused
write, a key without its body, or a missed ping. The two refuted properties
need less, and have runs of their own with the least that refutes them.

**Fairness of JobQueue** (`ends`). A worker's loop claims whenever it can (weak
fairness); a claim skips locked rows. A statement that waits for a row lock or
for an uncommitted unique key is served in PostgreSQL's lock queue once the
holder ends, although the lock may be taken and released often before (strong
fairness on `RunStep`, `StopStep` and `Tick`). A client's transaction ends by
commit or rollback, a lease that nobody extends runs out, the reaper and the
prune job recur, and a restore that entered maintenance ends or is recovered
(weak fairness; nothing locks an exhausted row). Heartbeats, faults and new
changes are never owed.

**Fairness of ObjectStore** (`objects_end`). A command ends by commit, refusal
or death, and so does a restore's process, whose lease then runs out and which
recovery then cleans up; a backup that may be published is published or fails; a
settle that has begun to unlink commits or fails; the sweep recurs (weak
fairness). The cleanup pass may find a lock taken each time it comes, and a
settle may be aborted at each step, so the steps of a settle of one key get
strong fairness. No command is owed, and no restore or backup is owed success.

**Fairness of BrowserScope** (`scope`). A visible page verifies at least
once a minute (`watchLifecycle`), a read that began ends, at its deadline if not
before, and a message of a BroadcastChannel is delivered: weak fairness for each.
`Verify` has strong fairness only because the tabs share the model's pool of
reads: in the browser no read of another tab keeps a page from beginning its own.
Loads, sign-ins, sign-outs and faults are never owed.

**Fairness of Outbox** (`outbox`). A page that stays open goes on with its
drain, and requests are served (weak fairness). A drain that finds the lock
taken is tried again every two seconds or so, at a random moment, while each
holder's drain ends, so it gets the lock in the end: strong fairness on `Wake`.
No user action, no page load and no fault is owed; Drains supposes that the
pages are open again in the end.

**Findings.** Each is a sentence of the repository that its run refutes; the
quotations are in `findings` of `PROJECT.json`.
- `undone_create`: an orphan's claim has no Library, so its settle takes no
  objects lock, and a file whose last name was an undone create may be deleted
  under a running backup.
- `unsynced_start`: only a start that does not bump proves the marker durable
  before it goes on. One that bumps over a marker that was renamed but never
  synced may leave, after a loss of power, a database two generations ahead of
  its own root.
- `text_dropped`: an acknowledgement deletes a lineage's record too, so a merge
  that finds none does not know of a discard, and drops text that nobody
  discarded and the server does not have.
- `discard_undone`: a merge looks at the key before its transaction and not in
  it, and only one page's merges are serialized, so two pages that merge one key
  can recreate a draft that was discarded in between.

## 10. Proofs

Every theorem holds for all values of the constants that satisfy the named
ASSUMEs of its module, which say how the key sets are related, that a sentinel is
no value, and that bounds are numbers. Each proof module has one inductive
invariant, one lemma per part of it, and a last theorem per property.

**JobQueueProofs.**

    Types       Spec => []TypeOK            Runnable   Spec => []QueuedRunnable
    Fencing     Spec => []FencedTx          Current    Spec => []DerivedFromCurrent
    Exclusion   Spec => []ExclusiveTx       NeverBack  Spec => DerivedNeverBack

None of these is inductive alone. `IInv` adds why they hold:

- `OneLocker`, `PickedKept`: a row has one locker, because a claim skips locked
  rows and only the run with the row's lease shares it. So while a transaction
  is open its row keeps its lease (LockedRowKept), which gives FencedTx.
- `RunningApart`: what the index `jobs_singleton` keeps. With FencedTx, two
  open transactions are on two running rows, so their keys differ and share no
  group, and reindex's own lock covers keys without a singleton_key: ExclusiveTx.
- `InsertingOpen`, `RunningCounted`: an uncommitted row belongs to an open
  command that keeps the Library's epoch, and a running row has spent an
  attempt: QueuedRunnable after a commit, a release and a restore.
- `TxReads`: what an open transaction read lies between the derived and the
  canonical rows, because no other transaction of the key can commit meanwhile
  (ExclusiveTx) and a restore waits for it: DerivedFromCurrent and
  DerivedNeverBack.

The lemma of each part goes through the actions that can disturb it; the others
are dismissed by lemmas such as NewLockers and DataKept.

**JobQueueServed** extends it.

    Served   Spec => []SucceededServed     NoneLost  Spec => []NoLostChange

`SInv` adds to `IInv` what a row's change and epoch say of the committed ones:
no row is of a later epoch than its Library's (`EpochsPast`), a committed row's
change is committed or replaced (`MadeCommitted`), an uncommitted row is about
the next change of its key (`InsertingNext`), which its command still has to
commit (`OpenHasRow`), and a transaction reads at least its own job's change
(`TxReadsMade`), so a returned handler that still holds its row has derived it
(`DoneServed`). A row is given up unserved only for a twin, which only coalesced
kinds have (`TwinsCoalesced`). RowStep says once that every step of the system
is, for one row, one of five things: it rests, moves on, appears, is resolved
with its command, or is pruned. The lemmas of the parts go by these five and no
longer by the actions.

**ObjectStoreProofs.**

    Types       Spec => []TypeOK         Apart   Spec => []OneLibrary
    Stored      Spec => []NamedStored    Holds   Spec => HoldsKept
    StagedKept  Spec => []StagedStored
    Claimed     ~CreatesUndone => (Spec => LastNameClaimed)
    WholeOfOne  one Library, ~CreatesUndone => (Spec => []BackupWhole)

The three invariants hold only together (a restore that commits turns staged
keys into names), and need what the locks keep, which is the rest of `SInv`:

- `CommandsSafe`: from its adoption to its commit a key has bytes, no settle and
  no second command works on it, and no other Library names or stages it.
- `SettleSafe`: what a settle has read of its key stays true while it holds it.
  The hard case is the step from "unstaged" to "doomed": the staged keys are
  read first, so an R4 in between has turned a staged key into a name that the
  second read sees, and no later R1 can stage the key while it is locked.
- `SettleUnheld`: a claim that a settle has locked does not become a hold.
- `RunsSafe`: a restore past R1 has staged every key of its archive.

LastNameClaimed and BackupWhole add `LockInv`, who holds which lock:

- `CommandsApart`, `ReleaseRight`: two commands are on two rows and hold the
  locks of different keys. Another command can only drop a name of a key under
  its lock, so what release() found of the last name is still so when its
  command commits: Claimed.
- `SettleAlone`: a settle has its key's lock alone, and its claim still is the
  one it read, so its Library is the one whose objects lock it took.
- `DrainsAlone`, `BackupsAlone`: a restore past R3 is alone in its Library, and a
  backup shares the objects lock with no settle and no restore.
- `TodoKept`: what a backup has still to copy is named by its Library or claimed
  by it. With one Library the claim a release finds is no other Library's, and a
  settle of such a claim would need the lock the backup holds: WholeOfOne.
  Section 4 says why several Libraries do not have it.

**RootPairingProofs.**

    Types   Spec => []TypeOK             Served  Spec => []OneInstance
    OneLineageServed  Spec => []OneLineage
    NeverRefused      Spec => []StartableUnlessLost
    Forward           Spec => MarkerForward

`OneInstance` needs the way a claim travels from the file to the database.
`Committed` is its heart: once a database is ready, every marker that a loss of
power may leave on its root carries its instance. `ProcSafe` carries that
through a process: `HoldsRow` (a bootstrap goes by a row of its own root),
`Claimed` (its claim is in the marker after step 2's write, and on the disk
after its sync), `Knows` (a start goes by the row of its ready database and is
at that row's root). The sync between claim and ready is what the proof of
MarkReady uses; the re-read under `root.claim` is what that of ClaimRoot uses.

The other three relate the starts by their tokens, in `StartInv`. A copy takes its
original's history along, so databases share tokens and the number of a
generation orders nothing; `Follows` does: whoever has had this start has had
those. Tokens are fresh and histories only grow, so what follows once follows for
good (FollowsStep).

- `Recorded`: rows, markers and processes go by starts that some database has
  had, and the previous token in a row is of a start before its own.
- `Serialized`, while no session was lost: one start at a time holds the key of
  a database and of a root (`KeyKept`), so what it compared is still the marker
  (`Current`), and whoever has had the marker's start has had every start that
  served there (`Lineage`). A copy and its original may then bump to the same
  generation, one after the other and with crashes in between, and only one of
  them is let in: OneLineage. A replacement goes up by one: MarkerForward.
- `Startable`, `ClaimHeld`, while nothing at all was lost: a ready database that
  was never copied is where its root is or one bump ahead, and a bootstrap finds
  its own claim when it commits: StartableUnlessLost.

**BrowserScopeProofs.**

    TypeCorrect    Spec => []TypeOK        EpochIsOwn  Spec => []EpochOwn
    SignOutIsFinal Spec => []SignOutHolds

SignOutHolds needs that an answer which names an ended session is outranked
wherever it is: every read that may still record it began before the sign-out's
stamp, and the pointer or the sign-out record holds a stamp at least as late.
EpochOwn needs that the epoch of an answer, of the pointer and of a page is one
its Library has reached.

**OutboxProofs**, for any number of tabs, with or without a lock.

    Types   Spec => []TypeOK               SentOnceReady  Spec => []SentInOrder

The browser judges by its own copy of the answers. `OInv` says why it may:
within an epoch it believes only what the server has recorded (`Believed`), what
an operation waits for was made before it in the same epoch (`DepsMade`), and
what was picked in order stays so until it is sent (`PickedInOrder`). The lemmas
before say what each operator on the rows does to a row; the two that are least
fixed points (Doomed, Retirable) are characterised by one step of theirs.

**OutboxPromise**, for any number of tabs with a lock between them.

    WaitsForStored   Locks: Spec => []DependencyStored
    Implements       Locks: Spec => KeepsPromise

`PInv` adds to `OInv` that one tab drains (`OneDrain`), and

- `CopyOK`: every attempt has a number of its own, up to the row's count, and an
  operation the server may still apply is still in the queue. This is what makes
  the withdrawal of a row without attempts safe.
- `HeldOK`, `AnswerOK`: an operation in a tab's hands is its own until it is
  done with it; a first attempt that is given back left nothing on the server.
- `LedgerOK`, `KeptOK`: what the server has of an operation came from an attempt,
  and a row's result says why it is where it is.
- `WaitOK`, `Sendable`: an open operation waits for rows of the queue, and what
  was sent waits for nothing any more, so a refusal never meets it from below.

Each action is one of eleven kinds of step of each row (`RowStep`). QueueStep
shows once that such steps preserve `PInv` and are moves of Intents; there is
then one lemma per action. ApplyStep is where the abstract change takes effect:
the claim gives that the ledger has no result yet, CopyOK that the row is
queued, and both that its fate is "kept".

**EditorRecoveryProofs**, for any number of texts, adoptions and faults.

    Types         Spec => []TypeOK
    Forward       Spec /\ []AdoptsDecided => LineageForward
    TextStays     Spec /\ []AdoptsDecided => []LostOnlyDropped
    TakesDecided  two pages: Spec => []AdoptsDecided
    ForwardOfTwo  two pages: Spec => LineageForward
    TextStaysOfTwo  two pages: Spec => []LostOnlyDropped

What keeps a lineage on one chain of texts is spread over five places, since a
page's words about it are in its editor, its write under way, its key, a merge
of that key, and the records it owns. The invariant therefore speaks of words, a
lineage with a text: `Uses` (a page's own: key, scans of it, write, editor),
`Owns` (the records with its name), `Says` (both).

- `MintedKnown`, `OwnPlain`, `OneForeign`: a lineage a page mints is new; of its
  own it uses only plain ones, and of others' at most one, the one it took over.
- `OneChain`: two texts that a page says of one lineage were typed one over the
  other, so their generations order them (ChainByGeneration). This is what
  writeGeneration and applyEmergencyEntry rely on: WordsForward.
- `ShownLast`: what an open page's editor shows is typed over all it says of the
  lineage it writes.
- `TakesForeign`, `TakenAsDecided`: a page that takes a draft over uses no
  lineage of another page's yet, and what it took has the text it decided on.

Every action is one of six kinds of `Step`: nothing new is said, a writer types
or moves on, a page decides to take over, takes over, restores, or a merge makes
a fork; `WordsOK` is kept by each kind. `OneChain` survives an adoption only if
the text taken is the one decided on, hence the assumption of Forward. For two
pages `TwoInv` proves it: whoever takes over is the only one who may
(`OneTaker`), and while it has not, its decision and what the owner says of the
lineage are one chain (`DecidedChain`).

LostOnlyDropped needs why each deletion is harmless at the time it happens, although
what makes it so was decided steps before. A text has *ended* when it, or one
typed over it, is on the server, discarded or dropped (`Ended`); it is *solid*
when it has ended or a draft has such a text (`Solid`). Ended and solid are never
lost again (StoreEnds, SolidKept), so `KInv`, which adds to `IInv` what follows,
only has to say what is solid, and what else is safe is in a key (`SafeOK`).

- `StoredSolid`: what an editor shows with nothing pending, what the store
  answered to a write, and what a page took over, is solid. This is why a key may
  be cleared when its writer has nothing pending (KeyRemovedIs).
- `SharedSolid`: a text that two pages have in hand (`InHand`: shown by the
  editor, in a write, a key, a merge, or under one of those) is solid, because the
  second had it from a draft.
- `Past`: a page is past a lineage when its editor has left it and can come back
  to it neither by minting (`MintedKnown`) nor by taking over (`Bound`). It then
  says nothing new of it (PastSays) and writes nothing of it into its key
  (PastPuts). `MarksOK`: a superseded mark is of a lineage its page is past, with
  only served texts. `ChoresPast`: so is an acknowledged lineage before its sweep
  and its tombstone, and a key that still lists it holds nothing that is needed
  (`KeyCovered`: all that is safe and in it is solid).
- `StonesOK`: what a tombstone keeps out of the store, of any page's key, is solid
  or not needed in that key. Of the page that left it this is ChoresPast, of the
  others SharedSolid.
- `AppliedOK`: when a merge has applied an entry, and so may remove the key, its
  tail is solid, or the key's page is past it and the key is not needed: by
  OneChain where the record was newer ("noop"), by StonesOK where a tombstone was
  there ("suppressed"), and by `dropped` in the four cases of section 8.
- `ServedOK`: an acknowledgement, and a plan to clear a draft, are of a text the
  server has.

Each part has a lemma that a step keeps it; `KStep` collects what those start
from, and KeysMoveStep says what a step may do to keys and to `safe`. The theorem
has Forward's assumption, for the same reason: without it two chains could share
a lineage, and a generation compared would say nothing of a text.

**Only model-checked.** EveryJobSettles, TickedCatchUp, GarbageGoes,
MaintenanceEnds, ForeignPageRetires, SignedOutPageRetires and Drains, because
liveness is out of the prover's reach; and that the four runs which expect a
violation find one.

## 11. Not modelled

See `components` in `PROJECT.json` for each part and its reason. In short:
presentation, formats and single-transaction row updates whose rules are SQL
constraints are left out. Of the browser, the operation families other than
Person, reapplied conflicts, the entity caches and local PDF bytes, the service
worker and the offline views are left out: the first three use the protocol of
Outbox with other data, the rest are state of their own that is still to be
modelled or that only one page sees. Of the editor's recovery, the quota
reservation and the leave guard, sign-out, deleted Works and a writer's own
discard are left out. The other
parts of the plan are still to come. A hazard without a property is
listed with the reason or the module that will cover it. Three more that the
list leaves to the plan: the local cache is reconciled with an answer while the
same entity is edited (`sync-runtime.js:369`; Outbox takes reconciliation and
acknowledgement for one step); a stop lands while a job is claimed or its thread
is started (`worker.py:319`, WorkerStop); a start loses its session, and with it
the start key, between its bump and its marker write (`root_pairing.py:721`):
OneLineage, MarkerForward and StartableUnlessLost are stated for runs in which
no session is lost.

---------------------------- MODULE ObjectStore ----------------------------
(***************************************************************************)
(* The stored objects (PDFs, portraits) and the catalogue rows that name   *)
(* them: adoption, release, cleanup claims, settle and sweep (backend/     *)
(* domain/objects/), with the two runs that also name or read objects, a   *)
(* restore (domain/maintenance/restore.py, staging.py) and a backup        *)
(* (backup.py).                                                            *)
(*                                                                         *)
(* One data root serves every Library.  A key's bytes never change, so     *)
(* only whether they exist is modelled.  A row is anything of a Library    *)
(* that can name a key: an Asset's locators, a Processing item, a Person.  *)
(*                                                                         *)
(* Database transactions are READ COMMITTED: other transactions see a      *)
(* change's effect when it commits.  A step ends where another transaction *)
(* could act in between; what runs under a lock that excludes every reader *)
(* and writer of what it touches is one step.  Time is abstract: a lease   *)
(* may run out, and the sweep's grace period be over, at any moment.       *)
(***************************************************************************)
EXTENDS Naturals, FiniteSets

CONSTANTS
    Libs,     \* Libraries of the instance
    Rows,     \* ids of catalogue rows that can name a key, one Library's each
    Keys,     \* object keys; a new one is never minted twice
    Changes,  \* concurrent Library commands and the uploads before them
    Runs,     \* restore runs, each used once
    NoLib, NoKey, NoRow, NoRun,
    CreatesUndone,   \* whether a create that adopted stored bytes may be undone
    MaxArchives,     \* bound: archives, the initial ones included
    InitialArchives  \* archives of earlier backups

ASSUME UndoneAssumption == CreatesUndone \in BOOLEAN

ASSUME SentinelsAssumption == NoLib \notin Libs /\ NoKey \notin Keys
                              /\ NoRow \notin Rows /\ NoRun \notin Runs

\* A published archive: the rows and the cleanup claims of its snapshot.
Archive == [named: [Rows -> Keys \cup {NoKey}], claimed: SUBSET Keys, held: SUBSET Keys]

ASSUME ArchivesAssumption == InitialArchives \subseteq Archive /\ MaxArchives \in Nat

VARIABLES
    bytes,    \* keys whose object exists in the data root
    minted,   \* keys ever minted
    named,    \* the committed catalogue
    claim,    \* prks.object_cleanup_claims
    change,   \* Library commands in progress
    settle,   \* the cleanup pass's settle transaction
    run,      \* prks.restore_runs with its staged keys, and its process
    maint,    \* per Library, maintenance_run
    backup,   \* per Library, its backup run
    archives  \* published archives

vars == <<bytes, minted, named, claim, change, settle, run, maint, backup, archives>>

-----------------------------------------------------------------------------
(* Rows, claims and references *)

NoClaim == [lib |-> NoLib, hold |-> FALSE, made |-> FALSE]
Claim   == [lib: Libs \cup {NoLib}, hold: BOOLEAN, made: BOOLEAN]

ClaimOf(l, hold) == [lib |-> l, hold |-> hold, made |-> TRUE]

\* Mutant: NULL locators are read as keys.
KeysWithNulls(rows) == {rows[r] : r \in Rows}

KeysOf(rows) == {rows[r] : r \in Rows} \ {NoKey}
NamedBy(l)   == KeysOf(named[l])
Named(k)     == \E l \in Libs : k \in NamedBy(l)

LiveRuns   == {u \in Runs : run[u].state = "running"}

\* Mutant: the rows of failed runs protect their keys too.
StagedByAny(k) == \E u \in Runs : k \in run[u].staged

Staged(k)  == \E u \in LiveRuns : k \in run[u].staged
Held(k)    == claim[k].made /\ claim[k].hold

\* references(): a live run's staged key, or a row of any Library.
Referenced(k) == Staged(k) \/ Named(k)

\* Mutant: another Library's names are not looked at.
OwnedElsewhereClaimed(k, l) == claim[k].made /\ claim[k].lib \in Libs \ {l}

\* Another Library named the key, or released it.
OwnedElsewhere(k, l) ==
    \/ claim[k].made /\ claim[k].lib \in Libs \ {l}
    \/ \E m \in Libs \ {l} : k \in NamedBy(m)

\* held_by_another_library(): one statement, one snapshot.
HeldElsewhere(k, l) ==
    \/ \E u \in LiveRuns : run[u].lib # l /\ k \in run[u].staged
    \/ OwnedElsewhere(k, l)

-----------------------------------------------------------------------------
(* Processes and their locks *)

(* pc of a command: "stored" its upload is written, nothing is open;       *)
(* "open" the row is locked and the new key adopted; "ready" the old key   *)
(* is released too; "made" it committed, and its request goes on.          *)
(* shared: the key was stored before.                                      *)
Change == [pc: {"idle", "stored", "open", "ready", "made"}, lib: Libs \cup {NoLib},
           row: Rows \cup {NoRow}, key: Keys \cup {NoKey},
           shared: BOOLEAN, claims: BOOLEAN]

IdleChange == [pc |-> "idle", lib |-> NoLib, row |-> NoRow,
               key |-> NoKey, shared |-> FALSE, claims |-> FALSE]

\* pc of a settle: what it has read so far, "unlinked" the bytes are gone.
Settle == [pc: {"idle", "claimed", "unstaged", "doomed", "unlinked"},
           key: Keys \cup {NoKey}, lib: Libs \cup {NoLib}]

IdleSettle == [pc |-> "idle", key |-> NoKey, lib |-> NoLib]

(* state: the restore_runs row.  pc: the process; "check" before R1's      *)
(* tables, "stage" between keys, "place" a key's row is in and its bytes   *)
(* are due, then R2 to R4; "dead" it ended, however it did.                *)
Run == [state: {"none", "running", "committed", "failed"},
        pc: {"none", "check", "stage", "place", "drain", "recheck", "commit", "dead"},
        lib: Libs \cup {NoLib}, archive: Archive, expired: BOOLEAN,
        staged: SUBSET Keys, key: Keys \cup {NoKey}]

EmptyArchive == [named |-> [r \in Rows |-> NoKey], claimed |-> {}, held |-> {}]

NewRun == [state |-> "none", pc |-> "none", lib |-> NoLib, archive |-> EmptyArchive,
           expired |-> FALSE, staged |-> {}, key |-> NoKey]

\* lease: of the backup_runs row; "failed" recovery ended the row.
Backup == [pc: {"none", "started", "locked", "copying"},
           lease: {"live", "expired", "failed"}, archive: Archive, todo: SUBSET Keys]

NoBackup == [pc |-> "none", lease |-> "failed", archive |-> EmptyArchive, todo |-> {}]

InCommand(t) == change[t].pc \in {"open", "ready"}

\* The row of a command, whose old key it stops naming.
OldKey(t) == named[change[t].lib][change[t].row]

\* The per-object locks a command holds: adopt's, then release's.
ObjectLocks(t) == (IF InCommand(t) THEN {change[t].key} ELSE {})
                  \cup (IF change[t].pc = "ready" THEN {OldKey(t)} ELSE {})

ObjectFree(k) == /\ settle.key # k
                 /\ \A t \in Changes : k \notin ObjectLocks(t)

\* No open command has locked or is inserting the row, and it is l's or new:
\* row ids are unique over all Libraries.
RowFree(l, r) == /\ \A t \in Changes : InCommand(t) => change[t].row # r
                 /\ \A m \in Libs \ {l} : named[m][r] = NoKey

\* The Library's maintenance lock: every command shares it, R3 excludes them.
CommandsDone(l) == \A t \in Changes : InCommand(t) => change[t].lib # l
Draining(u)     == run[u].pc \in {"recheck", "commit"}
RestoreHolds(l) == \E u \in Runs : Draining(u) /\ run[u].lib = l

\* The Library's objects lock: backups share it, a settle or R3 excludes all.
BackupShares(l) == backup[l].pc \in {"locked", "copying"}
SettleHolds(l)  == settle.lib = l

-----------------------------------------------------------------------------
Init ==
    /\ bytes = {}
    /\ minted = UNION {KeysOf(a.named) \cup a.claimed : a \in InitialArchives}
    /\ named = [l \in Libs |-> [r \in Rows |-> NoKey]]
    /\ claim = [k \in Keys |-> NoClaim]
    /\ change = [t \in Changes |-> IdleChange]
    /\ settle = IdleSettle
    /\ run = [u \in Runs |-> NewRun]
    /\ maint = [l \in Libs |-> NoRun]
    /\ backup = [l \in Libs |-> NoBackup]
    /\ archives = InitialArchives

-----------------------------------------------------------------------------
(* Library commands *)

\* store_pdf: new bytes under a fresh key, outside any transaction.
Store(t, l) ==
    /\ change[t].pc = "idle"
    /\ \E k \in Keys \ minted :
          /\ bytes' = bytes \cup {k}
          /\ minted' = minted \cup {k}
          /\ change' = [change EXCEPT ![t] = [IdleChange EXCEPT
                           !.pc = "stored", !.lib = l, !.key = k]]
    /\ UNCHANGED <<named, claim, settle, run, maint, backup, archives>>

\* Mutant: adopt() trusts the upload and does not stat it.
AdoptableUnread(k, l) == ~HeldElsewhere(k, l)

\* adopt()'s checks, under the per-object lock.
Adoptable(k, l) == ~HeldElsewhere(k, l) /\ k \in bytes

\* A command starts on row r and adopts key k; ObjectMissing rolls it back.
Adopt(t, l, k, r, shared) ==
    /\ maint[l] = NoRun /\ RowFree(l, r) /\ ObjectFree(k) /\ named[l][r] # k
    /\ \A s \in Changes : change[s].pc = "made" /\ change[s].row = r => named[l][r] # NoKey
    /\ change' = [change EXCEPT ![t] =
          IF Adoptable(k, l)
          THEN [IdleChange EXCEPT !.pc = "open", !.lib = l, !.row = r, !.key = k,
                                  !.shared = shared]
          ELSE IdleChange]
    /\ UNCHANGED <<bytes, minted, named, claim, settle, run, maint, backup, archives>>

\* The key just stored, ...
AdoptStored(t) == /\ change[t].pc = "stored"
                  /\ \E r \in Rows : Adopt(t, change[t].lib, change[t].key, r, FALSE)

\* The stored files a client of the Library has seen: named, or just released.
Known(l) == NamedBy(l) \cup {k \in Keys : claim[k].made /\ claim[k].lib = l}

\* ... or a stored file the client points a new row at.
AdoptShared(t, l) == /\ change[t].pc = "idle"
                     /\ \E k \in Known(l), r \in Rows : Adopt(t, l, k, r, TRUE)

\* A command that only stops naming (a delete, a cleared portrait).
Drop(t, l, r) ==
    /\ change[t].pc = "idle"
    /\ maint[l] = NoRun /\ RowFree(l, r) /\ named[l][r] # NoKey
    /\ change' = [change EXCEPT ![t] = [IdleChange EXCEPT !.pc = "open", !.lib = l, !.row = r]]
    /\ UNCHANGED <<bytes, minted, named, claim, settle, run, maint, backup, archives>>

\* Mutant: release() takes no per-object lock.
OldKeyFreeAlways(t) == TRUE

\* release() takes the per-object lock of the old key, unless it holds it.
OldKeyFree(t) == LET old == OldKey(t) IN
    old = NoKey \/ (settle.key # old /\ \A s \in Changes \ {t} : old \notin ObjectLocks(s))

\* No other row of the Library names the old key.
LastName(t) == LET c == change[t] IN
    OldKey(t) # NoKey /\ \A r \in Rows \ {c.row} : named[c.lib][r] # OldKey(t)

\* release(): a claim is due with the last name.
ReleaseOld(t) == LET c == change[t] IN
    /\ c.pc = "open" /\ OldKeyFree(t)
    /\ change' = [change EXCEPT ![t] = [c EXCEPT !.pc = "ready", !.claims = LastName(t)]]
    /\ UNCHANGED <<bytes, minted, named, claim, settle, run, maint, backup, archives>>

\* _RECORD_CLAIM: an orphan's claim is taken over, a hold stays.
Recorded(k, l) ==
    IF claim[k].made /\ claim[k].lib # NoLib THEN claim[k]
    ELSE ClaimOf(l, Held(k))

\* COMMIT of the command.
CommitChange(t) == LET c == change[t] IN
    /\ c.pc = "ready"
    /\ named' = [named EXCEPT ![c.lib] = [named[c.lib] EXCEPT ![c.row] = c.key]]
    /\ claim' = IF c.claims THEN [claim EXCEPT ![OldKey(t)] = Recorded(OldKey(t), c.lib)]
                ELSE claim
    /\ change' = [change EXCEPT ![t] =
          IF c.shared /\ CreatesUndone
          THEN [IdleChange EXCEPT !.pc = "made", !.lib = c.lib, !.row = c.row]
          ELSE IdleChange]
    /\ UNCHANGED <<bytes, minted, settle, run, maint, backup, archives>>

\* undo_create: the new row is deleted, its file neither claimed nor removed.
UndoCreate(t) == LET c == change[t] IN
    /\ c.pc = "made" /\ maint[c.lib] = NoRun /\ RowFree(c.lib, c.row)
    /\ named' = [named EXCEPT ![c.lib] = [named[c.lib] EXCEPT ![c.row] = NoKey]]
    /\ change' = [change EXCEPT ![t] = IdleChange]
    /\ UNCHANGED <<bytes, minted, claim, settle, run, maint, backup, archives>>

\* A refused command claims the key it stored and never named.
RefuseStored(t) == LET c == change[t] IN
    /\ c.pc = "stored" /\ maint[c.lib] = NoRun /\ ObjectFree(c.key)
    /\ claim' = IF c.key \in NamedBy(c.lib) THEN claim
                ELSE [claim EXCEPT ![c.key] = Recorded(c.key, c.lib)]
    /\ change' = [change EXCEPT ![t] = IdleChange]
    /\ UNCHANGED <<bytes, minted, named, settle, run, maint, backup, archives>>

\* ROLLBACK, the process dies, or a made request is over: bytes that were
\* stored and not named are left to the sweep.
Abandon(t) ==
    /\ change[t].pc # "idle"
    /\ change' = [change EXCEPT ![t] = IdleChange]
    /\ UNCHANGED <<bytes, minted, named, claim, settle, run, maint, backup, archives>>

-----------------------------------------------------------------------------
(* The sweep and the cleanup pass *)

\* claim_orphan(), for a stored key.
Sweep(k) ==
    /\ k \in bytes /\ ObjectFree(k)
    /\ ~Referenced(k) /\ ~claim[k].made
    /\ claim' = [claim EXCEPT ![k] = ClaimOf(NoLib, FALSE)]
    /\ UNCHANGED <<bytes, minted, named, change, settle, run, maint, backup, archives>>

\* Mutant: settle does not try the Library's objects lock.
ObjectsLockFreeAlways(l) == TRUE

\* pg_try_advisory_xact_lock: BUSY settles nothing.
ObjectsLockFree(l) == l \in Libs => ~BackupShares(l) /\ ~RestoreHolds(l)

\* A due claim; HELD is never settled.
Due(k) == claim[k].made /\ ~claim[k].hold

\* settle_tx locks the key, its claim and its Library's objects.
SettleClaim(k) ==
    /\ settle.pc = "idle" /\ Due(k) /\ ObjectFree(k)
    /\ ObjectsLockFree(claim[k].lib)
    /\ settle' = [pc |-> "claimed", key |-> k, lib |-> claim[k].lib]
    /\ UNCHANGED <<bytes, minted, named, claim, change, run, maint, backup, archives>>

ForgetClaim == claim' = [claim EXCEPT ![settle.key] = NoClaim] /\ settle' = IdleSettle

\* Mutant: the staged keys of running restores are not read.
SettleStagedNever(k) == FALSE
SettleSeesStaged(k) == Staged(k)

\* references() reads the staged keys first ...
SettleStaged ==
    /\ settle.pc = "claimed"
    /\ IF SettleSeesStaged(settle.key) THEN ForgetClaim
       ELSE settle' = [settle EXCEPT !.pc = "unstaged"] /\ UNCHANGED claim
    /\ UNCHANGED <<bytes, minted, named, change, run, maint, backup, archives>>

\* ... then the catalogue: REFERENCED forgets the claim.
SettleNamed ==
    /\ settle.pc = "unstaged"
    /\ IF Named(settle.key) THEN ForgetClaim
       ELSE settle' = [settle EXCEPT !.pc = "doomed"] /\ UNCHANGED claim
    /\ UNCHANGED <<bytes, minted, named, change, run, maint, backup, archives>>

\* The bytes go before the transaction commits.
SettleUnlink ==
    /\ settle.pc = "doomed"
    /\ bytes' = bytes \ {settle.key}
    /\ settle' = [settle EXCEPT !.pc = "unlinked"]
    /\ UNCHANGED <<minted, named, claim, change, run, maint, backup, archives>>

SettleForget ==
    /\ settle.pc = "unlinked"
    /\ ForgetClaim
    /\ UNCHANGED <<bytes, minted, named, change, run, maint, backup, archives>>

\* FAILED, a lost lease or a crash: the claim stays.
SettleAbort ==
    /\ settle.pc # "idle"
    /\ settle' = IdleSettle
    /\ UNCHANGED <<bytes, minted, named, claim, change, run, maint, backup, archives>>

-----------------------------------------------------------------------------
(* Restore: R1 stages, R2 enters maintenance, R3 drains, R4 commits *)

ArchiveKeys(u) == KeysOf(run[u].archive.named)

\* The run still has its row and its lease (_RENEW_SQL, _LOCK_RUN_SQL).
LeaseKept(u) == run[u].state = "running" /\ ~run[u].expired

StartRestore(u, l, a) ==
    /\ run[u].pc = "none" /\ maint[l] = NoRun
    /\ run' = [run EXCEPT ![u] = [NewRun EXCEPT !.state = "running", !.pc = "check",
                                                !.lib = l, !.archive = a]]
    /\ UNCHANGED <<bytes, minted, named, claim, change, settle, maint, backup, archives>>

\* The archive's rows and claims have no id that another Library holds.
IdsFree(u) == LET l == run[u].lib
                  a == run[u].archive IN
    /\ \A r \in Rows : a.named[r] # NoKey => \A m \in Libs \ {l} : named[m][r] = NoKey
    /\ \A k \in a.claimed : ~(claim[k].made /\ claim[k].lib \in Libs \ {l})

\* R1's tables: _check_foreign_library_ids.
CheckIds(u) ==
    /\ run[u].pc = "check" /\ IdsFree(u)
    /\ run' = [run EXCEPT ![u].pc = "stage"]
    /\ UNCHANGED <<bytes, minted, named, claim, change, settle, maint, backup, archives>>

\* Mutant: the key's row is inserted without the per-object lock.
StageLockFreeAlways(k) == TRUE
StageLockFree(k) == ObjectFree(k)

\* R1: a restore_run_objects row for one key, refused like an adoption.
StageKey(u, k) ==
    /\ run[u].pc = "stage" /\ k \in ArchiveKeys(u) \ run[u].staged
    /\ StageLockFree(k) /\ ~HeldElsewhere(k, run[u].lib)
    /\ run' = [run EXCEPT ![u] = [run[u] EXCEPT
                  !.pc = "place", !.key = k, !.staged = run[u].staged \cup {k}]]
    /\ UNCHANGED <<bytes, minted, named, claim, change, settle, maint, backup, archives>>

\* _place_object: written from the archive, or found and reused.
PlaceKey(u) ==
    /\ run[u].pc = "place"
    /\ bytes' = bytes \cup {run[u].key}
    /\ run' = [run EXCEPT ![u] = [run[u] EXCEPT !.pc = "stage", !.key = NoKey]]
    /\ UNCHANGED <<minted, named, claim, change, settle, maint, backup, archives>>

\* R2: under the Library row, with nobody in maintenance or backing up.
EnterRestore(u) == LET l == run[u].lib IN
    /\ run[u].pc = "stage" /\ ArchiveKeys(u) \subseteq run[u].staged
    /\ LeaseKept(u) /\ CommandsDone(l) /\ maint[l] = NoRun
    /\ ~(backup[l].pc # "none" /\ backup[l].lease = "live")
    /\ maint' = [maint EXCEPT ![l] = u]
    /\ run' = [run EXCEPT ![u].pc = "drain"]
    /\ UNCHANGED <<bytes, minted, named, claim, change, settle, backup, archives>>

\* Both locks of the Library are free.
DrainedOf(l) == CommandsDone(l) /\ ~RestoreHolds(l) /\ ~BackupShares(l) /\ ~SettleHolds(l)

\* R3: session locks on both, then the run must still own the flag.
DrainRestore(u) == LET l == run[u].lib IN
    /\ run[u].pc = "drain" /\ DrainedOf(l) /\ maint[l] = u
    /\ run' = [run EXCEPT ![u].pc = "recheck"]
    /\ UNCHANGED <<bytes, minted, named, claim, change, settle, maint, backup, archives>>

\* R3: a staged key whose bytes are missing is written again.
RecheckRestore(u) ==
    /\ run[u].pc = "recheck"
    /\ bytes' = bytes \cup run[u].staged
    /\ run' = [run EXCEPT ![u].pc = "commit"]
    /\ UNCHANGED <<minted, named, claim, change, settle, maint, backup, archives>>

\* Mutant: R4 deletes every claim of the Library.
KeptClaimDropsHolds(k, l) == IF claim[k].lib = l THEN NoClaim ELSE claim[k]

\* _replace_rows deletes the Library's claims, holds excepted, ...
KeptClaim(k, l) == IF claim[k].lib = l /\ ~claim[k].hold THEN NoClaim ELSE claim[k]

\* ... and inserts the archive's, ON CONFLICT only raising the hold.
MergedClaim(k, l, a) ==
    IF k \notin a.claimed THEN KeptClaim(k, l)
    ELSE IF KeptClaim(k, l).made
    THEN [KeptClaim(k, l) EXCEPT !.hold = @ \/ k \in a.held]
    ELSE ClaimOf(l, k \in a.held)

\* _hold_replaced: what the old rows named and the new ones do not.
Replaced(l, a) == NamedBy(l) \ KeysOf(a.named)

\* R4's upserts wait for the claim row a settle has locked.
ClaimRowsFree(l, a) == settle.key \notin
    NamedBy(l) \cup a.claimed \cup {k \in Keys : claim[k].made /\ claim[k].lib = l}

\* The primary keys of the rows R4 inserts, also against open commands.
RowIdsFree(l, a) == \A r \in Rows : a.named[r] # NoKey => RowFree(l, r)

CommitRestore(u) == LET l == run[u].lib
                        a == run[u].archive IN
    /\ run[u].pc = "commit" /\ LeaseKept(u) /\ maint[l] = u
    /\ \A k \in run[u].staged : ~OwnedElsewhere(k, l)
    /\ ClaimRowsFree(l, a) /\ RowIdsFree(l, a)
    /\ named' = [named EXCEPT ![l] = a.named]
    /\ claim' = [k \in Keys |-> IF k \in Replaced(l, a) THEN ClaimOf(l, TRUE)
                                ELSE MergedClaim(k, l, a)]
    /\ maint' = [maint EXCEPT ![l] = NoRun]
    /\ run' = [run EXCEPT ![u] = [run[u] EXCEPT !.state = "committed", !.pc = "dead",
                                                !.staged = {}]]
    /\ UNCHANGED <<bytes, minted, change, settle, backup, archives>>

\* Mutant: the run fails and its flag stays.
FailRowOnly(u) ==
    /\ run' = [run EXCEPT ![u] = [run[u] EXCEPT !.state = "failed"]]
    /\ UNCHANGED maint

\* The run fails: its flag, if it owns it, clears; its staged rows stay.
FailRow(u) ==
    /\ run' = [run EXCEPT ![u] = [run[u] EXCEPT !.state = "failed"]]
    /\ maint' = [l \in Libs |-> IF maint[l] = u THEN NoRun ELSE maint[l]]

Alive(u) == run[u].pc \notin {"none", "dead"}

\* Any refusal or error: _finalize_abort, then the session locks go.
AbortRestore(u) ==
    /\ Alive(u)
    /\ run' = [run EXCEPT ![u] = [run[u] EXCEPT
                  !.pc = "dead", !.key = NoKey,
                  !.state = IF run[u].state = "running" THEN "failed" ELSE run[u].state]]
    /\ maint' = [l \in Libs |-> IF maint[l] = u THEN NoRun ELSE maint[l]]
    /\ UNCHANGED <<bytes, minted, named, claim, change, settle, backup, archives>>

\* The process dies: its locks go, its row and its flag stay.
CrashRestore(u) ==
    /\ Alive(u)
    /\ run' = [run EXCEPT ![u] = [run[u] EXCEPT !.pc = "dead", !.key = NoKey]]
    /\ UNCHANGED <<bytes, minted, named, claim, change, settle, maint, backup, archives>>

ExpireRestore(u) ==
    /\ LeaseKept(u)
    /\ run' = [run EXCEPT ![u].expired = TRUE]
    /\ UNCHANGED <<bytes, minted, named, claim, change, settle, maint, backup, archives>>

\* recover(): an expired run whose Library lock is free.
Recoverable(u) ==
    /\ run[u].state = "running" /\ run[u].expired
    /\ CommandsDone(run[u].lib) /\ ~RestoreHolds(run[u].lib)

RecoverRestore(u) ==
    /\ Recoverable(u)
    /\ FailRow(u)
    /\ UNCHANGED <<bytes, minted, named, claim, change, settle, backup, archives>>

-----------------------------------------------------------------------------
(* Backup *)

StartBackup(l) ==
    /\ backup[l].pc = "none" /\ maint[l] = NoRun
    /\ Cardinality(archives) < MaxArchives
    /\ backup' = [backup EXCEPT ![l] = [NoBackup EXCEPT !.pc = "started", !.lease = "live"]]
    /\ UNCHANGED <<bytes, minted, named, claim, change, settle, run, maint, archives>>

\* The objects lock, shared, for the whole run.
ShareObjects(l) ==
    /\ backup[l].pc = "started" /\ ~SettleHolds(l) /\ ~RestoreHolds(l)
    /\ backup' = [backup EXCEPT ![l].pc = "locked"]
    /\ UNCHANGED <<bytes, minted, named, claim, change, settle, run, maint, archives>>

\* One REPEATABLE READ snapshot.
ReadSnapshot(l) ==
    /\ backup[l].pc = "locked"
    /\ backup' = [backup EXCEPT ![l] = [backup[l] EXCEPT
          !.pc = "copying", !.todo = NamedBy(l),
          !.archive = [named |-> named[l],
                       claimed |-> {k \in Keys : claim[k].made /\ claim[k].lib = l},
                       held |-> {k \in Keys : Held(k) /\ claim[k].lib = l}]]]
    /\ UNCHANGED <<bytes, minted, named, claim, change, settle, run, maint, archives>>

CopyObject(l) ==
    /\ backup[l].pc = "copying"
    /\ \E k \in backup[l].todo \cap bytes :
          backup' = [backup EXCEPT ![l].todo = backup[l].todo \ {k}]
    /\ UNCHANGED <<bytes, minted, named, claim, change, settle, run, maint, archives>>

\* The archive is verified and published while the row is still running.
Publish(l) ==
    /\ backup[l].pc = "copying" /\ backup[l].todo = {} /\ backup[l].lease # "failed"
    /\ archives' = archives \cup {backup[l].archive}
    /\ backup' = [backup EXCEPT ![l] = NoBackup]
    /\ UNCHANGED <<bytes, minted, named, claim, change, settle, run, maint>>

\* Any failure, a crash included.
FailBackup(l) ==
    /\ backup[l].pc # "none"
    /\ backup' = [backup EXCEPT ![l] = NoBackup]
    /\ UNCHANGED <<bytes, minted, named, claim, change, settle, run, maint, archives>>

\* The lease runs out, a renewal restores it, or recovery ends the row.
ExpireBackup(l) ==
    /\ backup[l].pc # "none" /\ backup[l].lease = "live"
    /\ backup' = [backup EXCEPT ![l].lease = "expired"]
    /\ UNCHANGED <<bytes, minted, named, claim, change, settle, run, maint, archives>>

RenewBackup(l) ==
    /\ backup[l].pc = "copying" /\ backup[l].lease = "expired"
    /\ backup' = [backup EXCEPT ![l].lease = "live"]
    /\ UNCHANGED <<bytes, minted, named, claim, change, settle, run, maint, archives>>

RecoverBackup(l) ==
    /\ backup[l].pc # "none" /\ backup[l].lease = "expired"
    /\ backup' = [backup EXCEPT ![l].lease = "failed"]
    /\ UNCHANGED <<bytes, minted, named, claim, change, settle, run, maint, archives>>

-----------------------------------------------------------------------------
EndChange(t) == \/ ReleaseOld(t) \/ CommitChange(t) \/ RefuseStored(t)
                \/ UndoCreate(t) \/ Abandon(t)
ChangeStep(t) ==
    \/ EndChange(t) \/ AdoptStored(t)
    \/ \E l \in Libs : Store(t, l) \/ AdoptShared(t, l) \/ \E r \in Rows : Drop(t, l, r)

SettleStep == SettleStaged \/ SettleNamed \/ SettleUnlink \/ SettleForget \/ SettleAbort

\* What the restore's process does next of its own accord.
RestoreStep(u) ==
    \/ CheckIds(u) \/ \E k \in Keys : StageKey(u, k)
    \/ PlaceKey(u) \/ EnterRestore(u) \/ DrainRestore(u) \/ RecheckRestore(u)
    \/ CommitRestore(u) \/ AbortRestore(u) \/ CrashRestore(u)

BackupStep(l) ==
    \/ StartBackup(l) \/ ShareObjects(l) \/ ReadSnapshot(l) \/ CopyObject(l) \/ Publish(l)
    \/ FailBackup(l) \/ ExpireBackup(l) \/ RenewBackup(l) \/ RecoverBackup(l)

Next ==
    \/ \E t \in Changes : ChangeStep(t)
    \/ \E k \in Keys : Sweep(k) \/ SettleClaim(k)
    \/ SettleStep
    \/ \E u \in Runs : \/ \E l \in Libs, a \in archives : StartRestore(u, l, a)
                       \/ RestoreStep(u) \/ ExpireRestore(u) \/ RecoverRestore(u)
    \/ \E l \in Libs : BackupStep(l)

Spec == Init /\ [][Next]_vars

(* A command ends, one way or another; a restore's process goes on or dies *)
(* and its lease then runs out; a backup is published or fails; the sweep  *)
(* and the cleanup pass recur, and so does recovery.  Locks that are       *)
(* waited for are granted in turn, and a settle that failed is retried     *)
(* (strong fairness).                                                      *)
Fairness ==
    /\ \A t \in Changes : WF_vars(EndChange(t))
    /\ \A u \in Runs : WF_vars(RestoreStep(u)) /\ WF_vars(ExpireRestore(u))
                       /\ WF_vars(RecoverRestore(u))
    /\ \A l \in Libs : WF_vars(Publish(l) \/ FailBackup(l))
    /\ \A k \in Keys : /\ WF_vars(Sweep(k)) /\ SF_vars(SettleClaim(k))
                       /\ SF_vars(settle.key = k /\ SettleStaged)
                       /\ SF_vars(settle.key = k /\ SettleNamed)
                       /\ SF_vars(settle.key = k /\ SettleUnlink)
    /\ WF_vars(SettleForget \/ SettleAbort)

FairSpec == Spec /\ Fairness

-----------------------------------------------------------------------------
(* Properties *)

\* Every variable keeps the shape the code gives it.
TypeOK ==
    /\ bytes \subseteq Keys /\ minted \subseteq Keys
    /\ named \in [Libs -> [Rows -> Keys \cup {NoKey}]]
    /\ claim \in [Keys -> Claim]
    /\ change \in [Changes -> Change]
    /\ settle \in Settle
    /\ run \in [Runs -> Run]
    /\ maint \in [Libs -> Runs \cup {NoRun}]
    /\ backup \in [Libs -> Backup]
    /\ archives \subseteq Archive

\* Every key a committed row names has its bytes: a settle, a sweep or a
\* failed upload never takes them from under an adopter or a restore
\* ("either order is safe", lifecycle.py).
NamedStored == \A l \in Libs : NamedBy(l) \subseteq bytes

\* What a running restore has staged and placed stays in the data root until
\* its rows name it ("no settle can delete this key from here on", staging.py).
StagedStored == \A u \in LiveRuns :
    run[u].pc # "dead" => run[u].staged \ {run[u].key} \subseteq bytes

\* No key is named by two Libraries, whatever is adopted, restored and
\* released at once ("no key is ever named by two Libraries", lifecycle.py).
OneLibrary == \A l, m \in Libs : l # m => NamedBy(l) \cap NamedBy(m) = {}

\* The objects a backup's snapshot names are there until it has copied them,
\* whatever is released, settled or restored meanwhile (lifecycle.py on the
\* Library's objects lock).  So it is in one Library; among several, R4 may
\* record a claim of one on a key that another names (README, section 4).
BackupWhole == \A l \in Libs : backup[l].pc = "copying" => backup[l].todo \subseteq bytes

\* The step that takes a key's last name away leaves a claim on it, also when
\* two commands drop its last two names at once (release()'s docstring).
\* Undone creates do not (CreatesUndone is FALSE where this is checked).
LastNameClaimed == [][\A k \in Keys : Named(k) /\ ~Named(k)' => claim'[k].made]_vars

\* A hold outlives every command, settle and restore, and so do the bytes it
\* keeps ("a hold is released only by an explicit discard decision", restore.py).
HoldsKept == [][\A k \in Keys : Held(k) =>
                    Held(k)' /\ (k \in bytes => k \in bytes')]_vars

\* Bytes nobody can use go: every key that no row, live restore, hold or
\* upload in progress accounts for is deleted, or used again.
Garbage(k) == /\ k \in bytes /\ ~Named(k) /\ ~Held(k)
              /\ \A u \in Runs : run[u].state = "running" => k \notin run[u].staged
              /\ \A t \in Changes : change[t].pc # "idle" => change[t].key # k
GarbageGoes == \A k \in Keys : Garbage(k) ~> ~Garbage(k)

\* A Library leaves maintenance, although the restore that entered it may die
\* at any point.
MaintenanceEnds == \A l \in Libs : maint[l] # NoRun ~> maint[l] = NoRun

-----------------------------------------------------------------------------
(* The inductive invariant of NamedStored, StagedStored, OneLibrary, HoldsKept *)

\* What the per-object lock keeps of a key that a command has adopted.
CommandsSafe == \A t \in Changes : LET k == change[t].key IN
    InCommand(t) /\ k # NoKey =>
        /\ k \in bytes /\ settle.key # k
        /\ \A s \in Changes \ {t} : InCommand(s) => change[s].key # k
        /\ \A m \in Libs \ {change[t].lib} : k \notin NamedBy(m)
        /\ \A u \in LiveRuns : run[u].lib # change[t].lib => k \notin run[u].staged

\* What a settle has read stays so while it holds the key.
SettleSafe ==
    /\ settle.pc \in {"unstaged", "doomed", "unlinked"} => ~Staged(settle.key)
    /\ settle.pc \in {"doomed", "unlinked"} => ~Named(settle.key)

\* A restore past R1 has staged every key its archive names.
RunsSafe == \A u \in Runs :
    /\ run[u].key = NoKey <=> run[u].pc # "place"
    /\ run[u].pc \in {"drain", "recheck", "commit"} => ArchiveKeys(u) \subseteq run[u].staged

\* The claim a settle has locked is not turned into a hold.
SettleUnheld == settle.pc # "idle" => settle.key \in Keys /\ ~Held(settle.key)

SInv == TypeOK /\ CommandsSafe /\ SettleSafe /\ SettleUnheld /\ RunsSafe
        /\ NamedStored /\ StagedStored /\ OneLibrary

=============================================================================

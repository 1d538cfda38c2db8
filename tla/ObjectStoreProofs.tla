-------------------------- MODULE ObjectStoreProofs --------------------------
(***************************************************************************)
(* Proofs, for every value of the constants, of safety properties of       *)
(* ObjectStore.  SInv is inductive; the lemmas below say what a step may   *)
(* do to the names, the staged keys, the locks and the bytes, and each     *)
(* part of SInv follows from those of them that it speaks about.  LockInv  *)
(* adds who holds which lock, for LastNameClaimed and BackupWhole.         *)
(***************************************************************************)
EXTENDS ObjectStore, TLAPS

-----------------------------------------------------------------------------
(* What the record helpers return *)

\* The updates of a command's progress keep it a Change.
LEMMA ChangeEdit ==
    ASSUME NEW l \in Libs \cup {NoLib}, NEW r \in Rows \cup {NoRow}, NEW k \in Keys \cup {NoKey}
    PROVE  /\ IdleChange \in Change
           /\ [IdleChange EXCEPT !.pc = "stored", !.lib = l, !.key = k] \in Change
           /\ \A b \in BOOLEAN :
                 [IdleChange EXCEPT !.pc = "open", !.lib = l, !.row = r, !.key = k,
                                    !.shared = b] \in Change
           /\ [IdleChange EXCEPT !.pc = "open", !.lib = l, !.row = r] \in Change
           /\ [IdleChange EXCEPT !.pc = "made", !.lib = l, !.row = r] \in Change
           /\ \A c \in Change, b \in BOOLEAN :
                 [c EXCEPT !.pc = "ready", !.claims = b] \in Change
  <1>1. IdleChange \in Change
    BY DEF IdleChange, Change
  <1>2. [IdleChange EXCEPT !.pc = "stored", !.lib = l, !.key = k] \in Change
    BY DEF IdleChange, Change
  <1>3. ASSUME NEW b \in BOOLEAN
        PROVE  [IdleChange EXCEPT !.pc = "open", !.lib = l, !.row = r, !.key = k,
                                  !.shared = b] \in Change
    BY DEF IdleChange, Change
  <1>4. [IdleChange EXCEPT !.pc = "open", !.lib = l, !.row = r] \in Change
    BY DEF IdleChange, Change
  <1>5. [IdleChange EXCEPT !.pc = "made", !.lib = l, !.row = r] \in Change
    BY DEF IdleChange, Change
  <1>6. ASSUME NEW c \in Change, NEW b \in BOOLEAN
        PROVE  [c EXCEPT !.pc = "ready", !.claims = b] \in Change
    BY DEF Change
  <1> QED BY <1>1, <1>2, <1>3, <1>4, <1>5, <1>6, Zenon

\* The updates of a restore run keep it a Run.
LEMMA RunEdit ==
    ASSUME NEW r \in Run
    PROVE  /\ \A p \in {"stage", "drain", "recheck", "commit"} : [r EXCEPT !.pc = p] \in Run
           /\ \A k \in Keys, S \in SUBSET Keys :
                 [r EXCEPT !.pc = "place", !.key = k, !.staged = S] \in Run
           /\ [r EXCEPT !.pc = "stage", !.key = NoKey] \in Run
           /\ [r EXCEPT !.pc = "dead", !.key = NoKey] \in Run
           /\ \A s \in {"none", "running", "committed", "failed"} :
                 [r EXCEPT !.pc = "dead", !.key = NoKey, !.state = s] \in Run
           /\ [r EXCEPT !.state = "committed", !.pc = "dead", !.staged = {}] \in Run
           /\ [r EXCEPT !.state = "failed"] \in Run
           /\ [r EXCEPT !.expired = TRUE] \in Run
  <1>1. ASSUME NEW p \in {"stage", "drain", "recheck", "commit"} PROVE [r EXCEPT !.pc = p] \in Run
    BY DEF Run
  <1>2. ASSUME NEW k \in Keys, NEW S \in SUBSET Keys
        PROVE  [r EXCEPT !.pc = "place", !.key = k, !.staged = S] \in Run
    BY DEF Run
  <1>3. [r EXCEPT !.pc = "stage", !.key = NoKey] \in Run
    BY DEF Run
  <1>4. [r EXCEPT !.pc = "dead", !.key = NoKey] \in Run
    BY DEF Run
  <1>5. ASSUME NEW s \in {"none", "running", "committed", "failed"}
        PROVE  [r EXCEPT !.pc = "dead", !.key = NoKey, !.state = s] \in Run
    BY DEF Run
  <1>6. [r EXCEPT !.state = "committed", !.pc = "dead", !.staged = {}] \in Run
    BY DEF Run
  <1>7. [r EXCEPT !.state = "failed"] \in Run
    BY DEF Run
  <1>8. [r EXCEPT !.expired = TRUE] \in Run
    BY DEF Run
  <1> QED BY <1>1, <1>2, <1>3, <1>4, <1>5, <1>6, <1>7, <1>8, Zenon

\* An archive without rows is one, and so is a run that has not begun.
LEMMA EmptyTypes == EmptyArchive \in Archive /\ NewRun \in Run /\ NoBackup \in Backup
  <1>1. EmptyArchive \in Archive
    BY DEF EmptyArchive, Archive
  <1>2. NewRun \in Run
    BY <1>1 DEF NewRun, Run
  <1>3. NoBackup \in Backup
    BY <1>1 DEF NoBackup, Backup
  <1> QED BY <1>1, <1>2, <1>3

\* A started run is one.
LEMMA StartType ==
    ASSUME NEW l \in Libs, NEW a \in Archive
    PROVE  [NewRun EXCEPT !.state = "running", !.pc = "check", !.lib = l, !.archive = a] \in Run
  BY EmptyTypes DEF NewRun, Run

\* The updates of a backup run keep it a Backup.
LEMMA BackupEdit ==
    ASSUME NEW b \in Backup
    PROVE  /\ [NoBackup EXCEPT !.pc = "started", !.lease = "live"] \in Backup
           /\ [b EXCEPT !.pc = "locked"] \in Backup
           /\ \A S \in SUBSET Keys, a \in Archive :
                 [b EXCEPT !.pc = "copying", !.todo = S, !.archive = a] \in Backup
           /\ \A S \in SUBSET Keys : [b EXCEPT !.todo = S] \in Backup
           /\ \A e \in {"live", "expired", "failed"} : [b EXCEPT !.lease = e] \in Backup
  <1>1. [NoBackup EXCEPT !.pc = "started", !.lease = "live"] \in Backup
    BY EmptyTypes DEF NoBackup, Backup
  <1>2. [b EXCEPT !.pc = "locked"] \in Backup
    BY DEF Backup
  <1>3. ASSUME NEW S \in SUBSET Keys, NEW a \in Archive
        PROVE  [b EXCEPT !.pc = "copying", !.todo = S, !.archive = a] \in Backup
    BY DEF Backup
  <1>4. ASSUME NEW S \in SUBSET Keys PROVE [b EXCEPT !.todo = S] \in Backup
    BY DEF Backup
  <1>5. ASSUME NEW e \in {"live", "expired", "failed"} PROVE [b EXCEPT !.lease = e] \in Backup
    BY DEF Backup
  <1> QED BY <1>1, <1>2, <1>3, <1>4, <1>5, Zenon

\* The claims that commands, restores and the sweep record are claims.
LEMMA ClaimTypes ==
    ASSUME TypeOK, NEW l \in Libs \cup {NoLib}, NEW k \in Keys
    PROVE  /\ NoClaim \in Claim
           /\ \A h \in BOOLEAN : ClaimOf(l, h) \in Claim
           /\ Recorded(k, l) \in Claim
           /\ KeptClaim(k, l) \in Claim
           /\ \A a \in Archive : MergedClaim(k, l, a) \in Claim
  <1>1. NoClaim \in Claim
    BY DEF NoClaim, Claim
  <1>2. \A h \in BOOLEAN : ClaimOf(l, h) \in Claim
    BY DEF ClaimOf, Claim
  <1>3. claim[k] \in Claim /\ Held(k) \in BOOLEAN
    BY DEF TypeOK, Held, Claim
  <1>4. Recorded(k, l) \in Claim
    BY <1>2, <1>3 DEF Recorded
  <1>5. KeptClaim(k, l) \in Claim
    BY <1>1, <1>3 DEF KeptClaim
  <1>6. ASSUME NEW a \in Archive PROVE MergedClaim(k, l, a) \in Claim
    <2> DEFINE c == KeptClaim(k, l)
    <2>1. [c EXCEPT !.hold = @ \/ k \in a.held] \in Claim
      <3>1. c.hold \in BOOLEAN /\ (c.hold \/ k \in a.held) \in BOOLEAN
        BY <1>5 DEF Claim
      <3>2. ASSUME NEW h \in BOOLEAN PROVE [c EXCEPT !.hold = h] \in Claim
        BY <1>5 DEF Claim
      <3> QED BY <3>1, <3>2
    <2>2. ClaimOf(l, k \in a.held) \in Claim
      BY DEF ClaimOf, Claim
    <2> QED BY <1>5, <2>1, <2>2 DEF MergedClaim
  <1> QED BY <1>1, <1>2, <1>4, <1>5, <1>6

-----------------------------------------------------------------------------
(* Types *)

\* A command's step keeps the types.
LEMMA ChangeTypes ==
    ASSUME TypeOK, NEW t \in Changes, ChangeStep(t)
    PROVE  TypeOK'
<1>0. change[t] \in Change /\ change[t].lib \in Libs \cup {NoLib}
      /\ change[t].row \in Rows \cup {NoRow} /\ change[t].key \in Keys \cup {NoKey}
  BY DEF TypeOK, Change
<1>1. ASSUME NEW l \in Libs, Store(t, l) PROVE TypeOK'
  <2>1. PICK k \in Keys \ minted :
          /\ bytes' = bytes \cup {k}
          /\ minted' = minted \cup {k}
          /\ change' = [change EXCEPT ![t] = [IdleChange EXCEPT
                           !.pc = "stored", !.lib = l, !.key = k]]
    BY <1>1, Zenon DEF Store
  <2>2. [IdleChange EXCEPT !.pc = "stored", !.lib = l, !.key = k] \in Change
    BY ChangeEdit, Zenon
  <2> QED BY <1>1, <2>1, <2>2 DEF Store, TypeOK
<1>2. ASSUME NEW l \in Libs \cup {NoLib}, NEW k \in Keys \cup {NoKey}, NEW r \in Rows,
             NEW b \in BOOLEAN, Adopt(t, l, k, r, b)
      PROVE  TypeOK'
  <2>1. [IdleChange EXCEPT !.pc = "open", !.lib = l, !.row = r, !.key = k, !.shared = b] \in Change
    BY ChangeEdit, Zenon
  <2>2. IdleChange \in Change
    BY ChangeEdit, Zenon
  <2>3. change' \in [Changes -> Change]
    BY <1>2, <2>1, <2>2 DEF Adopt, TypeOK
  <2> QED BY <1>2, <2>3, Zenon DEF Adopt, TypeOK
<1>3. CASE AdoptStored(t)
  BY <1>0, <1>2, <1>3 DEF AdoptStored
<1>4. ASSUME NEW l \in Libs, AdoptShared(t, l) PROVE TypeOK'
  <2>1. Known(l) \subseteq Keys
    BY DEF Known, NamedBy, KeysOf, TypeOK
  <2> QED BY <1>2, <1>4, <2>1 DEF AdoptShared
<1>5. ASSUME NEW l \in Libs, NEW r \in Rows, Drop(t, l, r) PROVE TypeOK'
  <2>1. [IdleChange EXCEPT !.pc = "open", !.lib = l, !.row = r] \in Change
    BY ChangeEdit, Zenon
  <2> QED BY <1>5, <2>1, Zenon DEF Drop, TypeOK
<1>6. CASE ReleaseOld(t)
  <2>1. LastName(t) \in BOOLEAN
    BY Zenon DEF LastName
  <2>2. [change[t] EXCEPT !.pc = "ready", !.claims = LastName(t)] \in Change
    BY <1>0, <2>1, ChangeEdit, Zenon
  <2> QED BY <1>6, <2>2 DEF ReleaseOld, TypeOK
<1>7. CASE CommitChange(t)
  <2> DEFINE c == change[t]
  <2>1. [named[c.lib] EXCEPT ![c.row] = c.key] \in [Rows -> Keys \cup {NoKey}]
        \/ c.lib \notin Libs
    BY <1>0 DEF TypeOK
  <2>2. named' \in [Libs -> [Rows -> Keys \cup {NoKey}]]
    BY <1>7, <2>1 DEF CommitChange, TypeOK
  <2>3. OldKey(t) \in Keys => Recorded(OldKey(t), c.lib) \in Claim
    BY <1>0, ClaimTypes
  <2>4. claim' \in [Keys -> Claim]
    BY <1>7, <2>3, Zenon DEF CommitChange, TypeOK
  <2>5. [IdleChange EXCEPT !.pc = "made", !.lib = c.lib, !.row = c.row] \in Change
        /\ IdleChange \in Change
    BY <1>0, ChangeEdit, Zenon
  <2>6. change' \in [Changes -> Change]
    BY <1>7, <2>5 DEF CommitChange, TypeOK
  <2> QED BY <1>7, <2>2, <2>4, <2>6 DEF CommitChange, TypeOK
<1>8. CASE UndoCreate(t)
  <2> DEFINE c == change[t]
  <2>1. [named[c.lib] EXCEPT ![c.row] = NoKey] \in [Rows -> Keys \cup {NoKey}]
        \/ c.lib \notin Libs
    BY <1>0 DEF TypeOK
  <2>2. named' \in [Libs -> [Rows -> Keys \cup {NoKey}]]
    BY <1>8, <2>1, Zenon DEF UndoCreate, TypeOK
  <2> QED BY <1>8, <2>2, ChangeEdit, Zenon DEF UndoCreate, TypeOK
<1>9. CASE RefuseStored(t)
  <2> DEFINE c == change[t]
  <2>1. c.key \in Keys => Recorded(c.key, c.lib) \in Claim
    BY <1>0, ClaimTypes
  <2>2. claim' \in [Keys -> Claim]
    BY <1>9, <2>1, Zenon DEF RefuseStored, TypeOK
  <2> QED BY <1>9, <2>2, ChangeEdit, Zenon DEF RefuseStored, TypeOK
<1>10. CASE Abandon(t)
  BY <1>10, ChangeEdit, Zenon DEF Abandon, TypeOK
<1> QED
  BY <1>1, <1>3, <1>4, <1>5, <1>6, <1>7, <1>8, <1>9, <1>10 DEF ChangeStep, EndChange

\* So does a step of the sweep or of a settle.
LEMMA SettleTypes ==
    ASSUME TypeOK, SettleStep \/ \E k \in Keys : Sweep(k) \/ SettleClaim(k)
    PROVE  TypeOK'
<1>1. IdleSettle \in Settle /\ \A p \in {"unstaged", "doomed", "unlinked"} :
        [settle EXCEPT !.pc = p] \in Settle
  BY DEF IdleSettle, Settle, TypeOK
<1>2. NoClaim \in Claim
  BY DEF NoClaim, Claim
<1>3. ASSUME NEW k \in Keys, Sweep(k) PROVE TypeOK'
  <2>1. ClaimOf(NoLib, FALSE) \in Claim
    BY DEF ClaimOf, Claim
  <2> QED BY <1>3, <2>1 DEF Sweep, TypeOK
<1>4. ASSUME NEW k \in Keys, SettleClaim(k) PROVE TypeOK'
  <2>1. claim[k].lib \in Libs \cup {NoLib}
    BY DEF TypeOK, Claim
  <2>2. [pc |-> "claimed", key |-> k, lib |-> claim[k].lib] \in Settle
    BY <2>1 DEF Settle
  <2> QED BY <1>4, <2>2 DEF SettleClaim, TypeOK
<1>5. CASE SettleStaged
  BY <1>1, <1>2, <1>5 DEF SettleStaged, ForgetClaim, TypeOK
<1>6. CASE SettleNamed
  BY <1>1, <1>2, <1>6 DEF SettleNamed, ForgetClaim, TypeOK
<1>7. CASE SettleUnlink
  BY <1>1, <1>7 DEF SettleUnlink, TypeOK
<1>8. CASE SettleForget
  BY <1>1, <1>2, <1>8 DEF SettleForget, ForgetClaim, TypeOK
<1>9. CASE SettleAbort
  BY <1>1, <1>9 DEF SettleAbort, TypeOK
<1> QED BY <1>3, <1>4, <1>5, <1>6, <1>7, <1>8, <1>9 DEF SettleStep

\* So does a step of a restore, or of what ends it.
LEMMA RestoreTypes ==
    ASSUME TypeOK, RunsSafe, NEW u \in Runs,
           \/ RestoreStep(u) \/ ExpireRestore(u) \/ RecoverRestore(u)
           \/ \E l \in Libs, a \in archives : StartRestore(u, l, a)
    PROVE  TypeOK'
<1>0. run[u] \in Run /\ run[u].key \in Keys \cup {NoKey} /\ run[u].staged \subseteq Keys
      /\ run[u].archive \in Archive /\ run[u].lib \in Libs \cup {NoLib}
      /\ run[u].state \in {"none", "running", "committed", "failed"}
  BY DEF TypeOK, Run
<1>1. ASSUME NEW l \in Libs, NEW a \in archives, StartRestore(u, l, a) PROVE TypeOK'
  <2>1. a \in Archive
    BY DEF TypeOK
  <2>2. [NewRun EXCEPT !.state = "running", !.pc = "check", !.lib = l, !.archive = a] \in Run
    BY <2>1, StartType, Zenon
  <2> QED BY <1>1, <2>2, Zenon DEF StartRestore, TypeOK
<1>2. CASE CheckIds(u)
  BY <1>0, <1>2, RunEdit, Zenon DEF CheckIds, TypeOK
<1>3. ASSUME NEW k \in Keys, StageKey(u, k) PROVE TypeOK'
  <2>1. run[u].staged \cup {k} \in SUBSET Keys
    BY <1>0, Zenon
  <2>2. [run[u] EXCEPT !.pc = "place", !.key = k, !.staged = run[u].staged \cup {k}] \in Run
    BY <1>0, <2>1, RunEdit, Zenon
  <2> QED BY <1>3, <2>2 DEF StageKey, TypeOK
<1>4. CASE PlaceKey(u)
  <2>1. [run[u] EXCEPT !.pc = "stage", !.key = NoKey] \in Run
    BY <1>0, RunEdit, Zenon
  <2>2. run[u].key \in Keys
    BY <1>0, <1>4, Zenon DEF PlaceKey, RunsSafe
  <2> QED BY <1>0, <1>4, <2>1, <2>2 DEF PlaceKey, TypeOK
<1>5. CASE EnterRestore(u)
  BY <1>0, <1>5, RunEdit, Zenon DEF EnterRestore, TypeOK
<1>6. CASE DrainRestore(u)
  BY <1>0, <1>6, RunEdit, Zenon DEF DrainRestore, TypeOK
<1>7. CASE RecheckRestore(u)
  BY <1>0, <1>7, RunEdit, Zenon DEF RecheckRestore, TypeOK
<1>8. CASE CommitRestore(u)
  <2> DEFINE l == run[u].lib
             a == run[u].archive
  <2>1. a.named \in [Rows -> Keys \cup {NoKey}]
    BY <1>0 DEF Archive
  <2>2. ClaimOf(l, TRUE) \in Claim
    BY <1>0 DEF ClaimOf, Claim
  <2>3. \A k \in Keys : MergedClaim(k, l, a) \in Claim
    BY <1>0, ClaimTypes
  <2>4. claim' \in [Keys -> Claim]
    BY <1>8, <2>2, <2>3, Zenon DEF CommitRestore
  <2>5. [run[u] EXCEPT !.state = "committed", !.pc = "dead", !.staged = {}] \in Run
    BY <1>0, RunEdit, Zenon
  <2> QED BY <1>8, <2>1, <2>4, <2>5 DEF CommitRestore, TypeOK
<1>9. CASE AbortRestore(u)
  <2> DEFINE s == IF run[u].state = "running" THEN "failed" ELSE run[u].state
  <2>1. s \in {"none", "running", "committed", "failed"}
    BY <1>0, Zenon
  <2>2. [run[u] EXCEPT !.pc = "dead", !.key = NoKey, !.state = s] \in Run
    BY <1>0, <2>1, RunEdit, Zenon
  <2> QED BY <1>9, <2>2 DEF AbortRestore, TypeOK
<1>10. CASE CrashRestore(u)
  BY <1>0, <1>10, RunEdit, Zenon DEF CrashRestore, TypeOK
<1>11. CASE ExpireRestore(u)
  BY <1>0, <1>11, RunEdit, Zenon DEF ExpireRestore, TypeOK
<1>12. CASE RecoverRestore(u)
  BY <1>0, <1>12, RunEdit, Zenon DEF RecoverRestore, FailRow, TypeOK
<1> QED
  BY <1>1, <1>2, <1>3, <1>4, <1>5, <1>6, <1>7, <1>8, <1>9, <1>10, <1>11, <1>12
  DEF RestoreStep

\* So does a step of a backup.
LEMMA BackupTypes ==
    ASSUME TypeOK, NEW l \in Libs, BackupStep(l)
    PROVE  TypeOK'
<1>0. backup[l] \in Backup /\ backup[l].archive \in Archive /\ backup[l].todo \subseteq Keys
  BY DEF TypeOK, Backup
<1>1. CASE StartBackup(l)
  BY <1>0, <1>1, BackupEdit, Zenon DEF StartBackup, TypeOK
<1>2. CASE ShareObjects(l)
  BY <1>0, <1>2, BackupEdit, Zenon DEF ShareObjects, TypeOK
<1>3. CASE ReadSnapshot(l)
  <2> DEFINE a == [named |-> named[l],
                   claimed |-> {k \in Keys : claim[k].made /\ claim[k].lib = l},
                   held |-> {k \in Keys : Held(k) /\ claim[k].lib = l}]
  <2>1. a \in Archive
    BY DEF TypeOK, Archive
  <2>2. NamedBy(l) \in SUBSET Keys
    BY DEF NamedBy, KeysOf, TypeOK
  <2>3. [backup[l] EXCEPT !.pc = "copying", !.todo = NamedBy(l), !.archive = a] \in Backup
    BY <1>0, <2>1, <2>2, BackupEdit, Zenon
  <2> QED BY <1>3, <2>3 DEF ReadSnapshot, TypeOK
<1>4. CASE CopyObject(l)
  <2>1. PICK k \in backup[l].todo \cap bytes :
          backup' = [backup EXCEPT ![l].todo = backup[l].todo \ {k}]
    BY <1>4 DEF CopyObject
  <2>2. [backup[l] EXCEPT !.todo = backup[l].todo \ {k}] \in Backup
    BY <1>0, BackupEdit, Zenon
  <2> QED BY <1>4, <2>1, <2>2 DEF CopyObject, TypeOK
<1>5. CASE Publish(l)
  BY <1>0, <1>5, EmptyTypes DEF Publish, TypeOK
<1>6. CASE FailBackup(l)
  BY <1>6, EmptyTypes DEF FailBackup, TypeOK
<1>7. CASE ExpireBackup(l)
  BY <1>0, <1>7, BackupEdit, Zenon DEF ExpireBackup, TypeOK
<1>8. CASE RenewBackup(l)
  BY <1>0, <1>8, BackupEdit, Zenon DEF RenewBackup, TypeOK
<1>9. CASE RecoverBackup(l)
  BY <1>0, <1>9, BackupEdit, Zenon DEF RecoverBackup, TypeOK
<1> QED
  BY <1>1, <1>2, <1>3, <1>4, <1>5, <1>6, <1>7, <1>8, <1>9 DEF BackupStep

\* Every step keeps the types.
LEMMA TypeStep ==
    ASSUME TypeOK, RunsSafe, [Next]_vars
    PROVE  TypeOK'
<1>1. CASE UNCHANGED vars
  BY <1>1 DEF vars, TypeOK
<1> QED BY <1>1, ChangeTypes, SettleTypes, RestoreTypes, BackupTypes DEF Next

-----------------------------------------------------------------------------
(* What a step may do *)

\* Names are written by a commit of a command, an undone create and R4.
LEMMA NamedWriters ==
    ASSUME [Next]_vars
    PROVE  \/ named' = named
           \/ \E t \in Changes : CommitChange(t) \/ UndoCreate(t)
           \/ \E u \in Runs : CommitRestore(u)
<1>1. CASE UNCHANGED vars
  BY <1>1, Zenon DEF vars
<1>2. ASSUME NEW t \in Changes, ChangeStep(t)
      PROVE  named' = named \/ CommitChange(t) \/ UndoCreate(t)
  BY <1>2, Zenon
     DEF ChangeStep, EndChange, Store, AdoptStored, AdoptShared, Adopt, Drop, ReleaseOld,
              RefuseStored, Abandon
<1>3. ASSUME NEW k \in Keys, Sweep(k) \/ SettleClaim(k) PROVE named' = named
  BY <1>3 DEF Sweep, SettleClaim
<1>4. CASE SettleStep
  BY <1>4 DEF SettleStep, SettleStaged, SettleNamed, SettleUnlink, SettleForget, SettleAbort
<1>5. ASSUME NEW u \in Runs, NEW l \in Libs, NEW a \in archives, StartRestore(u, l, a)
      PROVE  named' = named
  BY <1>5 DEF StartRestore
<1>6. ASSUME NEW u \in Runs, RestoreStep(u) \/ ExpireRestore(u) \/ RecoverRestore(u)
      PROVE  named' = named \/ CommitRestore(u)
  BY <1>6, Zenon
     DEF RestoreStep, CheckIds, StageKey, PlaceKey, EnterRestore, DrainRestore,
              RecheckRestore, AbortRestore, CrashRestore, ExpireRestore, RecoverRestore
<1>7. ASSUME NEW l \in Libs, BackupStep(l) PROVE named' = named
  BY <1>7 DEF BackupStep, StartBackup, ShareObjects, ReadSnapshot, CopyObject, Publish,
              FailBackup, ExpireBackup, RenewBackup, RecoverBackup
<1> QED BY <1>1, <1>2, <1>3, <1>4, <1>5, <1>6, <1>7 DEF Next

\* Only a settle takes bytes away.
LEMMA BytesKept ==
    ASSUME [Next]_vars
    PROVE  bytes \subseteq bytes' \/ SettleUnlink
<1>1. CASE UNCHANGED vars
  BY <1>1, Zenon DEF vars
<1>2. ASSUME NEW t \in Changes, ChangeStep(t) PROVE bytes \subseteq bytes'
  BY <1>2, Zenon
     DEF ChangeStep, EndChange, Store, AdoptStored, AdoptShared, Adopt, Drop, ReleaseOld,
              CommitChange, UndoCreate, RefuseStored, Abandon
<1>3. ASSUME NEW k \in Keys, Sweep(k) \/ SettleClaim(k) PROVE bytes \subseteq bytes'
  BY <1>3 DEF Sweep, SettleClaim
<1>4. CASE SettleStep
  BY <1>4 DEF SettleStep, SettleStaged, SettleNamed, SettleForget, SettleAbort
<1>5. ASSUME NEW u \in Runs, NEW l \in Libs, NEW a \in archives, StartRestore(u, l, a)
      PROVE  bytes \subseteq bytes'
  BY <1>5 DEF StartRestore
<1>6. ASSUME NEW u \in Runs, RestoreStep(u) \/ ExpireRestore(u) \/ RecoverRestore(u)
      PROVE  bytes \subseteq bytes'
  BY <1>6, Zenon
     DEF RestoreStep, CheckIds, StageKey, PlaceKey, EnterRestore, DrainRestore,
              RecheckRestore, CommitRestore, AbortRestore, CrashRestore, ExpireRestore,
              RecoverRestore
<1>7. ASSUME NEW l \in Libs, BackupStep(l) PROVE bytes \subseteq bytes'
  BY <1>7 DEF BackupStep, StartBackup, ShareObjects, ReadSnapshot, CopyObject, Publish,
              FailBackup, ExpireBackup, RenewBackup, RecoverBackup
<1> QED BY <1>1, <1>2, <1>3, <1>4, <1>5, <1>6, <1>7 DEF Next

\* Commands, settles and restores each write their own progress.
LEMMA OwnProgress ==
    ASSUME [Next]_vars
    PROVE  /\ change' = change \/ \E t \in Changes : ChangeStep(t)
           /\ settle' = settle \/ SettleStep \/ \E k \in Keys : SettleClaim(k)
           /\ \/ run' = run
              \/ \E u \in Runs : \/ RestoreStep(u) \/ ExpireRestore(u) \/ RecoverRestore(u)
                                 \/ \E l \in Libs, a \in archives : StartRestore(u, l, a)
<1>1. CASE UNCHANGED vars
  BY <1>1, Zenon DEF vars
<1>2. ASSUME NEW t \in Changes, ChangeStep(t) PROVE settle' = settle /\ run' = run
  BY <1>2, Zenon
     DEF ChangeStep, EndChange, Store, AdoptStored, AdoptShared, Adopt, Drop, ReleaseOld,
              CommitChange, UndoCreate, RefuseStored, Abandon
<1>3. ASSUME NEW k \in Keys, Sweep(k) \/ SettleClaim(k)
      PROVE  /\ change' = change /\ run' = run
             /\ settle' = settle \/ SettleClaim(k)
  BY <1>3 DEF Sweep, SettleClaim
<1>4. ASSUME SettleStep PROVE change' = change /\ run' = run
  BY <1>4 DEF SettleStep, SettleStaged, SettleNamed, SettleUnlink, SettleForget, SettleAbort
<1>5. ASSUME NEW u \in Runs, NEW l \in Libs, NEW a \in archives, StartRestore(u, l, a)
      PROVE  change' = change /\ settle' = settle
  BY <1>5 DEF StartRestore
<1>6. ASSUME NEW u \in Runs, RestoreStep(u) \/ ExpireRestore(u) \/ RecoverRestore(u)
      PROVE  change' = change /\ settle' = settle
  BY <1>6, Zenon
     DEF RestoreStep, CheckIds, StageKey, PlaceKey, EnterRestore, DrainRestore,
              RecheckRestore, CommitRestore, AbortRestore, CrashRestore, ExpireRestore,
              RecoverRestore
<1>7. ASSUME NEW l \in Libs, BackupStep(l)
      PROVE  change' = change /\ settle' = settle /\ run' = run
  BY <1>7 DEF BackupStep, StartBackup, ShareObjects, ReadSnapshot, CopyObject, Publish,
              FailBackup, ExpireBackup, RenewBackup, RecoverBackup
<1> QED BY <1>1, <1>2, <1>3, <1>4, <1>5, <1>6, <1>7 DEF Next

\* A Library's names grow by a commit's key or become those of an archive,
\* and those of the other Libraries then stay.
LEMMA NamesAfter ==
    ASSUME TypeOK, [Next]_vars
    PROVE  \/ \A l \in Libs : NamedBy(l)' \subseteq NamedBy(l)
           \/ \E t \in Changes :
                 /\ CommitChange(t)
                 /\ \A l \in Libs : \A k \in NamedBy(l)' :
                       k \in NamedBy(l) \/ (l = change[t].lib /\ k = change[t].key /\ k # NoKey)
           \/ \E u \in Runs :
                 /\ CommitRestore(u)
                 /\ \A l \in Libs : \A k \in NamedBy(l)' :
                       IF l = run[u].lib THEN k \in ArchiveKeys(u) ELSE k \in NamedBy(l)
<1>1. CASE named' = named
  BY <1>1 DEF NamedBy, KeysOf
<1>2. ASSUME NEW t \in Changes, CommitChange(t), NEW l \in Libs, NEW k \in NamedBy(l)'
      PROVE  k \in NamedBy(l) \/ (l = change[t].lib /\ k = change[t].key /\ k # NoKey)
  <2>1. PICK r \in Rows : k = named'[l][r]
    BY <1>2 DEF NamedBy, KeysOf
  <2>2. k # NoKey
    BY <1>2 DEF NamedBy, KeysOf
  <2>3. named[l] \in [Rows -> Keys \cup {NoKey}]
    BY DEF TypeOK
  <2>4. named' = [named EXCEPT ![change[t].lib] =
                     [named[change[t].lib] EXCEPT ![change[t].row] = change[t].key]]
    BY <1>2 DEF CommitChange
  <2>5. k = named[l][r] \/ (l = change[t].lib /\ k = change[t].key)
    BY <2>1, <2>3, <2>4 DEF TypeOK
  <2> QED BY <2>2, <2>5 DEF NamedBy, KeysOf
<1>3. ASSUME NEW t \in Changes, UndoCreate(t), NEW l \in Libs, NEW k \in NamedBy(l)'
      PROVE  k \in NamedBy(l)
  <2>1. PICK r \in Rows : k = named'[l][r]
    BY <1>3 DEF NamedBy, KeysOf
  <2>2. k # NoKey
    BY <1>3 DEF NamedBy, KeysOf
  <2>3. named[l] \in [Rows -> Keys \cup {NoKey}]
    BY DEF TypeOK
  <2>4. named' = [named EXCEPT ![change[t].lib] =
                     [named[change[t].lib] EXCEPT ![change[t].row] = NoKey]]
    BY <1>3 DEF UndoCreate
  <2>5. k = named[l][r]
    BY <2>1, <2>2, <2>3, <2>4 DEF TypeOK
  <2> QED BY <2>2, <2>5 DEF NamedBy, KeysOf
<1>4. ASSUME NEW u \in Runs, CommitRestore(u), NEW l \in Libs, NEW k \in NamedBy(l)'
      PROVE  IF l = run[u].lib THEN k \in ArchiveKeys(u) ELSE k \in NamedBy(l)
  <2>1. named' = [named EXCEPT ![run[u].lib] = run[u].archive.named]
    BY <1>4 DEF CommitRestore
  <2>2. named'[l] = IF l = run[u].lib THEN run[u].archive.named ELSE named[l]
    BY <2>1 DEF TypeOK
  <2> QED BY <1>4, <2>2 DEF NamedBy, KeysOf, ArchiveKeys
<1> QED BY <1>1, <1>2, <1>3, <1>4, NamedWriters

\* A command past its locks was there before with the same key, names nothing
\* new, or adopts its key in this step.
LEMMA CommandAfter ==
    ASSUME TypeOK, [Next]_vars, NEW t \in Changes, InCommand(t)'
    PROVE  \/ InCommand(t) /\ change'[t].key = change[t].key /\ change'[t].lib = change[t].lib
           \/ change'[t].key = NoKey
           \/ \E l \in Libs \cup {NoLib}, k \in Keys \cup {NoKey}, r \in Rows, b \in BOOLEAN :
                 /\ Adopt(t, l, k, r, b) /\ Adoptable(k, l)
                 /\ change'[t].key = k /\ change'[t].lib = l
<1>0. change[t] \in Change
  BY DEF TypeOK
<1>1. CASE change' = change
  BY <1>1, Zenon DEF InCommand
<1>2. ASSUME NEW s \in Changes, ChangeStep(s), s # t PROVE change'[t] = change[t]
  BY <1>2, Zenon
     DEF ChangeStep, EndChange, Store, AdoptStored, AdoptShared, Adopt, Drop, ReleaseOld,
              CommitChange, UndoCreate, RefuseStored, Abandon, TypeOK
<1>3. ASSUME NEW l \in Libs, Store(t, l) PROVE FALSE
  BY <1>3 DEF Store, InCommand, IdleChange, TypeOK
<1>4. ASSUME NEW l \in Libs \cup {NoLib}, NEW k \in Keys \cup {NoKey}, NEW r \in Rows,
             NEW b \in BOOLEAN, Adopt(t, l, k, r, b)
      PROVE  Adoptable(k, l) /\ change'[t].key = k /\ change'[t].lib = l
  BY <1>4 DEF Adopt, InCommand, IdleChange, TypeOK
<1>5. ASSUME AdoptStored(t)
      PROVE  \E l \in Libs \cup {NoLib}, k \in Keys \cup {NoKey}, r \in Rows, b \in BOOLEAN :
                 /\ Adopt(t, l, k, r, b) /\ Adoptable(k, l)
                 /\ change'[t].key = k /\ change'[t].lib = l
  <2>1. change[t].lib \in Libs \cup {NoLib} /\ change[t].key \in Keys \cup {NoKey}
    BY <1>0 DEF Change
  <2>2. PICK r \in Rows : Adopt(t, change[t].lib, change[t].key, r, FALSE)
    BY <1>5 DEF AdoptStored
  <2> QED BY <1>4, <2>1, <2>2
<1>6. ASSUME NEW l \in Libs, AdoptShared(t, l)
      PROVE  \E k \in Keys \cup {NoKey}, r \in Rows, b \in BOOLEAN :
                 /\ Adopt(t, l, k, r, b) /\ Adoptable(k, l)
                 /\ change'[t].key = k /\ change'[t].lib = l
  <2>1. Known(l) \subseteq Keys
    BY DEF Known, NamedBy, KeysOf, TypeOK
  <2>2. PICK k \in Known(l), r \in Rows : Adopt(t, l, k, r, TRUE)
    BY <1>6 DEF AdoptShared
  <2> QED BY <1>4, <2>1, <2>2
<1>7. ASSUME NEW l \in Libs, NEW r \in Rows, Drop(t, l, r) PROVE change'[t].key = NoKey
  BY <1>7 DEF Drop, IdleChange, TypeOK
<1>8. ASSUME ReleaseOld(t)
      PROVE  InCommand(t) /\ change'[t].key = change[t].key /\ change'[t].lib = change[t].lib
  BY <1>0, <1>8 DEF ReleaseOld, InCommand, Change, TypeOK
<1>9. ASSUME CommitChange(t) \/ UndoCreate(t) \/ RefuseStored(t) \/ Abandon(t) PROVE FALSE
  <2>1. [IdleChange EXCEPT !.pc = "made", !.lib = change[t].lib, !.row = change[t].row].pc = "made"
        /\ IdleChange.pc = "idle"
    BY DEF IdleChange
  <2>2. CASE CommitChange(t)
    BY <2>1, <2>2 DEF CommitChange, InCommand, TypeOK
  <2>3. CASE UndoCreate(t) \/ RefuseStored(t) \/ Abandon(t)
    BY <2>1, <2>3 DEF UndoCreate, RefuseStored, Abandon, InCommand, TypeOK
  <2> QED BY <1>9, <2>2, <2>3
<1>10. CASE ChangeStep(t)
  BY <1>3, <1>5, <1>6, <1>7, <1>8, <1>9, <1>10 DEF ChangeStep, EndChange
<1> QED BY <1>1, <1>2, <1>10, OwnProgress DEF InCommand

\* A live restore keeps its Library and its staged keys, begins without any,
\* or stages one more.
LEMMA StagedAfter ==
    ASSUME TypeOK, [Next]_vars, NEW v \in Runs, run'[v].state = "running"
    PROVE  \/ run'[v].staged = {}
           \/ /\ run[v].state = "running" /\ run'[v].lib = run[v].lib
              /\ \/ run'[v].staged = run[v].staged
                 \/ \E k \in Keys : StageKey(v, k) /\ run'[v].staged = run[v].staged \cup {k}
<1>0. run[v] \in Run
  BY DEF TypeOK
<1>1. ASSUME NEW u \in Runs, NEW l \in Libs, NEW a \in archives, StartRestore(u, l, a)
      PROVE  IF u = v THEN run'[v].staged = {} ELSE run'[v] = run[v]
  BY <1>1 DEF StartRestore, NewRun, TypeOK
<1>2. ASSUME NEW u \in Runs, u # v, RestoreStep(u) \/ ExpireRestore(u) \/ RecoverRestore(u)
      PROVE  run'[v] = run[v]
  BY <1>2, Zenon
     DEF RestoreStep, CheckIds, StageKey, PlaceKey, EnterRestore, DrainRestore,
              RecheckRestore, CommitRestore, AbortRestore, CrashRestore, ExpireRestore,
              RecoverRestore, FailRow, TypeOK
<1>3. ASSUME NEW k \in Keys, StageKey(v, k)
      PROVE  /\ run'[v].state = run[v].state /\ run'[v].lib = run[v].lib
             /\ run'[v].staged = run[v].staged \cup {k}
  <2>1. run'[v] = [run[v] EXCEPT !.pc = "place", !.key = k, !.staged = run[v].staged \cup {k}]
    BY <1>3 DEF StageKey, TypeOK
  <2> QED BY <1>0, <2>1 DEF Run
<1>4. ASSUME CheckIds(v) \/ PlaceKey(v) \/ EnterRestore(v) \/ DrainRestore(v)
             \/ RecheckRestore(v) \/ CrashRestore(v) \/ ExpireRestore(v)
      PROVE  /\ run'[v].state = run[v].state /\ run'[v].lib = run[v].lib
             /\ run'[v].staged = run[v].staged
  <2>1. \E p \in {"check", "stage", "place", "drain", "recheck", "commit", "dead"} :
           \/ run'[v] = [run[v] EXCEPT !.pc = p]
           \/ run'[v] = [run[v] EXCEPT !.pc = p, !.key = NoKey]
           \/ run'[v] = [run[v] EXCEPT !.expired = TRUE]
    BY <1>4 DEF CheckIds, PlaceKey, EnterRestore, DrainRestore, RecheckRestore,
                CrashRestore, ExpireRestore, TypeOK
  <2> QED BY <1>0, <2>1 DEF Run
<1>5. ASSUME CommitRestore(v) \/ RecoverRestore(v) \/ AbortRestore(v) PROVE FALSE
  <2>1. CASE CommitRestore(v)
    <3>1. run'[v] = [run[v] EXCEPT !.state = "committed", !.pc = "dead", !.staged = {}]
      BY <2>1 DEF CommitRestore, TypeOK
    <3> QED BY <1>0, <3>1 DEF Run
  <2>2. CASE RecoverRestore(v)
    <3>1. run'[v] = [run[v] EXCEPT !.state = "failed"]
      BY <2>2 DEF RecoverRestore, FailRow, TypeOK
    <3> QED BY <1>0, <3>1 DEF Run
  <2>3. CASE AbortRestore(v)
    <3> DEFINE s == IF run[v].state = "running" THEN "failed" ELSE run[v].state
    <3>1. run'[v] = [run[v] EXCEPT !.pc = "dead", !.key = NoKey, !.state = s]
      BY <2>3 DEF AbortRestore, TypeOK
    <3>2. run'[v].state = s
      BY <1>0, <3>1 DEF Run
    <3> QED BY <3>2
  <2> QED BY <1>5, <2>1, <2>2, <2>3
<1>6. CASE run' = run
  BY <1>6
<1>7. ASSUME NEW u \in Runs, RestoreStep(u) \/ ExpireRestore(u) \/ RecoverRestore(u)
      PROVE  /\ run[v].state = "running" /\ run'[v].lib = run[v].lib
             /\ \/ run'[v].staged = run[v].staged
                \/ \E k \in Keys : StageKey(v, k) /\ run'[v].staged = run[v].staged \cup {k}
  <2>1. CASE u # v
    BY <1>2, <1>7, <2>1
  <2>2. CASE u = v
    BY <1>3, <1>4, <1>5, <1>7, <2>2 DEF RestoreStep
  <2> QED BY <2>1, <2>2
<1> QED BY <1>1, <1>6, <1>7, OwnProgress

\* A settle holds its key until it ends, and goes on only if nothing names it.
LEMMA SettleAfter ==
    ASSUME TypeOK, [Next]_vars
    PROVE  \/ settle' = settle
           \/ settle'.pc = "idle" /\ settle'.key = NoKey
           \/ \E k \in Keys : SettleClaim(k) /\ settle'.pc = "claimed" /\ settle'.key = k
           \/ /\ settle'.key = settle.key /\ settle.pc # "idle"
              /\ \/ settle'.pc = "unstaged" /\ ~Staged(settle.key) /\ UNCHANGED <<named, run>>
                 \/ /\ settle'.pc = "doomed" /\ settle.pc = "unstaged"
                    /\ ~Named(settle.key) /\ UNCHANGED <<named, run>>
                 \/ SettleUnlink /\ settle'.pc = "unlinked"
<1>0. /\ \A p \in {"unstaged", "doomed", "unlinked"} : [settle EXCEPT !.pc = p].pc = p
      /\ \A p \in {"unstaged", "doomed", "unlinked"} : [settle EXCEPT !.pc = p].key = settle.key
  BY DEF TypeOK, Settle
<1>1. ASSUME NEW k \in Keys, SettleClaim(k) PROVE settle'.pc = "claimed" /\ settle'.key = k
  BY <1>1 DEF SettleClaim
<1>2. CASE SettleStaged
  <2>1. CASE Staged(settle.key)
    BY <1>2, <2>1 DEF SettleStaged, SettleSeesStaged, ForgetClaim, IdleSettle
  <2>2. CASE ~Staged(settle.key)
    <3>1. /\ settle' = [settle EXCEPT !.pc = "unstaged"] /\ named' = named /\ run' = run
          /\ settle.pc = "claimed"
      BY <1>2, <2>2 DEF SettleStaged, SettleSeesStaged
    <3> QED BY <1>0, <2>2, <3>1
  <2> QED BY <2>1, <2>2
<1>3. CASE SettleNamed
  <2>1. CASE Named(settle.key)
    BY <1>3, <2>1 DEF SettleNamed, ForgetClaim, IdleSettle
  <2>2. CASE ~Named(settle.key)
    <3>1. /\ settle' = [settle EXCEPT !.pc = "doomed"] /\ named' = named /\ run' = run
          /\ settle.pc = "unstaged"
      BY <1>3, <2>2 DEF SettleNamed
    <3> QED BY <1>0, <2>2, <3>1
  <2> QED BY <2>1, <2>2
<1>4. CASE SettleUnlink
  BY <1>0, <1>4 DEF SettleUnlink
<1>5. CASE SettleForget \/ SettleAbort
  BY <1>5 DEF SettleForget, SettleAbort, ForgetClaim, IdleSettle
<1> QED BY <1>1, <1>2, <1>3, <1>4, <1>5, OwnProgress DEF SettleStep

\* A claim is recorded, forgotten by its settle, or replaced by R4, which
\* raises holds on none that a settle has locked and lowers none.
LEMMA ClaimAfter ==
    ASSUME TypeOK, [Next]_vars, NEW k \in Keys
    PROVE  \/ claim'[k] = claim[k]
           \/ claim'[k].made /\ (claim'[k].hold <=> Held(k))
           \/ settle.pc # "idle" /\ k = settle.key /\ ~claim'[k].hold
           \/ (Held(k) => Held(k)') /\ (k = settle.key /\ Held(k)' => Held(k))
<1>0. claim \in [Keys -> Claim] /\ claim[k] \in Claim /\ Held(k) \in BOOLEAN
  BY DEF TypeOK, Claim, Held
<1>1. ASSUME NEW x, NEW l, claim' = [claim EXCEPT ![x] = Recorded(x, l)]
      PROVE  claim'[k] = claim[k] \/ (claim'[k].made /\ (claim'[k].hold <=> Held(k)))
  <2>1. CASE x # k
    BY <1>0, <1>1, <2>1
  <2>2. ASSUME x = k PROVE Recorded(k, l) = claim[k]
                           \/ (Recorded(k, l).made /\ (Recorded(k, l).hold <=> Held(k)))
    BY <1>0, Zenon DEF Recorded, ClaimOf, Held
  <2>3. CASE x = k
    BY <1>0, <1>1, <2>2, <2>3
  <2> QED BY <2>1, <2>3
<1>2. ASSUME ForgetClaim, settle.pc # "idle"
      PROVE  claim'[k] = claim[k] \/ (k = settle.key /\ ~claim'[k].hold)
  BY <1>0, <1>2 DEF ForgetClaim, NoClaim
<1>3. ASSUME NEW t \in Changes, ChangeStep(t)
      PROVE  claim' = claim \/ \E x, l : claim' = [claim EXCEPT ![x] = Recorded(x, l)]
  <2>1. CASE CommitChange(t)
    BY <2>1 DEF CommitChange
  <2>2. CASE RefuseStored(t)
    BY <2>2 DEF RefuseStored
  <2>3. CASE claim' = claim
    BY <2>3
  <2> QED BY <1>3, <2>1, <2>2, <2>3, Zenon
          DEF ChangeStep, EndChange, Store, AdoptStored, AdoptShared, Adopt, Drop, ReleaseOld,
              UndoCreate, Abandon
<1>4. ASSUME NEW x \in Keys, Sweep(x)
      PROVE  claim'[k] = claim[k] \/ (claim'[k].made /\ (claim'[k].hold <=> Held(k)))
  <2>1. claim' = [claim EXCEPT ![x] = ClaimOf(NoLib, FALSE)] /\ ~claim[x].made
    BY <1>4 DEF Sweep
  <2> QED BY <1>0, <2>1 DEF ClaimOf, Held
<1>5. ASSUME SettleStep
      PROVE  claim' = claim \/ (ForgetClaim /\ settle.pc # "idle")
  BY <1>5 DEF SettleStep, SettleStaged, SettleNamed, SettleUnlink, SettleForget, SettleAbort
<1>6. ASSUME NEW u \in Runs, CommitRestore(u)
      PROVE  (Held(k) => Held(k)') /\ (k = settle.key /\ Held(k)' => Held(k))
  <2> DEFINE l == run[u].lib
             a == run[u].archive
  <2>1. claim'[k] = IF k \in Replaced(l, a) THEN ClaimOf(l, TRUE) ELSE MergedClaim(k, l, a)
    BY <1>6 DEF CommitRestore
  <2>2. k = settle.key => k \notin Replaced(l, a) /\ k \notin a.claimed
    BY <1>6 DEF CommitRestore, ClaimRowsFree, Replaced
  <2>3. CASE k \in Replaced(l, a)
    BY <2>1, <2>2, <2>3 DEF Held, ClaimOf
  <2>4. CASE k \notin Replaced(l, a)
    <3>1. claim'[k] = MergedClaim(k, l, a)
      BY <2>1, <2>4
    <3>2. Held(k) => KeptClaim(k, l) = claim[k]
      BY <1>0 DEF Held, KeptClaim
    <3>3. KeptClaim(k, l).made /\ KeptClaim(k, l).hold => Held(k)
      BY <1>0 DEF Held, KeptClaim, NoClaim
    <3>4. KeptClaim(k, l) \in Claim
      BY <1>0 DEF KeptClaim, NoClaim, Claim
    <3>5. CASE k \notin a.claimed
      BY <3>1, <3>2, <3>3, <3>5 DEF Held, MergedClaim
    <3>6. CASE k \in a.claimed
      <4>1. k # settle.key
        BY <2>2, <3>6
      <4>2. ASSUME Held(k) PROVE claim'[k] = [claim[k] EXCEPT !.hold = @ \/ k \in a.held]
        BY <3>1, <3>2, <3>6, <4>2 DEF Held, MergedClaim
      <4>3. ASSUME Held(k) PROVE claim'[k].made /\ claim'[k].hold
        <5>1. claim[k].hold = TRUE /\ claim[k].made
          BY <1>0, <4>3 DEF Held, Claim
        <5>2. claim'[k] = [claim[k] EXCEPT !.hold = TRUE]
          BY <4>2, <4>3, <5>1
        <5> QED BY <1>0, <5>1, <5>2 DEF Claim
      <4> QED BY <4>1, <4>3 DEF Held
    <3> QED BY <3>5, <3>6
  <2> QED BY <2>3, <2>4
<1>7. ASSUME NEW x \in Keys, SettleClaim(x) PROVE claim' = claim
  BY <1>7 DEF SettleClaim
<1>8. ASSUME NEW u \in Runs,
             \/ RestoreStep(u) \/ ExpireRestore(u) \/ RecoverRestore(u)
             \/ \E l \in Libs, a \in archives : StartRestore(u, l, a)
      PROVE  claim' = claim \/ CommitRestore(u)
  BY <1>8, Zenon
     DEF RestoreStep, CheckIds, StageKey, PlaceKey, EnterRestore, DrainRestore,
              RecheckRestore, AbortRestore, CrashRestore, ExpireRestore, RecoverRestore,
              StartRestore
<1>9. ASSUME NEW l \in Libs, BackupStep(l) PROVE claim' = claim
  BY <1>9 DEF BackupStep, StartBackup, ShareObjects, ReadSnapshot, CopyObject, Publish,
              FailBackup, ExpireBackup, RenewBackup, RecoverBackup
<1>10. CASE UNCHANGED vars
  BY <1>10 DEF vars
<1> QED
  BY <1>1, <1>2, <1>3, <1>4, <1>5, <1>6, <1>7, <1>8, <1>9, <1>10 DEF Next

-----------------------------------------------------------------------------
(* The parts of the invariant *)

\* A restore may commit only what it has staged, placed and found its own.
LEMMA CommitRestoreFacts ==
    ASSUME SInv, NEW u \in Runs, CommitRestore(u)
    PROVE  /\ u \in LiveRuns
           /\ ArchiveKeys(u) \subseteq run[u].staged
           /\ run[u].staged \subseteq bytes
           /\ \A k \in run[u].staged, m \in Libs \ {run[u].lib} : k \notin NamedBy(m)
<1>1. run[u].pc = "commit" /\ u \in LiveRuns
  BY DEF CommitRestore, LeaseKept, LiveRuns
<1>2. ArchiveKeys(u) \subseteq run[u].staged /\ run[u].key = NoKey
  BY <1>1 DEF SInv, RunsSafe
<1>3. run[u].staged \subseteq Keys
  BY DEF SInv, TypeOK, Run
<1>4. run[u].staged \ {NoKey} \subseteq bytes
  BY <1>1, <1>2 DEF SInv, StagedStored
<1>5. \A k \in run[u].staged : ~OwnedElsewhere(k, run[u].lib)
  BY DEF CommitRestore
<1> QED BY <1>1, <1>2, <1>3, <1>4, <1>5, SentinelsAssumption DEF OwnedElsewhere

\* The per-object lock keeps what adopt() has checked.
LEMMA CommandsStep ==
    ASSUME SInv, [Next]_vars
    PROVE  CommandsSafe'
<1> SUFFICES ASSUME NEW t \in Changes, InCommand(t)', change'[t].key # NoKey
             PROVE  LET k == change'[t].key IN
                    /\ k \in bytes' /\ settle'.key # k
                    /\ \A s \in Changes \ {t} : InCommand(s)' => change'[s].key # k
                    /\ \A m \in Libs \ {change'[t].lib} : k \notin NamedBy(m)'
                    /\ \A u \in LiveRuns' : run'[u].lib # change'[t].lib
                                              => k \notin run'[u].staged
  BY DEF CommandsSafe
<1> DEFINE k == change'[t].key
<1>0. TypeOK /\ CommandsSafe
  BY DEF SInv
<1>1. CASE InCommand(t) /\ change'[t].key = change[t].key /\ change'[t].lib = change[t].lib
  <2>1. /\ k \in bytes /\ settle.key # k
        /\ \A s \in Changes \ {t} : InCommand(s) => change[s].key # k
        /\ \A m \in Libs \ {change'[t].lib} : k \notin NamedBy(m)
        /\ \A u \in LiveRuns : run[u].lib # change'[t].lib => k \notin run[u].staged
    BY <1>0, <1>1 DEF CommandsSafe
  <2>2. ASSUME NEW x, ObjectFree(x) PROVE x # k
    BY <1>1, <2>2 DEF ObjectFree, ObjectLocks
  <2>3. k \in bytes'
    BY <2>1, BytesKept DEF SettleUnlink
  <2>4. settle'.key # k
    BY <1>0, <2>1, <2>2, SettleAfter DEF SettleClaim
  <2>5. ASSUME NEW s \in Changes \ {t}, InCommand(s)' PROVE change'[s].key # k
    BY <1>0, <2>1, <2>2, <2>5, CommandAfter, Zenon DEF Adopt
  <2>6. ASSUME NEW m \in Libs \ {change'[t].lib}, k \in NamedBy(m)' PROVE FALSE
    <3>1. ASSUME NEW s \in Changes, CommitChange(s), m = change[s].lib, k = change[s].key
          PROVE  FALSE
      <4>1. InCommand(s) /\ s # t
        BY <1>1, <3>1 DEF CommitChange, InCommand
      <4> QED BY <2>1, <3>1, <4>1
    <3>2. ASSUME NEW u \in Runs, CommitRestore(u), m = run[u].lib, k \in ArchiveKeys(u)
          PROVE  FALSE
      BY <2>1, <3>2, CommitRestoreFacts
    <3> QED BY <1>0, <2>1, <2>6, <3>1, <3>2, NamesAfter
  <2>7. ASSUME NEW u \in LiveRuns', run'[u].lib # change'[t].lib PROVE k \notin run'[u].staged
    <3>1. u \in Runs /\ run'[u].state = "running"
      BY <2>7 DEF LiveRuns
    <3>2. ASSUME run[u].state = "running", run'[u].lib = run[u].lib
          PROVE  k \notin run[u].staged
      BY <2>1, <2>7, <3>1, <3>2 DEF LiveRuns
    <3>3. ASSUME NEW x \in Keys, StageKey(u, x) PROVE x # k
      BY <2>2, <3>3 DEF StageKey, StageLockFree
    <3> QED BY <1>0, <3>1, <3>2, <3>3, StagedAfter
  <2> QED BY <2>3, <2>4, <2>5, <2>6, <2>7
<1>2. ASSUME NEW l \in Libs \cup {NoLib}, NEW r \in Rows, NEW b \in BOOLEAN,
             Adopt(t, l, k, r, b), Adoptable(k, l), change'[t].lib = l
      PROVE  /\ k \in bytes' /\ settle'.key # k
             /\ \A s \in Changes \ {t} : InCommand(s)' => change'[s].key # k
             /\ \A m \in Libs \ {l} : k \notin NamedBy(m)'
             /\ \A u \in LiveRuns' : run'[u].lib # l => k \notin run'[u].staged
  <2>1. /\ bytes' = bytes /\ settle' = settle /\ named' = named /\ run' = run
        /\ \A s \in Changes \ {t} : change'[s] = change[s]
    BY <1>0, <1>2 DEF Adopt, TypeOK
  <2>2. k \in bytes /\ ~HeldElsewhere(k, l)
    BY <1>2 DEF Adoptable
  <2>3. settle.key # k /\ \A s \in Changes : InCommand(s) => change[s].key # k
    BY <1>2 DEF Adopt, ObjectFree, ObjectLocks
  <2>4. \A s \in Changes \ {t} : InCommand(s)' => change'[s].key # k
    BY <2>1, <2>3 DEF InCommand
  <2>5. \A m \in Libs \ {l} : k \notin NamedBy(m)'
    BY <2>1, <2>2 DEF HeldElsewhere, OwnedElsewhere, NamedBy
  <2>6. \A u \in LiveRuns' : run'[u].lib # l => k \notin run'[u].staged
    BY <2>1, <2>2 DEF HeldElsewhere, LiveRuns
  <2> QED BY <2>1, <2>2, <2>3, <2>4, <2>5, <2>6
<1> QED BY <1>0, <1>1, <1>2, CommandAfter

\* A settle that has read a key unnamed keeps it so: whoever could name it
\* has locked it, or waits for the lock.
LEMMA SettleStays ==
    ASSUME SInv, [Next]_vars
    PROVE  SettleSafe'
<1>0. TypeOK /\ CommandsSafe /\ SettleSafe
  BY DEF SInv
<1>1. ASSUME NEW k, ~Staged(k), \A u \in Runs : ~StageKey(u, k)
      PROVE  ~Staged(k)'
  <2> SUFFICES ASSUME NEW v \in LiveRuns', k \in run'[v].staged PROVE FALSE
    BY DEF Staged
  <2>1. v \in Runs /\ run'[v].state = "running"
    BY DEF LiveRuns
  <2>2. run[v].state = "running" => k \notin run[v].staged
    BY <1>1, <2>1 DEF Staged, LiveRuns
  <2> QED BY <1>0, <1>1, <2>1, <2>2, StagedAfter
<1>2. ASSUME NEW k, ~Named(k), ~Staged(k),
             \A t \in Changes : InCommand(t) /\ change[t].key # NoKey => change[t].key # k
      PROVE  ~Named(k)'
  <2> SUFFICES ASSUME NEW l \in Libs, k \in NamedBy(l)' PROVE FALSE
    BY DEF Named
  <2>1. k \notin NamedBy(l)
    BY <1>2 DEF Named
  <2>2. ASSUME NEW t \in Changes, CommitChange(t) PROVE InCommand(t)
    BY <2>2 DEF CommitChange, InCommand
  <2>3. ASSUME NEW u \in Runs, CommitRestore(u), k \in ArchiveKeys(u) PROVE FALSE
    BY <1>2, <2>3, CommitRestoreFacts DEF Staged
  <2> QED BY <1>0, <1>2, <2>1, <2>2, <2>3, NamesAfter
<1>3. ASSUME settle' = settle PROVE SettleSafe'
  <2>0. PICK k : k = settle.key
    OBVIOUS
  <2>1. \A u \in Runs : ~StageKey(u, k)
    BY <2>0 DEF StageKey, StageLockFree, ObjectFree
  <2>2. \A t \in Changes : InCommand(t) /\ change[t].key # NoKey => change[t].key # k
    BY <1>0, <2>0 DEF CommandsSafe
  <2>3. ASSUME settle.pc \in {"unstaged", "doomed", "unlinked"} PROVE ~Staged(k)'
    <3>1. ~Staged(k)
      BY <1>0, <2>0, <2>3 DEF SettleSafe
    <3> QED BY <1>1, <2>1, <3>1
  <2>4. ASSUME settle.pc \in {"doomed", "unlinked"} PROVE ~Named(k)'
    <3>1. ~Staged(k) /\ ~Named(k)
      BY <1>0, <2>0, <2>4 DEF SettleSafe
    <3> QED BY <1>2, <2>2, <3>1
  <2>5. settle'.key = k /\ settle'.pc = settle.pc
    BY <1>3, <2>0
  <2> QED BY <2>3, <2>4, <2>5 DEF SettleSafe, Staged, Named
<1>4. ASSUME UNCHANGED <<named, run>>, NEW k, settle'.key = k
      PROVE  /\ Staged(k) <=> Staged(settle.key)'
             /\ Named(k) <=> Named(settle.key)'
  BY <1>4 DEF Staged, Named, NamedBy, LiveRuns
<1>5. ASSUME settle'.pc \in {"idle", "claimed"} PROVE SettleSafe'
  BY <1>5 DEF SettleSafe
<1>6. ASSUME settle'.key = settle.key, settle'.pc = "unstaged", ~Staged(settle.key),
             UNCHANGED <<named, run>>
      PROVE  SettleSafe'
  BY <1>4, <1>6 DEF SettleSafe
<1>7. ASSUME settle'.key = settle.key, settle'.pc = "doomed", settle.pc = "unstaged",
             ~Named(settle.key), UNCHANGED <<named, run>>
      PROVE  SettleSafe'
  BY <1>0, <1>4, <1>7 DEF SettleSafe
<1>8. ASSUME settle'.key = settle.key, settle'.pc = "unlinked", SettleUnlink
      PROVE  SettleSafe'
  <2>1. UNCHANGED <<named, run>> /\ settle.pc = "doomed"
    BY <1>8 DEF SettleUnlink
  <2> QED BY <1>0, <1>4, <1>8, <2>1 DEF SettleSafe
<1> QED BY <1>0, <1>3, <1>5, <1>6, <1>7, <1>8, SettleAfter

\* A restore places a key only while it stages it, and goes on with all staged.
LEMMA RunsStep ==
    ASSUME TypeOK, RunsSafe, [Next]_vars
    PROVE  RunsSafe'
<1> DEFINE Good(r) ==
       /\ r.key = NoKey <=> r.pc # "place"
       /\ r.pc \in {"drain", "recheck", "commit"} => KeysOf(r.archive.named) \subseteq r.staged
<1>1. RunsSafe <=> \A v \in Runs : Good(run[v])
  BY DEF RunsSafe, ArchiveKeys
<1>2. RunsSafe' <=> \A v \in Runs : Good(run'[v])
  BY DEF RunsSafe, ArchiveKeys, KeysOf
<1>3. \A v \in Runs : Good(run[v]) /\ run[v] \in Run
  BY <1>1 DEF TypeOK
<1> SUFFICES ASSUME NEW u \in Runs,
                    \/ RestoreStep(u) \/ ExpireRestore(u) \/ RecoverRestore(u)
                    \/ \E l \in Libs, a \in archives : StartRestore(u, l, a)
             PROVE  Good(run'[u]) /\ \A v \in Runs \ {u} : run'[v] = run[v]
  BY <1>2, <1>3, OwnProgress
<1> HIDE DEF Good
<1>4. ASSUME NEW r, run' = [run EXCEPT ![u] = r], Good(r)
      PROVE  Good(run'[u]) /\ \A v \in Runs \ {u} : run'[v] = run[v]
  BY <1>4 DEF TypeOK
<1> DEFINE r0 == run[u]
<1>5. r0 \in Run /\ Good(r0)
  BY <1>3
<1>6. ASSUME NEW l \in Libs, NEW a \in archives, StartRestore(u, l, a)
      PROVE  \E r : run' = [run EXCEPT ![u] = r] /\ Good(r)
  <2> DEFINE r == [NewRun EXCEPT !.state = "running", !.pc = "check", !.lib = l, !.archive = a]
  <2>1. r.pc = "check" /\ r.key = NoKey
    BY DEF NewRun
  <2>2. Good(r)
    BY <2>1 DEF Good
  <2> QED BY <1>6, <2>2, Zenon DEF StartRestore
<1>7. ASSUME NEW p \in {"stage", "recheck", "commit"}, run' = [run EXCEPT ![u].pc = p],
             r0.pc # "place",
             p \in {"recheck", "commit"} => r0.pc \in {"drain", "recheck", "commit"}
      PROVE  \E r : run' = [run EXCEPT ![u] = r] /\ Good(r)
  <2> DEFINE r == [r0 EXCEPT !.pc = p]
  <2>1. r.pc = p /\ r.key = r0.key /\ r.archive = r0.archive /\ r.staged = r0.staged
    BY <1>5 DEF Run
  <2>2. Good(r)
    BY <1>5, <1>7, <2>1 DEF Good
  <2> QED BY <1>7, <2>2 DEF TypeOK
<1>8. CASE CheckIds(u) \/ DrainRestore(u) \/ RecheckRestore(u)
  BY <1>4, <1>7, <1>8 DEF CheckIds, DrainRestore, RecheckRestore
<1>9. ASSUME NEW k \in Keys, StageKey(u, k)
      PROVE  \E r : run' = [run EXCEPT ![u] = r] /\ Good(r)
  <2> DEFINE r == [r0 EXCEPT !.pc = "place", !.key = k, !.staged = r0.staged \cup {k}]
  <2>1. r.pc = "place" /\ r.key = k
    BY <1>5 DEF Run
  <2>2. Good(r)
    BY <2>1, SentinelsAssumption DEF Good
  <2> QED BY <1>9, <2>2 DEF StageKey
<1>10. CASE PlaceKey(u)
  <2> DEFINE r == [r0 EXCEPT !.pc = "stage", !.key = NoKey]
  <2>1. r.pc = "stage" /\ r.key = NoKey
    BY <1>5 DEF Run
  <2>2. Good(r)
    BY <2>1 DEF Good
  <2> QED BY <1>4, <1>10, <2>2 DEF PlaceKey
<1>11. CASE EnterRestore(u)
  <2> DEFINE r == [r0 EXCEPT !.pc = "drain"]
  <2>1. r.pc = "drain" /\ r.key = r0.key /\ r.archive = r0.archive /\ r.staged = r0.staged
    BY <1>5 DEF Run
  <2>2. r0.pc = "stage" /\ KeysOf(r0.archive.named) \subseteq r0.staged
    BY <1>11 DEF EnterRestore, ArchiveKeys
  <2>3. Good(r)
    BY <1>5, <2>1, <2>2 DEF Good
  <2> QED BY <1>4, <1>11, <2>3 DEF EnterRestore
<1>12. CASE CommitRestore(u)
  <2> DEFINE r == [r0 EXCEPT !.state = "committed", !.pc = "dead", !.staged = {}]
  <2>1. r.pc = "dead" /\ r.key = r0.key /\ r0.pc = "commit"
    BY <1>5, <1>12 DEF Run, CommitRestore
  <2>2. Good(r)
    BY <1>5, <2>1 DEF Good
  <2> QED BY <1>4, <1>12, <2>2 DEF CommitRestore
<1>13. CASE AbortRestore(u)
  <2> DEFINE s == IF r0.state = "running" THEN "failed" ELSE r0.state
             r == [r0 EXCEPT !.pc = "dead", !.key = NoKey, !.state = s]
  <2>1. r.pc = "dead" /\ r.key = NoKey
    BY <1>5 DEF Run
  <2>2. Good(r)
    BY <2>1 DEF Good
  <2> QED BY <1>4, <1>13, <2>2 DEF AbortRestore
<1>14. CASE CrashRestore(u)
  <2> DEFINE r == [r0 EXCEPT !.pc = "dead", !.key = NoKey]
  <2>1. r.pc = "dead" /\ r.key = NoKey
    BY <1>5 DEF Run
  <2>2. Good(r)
    BY <2>1 DEF Good
  <2> QED BY <1>4, <1>14, <2>2 DEF CrashRestore
<1>15. CASE ExpireRestore(u)
  <2> DEFINE r == [r0 EXCEPT !.expired = TRUE]
  <2>1. r.pc = r0.pc /\ r.key = r0.key /\ r.archive = r0.archive /\ r.staged = r0.staged
    BY <1>5 DEF Run
  <2>2. Good(r)
    BY <1>5, <2>1 DEF Good
  <2>3. run' = [run EXCEPT ![u] = r]
    BY <1>15 DEF ExpireRestore, TypeOK
  <2> QED BY <1>4, <2>2, <2>3
<1>16. CASE RecoverRestore(u)
  <2> DEFINE r == [r0 EXCEPT !.state = "failed"]
  <2>1. r.pc = r0.pc /\ r.key = r0.key /\ r.archive = r0.archive /\ r.staged = r0.staged
    BY <1>5 DEF Run
  <2>2. Good(r)
    BY <1>5, <2>1 DEF Good
  <2> QED BY <1>4, <1>16, <2>2 DEF RecoverRestore, FailRow
<1> QED
  BY <1>4, <1>6, <1>8, <1>9, <1>10, <1>11, <1>12, <1>13, <1>14, <1>15, <1>16 DEF RestoreStep

\* A name arrives with bytes that its command or its restore keeps there.
LEMMA NamedStep ==
    ASSUME SInv, [Next]_vars
    PROVE  NamedStored'
<1> SUFFICES ASSUME NEW l \in Libs, NEW k \in NamedBy(l)' PROVE k \in bytes'
  BY DEF NamedStored
<1>0. TypeOK /\ CommandsSafe /\ SettleSafe /\ NamedStored
  BY DEF SInv
<1>1. CASE k \in NamedBy(l)
  <2>1. k \in bytes /\ Named(k)
    BY <1>0, <1>1 DEF NamedStored, Named
  <2>2. SettleUnlink => bytes' = bytes \ {settle.key} /\ ~Named(settle.key)
    BY <1>0 DEF SettleUnlink, SettleSafe
  <2> QED BY <2>1, <2>2, BytesKept
<1>2. ASSUME NEW t \in Changes, CommitChange(t), k = change[t].key, k # NoKey
      PROVE  k \in bytes'
  BY <1>0, <1>2 DEF CommitChange, CommandsSafe, InCommand
<1>3. ASSUME NEW u \in Runs, CommitRestore(u), k \in ArchiveKeys(u)
      PROVE  k \in bytes'
  <2>1. bytes' = bytes
    BY <1>3 DEF CommitRestore
  <2> QED BY <1>3, <2>1, CommitRestoreFacts
<1> QED BY <1>0, <1>1, <1>2, <1>3, NamesAfter

\* A staged key is placed before the restore goes on, and no settle that has
\* not read the staged keys can delete it.
LEMMA StagedStep ==
    ASSUME SInv, [Next]_vars
    PROVE  StagedStored'
<1> SUFFICES ASSUME NEW v \in Runs, run'[v].state = "running", run'[v].pc # "dead",
                    NEW k \in run'[v].staged, k # run'[v].key
             PROVE  k \in bytes'
  BY DEF StagedStored, LiveRuns
<1>0. TypeOK /\ RunsSafe /\ SettleSafe /\ StagedStored /\ run[v] \in Run
  BY DEF SInv, TypeOK
<1>1. ASSUME run[v].state = "running", run[v].pc # "dead", k \in run[v].staged, k # run[v].key
      PROVE  k \in bytes'
  <2>1. k \in bytes /\ Staged(k)
    BY <1>0, <1>1 DEF StagedStored, Staged, LiveRuns
  <2>2. SettleUnlink => bytes' = bytes \ {settle.key} /\ ~Staged(settle.key)
    BY <1>0 DEF SettleUnlink, SettleSafe
  <2> QED BY <2>1, <2>2, BytesKept
<1>2. CASE run'[v] = run[v]
  BY <1>1, <1>2
<1>3. ASSUME NEW x \in Keys, StageKey(v, x) PROVE k \in bytes'
  <2>1. run'[v] = [run[v] EXCEPT !.pc = "place", !.key = x, !.staged = run[v].staged \cup {x}]
    BY <1>0, <1>3 DEF StageKey, TypeOK
  <2>2. /\ run'[v].state = run[v].state /\ run'[v].key = x
        /\ run'[v].staged = run[v].staged \cup {x}
    BY <1>0, <2>1 DEF Run
  <2>3. run[v].pc = "stage" /\ run[v].key = NoKey
    BY <1>0, <1>3 DEF StageKey, RunsSafe
  <2>4. k # NoKey
    BY <1>0, <2>2, SentinelsAssumption DEF Run
  <2> QED BY <1>1, <2>2, <2>3, <2>4
<1>4. CASE PlaceKey(v)
  <2>1. run'[v] = [run[v] EXCEPT !.pc = "stage", !.key = NoKey]
    BY <1>0, <1>4 DEF PlaceKey, TypeOK
  <2>2. run'[v].state = run[v].state /\ run'[v].staged = run[v].staged
    BY <1>0, <2>1 DEF Run
  <2>3. run[v].key \in bytes' /\ run[v].pc # "dead"
    BY <1>4 DEF PlaceKey
  <2> QED BY <1>1, <2>2, <2>3
<1>5. ASSUME CheckIds(v) \/ EnterRestore(v) \/ DrainRestore(v) \/ RecheckRestore(v)
             \/ ExpireRestore(v)
      PROVE  k \in bytes'
  <2>1. \/ \E p \in {"stage", "drain", "recheck", "commit"} :
              run[v].pc # "dead" /\ run'[v] = [run[v] EXCEPT !.pc = p]
        \/ run'[v] = [run[v] EXCEPT !.expired = TRUE]
    BY <1>0, <1>5 DEF CheckIds, EnterRestore, DrainRestore, RecheckRestore, ExpireRestore, TypeOK
  <2>2. /\ run'[v].state = run[v].state /\ run'[v].staged = run[v].staged
        /\ run'[v].key = run[v].key
        /\ run[v].pc # "dead"
    BY <1>0, <2>1 DEF Run
  <2> QED BY <1>1, <2>2
<1>6. ASSUME CommitRestore(v) \/ AbortRestore(v) \/ CrashRestore(v) PROVE FALSE
  <2>1. CASE CommitRestore(v)
    <3>1. run'[v] = [run[v] EXCEPT !.state = "committed", !.pc = "dead", !.staged = {}]
      BY <1>0, <2>1 DEF CommitRestore, TypeOK
    <3> QED BY <1>0, <3>1 DEF Run
  <2>2. CASE AbortRestore(v)
    <3> DEFINE s == IF run[v].state = "running" THEN "failed" ELSE run[v].state
    <3>1. run'[v] = [run[v] EXCEPT !.pc = "dead", !.key = NoKey, !.state = s]
      BY <1>0, <2>2 DEF AbortRestore, TypeOK
    <3> QED BY <1>0, <3>1 DEF Run
  <2>3. CASE CrashRestore(v)
    <3>1. run'[v] = [run[v] EXCEPT !.pc = "dead", !.key = NoKey]
      BY <1>0, <2>3 DEF CrashRestore, TypeOK
    <3> QED BY <1>0, <3>1 DEF Run
  <2> QED BY <1>6, <2>1, <2>2, <2>3
<1>7. ASSUME RecoverRestore(v) PROVE FALSE
  <2>1. run'[v] = [run[v] EXCEPT !.state = "failed"]
    BY <1>0, <1>7 DEF RecoverRestore, FailRow, TypeOK
  <2> QED BY <1>0, <2>1 DEF Run
<1>8. ASSUME NEW l \in Libs, NEW a \in archives, StartRestore(v, l, a) PROVE FALSE
  <2>1. run'[v] = [NewRun EXCEPT !.state = "running", !.pc = "check", !.lib = l, !.archive = a]
    BY <1>0, <1>8 DEF StartRestore, TypeOK
  <2>2. run'[v].staged = {}
    BY <2>1 DEF NewRun
  <2> QED BY <2>2
<1>9. ASSUME NEW u \in Runs, u # v,
             \/ RestoreStep(u) \/ ExpireRestore(u) \/ RecoverRestore(u)
             \/ \E l \in Libs, a \in archives : StartRestore(u, l, a)
      PROVE  run'[v] = run[v]
  <2>1. \E r : run' = [run EXCEPT ![u] = r]
    BY <1>9, Zenon
       DEF RestoreStep, CheckIds, StageKey, PlaceKey, EnterRestore, DrainRestore,
                RecheckRestore, CommitRestore, AbortRestore, CrashRestore, ExpireRestore,
                RecoverRestore, FailRow, StartRestore
  <2> QED BY <1>0, <1>9, <2>1, Zenon DEF TypeOK
<1> QED
  BY <1>2, <1>3, <1>4, <1>5, <1>6, <1>7, <1>8, <1>9, OwnProgress DEF RestoreStep

\* Adoption and R4 both refuse what another Library names.
LEMMA LibraryStep ==
    ASSUME SInv, [Next]_vars
    PROVE  OneLibrary'
<1> SUFFICES ASSUME NEW l \in Libs, NEW m \in Libs, l # m, NEW k \in NamedBy(l)',
                    k \in NamedBy(m)'
             PROVE  FALSE
  BY DEF OneLibrary
<1>0. TypeOK /\ CommandsSafe /\ OneLibrary
  BY DEF SInv
<1>1. ~(k \in NamedBy(l) /\ k \in NamedBy(m))
  BY <1>0 DEF OneLibrary
<1>2. ASSUME NEW t \in Changes, CommitChange(t), k = change[t].key, k # NoKey,
             NEW x \in Libs \ {change[t].lib}
      PROVE  k \notin NamedBy(x)
  BY <1>0, <1>2 DEF CommitChange, CommandsSafe, InCommand
<1>3. ASSUME NEW u \in Runs, CommitRestore(u), k \in ArchiveKeys(u),
             NEW x \in Libs \ {run[u].lib}
      PROVE  k \notin NamedBy(x)
  BY <1>3, CommitRestoreFacts
<1> QED BY <1>0, <1>1, <1>2, <1>3, NamesAfter

\* A settle takes only what is not held, and nothing holds it meanwhile.
LEMMA UnheldStep ==
    ASSUME TypeOK, SettleUnheld, [Next]_vars
    PROVE  SettleUnheld'
<1> SUFFICES ASSUME settle'.pc # "idle", NEW k, k = settle'.key
             PROVE  k \in Keys /\ ~Held(k)'
  BY DEF SettleUnheld, Held
<1>1. ASSUME k = settle.key, settle.pc # "idle" PROVE k \in Keys /\ ~Held(k)'
  <2>1. k \in Keys /\ ~Held(k)
    BY <1>1 DEF SettleUnheld
  <2> QED BY <1>1, <2>1, ClaimAfter DEF Held
<1>2. ASSUME k \in Keys, SettleClaim(k) PROVE ~Held(k)'
  BY <1>2 DEF SettleClaim, Due, Held
<1> QED BY <1>1, <1>2, SettleAfter

\* A step lowers no hold, and deletes no held bytes.
LEMMA HoldStep ==
    ASSUME TypeOK, SettleUnheld, [Next]_vars, NEW k \in Keys, Held(k)
    PROVE  Held(k)' /\ (k \in bytes => k \in bytes')
<1>1. settle.pc # "idle" => k # settle.key
  BY DEF SettleUnheld
<1>2. Held(k)'
  BY <1>1, ClaimAfter DEF Held
<1>3. k \in bytes => k \in bytes'
  BY <1>1, BytesKept DEF SettleUnlink
<1> QED BY <1>2, <1>3

-----------------------------------------------------------------------------
(* The theorems *)

\* The parts of SInv hold at the start: nothing is stored and nobody acts.
LEMMA InitInv == Init => SInv
<1> SUFFICES ASSUME Init PROVE SInv
  OBVIOUS
<1>1. TypeOK
  <2>1. IdleChange \in Change /\ IdleSettle \in Settle /\ NoClaim \in Claim
    BY DEF IdleChange, Change, IdleSettle, Settle, NoClaim, Claim
  <2>2. minted \subseteq Keys
    BY ArchivesAssumption DEF Init, Archive, KeysOf
  <2> QED BY <2>1, <2>2, EmptyTypes, ArchivesAssumption DEF Init, TypeOK
<1>2. \A t \in Changes : ~InCommand(t)
  BY DEF Init, InCommand, IdleChange
<1>3. \A u \in Runs : run[u].state = "none" /\ run[u].pc = "none" /\ run[u].key = NoKey
  BY DEF Init, NewRun
<1>4. settle.pc = "idle"
  BY DEF Init, IdleSettle
<1>5. \A l \in Libs : NamedBy(l) = {}
  BY DEF Init, NamedBy, KeysOf
<1> QED
  BY <1>1, <1>2, <1>3, <1>4, <1>5
  DEF SInv, CommandsSafe, SettleSafe, SettleUnheld, RunsSafe, NamedStored, StagedStored, OneLibrary, LiveRuns

\* SInv is inductive.
THEOREM Invariance == Spec => []SInv
<1>1. ASSUME SInv, [Next]_vars PROVE SInv'
  <2>1. TypeOK /\ RunsSafe /\ SettleUnheld
    BY <1>1 DEF SInv
  <2>2. TypeOK' /\ RunsSafe' /\ SettleUnheld'
    BY <1>1, <2>1, TypeStep, RunsStep, UnheldStep
  <2> QED
    BY <1>1, <2>2, CommandsStep, SettleStays, NamedStep, StagedStep, LibraryStep DEF SInv
<1> QED BY <1>1, InitInv, PTL DEF Spec

\* Every variable keeps its shape, whatever the processes do.
THEOREM Types == Spec => []TypeOK
<1>1. SInv => TypeOK
  BY DEF SInv
<1> QED BY <1>1, Invariance, PTL

\* No settle, sweep or failed upload deletes bytes that a row of any Library
\* names (settle_tx and adopt, lifecycle.py).
THEOREM Stored == Spec => []NamedStored
<1>1. SInv => NamedStored
  BY DEF SInv
<1> QED BY <1>1, Invariance, PTL

\* What a running restore has placed is there until it commits or fails
\* (_stage_objects, staging.py).
THEOREM StagedKept == Spec => []StagedStored
<1>1. SInv => StagedStored
  BY DEF SInv
<1> QED BY <1>1, Invariance, PTL

\* Two Libraries never name one key, however adoptions and restores race
\* (held_by_another_library, lifecycle.py).
THEOREM Apart == Spec => []OneLibrary
<1>1. SInv => OneLibrary
  BY DEF SInv
<1> QED BY <1>1, Invariance, PTL

\* A hold and the bytes it keeps outlive every command, settle and restore
\* (_hold_replaced and _replace_rows, restore.py).
THEOREM Holds == Spec => HoldsKept
<1>1. ASSUME SInv, [Next]_vars
      PROVE  [\A k \in Keys : Held(k) => Held(k)' /\ (k \in bytes => k \in bytes')]_vars
  BY <1>1, HoldStep DEF SInv
<1> QED BY <1>1, Invariance, PTL DEF HoldsKept, Spec

-----------------------------------------------------------------------------
(* The invariant of LastNameClaimed and BackupWhole: who holds which lock    *)

\* No create is undone, and who acts does so for a Library and on a row.
ActorsTyped ==
    /\ \A t \in Changes : /\ change[t].pc # "made"
                          /\ change[t].pc # "idle" => change[t].lib \in Libs
                          /\ InCommand(t) => change[t].row \in Rows
    /\ \A u \in Runs : run[u].pc # "none" => run[u].lib \in Libs

\* Two commands are on two rows and hold locks of different keys.
CommandsApart == \A t, s \in Changes : t # s =>
    /\ InCommand(t) /\ InCommand(s) => change[t].row # change[s].row
    /\ ObjectLocks(t) \cap ObjectLocks(s) \subseteq {NoKey}

\* What release() found of the last name still is so when its command commits.
ReleaseRight == \A t \in Changes : change[t].pc = "ready" /\ LastName(t) => change[t].claims

\* A settle holds the lock of its key, and the claim it has read.
SettleAlone == settle.pc # "idle" =>
    /\ claim[settle.key].made /\ claim[settle.key].lib = settle.lib
    /\ \A t \in Changes : settle.key \notin ObjectLocks(t)

\* A restore past R3 owns the flag, and no command is open in its Library.
DrainsAlone == \A u \in Runs : Draining(u) =>
    maint[run[u].lib] = u /\ CommandsDone(run[u].lib)

\* A backup shares its Library's objects lock with no settle and no restore.
BackupsAlone == \A l \in Libs : BackupShares(l) => ~SettleHolds(l) /\ ~RestoreHolds(l)

LockInv == SInv /\ ActorsTyped /\ CommandsApart /\ ReleaseRight /\ SettleAlone
           /\ DrainsAlone /\ BackupsAlone

\* What a backup has still to copy is named by its Library, or the Library's
\* claim on it says whose objects lock a settle needs.
TodoKept == \A l \in Libs : backup[l].pc = "copying" =>
    \A k \in backup[l].todo : k \in NamedBy(l) \/ (claim[k].made /\ claim[k].lib = l)

-----------------------------------------------------------------------------
(* Who holds which lock: what a step may do *)

\* A command stays, ends, uploads, takes the locks of a row and a new key, or
\* takes its old key's.
LEMMA CommandMoves ==
    ASSUME TypeOK, ActorsTyped, ~CreatesUndone, [Next]_vars, NEW t \in Changes
    PROVE  \/ change'[t] = change[t]
           \/ change'[t].pc = "idle"
           \/ change'[t].pc = "stored" /\ change'[t].lib \in Libs
           \/ /\ ~InCommand(t) /\ change'[t].pc = "open"
              /\ change'[t].lib \in Libs /\ change'[t].row \in Rows
              /\ maint[change'[t].lib] = NoRun /\ RowFree(change'[t].lib, change'[t].row)
              /\ change'[t].key = NoKey \/ ObjectFree(change'[t].key)
              /\ UNCHANGED <<named, claim, settle, run, maint, backup>>
              /\ \A s \in Changes \ {t} : change'[s] = change[s]
           \/ /\ ReleaseOld(t) /\ change'[t].pc = "ready" /\ change'[t].key = change[t].key
              /\ change'[t].lib = change[t].lib /\ change'[t].row = change[t].row
              /\ change'[t].claims = LastName(t)
              /\ \A s \in Changes \ {t} : change'[s] = change[s]
<1>0. change[t] \in Change /\ IdleChange.pc = "idle"
  BY DEF TypeOK, IdleChange
<1>1. CASE change' = change
  BY <1>1, Zenon
<1>2. ASSUME NEW s \in Changes, ChangeStep(s), s # t PROVE change'[t] = change[t]
  BY <1>2, Zenon
     DEF ChangeStep, EndChange, Store, AdoptStored, AdoptShared, Adopt, Drop, ReleaseOld,
              CommitChange, UndoCreate, RefuseStored, Abandon, TypeOK
<1>3. ASSUME NEW l \in Libs, Store(t, l)
      PROVE  change'[t].pc = "stored" /\ change'[t].lib \in Libs
  BY <1>3 DEF Store, IdleChange, TypeOK
<1> DEFINE Opens == /\ ~InCommand(t) /\ change'[t].pc = "open"
                    /\ change'[t].lib \in Libs /\ change'[t].row \in Rows
                    /\ maint[change'[t].lib] = NoRun
                    /\ RowFree(change'[t].lib, change'[t].row)
                    /\ change'[t].key = NoKey \/ ObjectFree(change'[t].key)
                    /\ UNCHANGED <<named, claim, settle, run, maint, backup>>
                    /\ \A s \in Changes \ {t} : change'[s] = change[s]
<1>4. ASSUME NEW l \in Libs, NEW k \in Keys \cup {NoKey}, NEW r \in Rows, NEW b \in BOOLEAN,
             ~InCommand(t), Adopt(t, l, k, r, b)
      PROVE  change'[t].pc = "idle" \/ Opens
  <2> DEFINE c == [IdleChange EXCEPT !.pc = "open", !.lib = l, !.row = r, !.key = k, !.shared = b]
  <2>1. c.pc = "open" /\ c.lib = l /\ c.row = r /\ c.key = k
    BY DEF IdleChange
  <2>2. change' = [change EXCEPT ![t] = c] \/ change' = [change EXCEPT ![t] = IdleChange]
    BY <1>4 DEF Adopt
  <2>3. (change'[t] = c /\ \A s \in Changes \ {t} : change'[s] = change[s])
        \/ change'[t] = IdleChange
    BY <2>2 DEF TypeOK
  <2> HIDE DEF c
  <2> QED BY <1>0, <1>4, <2>1, <2>3 DEF Adopt
<1>5. ASSUME AdoptStored(t) PROVE change'[t].pc = "idle" \/ Opens
  <2>1. change[t].lib \in Libs /\ change[t].key \in Keys \cup {NoKey} /\ ~InCommand(t)
    BY <1>0, <1>5 DEF AdoptStored, ActorsTyped, Change, InCommand
  <2>2. PICK r \in Rows : Adopt(t, change[t].lib, change[t].key, r, FALSE)
    BY <1>5 DEF AdoptStored
  <2> QED BY <1>4, <2>1, <2>2
<1>6. ASSUME NEW l \in Libs, AdoptShared(t, l) PROVE change'[t].pc = "idle" \/ Opens
  <2>1. Known(l) \subseteq Keys /\ ~InCommand(t)
    BY <1>6 DEF Known, NamedBy, KeysOf, TypeOK, AdoptShared, InCommand
  <2>2. PICK k \in Known(l), r \in Rows : Adopt(t, l, k, r, TRUE)
    BY <1>6 DEF AdoptShared
  <2> QED BY <1>4, <2>1, <2>2
<1>7. ASSUME NEW l \in Libs, NEW r \in Rows, Drop(t, l, r) PROVE Opens
  <2> DEFINE c == [IdleChange EXCEPT !.pc = "open", !.lib = l, !.row = r]
  <2>1. c.pc = "open" /\ c.lib = l /\ c.row = r /\ c.key = NoKey
    BY DEF IdleChange
  <2>2. change'[t] = c /\ \A s \in Changes \ {t} : change'[s] = change[s]
    BY <1>7 DEF Drop, TypeOK
  <2> HIDE DEF c
  <2> QED BY <1>7, <2>1, <2>2 DEF Drop, InCommand
<1>8. ASSUME ReleaseOld(t)
      PROVE  /\ change'[t].pc = "ready" /\ change'[t].key = change[t].key
             /\ change'[t].lib = change[t].lib /\ change'[t].row = change[t].row
             /\ change'[t].claims = LastName(t)
             /\ \A s \in Changes \ {t} : change'[s] = change[s]
  <2> DEFINE c == [change[t] EXCEPT !.pc = "ready", !.claims = LastName(t)]
  <2>1. /\ c.pc = "ready" /\ c.key = change[t].key /\ c.lib = change[t].lib
        /\ c.row = change[t].row /\ c.claims = LastName(t)
    BY <1>0 DEF Change
  <2>2. change' = [change EXCEPT ![t] = c]
    BY <1>8 DEF ReleaseOld
  <2> HIDE DEF c
  <2> QED BY <2>1, <2>2 DEF TypeOK
<1>9. ASSUME CommitChange(t) \/ UndoCreate(t) \/ RefuseStored(t) \/ Abandon(t)
      PROVE  change'[t].pc = "idle"
  BY <1>0, <1>9 DEF CommitChange, UndoCreate, RefuseStored, Abandon, TypeOK
<1>10. CASE ChangeStep(t)
  BY <1>3, <1>5, <1>6, <1>7, <1>8, <1>9, <1>10 DEF ChangeStep, EndChange
<1> QED BY <1>1, <1>2, <1>10, OwnProgress

\* Names change at the row of a command that commits, or all at once in a
\* Library without commands.
LEMMA NamesMove ==
    ASSUME LockInv, ~CreatesUndone, [Next]_vars
    PROVE  \/ named' = named
           \/ \E t \in Changes :
                 /\ CommitChange(t) /\ change'[t].pc = "idle"
                 /\ \A s \in Changes \ {t} : change'[s] = change[s]
                 /\ change[t].lib \in Libs /\ change[t].row \in Rows
                 /\ \A l \in Libs, r \in Rows :
                       named'[l][r] = IF l = change[t].lib /\ r = change[t].row
                                      THEN change[t].key ELSE named[l][r]
           \/ \E u \in Runs :
                 /\ CommitRestore(u) /\ change' = change
                 /\ run[u].lib \in Libs /\ CommandsDone(run[u].lib)
                 /\ \A l \in Libs : named'[l] = IF l = run[u].lib THEN run[u].archive.named
                                                ELSE named[l]
<1>0. TypeOK /\ ActorsTyped /\ DrainsAlone
  BY DEF LockInv, SInv
<1>1. ASSUME NEW t \in Changes, CommitChange(t)
      PROVE  /\ change'[t].pc = "idle"
             /\ \A s \in Changes \ {t} : change'[s] = change[s]
             /\ change[t].lib \in Libs /\ change[t].row \in Rows
             /\ \A l \in Libs, r \in Rows :
                   named'[l][r] = IF l = change[t].lib /\ r = change[t].row
                                  THEN change[t].key ELSE named[l][r]
  <2>1. change' = [change EXCEPT ![t] = IdleChange] /\ InCommand(t)
    BY <1>1 DEF CommitChange, InCommand
  <2>2. change[t].lib \in Libs /\ change[t].row \in Rows
    BY <1>0, <1>1, <2>1 DEF ActorsTyped, CommitChange
  <2>3. named' = [named EXCEPT ![change[t].lib] =
                     [named[change[t].lib] EXCEPT ![change[t].row] = change[t].key]]
    BY <1>1 DEF CommitChange
  <2>4. \A l \in Libs : named[l] \in [Rows -> Keys \cup {NoKey}]
    BY <1>0 DEF TypeOK
  <2>5. \A l \in Libs, r \in Rows :
          named'[l][r] = IF l = change[t].lib /\ r = change[t].row
                         THEN change[t].key ELSE named[l][r]
    BY <1>0, <2>2, <2>3, <2>4 DEF TypeOK
  <2>6. change'[t] = IdleChange /\ \A s \in Changes \ {t} : change'[s] = change[s]
    BY <1>0, <2>1 DEF TypeOK
  <2> QED BY <2>2, <2>5, <2>6 DEF IdleChange
<1>2. ASSUME NEW t \in Changes PROVE ~UndoCreate(t)
  BY <1>0 DEF ActorsTyped, UndoCreate
<1>3. ASSUME NEW u \in Runs, CommitRestore(u)
      PROVE  /\ change' = change
             /\ run[u].lib \in Libs /\ CommandsDone(run[u].lib)
             /\ \A l \in Libs : named'[l] = IF l = run[u].lib THEN run[u].archive.named
                                            ELSE named[l]
  <2>1. Draining(u) /\ run[u].lib \in Libs
    BY <1>0, <1>3 DEF CommitRestore, Draining, ActorsTyped
  <2>2. named' = [named EXCEPT ![run[u].lib] = run[u].archive.named] /\ change' = change
    BY <1>3 DEF CommitRestore
  <2> QED BY <1>0, <2>1, <2>2 DEF TypeOK, DrainsAlone
<1> QED BY <1>1, <1>2, <1>3, NamedWriters

\* A command in progress keeps its row and the key that the row names.
LEMMA OldKeyStays ==
    ASSUME LockInv, ~CreatesUndone, [Next]_vars, NEW t \in Changes, InCommand(t), InCommand(t)'
    PROVE  /\ change'[t].lib = change[t].lib /\ change'[t].row = change[t].row
           /\ change'[t].key = change[t].key
           /\ change'[t] = change[t] \/ ReleaseOld(t)
           /\ OldKey(t)' = OldKey(t)
<1>0. TypeOK /\ ActorsTyped /\ CommandsApart
  BY DEF LockInv, SInv
<1>1. /\ change'[t].lib = change[t].lib /\ change'[t].row = change[t].row
      /\ change'[t].key = change[t].key
      /\ change'[t] = change[t] \/ ReleaseOld(t)
  BY <1>0, CommandMoves DEF InCommand
<1>2. change[t].lib \in Libs /\ change[t].row \in Rows
  BY <1>0 DEF ActorsTyped, InCommand
<1>3. named'[change[t].lib][change[t].row] = named[change[t].lib][change[t].row]
  <2>1. ASSUME NEW s \in Changes, CommitChange(s), change'[s].pc = "idle",
               \A l \in Libs, r \in Rows :
                       named'[l][r] = IF l = change[s].lib /\ r = change[s].row
                                      THEN change[s].key ELSE named[l][r]
        PROVE  named'[change[t].lib][change[t].row] = named[change[t].lib][change[t].row]
    <3>1. s # t /\ InCommand(s)
      BY <2>1 DEF InCommand, CommitChange
    <3>2. change[t].row # change[s].row
      BY <1>0, <3>1 DEF CommandsApart
    <3> QED BY <1>2, <2>1, <3>2
  <2>2. ASSUME NEW u \in Runs, CommandsDone(run[u].lib),
               \A l \in Libs : named'[l] = IF l = run[u].lib THEN run[u].archive.named
                                           ELSE named[l]
        PROVE  named'[change[t].lib] = named[change[t].lib]
    BY <1>2, <2>2 DEF CommandsDone
  <2> QED BY <2>1, <2>2, NamesMove
<1> QED BY <1>1, <1>3 DEF OldKey

\* A per-object lock is one the command held, or one that was free.
LEMMA LocksAfter ==
    ASSUME LockInv, ~CreatesUndone, [Next]_vars, NEW t \in Changes, NEW k \in ObjectLocks(t)'
    PROVE  \/ k = NoKey \/ k \in ObjectLocks(t)
           \/ /\ settle.key # k /\ settle' = settle
              /\ \A s \in Changes \ {t} : k \notin ObjectLocks(s) /\ k \notin ObjectLocks(s)'
<1>0. TypeOK /\ ActorsTyped
  BY DEF LockInv, SInv
<1>1. InCommand(t)'
  BY DEF ObjectLocks, InCommand
<1>2. k = change'[t].key \/ (change'[t].pc = "ready" /\ k = OldKey(t)')
  BY DEF ObjectLocks
<1>3. CASE ~InCommand(t)
  <2>1. /\ change'[t].pc = "open"
        /\ change'[t].key = NoKey \/ ObjectFree(change'[t].key)
        /\ UNCHANGED <<named, settle>>
        /\ \A s \in Changes \ {t} : change'[s] = change[s]
    BY <1>0, <1>1, <1>3, CommandMoves, Zenon DEF InCommand, ReleaseOld
  <2>2. k = change'[t].key
    BY <1>2, <2>1
  <2>3. \A s \in Changes \ {t} : ObjectLocks(s)' = ObjectLocks(s)
    BY <2>1 DEF ObjectLocks, InCommand, OldKey
  <2> QED BY <2>1, <2>2, <2>3, Zenon DEF ObjectFree
<1>4. CASE InCommand(t) /\ change'[t] = change[t]
  <2>1. OldKey(t)' = OldKey(t)
    BY <1>1, <1>4, OldKeyStays
  <2> QED BY <1>2, <1>4, <2>1 DEF ObjectLocks, InCommand
<1>5. CASE InCommand(t) /\ ReleaseOld(t)
  <2>1. OldKey(t)' = OldKey(t) /\ change'[t].key = change[t].key
    BY <1>1, <1>5, OldKeyStays
  <2>2. k = change[t].key => k \in ObjectLocks(t)
    BY <1>5 DEF ObjectLocks
  <2>3. /\ OldKeyFree(t) /\ named' = named /\ settle' = settle
        /\ \A s \in Changes \ {t} : change'[s] = change[s]
    BY <1>0, <1>5 DEF ReleaseOld, TypeOK
  <2>4. \A s \in Changes \ {t} : ObjectLocks(s)' = ObjectLocks(s)
    BY <2>3 DEF ObjectLocks, InCommand, OldKey
  <2> QED BY <1>2, <2>1, <2>2, <2>3, <2>4 DEF OldKeyFree
<1> QED BY <1>1, <1>3, <1>4, <1>5, OldKeyStays

\* A restore keeps its Library from its start on, and drains after R3 only.
LEMMA RunMoves ==
    ASSUME TypeOK, [Next]_vars, NEW u \in Runs
    PROVE  \/ run'[u].pc = "check" /\ run'[u].lib \in Libs
           \/ /\ run'[u].lib = run[u].lib
              /\ run'[u].pc # "none" => run[u].pc # "none"
              /\ Draining(u)' => Draining(u) \/ DrainRestore(u)
<1>0. run[u] \in Run
  BY DEF TypeOK
<1> DEFINE Kept(r) == /\ r.lib = run[u].lib
                      /\ r.pc # "none" => run[u].pc # "none"
                      /\ r.pc \in {"recheck", "commit"} => Draining(u) \/ DrainRestore(u)
<1> SUFFICES (run'[u].pc = "check" /\ run'[u].lib \in Libs) \/ Kept(run'[u])
  BY DEF Draining
<1>1. CASE run'[u] = run[u]
  BY <1>1 DEF Draining
<1>2. ASSUME NEW v \in Runs, v # u,
             \/ RestoreStep(v) \/ ExpireRestore(v) \/ RecoverRestore(v)
             \/ \E l \in Libs, a \in archives : StartRestore(v, l, a)
      PROVE  run'[u] = run[u]
  BY <1>2, Zenon
     DEF RestoreStep, CheckIds, StageKey, PlaceKey, EnterRestore, DrainRestore,
              RecheckRestore, CommitRestore, AbortRestore, CrashRestore, ExpireRestore,
              RecoverRestore, FailRow, StartRestore, TypeOK
<1>3. ASSUME NEW l \in Libs, NEW a \in archives, StartRestore(u, l, a)
      PROVE  run'[u].pc = "check" /\ run'[u].lib \in Libs
  BY <1>3 DEF StartRestore, NewRun, TypeOK
<1>4. ASSUME CheckIds(u) \/ PlaceKey(u) \/ EnterRestore(u) \/ DrainRestore(u)
             \/ RecheckRestore(u) \/ CrashRestore(u)
      PROVE  Kept(run'[u])
  <2>1. /\ run[u].pc # "none"
        /\ \E p \in {"stage", "drain", "recheck", "commit", "dead"} :
              /\ \/ run'[u] = [run[u] EXCEPT !.pc = p]
                 \/ run'[u] = [run[u] EXCEPT !.pc = p, !.key = NoKey]
              /\ p \in {"recheck", "commit"} => Draining(u) \/ DrainRestore(u)
    BY <1>4 DEF CheckIds, PlaceKey, EnterRestore, DrainRestore, RecheckRestore,
                CrashRestore, Alive, Draining, TypeOK
  <2> QED BY <1>0, <2>1 DEF Run
<1>5. ASSUME NEW k \in Keys, StageKey(u, k) PROVE Kept(run'[u])
  <2>1. run'[u] = [run[u] EXCEPT !.pc = "place", !.key = k, !.staged = run[u].staged \cup {k}]
        /\ run[u].pc = "stage"
    BY <1>5 DEF StageKey, TypeOK
  <2> QED BY <1>0, <2>1 DEF Run
<1>6. ASSUME CommitRestore(u) PROVE Kept(run'[u])
  <2>1. run'[u] = [run[u] EXCEPT !.state = "committed", !.pc = "dead", !.staged = {}]
        /\ run[u].pc = "commit"
    BY <1>6 DEF CommitRestore, TypeOK
  <2> QED BY <1>0, <2>1 DEF Run
<1>7. ASSUME AbortRestore(u) PROVE Kept(run'[u])
  <2> DEFINE s == IF run[u].state = "running" THEN "failed" ELSE run[u].state
  <2>1. run'[u] = [run[u] EXCEPT !.pc = "dead", !.key = NoKey, !.state = s]
        /\ run[u].pc # "none"
    BY <1>7 DEF AbortRestore, Alive, TypeOK
  <2> QED BY <1>0, <2>1 DEF Run
<1>8. ASSUME ExpireRestore(u) \/ RecoverRestore(u) PROVE Kept(run'[u])
  <2>1. \/ run'[u] = [run[u] EXCEPT !.expired = TRUE]
        \/ run'[u] = [run[u] EXCEPT !.state = "failed"]
    BY <1>8 DEF ExpireRestore, RecoverRestore, FailRow, TypeOK
  <2>2. run'[u].lib = run[u].lib /\ run'[u].pc = run[u].pc
    BY <1>0, <2>1 DEF Run
  <2> QED BY <2>2 DEF Draining
<1>9. CASE run' = run
  BY <1>1, <1>9
<1> HIDE DEF Kept
<1>10. ASSUME NEW v \in Runs,
              \/ RestoreStep(v) \/ ExpireRestore(v) \/ RecoverRestore(v)
              \/ \E l \in Libs, a \in archives : StartRestore(v, l, a)
       PROVE  (run'[u].pc = "check" /\ run'[u].lib \in Libs) \/ Kept(run'[u])
  <2>1. CASE v # u
    BY <1>1, <1>2, <1>10, <2>1
  <2>2. CASE v = u
    BY <1>3, <1>4, <1>5, <1>6, <1>7, <1>8, <1>10, <2>2 DEF RestoreStep
  <2> QED BY <2>1, <2>2
<1> QED BY <1>9, <1>10, OwnProgress

\* A Library's flag is set by R2, and cleared for the run that owns it only.
LEMMA FlagMoves ==
    ASSUME TypeOK, ActorsTyped, [Next]_vars, NEW l \in Libs
    PROVE  \/ maint'[l] = maint[l]
           \/ maint[l] = NoRun
           \/ /\ maint[l] \in Runs
              /\ CommitRestore(maint[l]) \/ AbortRestore(maint[l]) \/ RecoverRestore(maint[l])
<1>1. ASSUME NEW u \in Runs, RestoreStep(u) \/ ExpireRestore(u) \/ RecoverRestore(u)
      PROVE  \/ maint'[l] = maint[l] \/ maint[l] = NoRun
             \/ maint[l] = u /\ (CommitRestore(u) \/ AbortRestore(u) \/ RecoverRestore(u))
  <2>1. CASE AbortRestore(u) \/ RecoverRestore(u)
    BY <2>1 DEF AbortRestore, RecoverRestore, FailRow, TypeOK
  <2>2. CASE CommitRestore(u)
    BY <2>2 DEF CommitRestore, TypeOK
  <2>3. CASE EnterRestore(u)
    BY <2>3 DEF EnterRestore, TypeOK
  <2>4. CASE UNCHANGED maint
    BY <2>4
  <2> QED BY <1>1, <2>1, <2>2, <2>3, <2>4, Zenon
          DEF RestoreStep, CheckIds, StageKey, PlaceKey, DrainRestore, RecheckRestore,
              CrashRestore, ExpireRestore
<1>2. ASSUME NEW u \in Runs, NEW m \in Libs, NEW a \in archives, StartRestore(u, m, a)
      PROVE  maint' = maint
  BY <1>2, Zenon DEF StartRestore
<1>3. ASSUME NEW t \in Changes, ChangeStep(t) PROVE maint' = maint
  BY <1>3, Zenon
     DEF ChangeStep, EndChange, Store, AdoptStored, AdoptShared, Adopt, Drop, ReleaseOld,
              CommitChange, UndoCreate, RefuseStored, Abandon
<1>4. ASSUME SettleStep \/ \E k \in Keys : Sweep(k) \/ SettleClaim(k) PROVE maint' = maint
  BY <1>4 DEF SettleStep, SettleStaged, SettleNamed, SettleUnlink, SettleForget, SettleAbort,
              Sweep, SettleClaim
<1>5. ASSUME NEW m \in Libs, BackupStep(m) PROVE maint' = maint
  BY <1>5 DEF BackupStep, StartBackup, ShareObjects, ReadSnapshot, CopyObject, Publish,
              FailBackup, ExpireBackup, RenewBackup, RecoverBackup
<1>6. CASE UNCHANGED vars
  BY <1>6 DEF vars
<1> QED BY <1>1, <1>2, <1>3, <1>4, <1>5, <1>6 DEF Next

\* A settle keeps its key and its Library until it ends.
LEMMA SettleMoves ==
    ASSUME TypeOK, [Next]_vars
    PROVE  \/ settle' = settle
           \/ settle' = IdleSettle
           \/ \E k \in Keys : SettleClaim(k)
           \/ /\ settle.pc # "idle" /\ settle'.key = settle.key /\ settle'.lib = settle.lib
              /\ UNCHANGED <<claim, change, named, run, backup>>
<1>1. \A p \in {"unstaged", "doomed", "unlinked"} :
         /\ [settle EXCEPT !.pc = p].key = settle.key
         /\ [settle EXCEPT !.pc = p].lib = settle.lib
  BY DEF TypeOK, Settle
<1>2. CASE SettleStaged \/ SettleNamed \/ SettleUnlink
  BY <1>1, <1>2 DEF SettleStaged, SettleNamed, SettleUnlink, ForgetClaim
<1>3. CASE SettleForget \/ SettleAbort
  BY <1>3 DEF SettleForget, SettleAbort, ForgetClaim
<1> QED BY <1>2, <1>3, OwnProgress DEF SettleStep

\* A claim is recorded by a commit or a refusal, swept, forgotten, or R4's.
LEMMA ClaimMoves ==
    ASSUME TypeOK, [Next]_vars, NEW k \in Keys
    PROVE  \/ claim'[k] = claim[k]
           \/ \E t \in Changes : /\ CommitChange(t) /\ k = OldKey(t)
                                 /\ claim'[k] = Recorded(k, change[t].lib)
           \/ \E t \in Changes : /\ RefuseStored(t) /\ k = change[t].key
                                 /\ claim'[k] = Recorded(k, change[t].lib)
           \/ Sweep(k)
           \/ k = settle.key /\ settle.pc # "idle" /\ SettleStep
           \/ \E u \in Runs : CommitRestore(u)
<1>1. ASSUME NEW t \in Changes, CommitChange(t)
      PROVE  claim'[k] = claim[k]
             \/ (k = OldKey(t) /\ claim'[k] = Recorded(k, change[t].lib))
  BY <1>1 DEF CommitChange, TypeOK
<1>2. ASSUME NEW t \in Changes, RefuseStored(t)
      PROVE  claim'[k] = claim[k]
             \/ (k = change[t].key /\ claim'[k] = Recorded(k, change[t].lib))
  BY <1>2 DEF RefuseStored, TypeOK
<1>3. ASSUME NEW t \in Changes, ChangeStep(t)
      PROVE  claim' = claim \/ CommitChange(t) \/ RefuseStored(t)
  BY <1>3, Zenon
     DEF ChangeStep, EndChange, Store, AdoptStored, AdoptShared, Adopt, Drop, ReleaseOld,
              UndoCreate, Abandon
<1>4. ASSUME NEW x \in Keys, Sweep(x) PROVE claim'[k] = claim[k] \/ x = k
  BY <1>4 DEF Sweep, TypeOK
<1>5. ASSUME SettleStep PROVE claim'[k] = claim[k] \/ (k = settle.key /\ settle.pc # "idle")
  BY <1>5 DEF SettleStep, SettleStaged, SettleNamed, SettleUnlink, SettleForget, SettleAbort,
              ForgetClaim, TypeOK
<1>6. ASSUME NEW x \in Keys, SettleClaim(x) PROVE claim' = claim
  BY <1>6 DEF SettleClaim
<1>7. ASSUME NEW u \in Runs,
             \/ RestoreStep(u) \/ ExpireRestore(u) \/ RecoverRestore(u)
             \/ \E l \in Libs, a \in archives : StartRestore(u, l, a)
      PROVE  claim' = claim \/ CommitRestore(u)
  BY <1>7, Zenon
     DEF RestoreStep, CheckIds, StageKey, PlaceKey, EnterRestore, DrainRestore,
              RecheckRestore, AbortRestore, CrashRestore, ExpireRestore, RecoverRestore,
              StartRestore
<1>8. ASSUME NEW l \in Libs, BackupStep(l) PROVE claim' = claim
  BY <1>8 DEF BackupStep, StartBackup, ShareObjects, ReadSnapshot, CopyObject, Publish,
              FailBackup, ExpireBackup, RenewBackup, RecoverBackup
<1>9. CASE UNCHANGED vars
  BY <1>9 DEF vars
<1> QED BY <1>1, <1>2, <1>3, <1>4, <1>5, <1>6, <1>7, <1>8, <1>9 DEF Next

\* A backup takes its lock, reads its snapshot, or goes on with what it has.
LEMMA BackupMoves ==
    ASSUME TypeOK, [Next]_vars, NEW l \in Libs
    PROVE  \/ backup'[l].pc \notin {"locked", "copying"}
           \/ ShareObjects(l) /\ backup'[l].pc = "locked"
           \/ ReadSnapshot(l) /\ backup'[l].todo = NamedBy(l)
           \/ backup'[l].pc = backup[l].pc /\ backup'[l].todo \subseteq backup[l].todo
<1>0. backup[l] \in Backup
  BY DEF TypeOK
<1>1. CASE backup'[l] = backup[l]
  BY <1>1
<1>2. ASSUME NEW m \in Libs, m # l, BackupStep(m) PROVE backup'[l] = backup[l]
  BY <1>2 DEF BackupStep, StartBackup, ShareObjects, ReadSnapshot, CopyObject, Publish,
              FailBackup, ExpireBackup, RenewBackup, RecoverBackup, TypeOK
<1>3. CASE StartBackup(l) \/ Publish(l) \/ FailBackup(l)
  <2>1. NoBackup.pc = "none" /\ [NoBackup EXCEPT !.pc = "started", !.lease = "live"].pc = "started"
    BY DEF NoBackup
  <2> QED BY <1>3, <2>1 DEF StartBackup, Publish, FailBackup, TypeOK
<1>4. CASE ShareObjects(l)
  BY <1>0, <1>4 DEF ShareObjects, TypeOK, Backup
<1>5. CASE ReadSnapshot(l)
  BY <1>0, <1>5 DEF ReadSnapshot, TypeOK, Backup
<1>6. CASE CopyObject(l)
  <2>1. PICK k \in backup[l].todo \cap bytes :
          backup' = [backup EXCEPT ![l].todo = backup[l].todo \ {k}]
    BY <1>6 DEF CopyObject
  <2> QED BY <1>0, <2>1 DEF TypeOK, Backup
<1>7. CASE ExpireBackup(l) \/ RenewBackup(l) \/ RecoverBackup(l)
  <2>1. \E e \in {"live", "expired", "failed"} : backup'[l] = [backup[l] EXCEPT !.lease = e]
    BY <1>7, Zenon DEF ExpireBackup, RenewBackup, RecoverBackup, TypeOK
  <2> QED BY <1>0, <2>1 DEF Backup
<1>8. ASSUME NEW t \in Changes, ChangeStep(t) PROVE backup' = backup
  BY <1>8, Zenon
     DEF ChangeStep, EndChange, Store, AdoptStored, AdoptShared, Adopt, Drop, ReleaseOld,
              CommitChange, UndoCreate, RefuseStored, Abandon
<1>9. ASSUME SettleStep \/ \E k \in Keys : Sweep(k) \/ SettleClaim(k) PROVE backup' = backup
  BY <1>9 DEF SettleStep, SettleStaged, SettleNamed, SettleUnlink, SettleForget, SettleAbort,
              Sweep, SettleClaim
<1>10. ASSUME NEW u \in Runs,
             \/ RestoreStep(u) \/ ExpireRestore(u) \/ RecoverRestore(u)
             \/ \E m \in Libs, a \in archives : StartRestore(u, m, a)
      PROVE  backup' = backup
  BY <1>10, Zenon
     DEF RestoreStep, CheckIds, StageKey, PlaceKey, EnterRestore, DrainRestore,
               RecheckRestore, CommitRestore, AbortRestore, CrashRestore, ExpireRestore,
               RecoverRestore, StartRestore
<1>11. CASE UNCHANGED vars
  BY <1>1, <1>11 DEF vars
<1>12. ASSUME NEW m \in Libs, BackupStep(m), m = l
       PROVE  \/ StartBackup(l) \/ Publish(l) \/ FailBackup(l) \/ ShareObjects(l)
              \/ ReadSnapshot(l) \/ CopyObject(l)
              \/ ExpireBackup(l) \/ RenewBackup(l) \/ RecoverBackup(l)
  BY <1>12 DEF BackupStep
<1> QED
  BY <1>1, <1>2, <1>3, <1>4, <1>5, <1>6, <1>7, <1>8, <1>9, <1>10, <1>11, <1>12 DEF Next

-----------------------------------------------------------------------------
(* Who holds which lock: the parts of the invariant *)

\* Who acts has a Library, and keeps it.
LEMMA ActorsStep ==
    ASSUME LockInv, ~CreatesUndone, [Next]_vars
    PROVE  ActorsTyped'
<1>0. TypeOK /\ ActorsTyped
  BY DEF LockInv, SInv
<1>1. ASSUME NEW t \in Changes
      PROVE  /\ change'[t].pc # "made"
             /\ change'[t].pc # "idle" => change'[t].lib \in Libs
             /\ change'[t].pc \in {"open", "ready"} => change'[t].row \in Rows
  <2>1. CASE change'[t] = change[t]
    BY <1>0, <2>1 DEF ActorsTyped, InCommand
  <2>2. CASE ReleaseOld(t) /\ change'[t].lib = change[t].lib /\ change'[t].row = change[t].row
             /\ change'[t].pc = "ready"
    BY <1>0, <2>2 DEF ActorsTyped, InCommand, ReleaseOld
  <2> QED BY <1>0, <2>1, <2>2, CommandMoves
<1>2. ASSUME NEW u \in Runs, run'[u].pc # "none" PROVE run'[u].lib \in Libs
  BY <1>0, <1>2, RunMoves DEF ActorsTyped
<1> QED BY <1>1, <1>2 DEF ActorsTyped, InCommand

\* Two commands never come to share a row or a lock.
LEMMA ApartStep ==
    ASSUME LockInv, ~CreatesUndone, [Next]_vars
    PROVE  CommandsApart'
<1>0. TypeOK /\ ActorsTyped /\ CommandsApart
  BY DEF LockInv, SInv
<1>1. ASSUME NEW t \in Changes, NEW s \in Changes, t # s, InCommand(t)', InCommand(s)'
      PROVE  change'[t].row # change'[s].row
  <2>1. ASSUME NEW x \in Changes, NEW y \in Changes, x # y, ~InCommand(x), InCommand(x)',
               InCommand(y)'
        PROVE  change'[x].row # change'[y].row
    <3>1. /\ RowFree(change'[x].lib, change'[x].row)
          /\ change'[y] = change[y]
      BY <1>0, <2>1, CommandMoves, Zenon DEF InCommand, ReleaseOld
    <3> QED BY <2>1, <3>1, Zenon DEF RowFree, InCommand
  <2>2. CASE InCommand(t) /\ InCommand(s)
    <3>1. change'[t].row = change[t].row /\ change'[s].row = change[s].row
      BY <1>1, <2>2, OldKeyStays
    <3> QED BY <1>0, <1>1, <2>2, <3>1 DEF CommandsApart
  <2> QED BY <1>1, <2>1, <2>2
<1>2. ASSUME NEW t \in Changes, NEW s \in Changes, t # s,
             NEW k, k \in ObjectLocks(t)', k \in ObjectLocks(s)'
      PROVE  k = NoKey
  <2>1. \/ k = NoKey \/ k \in ObjectLocks(t)
        \/ k \notin ObjectLocks(s) /\ k \notin ObjectLocks(s)'
    BY <1>2, LocksAfter
  <2>2. \/ k = NoKey \/ k \in ObjectLocks(s)
        \/ k \notin ObjectLocks(t) /\ k \notin ObjectLocks(t)'
    BY <1>2, LocksAfter
  <2> QED BY <1>0, <1>2, <2>1, <2>2 DEF CommandsApart
<1> QED BY <1>1, <1>2 DEF CommandsApart

\* Another command drops a name of the key only under the lock that this one
\* holds, so what release() found stays.
LEMMA ReleaseStep ==
    ASSUME LockInv, ~CreatesUndone, [Next]_vars
    PROVE  ReleaseRight'
<1>0. TypeOK /\ ActorsTyped /\ CommandsApart /\ ReleaseRight
  BY DEF LockInv, SInv
<1> SUFFICES ASSUME NEW t \in Changes, change'[t].pc = "ready", LastName(t)'
             PROVE  change'[t].claims
  BY DEF ReleaseRight
<1>1. InCommand(t) /\ InCommand(t)'
  BY <1>0, CommandMoves, Zenon DEF InCommand, ReleaseOld
<1>2. /\ change'[t].lib = change[t].lib /\ change'[t].row = change[t].row
      /\ change'[t] = change[t] \/ ReleaseOld(t)
      /\ OldKey(t)' = OldKey(t)
  BY <1>1, OldKeyStays
<1> DEFINE l == change[t].lib
           old == OldKey(t)
<1>3. l \in Libs /\ change[t].row \in Rows
  BY <1>0, <1>1 DEF ActorsTyped, InCommand
<1>4. old # NoKey /\ \A r \in Rows \ {change[t].row} : named'[l][r] # old
  BY <1>2 DEF LastName
<1>5. CASE ReleaseOld(t)
  <2>1. named' = named /\ change'[t].claims = LastName(t)
    BY <1>0, <1>5, CommandMoves, Zenon DEF ReleaseOld, InCommand
  <2> QED BY <1>4, <2>1 DEF LastName
<1>6. CASE change'[t] = change[t]
  <2> SUFFICES ASSUME ~LastName(t) PROVE FALSE
    BY <1>0, <1>6 DEF ReleaseRight
  <2>1. PICK r \in Rows \ {change[t].row} : named[l][r] = old
    BY <1>4 DEF LastName
  <2>2. named'[l][r] # named[l][r]
    BY <1>4, <2>1
  <2>3. ASSUME NEW s \in Changes, CommitChange(s), l = change[s].lib, r = change[s].row
        PROVE  FALSE
    <3>1. change[s].pc = "ready" /\ s # t
      BY <2>1, <2>3 DEF CommitChange
    <3>2. old \in ObjectLocks(s) /\ old \in ObjectLocks(t)
      BY <1>6, <2>1, <2>3, <3>1 DEF ObjectLocks, OldKey
    <3> QED BY <1>0, <1>4, <3>1, <3>2 DEF CommandsApart
  <2>4. ASSUME NEW s \in Changes, CommitChange(s),
               \A m \in Libs, x \in Rows :
                       named'[m][x] = IF m = change[s].lib /\ x = change[s].row
                                      THEN change[s].key ELSE named[m][x]
        PROVE  FALSE
    BY <1>3, <2>2, <2>3, <2>4
  <2>5. ASSUME NEW u \in Runs, CommandsDone(run[u].lib),
               \A m \in Libs : named'[m] = IF m = run[u].lib THEN run[u].archive.named
                                           ELSE named[m]
        PROVE  FALSE
    BY <1>1, <1>3, <2>2, <2>5 DEF CommandsDone
  <2> QED BY <2>2, <2>4, <2>5, NamesMove
<1> QED BY <1>2, <1>5, <1>6

\* What a settle has locked stays its own.
LEMMA SettleAloneStep ==
    ASSUME LockInv, ~CreatesUndone, [Next]_vars
    PROVE  SettleAlone'
<1>0. TypeOK /\ SettleAlone /\ SettleUnheld
  BY DEF LockInv, SInv
<1> SUFFICES ASSUME settle'.pc # "idle", NEW k, k = settle'.key
             PROVE  /\ claim'[k].made /\ claim'[k].lib = settle'.lib
                    /\ \A t \in Changes : k \notin ObjectLocks(t)'
  BY DEF SettleAlone
<1>1. ASSUME k \in Keys, SettleClaim(k), settle'.key = k
      PROVE  /\ claim'[k].made /\ claim'[k].lib = settle'.lib
             /\ \A t \in Changes : k \notin ObjectLocks(t)'
  <2>1. /\ claim[k].made /\ settle'.lib = claim[k].lib /\ ObjectFree(k)
        /\ claim' = claim /\ change' = change /\ named' = named
    BY <1>1 DEF SettleClaim, Due
  <2>2. \A t \in Changes : ObjectLocks(t)' = ObjectLocks(t)
    BY <2>1 DEF ObjectLocks, InCommand, OldKey
  <2> QED BY <2>1, <2>2 DEF ObjectFree
<1>2. ASSUME settle.pc # "idle", k = settle.key
      PROVE  /\ k \in Keys /\ claim[k].made /\ claim[k].lib = settle.lib
             /\ \A t \in Changes : k \notin ObjectLocks(t) /\ k \notin ObjectLocks(t)'
  <2>1. /\ k \in Keys /\ claim[k].made /\ claim[k].lib = settle.lib
        /\ \A t \in Changes : k \notin ObjectLocks(t)
    BY <1>0, <1>2 DEF SettleAlone, SettleUnheld
  <2>2. k # NoKey
    BY <2>1, SentinelsAssumption
  <2> QED BY <1>2, <2>1, <2>2, LocksAfter
<1>3. CASE settle.pc # "idle" /\ k = settle.key /\ settle'.lib = settle.lib
           /\ UNCHANGED <<claim, change, named, run, backup>>
  BY <1>2, <1>3
<1>4. CASE settle' = settle
  <2>1. settle.pc # "idle" /\ k = settle.key /\ k \in Keys
    BY <1>2, <1>4
  <2>2. ASSUME NEW t \in Changes, CommitChange(t), k = OldKey(t) PROVE FALSE
    <3>1. k \in ObjectLocks(t)
      BY <2>2 DEF CommitChange, ObjectLocks
    <3> QED BY <1>2, <2>1, <3>1
  <2>3. ASSUME NEW t \in Changes, RefuseStored(t), k = change[t].key PROVE FALSE
    BY <2>1, <2>3 DEF RefuseStored, ObjectFree
  <2>4. ASSUME SettleStep PROVE FALSE
    <3>1. settle'.pc # settle.pc
      <4>1. \A p \in {"unstaged", "doomed", "unlinked"} : [settle EXCEPT !.pc = p].pc = p
        BY <1>0 DEF TypeOK, Settle
      <4>2. IdleSettle.pc = "idle"
        BY DEF IdleSettle
      <4> QED BY <2>1, <2>4, <4>1, <4>2
              DEF SettleStep, SettleStaged, SettleNamed, SettleUnlink, SettleForget, SettleAbort,
                  ForgetClaim
    <3> QED BY <1>4, <3>1
  <2>5. ASSUME NEW u \in Runs, CommitRestore(u) PROVE claim'[k] = claim[k]
    <3> DEFINE l == run[u].lib
               a == run[u].archive
    <3>1. k \notin NamedBy(l) /\ k \notin a.claimed /\ (claim[k].made => claim[k].lib # l)
      BY <2>1, <2>5 DEF CommitRestore, ClaimRowsFree
    <3>2. claim'[k] = IF k \in Replaced(l, a) THEN ClaimOf(l, TRUE) ELSE MergedClaim(k, l, a)
      BY <2>1, <2>5 DEF CommitRestore
    <3>3. claim'[k] = KeptClaim(k, l)
      BY <3>1, <3>2 DEF Replaced, MergedClaim
    <3> QED BY <1>2, <2>1, <3>1, <3>3 DEF KeptClaim
  <2>6. ASSUME Sweep(k) PROVE FALSE
    BY <2>1, <2>6 DEF Sweep, ObjectFree
  <2>7. claim'[k] = claim[k]
    BY <1>0, <2>1, <2>2, <2>3, <2>4, <2>5, <2>6, ClaimMoves
  <2> QED BY <1>2, <1>4, <2>1, <2>7
<1>5. ASSUME settle' = IdleSettle PROVE FALSE
  BY <1>5 DEF IdleSettle
<1>6. ASSUME NEW x \in Keys, SettleClaim(x) PROVE x = k
  BY <1>6 DEF SettleClaim
<1>7. \/ settle' = settle
      \/ \E x \in Keys : SettleClaim(x)
      \/ /\ settle.pc # "idle" /\ settle'.key = settle.key /\ settle'.lib = settle.lib
         /\ UNCHANGED <<claim, change, named, run, backup>>
  BY <1>0, <1>5, SettleMoves
<1> QED BY <1>1, <1>3, <1>4, <1>6, <1>7

\* R3 waits for the Library's commands, and the flag lets no other begin.
LEMMA DrainsStep ==
    ASSUME LockInv, ~CreatesUndone, [Next]_vars
    PROVE  DrainsAlone'
<1>0. TypeOK /\ ActorsTyped /\ DrainsAlone
  BY DEF LockInv, SInv
<1> SUFFICES ASSUME NEW u \in Runs, Draining(u)'
             PROVE  /\ maint'[run'[u].lib] = u
                    /\ \A t \in Changes : InCommand(t)' => change'[t].lib # run'[u].lib
  BY DEF DrainsAlone, CommandsDone, InCommand
<1>1. run'[u].lib = run[u].lib /\ (Draining(u) \/ DrainRestore(u)) /\ run[u].pc # "none"
  BY <1>0, RunMoves DEF Draining
<1> DEFINE l == run[u].lib
<1>2. l \in Libs
  BY <1>0, <1>1 DEF ActorsTyped
<1>3. maint[l] = u /\ CommandsDone(l)
  BY <1>0, <1>1 DEF DrainsAlone, DrainRestore, DrainedOf
<1>4. maint'[l] = u
  <2>1. ASSUME CommitRestore(u) \/ AbortRestore(u) PROVE FALSE
    <3> DEFINE s == IF run[u].state = "running" THEN "failed" ELSE run[u].state
    <3>1. \/ run'[u] = [run[u] EXCEPT !.state = "committed", !.pc = "dead", !.staged = {}]
          \/ run'[u] = [run[u] EXCEPT !.pc = "dead", !.key = NoKey, !.state = s]
      BY <1>0, <2>1 DEF CommitRestore, AbortRestore, TypeOK
    <3>2. run'[u].pc = "dead"
      BY <1>0, <3>1 DEF TypeOK, Run
    <3> QED BY <3>2 DEF Draining
  <2>2. ASSUME RecoverRestore(u) PROVE FALSE
    <3>1. ~RestoreHolds(l)
      BY <2>2 DEF RecoverRestore, Recoverable
    <3>2. ~DrainRestore(u)
      <4>1. run'[u] = [run[u] EXCEPT !.state = "failed"]
        BY <1>0, <2>2 DEF RecoverRestore, FailRow, TypeOK
      <4>2. run'[u].pc = run[u].pc
        BY <1>0, <4>1 DEF TypeOK, Run
      <4>3. run[u].pc \in {"recheck", "commit"}
        BY <4>2 DEF Draining
      <4> QED BY <4>3 DEF DrainRestore
    <3> QED BY <1>1, <3>1, <3>2 DEF RestoreHolds
  <2> QED BY <1>0, <1>2, <1>3, <2>1, <2>2, FlagMoves, SentinelsAssumption
<1>5. ASSUME NEW t \in Changes, InCommand(t)', change'[t].lib = l PROVE FALSE
  <2>1. CASE InCommand(t)
    BY <1>3, <1>5, <2>1, OldKeyStays DEF CommandsDone
  <2>2. CASE ~InCommand(t)
    <3>1. maint[l] = NoRun
      BY <1>0, <1>5, <2>2, CommandMoves, Zenon DEF InCommand, ReleaseOld
    <3> QED BY <1>3, <3>1, SentinelsAssumption, Zenon
  <2> QED BY <2>1, <2>2
<1> QED BY <1>1, <1>4, <1>5

\* A settle, a restore and a backup take the objects lock only when it is free.
LEMMA BackupsStep ==
    ASSUME LockInv, ~CreatesUndone, [Next]_vars
    PROVE  BackupsAlone'
<1>0. TypeOK /\ ActorsTyped /\ BackupsAlone
  BY DEF LockInv, SInv
<1> SUFFICES ASSUME NEW l \in Libs, backup'[l].pc \in {"locked", "copying"}
             PROVE  settle'.lib # l /\ \A u \in Runs : ~(Draining(u)' /\ run'[u].lib = l)
  BY DEF BackupsAlone, BackupShares, SettleHolds, RestoreHolds
<1>1. BackupShares(l) \/ (ShareObjects(l) /\ ~SettleHolds(l) /\ ~RestoreHolds(l))
  BY <1>0, BackupMoves, Zenon DEF BackupShares, ShareObjects, ReadSnapshot
<1>2. settle.lib # l /\ \A u \in Runs : ~(Draining(u) /\ run[u].lib = l)
  BY <1>0, <1>1 DEF BackupsAlone, SettleHolds, RestoreHolds
<1>3. settle'.lib # l
  <2>1. ASSUME NEW k \in Keys, SettleClaim(k), settle'.lib = l PROVE FALSE
    <3>1. claim[k].lib = l /\ ~BackupShares(l) /\ settle'.pc = "claimed"
      BY <2>1 DEF SettleClaim, ObjectsLockFree
    <3>2. backup' = backup
      BY <2>1 DEF SettleClaim
    <3> QED BY <3>1, <3>2 DEF BackupShares
  <2>2. IdleSettle.lib # l
    BY SentinelsAssumption DEF IdleSettle
  <2> QED BY <1>0, <1>2, <2>1, <2>2, SettleMoves
<1>4. ASSUME NEW u \in Runs, Draining(u)', run'[u].lib = l PROVE FALSE
  <2>1. run[u].lib = l /\ (Draining(u) \/ DrainRestore(u))
    BY <1>0, <1>4, RunMoves DEF Draining
  <2>2. ASSUME DrainRestore(u) PROVE FALSE
    <3>1. ~BackupShares(l) /\ backup' = backup
      BY <2>1, <2>2 DEF DrainRestore, DrainedOf
    <3> QED BY <3>1 DEF BackupShares
  <2> QED BY <1>2, <2>1, <2>2
<1> QED BY <1>3, <1>4

\* At the start nobody holds a lock.
LEMMA InitLocks == Init => LockInv
<1> SUFFICES ASSUME Init PROVE LockInv
  OBVIOUS
<1>1. SInv
  BY InitInv
<1>2. \A t \in Changes : change[t].pc = "idle" /\ ~InCommand(t) /\ ObjectLocks(t) = {}
  BY DEF Init, InCommand, IdleChange, ObjectLocks
<1>3. \A u \in Runs : run[u].pc = "none" /\ ~Draining(u)
  BY DEF Init, NewRun, Draining
<1>4. settle.pc = "idle" /\ \A l \in Libs : ~BackupShares(l)
  BY DEF Init, IdleSettle, BackupShares, NoBackup
<1> QED
  BY <1>1, <1>2, <1>3, <1>4
  DEF LockInv, ActorsTyped, CommandsApart, ReleaseRight, SettleAlone, DrainsAlone, BackupsAlone

\* LockInv is inductive where no create is undone.
LEMMA LocksNext ==
    ASSUME LockInv, ~CreatesUndone, [Next]_vars
    PROVE  LockInv'
<1>1. SInv'
  <2>1. SInv /\ TypeOK /\ RunsSafe /\ SettleUnheld
    BY DEF LockInv, SInv
  <2>2. TypeOK' /\ RunsSafe' /\ SettleUnheld'
    BY <2>1, TypeStep, RunsStep, UnheldStep
  <2> QED
    BY <2>1, <2>2, CommandsStep, SettleStays, NamedStep, StagedStep, LibraryStep DEF SInv
<1> QED
  BY <1>1, ActorsStep, ApartStep, ReleaseStep, SettleAloneStep, DrainsStep, BackupsStep
  DEF LockInv

-----------------------------------------------------------------------------
(* The last name, and what a backup copies *)

\* A commit that takes the last name away records the claim that release()
\* found due; R4 holds what it replaces.
LEMMA LastNameStep ==
    ASSUME LockInv, ~CreatesUndone, [Next]_vars, NEW k \in Keys, Named(k), ~Named(k)'
    PROVE  claim'[k].made
<1>0. TypeOK /\ ReleaseRight
  BY DEF LockInv, SInv
<1>1. PICK l \in Libs, r \in Rows : named[l][r] = k /\ k # NoKey
  BY DEF Named, NamedBy, KeysOf
<1>2. \A m \in Libs, x \in Rows : named'[m][x] # k
  BY <1>1 DEF Named, NamedBy, KeysOf
<1>3. ASSUME NEW t \in Changes, CommitChange(t), change[t].lib \in Libs, change[t].row \in Rows,
             \A m \in Libs, x \in Rows :
                       named'[m][x] = IF m = change[t].lib /\ x = change[t].row
                                      THEN change[t].key ELSE named[m][x]
      PROVE  claim'[k].made
  <2>1. l = change[t].lib /\ r = change[t].row /\ k = OldKey(t)
    BY <1>1, <1>2, <1>3 DEF OldKey
  <2>2. \A x \in Rows \ {change[t].row} : named[l][x] # k
    BY <1>2, <1>3
  <2>3. LastName(t) /\ change[t].pc = "ready"
    BY <1>1, <1>3, <2>1, <2>2 DEF LastName, CommitChange
  <2>4. claim' = [claim EXCEPT ![k] = Recorded(k, change[t].lib)]
    BY <1>0, <1>3, <2>1, <2>3 DEF ReleaseRight, CommitChange
  <2>5. claim'[k] = Recorded(k, change[t].lib)
    BY <1>0, <2>4 DEF TypeOK
  <2> QED BY <2>5 DEF Recorded, ClaimOf
<1>4. ASSUME NEW u \in Runs, CommitRestore(u), run[u].lib \in Libs,
             \A m \in Libs : named'[m] = IF m = run[u].lib THEN run[u].archive.named
                                         ELSE named[m]
      PROVE  claim'[k].made
  <2> DEFINE a == run[u].archive
  <2>1. l = run[u].lib
    BY <1>1, <1>2, <1>4
  <2>2. k \in NamedBy(l)
    BY <1>1 DEF NamedBy, KeysOf
  <2>3. k \notin KeysOf(a.named)
    BY <1>2, <1>4, <2>1 DEF KeysOf
  <2>4. claim'[k] = ClaimOf(l, TRUE)
    BY <1>4, <2>1, <2>2, <2>3 DEF CommitRestore, Replaced
  <2> QED BY <2>4 DEF ClaimOf
<1> QED BY <1>1, <1>2, <1>3, <1>4, NamesMove

\* With one Library, the claim that replaces a name is that Library's own, and
\* a restore, which would replace both, cannot drain beside the backup.
LEMMA TodoStep ==
    ASSUME LockInv, \A l, m \in Libs : l = m, TodoKept, ~CreatesUndone, [Next]_vars
    PROVE  TodoKept'
<1>0. TypeOK /\ SettleAlone /\ BackupsAlone /\ ReleaseRight /\ ActorsTyped
  BY DEF LockInv, SInv
<1> SUFFICES ASSUME NEW l \in Libs, backup'[l].pc = "copying", NEW k \in backup'[l].todo
             PROVE  k \in NamedBy(l)' \/ (claim'[k].made /\ claim'[k].lib = l)
  BY DEF TodoKept
<1>1. CASE ReadSnapshot(l) /\ k \in NamedBy(l)
  BY <1>1 DEF ReadSnapshot, NamedBy, KeysOf
<1>2. CASE backup[l].pc = "copying" /\ k \in backup[l].todo
  <2>1. k \in Keys
    BY <1>0, <1>2 DEF TypeOK, Backup
  <2>2. BackupShares(l) /\ settle.lib # l /\ \A u \in Runs : ~(Draining(u) /\ run[u].lib = l)
    BY <1>0, <1>2 DEF BackupShares, BackupsAlone, SettleHolds, RestoreHolds
  <2>3. ~\E u \in Runs : CommitRestore(u)
    <3> SUFFICES ASSUME NEW u \in Runs, CommitRestore(u) PROVE FALSE
      OBVIOUS
    <3>1. Draining(u) /\ run[u].pc # "none"
      BY DEF CommitRestore, Draining
    <3>2. run[u].lib = l
      BY <1>0, <3>1 DEF ActorsTyped
    <3> QED BY <2>2, <3>1, <3>2
  <2>4. CASE k \in NamedBy(l)
    <3>1. PICK r \in Rows : named[l][r] = k /\ k # NoKey
      BY <2>4 DEF NamedBy, KeysOf
    <3> SUFFICES ASSUME k \notin NamedBy(l)' PROVE claim'[k].made /\ claim'[k].lib = l
      OBVIOUS
    <3>2. \A x \in Rows : named'[l][x] # k
      BY <3>1 DEF NamedBy, KeysOf
    <3>3. ASSUME NEW t \in Changes, CommitChange(t), change[t].lib \in Libs,
                 change[t].row \in Rows,
                 \A m \in Libs, x \in Rows :
                       named'[m][x] = IF m = change[t].lib /\ x = change[t].row
                                      THEN change[t].key ELSE named[m][x]
          PROVE  claim'[k].made /\ claim'[k].lib = l
      <4>1. l = change[t].lib /\ r = change[t].row /\ k = OldKey(t)
        BY <3>1, <3>2, <3>3 DEF OldKey
      <4>2. LastName(t) /\ change[t].pc = "ready"
        BY <3>1, <3>2, <3>3, <4>1 DEF LastName, CommitChange
      <4>3. claim' = [claim EXCEPT ![k] = Recorded(k, l)]
        BY <1>0, <3>3, <4>1, <4>2 DEF ReleaseRight, CommitChange
      <4>4. claim'[k] = Recorded(k, l)
        BY <1>0, <2>1, <4>3 DEF TypeOK
      <4>5. claim[k].made => claim[k].lib \in {l, NoLib}
        BY <1>0, <2>1 DEF TypeOK, Claim
      <4> QED BY <4>4, <4>5 DEF Recorded, ClaimOf
    <3> QED BY <2>3, <3>1, <3>2, <3>3, NamesMove
  <2>5. CASE claim[k].made /\ claim[k].lib = l
    <3>1. ASSUME NEW m PROVE Recorded(k, m) = claim[k]
      BY <2>5, SentinelsAssumption DEF Recorded
    <3>2. settle.pc # "idle" => k # settle.key
      BY <1>0, <2>2, <2>5 DEF SettleAlone
    <3>3. ~Sweep(k)
      BY <2>5 DEF Sweep
    <3> QED BY <1>0, <2>1, <2>3, <2>5, <3>1, <3>2, <3>3, ClaimMoves
  <2> QED BY <1>2, <2>4, <2>5 DEF TodoKept
<1> QED BY <1>0, <1>1, <1>2, BackupMoves DEF ShareObjects

\* A settle that deletes a key of the snapshot would need the objects lock.
LEMMA WholeStep ==
    ASSUME LockInv, TodoKept, BackupWhole, ~CreatesUndone, [Next]_vars
    PROVE  BackupWhole'
<1>0. TypeOK /\ SettleAlone /\ BackupsAlone /\ SettleSafe /\ NamedStored
  BY DEF LockInv, SInv
<1> SUFFICES ASSUME NEW l \in Libs, backup'[l].pc = "copying", NEW k \in backup'[l].todo
             PROVE  k \in bytes'
  BY DEF BackupWhole
<1>1. CASE ReadSnapshot(l) /\ k \in NamedBy(l)
  BY <1>0, <1>1 DEF ReadSnapshot, NamedStored
<1>2. CASE backup[l].pc = "copying" /\ k \in backup[l].todo
  <2>1. k \in bytes
    BY <1>2 DEF BackupWhole
  <2>2. ASSUME SettleUnlink, k = settle.key PROVE FALSE
    <3>1. ~Named(k)
      BY <1>0, <2>2 DEF SettleUnlink, SettleSafe
    <3>2. claim[k].lib = l
      BY <1>2, <3>1 DEF TodoKept, Named
    <3>3. settle.lib = l
      BY <1>0, <2>2, <3>2 DEF SettleAlone, SettleUnlink
    <3> QED BY <1>0, <1>2, <3>3 DEF BackupsAlone, BackupShares, SettleHolds
  <2>3. SettleUnlink => bytes' = bytes \ {settle.key}
    BY DEF SettleUnlink
  <2> QED BY <2>1, <2>2, <2>3, BytesKept
<1> QED BY <1>0, <1>1, <1>2, BackupMoves DEF ShareObjects

-----------------------------------------------------------------------------
(* The theorems about locks *)

\* LockInv holds where no create is undone.
THEOREM Locks == ~CreatesUndone => (Spec => []LockInv)
<1> SUFFICES ASSUME ~CreatesUndone PROVE Spec => []LockInv
  OBVIOUS
<1>1. LockInv /\ [Next]_vars => LockInv'
  BY LocksNext
<1> QED BY <1>1, InitLocks, PTL DEF Spec

\* Whoever takes a key's last name away leaves a claim on it, however commands
\* and restores race (release, lifecycle.py, and _hold_replaced, restore.py).
\* Undone creates do not: where they may happen, a run shows the counterexample.
THEOREM Claimed == ~CreatesUndone => (Spec => LastNameClaimed)
<1> SUFFICES ASSUME ~CreatesUndone PROVE Spec => LastNameClaimed
  OBVIOUS
<1>1. ASSUME LockInv, [Next]_vars
      PROVE  [\A k \in Keys : Named(k) /\ ~Named(k)' => claim'[k].made]_vars
  BY <1>1, LastNameStep
<1>2. LockInv /\ [Next]_vars
      => [\A k \in Keys : Named(k) /\ ~Named(k)' => claim'[k].made]_vars
  BY <1>1
<1> QED BY <1>2, Locks, PTL DEF LastNameClaimed, Spec

\* In an instance with one Library and no undone creates, the objects of a
\* backup's snapshot stay until it has copied them (settle_tx's try-lock,
\* lifecycle.py, and the backup's shared lock, backup.py).
THEOREM WholeOfOne ==
    ~CreatesUndone /\ (\A l, m \in Libs : l = m) => (Spec => []BackupWhole)
<1> SUFFICES ASSUME ~CreatesUndone, \A l, m \in Libs : l = m PROVE Spec => []BackupWhole
  OBVIOUS
<1> DEFINE I == TodoKept /\ BackupWhole
<1>1. Init => I
  BY DEF Init, NoBackup, TodoKept, BackupWhole
<1>2. LockInv /\ I /\ [Next]_vars => I'
  BY TodoStep, WholeStep
<1>3. I => BackupWhole
  OBVIOUS
<1> HIDE DEF I
<1> QED BY <1>1, <1>2, <1>3, Locks, PTL DEF Spec

=============================================================================

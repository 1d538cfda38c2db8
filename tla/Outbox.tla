------------------------------- MODULE Outbox -------------------------------
(***************************************************************************)
(* The durable queue of one account's browser and the server's ledger of   *)
(* operations: frontend/js/sync-runtime.js (the coordinator of every tab), *)
(* the outbox of frontend/js/local-store.js (one IndexedDB all tabs share) *)
(* and backend/sync/protocol.py.                                           *)
(*                                                                         *)
(* The operations are those of the Person family, over one Person:         *)
(* CREATE_PERSON, SET_PERSON_METADATA_FIELD (one field) and DELETE_PERSON. *)
(* An operation's number is its sequence and stands for its op_id.  What   *)
(* other devices write shows as the outcome of an application: a field     *)
(* may be refused (REVISION_CONFLICT, ENTITY_NOT_FOUND), and so may a      *)
(* deletion (PERSON_HAS_LINKS).                                            *)
(*                                                                         *)
(* Every IndexedDB transaction, every request and every server transaction *)
(* is a step of its own, except where a comment says otherwise.            *)
(***************************************************************************)
EXTENDS Naturals, FiniteSets

CONSTANTS
    Tabs,
    MaxOps,       \* bound: operations ever made
    Locks,        \* navigator.locks exists (a secure origin)
    MaxEpoch,     \* bound: the Library's epochs
    MaxFaults     \* bound: pages that die, lost requests and answers, failed
                  \* transactions, refused sessions, lost connectivity

ASSUME OutboxAssumption ==
    /\ MaxOps \in Nat \ {0} /\ MaxEpoch \in Nat \ {0}
    /\ MaxFaults \in Nat
    /\ Locks \in BOOLEAN

Ops == 1..MaxOps

VARIABLES
    row,         \* the operations as the browser keeps them
    storeEpoch,  \* META_LIBRARY_EPOCH (0: none)
    tab,         \* the page of each tab and its coordinator
    wire,        \* requests on their way to the server, or being served
    ledger,      \* prks.sync_operations: the terminal result of each op_id
    epoch,       \* the Library's epoch
    archive,     \* the ledger in the archive a restore would use
    applied,     \* history: how often each operation took effect
    faults

vars == <<row, storeEpoch, tab, wire, ledger, epoch, archive, applied, faults>>
serverVars == <<ledger, epoch, archive, applied>>

-----------------------------------------------------------------------------
(* Operations *)

(* "unmade"; in the store "pending", "syncing", "conflict", "acknowledged";  *)
(* "restored" in the review list.  An operation in no store any more is      *)
(* "retired", "withdrawn" (by the user, never sent) or "discarded" (by the   *)
(* user, refused or restored), which the code does not tell apart.           *)
Status == {"unmade", "pending", "syncing", "conflict", "acknowledged", "restored",
           "retired", "withdrawn", "discarded"}
InStore == {"pending", "syncing", "conflict", "acknowledged"}
Kinds == {"create", "field", "delete"}

\* result: the server_result, "dependency" for DEPENDENCY_FAILED.
\* valid: the server's rules take the payload.
Results == {"none", "refusal", "dependency"}
Row == [st: Status, kind: Kinds, deps: SUBSET Ops, epoch: 0..MaxEpoch,
        attempts: Nat, result: Results, valid: BOOLEAN]
Unmade == [st |-> "unmade", kind |-> "field", deps |-> {}, epoch |-> 0,
           attempts |-> 0, result |-> "none", valid |-> TRUE]

Stored(rows)  == {i \in Ops : rows[i].st \in InStore}
NeverSent(r)  == r.st = "pending" /\ r.attempts = 0

\* Mutant: whatever the server has spoken on counts as done.
AnyAnswer(r) == r.st = "acknowledged"

\* dependencySucceeded, of the store and of the coordinator alike
Succeeded(r) == r.st = "acknowledged" /\ r.result = "none"

\* unresolvedDependentClosure: the least set that holds i and every open
\* operation that depends on one of the set, without i.
Doomed(rows, i) ==
    LET Closed(S) == i \in S /\ \A j \in Stored(rows) :
            rows[j].st # "acknowledged" /\ rows[j].deps \cap S # {} => j \in S
    IN {j \in Ops \ {i} : \A S \in SUBSET Ops : Closed(S) => j \in S}

\* markDependentsFailed: DEPENDENCY_FAILED, unless in conflict already.
DependentsFailed(rows, i) == [j \in Ops |->
    IF j \in Doomed(rows, i) /\ rows[j].st # "conflict"
    THEN [rows[j] EXCEPT !.st = "conflict", !.result = "dependency"] ELSE rows[j]]

\* Mutant: an acknowledged row is retired whoever waits for it.
RetirableAtOnce(rows, i) == {j \in {i} : rows[j].st = "acknowledged"}

\* retire: an acknowledged row nothing stored names any more, and then what it
\* depended on.  Nothing is ever stored that names an acknowledged row, so the
\* transactions of one retirement are one step.
Retirable(rows, i) ==
    LET Free(j, S) == /\ rows[j].st = "acknowledged"
                      /\ \A k \in Stored(rows) : j \in rows[k].deps => k \in S
        Closed(S)  == \A j \in Ops :
            (j = i \/ \E k \in S : j \in rows[k].deps) /\ Free(j, S) => j \in S
    IN {j \in Ops : \A S \in SUBSET Ops : Closed(S) => j \in S}

RetiredRows(rows, i) == [j \in Ops |->
    IF j \in Retirable(rows, i) THEN [rows[j] EXCEPT !.st = "retired"] ELSE rows[j]]

\* advanceEpochIn: older operations leave the queue, for review unless the
\* server has spoken on them.
Advanced(rows, e) == [i \in Ops |->
    IF i \in Stored(rows) /\ rows[i].epoch < e
    THEN [rows[i] EXCEPT !.st = IF @ = "acknowledged" THEN "retired" ELSE "restored"]
    ELSE rows[i]]

-----------------------------------------------------------------------------
(* Tabs and requests *)

(* "closed"; "idle"; in drain(): "loop", then for one candidate "picked",    *)
(* "claimed", "sent", "answered", "settled".  op, prior, nr: the candidate,  *)
(* priorAttempts and the claim's attempt_count.  page, latest: pageEpoch and *)
(* latestEpoch.                                                              *)
Answers == {"none", "ack", "refused", "invalid", "held", "epoch"}
Tab == [st: {"closed", "idle", "loop", "picked", "claimed", "sent", "answered", "settled"},
        op: 0..MaxOps, prior: Nat, nr: Nat, answer: Answers, recovered: BOOLEAN,
        page: 0..MaxEpoch, latest: 0..MaxEpoch]
Closed == [st |-> "closed", op |-> 0, prior |-> 0, nr |-> 0, answer |-> "none",
           recovered |-> FALSE, page |-> 0, latest |-> 0]

Copy == [op: Ops, by: Tabs, nr: Nat, looked: BOOLEAN]

Open(t)    == tab[t].st # "closed"
Running(t) == tab[t].st \notin {"closed", "idle"}
Free(t, st) == [tab[t] EXCEPT !.st = st, !.op = 0, !.prior = 0, !.nr = 0, !.answer = "none"]

\* The page that sent copy c still waits for its answer.
Awaited(c) == /\ tab[c.by].st = "sent" /\ tab[c.by].op = c.op /\ tab[c.by].nr = c.nr

Init ==
    /\ row = [i \in Ops |-> Unmade]
    /\ storeEpoch = 0
    /\ tab = [t \in Tabs |-> Closed]
    /\ wire = {}
    /\ ledger = [i \in Ops |-> "none"]
    /\ epoch = 1
    /\ archive = ledger
    /\ applied = [i \in Ops |-> 0]
    /\ faults = 0

Fault == faults < MaxFaults /\ faults' = faults + 1

-----------------------------------------------------------------------------
(* What the user does.  Every intent is one transaction (runIntent) under    *)
(* the page's epoch: refused when the store has seen a newer one; a newer    *)
(* page's first moves the older operations out.                              *)

NextOp == CHOOSE i \in Ops : /\ row[i].st = "unmade"
                             /\ \A j \in Ops : row[j].st = "unmade" => i <= j

MayIntend(t) == Open(t) /\ tab[t].page >= storeEpoch

\* The rows an intent of t sees.
RowsFor(t) == IF tab[t].page > storeEpoch THEN Advanced(row, tab[t].page) ELSE row

Made(t, kind, deps, valid) ==
    [Unmade EXCEPT !.st = "pending", !.kind = kind, !.deps = deps,
                   !.epoch = tab[t].page, !.valid = valid]

Intend(t, rows) ==
    /\ row' = rows
    /\ storeEpoch' = tab[t].page
    /\ UNCHANGED <<serverVars, tab, wire, faults>>

Room == \E i \in Ops : row[i].st = "unmade"

\* createPerson, once.
Create(t) ==
    /\ MayIntend(t) /\ row[1].st = "unmade"
    /\ \E valid \in BOOLEAN :
          Intend(t, [RowsFor(t) EXCEPT ![1] = Made(t, "create", {}, valid)])

Of(rows, kind) == {i \in Stored(rows) : rows[i].kind = kind /\ rows[i].st # "acknowledged"}

\* The Person is shown: created on this device, or by the server's account.
Shown(rows) == \E i \in Ops : /\ rows[i].kind = "create" /\ rows[i].result = "none"
                              /\ rows[i].st \in {"pending", "syncing", "acknowledged", "retired"}

\* personCreationDependency, where it does not refuse
Creation(rows) == Of(rows, "create")

\* Mutant: an operation that may be on its way is coalesced like any other.
CoalescablePending(r) == r.st = "pending"

\* Only a never-sent row may be rewritten; any other makes its field busy.
Coalescable(r) == NeverSent(r)

\* savePersonMetadataFields: the edit replaces one never sent, or, back at the
\* observed value, only withdraws it.
SaveField(t) == LET rows == RowsFor(t)
                    old  == Of(rows, "field")
                    left == [i \in Ops |-> IF i \in old THEN [rows[i] EXCEPT !.st = "withdrawn"]
                                           ELSE rows[i]] IN
    /\ MayIntend(t) /\ Shown(rows) /\ Of(rows, "delete") = {}
    /\ \A i \in old : Coalescable(rows[i])
    /\ \/ Room /\ Intend(t, [left EXCEPT ![NextOp] = Made(t, "field", Creation(rows), TRUE)])
       \/ old # {} /\ Intend(t, left)

\* deletePerson: what was never sent is withdrawn, the rest is waited for.
Delete(t) == LET rows == RowsFor(t)
                 mine == Of(rows, "create") \cup Of(rows, "field")
                 away == {i \in mine : Coalescable(rows[i])}
                 fold == Of(rows, "create") # {} /\ away = mine
                 gone == IF fold THEN mine ELSE {i \in away : rows[i].kind # "create"}
                 left == [i \in Ops |-> IF i \in gone THEN [rows[i] EXCEPT !.st = "withdrawn"]
                                        ELSE rows[i]] IN
    /\ MayIntend(t) /\ Shown(rows) /\ Of(rows, "delete") = {}
    /\ \/ fold /\ Intend(t, left)
       \/ ~fold /\ Room /\ Intend(t, [left EXCEPT ![NextOp] = Made(t, "delete", mine \ gone, TRUE)])

\* resolveConflict(opId, false).  The family has nothing to reapply.
Discard(t, i) == LET rows == RowsFor(t) IN
    /\ MayIntend(t) /\ rows[i].st = "conflict"
    /\ Intend(t, [DependentsFailed(rows, i) EXCEPT ![i].st = "discarded"])

\* discardRestored
DiscardRestored(t, i) ==
    /\ Open(t) /\ row[i].st = "restored"
    /\ row' = [row EXCEPT ![i].st = "discarded"]
    /\ UNCHANGED <<serverVars, storeEpoch, tab, wire, faults>>

-----------------------------------------------------------------------------
(* The coordinator *)

\* A page loads and reads its session.
Start(t) ==
    /\ ~Open(t)
    /\ tab' = [tab EXCEPT ![t] = [Closed EXCEPT !.st = "idle", !.page = epoch, !.latest = epoch]]
    /\ UNCHANGED <<serverVars, row, storeEpoch, wire, faults>>

\* The page is closed or dies; its request goes on.
Crash(t) ==
    /\ Open(t) /\ Fault
    /\ tab' = [tab EXCEPT ![t] = Closed]
    /\ UNCHANGED <<serverVars, row, storeEpoch, wire>>

\* A session read names the epoch (prksBrowserScope.verify).
Verify(t) ==
    /\ Open(t) /\ tab[t].latest < epoch
    /\ tab' = [tab EXCEPT ![t].latest = epoch]
    /\ UNCHANGED <<serverVars, row, storeEpoch, wire, faults>>

\* advanceEpoch, as fenceEpoch calls it
Fenced(rows, e) == IF e > storeEpoch THEN Advanced(rows, e) ELSE rows
FencedEpoch(e)  == IF e > storeEpoch THEN e ELSE storeEpoch

\* recover: once per page.  An acknowledged row is residue.
Recovered(t, rows) ==
    LET resumed == [i \in Ops |-> IF rows[i].st = "syncing" THEN [rows[i] EXCEPT !.st = "pending"]
                                  ELSE rows[i]]
        residue == UNION {Retirable(resumed, i) : i \in Stored(resumed)}
    IN IF tab[t].recovered THEN rows
       ELSE [i \in Ops |-> IF i \in residue THEN [resumed[i] EXCEPT !.st = "retired"] ELSE resumed[i]]

\* Mutant: a refusal's dependents are settled only when it arrives.
UnrepairedRows(rows) == rows

\* repairTerminalConflictDependents: what waits behind a consumed refusal, or
\* behind an operation that failed with its own dependency, is settled.
Repaired(rows) ==
    LET roots == {i \in Stored(rows) : \/ rows[i].st = "acknowledged" /\ rows[i].result # "none"
                                       \/ rows[i].st = "conflict" /\ rows[i].result = "dependency"}
        doomed == UNION {Doomed(rows, i) : i \in roots}
    IN [j \in Ops |-> IF j \in doomed /\ rows[j].st # "conflict"
                      THEN [rows[j] EXCEPT !.st = "conflict", !.result = "dependency"] ELSE rows[j]]

LockFree(t) == Locks => \A s \in Tabs \ {t} : ~Running(s)

\* wake(), and drain() up to its loop: fenceEpoch, recover, repair.  Under the
\* lock nobody else resumes, retires or repairs, so they are one step.
Wake(t) == LET rows == Fenced(row, tab[t].latest) IN
    /\ tab[t].st = "idle" /\ LockFree(t)
    /\ row' = Repaired(Recovered(t, rows))
    /\ storeEpoch' = FencedEpoch(tab[t].latest)
    /\ tab' = [tab EXCEPT ![t].st = "loop", ![t].recovered = TRUE]
    /\ UNCHANGED <<serverVars, wire, faults>>

\* dependenciesReady
Ready(i) == \A d \in row[i].deps : Succeeded(row[d])
Candidates == {i \in Ops : row[i].st = "pending" /\ Ready(i)}

\* The first ready operation, and sessionAllowsSend(): the same account.
Pick(t) ==
    /\ tab[t].st = "loop"
    /\ \E i \in Candidates :
          /\ \A j \in Candidates : i <= j
          /\ tab' = [tab EXCEPT ![t].st = "picked", ![t].op = i, ![t].prior = row[i].attempts,
                                ![t].latest = epoch]
    /\ UNCHANGED <<serverVars, row, storeEpoch, wire, faults>>

\* The loop ends: nothing to send, or (a fault) offline, backing off, no session.
Rest(t) ==
    /\ \/ tab[t].st = "loop" /\ Candidates = {} /\ UNCHANGED faults
       \/ tab[t].st \in {"loop", "picked"} /\ Fault
    /\ tab' = [tab EXCEPT ![t] = Free(t, "idle")]
    /\ UNCHANGED <<serverVars, row, storeEpoch, wire>>

\* claimOperation
Claim(t) == LET i == tab[t].op IN
    /\ tab[t].st = "picked"
    /\ IF row[i].st = "pending"
       THEN /\ row' = [row EXCEPT ![i].st = "syncing", ![i].attempts = @ + 1]
            /\ tab' = [tab EXCEPT ![t].st = "claimed", ![t].nr = row[i].attempts + 1]
       ELSE UNCHANGED row /\ tab' = [tab EXCEPT ![t] = Free(t, "loop")]
    /\ UNCHANGED <<serverVars, storeEpoch, wire, faults>>

\* releaseClaimBeforeDispatch: connectivity closed while the claim committed.
Release(t) == LET i == tab[t].op IN
    /\ tab[t].st = "claimed" /\ Fault
    /\ row' = IF row[i].st = "syncing" /\ row[i].attempts = tab[t].nr /\ tab[t].nr = tab[t].prior + 1
              THEN [row EXCEPT ![i].st = "pending", ![i].attempts = tab[t].prior] ELSE row
    /\ tab' = [tab EXCEPT ![t] = Free(t, "idle")]
    /\ UNCHANGED <<serverVars, storeEpoch, wire>>

\* The request leaves, under the epoch the operation was made under.
Send(t) ==
    /\ tab[t].st = "claimed"
    /\ wire' = wire \cup {[op |-> tab[t].op, by |-> t, nr |-> tab[t].nr, looked |-> FALSE]}
    /\ tab' = [tab EXCEPT ![t].st = "sent"]
    /\ UNCHANGED <<serverVars, row, storeEpoch, faults>>

-----------------------------------------------------------------------------
(* The server *)

\* Copy c is answered; the page may have given up on it.
Answer(c, answer) ==
    /\ wire' = wire \ {c}
    /\ tab' = IF Awaited(c) THEN [tab EXCEPT ![c.by].st = "answered", ![c.by].answer = answer] ELSE tab

\* The request is lost, or its answer.
Lose(c) ==
    /\ wire' = wire \ {c} /\ Fault
    /\ UNCHANGED <<serverVars, row, storeEpoch, tab>>

\* admission: the session expired, or is another account's (401, 403).
Hold(c) ==
    /\ ~c.looked /\ Fault
    /\ Answer(c, "held")
    /\ UNCHANGED <<serverVars, row, storeEpoch>>

\* The envelope and the family's rules, then the unfenced look in the ledger.
Look(c) ==
    /\ ~c.looked
    /\ IF ~row[c.op].valid THEN Answer(c, "invalid")
       ELSE IF ledger[c.op] # "none" THEN Answer(c, ledger[c.op])
       ELSE wire' = (wire \ {c}) \cup {[c EXCEPT !.looked = TRUE]} /\ UNCHANGED tab
    /\ UNCHANGED <<serverVars, row, storeEpoch, faults>>

\* _dependencies_satisfied
Satisfied(i) == \A d \in row[i].deps : ledger[d] = "ack"

\* INSERT ... ON CONFLICT (op_id) DO NOTHING: the op_id is ours.
Claimed(i) == ledger[i] = "none"

\* The family's handler, in the transaction that claims the op_id.
Apply(c) == LET i == c.op IN
    /\ c.looked
    /\ \E result \in IF row[i].kind = "create" THEN {"ack"} ELSE {"ack", "refused"} :
          IF row[i].epoch # epoch THEN Answer(c, "epoch") /\ UNCHANGED <<ledger, applied>>
          ELSE IF ~Claimed(i) THEN Answer(c, ledger[i]) /\ UNCHANGED <<ledger, applied>>
          ELSE IF ~Satisfied(i) THEN Answer(c, "invalid") /\ UNCHANGED <<ledger, applied>>
          ELSE /\ Answer(c, result)
               /\ ledger' = [ledger EXCEPT ![i] = result]
               /\ applied' = IF result = "ack" THEN [applied EXCEPT ![i] = @ + 1] ELSE applied
    /\ UNCHANGED <<epoch, archive, row, storeEpoch, faults>>

Backup ==
    /\ epoch < MaxEpoch /\ archive # ledger
    /\ archive' = ledger
    /\ UNCHANGED <<ledger, epoch, applied, row, storeEpoch, tab, wire, faults>>

\* The Library is restored from the archive, under a new epoch.
Restore ==
    /\ epoch < MaxEpoch
    /\ epoch' = epoch + 1
    /\ ledger' = archive
    /\ UNCHANGED <<archive, applied, row, storeEpoch, tab, wire, faults>>

-----------------------------------------------------------------------------
(* The answer *)

\* updateOperationSyncState, which fails for a row that left the store; so does
\* the catch's own, and the drain ends.
Update(t, patched, next) == LET i == tab[t].op IN
    IF row[i].st \in InStore THEN row' = patched /\ tab' = [tab EXCEPT ![t] = next]
    ELSE UNCHANGED row /\ tab' = [tab EXCEPT ![t] = Free(t, "idle")]

\* The catch: transport, server or cache failure.  The attempt counts.
Retry(t) == Update(t, [row EXCEPT ![tab[t].op].st = "pending"], Free(t, "idle"))

\* The deadline passes, after the request or its answer was lost or before.
Timeout(t) ==
    /\ tab[t].st = "sent"
    /\ \/ UNCHANGED faults /\ \A c \in wire : ~Awaited(c) \/ c.by # t
       \/ Fault
    /\ Retry(t)
    /\ UNCHANGED <<serverVars, storeEpoch, wire>>

\* Mutant: the attempt is given back twice.
GivenBackTwice(t) == [row EXCEPT ![tab[t].op].st = "pending", ![tab[t].op].attempts = tab[t].prior - 1]

\* An admission refusal proves the attempt never ran and gives it back; of
\* another epoch, epochMoved (unless it fails) reads the session and fences.
GivenBack(t) == [row EXCEPT ![tab[t].op].st = "pending", ![tab[t].op].attempts = tab[t].prior]

GiveBack(t) ==
    /\ tab[t].st = "answered" /\ tab[t].answer \in {"held", "epoch"}
    /\ \/ tab[t].answer = "held" /\ UNCHANGED faults
       \/ tab[t].answer = "epoch" /\ Fault
       \/ row[tab[t].op].st \notin InStore /\ UNCHANGED faults
    /\ Update(t, GivenBack(t), Free(t, "idle"))
    /\ UNCHANGED <<serverVars, storeEpoch, wire>>

EpochMoved(t) ==
    /\ tab[t].st = "answered" /\ tab[t].answer = "epoch" /\ row[tab[t].op].st \in InStore
    /\ row' = Fenced(GivenBack(t), epoch)
    /\ storeEpoch' = FencedEpoch(epoch)
    /\ tab' = [tab EXCEPT ![t] = [Free(t, "loop") EXCEPT !.latest = epoch]]
    /\ UNCHANGED <<serverVars, wire, faults>>

Patched(i, st, result) == [row EXCEPT ![i].st = st, ![i].result = IF result = "none" THEN @ ELSE result]

\* The acknowledgement is reconciled and recorded, or a refusal settled: a
\* conflict for the user, or (a construction) consumed with its reason.
Record(t) == LET i == tab[t].op
                 acked == tab[t].answer = "ack"
                 consumed == acked \/ row[i].kind = "create" IN
    /\ tab[t].st = "answered" /\ tab[t].answer \in {"ack", "refused", "invalid"}
    /\ Update(t, Patched(i, IF consumed THEN "acknowledged" ELSE "conflict", IF acked THEN "none" ELSE "refusal"),
              IF consumed THEN [tab[t] EXCEPT !.st = "settled"] ELSE Free(t, "loop"))
    /\ UNCHANGED <<serverVars, storeEpoch, wire, faults>>

\* The transaction fails, or reconcile did, or the retirement's own read.
RecordFails(t) ==
    /\ \/ tab[t].st = "answered" /\ tab[t].answer \in {"ack", "refused", "invalid"}
       \/ tab[t].st = "settled"
    /\ Fault /\ Retry(t)
    /\ UNCHANGED <<serverVars, storeEpoch, wire>>

\* blockDependents of a refusal (a failure is left to the repair), then retire.
Settle(t) == LET i == tab[t].op IN
    /\ tab[t].st = "settled"
    /\ \/ /\ LET rows == IF row[i].result # "none" THEN DependentsFailed(row, i) ELSE row
             IN row' = RetiredRows(rows, i)
          /\ UNCHANGED faults
       \/ row[i].result # "none" /\ Fault /\ row' = RetiredRows(row, i)
    /\ tab' = [tab EXCEPT ![t] = Free(t, "loop")]
    /\ UNCHANGED <<serverVars, storeEpoch, wire>>

-----------------------------------------------------------------------------
Coordinate(t) == \/ Wake(t) \/ Pick(t) \/ Rest(t) \/ Claim(t) \/ Send(t) \/ Timeout(t)
                 \/ GiveBack(t) \/ EpochMoved(t) \/ Record(t) \/ Settle(t)

Next ==
    \/ \E t \in Tabs : \/ Create(t) \/ SaveField(t) \/ Delete(t)
                       \/ Start(t) \/ Crash(t) \/ Verify(t) \/ Release(t) \/ RecordFails(t)
                       \/ Coordinate(t)
                       \/ \E i \in Ops : Discard(t, i) \/ DiscardRestored(t, i)
    \/ \E c \in wire : Lose(c) \/ Hold(c) \/ Look(c) \/ Apply(c)
    \/ Backup \/ Restore

Spec == Init /\ [][Next]_vars

\* A page that stays open finishes what it awaits, and wakes its coordinator
\* again (every refusal and failure reschedules it): one that finds the lock
\* taken tries again every two seconds or so, at random, while the holder's
\* drain ends, so in the end it gets the lock.  Requests are served.
Fairness == /\ \A t \in Tabs : WF_vars(Coordinate(t)) /\ SF_vars(Wake(t))
            /\ WF_vars(\E c \in wire : Look(c) \/ Apply(c))

FairSpec == Spec /\ Fairness

-----------------------------------------------------------------------------
(* Properties *)

\* Every variable keeps the shape the code gives it.
TypeOK ==
    /\ row \in [Ops -> Row]
    /\ storeEpoch \in 0..MaxEpoch
    /\ tab \in [Tabs -> Tab]
    /\ wire \subseteq Copy
    /\ ledger \in [Ops -> {"none", "ack", "refused"}]
    /\ epoch \in 1..MaxEpoch
    /\ archive \in [Ops -> {"none", "ack", "refused"}]
    /\ applied \in [Ops -> Nat]
    /\ faults \in Nat

\* What becomes of each operation: the promise of module Intents.
Fate == [i \in Ops |->
    IF ledger[i] = "ack" THEN "applied"
    ELSE CASE row[i].st \in {"pending", "syncing"} /\ row[i].result = "none" ->
                  IF row[i].epoch = epoch THEN "kept" ELSE "stale"
           [] row[i].st \in {"acknowledged", "retired"} /\ row[i].result = "none" -> "undone"
           [] row[i].st \in (InStore \cup {"retired", "discarded"}) /\ row[i].result # "none" -> "refused"
           [] row[i].st = "discarded" -> "refused"
           [] row[i].st = "restored" -> "review"
           [] OTHER -> row[i].st]

Promise == INSTANCE Intents WITH fate <- Fate, times <- applied, Ids <- Ops

\* The queue and the ledger together keep the promise: whatever is lost,
\* repeated or cut short, an operation takes effect at most once between two
\* restores, never after the user took it back, never in a Library restored
\* since it was made, and none leaves the queue unapplied but to the user.
KeepsPromise == Promise!Spec

\* An operation is sent only once the server has applied what it waits for
\* ("the coordinator only sends an operation whose prerequisites it believes
\* are ACKed", sync-runtime.js): none is refused for its order.
SentInOrder == \A c \in wire : row[c.op].epoch = epoch => \A d \in row[c.op].deps : ledger[d] = "ack"

\* What an operation of the queue waits for is still there to be waited for:
\* "dropping the row alone would leave them naming an operation the store no
\* longer has" (local-first-sync.md).
DependencyStored == \A i \in Stored(row) : row[i].st \in {"pending", "syncing"} =>
    \A d \in row[i].deps : row[d].st \in InStore

\* Once the tabs that ever crashed are open again, the queue empties, but for
\* what waits behind a conflict only the user can resolve.
Drains == <>[](\A t \in Tabs : Open(t))
    => <>[](\A i \in Ops : row[i].st \in {"pending", "syncing"}
                => \E d \in row[i].deps : row[d].st = "conflict")

-----------------------------------------------------------------------------
(* The inductive invariant of the order operations are sent in.  It needs no  *)
(* lock between the tabs.                                                    *)

Busy(t) == tab[t].st \in {"picked", "claimed", "sent", "answered", "settled"}

\* What a tab or a request is about was made.
AboutMade == /\ \A t \in Tabs : Busy(t) => tab[t].op \in Ops /\ row[tab[t].op].st # "unmade"
             /\ \A c \in wire : row[c.op].st # "unmade"

\* Nobody is ahead of the server, and the queue is of one epoch.
Epochs ==
    /\ storeEpoch <= epoch
    /\ \A t \in Tabs : tab[t].page <= epoch /\ tab[t].latest <= epoch
    /\ \A i \in Ops : /\ row[i].epoch <= storeEpoch
                      /\ row[i].st \in InStore => row[i].epoch = storeEpoch

\* What an operation waits for was made before it in the same epoch.
DepsMade == \A i \in Ops : \A d \in row[i].deps :
    d # i /\ row[d].st # "unmade" /\ row[d].epoch = row[i].epoch

\* Within an epoch the browser believes only what the server has recorded.
Believed ==
    /\ \A i \in Ops : /\ row[i].epoch = epoch /\ row[i].result = "none"
                      /\ row[i].st \in {"acknowledged", "retired"}
                      => ledger[i] = "ack"
    /\ \A t \in Tabs : /\ tab[t].st = "answered" /\ tab[t].answer \in {"ack", "refused"}
                       /\ row[tab[t].op].epoch = epoch
                       => ledger[tab[t].op] = tab[t].answer

\* An operation is picked in order, and stays so until it is sent.
PickedInOrder == \A t \in Tabs : LET i == tab[t].op IN
    tab[t].st \in {"picked", "claimed"} /\ row[i].epoch = epoch
        => \A d \in row[i].deps : ledger[d] = "ack"

OInv == TypeOK /\ AboutMade /\ Epochs /\ DepsMade /\ Believed /\ PickedInOrder /\ SentInOrder

=============================================================================

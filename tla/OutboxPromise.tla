---------------------------- MODULE OutboxPromise ----------------------------
(***************************************************************************)
(* Proofs, for every number of tabs, operations, epochs and faults, that   *)
(* the tabs of a browser with a lock between them (navigator.locks) keep,  *)
(* with the server, the promise of module Intents: an operation takes      *)
(* effect once or is handed back.                                          *)
(***************************************************************************)
EXTENDS OutboxProofs

-----------------------------------------------------------------------------
(* The inductive invariant, besides OInv *)

OneDrain == \A s, t \in Tabs : Running(s) /\ Running(t) => s = t

\* What the server has of an operation it can only have from an attempt.
LedgerOK(i) ==
    /\ archive[i] # "none" => ledger[i] = archive[i]
    /\ ledger[i] = "refused" => row[i].kind # "create"
    /\ ledger[i] = "ack" => applied[i] > 0
    /\ ledger[i] # "none" => row[i].attempts > 0

\* What was not made or never sent has no attempt, and a row's result is why
\* it is where it is.
KeptOK(i) ==
    /\ row[i].st \in {"unmade", "withdrawn"} => row[i].attempts = 0
    /\ row[i].st = "conflict" => row[i].result # "none"
    /\ row[i].st \in {"pending", "syncing", "acknowledged", "retired"} /\ row[i].result # "none"
       => ~row[i].valid /\ row[i].attempts > 0
    /\ row[i].st \in {"acknowledged", "retired"} /\ row[i].result = "none"
       => applied[i] > 0

\* What was sent waits for nothing any more.
Sendable(i) == \A d \in row[i].deps :
    /\ row[d].st = "acknowledged" /\ row[d].result = "none"
    /\ \A t \in Tabs : ~(Busy(t) /\ tab[t].op = d)

\* An open operation waits for rows of the queue, of an earlier kind.
WaitOK(i) ==
    /\ row[i].st \in {"pending", "syncing"} => \A d \in row[i].deps : row[d].st \in InStore
    /\ row[i].st \in {"pending", "syncing"} /\ row[i].attempts > 0 => Sendable(i)
    /\ row[i].kind = "create" => row[i].deps = {}
    /\ row[i].kind = "field" => \A d \in row[i].deps : row[d].kind = "create"
    /\ \A d \in row[i].deps : row[d].kind # "delete"

\* Every attempt has a number of its own, and what the server may still apply
\* is still in the queue.
CopyOK(c) ==
    /\ c.nr > 0 /\ c.nr <= row[c.op].attempts
    /\ \A d \in wire : d.op = c.op /\ d.nr = c.nr => d = c
    /\ c.looked => row[c.op].valid
    /\ row[c.op].epoch = epoch /\ row[c.op].valid /\ ledger[c.op] = "none"
       => row[c.op].st \in {"pending", "syncing"}

\* The operation in a tab's hands is its own until it is done with it: only a
\* restore can take it away, and no other attempt of it has its number.
HeldOK(t) == LET i == tab[t].op IN
    /\ tab[t].st = "picked" => row[i].attempts = tab[t].prior
    /\ tab[t].st \in {"claimed", "sent", "answered"} =>
        /\ tab[t].nr = tab[t].prior + 1 /\ row[i].attempts = tab[t].nr
        /\ \/ row[i].st = "syncing"
           \/ row[i].st \in {"restored", "discarded"} /\ row[i].epoch < storeEpoch
        /\ \A c \in wire : c.op = i => c.nr < tab[t].nr \/ (tab[t].st = "sent" /\ c.by = t)
    /\ tab[t].st = "settled" =>
        \/ row[i].st = "acknowledged"
        \/ row[i].st = "retired" /\ row[i].epoch < storeEpoch

\* A first attempt that will be given back has left no trace, and an answer
\* says what became of the operation.
Undecided(t) == \/ tab[t].st \in {"claimed", "sent"}
                \/ tab[t].st = "answered" /\ tab[t].answer \in {"held", "epoch"}
AnswerOK(t) == LET i == tab[t].op IN
    /\ Undecided(t) /\ tab[t].prior = 0 => ledger[i] = "none"
    /\ tab[t].st \in {"claimed", "sent", "answered"} /\ tab[t].prior = 0 => row[i].result = "none"
    /\ tab[t].st = "answered" =>
        /\ tab[t].answer # "none"
        /\ tab[t].answer = "invalid" => ~row[i].valid
        /\ tab[t].answer = "refused" => row[i].kind # "create"
        /\ tab[t].answer = "ack" => applied[i] > 0

HandOK(t) == /\ HeldOK(t) /\ AnswerOK(t)
             /\ Busy(t) /\ row[tab[t].op].st \in InStore => Sendable(tab[t].op)

PInv == /\ OInv /\ OneDrain
        /\ \A i \in Ops : LedgerOK(i) /\ KeptOK(i) /\ WaitOK(i)
        /\ \A c \in wire : CopyOK(c)
        /\ \A t \in Tabs : HandOK(t)

-----------------------------------------------------------------------------
(* What a step makes of a row, where the invariant holds *)

\* A row goes back to the queue from a tab's hands, or to the review list.
PutBack(i) ==
    /\ Alike(row[i], row'[i]) /\ row'[i].result = row[i].result
    /\ \/ /\ row'[i].st = "pending" /\ row[i].epoch = storeEpoch'
          /\ row[i].st \in {"syncing", "acknowledged"}
       \/ row'[i].st = "restored" /\ row[i].epoch < storeEpoch' /\ row[i].st = "syncing"
    /\ row'[i].attempts = 0 => ledger[i] = "none" /\ row[i].result = "none"
    /\ \A c \in wire : c.op = i => c.nr <= row'[i].attempts
    /\ Sendable(i) /\ \E t \in Tabs : Busy(t) /\ tab[t].op = i

Taken(i) ==
    /\ row[i].st = "pending" /\ row[i].epoch = storeEpoch' /\ Sendable(i)
    /\ row'[i] = [row[i] EXCEPT !.st = "syncing", !.attempts = row[i].attempts + 1]

\* An answer is recorded.
Recorded(i) ==
    /\ row[i].st = "syncing" /\ row[i].epoch = storeEpoch' /\ row[i].attempts > 0
    /\ Alike(row[i], row'[i]) /\ row'[i].attempts = row[i].attempts
    /\ \/ /\ row'[i].st = "acknowledged" /\ row'[i].result = row[i].result /\ applied[i] > 0
          /\ row[i].epoch = epoch => ledger[i] = "ack"
       \/ /\ row'[i].st = "conflict" /\ row'[i].result = "refusal"
          /\ row[i].epoch = epoch => ledger[i] # "none" \/ ~row[i].valid
       \/ row'[i].st = "acknowledged" /\ row'[i].result = "refusal" /\ ~row[i].valid

Made1(i) == \E t \in Tabs : Begun(t, i) /\ tab[t].page = storeEpoch'

RowStep(i) == \/ Stays(i) \/ Left(i) \/ Made1(i) \/ Withdrawn(i) \/ Failed(i) \/ Discarded(i)
              \/ Resumed(i) \/ Retired(i) \/ PutBack(i) \/ Taken(i) \/ Recorded(i)

\* No open operation of the queue waits for row i.
Unawaited(i) == \A k \in Ops : row[k].st \in {"pending", "syncing"} => i \notin row[k].deps

RowsStep ==
    /\ row' \in [Ops -> Row]
    /\ storeEpoch <= storeEpoch' /\ storeEpoch' <= epoch
    /\ \A i \in Ops : /\ RowStep(i)
                      /\ Withdrawn(i) \/ Discarded(i) \/ Retired(i) => Unawaited(i)'

\* What fails with its dependency was never sent.
LEMMA FailedFirst ==
    ASSUME PInv, NEW i \in Ops, Failed(i)
    PROVE  /\ row[i].st \in {"pending", "syncing"} /\ row[i].epoch = storeEpoch'
           /\ row'[i] = FailedRow(row[i]) /\ row[i].attempts = 0
           /\ row[i].result = "none" /\ ledger[i] = "none"
           /\ \A t \in Tabs : Busy(t) => tab[t].op # i
           /\ \A c \in wire : c.op # i
  <1>1. /\ row[i].st \in {"pending", "syncing"} /\ row[i].epoch = storeEpoch'
        /\ row'[i] = FailedRow(row[i])
    BY DEF Failed
  <1>2. PICK d \in row[i].deps : ~Succeeded(row[d])
    BY DEF Failed
  <1>3. ~Sendable(i)
    BY <1>2 DEF Sendable, Succeeded
  <1>4. WaitOK(i) /\ KeptOK(i) /\ LedgerOK(i) /\ row[i].attempts \in Nat
    BY DEF PInv, OInv, TypeOK, Row
  <1>5. row[i].attempts = 0
    BY <1>1, <1>3, <1>4 DEF WaitOK
  <1>6. row[i].result = "none" /\ ledger[i] = "none"
    BY <1>1, <1>4, <1>5 DEF KeptOK, LedgerOK
  <1>7. \A t \in Tabs : Busy(t) => tab[t].op # i
    BY <1>1, <1>3 DEF PInv, HandOK, InStore
  <1>8. \A c \in wire : c.op # i
    <2> SUFFICES ASSUME NEW c \in wire, c.op = i PROVE FALSE
      OBVIOUS
    <2>1. CopyOK(c) /\ c.nr \in Nat
      BY DEF PInv, OInv, TypeOK, Copy
    <2> QED BY <1>5, <2>1 DEF CopyOK
  <1> QED BY <1>1, <1>5, <1>6, <1>7, <1>8

\* What is withdrawn left no trace.
LEMMA WithdrawnClean ==
    ASSUME PInv, NEW i \in Ops, Withdrawn(i)
    PROVE  /\ row[i].st = "pending" /\ row[i].attempts = 0 /\ row[i].epoch = storeEpoch'
           /\ row'[i] = [row[i] EXCEPT !.st = "withdrawn"]
           /\ row[i].result = "none" /\ ledger[i] = "none"
           /\ \A t \in Tabs : Busy(t) /\ tab[t].op = i => tab[t].st = "picked"
           /\ \A c \in wire : c.op # i
  <1>1. /\ row[i].st = "pending" /\ row[i].attempts = 0 /\ row[i].epoch = storeEpoch'
        /\ row'[i] = [row[i] EXCEPT !.st = "withdrawn"]
    BY DEF Withdrawn, NeverSent
  <1>2. KeptOK(i) /\ LedgerOK(i)
    BY DEF PInv
  <1>3. row[i].result = "none" /\ ledger[i] = "none"
    BY <1>1, <1>2 DEF KeptOK, LedgerOK
  <1>4. \A t \in Tabs : Busy(t) /\ tab[t].op = i => tab[t].st = "picked"
    BY <1>1 DEF PInv, HandOK, HeldOK, Busy
  <1>5. \A c \in wire : c.op # i
    <2> SUFFICES ASSUME NEW c \in wire, c.op = i PROVE FALSE
      OBVIOUS
    <2>1. CopyOK(c) /\ c.nr \in Nat
      BY DEF PInv, OInv, TypeOK, Copy
    <2> QED BY <1>1, <2>1 DEF CopyOK
  <1> QED BY <1>1, <1>3, <1>4, <1>5

\* What begins was not there before.
LEMMA MadeClean ==
    ASSUME PInv, NEW i \in Ops, Made1(i)
    PROVE  /\ row[i].st = "unmade" /\ row[i].attempts = 0 /\ ledger[i] = "none"
           /\ row'[i].st = "pending" /\ row'[i].epoch = storeEpoch' /\ row'[i].attempts = 0
           /\ row'[i].result = "none"
           /\ \A d \in row'[i].deps : /\ row'[d].st \in InStore /\ row'[d].kind # "delete"
           /\ row'[i].kind = "create" => row'[i].deps = {}
           /\ row'[i].kind = "field" => \A d \in row'[i].deps : row'[d].kind = "create"
           /\ \A t \in Tabs : Busy(t) => tab[t].op # i
           /\ \A c \in wire : c.op # i
  <1>1. PICK t \in Tabs : Begun(t, i) /\ tab[t].page = storeEpoch'
    BY DEF Made1
  <1>2. PICK kind \in Kinds, deps \in SUBSET Ops, valid \in BOOLEAN :
            /\ row[i].st = "unmade" /\ row'[i] = Made(t, kind, deps, valid)
            /\ \A d \in deps : row'[d].st \in InStore /\ row'[d].kind # "delete"
            /\ kind = "create" => deps = {}
            /\ kind = "field" => \A d \in deps : row'[d].kind = "create"
    BY <1>1 DEF Begun
  <1>3. /\ row'[i].st = "pending" /\ row'[i].kind = kind /\ row'[i].deps = deps
        /\ row'[i].epoch = storeEpoch' /\ row'[i].attempts = 0 /\ row'[i].result = "none"
    BY <1>1, <1>2, MadeRow DEF PInv, OInv
  <1>4. KeptOK(i) /\ LedgerOK(i) /\ TypeOK
    BY DEF PInv, OInv
  <1>5. row[i].attempts = 0 /\ ledger[i] = "none"
    BY <1>2, <1>4 DEF KeptOK, LedgerOK
  <1>6. (\A u \in Tabs : Busy(u) => tab[u].op # i) /\ \A c \in wire : c.op # i
    BY <1>2 DEF PInv, OInv, AboutMade
  <1> QED BY <1>2, <1>3, <1>5, <1>6

\* Only the status of a row changes.
Moved(i, st) == /\ Alike(row[i], row'[i]) /\ row'[i].attempts = row[i].attempts
                /\ row'[i].result = row[i].result /\ row'[i].st = st

LEMMA MovedRow ==
    ASSUME PInv, NEW i \in Ops
    PROVE  /\ Left(i) => /\ row[i].st \in InStore /\ row[i].epoch < storeEpoch'
                         /\ Moved(i, IF row[i].st = "acknowledged" THEN "retired" ELSE "restored")
           /\ Withdrawn(i) => Moved(i, "withdrawn")
           /\ Discarded(i) => row[i].st \in {"conflict", "restored"} /\ Moved(i, "discarded")
           /\ Resumed(i) => row[i].st = "syncing" /\ Moved(i, "pending")
           /\ Retired(i) => row[i].st = "acknowledged" /\ Moved(i, "retired")
  <1>1. row[i] \in Row
    BY DEF PInv, OInv, TypeOK
  <1>2. ASSUME NEW st \in Status, row'[i] = [row[i] EXCEPT !.st = st]
        PROVE  Moved(i, st)
    BY <1>1, <1>2, RowFields DEF Moved
  <1>3. {"retired", "restored", "withdrawn", "discarded", "pending"} \subseteq Status
    BY DEF Status
  <1> QED BY <1>2, <1>3 DEF Left, Withdrawn, Discarded, Resumed, Retired

\* A step makes an operation, or keeps what it is.
LEMMA AlikeStep ==
    ASSUME PInv, NEW k \in Ops, RowStep(k)
    PROVE  Made1(k) \/ Alike(row[k], row'[k])
  <1>1. row[k] \in Row
    BY DEF PInv, OInv, TypeOK
  <1>2. CASE Stays(k)
    BY <1>2 DEF Stays, Alike
  <1>3. CASE Left(k) \/ Withdrawn(k) \/ Discarded(k) \/ Resumed(k) \/ Retired(k)
    BY <1>3, MovedRow DEF Moved
  <1>4. CASE Failed(k)
    BY <1>1, <1>4, RowFields DEF Failed
  <1>5. CASE PutBack(k) \/ Recorded(k)
    BY <1>5 DEF PutBack, Recorded
  <1>6. CASE Taken(k)
    BY <1>1, <1>6 DEF Taken, Row, Alike
  <1> QED BY <1>2, <1>3, <1>4, <1>5, <1>6 DEF RowStep

LEMMA LedgerNext ==
    ASSUME PInv, RowsStep, UNCHANGED serverVars, NEW i \in Ops
    PROVE  LedgerOK(i)'
  <1>1. LedgerOK(i) /\ RowStep(i) /\ UNCHANGED <<ledger, archive, applied>> /\ row[i].attempts \in Nat
    BY DEF PInv, OInv, TypeOK, Row, RowsStep, serverVars
  <1>2. ASSUME row'[i].kind = row[i].kind, ledger[i] # "none" => row'[i].attempts > 0
        PROVE  LedgerOK(i)'
    BY <1>1, <1>2 DEF LedgerOK
  <1>3. CASE Stays(i)
    BY <1>1, <1>2, <1>3 DEF Stays, LedgerOK
  <1>4. ASSUME NEW st \in Status, Moved(i, st) PROVE LedgerOK(i)'
    BY <1>1, <1>2, <1>4 DEF Moved, Alike, LedgerOK
  <1>5. CASE Left(i) \/ Withdrawn(i) \/ Discarded(i) \/ Resumed(i) \/ Retired(i)
    BY <1>4, <1>5, MovedRow DEF Status
  <1>6. CASE Made1(i)
    BY <1>1, <1>6, MadeClean DEF LedgerOK
  <1>7. CASE Failed(i)
    BY <1>1, <1>7, FailedFirst, RowFields DEF LedgerOK, Alike, PInv, OInv, TypeOK
  <1>8. CASE PutBack(i)
    <2>1. row'[i].attempts \in Nat
      BY DEF RowsStep, Row
    <2> QED BY <1>2, <1>8, <2>1 DEF PutBack, Alike
  <1>9. CASE Taken(i)
    <2>1. row'[i].kind = row[i].kind /\ row'[i].attempts = row[i].attempts + 1
      BY <1>9 DEF Taken, PInv, OInv, TypeOK, Row
    <2> QED BY <1>1, <1>2, <2>1
  <1>10. CASE Recorded(i)
    BY <1>1, <1>2, <1>10 DEF Recorded, Alike, LedgerOK
  <1> QED BY <1>1, <1>3, <1>5, <1>6, <1>7, <1>8, <1>9, <1>10 DEF RowStep

LEMMA KeptNext ==
    ASSUME PInv, RowsStep, UNCHANGED serverVars, NEW i \in Ops
    PROVE  KeptOK(i)'
  <1>1. /\ KeptOK(i) /\ RowStep(i) /\ applied' = applied /\ row[i] \in Row
        /\ row[i].attempts \in Nat /\ row'[i].attempts \in Nat
    BY DEF PInv, OInv, TypeOK, Row, RowsStep, serverVars
  <1>2. CASE Stays(i)
    BY <1>1, <1>2 DEF Stays, KeptOK
  <1>3. CASE Left(i)
    BY <1>1, <1>3, MovedRow DEF Moved, Alike, KeptOK, InStore
  <1>4. CASE Withdrawn(i)
    BY <1>1, <1>4, WithdrawnClean, MovedRow DEF Moved, Alike, KeptOK
  <1>5. CASE Discarded(i) \/ Resumed(i) \/ Retired(i)
    BY <1>1, <1>5, MovedRow DEF Moved, Alike, KeptOK
  <1>6. CASE Made1(i)
    BY <1>1, <1>6, MadeClean DEF KeptOK
  <1>7. CASE Failed(i)
    BY <1>1, <1>7, FailedFirst, RowFields DEF KeptOK
  <1>8. CASE PutBack(i)
    BY <1>1, <1>8 DEF PutBack, Alike, KeptOK
  <1>9. CASE Taken(i)
    <2>1. /\ Alike(row[i], row'[i]) /\ row'[i].attempts = row[i].attempts + 1
          /\ row'[i].st = "syncing" /\ row'[i].result = row[i].result /\ row[i].st = "pending"
      BY <1>1, <1>9 DEF Taken, Row, Alike
    <2> QED BY <1>1, <2>1 DEF KeptOK, Alike
  <1>10. CASE Recorded(i)
    BY <1>1, <1>10 DEF Recorded, Alike, KeptOK
  <1> QED BY <1>1, <1>2, <1>3, <1>4, <1>5, <1>6, <1>7, <1>8, <1>9, <1>10 DEF RowStep

\* What an open row of the queue was before the step.
LEMMA OpenBefore ==
    ASSUME PInv, OInv', RowsStep, NEW k \in Ops, row'[k].st \in {"pending", "syncing"}
    PROVE  /\ row'[k].epoch = storeEpoch'
           /\ \/ Made1(k)
              \/ /\ Alike(row[k], row'[k]) /\ row[k].st \in {"pending", "syncing"}
                 /\ row'[k].attempts = row[k].attempts \/ Sendable(k)
              \/ Alike(row[k], row'[k]) /\ Sendable(k)
  <1>1. row[k] \in Row /\ RowStep(k)
    BY DEF PInv, OInv, TypeOK, RowsStep
  <1>2. row'[k].epoch = storeEpoch'
    BY DEF OInv, Epochs, InStore
  <1>3. CASE Stays(k)
    BY <1>2, <1>3 DEF Stays, Alike
  <1>4. ~Left(k) /\ ~Withdrawn(k) /\ ~Discarded(k) /\ ~Retired(k)
    BY MovedRow DEF Moved
  <1>5. CASE Resumed(k)
    BY <1>2, <1>5, MovedRow DEF Moved
  <1>6. ~Failed(k)
    BY <1>1, RowFields DEF Failed
  <1>7. CASE PutBack(k)
    BY <1>2, <1>7 DEF PutBack
  <1>8. CASE Taken(k)
    BY <1>1, <1>2, <1>8 DEF Taken, Alike, Row
  <1>9. ~Recorded(k)
    BY DEF Recorded
  <1> QED BY <1>1, <1>2, <1>3, <1>4, <1>5, <1>6, <1>7, <1>8, <1>9 DEF RowStep

\* What an open row waits for stays with it.
LEMMA WaitedFor ==
    ASSUME PInv, OInv', RowsStep, NEW k \in Ops, row'[k].st \in {"pending", "syncing"},
           NEW d \in row'[k].deps, row[d].st \in InStore
    PROVE  /\ d \in Ops /\ row'[d].st \in InStore
           /\ \/ Stays(d) \/ Failed(d) \/ Resumed(d) \/ Taken(d) \/ Recorded(d)
              \/ PutBack(d) /\ row'[d].st = "pending"
  <1>1. d \in Ops /\ row[d] \in Row
    BY DEF PInv, OInv, TypeOK, RowsStep, Row
  <1>2. RowStep(d) /\ (Withdrawn(d) \/ Discarded(d) \/ Retired(d) => Unawaited(d)')
    BY <1>1 DEF RowsStep
  <1>3. row'[k].epoch = storeEpoch' /\ row'[d].epoch = row'[k].epoch /\ storeEpoch' \in Nat
    BY OpenBefore, OutboxAssumption DEF OInv, DepsMade, TypeOK
  <1>4. ~Unawaited(d)'
    BY DEF Unawaited
  <1>5. ~Left(d)
    BY <1>1, <1>3, MovedRow DEF Moved, Alike
  <1>6. ~Made1(d)
    BY <1>1, MadeClean DEF InStore
  <1>7. PutBack(d) => row'[d].st = "pending"
    BY <1>3 DEF PutBack, Alike
  <1>8. CASE Stays(d)
    BY <1>1, <1>8 DEF Stays
  <1>9. CASE Failed(d)
    BY <1>1, <1>9, RowFields DEF Failed, InStore
  <1>10. CASE Resumed(d)
    BY <1>1, <1>10, MovedRow DEF Moved, InStore
  <1>11. CASE Taken(d)
    BY <1>1, <1>11 DEF Taken, InStore, Row
  <1>12. CASE Recorded(d)
    BY <1>1, <1>12 DEF Recorded, InStore
  <1>13. CASE PutBack(d)
    BY <1>1, <1>7, <1>13 DEF InStore
  <1> QED BY <1>2, <1>4, <1>5, <1>6, <1>8, <1>9, <1>10, <1>11, <1>12, <1>13 DEF RowStep

\* What a tab takes in hand waits to be sent.
HandsOn == \A t \in Tabs : Busy(t)' => \/ Busy(t) /\ tab'[t].op = tab[t].op
                                       \/ row[tab'[t].op].st # "acknowledged"

LEMMA WaitNext ==
    ASSUME PInv, OInv', RowsStep, HandsOn, NEW k \in Ops
    PROVE  WaitOK(k)'
  <1>1. /\ WaitOK(k) /\ RowStep(k) /\ row[k].attempts \in Nat /\ row[k] \in Row /\ row'[k] \in Row
        /\ row[k].deps \subseteq Ops /\ row'[k].deps \subseteq Ops
    BY DEF PInv, OInv, TypeOK, Row, RowsStep
  <1>2. ASSUME row'[k].st \in {"pending", "syncing"}
        PROVE  \A d \in row'[k].deps : row'[d].st \in InStore
    <2>1. CASE Made1(k)
      BY <2>1, MadeClean
    <2>2. CASE Alike(row[k], row'[k]) /\ \A d \in row[k].deps : row[d].st \in InStore
      BY <1>2, <2>2, WaitedFor DEF Alike
    <2>3. Sendable(k) => \A d \in row[k].deps : row[d].st \in InStore
      BY DEF Sendable, InStore
    <2> QED BY <1>1, <1>2, <2>1, <2>2, <2>3, OpenBefore DEF WaitOK
  <1>3. ASSUME row'[k].st \in {"pending", "syncing"}, row'[k].attempts > 0
        PROVE  Sendable(k)'
    <2>1. ~Made1(k)
      BY <1>3, MadeClean
    <2>2. Alike(row[k], row'[k]) /\ Sendable(k)
      BY <1>1, <1>3, <2>1, OpenBefore DEF WaitOK
    <2> SUFFICES ASSUME NEW d \in row'[k].deps
                 PROVE  /\ row'[d].st = "acknowledged" /\ row'[d].result = "none"
                        /\ \A t \in Tabs : ~(Busy(t)' /\ tab'[t].op = d)
      BY DEF Sendable
    <2>3. /\ d \in row[k].deps /\ row[d].st = "acknowledged" /\ row[d].result = "none"
          /\ \A t \in Tabs : ~(Busy(t) /\ tab[t].op = d)
      BY <2>2 DEF Sendable, Alike
    <2>4. row[d].st \in InStore /\ d \in Ops
      BY <1>1, <2>3 DEF InStore
    <2>5. ~PutBack(d)
      BY <2>3, Zenon DEF PutBack
    <2>6. Stays(d)
      BY <1>3, <2>3, <2>4, <2>5, WaitedFor, Zenon DEF Failed, Resumed, Taken, Recorded
    <2> QED BY <2>3, <2>6 DEF Stays, HandsOn
  <1>4. ASSUME NEW d \in row[k].deps
        PROVE  d \in Ops /\ row'[d].kind = row[d].kind
    <2>1. d \in Ops /\ row[d].st # "unmade" /\ row[d] \in Row
      BY DEF PInv, OInv, TypeOK, Row, DepsMade
    <2>2. RowStep(d)
      BY <2>1 DEF RowsStep
    <2>3. ~Made1(d)
      BY <2>1 DEF Made1, Begun
    <2> QED BY <2>1, <2>2, <2>3, AlikeStep DEF Alike
  <1>5. /\ row'[k].kind = "create" => row'[k].deps = {}
        /\ row'[k].kind = "field" => \A d \in row'[k].deps : row'[d].kind = "create"
        /\ \A d \in row'[k].deps : row'[d].kind # "delete"
    <2>1. CASE Made1(k)
      BY <2>1, MadeClean
    <2>2. CASE ~Made1(k)
      <3>1. Alike(row[k], row'[k])
        BY <1>1, <2>2, AlikeStep
      <3> QED BY <1>1, <1>4, <3>1 DEF WaitOK, Alike
    <2> QED BY <2>1, <2>2
  <1> QED BY <1>2, <1>3, <1>5 DEF WaitOK

LEMMA CopyNext ==
    ASSUME PInv, OInv', RowsStep, UNCHANGED serverVars, wire' \subseteq wire, NEW c \in wire'
    PROVE  CopyOK(c)'
  <1> DEFINE i == c.op
  <1>1. /\ CopyOK(c) /\ c \in wire /\ c \in Copy /\ i \in Ops /\ RowStep(i) /\ row[i] \in Row
        /\ c.nr \in Nat /\ row[i].attempts \in Nat /\ row'[i].attempts \in Nat
        /\ ledger' = ledger /\ epoch' = epoch /\ KeptOK(i) /\ WaitOK(i)
        /\ storeEpoch' \in Nat /\ storeEpoch' <= epoch /\ epoch \in Nat
    BY OutboxAssumption DEF PInv, OInv, TypeOK, Copy, Row, RowsStep, serverVars
  <1> HIDE DEF i
  <1>2. row[i].attempts > 0
    BY <1>1 DEF CopyOK, i
  <1>3. ~Made1(i) /\ ~Withdrawn(i) /\ ~Failed(i)
    BY <1>1, MadeClean, WithdrawnClean, FailedFirst DEF i
  <1>4. Alike(row[i], row'[i])
    BY <1>1, <1>3, AlikeStep
  <1>5. c.nr <= row'[i].attempts
    <2>1. CASE PutBack(i)
      BY <1>1, <2>1 DEF PutBack, i
    <2>2. CASE Taken(i)
      BY <1>1, <2>2 DEF Taken, Row, CopyOK, i
    <2>3. CASE Left(i) \/ Discarded(i) \/ Resumed(i) \/ Retired(i)
      BY <1>1, <2>3, MovedRow DEF Moved, CopyOK, i
    <2>4. CASE Stays(i) \/ Recorded(i)
      BY <1>1, <2>4 DEF Stays, Recorded, CopyOK, i
    <2> QED BY <1>1, <1>3, <2>1, <2>2, <2>3, <2>4 DEF RowStep
  <1>6. ASSUME row'[i].epoch = epoch, row'[i].valid, ledger[i] = "none"
        PROVE  row'[i].st \in {"pending", "syncing"}
    <2>1. row[i].st \in {"pending", "syncing"} /\ row[i].epoch = epoch /\ row[i].valid
      BY <1>1, <1>4, <1>6 DEF CopyOK, Alike, i
    <2>2. CASE Stays(i)
      BY <2>1, <2>2 DEF Stays
    <2>3. ~Left(i)
      BY <1>1, <2>1, MovedRow
    <2>4. ~Discarded(i) /\ ~Retired(i)
      BY <1>1, <2>1, MovedRow
    <2>5. CASE Resumed(i)
      BY <1>1, <2>5, MovedRow DEF Moved
    <2>6. CASE PutBack(i)
      BY <1>1, <2>1, <2>6 DEF PutBack
    <2>7. CASE Taken(i)
      BY <1>1, <2>7 DEF Taken, Row
    <2>8. ~Recorded(i)
      BY <1>6, <2>1 DEF Recorded
    <2> QED BY <1>1, <1>3, <2>2, <2>3, <2>4, <2>5, <2>6, <2>7, <2>8 DEF RowStep
  <1> QED BY <1>1, <1>4, <1>5, <1>6 DEF CopyOK, Alike, i

-----------------------------------------------------------------------------
(* The fate of an operation *)

Queued(i) == row[i].st \in {"pending", "syncing"}
Done(i)   == row[i].st \in {"acknowledged", "retired"}
Clean(i)  == row[i].result = "none"

FateIs(i) ==
    /\ ledger[i] = "ack" => Fate[i] = "applied"
    /\ ledger[i] # "ack" =>
        /\ Queued(i) /\ Clean(i) /\ row[i].epoch = epoch => Fate[i] = "kept"
        /\ Queued(i) /\ Clean(i) /\ row[i].epoch # epoch => Fate[i] = "stale"
        /\ Done(i) /\ Clean(i) => Fate[i] = "undone"
        /\ (Queued(i) \/ Done(i) \/ row[i].st = "conflict") /\ ~Clean(i) => Fate[i] = "refused"
        /\ row[i].st = "discarded" => Fate[i] = "refused"
        /\ row[i].st = "restored" => Fate[i] = "review"
        /\ row[i].st = "unmade" => Fate[i] = "unmade"
        /\ row[i].st = "withdrawn" => Fate[i] = "withdrawn"

LEMMA Fates == \A i \in Ops : FateIs(i)
  <1> SUFFICES ASSUME NEW i \in Ops PROVE FateIs(i)
    OBVIOUS
  <1>1. Fate[i] =
          IF ledger[i] = "ack" THEN "applied"
          ELSE CASE row[i].st \in {"pending", "syncing"} /\ row[i].result = "none" ->
                        IF row[i].epoch = epoch THEN "kept" ELSE "stale"
                 [] row[i].st \in {"acknowledged", "retired"} /\ row[i].result = "none" -> "undone"
                 [] row[i].st \in (InStore \cup {"retired", "discarded"}) /\ row[i].result # "none" -> "refused"
                 [] row[i].st = "discarded" -> "refused"
                 [] row[i].st = "restored" -> "review"
                 [] OTHER -> row[i].st
    BY DEF Fate
  <1>2. CASE ledger[i] = "ack"
    BY <1>1, <1>2 DEF FateIs
  <1>3. CASE ledger[i] # "ack"
    <2>1. Queued(i) /\ Clean(i) /\ row[i].epoch = epoch => Fate[i] = "kept"
      BY <1>1, <1>3 DEF Queued, Clean, InStore
    <2>2. Queued(i) /\ Clean(i) /\ row[i].epoch # epoch => Fate[i] = "stale"
      BY <1>1, <1>3 DEF Queued, Clean, InStore
    <2>3. Done(i) /\ Clean(i) => Fate[i] = "undone"
      BY <1>1, <1>3 DEF Done, Clean, InStore
    <2>4. (Queued(i) \/ Done(i) \/ row[i].st = "conflict") /\ ~Clean(i) => Fate[i] = "refused"
      BY <1>1, <1>3 DEF Queued, Done, Clean, InStore
    <2>5. row[i].st = "discarded" => Fate[i] = "refused"
      BY <1>1, <1>3 DEF InStore
    <2>6. row[i].st = "restored" => Fate[i] = "review"
      BY <1>1, <1>3 DEF InStore
    <2>7. row[i].st = "unmade" => Fate[i] = "unmade"
      BY <1>1, <1>3 DEF InStore
    <2>8. row[i].st = "withdrawn" => Fate[i] = "withdrawn"
      BY <1>1, <1>3 DEF InStore
    <2> QED BY <1>3, <2>1, <2>2, <2>3, <2>4, <2>5, <2>6, <2>7, <2>8 DEF FateIs
  <1> QED BY <1>2, <1>3

LEMMA FatesNext == \A i \in Ops : FateIs(i)'
  <1>1. (\A i \in Ops : FateIs(i))'
    BY Fates, PTL
  <1> QED BY <1>1

\* Every row has a fate of the abstract specification.
LEMMA FateType ==
    ASSUME PInv
    PROVE  Fate \in [Ops -> Promise!Fates]
  <1> SUFFICES ASSUME NEW i \in Ops PROVE Fate[i] \in Promise!Fates
    BY DEF Fate
  <1>1. row[i].st \in Status /\ (row[i].st = "conflict" => ~Clean(i)) /\ FateIs(i)
    BY Fates DEF PInv, OInv, TypeOK, Row, KeptOK, Clean
  <1> QED BY <1>1 DEF FateIs, Queued, Done, Status, Promise!Fates

\* What the user and the queue do to a row is a move of the promise.
MoveOf(i) == \/ Fate'[i] = Fate[i]
             \/ <<Fate[i], Fate'[i]>> \in Promise!Moves \cup (IF applied[i] = 0 THEN {} ELSE Promise!Late)

LEMMA RowMoves ==
    ASSUME PInv, OInv', RowsStep, UNCHANGED serverVars, NEW i \in Ops
    PROVE  MoveOf(i)
  <1>1. /\ RowStep(i) /\ row[i] \in Row /\ KeptOK(i) /\ LedgerOK(i) /\ ledger' = ledger
        /\ epoch' = epoch /\ FateIs(i) /\ FateIs(i)' /\ applied[i] \in Nat
        /\ storeEpoch' <= epoch /\ storeEpoch' \in Nat /\ epoch \in Nat /\ row[i].epoch \in Nat
        /\ row[i].st \in Status /\ row'[i].st \in Status
    BY Fates, FatesNext, OutboxAssumption DEF PInv, OInv, TypeOK, Row, RowsStep, serverVars
  <1>2. CASE ledger[i] = "ack"
    BY <1>1, <1>2 DEF FateIs, MoveOf
  <1>3. CASE ledger[i] # "ack"
    <2>1. CASE Stays(i)
      <3>1. Fate'[i] = Fate[i]
        BY <1>1, <2>1 DEF Stays, Fate
      <3> QED BY <3>1 DEF MoveOf
    <2>2. CASE Left(i)
      <3>1. /\ row[i].st \in InStore /\ row[i].epoch # epoch
            /\ Moved(i, IF row[i].st = "acknowledged" THEN "retired" ELSE "restored")
        BY <1>1, <2>2, MovedRow
      <3>2. CASE row[i].st = "acknowledged"
        BY <1>1, <1>3, <3>1, <3>2 DEF Moved, FateIs, Done, Clean, MoveOf
      <3>3. CASE row[i].st # "acknowledged"
        <4>1. Fate[i] \in {"stale", "refused"} /\ Fate'[i] = "review"
          BY <1>1, <1>3, <3>1, <3>3 DEF Moved, FateIs, Queued, Clean, InStore, KeptOK
        <4> QED BY <4>1 DEF MoveOf, Promise!Moves
      <3> QED BY <3>2, <3>3
    <2>3. CASE Made1(i)
      <3>1. Fate[i] = "unmade" /\ Fate'[i] \in {"kept", "stale"}
        BY <1>1, <1>3, <2>3, MadeClean DEF FateIs, Queued, Clean
      <3> QED BY <3>1 DEF MoveOf, Promise!Moves
    <2>4. CASE Withdrawn(i)
      <3>1. Fate[i] \in {"kept", "stale"} /\ Fate'[i] = "withdrawn"
        BY <1>1, <1>3, <2>4, WithdrawnClean, MovedRow DEF FateIs, Queued, Clean, Moved
      <3> QED BY <3>1 DEF MoveOf, Promise!Moves
    <2>5. CASE Failed(i)
      <3>1. row'[i].st = "conflict" /\ row'[i].result = "dependency"
        BY <1>1, <2>5, RowFields DEF Failed
      <3>2. Fate[i] \in {"kept", "stale"} /\ Fate'[i] = "refused"
        BY <1>1, <1>3, <2>5, <3>1, FailedFirst DEF FateIs, Queued, Clean
      <3> QED BY <3>2 DEF MoveOf, Promise!Moves
    <2>6. CASE Discarded(i)
      <3>1. Fate[i] \in {"refused", "review"} /\ Fate'[i] = "refused"
        BY <1>1, <1>3, <2>6, MovedRow DEF FateIs, KeptOK, Clean, Moved
      <3> QED BY <3>1 DEF MoveOf, Promise!Moves
    <2>7. CASE Resumed(i)
      BY <1>1, <1>3, <2>7, MovedRow DEF FateIs, Queued, Clean, Moved, Alike, MoveOf
    <2>8. CASE Retired(i)
      BY <1>1, <1>3, <2>8, MovedRow DEF FateIs, Done, Clean, Moved, MoveOf
    <2>9. CASE PutBack(i)
      <3>1. CASE row'[i].st = "restored"
        <4>1. Fate[i] \in {"stale", "refused"} /\ Fate'[i] = "review"
          BY <1>1, <1>3, <2>9, <3>1 DEF PutBack, FateIs, Queued, Clean
        <4> QED BY <4>1 DEF MoveOf, Promise!Moves
      <3>2. CASE row'[i].st = "pending" /\ row[i].st = "syncing"
        BY <1>1, <1>3, <2>9, <3>2 DEF PutBack, FateIs, Queued, Clean, Alike, MoveOf
      <3>3. CASE row'[i].st = "pending" /\ row[i].st = "acknowledged" /\ ~Clean(i)
        BY <1>1, <1>3, <2>9, <3>3 DEF PutBack, FateIs, Queued, Done, Clean, MoveOf
      <3>4. CASE row'[i].st = "pending" /\ row[i].st = "acknowledged" /\ Clean(i)
        <4>1. row[i].epoch # epoch /\ applied[i] # 0
          BY <1>1, <1>3, <3>4 DEF PInv, OInv, Believed, KeptOK, Clean
        <4>2. Fate[i] = "undone" /\ Fate'[i] = "stale"
          BY <1>1, <1>3, <2>9, <3>4, <4>1 DEF PutBack, FateIs, Queued, Done, Clean, Alike
        <4> QED BY <4>1, <4>2 DEF MoveOf, Promise!Late
      <3> QED BY <2>9, <3>1, <3>2, <3>3, <3>4 DEF PutBack
    <2>10. CASE Taken(i)
      <3>1. /\ Alike(row[i], row'[i]) /\ row[i].st = "pending" /\ row'[i].st = "syncing"
            /\ row'[i].result = row[i].result
        BY <1>1, <2>10 DEF Taken, Row, Alike
      <3> QED BY <1>1, <1>3, <3>1 DEF FateIs, Queued, Clean, Alike, MoveOf
    <2>11. CASE Recorded(i)
      <3>1. CASE row'[i].result = "refusal"
        <4>1. Fate[i] \in {"kept", "stale", "refused"} /\ Fate'[i] = "refused"
          BY <1>1, <1>3, <2>11, <3>1 DEF Recorded, FateIs, Queued, Done, Clean
        <4> QED BY <4>1 DEF MoveOf, Promise!Moves
      <3>2. CASE row'[i].result # "refusal" /\ Clean(i)
        <4>1. row[i].epoch # epoch /\ applied[i] # 0 /\ row'[i].st = "acknowledged"
              /\ row'[i].result = "none" /\ row[i].st = "syncing"
          BY <1>1, <1>3, <2>11, <3>2 DEF Recorded, Clean
        <4>2. Fate[i] = "stale" /\ Fate'[i] = "undone"
          BY <1>1, <1>3, <3>2, <4>1 DEF FateIs, Queued, Done, Clean
        <4> QED BY <4>1, <4>2 DEF MoveOf, Promise!Late
      <3>3. CASE row'[i].result # "refusal" /\ ~Clean(i)
        <4>1. /\ row[i].st = "syncing" /\ row'[i].st = "acknowledged"
              /\ row'[i].result = row[i].result /\ ledger'[i] # "ack"
          BY <1>1, <1>3, <2>11, <3>3 DEF Recorded
        <4>2. Queued(i) /\ Done(i)' /\ ~Clean(i)'
          BY <3>3, <4>1 DEF Queued, Done, Clean
        <4>3. Fate[i] = "refused" /\ Fate'[i] = "refused"
          BY <1>1, <1>3, <3>3, <4>1, <4>2 DEF FateIs
        <4> QED BY <4>3 DEF MoveOf
      <3> QED BY <3>1, <3>2, <3>3
    <2> QED BY <1>1, <2>1, <2>2, <2>3, <2>4, <2>5, <2>6, <2>7, <2>8, <2>9, <2>10, <2>11 DEF RowStep
  <1> QED BY <1>2, <1>3

-----------------------------------------------------------------------------
(* The hands of the tabs *)

\* A tab that holds nothing.
LEMMA HandIdle ==
    ASSUME NEW s \in Tabs, tab'[s].st \in {"closed", "idle", "loop"}
    PROVE  HandOK(s)'
  BY DEF HandOK, HeldOK, AnswerOK, Undecided, Busy

SameHand(s) == /\ tab'[s].st = tab[s].st /\ tab'[s].op = tab[s].op
               /\ tab'[s].prior = tab[s].prior /\ tab'[s].nr = tab[s].nr
               /\ tab'[s].answer = tab[s].answer

\* What may happen to an operation in a tab's hands that goes on with it.
HandStep(i) == Stays(i) \/ Left(i) \/ Discarded(i) \/ Withdrawn(i)

\* What an operation in hand waits for stays.
LEMMA SendableStays ==
    ASSUME PInv, OInv', RowsStep, HandsOn, \A j \in Ops : ~Retired(j),
           NEW i \in Ops, Alike(row[i], row'[i]), row[i].epoch = storeEpoch', Sendable(i)
    PROVE  Sendable(i)'
  <1> SUFFICES ASSUME NEW d \in row'[i].deps
               PROVE  /\ row'[d].st = "acknowledged" /\ row'[d].result = "none"
                      /\ \A t \in Tabs : ~(Busy(t)' /\ tab'[t].op = d)
    BY DEF Sendable
  <1>1. /\ d \in row[i].deps /\ row[d].st = "acknowledged" /\ row[d].result = "none"
        /\ \A t \in Tabs : ~(Busy(t) /\ tab[t].op = d)
    BY DEF Sendable, Alike
  <1>2. /\ d \in Ops /\ row[d].epoch = row[i].epoch /\ row[d] \in Row /\ storeEpoch' \in Nat
    BY <1>1, OutboxAssumption DEF PInv, OInv, TypeOK, Row, DepsMade
  <1>3. RowStep(d)
    BY <1>2 DEF RowsStep
  <1>4. ~Left(d)
    BY <1>2, MovedRow
  <1>5. ~Made1(d) /\ ~Withdrawn(d) /\ ~Discarded(d) /\ ~Failed(d) /\ ~Resumed(d)
    BY <1>1 DEF Made1, Begun, Withdrawn, NeverSent, Discarded, Failed, Resumed
  <1>6. ~PutBack(d) /\ ~Taken(d) /\ ~Recorded(d)
    BY <1>1 DEF PutBack, Taken, Recorded
  <1>7. row'[d] = row[d]
    BY <1>2, <1>3, <1>4, <1>5, <1>6 DEF RowStep, Stays
  <1> QED BY <1>1, <1>7 DEF HandsOn

\* A tab that keeps what it holds, while others change the rows.
LEMMA HandStays ==
    ASSUME PInv, OInv', RowsStep, HandsOn, UNCHANGED serverVars, wire' \subseteq wire,
           \A j \in Ops : ~Retired(j), NEW s \in Tabs, SameHand(s),
           Busy(s) => HandStep(tab[s].op)
    PROVE  HandOK(s)'
  <1>1. CASE ~Busy(s)
    <2>1. tab[s] \in Tab /\ tab'[s].st = tab[s].st
      BY DEF PInv, OInv, TypeOK, SameHand
    <2>2. tab'[s].st \in {"closed", "idle", "loop"}
      BY <1>1, <2>1 DEF Busy, Tab
    <2> QED BY <2>2, HandIdle
  <1>2. CASE Busy(s)
    <2>0. PICK i \in Ops : i = tab[s].op
      BY <1>2 DEF PInv, OInv, AboutMade
    <2>1. /\ HandOK(s) /\ i \in Ops /\ row[i] \in Row /\ HandStep(i) /\ tab'[s].op = i
          /\ ledger' = ledger /\ applied' = applied /\ row[i].epoch \in Nat
          /\ storeEpoch \in Nat /\ storeEpoch' \in Nat /\ storeEpoch <= storeEpoch'
      BY <1>2, <2>0, OutboxAssumption DEF PInv, OInv, TypeOK, Row, SameHand, RowsStep,
         serverVars
    <2>2. /\ Alike(row[i], row'[i]) /\ row'[i].attempts = row[i].attempts
          /\ row'[i].result = row[i].result
      <3>1. CASE Stays(i)
        BY <3>1 DEF Stays, Alike
      <3>2. CASE ~Stays(i)
        BY <2>1, <3>2, MovedRow DEF HandStep, Moved
      <3> QED BY <3>1, <3>2
    <2>3. tab[s].st \in {"claimed", "sent", "answered"} =>
             \/ row'[i].st = "syncing"
             \/ row'[i].st \in {"restored", "discarded"} /\ row'[i].epoch < storeEpoch'
      <3> SUFFICES ASSUME tab[s].st \in {"claimed", "sent", "answered"}
                   PROVE  \/ row'[i].st = "syncing"
                          \/ row'[i].st \in {"restored", "discarded"} /\ row'[i].epoch < storeEpoch'
        OBVIOUS
      <3>1. \/ row[i].st = "syncing"
            \/ row[i].st \in {"restored", "discarded"} /\ row[i].epoch < storeEpoch
        BY <2>0, <2>1 DEF HandOK, HeldOK
      <3>2. CASE Stays(i)
        BY <2>1, <3>1, <3>2 DEF Stays
      <3>3. CASE Left(i)
        BY <2>1, <2>2, <3>1, <3>3, MovedRow DEF Moved, Alike
      <3>4. CASE Discarded(i)
        BY <2>1, <2>2, <3>1, <3>4, MovedRow DEF Moved, Alike
      <3>5. ~Withdrawn(i)
        BY <1>2, <2>0, <2>1, <3>1, WithdrawnClean
      <3> QED BY <2>1, <3>2, <3>3, <3>4, <3>5 DEF HandStep
    <2>4. tab[s].st = "settled" =>
             \/ row'[i].st = "acknowledged"
             \/ row'[i].st = "retired" /\ row'[i].epoch < storeEpoch'
      <3> SUFFICES ASSUME tab[s].st = "settled"
                   PROVE  \/ row'[i].st = "acknowledged"
                          \/ row'[i].st = "retired" /\ row'[i].epoch < storeEpoch'
        OBVIOUS
      <3>1. \/ row[i].st = "acknowledged"
            \/ row[i].st = "retired" /\ row[i].epoch < storeEpoch
        BY <2>0, <2>1 DEF HandOK, HeldOK
      <3>2. CASE Stays(i)
        BY <2>1, <3>1, <3>2 DEF Stays
      <3>3. CASE Left(i)
        BY <2>1, <2>2, <3>1, <3>3, MovedRow DEF Moved, Alike, InStore
      <3>4. ~Discarded(i) /\ ~Withdrawn(i)
        BY <2>1, <3>1, MovedRow, WithdrawnClean
      <3> QED BY <2>1, <3>2, <3>3, <3>4 DEF HandStep
    <2>5. HeldOK(s)'
      BY <2>0, <2>1, <2>2, <2>3, <2>4 DEF HandOK, HeldOK, SameHand
    <2>6. AnswerOK(s)'
      BY <2>0, <2>1, <2>2 DEF HandOK, AnswerOK, Undecided, SameHand, Alike
    <2>7. row'[i].st \in InStore => Sendable(i)'
      <3> SUFFICES ASSUME row'[i].st \in InStore PROVE Sendable(i)'
        OBVIOUS
      <3>1. ~Left(i) /\ ~Discarded(i) /\ ~Withdrawn(i)
        BY <2>1, MovedRow DEF Moved, InStore
      <3>2. row[i].st \in InStore /\ row[i].epoch = storeEpoch'
        BY <2>1, <3>1 DEF HandStep, Stays
      <3>3. Sendable(i)
        BY <1>2, <2>0, <2>1, <3>2 DEF HandOK
      <3> QED BY <2>1, <2>2, <3>2, <3>3, SendableStays
    <2> QED BY <2>0, <2>1, <2>5, <2>6, <2>7 DEF HandOK
  <1> QED BY <1>1, <1>2

-----------------------------------------------------------------------------
(* What a step has to keep *)

Promised == PInv' /\ [Promise!Next]_<<Fate, applied>>

FateOK == Fate \in [Ops -> Promise!Fates]

LEMMA FateTypeNext == PInv' => Fate' \in [Ops -> Promise!Fates]
  <1>1. PInv => FateOK
    BY FateType DEF FateOK
  <1>2. PInv' => FateOK'
    BY <1>1, PTL
  <1>3. FateOK' => Fate' \in [Ops -> Promise!Fates]
    BY DEF FateOK, Promise!Fates
  <1> QED BY <1>2, <1>3

\* A step of the queue, which the server has no part in.
LEMMA QueueStep ==
    ASSUME PInv, OInv', RowsStep, HandsOn, UNCHANGED serverVars, wire' \subseteq wire,
           OneDrain', \A t \in Tabs : HandOK(t)'
    PROVE  Promised
  <1>1. \A i \in Ops : LedgerOK(i)' /\ KeptOK(i)' /\ WaitOK(i)'
    BY LedgerNext, KeptNext, WaitNext
  <1>2. \A c \in wire' : CopyOK(c)'
    BY CopyNext
  <1>3. PInv'
    BY <1>1, <1>2 DEF PInv
  <1>4. Fate' \in [Ops -> Promise!Fates]
    BY <1>3, FateTypeNext
  <1>5. \A i \in Ops : MoveOf(i)
    BY RowMoves
  <1>6. applied' = applied
    BY DEF serverVars
  <1>7. Promise!Shift(Promise!Moves)
    BY <1>4, <1>5, <1>6 DEF Promise!Shift, MoveOf
  <1> QED BY <1>3, <1>7 DEF Promised, Promise!Next

\* No tab but t has anything in hand, or moves.
Alone(t) == \A s \in Tabs \ {t} : ~Running(s) /\ tab'[s] = tab[s]

LEMMA AloneHands ==
    ASSUME PInv, NEW t \in Tabs, Alone(t), HandOK(t)'
    PROVE  /\ OneDrain' /\ \A s \in Tabs : HandOK(s)'
           /\ \A s \in Tabs \ {t} : ~Busy(s)'
  <1>1. ASSUME NEW s \in Tabs \ {t}
        PROVE  ~Running(s)' /\ ~Busy(s)' /\ HandOK(s)'
    <2>1. tab[s] \in Tab /\ ~Running(s) /\ tab'[s] = tab[s]
      BY DEF PInv, OInv, TypeOK, Alone
    <2>2. tab'[s].st \in {"closed", "idle"}
      BY <2>1 DEF Running, Tab
    <2> QED BY <2>2, HandIdle DEF Running, Busy
  <1> QED BY <1>1 DEF OneDrain

\* Only one tab drains.
LEMMA AloneRunning ==
    ASSUME PInv, NEW t \in Tabs, Running(t), \A s \in Tabs \ {t} : tab'[s] = tab[s]
    PROVE  Alone(t)
  BY DEF PInv, OneDrain, Alone

\* A step that leaves the rows alone.
LEMMA SameRows ==
    ASSUME PInv, UNCHANGED <<row, storeEpoch>>
    PROVE  RowsStep /\ \A j \in Ops : Stays(j) /\ ~Retired(j)
  <1>1. ASSUME NEW j \in Ops
        PROVE  /\ Stays(j) /\ ~Withdrawn(j) /\ ~Discarded(j) /\ ~Retired(j)
    <2>1. Stays(j)
      BY DEF PInv, OInv, Epochs, Stays
    <2> QED BY <2>1, MovedRow DEF Moved, Stays, Withdrawn, NeverSent
  <1>2. row' \in [Ops -> Row] /\ storeEpoch <= storeEpoch' /\ storeEpoch' <= epoch
    BY OutboxAssumption DEF PInv, OInv, TypeOK, Epochs
  <1> QED BY <1>1, <1>2 DEF RowsStep, RowStep

\* Nothing leaves the queue but for the review list.
LEMMA CalmRows ==
    ASSUME PInv, row' \in [Ops -> Row], storeEpoch <= storeEpoch', storeEpoch' <= epoch,
           storeEpoch' \in Nat,
           \A j \in Ops : \/ Stays(j) \/ Left(j) \/ Resumed(j) \/ Failed(j)
                          \/ PutBack(j) \/ Taken(j) \/ Recorded(j)
    PROVE  RowsStep /\ \A j \in Ops : ~Retired(j)
  <1>1. ASSUME NEW j \in Ops
        PROVE  ~Withdrawn(j) /\ ~Discarded(j) /\ ~Retired(j)
    <2>1. row[j] \in Row /\ row[j].epoch \in Nat
      BY DEF PInv, OInv, TypeOK, Row
    <2>2. CASE Stays(j)
      BY <2>2, MovedRow DEF Moved, Stays, Withdrawn, NeverSent
    <2>3. CASE Left(j)
      BY <2>1, <2>3, MovedRow DEF Moved, Withdrawn, Retired, InStore
    <2>4. CASE Resumed(j)
      BY <2>4, MovedRow DEF Moved
    <2>5. CASE Failed(j)
      BY <2>1, <2>5, RowFields, MovedRow DEF Moved, Failed
    <2>6. CASE PutBack(j)
      BY <2>6, MovedRow DEF Moved, PutBack, Withdrawn, NeverSent
    <2>7. CASE Taken(j)
      BY <2>1, <2>7, MovedRow, Zenon DEF Moved, Taken, Row
    <2>8. CASE Recorded(j)
      BY <2>8, MovedRow DEF Moved, Recorded
    <2> QED BY <2>2, <2>3, <2>4, <2>5, <2>6, <2>7, <2>8
  <1> QED BY <1>1 DEF RowsStep, RowStep

-----------------------------------------------------------------------------
(* The user's steps *)

\* The rows of an intent: what it makes of each, and that nothing waits for
\* what it takes away.
UserRows == \A i \in Ops :
    /\ Stays(i) \/ Left(i) \/ Made1(i) \/ Withdrawn(i) \/ Failed(i) \/ Discarded(i)
    /\ Withdrawn(i) \/ Discarded(i) => Unawaited(i)'

LEMMA UserStep ==
    ASSUME PInv, OInv', row' \in [Ops -> Row], storeEpoch <= storeEpoch', storeEpoch' <= epoch,
           UserRows, UNCHANGED <<serverVars, tab, wire>>
    PROVE  Promised
  <1>1. ASSUME NEW i \in Ops PROVE ~Retired(i)
    <2>1. row[i] \in Row /\ storeEpoch' \in Nat /\ row[i].epoch \in Nat
      BY OutboxAssumption DEF PInv, OInv, TypeOK, Row
    <2> SUFFICES ASSUME Retired(i) PROVE FALSE
      OBVIOUS
    <2>2. row[i].st = "acknowledged" /\ row[i].epoch = storeEpoch' /\ row'[i].st = "retired"
      BY MovedRow DEF Retired, Moved
    <2>3. ~Left(i)
      BY <2>1, <2>2 DEF Left
    <2> QED BY <2>2, <2>3 DEF UserRows, Stays, Made1, Begun, Withdrawn, NeverSent, Failed, Discarded
  <1>2. RowsStep
    BY <1>1 DEF RowsStep, RowStep, UserRows
  <1>3. HandsOn
    BY DEF HandsOn, Busy
  <1>4. ASSUME NEW s \in Tabs PROVE HandOK(s)'
    <2>1. ASSUME Busy(s) PROVE HandStep(tab[s].op)
      <3>1. PICK i \in Ops : i = tab[s].op /\ row[i].st # "unmade"
        BY <2>1 DEF PInv, OInv, AboutMade
      <3>2. ~Made1(i) /\ ~Failed(i)
        BY <2>1, <3>1, FailedFirst DEF Made1, Begun
      <3> QED BY <3>1, <3>2 DEF UserRows, HandStep
    <2> QED BY <1>1, <1>2, <1>3, <2>1, HandStays DEF SameHand
  <1>5. OneDrain'
    BY DEF PInv, OneDrain, Running
  <1> QED BY <1>2, <1>3, <1>4, <1>5, QueueStep

\* What waits for row i after an intent waited for it before, or was begun
\* and then waits for what is in the queue.
LEMMA UserWaits ==
    ASSUME PInv, NEW t \in Tabs, Intended(t), NEW i \in Ops, row'[i].st \notin InStore,
           NEW k \in Ops, row'[k].st \in {"pending", "syncing"}, i \in row'[k].deps
    PROVE  Stays(k) /\ row[k].epoch = storeEpoch' /\ row'[k] = row[k]
  <1>1. /\ Stays(k) \/ Left(k) \/ Begun(t, k) \/ Withdrawn(k) \/ Failed(k) \/ Discarded(k)
        /\ row[k] \in Row /\ storeEpoch' = tab[t].page
    BY DEF Intended, PInv, OInv, TypeOK
  <1>2. ~Left(k) /\ ~Withdrawn(k) /\ ~Discarded(k)
    BY MovedRow DEF Moved
  <1>3. ~Failed(k)
    BY <1>1, RowFields DEF Failed
  <1>4. ~Begun(t, k)
    <2> SUFFICES ASSUME Begun(t, k) PROVE FALSE
      OBVIOUS
    <2>1. Made1(k)
      BY <1>1 DEF Made1
    <2> QED BY <2>1, MadeClean
  <1>5. Stays(k)
    BY <1>1, <1>2, <1>3, <1>4
  <1> QED BY <1>5 DEF Stays, InStore

\* The rows an intent starts from are those it finds, but for what it moves out.
LEMMA FoundRows ==
    ASSUME PInv, NEW t \in Tabs, MayIntend(t), storeEpoch' = tab[t].page
    PROVE  /\ RowsFor(t) \in [Ops -> Row] /\ row \in [Ops -> Row]
           /\ \A i \in Ops : /\ row[i].epoch = storeEpoch' => RowsFor(t)[i] = row[i]
                             /\ RowsFor(t)[i].st \in InStore => RowsFor(t)[i] = row[i]
                             /\ \/ RowsFor(t)[i] = row[i]
                                \/ RowsFor(t)[i].st \in {"retired", "restored"}
  <1>1. TypeOK /\ Epochs /\ row \in [Ops -> Row] /\ storeEpoch' \in Nat
    BY OutboxAssumption DEF PInv, OInv, TypeOK, Tab
  <1> DEFINE rows == RowsFor(t)
  <1>2. /\ rows \in [Ops -> Row]
        /\ \A i \in Ops : /\ rows[i].st \in InStore => rows[i] = row[i]
                          /\ \/ rows[i] = row[i]
                             \/ /\ row[i].st \in InStore /\ row[i].epoch < storeEpoch'
                                /\ rows[i] = [row[i] EXCEPT !.st =
                                     IF row[i].st = "acknowledged" THEN "retired" ELSE "restored"]
    BY <1>1, RowsForRows
  <1> HIDE DEF rows
  <1>3. ASSUME NEW i \in Ops
        PROVE  /\ [row[i] EXCEPT !.st = "retired"].st = "retired"
               /\ [row[i] EXCEPT !.st = "restored"].st = "restored"
    BY <1>1, RowFields DEF Status
  <1>4. ASSUME NEW i \in Ops
        PROVE  /\ row[i].epoch = storeEpoch' => rows[i] = row[i]
               /\ rows[i] = row[i] \/ rows[i].st \in {"retired", "restored"}
    <2>1. row[i].epoch = storeEpoch' => ~(row[i].epoch < storeEpoch')
      BY <1>1
    <2>2. CASE rows[i] = row[i]
      BY <2>2
    <2>3. CASE rows[i] # row[i]
      <3>1. /\ row[i].epoch < storeEpoch'
            /\ \/ rows[i] = [row[i] EXCEPT !.st = "retired"]
               \/ rows[i] = [row[i] EXCEPT !.st = "restored"]
        BY <1>2, <2>3
      <3> QED BY <1>3, <2>1, <3>1
    <2> QED BY <2>2, <2>3
  <1> QED BY <1>1, <1>2, <1>4 DEF rows

\* An intent under which nothing that stays waits for what it takes away.
LEMMA IntentStep ==
    ASSUME PInv, OInv', NEW t \in Tabs, Intended(t), UNCHANGED <<serverVars, tab, wire>>,
           \A i, k \in Ops : /\ Withdrawn(i) \/ Discarded(i)
                             /\ row[k].st \in {"pending", "syncing"} /\ i \in row[k].deps
                             /\ row[k].epoch = storeEpoch'
                             => row'[k] # row[k]
    PROVE  Promised
  <1>1. row' \in [Ops -> Row] /\ storeEpoch <= storeEpoch' /\ storeEpoch' = tab[t].page
    BY DEF Intended
  <1>2. storeEpoch' <= epoch
    BY IntendedEdited DEF PInv, RowsEdited
  <1>3. ASSUME NEW i \in Ops, Withdrawn(i) \/ Discarded(i) PROVE Unawaited(i)'
    <2>1. row'[i].st \notin InStore
      BY <1>3, MovedRow DEF Moved, InStore
    <2> SUFFICES ASSUME NEW k \in Ops, row'[k].st \in {"pending", "syncing"}, i \in row'[k].deps
                 PROVE  FALSE
      BY DEF Unawaited
    <2>2. row[k].epoch = storeEpoch' /\ row'[k] = row[k]
      BY <2>1, UserWaits
    <2> QED BY <1>3, <2>2
  <1>4. UserRows
    BY <1>1, <1>3 DEF UserRows, Intended, Made1
  <1> QED BY <1>1, <1>2, <1>4, UserStep

LEMMA CreateStep ==
    ASSUME PInv, OInv', NEW t \in Tabs, Create(t)
    PROVE  Promised
  <1>1. /\ MayIntend(t) /\ row[1].st = "unmade" /\ storeEpoch' = tab[t].page /\ 1 \in Ops
        /\ UNCHANGED <<serverVars, tab, wire>>
    BY OutboxAssumption DEF Create, Intend, Ops
  <1>2. Intended(t)
    BY CreateRows DEF PInv, OInv
  <1>3. PICK valid \in BOOLEAN : row' = [RowsFor(t) EXCEPT ![1] = Made(t, "create", {}, valid)]
    BY DEF Create, Intend
  <1>4. ASSUME NEW i \in Ops, Withdrawn(i) \/ Discarded(i) PROVE FALSE
    <2>1. i # 1 /\ row'[i].st \in {"withdrawn", "discarded"} /\ row[i].st # row'[i].st
      BY <1>1, <1>4, MovedRow DEF Moved, Withdrawn, NeverSent, Discarded
    <2>2. row'[i] = RowsFor(t)[i]
      BY <1>1, <1>3, <2>1, FoundRows
    <2> QED BY <1>1, <2>1, <2>2, FoundRows
  <1> QED BY <1>1, <1>2, <1>4, IntentStep

\* The rows of an edit: a field withdrawn is not one a creation or a field
\* waits for.
LEMMA SaveFieldStep ==
    ASSUME PInv, OInv', NEW t \in Tabs, SaveField(t)
    PROVE  Promised
  <1> DEFINE rows == RowsFor(t)
             old  == Of(rows, "field")
             left == [i \in Ops |-> IF i \in old THEN [rows[i] EXCEPT !.st = "withdrawn"] ELSE rows[i]]
             new  == Made(t, "field", Creation(rows), TRUE)
  <1>1. /\ MayIntend(t) /\ storeEpoch' = tab[t].page /\ UNCHANGED <<serverVars, tab, wire>>
        /\ Of(rows, "delete") = {}
        /\ \/ Room /\ row' = [left EXCEPT ![NextOp] = new]
           \/ row' = left
    BY DEF SaveField, Intend
  <1>2. Intended(t)
    BY SaveFieldRows DEF PInv, OInv
  <1>3. /\ rows \in [Ops -> Row] /\ row \in [Ops -> Row]
        /\ \A i \in Ops : /\ row[i].epoch = storeEpoch' => rows[i] = row[i]
                          /\ rows[i].st \in InStore => rows[i] = row[i]
                          /\ rows[i] = row[i] \/ rows[i].st \in {"retired", "restored"}
    BY <1>1, FoundRows
  <1>4. old \subseteq Ops /\ \A i \in old : rows[i].kind = "field"
    BY DEF Of, Stored
  <1>5. \A k \in Ops : rows[k].st \in {"pending", "syncing"} => rows[k].kind # "delete"
    BY <1>1 DEF Of, Stored, InStore
  <1> HIDE DEF rows, old, new
  <1>6. ASSUME NEW i \in Ops, row[i].st # "unmade" PROVE row'[i] = left[i]
    BY <1>1, <1>3, <1>6, NextOpFree
  <1>7. ASSUME NEW i \in Ops, Withdrawn(i) \/ Discarded(i) PROVE row[i].kind = "field"
    <2>1. /\ row'[i].st \in {"withdrawn", "discarded"} /\ row[i].st # row'[i].st
          /\ row[i].st # "unmade" /\ row'[i].kind = row[i].kind
      BY <1>7, MovedRow DEF Moved, Alike, Withdrawn, NeverSent, Discarded
    <2>2. i \in old
      BY <1>3, <1>6, <2>1
    <2>3. row'[i] = [rows[i] EXCEPT !.st = "withdrawn"] /\ rows[i] \in Row
      BY <1>3, <1>6, <2>1, <2>2
    <2>4. row'[i].kind = rows[i].kind
      BY <2>3 DEF Row
    <2> QED BY <1>4, <2>1, <2>2, <2>4
  <1>8. ASSUME NEW i \in Ops, NEW k \in Ops, Withdrawn(i) \/ Discarded(i),
               row[k].st \in {"pending", "syncing"}, i \in row[k].deps, row[k].epoch = storeEpoch'
        PROVE  FALSE
    <2>1. row[i].kind = "field"
      BY <1>7, <1>8
    <2>2. row[k].kind # "delete" /\ row[k].kind \in Kinds /\ WaitOK(k)
      BY <1>3, <1>5, <1>8 DEF Row, PInv
    <2> QED BY <1>8, <2>1, <2>2 DEF WaitOK, Kinds
  <1> QED BY <1>1, <1>2, <1>8, IntentStep

\* A creation is folded away only with everything that waits for it.
LEMMA DeleteStep ==
    ASSUME PInv, OInv', NEW t \in Tabs, Delete(t)
    PROVE  Promised
  <1> DEFINE rows == RowsFor(t)
             mine == Of(rows, "create") \cup Of(rows, "field")
             away == {i \in mine : Coalescable(rows[i])}
             fold == Of(rows, "create") # {} /\ away = mine
             gone == IF fold THEN mine ELSE {i \in away : rows[i].kind # "create"}
             left == [i \in Ops |-> IF i \in gone THEN [rows[i] EXCEPT !.st = "withdrawn"] ELSE rows[i]]
             new  == Made(t, "delete", mine \ gone, TRUE)
  <1>1. /\ MayIntend(t) /\ storeEpoch' = tab[t].page /\ UNCHANGED <<serverVars, tab, wire>>
        /\ Of(rows, "delete") = {}
        /\ \/ Room /\ row' = [left EXCEPT ![NextOp] = new]
           \/ row' = left
    BY DEF Delete, Intend
  <1>2. Intended(t)
    BY DeleteRows DEF PInv, OInv
  <1>3. /\ rows \in [Ops -> Row] /\ row \in [Ops -> Row]
        /\ \A i \in Ops : /\ row[i].epoch = storeEpoch' => rows[i] = row[i]
                          /\ rows[i].st \in InStore => rows[i] = row[i]
                          /\ rows[i] = row[i] \/ rows[i].st \in {"retired", "restored"}
    BY <1>1, FoundRows
  <1>4. /\ mine = {i \in Ops : /\ rows[i].st \in InStore /\ rows[i].kind \in {"create", "field"}
                               /\ rows[i].st # "acknowledged"}
        /\ gone \subseteq mine
        /\ \A i \in gone : rows[i].kind = "create" => gone = mine
    BY DEF Of, Stored
  <1>5. \A k \in Ops : rows[k].st \in {"pending", "syncing"} => rows[k].kind # "delete"
    BY <1>1 DEF Of, Stored, InStore
  <1> HIDE DEF rows, mine, gone, new
  <1>6. ASSUME NEW i \in Ops, row[i].st # "unmade" PROVE row'[i] = left[i]
    BY <1>1, <1>3, <1>6, NextOpFree
  <1>7. ASSUME NEW i \in Ops, Withdrawn(i) \/ Discarded(i)
        PROVE  i \in gone /\ rows[i] = row[i]
    <2>1. /\ row'[i].st \in {"withdrawn", "discarded"} /\ row[i].st # row'[i].st
          /\ row[i].st # "unmade"
      BY <1>7, MovedRow DEF Moved, Withdrawn, NeverSent, Discarded
    <2>2. i \in gone
      BY <1>3, <1>6, <2>1
    <2> QED BY <1>3, <1>4, <2>2
  <1>8. ASSUME NEW i \in Ops, NEW k \in Ops, Withdrawn(i) \/ Discarded(i),
               row[k].st \in {"pending", "syncing"}, i \in row[k].deps, row[k].epoch = storeEpoch',
               row'[k] = row[k]
        PROVE  FALSE
    <2>1. i \in gone /\ rows[i] = row[i]
      BY <1>7, <1>8
    <2>2. rows[k] = row[k] /\ row[k].kind # "delete" /\ row[k].kind \in Kinds /\ WaitOK(k)
      BY <1>3, <1>5, <1>8 DEF Row, PInv
    <2>3. row[k].kind = "field" /\ row[i].kind = "create"
      BY <1>8, <2>2 DEF WaitOK, Kinds
    <2>4. k \in gone
      BY <1>4, <1>8, <2>1, <2>2, <2>3 DEF InStore
    <2>5. row'[k] = [rows[k] EXCEPT !.st = "withdrawn"]
      BY <1>6, <1>8, <2>4
    <2>6. row'[k].st = "withdrawn"
      BY <1>3, <2>5, RowFields DEF Status
    <2> QED BY <1>8, <2>6
  <1> QED BY <1>1, <1>2, <1>8, IntentStep

\* What waits for a conflict the user gives up fails with it.
LEMMA DiscardStep ==
    ASSUME PInv, OInv', NEW t \in Tabs, NEW i \in Ops, Discard(t, i)
    PROVE  Promised
  <1> DEFINE rows == RowsFor(t)
             left == DependentsFailed(rows, i)
  <1>1. /\ MayIntend(t) /\ storeEpoch' = tab[t].page /\ UNCHANGED <<serverVars, tab, wire>>
        /\ row' = [left EXCEPT ![i].st = "discarded"] /\ rows[i].st = "conflict"
    BY DEF Discard, Intend
  <1>2. Intended(t)
    BY DiscardRows DEF PInv, OInv
  <1>3. /\ rows \in [Ops -> Row] /\ row \in [Ops -> Row]
        /\ \A j \in Ops : /\ row[j].epoch = storeEpoch' => rows[j] = row[j]
                          /\ rows[j] = row[j] \/ rows[j].st \in {"retired", "restored"}
    BY <1>1, FoundRows
  <1> HIDE DEF rows
  <1>4. /\ left \in [Ops -> Row]
        /\ \A j \in Ops : left[j] = rows[j] \/ left[j] = FailedRow(rows[j])
        /\ \A j \in Ops \ {i} : rows[j].st \in {"pending", "syncing"} /\ i \in rows[j].deps
                 => left[j] = FailedRow(rows[j])
    BY <1>3, DependentsFailedRows
  <1> HIDE DEF left
  <1>5. \A j \in Ops \ {i} : row'[j] = left[j]
    BY <1>1, <1>4
  <1>6. ASSUME NEW j \in Ops, Withdrawn(j) \/ Discarded(j) PROVE j = i
    <2>1. /\ row'[j].st \in {"withdrawn", "discarded"} /\ row[j].st # row'[j].st
      BY <1>6, MovedRow DEF Moved, Withdrawn, NeverSent, Discarded
    <2> SUFFICES ASSUME j # i PROVE FALSE
      OBVIOUS
    <2>2. row'[j] = rows[j] \/ row'[j] = FailedRow(rows[j])
      BY <1>4, <1>5
    <2>3. row'[j] # FailedRow(rows[j])
      BY <1>3, <2>1, RowFields
    <2> QED BY <1>3, <2>1, <2>2, <2>3
  <1>7. ASSUME NEW k \in Ops, row[k].st \in {"pending", "syncing"}, i \in row[k].deps,
               row[k].epoch = storeEpoch'
        PROVE  row'[k] # row[k]
    <2>1. rows[k] = row[k] /\ k # i
      BY <1>3, <1>7 DEF PInv, OInv, DepsMade
    <2>2. row'[k] = FailedRow(row[k]) /\ row[k] \in Row
      BY <1>3, <1>4, <1>5, <1>7, <2>1
    <2>3. row'[k].st = "conflict"
      BY <2>2, RowFields
    <2> QED BY <1>7, <2>3
  <1> QED BY <1>1, <1>2, <1>6, <1>7, IntentStep

\* Nothing of the queue waits for what a restore moved out of it.
LEMMA DiscardRestoredStep ==
    ASSUME PInv, OInv', NEW t \in Tabs, NEW i \in Ops, DiscardRestored(t, i)
    PROVE  Promised
  <1>1. /\ row[i].st = "restored" /\ row' = [row EXCEPT ![i].st = "discarded"]
        /\ UNCHANGED <<serverVars, tab, wire, storeEpoch>>
    BY DEF DiscardRestored
  <1>2. row \in [Ops -> Row] /\ row' \in [Ops -> Row] /\ storeEpoch <= epoch /\ storeEpoch \in Nat
    BY OutboxAssumption DEF PInv, OInv, TypeOK, Epochs
  <1>3. row'[i] = [row[i] EXCEPT !.st = "discarded"] /\ \A j \in Ops \ {i} : row'[j] = row[j]
    BY <1>1, <1>2
  <1>4. Discarded(i)
    BY <1>1, <1>3 DEF Discarded
  <1>5. ASSUME NEW j \in Ops \ {i} PROVE Stays(j) /\ ~Withdrawn(j) /\ ~Discarded(j)
    <2>1. Stays(j)
      BY <1>1, <1>3 DEF Stays, PInv, OInv, Epochs
    <2> QED BY <2>1, MovedRow DEF Stays, Moved, Withdrawn, NeverSent
  <1>6. Unawaited(i)'
    <2> SUFFICES ASSUME NEW k \in Ops, row'[k].st \in {"pending", "syncing"}, i \in row'[k].deps
                 PROVE  FALSE
      BY DEF Unawaited
    <2>1. k # i
      BY <1>4, MovedRow DEF Moved
    <2>2. row'[k] = row[k] /\ WaitOK(k)
      BY <1>3, <2>1 DEF PInv
    <2> QED BY <1>1, <2>2 DEF WaitOK, InStore
  <1>7. UserRows
    BY <1>4, <1>5, <1>6 DEF UserRows
  <1> QED BY <1>1, <1>2, <1>7, UserStep

-----------------------------------------------------------------------------
(* The steps of a page and of its drain *)

\* A page opens, dies, reads its session or ends its drain.
LEMMA PageStep ==
    ASSUME PInv, OInv', NEW t \in Tabs, Start(t) \/ Crash(t) \/ Verify(t) \/ Rest(t)
    PROVE  Promised
  <1>1. UNCHANGED <<serverVars, row, storeEpoch, wire>> /\ \A s \in Tabs \ {t} : tab'[s] = tab[s]
    BY PageKeeps DEF Start, Crash, Verify, Rest, PInv
  <1>2. RowsStep /\ \A j \in Ops : Stays(j) /\ ~Retired(j)
    BY <1>1, SameRows
  <1>3. tab[t] \in Tab /\ tab \in [Tabs -> Tab] /\ TypeOK /\ epoch \in 0..MaxEpoch
    BY OutboxAssumption DEF PInv, OInv, TypeOK
  <1>4. SameHand(t) \/ tab'[t].st \in {"closed", "idle"}
    <2>1. CASE Start(t)
      BY <1>3, <2>1, OpenedTab DEF Start
    <2>2. CASE Crash(t)
      BY <1>3, <2>2, OpenedTab DEF Crash
    <2>3. CASE Verify(t)
      <3>1. tab'[t] = [tab[t] EXCEPT !.latest = epoch]
        BY <1>3, <2>3 DEF Verify
      <3> QED BY <1>3, <3>1 DEF SameHand, Tab
    <2>4. CASE Rest(t)
      BY <1>3, <2>4, FreeTab DEF Rest
    <2> QED BY <2>1, <2>2, <2>3, <2>4
  <1>5. ASSUME NEW s \in Tabs
        PROVE  SameHand(s) \/ tab'[s].st \in {"closed", "idle"}
    BY <1>1, <1>4 DEF SameHand
  <1>6. HandsOn
    BY <1>5 DEF HandsOn, SameHand, Busy
  <1>7. \A s \in Tabs : Running(s)' => Running(s)
    BY <1>5 DEF SameHand, Running
  <1>8. OneDrain'
    BY <1>7 DEF PInv, OneDrain
  <1>9. ASSUME NEW s \in Tabs PROVE HandOK(s)'
    <2>1. Busy(s) => HandStep(tab[s].op)
      BY <1>2 DEF HandStep, PInv, OInv, AboutMade
    <2> QED BY <1>1, <1>2, <1>5, <1>6, <2>1, HandStays, HandIdle
  <1> QED BY <1>1, <1>2, <1>6, <1>8, <1>9, QueueStep

\* What is picked waits for nothing, and nothing that was sent waits for it.
LEMMA PickStep ==
    ASSUME PInv, OInv', NEW t \in Tabs, Pick(t)
    PROVE  Promised
  <1>1. /\ tab[t].st = "loop" /\ UNCHANGED <<serverVars, row, storeEpoch, wire>>
        /\ tab[t] \in Tab /\ tab \in [Tabs -> Tab] /\ row \in [Ops -> Row]
    BY DEF Pick, PInv, OInv, TypeOK
  <1>2. PICK i \in Candidates :
           tab' = [tab EXCEPT ![t].st = "picked", ![t].op = i, ![t].prior = row[i].attempts,
                              ![t].latest = epoch]
    BY Zenon DEF Pick
  <1>3. /\ i \in Ops /\ row[i].st = "pending" /\ row[i] \in Row
        /\ \A d \in row[i].deps : Succeeded(row[d])
    BY <1>1 DEF Candidates, Ready
  <1> DEFINE q == [[tab[t] EXCEPT !.st = "picked"] EXCEPT !.op = i]
             r == [[q EXCEPT !.prior = row[i].attempts] EXCEPT !.latest = epoch]
  <1>4. q \in Tab /\ q.st = "picked" /\ q.op = i
    <2>1. i \in 0..MaxOps
      BY <1>3 DEF Ops
    <2> QED BY <1>1, <2>1 DEF Tab
  <1>5. tab'[t] = r /\ \A s \in Tabs \ {t} : tab'[s] = tab[s]
    BY <1>1, <1>2
  <1> HIDE DEF q
  <1>6. tab'[t].st = "picked" /\ tab'[t].op = i /\ tab'[t].prior = row[i].attempts
    BY <1>4, <1>5 DEF Tab
  <1>7. RowsStep
    BY <1>1, SameRows
  <1>8. Alone(t)
    BY <1>1, <1>5, AloneRunning DEF Running
  <1>9. HandsOn
    BY <1>3, <1>5, <1>6 DEF HandsOn, Busy
  <1>10. ASSUME NEW s \in Tabs, NEW d \in row[i].deps
         PROVE  ~(Busy(s)' /\ tab'[s].op = d)
    <2>1. d # i
      BY <1>3 DEF PInv, OInv, DepsMade
    <2>2. CASE s = t
      BY <1>6, <2>1, <2>2
    <2>3. CASE s # t
      BY <1>8, <2>3 DEF Alone, Running, Busy
    <2> QED BY <2>2, <2>3
  <1>11. Sendable(i)'
    BY <1>1, <1>3, <1>10 DEF Sendable, Succeeded
  <1>12. HandOK(t)'
    BY <1>1, <1>6, <1>11 DEF HandOK, HeldOK, AnswerOK, Undecided
  <1> QED BY <1>1, <1>7, <1>8, <1>9, <1>12, AloneHands, QueueStep

\* The operation in a tab's hands.
LEMMA InHand ==
    ASSUME PInv, NEW t \in Tabs, Busy(t)
    PROVE  /\ tab[t].op \in Ops /\ row[tab[t].op] \in Row /\ row \in [Ops -> Row]
           /\ tab[t] \in Tab /\ tab \in [Tabs -> Tab] /\ HandOK(t) /\ Running(t)
           /\ tab[t].prior \in Nat /\ tab[t].nr \in Nat /\ row[tab[t].op].attempts \in Nat
           /\ storeEpoch \in Nat /\ epoch \in Nat /\ storeEpoch <= epoch
           /\ row[tab[t].op].st \in InStore => row[tab[t].op].epoch = storeEpoch
           /\ \A d \in row[tab[t].op].deps : d # tab[t].op /\ d \in Ops
  BY OutboxAssumption
     DEF PInv, OInv, AboutMade, TypeOK, Row, Tab, Epochs, DepsMade, Busy, Running

\* What is claimed was ready, and its attempt has a number of its own.
LEMMA ClaimStep ==
    ASSUME PInv, OInv', NEW t \in Tabs, Claim(t)
    PROVE  Promised
  <1>1. tab[t].st = "picked" /\ Busy(t) /\ UNCHANGED <<serverVars, storeEpoch, wire>>
    BY DEF Claim, Busy
  <1>2. PICK i \in Ops : i = tab[t].op
    BY <1>1, InHand
  <1>3. /\ row[i] \in Row /\ row \in [Ops -> Row] /\ tab[t] \in Tab /\ tab \in [Tabs -> Tab]
        /\ HandOK(t) /\ Running(t) /\ row[i].attempts \in Nat /\ storeEpoch <= epoch
        /\ storeEpoch \in Nat /\ row[i].attempts = tab[t].prior
        /\ row[i].st \in InStore => row[i].epoch = storeEpoch
    BY <1>1, <1>2, InHand DEF HandOK, HeldOK
  <1>4. (\A s \in Tabs \ {t} : tab'[s] = tab[s]) /\ Alone(t)
    <2>1. \A s \in Tabs \ {t} : tab'[s] = tab[s]
      BY <1>3 DEF Claim
    <2> QED BY <1>3, <2>1, AloneRunning
  <1>5. CASE row[i].st # "pending"
    <2>1. row' = row /\ tab'[t] = Free(t, "loop") /\ Free(t, "loop").st = "loop"
      BY <1>2, <1>3, <1>5, FreeTab DEF Claim, PInv, OInv
    <2>2. RowsStep /\ HandOK(t)'
      BY <1>1, <2>1, SameRows, HandIdle
    <2>3. HandsOn
      BY <1>4, <2>1 DEF HandsOn, Busy
    <2> QED BY <1>1, <1>4, <2>2, <2>3, AloneHands, QueueStep
  <1>6. CASE row[i].st = "pending"
    <2> DEFINE n == row[i].attempts + 1
    <2>1. /\ tab' = [tab EXCEPT ![t].st = "claimed", ![t].nr = n]
          /\ row' = [row EXCEPT ![i].st = "syncing", ![i].attempts = n]
      BY <1>2, <1>3, <1>6 DEF Claim
    <2>2. /\ tab'[t].st = "claimed" /\ tab'[t].nr = n /\ tab'[t].op = i
          /\ tab'[t].prior = tab[t].prior
      BY <1>2, <1>3, <2>1 DEF Tab
    <2>3. row'[i] = [row[i] EXCEPT !.st = "syncing", !.attempts = n]
      BY <1>3, <2>1
    <2>4. /\ Alike(row[i], row'[i]) /\ row'[i].st = "syncing" /\ row'[i].attempts = n
          /\ row'[i].result = row[i].result
      BY <1>3, <2>3 DEF Row, Alike
    <2>5. \A j \in Ops \ {i} : Stays(j)
      BY <1>1, <1>3, <2>1 DEF Stays, PInv, OInv, Epochs
    <2>6. Sendable(i)
      BY <1>1, <1>2, <1>3, <1>6 DEF HandOK, InStore
    <2>7. Taken(i)
      BY <1>1, <1>3, <1>6, <2>3, <2>6 DEF Taken, InStore
    <2>8. RowsStep /\ \A j \in Ops : ~Retired(j)
      BY <1>1, <1>3, <2>5, <2>7, CalmRows DEF OInv, TypeOK
    <2>9. HandsOn
      BY <1>1, <1>2, <1>4, <2>2 DEF HandsOn, Busy
    <2>10. Sendable(i)'
      BY <1>1, <1>3, <1>6, <2>4, <2>6, <2>8, <2>9, SendableStays DEF InStore
    <2>11. HeldOK(t)'
      <3>1. \A c \in wire : c.op = i => c.nr <= row[i].attempts /\ c.nr \in Nat
        BY DEF PInv, CopyOK, OInv, TypeOK, Copy
      <3>2. \A c \in wire' : c.op = i => c.nr < n
        BY <1>1, <1>3, <3>1
      <3> QED BY <1>3, <2>2, <2>4, <3>2 DEF HeldOK
    <2>12. AnswerOK(t)'
      <3>1. tab[t].prior = 0 => ledger[i] = "none" /\ row[i].result = "none"
        BY <1>3, <1>6 DEF PInv, LedgerOK, KeptOK
      <3> QED BY <1>1, <2>2, <2>4, <3>1 DEF AnswerOK, Undecided, serverVars
    <2>13. HandOK(t)'
      BY <2>2, <2>10, <2>11, <2>12 DEF HandOK
    <2> QED BY <1>1, <1>4, <2>8, <2>9, <2>13, AloneHands, QueueStep
  <1> QED BY <1>5, <1>6

\* A row in a tab's hands goes back: the tab puts it down.
LEMMA PutBackStep ==
    ASSUME PInv, OInv', NEW t \in Tabs, Busy(t), UNCHANGED <<serverVars, wire>>,
           storeEpoch <= storeEpoch', storeEpoch' <= epoch, storeEpoch' \in Nat,
           \A s \in Tabs \ {t} : tab'[s] = tab[s], tab'[t].st \in {"idle", "loop"},
           \A j \in Ops \ {tab[t].op} : Stays(j) \/ Left(j),
           PutBack(tab[t].op) \/ Stays(tab[t].op)
    PROVE  Promised
  <1>1. Running(t) /\ Alone(t)
    BY InHand, AloneRunning
  <1>2. RowsStep
    BY CalmRows DEF OInv, TypeOK
  <1>3. HandOK(t)'
    BY HandIdle
  <1>4. HandsOn
    BY <1>1, <1>3, AloneHands DEF HandsOn, Busy
  <1> QED BY <1>1, <1>2, <1>3, <1>4, AloneHands, QueueStep

\* No other attempt of the operation is as late as the one in hand.
LEMMA OwnAttempt ==
    ASSUME PInv, NEW t \in Tabs, tab[t].st \in {"claimed", "answered"}
    PROVE  \A c \in wire : c.op = tab[t].op => c.nr <= tab[t].prior
  <1>1. HeldOK(t) /\ tab[t].prior \in Nat /\ tab[t].nr \in Nat
    BY InHand DEF HandOK, Busy
  <1>2. tab[t].nr = tab[t].prior + 1 /\ \A c \in wire : c.op = tab[t].op => c.nr < tab[t].nr
    BY <1>1 DEF HeldOK
  <1>3. \A c \in wire : c.nr \in Nat
    BY DEF PInv, OInv, TypeOK, Copy
  <1> QED BY <1>1, <1>2, <1>3

\* A row given back, its attempt never run, is as if it had never been claimed.
LEMMA GivenPutBack ==
    ASSUME PInv, NEW t \in Tabs, tab[t].st \in {"claimed", "answered"}, Undecided(t),
           row[tab[t].op].st \in InStore,
           Alike(row[tab[t].op], row'[tab[t].op]), row'[tab[t].op].attempts = tab[t].prior,
           row'[tab[t].op].result = row[tab[t].op].result,
           \/ row'[tab[t].op].st = "pending" /\ row[tab[t].op].epoch = storeEpoch'
           \/ row'[tab[t].op].st = "restored" /\ row[tab[t].op].epoch < storeEpoch'
    PROVE  PutBack(tab[t].op)
  <1>1. Busy(t)
    BY DEF Busy
  <1>2. PICK i \in Ops : i = tab[t].op
    BY <1>1, InHand
  <1>3. HandOK(t) /\ tab[t].prior \in Nat
    BY <1>1, InHand
  <1>4. row[i].st = "syncing" /\ Sendable(i)
    BY <1>1, <1>2, <1>3 DEF HandOK, HeldOK, InStore
  <1>5. tab[t].prior = 0 => ledger[i] = "none" /\ row[i].result = "none"
    BY <1>2, <1>3 DEF HandOK, AnswerOK
  <1>6. \A c \in wire : c.op = i => c.nr <= row'[i].attempts
    BY <1>2, OwnAttempt
  <1> QED BY <1>1, <1>2, <1>4, <1>5, <1>6 DEF PutBack

\* A failed attempt counts.
LEMMA RetryPutBack ==
    ASSUME PInv, NEW t \in Tabs, tab[t].st \in {"sent", "answered", "settled"},
           row[tab[t].op].st \in InStore, storeEpoch' = storeEpoch,
           row'[tab[t].op] = [row[tab[t].op] EXCEPT !.st = "pending"]
    PROVE  PutBack(tab[t].op)
  <1>1. Busy(t)
    BY DEF Busy
  <1>2. PICK i \in Ops : i = tab[t].op
    BY <1>1, InHand
  <1>3. HandOK(t) /\ row[i] \in Row /\ row[i].attempts \in Nat /\ row[i].epoch = storeEpoch
    BY <1>1, <1>2, InHand
  <1>4. row[i].st \in {"syncing", "acknowledged"} /\ Sendable(i)
    BY <1>1, <1>2, <1>3 DEF HandOK, HeldOK, InStore
  <1>5. /\ Alike(row[i], row'[i]) /\ row'[i].result = row[i].result /\ row'[i].st = "pending"
        /\ row'[i].attempts = row[i].attempts
    <2>1. row'[i] = [row[i] EXCEPT !.st = "pending"]
      BY <1>2
    <2> QED BY <1>3, <2>1 DEF Row, Alike
  <1>6. row[i].attempts = 0 => ledger[i] = "none" /\ row[i].result = "none"
    BY <1>3, <1>4 DEF PInv, LedgerOK, KeptOK
  <1>7. \A c \in wire : c.op = i => c.nr <= row[i].attempts
    BY DEF PInv, CopyOK
  <1> QED BY <1>1, <1>2, <1>3, <1>4, <1>5, <1>6, <1>7 DEF PutBack

LEMMA ReleaseStep ==
    ASSUME PInv, OInv', NEW t \in Tabs, Release(t)
    PROVE  Promised
  <1>1. tab[t].st = "claimed" /\ Busy(t) /\ UNCHANGED <<serverVars, storeEpoch, wire>>
    BY DEF Release, Busy
  <1>2. PICK i \in Ops : i = tab[t].op
    BY <1>1, InHand
  <1>3. /\ row[i] \in Row /\ row \in [Ops -> Row] /\ tab \in [Tabs -> Tab]
        /\ storeEpoch <= epoch /\ storeEpoch \in Nat /\ tab[t].prior \in Nat
        /\ row[i].st \in InStore => row[i].epoch = storeEpoch
        /\ TypeOK /\ AboutMade
    BY <1>1, <1>2, InHand DEF PInv, OInv
  <1>4. tab'[t].st = "idle" /\ \A s \in Tabs \ {t} : tab'[s] = tab[s]
    BY <1>3, FreeTab DEF Release
  <1>5. \/ row' = row
        \/ /\ row[i].st = "syncing"
           /\ row' = [row EXCEPT ![i].st = "pending", ![i].attempts = tab[t].prior]
    BY <1>2 DEF Release
  <1>6. \A j \in Ops \ {i} : Stays(j)
    BY <1>1, <1>3, <1>5 DEF Stays, PInv, OInv, Epochs
  <1>7. CASE row' = row
    <2>1. Stays(i)
      BY <1>1, <1>3, <1>7 DEF Stays
    <2> QED BY <1>1, <1>2, <1>3, <1>4, <1>6, <2>1, PutBackStep
  <1>8. CASE row' # row
    <2>1. row'[i] = GivenRow(t) /\ row[i].st = "syncing"
      BY <1>2, <1>3, <1>5, <1>8 DEF GivenRow
    <2>2. PutBack(i)
      BY <1>1, <1>2, <1>3, <2>1, GivenRowFields, GivenPutBack DEF Undecided, InStore
    <2> QED BY <1>1, <1>2, <1>3, <1>4, <1>6, <2>2, PutBackStep
  <1> QED BY <1>7, <1>8

LEMMA BackStep ==
    ASSUME PInv, OInv', NEW t \in Tabs, Timeout(t) \/ RecordFails(t) \/ GiveBack(t)
    PROVE  Promised
  <1>1. /\ tab[t].st \in {"sent", "answered", "settled"} /\ Busy(t)
        /\ UNCHANGED <<serverVars, storeEpoch, wire>>
    BY DEF Timeout, RecordFails, GiveBack, Busy
  <1>2. PICK i \in Ops : i = tab[t].op
    BY <1>1, InHand
  <1>3. /\ row[i] \in Row /\ row \in [Ops -> Row] /\ tab \in [Tabs -> Tab]
        /\ storeEpoch <= epoch /\ storeEpoch \in Nat
        /\ row[i].st \in InStore => row[i].epoch = storeEpoch
        /\ TypeOK /\ AboutMade
    BY <1>1, <1>2, InHand DEF PInv, OInv
  <1>4. PICK rows \in {[row EXCEPT ![i].st = "pending"], GivenBack(t)} :
           /\ Update(t, rows, Free(t, "idle"))
           /\ rows # GivenBack(t) => rows = [row EXCEPT ![i].st = "pending"]
           /\ rows # [row EXCEPT ![i].st = "pending"] =>
                 rows = GivenBack(t) /\ tab[t].st = "answered" /\ Undecided(t)
    BY <1>2 DEF Timeout, RecordFails, GiveBack, Retry, Undecided
  <1>5. tab'[t].st = "idle" /\ \A s \in Tabs \ {t} : tab'[s] = tab[s]
    BY <1>3, <1>4, FreeTab DEF Update
  <1>6. CASE row[i].st \notin InStore
    <2>1. row' = row
      BY <1>2, <1>4, <1>6 DEF Update
    <2>2. \A j \in Ops : Stays(j)
      BY <1>1, <2>1 DEF Stays, PInv, OInv, Epochs
    <2> QED BY <1>1, <1>2, <1>3, <1>5, <2>2, PutBackStep
  <1>7. CASE row[i].st \in InStore
    <2>1. row' = rows
      BY <1>2, <1>4, <1>7 DEF Update
    <2>2. \A j \in Ops \ {i} : Stays(j)
      BY <1>1, <1>2, <1>3, <2>1 DEF GivenBack, Stays, PInv, OInv, Epochs
    <2>3. CASE rows = [row EXCEPT ![i].st = "pending"]
      <3>1. PutBack(i)
        BY <1>1, <1>2, <1>3, <1>7, <2>1, <2>3, RetryPutBack
      <3> QED BY <1>1, <1>2, <1>3, <1>5, <2>2, <3>1, PutBackStep
    <2>4. CASE rows # [row EXCEPT ![i].st = "pending"]
      <3>1. row'[i] = GivenRow(t) /\ tab[t].st = "answered" /\ Undecided(t)
        BY <1>2, <1>3, <1>4, <2>1, <2>4 DEF GivenBack, GivenRow
      <3>2. PutBack(i)
        BY <1>1, <1>2, <1>3, <1>7, <3>1, GivenRowFields, GivenPutBack
      <3> QED BY <1>1, <1>2, <1>3, <1>5, <2>2, <3>2, PutBackStep
    <2> QED BY <2>3, <2>4
  <1> QED BY <1>6, <1>7

LEMMA EpochMovedStep ==
    ASSUME PInv, OInv', NEW t \in Tabs, EpochMoved(t)
    PROVE  Promised
  <1>1. /\ tab[t].st = "answered" /\ Busy(t) /\ Undecided(t) /\ UNCHANGED <<serverVars, wire>>
        /\ row[tab[t].op].st \in InStore
    BY DEF EpochMoved, Busy, Undecided
  <1>2. PICK i \in Ops : i = tab[t].op
    BY <1>1, InHand
  <1>3. TypeOK /\ Epochs /\ AboutMade /\ tab \in [Tabs -> Tab]
    BY DEF PInv, OInv, TypeOK
  <1>4. /\ storeEpoch <= storeEpoch' /\ storeEpoch' <= epoch /\ storeEpoch' \in Nat
        /\ \A j \in Ops \ {i} : Stays(j) \/ Left(j)
        /\ \/ row'[i] = GivenRow(t) /\ row[i].epoch = storeEpoch'
           \/ row'[i] = [GivenRow(t) EXCEPT !.st = "restored"] /\ row[i].epoch < storeEpoch'
    BY <1>2, <1>3, EpochMovedRows
  <1>5. PutBack(i)
    BY <1>1, <1>2, <1>3, <1>4, GivenRowFields, GivenPutBack
  <1>6. tab'[t].st = "loop" /\ \A s \in Tabs \ {t} : tab'[s] = tab[s]
    <2>1. /\ tab' = [tab EXCEPT ![t] = [Free(t, "loop") EXCEPT !.latest = epoch]]
          /\ Free(t, "loop") \in Tab /\ Free(t, "loop").st = "loop"
      BY <1>3, FreeTab DEF EpochMoved
    <2>2. [Free(t, "loop") EXCEPT !.latest = epoch].st = "loop"
      BY <2>1 DEF Tab
    <2> QED BY <1>3, <2>1, <2>2
  <1> QED BY <1>1, <1>2, <1>4, <1>5, <1>6, PutBackStep

\* The answer in hand, and what it makes of the row.
LEMMA RecordStep ==
    ASSUME PInv, OInv', NEW t \in Tabs, Record(t)
    PROVE  Promised
  <1>1. /\ tab[t].st = "answered" /\ tab[t].answer \in {"ack", "refused", "invalid"} /\ Busy(t)
        /\ UNCHANGED <<serverVars, storeEpoch, wire>>
    BY DEF Record, Busy
  <1>2. PICK i \in Ops : i = tab[t].op
    BY <1>1, InHand
  <1>3. /\ row[i] \in Row /\ row \in [Ops -> Row] /\ tab[t] \in Tab /\ tab \in [Tabs -> Tab]
        /\ HandOK(t) /\ Running(t) /\ row[i].attempts \in Nat /\ storeEpoch <= epoch
        /\ storeEpoch \in Nat /\ TypeOK /\ tab[t].prior \in Nat
        /\ row[i].st \in InStore => row[i].epoch = storeEpoch
    BY <1>1, <1>2, InHand DEF PInv, OInv
  <1> DEFINE acked == tab[t].answer = "ack"
             consumed == acked \/ row[i].kind = "create"
             st == IF consumed THEN "acknowledged" ELSE "conflict"
             result == IF acked THEN row[i].result ELSE "refusal"
  <1>4. Update(t, [row EXCEPT ![i] = [row[i] EXCEPT !.st = st, !.result = result]],
               IF consumed THEN [tab[t] EXCEPT !.st = "settled"] ELSE Free(t, "loop"))
    <2>1. Patched(i, st, IF acked THEN "none" ELSE "refusal")
             = [row EXCEPT ![i] = [row[i] EXCEPT !.st = st, !.result = result]]
      BY <1>3 DEF Patched
    <2> QED BY <1>2, <2>1 DEF Record
  <1>5. /\ Free(t, "loop").st = "loop" /\ Free(t, "idle").st = "idle"
    BY <1>3, FreeTab
  <1>6. \A s \in Tabs \ {t} : tab'[s] = tab[s]
    BY <1>3, <1>4 DEF Update
  <1>7. Alone(t)
    BY <1>3, <1>6, AloneRunning
  <1>8. CASE row[i].st \notin InStore
    <2>1. row' = row /\ tab'[t].st = "idle"
      BY <1>2, <1>3, <1>4, <1>5, <1>8 DEF Update
    <2>2. \A j \in Ops : Stays(j)
      BY <1>1, <2>1 DEF Stays, PInv, OInv, Epochs
    <2> QED BY <1>1, <1>2, <1>3, <1>6, <2>1, <2>2, PutBackStep
  <1>9. CASE row[i].st \in InStore
    <2>1. row[i].st = "syncing" /\ row[i].attempts > 0 /\ Sendable(i) /\ AnswerOK(t)
      BY <1>1, <1>2, <1>3, <1>9 DEF HandOK, HeldOK, InStore
    <2>2. /\ row' = [row EXCEPT ![i] = [row[i] EXCEPT !.st = st, !.result = result]]
          /\ tab'[t] = IF consumed THEN [tab[t] EXCEPT !.st = "settled"] ELSE Free(t, "loop")
      BY <1>2, <1>3, <1>4, <1>9 DEF Update
    <2>3. row'[i] = [row[i] EXCEPT !.st = st, !.result = result]
      BY <1>3, <2>2
    <2>4. /\ Alike(row[i], row'[i]) /\ row'[i].attempts = row[i].attempts
          /\ row'[i].st = st /\ row'[i].result = result
      BY <1>3, <2>3 DEF Row, Alike
    <2>5. /\ row[i].epoch = epoch /\ tab[t].answer \in {"ack", "refused"} => ledger[i] = tab[t].answer
          /\ tab[t].answer = "invalid" => ~row[i].valid
          /\ tab[t].answer = "refused" => row[i].kind # "create"
          /\ tab[t].answer = "ack" => applied[i] > 0
      BY <1>1, <1>2, <2>1 DEF AnswerOK, PInv, OInv, Believed
    <2>6. Recorded(i)
      <3>1. CASE acked
        BY <1>1, <1>3, <1>9, <2>1, <2>4, <2>5, <3>1 DEF Recorded
      <3>2. CASE ~acked /\ row[i].kind = "create"
        BY <1>1, <1>3, <1>9, <2>1, <2>4, <2>5, <3>2 DEF Recorded
      <3>3. CASE ~acked /\ row[i].kind # "create"
        <4>1. row'[i].st = "conflict" /\ row'[i].result = "refusal"
          BY <2>4, <3>3
        <4>2. row[i].epoch = epoch => ledger[i] # "none" \/ ~row[i].valid
          BY <1>1, <2>5, <3>3
        <4> QED BY <1>1, <1>3, <1>9, <2>1, <2>4, <4>1, <4>2 DEF Recorded
      <3> QED BY <3>1, <3>2, <3>3
    <2>7. \A j \in Ops \ {i} : Stays(j)
      BY <1>1, <1>3, <2>2 DEF Stays, PInv, OInv, Epochs
    <2>8. RowsStep /\ \A j \in Ops : ~Retired(j)
      BY <1>1, <1>3, <2>6, <2>7, CalmRows DEF OInv, TypeOK
    <2>9. CASE consumed
      <3>1. tab'[t].st = "settled" /\ tab'[t].op = i /\ row'[i].st = "acknowledged"
        BY <1>2, <1>3, <2>2, <2>4, <2>9 DEF Tab
      <3>2. HandsOn
        BY <1>1, <1>2, <1>6, <3>1 DEF HandsOn, Busy
      <3>3. Sendable(i)'
        BY <1>1, <1>3, <1>9, <2>1, <2>4, <2>8, <3>2, SendableStays
      <3>4. HandOK(t)'
        BY <3>1, <3>3 DEF HandOK, HeldOK, AnswerOK, Undecided
      <3> QED BY <1>1, <1>7, <2>8, <3>2, <3>4, AloneHands, QueueStep
    <2>10. CASE ~consumed
      <3>1. tab'[t].st = "loop"
        BY <1>5, <2>2, <2>10
      <3>2. HandsOn
        BY <1>6, <3>1 DEF HandsOn, Busy
      <3> QED BY <1>1, <1>7, <2>8, <3>1, <3>2, HandIdle, AloneHands, QueueStep
    <2> QED BY <2>9, <2>10
  <1> QED BY <1>8, <1>9

\* The start of a drain and its retirements, which nobody else's hands see.
LEMMA DrainStep ==
    ASSUME Locks, PInv, OInv', NEW t \in Tabs, Wake(t) \/ Settle(t)
    PROVE  Promised
  <1>1. TypeOK /\ Epochs /\ DepsMade /\ AboutMade /\ tab \in [Tabs -> Tab]
    BY DEF PInv, OInv, TypeOK
  <1>2. Coordinated /\ UNCHANGED <<serverVars, wire>>
    BY <1>1, WakeRows, SettleRows DEF Wake, Settle
  <1>3. tab'[t].st = "loop" /\ \A s \in Tabs \ {t} : tab'[s] = tab[s]
    <2>1. CASE Wake(t)
      <3>1. tab'[t] = [tab[t] EXCEPT !.st = "loop", !.recovered = TRUE]
        BY <1>1, <2>1 DEF Wake
      <3> QED BY <1>1, <2>1, <3>1 DEF Wake, Tab
    <2>2. CASE Settle(t)
      BY <1>1, <2>2, FreeTab DEF Settle
    <2> QED BY <2>1, <2>2
  <1>4. Alone(t)
    <2>1. CASE Wake(t)
      BY <1>3, <2>1 DEF Wake, LockFree, Alone
    <2>2. CASE Settle(t)
      BY <1>3, <2>2, AloneRunning DEF Settle, Running
    <2> QED BY <2>1, <2>2
  <1>5. ASSUME NEW i \in Ops
        PROVE  /\ RowStep(i) /\ ~Withdrawn(i) /\ ~Discarded(i)
               /\ Retired(i) => Unawaited(i)'
    <2>1. row[i] \in Row /\ storeEpoch' \in Nat /\ row[i].epoch \in Nat
      BY <1>1, <1>2, OutboxAssumption DEF TypeOK, Row, Coordinated
    <2>2. Stays(i) \/ Left(i) \/ Resumed(i) \/ Retired(i) \/ Failed(i)
      BY <1>2 DEF Coordinated
    <2>3. Retired(i) => Unawaited(i)'
      BY DEF Retired, Unawaited
    <2>4. row'[i].st \in {"withdrawn", "discarded"} => row'[i].st = row[i].st
      <3>1. Left(i) \/ Resumed(i) \/ Retired(i) => row'[i].st \notin {"withdrawn", "discarded"}
        BY MovedRow DEF Moved
      <3>2. Failed(i) => row'[i].st = "conflict"
        BY <2>1, RowFields DEF Failed
      <3> QED BY <2>2, <3>1, <3>2 DEF Stays
    <2>5. ~Withdrawn(i) /\ ~Discarded(i)
      BY <2>4, MovedRow DEF Moved, Withdrawn, NeverSent
    <2> QED BY <2>2, <2>3, <2>5 DEF RowStep
  <1>6. RowsStep
    BY <1>2, <1>5 DEF RowsStep, Coordinated
  <1>7. HandsOn
    BY <1>3, <1>4 DEF HandsOn, Busy
  <1> QED BY <1>2, <1>3, <1>4, <1>6, <1>7, HandIdle, AloneHands, QueueStep

-----------------------------------------------------------------------------
(* The server's steps *)

\* Every request was there before, looked at or not.
WireFrom == \A d \in wire' : \E e \in wire : e.op = d.op /\ e.nr = d.nr /\ e.by = d.by

\* A tab that takes nothing else in hand.
SteadyHands == \A s \in Tabs : Busy(s)' => Busy(s) /\ tab'[s].op = tab[s].op

\* A tab that no answer reaches, while the server works.
LEMMA HandUnserved ==
    ASSUME PInv, UNCHANGED <<row, storeEpoch>>, WireFrom, SteadyHands,
           \A i \in Ops : applied[i] > 0 => applied'[i] > 0,
           NEW s \in Tabs, SameHand(s),
           Undecided(s) /\ tab[s].prior = 0 => ledger'[tab[s].op] = "none"
    PROVE  HandOK(s)'
  <1>1. CASE ~Busy(s)
    <2>1. tab[s] \in Tab /\ tab'[s].st = tab[s].st
      BY DEF PInv, OInv, TypeOK, SameHand
    <2>2. tab'[s].st \in {"closed", "idle", "loop"}
      BY <1>1, <2>1 DEF Busy, Tab
    <2> QED BY <2>2, HandIdle
  <1>2. CASE Busy(s)
    <2>1. PICK i \in Ops : i = tab[s].op /\ i = tab'[s].op
      BY <1>2, InHand DEF SameHand
    <2>2. HandOK(s)
      BY <1>2, InHand
    <2>3. HeldOK(s)'
      <3>1. /\ tab[s].st = "picked" => row[i].attempts = tab[s].prior
            /\ tab[s].st \in {"claimed", "sent", "answered"} =>
                  /\ tab[s].nr = tab[s].prior + 1 /\ row[i].attempts = tab[s].nr
                  /\ \/ row[i].st = "syncing"
                     \/ row[i].st \in {"restored", "discarded"} /\ row[i].epoch < storeEpoch
            /\ tab[s].st = "settled" =>
                  \/ row[i].st = "acknowledged"
                  \/ row[i].st = "retired" /\ row[i].epoch < storeEpoch
        BY <2>1, <2>2 DEF HandOK, HeldOK
      <3>2. ASSUME tab[s].st \in {"claimed", "sent", "answered"}, NEW d \in wire', d.op = i
            PROVE  d.nr < tab[s].nr \/ (tab[s].st = "sent" /\ d.by = s)
        <4>1. PICK e \in wire : e.op = d.op /\ e.nr = d.nr /\ e.by = d.by
          BY DEF WireFrom
        <4> QED BY <2>1, <2>2, <3>2, <4>1 DEF HandOK, HeldOK
      <3> QED BY <2>1, <3>1, <3>2 DEF HeldOK, SameHand
    <2>4. AnswerOK(s)'
      BY <2>1, <2>2 DEF HandOK, AnswerOK, Undecided, SameHand
    <2>5. row'[i].st \in InStore => Sendable(i)'
      BY <1>2, <2>1, <2>2 DEF HandOK, Sendable, SteadyHands
    <2> QED BY <2>1, <2>3, <2>4, <2>5 DEF HandOK
  <1> QED BY <1>1, <1>2

\* The answer reaches the tab that waits for it.
LEMMA HandServed ==
    ASSUME PInv, UNCHANGED <<row, storeEpoch>>, SteadyHands,
           NEW c \in wire, Awaited(c), wire' = wire \ {c}, NEW answer \in Answers \ {"none"},
           \A i \in Ops : applied[i] > 0 => applied'[i] > 0,
           tab'[c.by].st = "answered", tab'[c.by].answer = answer,
           tab'[c.by].op = tab[c.by].op, tab'[c.by].prior = tab[c.by].prior,
           tab'[c.by].nr = tab[c.by].nr,
           answer = "invalid" => ~row[c.op].valid,
           answer = "refused" => row[c.op].kind # "create",
           answer = "ack" => applied'[c.op] > 0,
           answer \in {"held", "epoch"} /\ tab[c.by].prior = 0 => ledger'[c.op] = "none"
    PROVE  HandOK(c.by)'
  <1>1. PICK s \in Tabs, i \in Ops : s = c.by /\ i = c.op
    BY DEF PInv, OInv, TypeOK, Copy
  <1>2. tab[s].st = "sent" /\ tab[s].op = i /\ tab[s].nr = c.nr /\ tab'[s].op = i
    BY <1>1 DEF Awaited
  <1>3. HandOK(s) /\ tab[s].nr \in Nat
    BY <1>2, InHand DEF Busy
  <1>4. HeldOK(s)'
    <2>1. /\ tab[s].nr = tab[s].prior + 1 /\ row[i].attempts = tab[s].nr
          /\ \/ row[i].st = "syncing"
             \/ row[i].st \in {"restored", "discarded"} /\ row[i].epoch < storeEpoch
          /\ \A d \in wire : d.op = i => d.nr < tab[s].nr \/ d.by = s
      BY <1>2, <1>3 DEF HandOK, HeldOK
    <2>2. ASSUME NEW d \in wire', d.op = i PROVE d.nr < tab[s].nr
      <3>1. d \in wire /\ d # c /\ d.nr \in Nat /\ d.nr <= row[i].attempts
        BY <2>2 DEF PInv, CopyOK, OInv, TypeOK, Copy
      <3>2. d.nr # tab[s].nr
        BY <1>1, <1>2, <2>2, <3>1 DEF PInv, CopyOK
      <3> QED BY <1>3, <2>1, <3>1, <3>2
    <2> QED BY <1>1, <1>2, <2>1, <2>2 DEF HeldOK
  <1>5. AnswerOK(s)'
    BY <1>1, <1>2, <1>3 DEF HandOK, AnswerOK, Undecided
  <1>6. row'[i].st \in InStore => Sendable(i)'
    BY <1>2, <1>3 DEF HandOK, Sendable, SteadyHands, Busy
  <1> QED BY <1>1, <1>2, <1>4, <1>5, <1>6 DEF HandOK

\* The hands of all tabs, when a request has been served.
LEMMA ServedHands ==
    ASSUME PInv, NEW c \in wire, NEW answer \in Answers \ {"none"}, Answer(c, answer),
           UNCHANGED <<row, storeEpoch>>,
           \A i \in Ops : applied[i] > 0 => applied'[i] > 0,
           answer = "invalid" => ~row[c.op].valid,
           answer = "refused" => row[c.op].kind # "create",
           answer = "ack" => applied'[c.op] > 0,
           \A s \in Tabs : /\ Undecided(s) /\ tab[s].prior = 0
                           /\ Awaited(c) /\ s = c.by => answer \in {"held", "epoch"}
                           => ledger'[tab[s].op] = "none"
    PROVE  SteadyHands /\ HandsOn /\ OneDrain' /\ \A s \in Tabs : HandOK(s)'
  <1>1. PICK b \in Tabs : b = c.by
    BY DEF PInv, OInv, TypeOK, Copy
  <1>2. tab \in [Tabs -> Tab] /\ wire' = wire \ {c}
    BY DEF PInv, OInv, TypeOK, Answer
  <1>3. Awaited(c) =>
           /\ tab'[b].st = "answered" /\ tab'[b].answer = answer /\ tab'[b].op = tab[b].op
           /\ tab'[b].prior = tab[b].prior /\ tab'[b].nr = tab[b].nr
           /\ \A s \in Tabs \ {b} : tab'[s] = tab[s]
    <2>1. Awaited(c) => tab' = [tab EXCEPT ![b].st = "answered", ![b].answer = answer]
      BY <1>1 DEF Answer
    <2> QED BY <1>2, <2>1 DEF Tab
  <1>4. ~Awaited(c) => tab' = tab
    BY DEF Answer
  <1>5. \A s \in Tabs : SameHand(s) \/ (Awaited(c) /\ s = b)
    BY <1>3, <1>4 DEF SameHand
  <1>6. Awaited(c) => tab[b].st = "sent" /\ tab[b].op = c.op
    BY <1>1 DEF Awaited
  <1>7. SteadyHands
    BY <1>3, <1>5, <1>6 DEF SteadyHands, SameHand, Busy
  <1>8. OneDrain'
    <2>1. \A s \in Tabs : Running(s)' => Running(s)
      BY <1>3, <1>5, <1>6 DEF SameHand, Running
    <2> QED BY <2>1 DEF PInv, OneDrain
  <1>9. HandsOn
    BY <1>7 DEF HandsOn, SteadyHands
  <1>10. WireFrom
    BY <1>2 DEF WireFrom
  <1>11. ASSUME NEW s \in Tabs, ~(Awaited(c) /\ s = b) PROVE HandOK(s)'
    BY <1>1, <1>5, <1>7, <1>10, <1>11, HandUnserved
  <1>12. ASSUME Awaited(c) PROVE HandOK(b)'
    <2>1. answer \in {"held", "epoch"} /\ tab[b].prior = 0 => ledger'[c.op] = "none"
      BY <1>1, <1>6, <1>12 DEF Undecided
    <2> QED BY <1>1, <1>2, <1>3, <1>7, <1>12, <2>1, HandServed
  <1> QED BY <1>7, <1>8, <1>9, <1>11, <1>12

\* A step that changes only what is on the wire and who waits for it.
LEMMA WireStep ==
    ASSUME PInv, OInv', UNCHANGED <<serverVars, row, storeEpoch>>, HandsOn, OneDrain',
           \A c \in wire' : CopyOK(c)', \A s \in Tabs : HandOK(s)'
    PROVE  Promised
  <1>1. RowsStep
    BY SameRows
  <1>2. \A i \in Ops : LedgerOK(i)' /\ KeptOK(i)' /\ WaitOK(i)'
    BY <1>1, LedgerNext, KeptNext, WaitNext
  <1>3. PInv'
    BY <1>2 DEF PInv
  <1>4. Fate' = Fate /\ applied' = applied
    BY DEF Fate, serverVars
  <1> QED BY <1>3, <1>4 DEF Promised

\* The attempt leaves under a number no other copy has.
LEMMA SendStep ==
    ASSUME PInv, OInv', NEW t \in Tabs, Send(t)
    PROVE  Promised
  <1>1. /\ tab[t].st = "claimed" /\ Busy(t) /\ UNCHANGED <<serverVars, row, storeEpoch>>
        /\ wire' = wire \cup {[op |-> tab[t].op, by |-> t, nr |-> tab[t].nr, looked |-> FALSE]}
        /\ tab' = [tab EXCEPT ![t].st = "sent"]
    BY DEF Send, Busy
  <1>2. PICK i \in Ops, c \in Copy : /\ i = tab[t].op /\ wire' = wire \cup {c}
                                     /\ c.op = i /\ c.by = t /\ c.nr = tab[t].nr /\ ~c.looked
    <2>1. [op |-> tab[t].op, by |-> t, nr |-> tab[t].nr, looked |-> FALSE] \in Copy
      BY <1>1, InHand DEF Copy
    <2> QED BY <1>1, <2>1, InHand
  <1>3. /\ tab[t] \in Tab /\ tab \in [Tabs -> Tab] /\ HandOK(t) /\ Running(t)
        /\ tab[t].prior \in Nat /\ tab[t].nr \in Nat /\ row[i].attempts \in Nat
        /\ storeEpoch \in Nat /\ epoch \in Nat /\ storeEpoch <= epoch
    BY <1>1, <1>2, InHand
  <1>4. /\ tab'[t].st = "sent" /\ tab'[t].op = i /\ tab'[t].prior = tab[t].prior
        /\ tab'[t].nr = tab[t].nr /\ \A s \in Tabs \ {t} : tab'[s] = tab[s]
    BY <1>1, <1>2, <1>3 DEF Tab
  <1>5. /\ tab[t].nr = tab[t].prior + 1 /\ row[i].attempts = tab[t].nr
        /\ \/ row[i].st = "syncing"
           \/ row[i].st \in {"restored", "discarded"} /\ row[i].epoch < storeEpoch
        /\ \A d \in wire : d.op = i => d.nr <= tab[t].prior
    BY <1>1, <1>2, <1>3, OwnAttempt DEF HandOK, HeldOK
  <1>6. \A d \in wire : CopyOK(d) /\ d.nr \in Nat /\ row[d.op].epoch \in Nat
    BY OutboxAssumption DEF PInv, OInv, TypeOK, Copy, Row
  <1>7. ASSUME NEW d \in wire' PROVE CopyOK(d)'
    <2>1. \A e \in wire' : e.op = d.op /\ e.nr = d.nr => e = d
      BY <1>2, <1>3, <1>5, <1>6, <1>7 DEF CopyOK
    <2>2. CASE d \in wire
      BY <1>1, <1>6, <2>1, <2>2 DEF CopyOK, serverVars
    <2>3. CASE d = c
      <3>1. row[i].epoch = epoch => row[i].st = "syncing"
        BY <1>3, <1>5
      <3>2. d.op = i /\ d.nr > 0 /\ d.nr <= row'[i].attempts /\ ~d.looked
        BY <1>1, <1>2, <1>3, <1>5, <2>3
      <3>3. row'[i].epoch = epoch' => row'[i].st \in {"pending", "syncing"}
        BY <1>1, <3>1 DEF serverVars
      <3> QED BY <2>1, <3>2, <3>3 DEF CopyOK
    <2> QED BY <1>2, <2>2, <2>3
  <1>8. Alone(t)
    BY <1>3, <1>4, AloneRunning
  <1>9. HandsOn
    BY <1>1, <1>2, <1>4 DEF HandsOn, Busy
  <1>10. HandOK(t)'
    <2>1. \A d \in wire' : d.op = i => d.nr < tab[t].nr \/ d.by = t
      BY <1>2, <1>3, <1>5, <1>6
    <2>2. HeldOK(t)'
      BY <1>1, <1>4, <1>5, <2>1 DEF HeldOK
    <2>3. AnswerOK(t)'
      BY <1>1, <1>2, <1>3, <1>4 DEF HandOK, AnswerOK, Undecided, serverVars
    <2>4. row[i].st \in InStore => Sendable(i)
      BY <1>1, <1>2, <1>3 DEF HandOK
    <2>5. \A s \in Tabs : Busy(s)' => Busy(s) /\ tab'[s].op = tab[s].op
      BY <1>1, <1>2, <1>4 DEF Busy
    <2>6. row'[i].st \in InStore => Sendable(i)'
      BY <1>1, <2>4, <2>5 DEF Sendable
    <2> QED BY <1>4, <2>2, <2>3, <2>6 DEF HandOK
  <1> QED BY <1>1, <1>7, <1>8, <1>9, <1>10, AloneHands, WireStep

\* A request or its answer is lost.
LEMMA LoseStep ==
    ASSUME PInv, OInv', NEW c \in wire, Lose(c)
    PROVE  Promised
  <1>1. UNCHANGED <<serverVars, row, storeEpoch, tab>> /\ wire' = wire \ {c}
    BY DEF Lose
  <1>2. HandsOn /\ OneDrain' /\ SteadyHands /\ WireFrom /\ \A s \in Tabs : SameHand(s)
    BY <1>1 DEF HandsOn, SteadyHands, WireFrom, SameHand, PInv, OneDrain, Busy, Running
  <1>3. ASSUME NEW s \in Tabs PROVE HandOK(s)'
    <2>1. Undecided(s) /\ tab[s].prior = 0 => ledger'[tab[s].op] = "none"
      <3>1. Undecided(s) => Busy(s)
        BY DEF Undecided, Busy
      <3> QED BY <1>1, <3>1, InHand DEF HandOK, AnswerOK, serverVars
    <2> QED BY <1>1, <1>2, <2>1, HandUnserved DEF serverVars
  <1>4. RowsStep
    BY <1>1, SameRows
  <1> QED BY <1>1, <1>2, <1>3, <1>4, QueueStep

\* What the server has on an operation is no news to who gives an attempt back.
LEMMA UndecidedNew ==
    ASSUME PInv, NEW s \in Tabs, Undecided(s), tab[s].prior = 0
    PROVE  tab[s].op \in Ops /\ ledger[tab[s].op] = "none"
  <1>1. Busy(s)
    BY DEF Undecided, Busy
  <1> QED BY <1>1, InHand DEF HandOK, AnswerOK

\* An answer the server gives without a new effect.
LEMMA AnsweredStep ==
    ASSUME PInv, OInv', NEW c \in wire, NEW answer \in Answers \ {"none"}, Answer(c, answer),
           UNCHANGED <<serverVars, row, storeEpoch>>,
           answer = "invalid" => ~row[c.op].valid,
           answer \in {"ack", "refused"} => ledger[c.op] = answer
    PROVE  Promised
  <1>1. c.op \in Ops /\ LedgerOK(c.op) /\ wire' = wire \ {c}
    BY DEF PInv, OInv, TypeOK, Copy, Answer
  <1>2. answer = "refused" => row[c.op].kind # "create"
    BY <1>1 DEF LedgerOK
  <1>3. answer = "ack" => applied'[c.op] > 0
    BY <1>1 DEF LedgerOK, serverVars
  <1>4. \A i \in Ops : applied[i] > 0 => applied'[i] > 0
    BY DEF serverVars
  <1>5. \A s \in Tabs : /\ Undecided(s) /\ tab[s].prior = 0
                        /\ Awaited(c) /\ s = c.by => answer \in {"held", "epoch"}
                        => ledger'[tab[s].op] = "none"
    BY UndecidedNew DEF serverVars
  <1>6. HandsOn /\ OneDrain' /\ \A s \in Tabs : HandOK(s)'
    BY <1>2, <1>3, <1>4, <1>5, ServedHands
  <1>7. RowsStep
    BY SameRows
  <1> QED BY <1>1, <1>6, <1>7, QueueStep

\* A session that will not do, and the look in the ledger.
LEMMA LookStep ==
    ASSUME PInv, OInv', NEW c \in wire, Hold(c) \/ Look(c)
    PROVE  Promised
  <1>1. /\ UNCHANGED <<serverVars, row, storeEpoch>> /\ c \in Copy /\ c.op \in Ops /\ CopyOK(c)
        /\ ledger[c.op] \in {"none", "ack", "refused"}
    BY DEF Hold, Look, PInv, OInv, TypeOK, Copy
  <1>2. CASE Hold(c)
    BY <1>1, <1>2, AnsweredStep DEF Hold, Answers
  <1>3. CASE Look(c) /\ ~row[c.op].valid
    BY <1>1, <1>3, AnsweredStep DEF Look, Answers
  <1>4. CASE Look(c) /\ row[c.op].valid /\ ledger[c.op] # "none"
    <2>1. Answer(c, ledger[c.op]) /\ ledger[c.op] \in Answers \ {"none"}
      BY <1>1, <1>4 DEF Look, Answers
    <2>2. ledger[c.op] # "invalid"
      BY <1>1
    <2> QED BY <1>1, <2>1, <2>2, AnsweredStep
  <1>5. CASE Look(c) /\ row[c.op].valid /\ ledger[c.op] = "none"
    <2>1. PICK d \in Copy : /\ wire' = (wire \ {c}) \cup {d} /\ d.looked
                            /\ d.op = c.op /\ d.nr = c.nr /\ d.by = c.by
      <3>1. PICK d : d = [c EXCEPT !.looked = TRUE]
        OBVIOUS
      <3>2. /\ d \in Copy /\ d.looked /\ d.op = c.op /\ d.nr = c.nr /\ d.by = c.by
        BY <1>1, <3>1 DEF Copy
      <3>3. wire' = (wire \ {c}) \cup {d}
        BY <1>5, <3>1 DEF Look
      <3> QED BY <3>2, <3>3
    <2>2. UNCHANGED tab
      BY <1>5 DEF Look
    <2>3. \A e \in wire : CopyOK(e)
      BY DEF PInv
    <2>4. ASSUME NEW e \in wire' PROVE CopyOK(e)'
      <3>1. \A f \in wire' : f.op = e.op /\ f.nr = e.nr => f = e
        BY <2>1, <2>3, <2>4 DEF CopyOK
      <3>2. CASE e \in wire
        BY <1>1, <2>3, <3>1, <3>2 DEF CopyOK, serverVars
      <3>3. CASE e = d
        <4>1. /\ e.nr > 0 /\ e.nr <= row'[e.op].attempts /\ row'[e.op].valid
              /\ row[e.op].epoch = epoch /\ row[e.op].valid /\ ledger[e.op] = "none"
                 => row[e.op].st \in {"pending", "syncing"}
          BY <1>1, <1>5, <2>1, <3>3 DEF CopyOK
        <4> QED BY <1>1, <3>1, <4>1 DEF CopyOK, serverVars
      <3> QED BY <2>1, <3>2, <3>3
    <2>5. WireFrom
      BY <2>1 DEF WireFrom
    <2>6. HandsOn /\ OneDrain' /\ SteadyHands /\ \A s \in Tabs : SameHand(s)
      BY <2>2 DEF HandsOn, SteadyHands, SameHand, PInv, OneDrain, Busy, Running
    <2>7. \A s \in Tabs : HandOK(s)'
      BY <1>1, <2>5, <2>6, UndecidedNew, HandUnserved DEF serverVars
    <2> QED BY <1>1, <2>4, <2>6, <2>7, WireStep
  <1> QED BY <1>2, <1>3, <1>4, <1>5

\* The invariant as far as only the rows and the server's records matter to it.
LEMMA ServedRows ==
    ASSUME PInv, OInv', UNCHANGED <<row, storeEpoch, epoch, archive>>, SteadyHands,
           wire' \subseteq wire, OneDrain', \A s \in Tabs : HandOK(s)',
           \A i \in Ops : LedgerOK(i)',
           \A i \in Ops : /\ ledger[i] # "none" => ledger'[i] = ledger[i]
                          /\ applied[i] > 0 => applied'[i] > 0
    PROVE  PInv'
  <1>1. ASSUME NEW i \in Ops PROVE KeptOK(i)' /\ WaitOK(i)'
    <2>1. KeptOK(i) /\ WaitOK(i)
      BY DEF PInv
    <2>2. Sendable(i) => Sendable(i)'
      BY DEF Sendable, SteadyHands
    <2> QED BY <2>1, <2>2 DEF KeptOK, WaitOK
  <1>2. ASSUME NEW d \in wire' PROVE CopyOK(d)'
    <2>1. CopyOK(d) /\ d.op \in Ops
      BY DEF PInv, OInv, TypeOK, Copy
    <2>2. ledger'[d.op] = "none" => ledger[d.op] = "none"
      BY <2>1
    <2> QED BY <2>1, <2>2 DEF CopyOK
  <1> QED BY <1>1, <1>2 DEF PInv

\* The handler runs, or the transaction finds that it must not.
LEMMA ApplyStep ==
    ASSUME PInv, OInv', NEW c \in wire, Apply(c)
    PROVE  Promised
  <1>1. PICK i \in Ops : i = c.op
    BY DEF PInv, OInv, TypeOK, Copy
  <1>2. /\ UNCHANGED <<epoch, archive, row, storeEpoch>> /\ c.looked /\ CopyOK(c)
        /\ KeptOK(i) /\ LedgerOK(i) /\ row[i].attempts \in Nat /\ applied[i] \in Nat
        /\ ledger \in [Ops -> {"none", "ack", "refused"}] /\ applied \in [Ops -> Nat]
        /\ c.nr \in Nat
    BY <1>1 DEF Apply, PInv, OInv, TypeOK, Copy, Row
  <1>3. PICK result \in IF row[i].kind = "create" THEN {"ack"} ELSE {"ack", "refused"} :
           IF row[i].epoch # epoch THEN Answer(c, "epoch") /\ UNCHANGED <<ledger, applied>>
           ELSE IF ~Claimed(i) THEN Answer(c, ledger[i]) /\ UNCHANGED <<ledger, applied>>
           ELSE IF ~Satisfied(i) THEN Answer(c, "invalid") /\ UNCHANGED <<ledger, applied>>
           ELSE /\ Answer(c, result)
                /\ ledger' = [ledger EXCEPT ![i] = result]
                /\ applied' = IF result = "ack" THEN [applied EXCEPT ![i] = @ + 1] ELSE applied
    BY <1>1 DEF Apply
  <1>4. CASE row[i].epoch # epoch
    BY <1>2, <1>3, <1>4, AnsweredStep DEF serverVars, Answers
  <1>5. CASE row[i].epoch = epoch /\ ~Claimed(i)
    <2>1. /\ Answer(c, ledger[i]) /\ UNCHANGED <<ledger, applied>> /\ ledger[i] \in {"ack", "refused"}
      BY <1>2, <1>3, <1>5 DEF Claimed
    <2> QED BY <1>1, <1>2, <2>1, AnsweredStep DEF serverVars, Answers
  <1>6. CASE row[i].epoch = epoch /\ Claimed(i)
    <2>1. Satisfied(i)
      BY <1>1, <1>6 DEF PInv, OInv, SentInOrder, Satisfied
    <2>2. /\ Answer(c, result) /\ ledger' = [ledger EXCEPT ![i] = result]
          /\ applied' = IF result = "ack" THEN [applied EXCEPT ![i] = @ + 1] ELSE applied
          /\ result \in {"ack", "refused"} /\ (result = "refused" => row[i].kind # "create")
      BY <1>3, <1>6, <2>1
    <2>3. /\ ledger[i] = "none" /\ row[i].valid /\ row[i].attempts > 0
          /\ row[i].st \in {"pending", "syncing"} /\ row[i].result = "none"
      <3>1. ledger[i] = "none" /\ row[i].valid /\ c.nr > 0 /\ c.nr <= row[i].attempts
        BY <1>1, <1>2, <1>6 DEF Claimed, CopyOK
      <3>2. row[i].st \in {"pending", "syncing"}
        BY <1>1, <1>2, <1>6, <3>1 DEF CopyOK
      <3> QED BY <1>2, <3>1, <3>2 DEF KeptOK
    <2>4. /\ ledger'[i] = result /\ \A j \in Ops \ {i} : ledger'[j] = ledger[j]
          /\ result = "ack" => applied'[i] > 0
          /\ \A j \in Ops : applied[j] > 0 => applied'[j] > 0
      BY <1>2, <2>2
    <2>5. ASSUME NEW s \in Tabs, Undecided(s), tab[s].prior = 0,
                 Awaited(c) /\ s = c.by => result \in {"held", "epoch"}
          PROVE  ledger'[tab[s].op] = "none"
      <3>1. tab[s].op \in Ops /\ ledger[tab[s].op] = "none"
        BY <2>5, UndecidedNew
      <3>2. CASE tab[s].op = i
        <4>1. HeldOK(s) /\ Busy(s) /\ tab[s].st \in {"claimed", "sent", "answered"}
          BY <2>5, InHand DEF Undecided, Busy, HandOK
        <4>2. tab[s].nr = 1 /\ row[i].attempts = 1
          BY <2>5, <3>2, <4>1 DEF HeldOK
        <4>3. c.nr < 1 \/ (tab[s].st = "sent" /\ c.by = s)
          BY <1>1, <3>2, <4>1, <4>2 DEF HeldOK
        <4>4. c.nr = 1 /\ tab[s].st = "sent" /\ c.by = s
          BY <1>1, <1>2, <4>2, <4>3 DEF CopyOK
        <4>5. Awaited(c)
          BY <1>1, <3>2, <4>2, <4>4 DEF Awaited
        <4> QED BY <2>2, <2>5, <4>4, <4>5
      <3> QED BY <2>4, <3>1, <3>2
    <2>6. SteadyHands /\ OneDrain' /\ \A s \in Tabs : HandOK(s)'
      <3>1. result \in Answers \ {"none"} /\ result # "invalid"
        BY <2>2 DEF Answers
      <3> QED BY <1>1, <1>2, <2>2, <2>4, <2>5, <3>1, ServedHands
    <2>7. ASSUME NEW j \in Ops PROVE LedgerOK(j)'
      <3>1. CASE j = i
        <4>1. archive[i] = "none"
          BY <1>2, <2>3 DEF LedgerOK
        <4> QED BY <1>2, <2>2, <2>3, <2>4, <3>1, <4>1 DEF LedgerOK
      <3>2. CASE j # i
        <4>1. LedgerOK(j) /\ ledger'[j] = ledger[j]
          BY <2>4, <3>2 DEF PInv
        <4> QED BY <1>2, <2>4, <4>1 DEF LedgerOK
      <3> QED BY <3>1, <3>2
    <2>8. PInv'
      <3>1. wire' \subseteq wire
        BY <2>2 DEF Answer
      <3>2. \A j \in Ops : ledger[j] # "none" => ledger'[j] = ledger[j]
        BY <2>3, <2>4
      <3> QED BY <1>2, <2>4, <2>6, <2>7, <3>1, <3>2, ServedRows
    <2>9. \A j \in Ops \ {i} : Fate'[j] = Fate[j]
      BY <1>2, <2>4 DEF Fate
    <2>10. Fate[i] = "kept"
      BY <1>6, <2>3, Fates DEF FateIs, Queued, Clean
    <2>11. Fate \in [Ops -> Promise!Fates] /\ Fate' \in [Ops -> Promise!Fates]
      BY <2>8, FateType, FateTypeNext
    <2>12. CASE result = "ack"
      <3>1. Fate'[i] = "applied"
        BY <2>4, <2>12, FatesNext DEF FateIs
      <3>2. Fate' = [Fate EXCEPT ![i] = "applied"]
        BY <2>9, <2>11, <3>1
      <3>3. applied' = [applied EXCEPT ![i] = @ + 1]
        BY <2>2, <2>12
      <3>4. Promise!Apply(i)
        BY <2>10, <3>2, <3>3 DEF Promise!Apply
      <3> QED BY <2>8, <3>4 DEF Promised, Promise!Next
    <2>13. CASE result # "ack"
      <3>1. Fate'[i] = "kept"
        <4>1. Queued(i)' /\ Clean(i)' /\ row'[i].epoch = epoch' /\ ledger'[i] # "ack"
          BY <1>2, <1>6, <2>3, <2>4, <2>13 DEF Queued, Clean
        <4> QED BY <4>1, FatesNext DEF FateIs
      <3>2. Fate' = Fate
        BY <2>9, <2>10, <2>11, <3>1
      <3>3. applied' = applied
        BY <2>2, <2>13
      <3> QED BY <2>8, <3>2, <3>3 DEF Promised
    <2> QED BY <2>12, <2>13
  <1> QED BY <1>4, <1>5, <1>6

-----------------------------------------------------------------------------
(* The Library *)

\* What the rows and the hands ask of the Library when it changes its records.
LEMMA LibraryPromise ==
    ASSUME PInv, OInv', UNCHANGED <<row, storeEpoch, tab, wire, applied>>,
           \A i \in Ops : LedgerOK(i)',
           \A i \in Ops : ledger[i] = "none" => ledger'[i] = "none",
           \A c \in wire : CopyOK(c)'
    PROVE  PInv'
  <1>1. SteadyHands /\ WireFrom /\ OneDrain' /\ \A s \in Tabs : SameHand(s)
    BY DEF SteadyHands, WireFrom, SameHand, PInv, OneDrain, Busy, Running
  <1>2. ASSUME NEW s \in Tabs PROVE HandOK(s)'
    <2>1. Undecided(s) /\ tab[s].prior = 0 => ledger'[tab[s].op] = "none"
      BY UndecidedNew
    <2> QED BY <1>1, <2>1, HandUnserved
  <1>3. ASSUME NEW i \in Ops PROVE KeptOK(i)' /\ WaitOK(i)'
    <2>1. KeptOK(i) /\ WaitOK(i)
      BY DEF PInv
    <2>2. Sendable(i) => Sendable(i)'
      BY DEF Sendable, Busy
    <2> QED BY <2>1, <2>2 DEF KeptOK, WaitOK
  <1> QED BY <1>1, <1>2, <1>3 DEF PInv

\* A backup changes nobody's fate.
LEMMA BackupStep ==
    ASSUME PInv, OInv', Backup
    PROVE  Promised
  <1>1. UNCHANGED <<ledger, epoch, applied, row, storeEpoch, tab, wire>> /\ archive' = ledger
    BY DEF Backup
  <1>2. \A i \in Ops : LedgerOK(i)'
    <2>1. \A i \in Ops : LedgerOK(i)
      BY DEF PInv
    <2> QED BY <1>1, <2>1 DEF LedgerOK
  <1>3. \A c \in wire : CopyOK(c)'
    <2>1. \A c \in wire : CopyOK(c)
      BY DEF PInv
    <2> QED BY <1>1, <2>1 DEF CopyOK
  <1>4. PInv'
    BY <1>1, <1>2, <1>3, LibraryPromise
  <1>5. Fate' = Fate
    BY <1>1 DEF Fate
  <1> QED BY <1>1, <1>4, <1>5 DEF Promised

\* What a restore makes of a fate.
LEMMA RestoredFate ==
    ASSUME PInv, Restore, NEW i \in Ops
    PROVE  /\ Fate'[i] = Fate[i] \/ <<Fate[i], Fate'[i]>> \in Promise!Turns
           /\ Fate'[i] # "kept"
  <1>1. /\ UNCHANGED <<archive, applied, row, storeEpoch, tab, wire>>
        /\ ledger' = archive /\ epoch' = epoch + 1
    BY DEF Restore
  <1>2. /\ LedgerOK(i) /\ KeptOK(i) /\ FateIs(i) /\ FateIs(i)' /\ row[i].st \in Status
        /\ row[i].epoch # epoch'
    <2>1. row[i].epoch <= epoch /\ row[i].epoch \in Nat /\ epoch \in Nat
      BY OutboxAssumption DEF PInv, OInv, TypeOK, Row, Epochs
    <2> QED BY <1>1, <2>1, Fates, FatesNext DEF PInv, OInv, TypeOK, Row
  <1>3. CASE ledger'[i] = "ack"
    <2>1. ledger[i] = "ack"
      BY <1>1, <1>2, <1>3 DEF LedgerOK
    <2> QED BY <1>2, <1>3, <2>1 DEF FateIs
  <1>4. CASE ledger'[i] # "ack" /\ ledger[i] = "ack"
    <2>1. row[i].st \notin {"unmade", "withdrawn"}
      BY <1>2, <1>4 DEF LedgerOK, KeptOK
    <2>2. Fate[i] = "applied" /\ Fate'[i] \in {"undone", "stale", "review", "refused"}
      <3>1. Fate'[i] \in {"undone", "stale", "review", "refused"}
        BY <1>1, <1>2, <1>4, <2>1 DEF FateIs, Queued, Done, Clean, Status, KeptOK
      <3> QED BY <1>2, <1>4, <3>1 DEF FateIs
    <2> QED BY <2>2 DEF Promise!Turns
  <1>5. CASE ledger'[i] # "ack" /\ ledger[i] # "ack"
    <2>1. CASE Queued(i) /\ Clean(i) /\ row[i].epoch = epoch
      <3>1. Fate[i] = "kept" /\ Fate'[i] = "stale"
        BY <1>1, <1>2, <1>5, <2>1 DEF FateIs, Queued, Clean
      <3> QED BY <3>1 DEF Promise!Turns
    <2>2. CASE ~(Queued(i) /\ Clean(i) /\ row[i].epoch = epoch)
      <3>1. Fate'[i] = Fate[i] /\ Fate[i] # "kept"
        BY <1>1, <1>2, <1>5, <2>2 DEF FateIs, Queued, Done, Clean, Status, KeptOK
      <3> QED BY <3>1
    <2> QED BY <2>1, <2>2
  <1> QED BY <1>3, <1>4, <1>5

LEMMA RestoreStep ==
    ASSUME PInv, OInv', Restore
    PROVE  Promised
  <1>1. /\ UNCHANGED <<archive, applied, row, storeEpoch, tab, wire>>
        /\ ledger' = archive /\ epoch' = epoch + 1
    BY DEF Restore
  <1>2. \A i \in Ops : LedgerOK(i) /\ (ledger[i] = "none" => ledger'[i] = "none")
    BY <1>1 DEF PInv, LedgerOK
  <1>3. \A i \in Ops : LedgerOK(i)'
    BY <1>1, <1>2 DEF LedgerOK
  <1>4. ASSUME NEW c \in wire PROVE CopyOK(c)'
    <2>1. CopyOK(c) /\ row[c.op].epoch <= epoch /\ row[c.op].epoch \in Nat /\ epoch \in Nat
      BY OutboxAssumption DEF PInv, OInv, TypeOK, Copy, Row, Epochs
    <2>2. row'[c.op].epoch # epoch'
      BY <1>1, <2>1
    <2> QED BY <1>1, <2>1, <2>2 DEF CopyOK
  <1>5. PInv'
    BY <1>1, <1>2, <1>3, <1>4, LibraryPromise
  <1>6. Fate' \in [Ops -> Promise!Fates]
    BY <1>5, FateTypeNext
  <1>7. Promise!Restore
    BY <1>1, <1>6, RestoredFate DEF Promise!Restore, Promise!Shift
  <1> QED BY <1>5, <1>7 DEF Promised, Promise!Next

-----------------------------------------------------------------------------
(* The theorems *)

LEMMA InitPromise ==
    ASSUME Init
    PROVE  PInv /\ Promise!Init
  <1>1. OInv
    BY InitKeeps
  <1>2. OneDrain /\ \A t \in Tabs : HandOK(t)
    BY DEF Init, Closed, OneDrain, Running, HandOK, HeldOK, AnswerOK, Undecided, Busy
  <1>3. \A i \in Ops : row[i] = Unmade /\ ledger[i] = "none" /\ archive[i] = "none"
    BY DEF Init
  <1>4. ASSUME NEW i \in Ops PROVE LedgerOK(i) /\ KeptOK(i) /\ WaitOK(i)
    BY <1>3 DEF Unmade, LedgerOK, KeptOK, WaitOK
  <1>5. \A c \in wire : CopyOK(c)
    BY DEF Init
  <1>6. \A i \in Ops : Fate[i] = "unmade"
    BY <1>3, Fates DEF FateIs, Unmade
  <1>7. Fate = [i \in Ops |-> Fate[i]]
    BY DEF Fate
  <1>8. Fate = [i \in Ops |-> "unmade"]
    BY <1>6, <1>7
  <1>9. Promise!Init
    BY <1>8 DEF Promise!Init, Init
  <1> QED BY <1>1, <1>2, <1>4, <1>5, <1>9 DEF PInv

LEMMA NextPromise ==
    ASSUME Locks, PInv, [Next]_vars
    PROVE  Promised
  <1>1. OInv'
    BY NextKeeps DEF PInv
  <1>2. ASSUME NEW t \in Tabs, Create(t) \/ SaveField(t) \/ Delete(t) PROVE Promised
    BY <1>1, <1>2, CreateStep, SaveFieldStep, DeleteStep
  <1>3. ASSUME NEW t \in Tabs, NEW i \in Ops, Discard(t, i) \/ DiscardRestored(t, i) PROVE Promised
    BY <1>1, <1>3, DiscardStep, DiscardRestoredStep
  <1>4. ASSUME NEW t \in Tabs, Start(t) \/ Crash(t) \/ Verify(t) \/ Rest(t) PROVE Promised
    BY <1>1, <1>4, PageStep
  <1>5. ASSUME NEW t \in Tabs, Pick(t) \/ Claim(t) \/ Send(t) \/ Release(t) PROVE Promised
    BY <1>1, <1>5, PickStep, ClaimStep, SendStep, ReleaseStep
  <1>6. ASSUME NEW t \in Tabs, Timeout(t) \/ RecordFails(t) \/ GiveBack(t) PROVE Promised
    BY <1>1, <1>6, BackStep
  <1>7. ASSUME NEW t \in Tabs, EpochMoved(t) \/ Record(t) PROVE Promised
    BY <1>1, <1>7, EpochMovedStep, RecordStep
  <1>8. ASSUME NEW t \in Tabs, Wake(t) \/ Settle(t) PROVE Promised
    BY <1>1, <1>8, DrainStep
  <1>9. ASSUME NEW c \in wire, Lose(c) \/ Hold(c) \/ Look(c) \/ Apply(c) PROVE Promised
    BY <1>1, <1>9, LoseStep, LookStep, ApplyStep
  <1>10. ASSUME Backup \/ Restore PROVE Promised
    BY <1>1, <1>10, BackupStep, RestoreStep
  <1>11. ASSUME UNCHANGED vars PROVE Promised
    <2>1. UNCHANGED <<serverVars, row, storeEpoch, tab, wire>>
      BY <1>11 DEF vars, serverVars
    <2>2. HandsOn /\ OneDrain' /\ SteadyHands /\ WireFrom /\ \A s \in Tabs : SameHand(s)
      BY <2>1 DEF HandsOn, SteadyHands, WireFrom, SameHand, PInv, OneDrain, Busy, Running
    <2>3. \A s \in Tabs : HandOK(s)'
      BY <2>1, <2>2, UndecidedNew, HandUnserved DEF serverVars
    <2>4. RowsStep
      BY <2>1, SameRows
    <2> QED BY <1>1, <2>1, <2>2, <2>3, <2>4, QueueStep
  <1> QED BY <1>2, <1>3, <1>4, <1>5, <1>6, <1>7, <1>8, <1>9, <1>10, <1>11
          DEF Next, Coordinate

\* Under the lock, what an open operation waits for stays in the queue.
THEOREM WaitsForStored ==
    ASSUME Locks
    PROVE  Spec => []DependencyStored
  <1>1. Init => PInv
    BY InitPromise
  <1>2. PInv /\ [Next]_vars => PInv'
    BY NextPromise DEF Promised
  <1>3. PInv => DependencyStored
    <2>1. PInv => \A i \in Ops : WaitOK(i)
      BY DEF PInv
    <2>2. Stored(row) \subseteq Ops
      BY DEF Stored
    <2> QED BY <2>1, <2>2 DEF WaitOK, DependencyStored
  <1> QED BY <1>1, <1>2, <1>3, PTL DEF Spec

\* Under the lock, the queue and the ledger implement the promise of Intents:
\* an operation takes effect at most once between two restores, never after
\* the user took it back and never in a Library restored since it was made.
THEOREM Implements ==
    ASSUME Locks
    PROVE  Spec => KeepsPromise
  <1>1. Init => PInv /\ Promise!Init
    BY InitPromise
  <1>2. PInv /\ [Next]_vars => PInv' /\ [Promise!Next]_<<Fate, applied>>
    BY NextPromise DEF Promised
  <1>3. KeepsPromise <=> Promise!Spec
    BY DEF KeepsPromise
  <1> QED BY <1>1, <1>2, <1>3, PTL DEF Spec, Promise!Spec
=============================================================================

----------------------------- MODULE OutboxProofs -----------------------------
(***************************************************************************)
(* Proofs, for every number of tabs, operations, epochs and faults, that   *)
(* the browser's queue sends in order: nothing is under way that waits for *)
(* what the server has not applied.  No lock between the tabs is needed.   *)
(***************************************************************************)
EXTENDS Outbox, WellFoundedInduction, TLAPS

-----------------------------------------------------------------------------
(* What the operators on the rows make of them *)

\* Two rows are of one operation.
Alike(r, q) == /\ q.kind = r.kind /\ q.deps = r.deps /\ q.epoch = r.epoch
               /\ q.valid = r.valid

\* The number of the next operation is one that is free.
LEMMA NextOpFree ==
    ASSUME row \in [Ops -> Row], Room
    PROVE  NextOp \in Ops /\ row[NextOp].st = "unmade"
  <1> DEFINE T == {i \in Ops : row[i].st = "unmade"}
             R == OpToRel(<, Nat)
  <1>1. T \subseteq Nat /\ T # {}
    BY OutboxAssumption DEF Room, Ops
  <1>2. IsWellFoundedOn(R, Nat)
    BY NatLessThanWellFounded, Zenon
  <1>3. \E i \in T : \A j \in T : ~(<<j, i>> \in R)
    <2> HIDE DEF T, R
    <2> QED BY <1>1, <1>2, WFMin, Zenon
  <1>4. PICK i \in T : \A j \in T : ~(<<j, i>> \in R)
    BY <1>3, Zenon
  <1>5. \A j \in Ops : row[j].st = "unmade" => i <= j
    <2>1. \A a, b \in Nat : a < b => <<a, b>> \in R
      BY DEF OpToRel
    <2> HIDE DEF R
    <2>2. \A j \in T : ~(j < i)
      BY <1>1, <1>4, <2>1
    <2> QED BY <1>1, <2>2
  <1> QED BY <1>4, <1>5, Zenon DEF NextOp

\* Operations of an older epoch leave the queue, and nothing else happens.
LEMMA AdvancedRows ==
    ASSUME NEW rows \in [Ops -> Row], NEW e \in Nat
    PROVE  /\ Advanced(rows, e) \in [Ops -> Row]
           /\ \A i \in Ops : LET q == Advanced(rows, e)[i] IN
                 \/ q = rows[i] /\ (rows[i].st \in InStore => e <= rows[i].epoch)
                 \/ /\ rows[i].st \in InStore /\ rows[i].epoch < e
                    /\ q = [rows[i] EXCEPT !.st =
                            IF rows[i].st = "acknowledged" THEN "retired" ELSE "restored"]
  <1>1. \A i \in Ops : rows[i] \in Row /\ rows[i].epoch \in Nat
    BY OutboxAssumption DEF Row
  <1>2. \A i \in Ops : [rows[i] EXCEPT !.st =
             IF rows[i].st = "acknowledged" THEN "retired" ELSE "restored"] \in Row
    BY <1>1 DEF Row, Status
  <1> QED BY <1>1, <1>2 DEF Advanced, Stored

\* What is settled with i is open, and waits for i or for another open one.
LEMMA DoomedRows ==
    ASSUME NEW rows \in [Ops -> Row], NEW i \in Ops, NEW j \in Doomed(rows, i)
    PROVE  /\ j \in Ops /\ j # i /\ rows[j].st \in InStore /\ rows[j].st # "acknowledged"
           /\ \E d \in rows[j].deps : d = i \/ rows[d].st # "acknowledged"
  <1> DEFINE Closed1(S) == i \in S /\ \A k \in Stored(rows) :
                 rows[k].st # "acknowledged" /\ rows[k].deps \cap S # {} => k \in S
             OpenRows == {k \in Stored(rows) : rows[k].st # "acknowledged"}
  <1>1. j \in Ops /\ j # i /\ \A S \in SUBSET Ops : Closed1(S) => j \in S
    BY DEF Doomed
  <1>2. j \in OpenRows
    <2>1. Closed1({i} \cup OpenRows) /\ {i} \cup OpenRows \in SUBSET Ops
      BY DEF Stored
    <2> QED BY <1>1, <2>1
  <1>3. ASSUME \A d \in rows[j].deps : d # i /\ rows[d].st = "acknowledged" PROVE FALSE
    <2> DEFINE S == {i} \cup (OpenRows \ {j})
    <2>1. rows[j].deps \cap S = {}
      BY <1>3
    <2>2. Closed1(S) /\ S \in SUBSET Ops
      BY <2>1 DEF Stored
    <2> QED BY <1>1, <2>2
  <1> QED BY <1>1, <1>2, <1>3 DEF Stored

\* What waits for i directly is settled with it.
LEMMA DirectlyDoomed ==
    ASSUME NEW rows \in [Ops -> Row], NEW i \in Ops, NEW j \in Ops \ {i},
           rows[j].st \in InStore, rows[j].st # "acknowledged", i \in rows[j].deps
    PROVE  j \in Doomed(rows, i)
  BY DEF Doomed, Stored

\* What is retired is acknowledged, and only what is retired with it names it.
LEMMA RetirableRows ==
    ASSUME NEW rows \in [Ops -> Row], NEW i \in Ops, NEW j \in Retirable(rows, i)
    PROVE  /\ j \in Ops /\ rows[j].st = "acknowledged"
           /\ \A k \in Ops : rows[k].st \in InStore /\ j \in rows[k].deps
                  => rows[k].st = "acknowledged"
  <1> DEFINE Free1(k, S) == /\ rows[k].st = "acknowledged"
                            /\ \A l \in Stored(rows) : k \in rows[l].deps => l \in S
             Closed1(S)  == \A k \in Ops :
                 (k = i \/ \E l \in S : k \in rows[l].deps) /\ Free1(k, S) => k \in S
             R == Retirable(rows, i)
  <1>1. R = {k \in Ops : \A S \in SUBSET Ops : Closed1(S) => k \in S}
    BY DEF Retirable
  <1> HIDE DEF R
  <1>2. R \in SUBSET Ops /\ \A S \in SUBSET Ops : Closed1(S) => R \subseteq S
    BY <1>1
  <1>3. Closed1(R)
    <2> SUFFICES ASSUME NEW k \in Ops, k = i \/ \E l \in R : k \in rows[l].deps, Free1(k, R),
                        NEW S \in SUBSET Ops, Closed1(S)
                 PROVE  k \in S
      BY <1>1
    <2>1. R \subseteq S
      BY <1>2
    <2> QED BY <2>1
  <1>4. ASSUME NEW k \in R PROVE Free1(k, R)
    <2> SUFFICES ASSUME ~Free1(k, R) PROVE FALSE
      OBVIOUS
    <2> DEFINE S == R \ {k}
    <2>1. ASSUME NEW l \in Ops, l = i \/ \E n \in S : l \in rows[n].deps, Free1(l, S)
          PROVE  l \in S
      <3>1. Free1(l, R)
        BY <2>1
      <3>2. l \in R
        BY <1>3, <2>1, <3>1
      <3> QED BY <3>1, <3>2
    <2>2. Closed1(S) /\ S \in SUBSET Ops
      BY <1>2, <2>1
    <2> QED BY <1>2, <2>2
  <1>5. j \in R
    BY DEF R
  <1> QED BY <1>2, <1>4, <1>5 DEF Stored

\* A row is settled with what it waited for.
FailedRow(r) == [r EXCEPT !.st = "conflict", !.result = "dependency"]

LEMMA RowEdit ==
    ASSUME NEW r \in Row
    PROVE  /\ \A st \in Status : [r EXCEPT !.st = st] \in Row
           /\ \A n \in Nat : [r EXCEPT !.attempts = n] \in Row
           /\ \A result \in Results : [r EXCEPT !.result = result] \in Row
           /\ \A st \in Status, n \in Nat : [r EXCEPT !.st = st, !.attempts = n] \in Row
           /\ \A st \in Status, result \in Results : [r EXCEPT !.st = st, !.result = result] \in Row
           /\ FailedRow(r) \in Row
  <1>1. /\ \A st \in Status : [r EXCEPT !.st = st] \in Row
        /\ \A n \in Nat : [r EXCEPT !.attempts = n] \in Row
        /\ \A result \in Results : [r EXCEPT !.result = result] \in Row
    BY DEF Row
  <1>2. \A st \in Status, n \in Nat : [r EXCEPT !.st = st, !.attempts = n] \in Row
    BY DEF Row
  <1>3. \A st \in Status, result \in Results : [r EXCEPT !.st = st, !.result = result] \in Row
    BY DEF Row
  <1>4. "conflict" \in Status /\ "dependency" \in Results
    BY DEF Status, Results
  <1> QED BY <1>1, <1>2, <1>3, <1>4, Zenon DEF FailedRow

LEMMA RowFields ==
    ASSUME NEW r \in Row
    PROVE  /\ Alike(r, FailedRow(r)) /\ FailedRow(r).st = "conflict"
           /\ FailedRow(r).result = "dependency" /\ FailedRow(r).attempts = r.attempts
           /\ \A st \in Status : LET q == [r EXCEPT !.st = st] IN
                 /\ q.st = st /\ q.result = r.result /\ q.attempts = r.attempts
                 /\ Alike(r, q) /\ FailedRow(q) = FailedRow(r)
  <1>1. /\ Alike(r, FailedRow(r)) /\ FailedRow(r).st = "conflict"
        /\ FailedRow(r).result = "dependency" /\ FailedRow(r).attempts = r.attempts
    BY DEF Row, FailedRow, Alike
  <1>2. ASSUME NEW st \in Status
        PROVE  LET q == [r EXCEPT !.st = st] IN
                 /\ q.st = st /\ q.result = r.result /\ q.attempts = r.attempts
                 /\ Alike(r, q) /\ FailedRow(q) = FailedRow(r)
    BY DEF Row, FailedRow, Alike
  <1> QED BY <1>1, <1>2

LEMMA DependentsFailedRows ==
    ASSUME NEW rows \in [Ops -> Row], NEW i \in Ops
    PROVE  /\ DependentsFailed(rows, i) \in [Ops -> Row]
           /\ DependentsFailed(rows, i)[i] = rows[i]
           /\ \A j \in Ops : LET q == DependentsFailed(rows, i)[j] IN
                 \/ q = rows[j]
                 \/ /\ rows[j].st \in {"pending", "syncing"} /\ q = FailedRow(rows[j])
                    /\ \E d \in rows[j].deps : d = i \/ rows[d].st # "acknowledged"
           /\ \A j \in Ops \ {i} : rows[j].st \in {"pending", "syncing"} /\ i \in rows[j].deps
                 => DependentsFailed(rows, i)[j] = FailedRow(rows[j])
  <1>1. \A j \in Ops : rows[j] \in Row /\ FailedRow(rows[j]) \in Row
    BY RowEdit, Zenon
  <1>2. \A j \in Doomed(rows, i) :
           /\ j \in Ops /\ j # i /\ rows[j].st \in InStore /\ rows[j].st # "acknowledged"
           /\ \E d \in rows[j].deps : d = i \/ rows[d].st # "acknowledged"
    BY DoomedRows
  <1>3. \A j \in Ops \ {i} : rows[j].st \in {"pending", "syncing"} /\ i \in rows[j].deps
           => j \in Doomed(rows, i)
    BY DirectlyDoomed DEF InStore
  <1>4. \A j \in Ops : DependentsFailed(rows, i)[j] =
           IF j \in Doomed(rows, i) /\ rows[j].st # "conflict" THEN FailedRow(rows[j]) ELSE rows[j]
    BY DEF DependentsFailed, FailedRow
  <1>5. DependentsFailed(rows, i) = [j \in Ops |-> DependentsFailed(rows, i)[j]]
    BY DEF DependentsFailed
  <1>6. DependentsFailed(rows, i) \in [Ops -> Row]
    BY <1>1, <1>4, <1>5
  <1> QED BY <1>2, <1>3, <1>4, <1>6 DEF InStore

\* No row of the queue that is not acknowledged names j.
Unnamed(rows, j) == \A k \in Ops : rows[k].st \in InStore /\ j \in rows[k].deps
                        => rows[k].st = "acknowledged"
RetiredRow(rows, j) == rows[j].st = "acknowledged" /\ Unnamed(rows, j)

LEMMA RetiredRowsRows ==
    ASSUME NEW rows \in [Ops -> Row], NEW i \in Ops
    PROVE  /\ RetiredRows(rows, i) \in [Ops -> Row]
           /\ \A j \in Ops : LET q == RetiredRows(rows, i)[j] IN
                 \/ q = rows[j]
                 \/ RetiredRow(rows, j) /\ q = [rows[j] EXCEPT !.st = "retired"]
  <1>1. \A j \in Ops : rows[j] \in Row /\ [rows[j] EXCEPT !.st = "retired"] \in Row
    BY DEF Row, Status
  <1>2. \A j \in Retirable(rows, i) : RetiredRow(rows, j)
    BY RetirableRows DEF RetiredRow, Unnamed
  <1> QED BY <1>1, <1>2 DEF RetiredRows

\* The first drain of a page resumes what was syncing and retires residue.
LEMMA RecoveredRows ==
    ASSUME NEW rows \in [Ops -> Row], NEW t \in Tabs
    PROVE  /\ Recovered(t, rows) \in [Ops -> Row]
           /\ \A j \in Ops : LET q == Recovered(t, rows)[j] IN
                 \/ q = rows[j]
                 \/ rows[j].st = "syncing" /\ q = [rows[j] EXCEPT !.st = "pending"]
                 \/ RetiredRow(rows, j) /\ q = [rows[j] EXCEPT !.st = "retired"]
  <1> DEFINE resumed == [i \in Ops |-> IF rows[i].st = "syncing"
                                       THEN [rows[i] EXCEPT !.st = "pending"] ELSE rows[i]]
             residue == UNION {Retirable(resumed, i) : i \in Stored(resumed)}
  <1>1. \A j \in Ops : /\ rows[j] \in Row /\ [rows[j] EXCEPT !.st = "retired"] \in Row
                       /\ [rows[j] EXCEPT !.st = "pending"] \in Row
    BY DEF Row, Status
  <1>2. resumed \in [Ops -> Row] /\ Stored(resumed) \subseteq Ops
    BY <1>1 DEF Stored
  <1>3. \A j \in Ops : /\ rows[j].st = "acknowledged" <=> resumed[j].st = "acknowledged"
                       /\ rows[j].st \in InStore <=> resumed[j].st \in InStore
                       /\ rows[j].deps = resumed[j].deps
                       /\ rows[j].st # "syncing" => resumed[j] = rows[j]
                       /\ rows[j].st = "syncing" => resumed[j] = [rows[j] EXCEPT !.st = "pending"]
    BY <1>1 DEF InStore, Row
  <1> HIDE DEF resumed
  <1>4. \A j \in residue : j \in Ops /\ RetiredRow(rows, j)
    <2> SUFFICES ASSUME NEW i \in Stored(resumed), NEW j \in Retirable(resumed, i)
                 PROVE  j \in Ops /\ RetiredRow(rows, j)
      OBVIOUS
    <2>1. /\ j \in Ops /\ resumed[j].st = "acknowledged"
          /\ \A k \in Ops : resumed[k].st \in InStore /\ j \in resumed[k].deps
                 => resumed[k].st = "acknowledged"
      BY <1>2, RetirableRows
    <2> QED BY <1>3, <2>1 DEF RetiredRow, Unnamed
  <1> HIDE DEF residue
  <1>5. Recovered(t, rows) = IF tab[t].recovered THEN rows ELSE
            [i \in Ops |-> IF i \in residue THEN [resumed[i] EXCEPT !.st = "retired"] ELSE resumed[i]]
    BY DEF Recovered, resumed, residue
  <1>6. \A i \in residue : resumed[i] = rows[i]
    BY <1>3, <1>4 DEF RetiredRow
  <1>7. CASE tab[t].recovered
    BY <1>5, <1>7
  <1>8. CASE ~tab[t].recovered
    <2>1. \A j \in Ops : Recovered(t, rows)[j] =
             IF j \in residue THEN [resumed[j] EXCEPT !.st = "retired"] ELSE resumed[j]
      BY <1>5, <1>8
    <2>2. Recovered(t, rows) = [j \in Ops |-> Recovered(t, rows)[j]]
      BY <1>5, <1>8, <2>1
    <2>3. \A j \in Ops : LET q == Recovered(t, rows)[j] IN
             \/ q = rows[j]
             \/ rows[j].st = "syncing" /\ q = [rows[j] EXCEPT !.st = "pending"]
             \/ RetiredRow(rows, j) /\ q = [rows[j] EXCEPT !.st = "retired"]
      BY <1>3, <1>4, <1>6, <2>1
    <2>4. \A j \in Ops : Recovered(t, rows)[j] \in Row
      BY <1>1, <2>3
    <2> QED BY <2>2, <2>3, <2>4
  <1> QED BY <1>7, <1>8

\* A row is repaired that waits for a refusal, or for an open operation.
LEMMA RepairedRows ==
    ASSUME NEW rows \in [Ops -> Row]
    PROVE  /\ Repaired(rows) \in [Ops -> Row]
           /\ \A j \in Ops : LET q == Repaired(rows)[j] IN
                 \/ q = rows[j]
                 \/ /\ rows[j].st \in {"pending", "syncing"} /\ q = FailedRow(rows[j])
                    /\ \E d \in rows[j].deps : ~Succeeded(rows[d])
  <1> DEFINE roots == {i \in Stored(rows) :
                          \/ rows[i].st = "acknowledged" /\ rows[i].result # "none"
                          \/ rows[i].st = "conflict" /\ rows[i].result = "dependency"}
             doomed == UNION {Doomed(rows, i) : i \in roots}
  <1>1. \A j \in Ops : rows[j] \in Row /\ FailedRow(rows[j]) \in Row
    BY RowEdit, Zenon
  <1>2. \A i \in roots : i \in Ops /\ ~Succeeded(rows[i])
    BY DEF Stored, Succeeded
  <1> HIDE DEF roots
  <1>3. \A j \in doomed : /\ j \in Ops /\ rows[j].st \in InStore /\ rows[j].st # "acknowledged"
                          /\ \E d \in rows[j].deps : ~Succeeded(rows[d])
    <2> SUFFICES ASSUME NEW i \in roots, NEW j \in Doomed(rows, i)
                 PROVE  /\ j \in Ops /\ rows[j].st \in InStore /\ rows[j].st # "acknowledged"
                        /\ \E d \in rows[j].deps : ~Succeeded(rows[d])
      OBVIOUS
    <2> QED BY <1>2, DoomedRows DEF Succeeded
  <1> HIDE DEF doomed
  <1>4. Repaired(rows) = [j \in Ops |-> IF j \in doomed /\ rows[j].st # "conflict"
                                        THEN FailedRow(rows[j]) ELSE rows[j]]
    BY DEF Repaired, FailedRow, roots, doomed
  <1> QED BY <1>1, <1>3, <1>4 DEF InStore

LEMMA FencedRows ==
    ASSUME NEW rows \in [Ops -> Row], NEW e \in Nat
    PROVE  /\ Fenced(rows, e) \in [Ops -> Row]
           /\ \A i \in Ops : LET q == Fenced(rows, e)[i] IN
                 \/ q = rows[i] /\ (e > storeEpoch /\ rows[i].st \in InStore => e <= rows[i].epoch)
                 \/ /\ e > storeEpoch /\ rows[i].st \in InStore /\ rows[i].epoch < e
                    /\ q = [rows[i] EXCEPT !.st =
                            IF rows[i].st = "acknowledged" THEN "retired" ELSE "restored"]
  BY AdvancedRows DEF Fenced

-----------------------------------------------------------------------------
(* What each step makes of a row *)

Left(i) == /\ row[i].st \in InStore /\ row[i].epoch < storeEpoch'
           /\ row'[i] = [row[i] EXCEPT !.st =
                         IF row[i].st = "acknowledged" THEN "retired" ELSE "restored"]
Stays(i) == row'[i] = row[i] /\ (row[i].st \in InStore => row[i].epoch = storeEpoch')

\* An operation is made, and waits for open ones of the same epoch.
Begun(t, i) == row[i].st = "unmade" /\ \E kind \in Kinds, deps \in SUBSET Ops, valid \in BOOLEAN :
    /\ row'[i] = Made(t, kind, deps, valid)
    /\ \A d \in deps : /\ d # i /\ row'[d].st \in InStore /\ row'[d].st # "acknowledged"
                       /\ row'[d].kind # "delete"
    /\ kind = "create" => deps = {}
    /\ kind = "field" => \A d \in deps : row'[d].kind = "create"
Withdrawn(i) == /\ NeverSent(row[i]) /\ row[i].kind # "delete" /\ row[i].epoch = storeEpoch'
                /\ row'[i] = [row[i] EXCEPT !.st = "withdrawn"]
Failed(i) == /\ row[i].st \in {"pending", "syncing"} /\ row[i].epoch = storeEpoch'
             /\ row'[i] = FailedRow(row[i])
             /\ \E d \in row[i].deps : ~Succeeded(row[d])
Discarded(i) == /\ row[i].st \in {"conflict", "restored"}
                /\ row'[i] = [row[i] EXCEPT !.st = "discarded"]

Intended(t) ==
    /\ row' \in [Ops -> Row]
    /\ storeEpoch' = tab[t].page /\ storeEpoch <= storeEpoch'
    /\ \A i \in Ops : \/ Stays(i) \/ Left(i) \/ Begun(t, i) \/ Withdrawn(i) \/ Failed(i)
                      \/ Discarded(i)

LEMMA MadeRow ==
    ASSUME TypeOK, NEW t \in Tabs, NEW kind \in Kinds, NEW deps \in SUBSET Ops,
           NEW valid \in BOOLEAN
    PROVE  LET r == Made(t, kind, deps, valid) IN
           /\ r \in Row /\ r.st = "pending" /\ r.kind = kind /\ r.deps = deps
           /\ r.epoch = tab[t].page /\ r.attempts = 0 /\ r.result = "none" /\ r.valid = valid
  <1>1. tab[t].page \in 0..MaxEpoch
    BY DEF TypeOK, Tab
  <1>2. Unmade \in Row
    BY OutboxAssumption DEF Unmade, Row, Status, Kinds, Results
  <1> QED BY <1>1, <1>2 DEF Made, Unmade, Row, Status, Results

\* The rows an intent starts from: of its page's epoch, or out of the queue.
LEMMA RowsForRows ==
    ASSUME TypeOK, Epochs, NEW t \in Tabs, MayIntend(t), storeEpoch' = tab[t].page
    PROVE  /\ RowsFor(t) \in [Ops -> Row] /\ storeEpoch <= storeEpoch'
           /\ storeEpoch \in Nat /\ storeEpoch' \in Nat
           /\ \A i \in Ops : LET r == RowsFor(t)[i] IN
                 /\ r.st \in InStore => r = row[i] /\ row[i].epoch = storeEpoch'
                 /\ \/ r = row[i]
                    \/ /\ row[i].st \in InStore /\ row[i].epoch < storeEpoch'
                       /\ r = [row[i] EXCEPT !.st =
                               IF row[i].st = "acknowledged" THEN "retired" ELSE "restored"]
                 /\ row[i].st \in {"unmade", "restored", "retired", "withdrawn", "discarded"}
                       => r = row[i]
  <1>1. /\ tab[t].page \in Nat /\ storeEpoch \in Nat /\ storeEpoch <= tab[t].page
        /\ row \in [Ops -> Row]
        /\ \A i \in Ops : row[i].epoch \in Nat
    BY OutboxAssumption DEF TypeOK, Tab, Row, MayIntend
  <1>2. CASE tab[t].page > storeEpoch
    <2>1. RowsFor(t) = Advanced(row, tab[t].page)
      BY <1>2 DEF RowsFor
    <2>2. \A i \in Ops : row[i].st \in InStore => row[i].epoch < tab[t].page
      BY <1>1, <1>2 DEF Epochs
    <2>3. \A i \in Ops : LET r == Advanced(row, tab[t].page)[i] IN
             \/ r = row[i] /\ row[i].st \notin InStore
             \/ /\ row[i].st \in InStore /\ row[i].epoch < tab[t].page
                /\ r = [row[i] EXCEPT !.st =
                        IF row[i].st = "acknowledged" THEN "retired" ELSE "restored"]
      BY <1>1, <2>2, AdvancedRows
    <2>4. \A i \in Ops : row[i].st \in InStore => Advanced(row, tab[t].page)[i].st \notin InStore
      <3>1. \A i \in Ops : row[i] \in Row
        BY <1>1
      <3> QED BY <2>2, <2>3, <3>1 DEF InStore, Row
    <2> QED BY <1>1, <2>1, <2>3, <2>4, AdvancedRows DEF InStore
  <1>3. CASE tab[t].page = storeEpoch
    <2>1. RowsFor(t) = row
      BY <1>1, <1>3 DEF RowsFor
    <2> QED BY <1>1, <1>3, <2>1 DEF Epochs
  <1> QED BY <1>1, <1>2, <1>3

LEMMA CreateRows ==
    ASSUME TypeOK, Epochs, NEW t \in Tabs, Create(t)
    PROVE  Intended(t)
  <1> DEFINE rows == RowsFor(t)
  <1>1. /\ MayIntend(t) /\ row[1].st = "unmade" /\ 1 \in Ops /\ storeEpoch' = tab[t].page
    BY OutboxAssumption DEF Create, Intend, Ops
  <1>2. PICK valid \in BOOLEAN : row' = [rows EXCEPT ![1] = Made(t, "create", {}, valid)]
    BY DEF Create, Intend
  <1>3. /\ rows \in [Ops -> Row] /\ storeEpoch <= storeEpoch' /\ row \in [Ops -> Row]
        /\ \A i \in Ops : /\ rows[i].st \in InStore => rows[i] = row[i] /\ row[i].epoch = storeEpoch'
                          /\ \/ rows[i] = row[i]
                             \/ /\ row[i].st \in InStore /\ row[i].epoch < storeEpoch'
                                /\ rows[i] = [row[i] EXCEPT !.st =
                                     IF row[i].st = "acknowledged" THEN "retired" ELSE "restored"]
    BY <1>1, RowsForRows DEF TypeOK
  <1> HIDE DEF rows
  <1>4. Made(t, "create", {}, valid) \in Row /\ "create" \in Kinds /\ {} \in SUBSET Ops
    BY MadeRow DEF Kinds
  <1>5. row' \in [Ops -> Row] /\ row'[1] = Made(t, "create", {}, valid)
        /\ \A i \in Ops \ {1} : row'[i] = rows[i]
    BY <1>1, <1>2, <1>3, <1>4
  <1>6. Begun(t, 1)
    BY <1>1, <1>4, <1>5 DEF Begun
  <1>7. ASSUME NEW i \in Ops \ {1} PROVE Stays(i) \/ Left(i)
    BY <1>3, <1>5 DEF Stays, Left
  <1> QED BY <1>1, <1>3, <1>5, <1>6, <1>7 DEF Intended

\* What an intent withdraws was never sent, and the rest of its rows it keeps.
LEMMA IntendedFrom ==
    ASSUME TypeOK, Epochs, NEW t \in Tabs, MayIntend(t), storeEpoch' = tab[t].page,
           NEW gone \in SUBSET Ops, NEW next \in Ops \cup {0}, next \notin gone,
           next # 0 => row[next].st = "unmade" /\ Begun(t, next),
           \A i \in gone : /\ RowsFor(t)[i].st \in InStore /\ NeverSent(RowsFor(t)[i])
                           /\ RowsFor(t)[i].kind # "delete",
           row' \in [Ops -> Row],
           \A i \in Ops \ {next} : row'[i] =
               IF i \in gone THEN [RowsFor(t)[i] EXCEPT !.st = "withdrawn"] ELSE RowsFor(t)[i]
    PROVE  Intended(t)
  <1> DEFINE rows == RowsFor(t)
  <1>1. /\ rows \in [Ops -> Row] /\ storeEpoch <= storeEpoch' /\ row \in [Ops -> Row]
        /\ \A i \in Ops : /\ rows[i].st \in InStore => rows[i] = row[i] /\ row[i].epoch = storeEpoch'
                          /\ \/ rows[i] = row[i]
                             \/ /\ row[i].st \in InStore /\ row[i].epoch < storeEpoch'
                                /\ rows[i] = [row[i] EXCEPT !.st =
                                     IF row[i].st = "acknowledged" THEN "retired" ELSE "restored"]
    BY RowsForRows DEF TypeOK
  <1>2. /\ \A i \in gone : rows[i].st \in InStore /\ NeverSent(rows[i]) /\ rows[i].kind # "delete"
        /\ \A i \in Ops \ {next} : row'[i] =
               IF i \in gone THEN [rows[i] EXCEPT !.st = "withdrawn"] ELSE rows[i]
    OBVIOUS
  <1> HIDE DEF rows
  <1>3. ASSUME NEW i \in gone PROVE Withdrawn(i)
    BY <1>1, <1>2 DEF Withdrawn
  <1>4. ASSUME NEW i \in Ops \ {next}, i \notin gone PROVE Stays(i) \/ Left(i)
    <2>1. row'[i] = rows[i]
      BY <1>2, <1>4
    <2>2. CASE rows[i] = row[i]
      BY <1>1, <2>1, <2>2 DEF Stays
    <2>3. CASE rows[i] # row[i]
      BY <1>1, <2>1, <2>3 DEF Left
    <2> QED BY <2>2, <2>3
  <1>5. ASSUME NEW i \in Ops PROVE Stays(i) \/ Left(i) \/ Begun(t, i) \/ Withdrawn(i)
    <2>1. CASE i = next
      BY <2>1 DEF Ops
    <2>2. CASE i # next
      BY <1>3, <1>4, <2>2
    <2> QED BY <2>1, <2>2
  <1> QED BY <1>1, <1>5 DEF Intended

LEMMA SaveFieldRows ==
    ASSUME TypeOK, Epochs, NEW t \in Tabs, SaveField(t)
    PROVE  Intended(t)
  <1> DEFINE rows == RowsFor(t)
             old  == Of(rows, "field")
             left == [i \in Ops |-> IF i \in old THEN [rows[i] EXCEPT !.st = "withdrawn"] ELSE rows[i]]
             new  == Made(t, "field", Creation(rows), TRUE)
  <1>1. /\ MayIntend(t) /\ storeEpoch' = tab[t].page
        /\ \A i \in old : NeverSent(rows[i])
        /\ \/ Room /\ row' = [left EXCEPT ![NextOp] = new]
           \/ row' = left
    BY DEF SaveField, Intend, Coalescable
  <1>2. /\ rows \in [Ops -> Row] /\ row \in [Ops -> Row]
        /\ \A i \in Ops : /\ rows[i].st \in InStore => rows[i] = row[i] /\ row[i].epoch = storeEpoch'
                          /\ row[i].st = "unmade" => rows[i] = row[i]
    BY <1>1, RowsForRows, Zenon DEF TypeOK
  <1>3. /\ old \in SUBSET Ops
        /\ \A i \in old : rows[i].st \in InStore /\ rows[i].kind = "field"
        /\ \A i \in Creation(rows) : /\ i \in Ops /\ rows[i].st \in InStore
                                     /\ rows[i].st # "acknowledged" /\ rows[i].kind = "create"
    BY DEF Of, Stored, Creation
  <1> HIDE DEF rows, old
  <1>4. \A i \in Ops : rows[i] \in Row /\ [rows[i] EXCEPT !.st = "withdrawn"] \in Row
    BY <1>2, RowEdit, Zenon DEF Status
  <1>5. left \in [Ops -> Row]
    BY <1>4
  <1>6. CASE row' = left
    <2>1. \A i \in Ops \ {0} : row'[i] =
             IF i \in old THEN [rows[i] EXCEPT !.st = "withdrawn"] ELSE rows[i]
      BY <1>6
    <2>2. 0 \notin old
      BY <1>3 DEF Ops
    <2>3. row' \in [Ops -> Row]
      BY <1>5, <1>6
    <2>4. \A i \in old : rows[i].st \in InStore /\ NeverSent(rows[i]) /\ rows[i].kind # "delete"
      BY <1>1, <1>3
    <2> HIDE DEF left
    <2> QED BY <1>1, <1>3, <2>1, <2>2, <2>3, <2>4, IntendedFrom DEF rows
  <1>7. CASE Room /\ row' = [left EXCEPT ![NextOp] = new]
    <2>1. NextOp \in Ops /\ row[NextOp].st = "unmade"
      BY <1>2, <1>7, NextOpFree
    <2>2. NextOp \notin old /\ NextOp \notin Creation(rows)
      BY <1>2, <1>3, <2>1 DEF InStore
    <2>3. new \in Row /\ "field" \in Kinds /\ TRUE \in BOOLEAN /\ Creation(rows) \in SUBSET Ops
      BY <1>3, MadeRow DEF Kinds
    <2> HIDE DEF new
    <2>4. /\ row' \in [Ops -> Row] /\ row'[NextOp] = new
          /\ \A i \in Ops \ {NextOp} : row'[i] =
               IF i \in old THEN [rows[i] EXCEPT !.st = "withdrawn"] ELSE rows[i]
      BY <1>5, <1>7, <2>1, <2>3
    <2> HIDE DEF left
    <2>5. \A d \in Creation(rows) : /\ d # NextOp /\ row'[d].st \in InStore
                                    /\ row'[d].st # "acknowledged" /\ row'[d].kind = "create"
      BY <1>3, <2>2, <2>4
    <2>6. Begun(t, NextOp)
      <3> DEFINE c == Creation(rows)
      <3>1. /\ row'[NextOp] = Made(t, "field", c, TRUE) /\ c \in SUBSET Ops
            /\ \A d \in c : /\ d # NextOp /\ row'[d].st \in InStore
                           /\ row'[d].st # "acknowledged" /\ row'[d].kind # "delete"
            /\ \A d \in c : row'[d].kind = "create"
        BY <2>3, <2>4, <2>5 DEF new
      <3> HIDE DEF c
      <3> QED BY <2>1, <2>3, <3>1 DEF Begun
    <2> QED BY <1>1, <1>3, <2>1, <2>2, <2>4, <2>6, IntendedFrom DEF rows
  <1> QED BY <1>1, <1>6, <1>7

LEMMA DeleteRows ==
    ASSUME TypeOK, Epochs, NEW t \in Tabs, Delete(t)
    PROVE  Intended(t)
  <1> DEFINE rows == RowsFor(t)
             mine == Of(rows, "create") \cup Of(rows, "field")
             away == {i \in mine : Coalescable(rows[i])}
             fold == Of(rows, "create") # {} /\ away = mine
             gone == IF fold THEN mine ELSE {i \in away : rows[i].kind # "create"}
             left == [i \in Ops |-> IF i \in gone THEN [rows[i] EXCEPT !.st = "withdrawn"] ELSE rows[i]]
             new  == Made(t, "delete", mine \ gone, TRUE)
  <1>1. /\ MayIntend(t) /\ storeEpoch' = tab[t].page
        /\ \/ Room /\ row' = [left EXCEPT ![NextOp] = new]
           \/ row' = left
    BY DEF Delete, Intend
  <1>2. /\ rows \in [Ops -> Row] /\ row \in [Ops -> Row]
        /\ \A i \in Ops : /\ rows[i].st \in InStore => rows[i] = row[i] /\ row[i].epoch = storeEpoch'
                          /\ row[i].st = "unmade" => rows[i] = row[i]
    BY <1>1, RowsForRows DEF TypeOK
  <1>3. /\ mine \in SUBSET Ops
        /\ \A i \in mine : /\ rows[i].st \in InStore /\ rows[i].st # "acknowledged"
                           /\ rows[i].kind \in {"create", "field"}
    BY DEF Of, Stored
  <1>4. gone \in SUBSET Ops /\ gone \subseteq mine /\ \A i \in gone : NeverSent(rows[i])
    BY <1>3 DEF Coalescable
  <1> HIDE DEF rows, mine, gone
  <1>5. \A i \in Ops : rows[i] \in Row /\ [rows[i] EXCEPT !.st = "withdrawn"] \in Row
    BY <1>2, RowEdit DEF Status
  <1>6. left \in [Ops -> Row]
    BY <1>5
  <1>7. \A i \in gone : rows[i].st \in InStore /\ NeverSent(rows[i]) /\ rows[i].kind # "delete"
    BY <1>3, <1>4
  <1>8. CASE row' = left
    <2>1. \A i \in Ops \ {0} : row'[i] =
             IF i \in gone THEN [rows[i] EXCEPT !.st = "withdrawn"] ELSE rows[i]
      BY <1>8
    <2>2. 0 \notin gone
      BY <1>4 DEF Ops
    <2> HIDE DEF left
    <2> QED BY <1>1, <1>4, <1>6, <1>7, <1>8, <2>1, <2>2, IntendedFrom DEF rows
  <1>9. CASE Room /\ row' = [left EXCEPT ![NextOp] = new]
    <2>1. NextOp \in Ops /\ row[NextOp].st = "unmade"
      BY <1>2, <1>9, NextOpFree
    <2>2. NextOp \notin mine /\ NextOp \notin gone
      BY <1>2, <1>3, <1>4, <2>1 DEF InStore
    <2>3. new \in Row /\ "delete" \in Kinds /\ TRUE \in BOOLEAN /\ mine \ gone \in SUBSET Ops
      BY <1>3, MadeRow DEF Kinds
    <2> HIDE DEF new
    <2>4. /\ row' \in [Ops -> Row] /\ row'[NextOp] = new
          /\ \A i \in Ops \ {NextOp} : row'[i] =
               IF i \in gone THEN [rows[i] EXCEPT !.st = "withdrawn"] ELSE rows[i]
      BY <1>6, <1>9, <2>1, <2>3
    <2> HIDE DEF left
    <2>5. \A d \in mine \ gone : /\ d # NextOp /\ row'[d].st \in InStore
                                 /\ row'[d].st # "acknowledged" /\ row'[d].kind # "delete"
      BY <1>3, <2>2, <2>4
    <2>6. Begun(t, NextOp)
      BY <2>1, <2>3, <2>4, <2>5 DEF Begun, new
    <2> QED BY <1>1, <1>4, <1>7, <2>1, <2>2, <2>4, <2>6, IntendedFrom DEF rows
  <1> QED BY <1>1, <1>8, <1>9

LEMMA DiscardRows ==
    ASSUME TypeOK, Epochs, DepsMade, NEW t \in Tabs, NEW i \in Ops, Discard(t, i)
    PROVE  Intended(t)
  <1> DEFINE rows == RowsFor(t)
             left == DependentsFailed(rows, i)
  <1>1. /\ MayIntend(t) /\ storeEpoch' = tab[t].page /\ rows[i].st = "conflict"
        /\ row' = [left EXCEPT ![i].st = "discarded"]
    BY DEF Discard, Intend
  <1>2. /\ rows \in [Ops -> Row] /\ storeEpoch <= storeEpoch' /\ row \in [Ops -> Row]
        /\ \A j \in Ops : /\ rows[j].st \in InStore => rows[j] = row[j] /\ row[j].epoch = storeEpoch'
                          /\ \/ rows[j] = row[j]
                             \/ /\ row[j].st \in InStore /\ row[j].epoch < storeEpoch'
                                /\ rows[j] = [row[j] EXCEPT !.st =
                                     IF row[j].st = "acknowledged" THEN "retired" ELSE "restored"]
    BY <1>1, RowsForRows DEF TypeOK
  <1> HIDE DEF rows
  <1>3. /\ left \in [Ops -> Row] /\ left[i] = rows[i]
        /\ \A j \in Ops : \/ left[j] = rows[j]
                          \/ /\ rows[j].st \in {"pending", "syncing"} /\ left[j] = FailedRow(rows[j])
                             /\ \E d \in rows[j].deps : d = i \/ rows[d].st # "acknowledged"
    BY <1>2, DependentsFailedRows
  <1> HIDE DEF left
  <1>4. row[i].st = "conflict" /\ rows[i] = row[i]
    BY <1>1, <1>2, Zenon DEF InStore
  <1>5. [left[i] EXCEPT !.st = "discarded"] \in Row
    BY <1>3, RowEdit, Zenon DEF Status
  <1>6. /\ row' \in [Ops -> Row] /\ row'[i] = [row[i] EXCEPT !.st = "discarded"]
        /\ \A j \in Ops \ {i} : row'[j] = left[j]
    BY <1>1, <1>3, <1>4, <1>5
  <1>7. Discarded(i)
    BY <1>4, <1>6 DEF Discarded
  <1>8. ASSUME NEW j \in Ops \ {i}, left[j] = rows[j] PROVE Stays(j) \/ Left(j)
    <2>1. row'[j] = rows[j]
      BY <1>6, <1>8
    <2>2. CASE rows[j] = row[j]
      BY <1>2, <2>1, <2>2 DEF Stays
    <2>3. CASE rows[j] # row[j]
      BY <1>2, <2>1, <2>3 DEF Left
    <2> QED BY <2>2, <2>3
  <1>9. ASSUME NEW j \in Ops \ {i}, left[j] # rows[j] PROVE Failed(j)
    <2>1. /\ rows[j].st \in {"pending", "syncing"} /\ row'[j] = FailedRow(rows[j])
          /\ \E d \in rows[j].deps : d = i \/ rows[d].st # "acknowledged"
      BY <1>3, <1>6, <1>9
    <2>2. rows[j] = row[j] /\ row[j].epoch = storeEpoch'
      BY <1>2, <2>1 DEF InStore
    <2>3. PICK d \in row[j].deps : d = i \/ rows[d].st # "acknowledged"
      BY <2>1, <2>2
    <2>4. d \in Ops /\ row[d].epoch = storeEpoch' /\ storeEpoch' \in Nat
      BY <1>2, <2>2, OutboxAssumption DEF DepsMade, Row
    <2>5. rows[d] = row[d]
      BY <1>2, <2>4
    <2>6. ~Succeeded(row[d])
      BY <1>4, <2>3, <2>5 DEF Succeeded
    <2> QED BY <2>1, <2>2, <2>6 DEF Failed
  <1> QED BY <1>1, <1>2, <1>6, <1>7, <1>8, <1>9 DEF Intended

Resumed(i) == /\ row[i].st = "syncing" /\ row[i].epoch = storeEpoch'
              /\ row'[i] = [row[i] EXCEPT !.st = "pending"]

\* A row is retired when no open row of the queue names it any more.
Retired(i) == /\ row[i].st = "acknowledged" /\ row[i].epoch = storeEpoch'
              /\ row'[i] = [row[i] EXCEPT !.st = "retired"]
              /\ \A k \in Ops : row'[k].st \in {"pending", "syncing"} => i \notin row'[k].deps

Coordinated ==
    /\ row' \in [Ops -> Row]
    /\ storeEpoch <= storeEpoch' /\ storeEpoch' <= epoch /\ storeEpoch' \in Nat
    /\ \A i \in Ops : Stays(i) \/ Left(i) \/ Resumed(i) \/ Retired(i) \/ Failed(i)

\* What a fence leaves in the queue is of the epoch it fenced to.
LEMMA FencedFrom ==
    ASSUME TypeOK, Epochs, NEW e \in 0..MaxEpoch, e <= epoch, storeEpoch' = FencedEpoch(e)
    PROVE  /\ Fenced(row, e) \in [Ops -> Row] /\ row \in [Ops -> Row]
           /\ storeEpoch <= storeEpoch' /\ storeEpoch' <= epoch /\ storeEpoch' \in Nat
           /\ \A i \in Ops : LET r == Fenced(row, e)[i] IN
                 /\ r.st \in InStore => r = row[i] /\ row[i].epoch = storeEpoch'
                 /\ \/ r = row[i]
                    \/ /\ row[i].st \in InStore /\ row[i].epoch < storeEpoch'
                       /\ r = [row[i] EXCEPT !.st =
                               IF row[i].st = "acknowledged" THEN "retired" ELSE "restored"]
  <1>1. /\ row \in [Ops -> Row] /\ e \in Nat /\ storeEpoch \in Nat /\ epoch \in Nat
        /\ storeEpoch <= epoch
    BY OutboxAssumption DEF TypeOK, Epochs
  <1>2. \A i \in Ops : /\ row[i].epoch \in Nat
                       /\ [row[i] EXCEPT !.st = "retired"].st \notin InStore
                       /\ [row[i] EXCEPT !.st = "restored"].st \notin InStore
    BY <1>1 DEF Row, InStore
  <1>3. \A i \in Ops : row[i].st \in InStore => row[i].epoch = storeEpoch
    BY DEF Epochs
  <1> DEFINE f == Fenced(row, e)
  <1>4. /\ f \in [Ops -> Row]
        /\ \A i \in Ops :
              \/ f[i] = row[i] /\ (e > storeEpoch /\ row[i].st \in InStore => e <= row[i].epoch)
              \/ /\ e > storeEpoch /\ row[i].st \in InStore /\ row[i].epoch < e
                 /\ f[i] = [row[i] EXCEPT !.st =
                            IF row[i].st = "acknowledged" THEN "retired" ELSE "restored"]
    BY <1>1, FencedRows
  <1> HIDE DEF f
  <1>5. CASE e > storeEpoch
    <2>1. storeEpoch' = e
      BY <1>5 DEF FencedEpoch
    <2>2. \A i \in Ops : row[i].st \in InStore => ~(e <= row[i].epoch)
      BY <1>1, <1>3, <1>5
    <2>3. \A i \in Ops :
              \/ f[i] = row[i] /\ row[i].st \notin InStore
              \/ /\ row[i].st \in InStore /\ row[i].epoch < e
                 /\ f[i] = [row[i] EXCEPT !.st =
                            IF row[i].st = "acknowledged" THEN "retired" ELSE "restored"]
      BY <1>4, <1>5, <2>2
    <2>4. \A i \in Ops : f[i].st \notin InStore
      BY <1>2, <2>3
    <2> QED BY <1>1, <1>4, <1>5, <2>1, <2>3, <2>4 DEF f
  <1>6. CASE ~(e > storeEpoch)
    <2>1. storeEpoch' = storeEpoch
      BY <1>6 DEF FencedEpoch
    <2>2. \A i \in Ops : f[i] = row[i]
      BY <1>4, <1>6
    <2> QED BY <1>1, <1>3, <1>4, <2>1, <2>2 DEF f
  <1> QED BY <1>5, <1>6

\* The start of a drain fences, resumes and repairs.
LEMMA WakeRows ==
    ASSUME TypeOK, Epochs, DepsMade, NEW t \in Tabs, Wake(t)
    PROVE  Coordinated
  <1> DEFINE fenced == Fenced(row, tab[t].latest)
             mended == Recovered(t, fenced)
  <1>1. /\ row' = Repaired(mended) /\ storeEpoch' = FencedEpoch(tab[t].latest)
        /\ tab[t].latest \in 0..MaxEpoch /\ tab[t].latest <= epoch
    BY DEF Wake, TypeOK, Tab, Epochs
  <1>2. /\ fenced \in [Ops -> Row] /\ row \in [Ops -> Row]
        /\ storeEpoch <= storeEpoch' /\ storeEpoch' <= epoch /\ storeEpoch' \in Nat
        /\ \A i \in Ops :
              /\ fenced[i].st \in InStore => fenced[i] = row[i] /\ row[i].epoch = storeEpoch'
              /\ \/ fenced[i] = row[i]
                 \/ /\ row[i].st \in InStore /\ row[i].epoch < storeEpoch'
                    /\ fenced[i] = [row[i] EXCEPT !.st =
                            IF row[i].st = "acknowledged" THEN "retired" ELSE "restored"]
    BY <1>1, FencedFrom
  <1> HIDE DEF fenced
  <1>3. /\ mended \in [Ops -> Row]
        /\ \A i \in Ops : \/ mended[i] = fenced[i]
                          \/ fenced[i].st = "syncing" /\ mended[i] = [fenced[i] EXCEPT !.st = "pending"]
                          \/ RetiredRow(fenced, i) /\ mended[i] = [fenced[i] EXCEPT !.st = "retired"]
    BY <1>2, RecoveredRows
  <1> HIDE DEF mended
  <1>4. /\ row' \in [Ops -> Row]
        /\ \A i \in Ops : \/ row'[i] = mended[i]
                          \/ /\ mended[i].st \in {"pending", "syncing"} /\ row'[i] = FailedRow(mended[i])
                             /\ \E d \in mended[i].deps : ~Succeeded(mended[d])
    BY <1>1, <1>3, RepairedRows
  <1>5. ASSUME NEW i \in Ops
        PROVE  /\ mended[i].deps = fenced[i].deps /\ row'[i].deps = mended[i].deps
               /\ row'[i].st \in {"pending", "syncing"} => mended[i].st \in {"pending", "syncing"}
               /\ mended[i].st \in {"pending", "syncing"} =>
                     /\ fenced[i].st \in {"pending", "syncing"}
                     /\ FailedRow(mended[i]) = FailedRow(fenced[i])
    <2>1. /\ mended[i].deps = fenced[i].deps
          /\ mended[i].st \in {"pending", "syncing"} =>
                     /\ fenced[i].st \in {"pending", "syncing"}
                     /\ FailedRow(mended[i]) = FailedRow(fenced[i])
      <3>1. fenced[i] \in Row /\ "pending" \in Status /\ "retired" \in Status
        BY <1>2 DEF Status
      <3>2. CASE mended[i] = fenced[i]
        BY <3>2
      <3>3. CASE fenced[i].st = "syncing" /\ mended[i] = [fenced[i] EXCEPT !.st = "pending"]
        BY <3>1, <3>3, RowFields DEF Alike
      <3>4. CASE mended[i] = [fenced[i] EXCEPT !.st = "retired"]
        <4>1. mended[i].st = "retired" /\ mended[i].deps = fenced[i].deps
          BY <3>1, <3>4, RowFields DEF Alike
        <4> QED BY <4>1
      <3> QED BY <1>3, <3>2, <3>3, <3>4
    <2>2. /\ row'[i].deps = mended[i].deps
          /\ row'[i].st \in {"pending", "syncing"} => mended[i].st \in {"pending", "syncing"}
      <3>1. mended[i] \in Row
        BY <1>3
      <3> QED BY <1>4, <3>1, RowFields DEF Alike
    <2> QED BY <2>1, <2>2
  <1>6. ASSUME NEW i \in Ops, row'[i] = mended[i], mended[i] = fenced[i] PROVE Stays(i) \/ Left(i)
    <2>1. CASE fenced[i] = row[i]
      BY <1>2, <1>6, <2>1 DEF Stays
    <2>2. CASE fenced[i] # row[i]
      BY <1>2, <1>6, <2>2 DEF Left
    <2> QED BY <2>1, <2>2
  <1>7. ASSUME NEW i \in Ops, row'[i] = mended[i], fenced[i].st = "syncing",
               mended[i] = [fenced[i] EXCEPT !.st = "pending"]
        PROVE  Resumed(i)
    BY <1>2, <1>7 DEF Resumed, InStore
  <1>8. ASSUME NEW i \in Ops, row'[i] = mended[i], RetiredRow(fenced, i),
               mended[i] = [fenced[i] EXCEPT !.st = "retired"]
        PROVE  Retired(i)
    <2>1. fenced[i] = row[i] /\ row[i].epoch = storeEpoch' /\ row[i].st = "acknowledged"
      BY <1>2, <1>8 DEF RetiredRow, InStore
    <2>2. \A k \in Ops : row'[k].st \in {"pending", "syncing"} => i \notin row'[k].deps
      BY <1>5, <1>8 DEF RetiredRow, Unnamed, InStore
    <2> QED BY <1>8, <2>1, <2>2 DEF Retired
  <1>9. ASSUME NEW i \in Ops, mended[i].st \in {"pending", "syncing"},
               row'[i] = FailedRow(mended[i]),
               NEW d \in mended[i].deps, ~Succeeded(mended[d])
        PROVE  Failed(i)
    <2>1. /\ fenced[i].st \in {"pending", "syncing"} /\ row'[i] = FailedRow(fenced[i])
          /\ d \in fenced[i].deps
      BY <1>5, <1>9
    <2>2. fenced[i] = row[i] /\ row[i].epoch = storeEpoch'
      BY <1>2, <2>1 DEF InStore
    <2>3. d \in Ops /\ row[d].epoch = storeEpoch'
      BY <1>2, <2>1, <2>2 DEF DepsMade, Row
    <2>4. fenced[d] = row[d]
      BY <1>2, <2>3, OutboxAssumption DEF Row
    <2>5. ~RetiredRow(fenced, d)
      BY <2>1, <2>3 DEF RetiredRow, Unnamed, InStore
    <2>6. ~Succeeded(row[d])
      <3>1. CASE mended[d] = fenced[d]
        BY <1>9, <2>4, <3>1
      <3>2. CASE fenced[d].st = "syncing"
        BY <2>4, <3>2 DEF Succeeded
      <3> QED BY <1>3, <2>3, <2>5, <3>1, <3>2
    <2> QED BY <2>1, <2>2, <2>6 DEF Failed
  <1>10. ASSUME NEW i \in Ops
         PROVE  Stays(i) \/ Left(i) \/ Resumed(i) \/ Retired(i) \/ Failed(i)
    <2>1. CASE row'[i] = mended[i]
      BY <1>3, <1>6, <1>7, <1>8, <2>1
    <2>2. CASE row'[i] # mended[i]
      BY <1>4, <1>9, <2>2
    <2> QED BY <2>1, <2>2
  <1> QED BY <1>2, <1>4, <1>10 DEF Coordinated

LEMMA SettleRows ==
    ASSUME TypeOK, Epochs, DepsMade, AboutMade, NEW t \in Tabs, Settle(t)
    PROVE  Coordinated
  <1> DEFINE i == tab[t].op
  <1>1. i \in Ops /\ row \in [Ops -> Row] /\ storeEpoch' = storeEpoch
    BY DEF Settle, AboutMade, Busy, TypeOK
  <1>2. PICK rows \in {row, DependentsFailed(row, i)} :
           /\ row' = RetiredRows(rows, i)
           /\ rows # row => row[i].result # "none"
    BY DEF Settle
  <1> HIDE DEF i
  <1>3. /\ rows \in [Ops -> Row]
        /\ \A j \in Ops : \/ rows[j] = row[j]
                          \/ /\ row[j].st \in {"pending", "syncing"} /\ rows[j] = FailedRow(row[j])
                             /\ row[i].result # "none"
                             /\ \E d \in row[j].deps : d = i \/ row[d].st # "acknowledged"
    <2>1. CASE rows = row
      BY <1>1, <2>1
    <2>2. CASE rows # row
      BY <1>1, <1>2, <2>2, DependentsFailedRows
    <2> QED BY <2>1, <2>2
  <1>4. /\ row' \in [Ops -> Row]
        /\ \A j \in Ops : \/ row'[j] = rows[j]
                          \/ RetiredRow(rows, j) /\ row'[j] = [rows[j] EXCEPT !.st = "retired"]
    BY <1>1, <1>2, <1>3, RetiredRowsRows
  <1>5. \A j \in Ops : row[j].st \in InStore => row[j].epoch = storeEpoch'
    BY <1>1 DEF Epochs
  <1>6. storeEpoch' <= epoch /\ storeEpoch' \in Nat /\ storeEpoch <= storeEpoch'
    BY <1>1, OutboxAssumption DEF Epochs, TypeOK
  <1>7. ASSUME NEW j \in Ops, row'[j] = rows[j] PROVE Stays(j) \/ Failed(j)
    <2>1. CASE rows[j] = row[j]
      BY <1>5, <1>7, <2>1 DEF Stays
    <2>2. CASE rows[j] # row[j]
      <3>1. /\ row[j].st \in {"pending", "syncing"} /\ row'[j] = FailedRow(row[j])
            /\ \E d \in row[j].deps : ~Succeeded(row[d])
        BY <1>3, <1>7, <2>2 DEF Succeeded
      <3> QED BY <1>5, <3>1 DEF Failed, InStore
    <2> QED BY <2>1, <2>2
  <1>8. ASSUME NEW j \in Ops, RetiredRow(rows, j), row'[j] = [rows[j] EXCEPT !.st = "retired"]
        PROVE  Retired(j)
    <2>1. rows[j] = row[j] /\ row[j].st = "acknowledged"
      <3>1. row[j] \in Row /\ rows[j].st = "acknowledged"
        BY <1>1, <1>8 DEF RetiredRow
      <3> QED BY <1>3, <3>1, RowFields
    <2>2. \A k \in Ops : row'[k].st \in {"pending", "syncing"} =>
             row'[k] = rows[k]
      BY <1>3, <1>4 DEF Row
    <2>3. \A k \in Ops : row'[k].st \in {"pending", "syncing"} => j \notin row'[k].deps
      BY <1>8, <2>2 DEF RetiredRow, Unnamed, InStore
    <2> QED BY <1>5, <1>8, <2>1, <2>3 DEF Retired, InStore
  <1> QED BY <1>4, <1>6, <1>7, <1>8 DEF Coordinated

-----------------------------------------------------------------------------
(* The parts of the invariant: a row's, a tab's, a request's *)

RowOK(i) == /\ row[i].epoch <= storeEpoch
            /\ row[i].st \in InStore => row[i].epoch = storeEpoch
            /\ \A d \in row[i].deps : d # i /\ row[d].st # "unmade" /\ row[d].epoch = row[i].epoch
            /\ /\ row[i].epoch = epoch /\ row[i].result = "none"
               /\ row[i].st \in {"acknowledged", "retired"}
               => ledger[i] = "ack"

InOrder(i) == row[i].epoch = epoch => \A d \in row[i].deps : ledger[d] = "ack"

TabOK(t) == /\ tab[t].page <= epoch /\ tab[t].latest <= epoch
            /\ Busy(t) => tab[t].op \in Ops /\ row[tab[t].op].st # "unmade"
            /\ /\ tab[t].st = "answered" /\ tab[t].answer \in {"ack", "refused"}
               /\ row[tab[t].op].epoch = epoch
               => ledger[tab[t].op] = tab[t].answer
            /\ tab[t].st \in {"picked", "claimed"} => InOrder(tab[t].op)

WireOK(c) == row[c.op].st # "unmade" /\ InOrder(c.op)

AllOK == /\ TypeOK /\ storeEpoch <= epoch
         /\ \A i \in Ops : RowOK(i)
         /\ \A t \in Tabs : TabOK(t)
         /\ \A c \in wire : WireOK(c)

LEMMA Whole == OInv <=> AllOK
  <1>1. ASSUME OInv
        PROVE  /\ TypeOK /\ storeEpoch <= epoch
               /\ \A i \in Ops : RowOK(i)
               /\ \A t \in Tabs : TabOK(t)
               /\ \A c \in wire : WireOK(c)
    <2>1. TypeOK /\ AboutMade /\ Epochs /\ DepsMade /\ Believed /\ PickedInOrder /\ SentInOrder
      BY <1>1 DEF OInv
    <2>2. \A i \in Ops : RowOK(i)
      BY <2>1 DEF Epochs, DepsMade, Believed, RowOK
    <2>3. \A t \in Tabs : TabOK(t)
      BY <2>1 DEF AboutMade, Epochs, Believed, PickedInOrder, TabOK, InOrder
    <2>4. \A c \in wire : WireOK(c)
      BY <2>1 DEF AboutMade, SentInOrder, WireOK, InOrder
    <2> QED BY <2>1, <2>2, <2>3, <2>4 DEF Epochs
  <1>2. ASSUME TypeOK, storeEpoch <= epoch, \A i \in Ops : RowOK(i), \A t \in Tabs : TabOK(t),
               \A c \in wire : WireOK(c)
        PROVE  OInv
    <2>1. AboutMade
      BY <1>2 DEF AboutMade, TabOK, WireOK
    <2>2. Epochs
      BY <1>2 DEF Epochs, TabOK, RowOK
    <2>3. DepsMade
      BY <1>2 DEF DepsMade, RowOK
    <2>4. Believed
      BY <1>2 DEF Believed, RowOK, TabOK
    <2>5. PickedInOrder /\ SentInOrder
      BY <1>2 DEF PickedInOrder, SentInOrder, TabOK, WireOK, InOrder
    <2> QED BY <1>2, <2>1, <2>2, <2>3, <2>4, <2>5 DEF OInv
  <1> QED BY <1>1, <1>2 DEF AllOK

LEMMA Parts ==
    OInv => /\ TypeOK /\ storeEpoch <= epoch
            /\ \A i \in Ops : RowOK(i)
            /\ \A t \in Tabs : TabOK(t)
            /\ \A c \in wire : WireOK(c)
  BY Whole DEF AllOK

LEMMA WholeNext == OInv' <=> AllOK'
  BY Whole, PTL

\* A row of before, changed but still of the same operation.
Edited(i) == /\ Alike(row[i], row'[i])
             /\ row[i].st = "unmade" <=> row'[i].st = "unmade"
             /\ row'[i].st \in InStore => row[i].st \in InStore /\ row[i].epoch = storeEpoch'
             /\ /\ row'[i].st \in {"acknowledged", "retired"} /\ row'[i].result = "none"
                /\ row[i].epoch = epoch
                => ledger[i] = "ack"

LEMMA EditedRow ==
    ASSUME TypeOK, NEW i \in Ops, RowOK(i),
           \/ Stays(i) \/ Left(i) \/ Resumed(i) \/ Retired(i) \/ Failed(i) \/ Withdrawn(i)
           \/ Discarded(i)
    PROVE  Edited(i)
  <1>1. row[i] \in Row
    BY DEF TypeOK
  <1>2. CASE Stays(i)
    BY <1>2 DEF Stays, Edited, Alike, RowOK
  <1>3. CASE Left(i)
    BY <1>1, <1>3 DEF Left, Edited, Alike, RowOK, Row, InStore
  <1>4. CASE Resumed(i)
    BY <1>1, <1>4 DEF Resumed, Edited, Alike, Row, InStore
  <1>5. CASE Retired(i)
    BY <1>1, <1>5 DEF Retired, Edited, Alike, RowOK, Row, InStore
  <1>6. CASE Failed(i)
    <2>1. /\ row[i].st \in {"pending", "syncing"} /\ row[i].epoch = storeEpoch'
          /\ row'[i] = FailedRow(row[i])
      BY <1>6 DEF Failed
    <2>2. Alike(row[i], row'[i]) /\ row'[i].st = "conflict"
      BY <1>1, <2>1, RowFields
    <2> QED BY <2>1, <2>2 DEF Edited, InStore
  <1>7. CASE Withdrawn(i)
    BY <1>1, <1>7 DEF Withdrawn, NeverSent, Edited, Alike, Row, InStore
  <1>8. CASE Discarded(i)
    BY <1>1, <1>8 DEF Discarded, Edited, Alike, Row, InStore
  <1> QED BY <1>2, <1>3, <1>4, <1>5, <1>6, <1>7, <1>8

\* Rows may be edited or begun, under the store's new epoch.
RowsEdited ==
    /\ row' \in [Ops -> Row]
    /\ storeEpoch <= storeEpoch' /\ storeEpoch' <= epoch /\ storeEpoch' \in Nat
    /\ \A i \in Ops : Edited(i) \/ \E t \in Tabs : Begun(t, i) /\ tab[t].page = storeEpoch'

LEMMA RowsKept ==
    ASSUME OInv, RowsEdited, UNCHANGED serverVars
    PROVE  /\ storeEpoch' \in 0..MaxEpoch
           /\ \A i \in Ops : RowOK(i)'
           /\ \A i \in Ops : row[i].st # "unmade" => row'[i].st # "unmade" /\ Alike(row[i], row'[i])
  <1>1. /\ row \in [Ops -> Row] /\ row' \in [Ops -> Row] /\ \A i \in Ops : RowOK(i)
        /\ \A i \in Ops : row[i].epoch \in Nat /\ row[i].deps \subseteq Ops
        /\ storeEpoch \in Nat /\ storeEpoch' \in Nat /\ storeEpoch <= storeEpoch'
        /\ ledger' = ledger /\ epoch' = epoch
    BY Parts, OutboxAssumption DEF TypeOK, Row, RowsEdited, serverVars
  <1>2. storeEpoch' \in 0..MaxEpoch
    BY Parts, OutboxAssumption DEF RowsEdited, TypeOK
  <1>3. ASSUME NEW i \in Ops, Edited(i)
        PROVE  /\ row'[i].epoch <= storeEpoch'
               /\ row'[i].st \in InStore => row'[i].epoch = storeEpoch'
    BY <1>1, <1>3 DEF Edited, Alike, RowOK
  <1>4. ASSUME NEW i \in Ops, NEW t \in Tabs, Begun(t, i), tab[t].page = storeEpoch'
        PROVE  /\ row[i].st = "unmade" /\ row'[i].epoch = storeEpoch' /\ row'[i].st = "pending"
               /\ \A d \in row'[i].deps : d \in Ops /\ d # i /\ row'[d].st \in InStore
    <2>1. PICK kind \in Kinds, deps \in SUBSET Ops, valid \in BOOLEAN :
             /\ row'[i] = Made(t, kind, deps, valid)
             /\ \A d \in deps : d # i /\ row'[d].st \in InStore
      BY <1>4 DEF Begun
    <2>2. row'[i].deps = deps /\ row'[i].epoch = storeEpoch' /\ row'[i].st = "pending"
      BY <1>4, <2>1, Parts, MadeRow
    <2> QED BY <1>4, <2>1, <2>2 DEF Begun
  <1>5. \A i \in Ops : /\ row'[i].epoch <= storeEpoch'
                       /\ row'[i].st \in InStore => row'[i].epoch = storeEpoch'
    BY <1>1, <1>3, <1>4 DEF RowsEdited
  <1>6. \A i \in Ops : row[i].st # "unmade" => Edited(i)
    BY DEF RowsEdited, Begun
  <1>7. \A i \in Ops : row[i].st # "unmade" => row'[i].st # "unmade" /\ Alike(row[i], row'[i])
    BY <1>6 DEF Edited
  <1>8. ASSUME NEW i \in Ops, Edited(i) PROVE RowOK(i)'
    <2>1. \A d \in row[i].deps : /\ d \in Ops /\ d # i /\ row[d].st # "unmade"
                                 /\ row[d].epoch = row[i].epoch
      BY <1>1 DEF RowOK
    <2>2. row'[i].deps = row[i].deps /\ row'[i].epoch = row[i].epoch
      BY <1>8 DEF Edited, Alike
    <2>3. \A d \in row'[i].deps : /\ d # i /\ row'[d].st # "unmade"
                                  /\ row'[d].epoch = row'[i].epoch
      BY <1>7, <2>1, <2>2 DEF Alike
    <2>4. (/\ row'[i].st \in {"acknowledged", "retired"} /\ row'[i].result = "none"
           /\ row'[i].epoch = epoch) => ledger[i] = "ack"
      BY <1>8, <2>2 DEF Edited
    <2> QED BY <1>1, <1>5, <2>3, <2>4 DEF RowOK
  <1>9. ASSUME NEW i \in Ops, NEW t \in Tabs, Begun(t, i), tab[t].page = storeEpoch'
        PROVE  RowOK(i)'
    <2>1. /\ row'[i].epoch = storeEpoch' /\ row'[i].st = "pending"
          /\ \A d \in row'[i].deps : d \in Ops /\ d # i /\ row'[d].st \in InStore
      BY <1>4, <1>9
    <2>2. \A d \in row'[i].deps : d # i /\ row'[d].st # "unmade" /\ row'[d].epoch = row'[i].epoch
      BY <1>5, <2>1 DEF InStore
    <2> QED BY <1>1, <1>5, <2>1, <2>2 DEF RowOK
  <1> QED BY <1>2, <1>7, <1>8, <1>9 DEF RowsEdited

\* A tab goes on with what it has in hand, or puts it down.
PutDown(t) ==
    /\ tab'[t].page <= epoch /\ tab'[t].latest <= epoch
    /\ Busy(t)' => /\ Busy(t) /\ tab'[t].op = tab[t].op
                   /\ tab'[t].st \in {"picked", "claimed"} => tab[t].st \in {"picked", "claimed"}
                   /\ tab'[t].st = "answered" =>
                         tab[t].st = "answered" /\ tab'[t].answer = tab[t].answer

LEMMA TabsKept ==
    ASSUME OInv, RowsEdited, UNCHANGED serverVars, NEW t \in Tabs, tab' \in [Tabs -> Tab],
           \A s \in Tabs \ {t} : tab'[s] = tab[s],
           tab'[t] = tab[t] \/ PutDown(t)
    PROVE  \A s \in Tabs : TabOK(s)'
  <1>1. /\ \A i \in Ops : row[i].st # "unmade" => row'[i].st # "unmade" /\ Alike(row[i], row'[i])
        /\ ledger' = ledger /\ epoch' = epoch
    BY RowsKept DEF serverVars
  <1>2. ASSUME NEW s \in Tabs, Busy(s)
        PROVE  /\ tab[s].op \in Ops /\ row[tab[s].op].st # "unmade" /\ row'[tab[s].op].st # "unmade"
               /\ row'[tab[s].op].epoch = row[tab[s].op].epoch
               /\ row'[tab[s].op].deps = row[tab[s].op].deps
    BY <1>1, <1>2, Parts DEF TabOK, Alike
  <1>3. ASSUME NEW s \in Tabs, tab'[s] = tab[s] PROVE TabOK(s)'
    <2>1. tab'[s] = tab[s] /\ TabOK(s)
      BY <1>3, Parts
    <2>2. CASE Busy(s)
      BY <1>1, <1>2, <2>1, <2>2 DEF TabOK, Busy, InOrder
    <2>3. CASE ~Busy(s)
      BY <1>1, <2>1, <2>3 DEF TabOK, Busy, InOrder
    <2> QED BY <2>2, <2>3
  <1>4. ASSUME PutDown(t) PROVE TabOK(t)'
    <2>1. TabOK(t) /\ tab'[t].page <= epoch' /\ tab'[t].latest <= epoch'
      BY <1>1, <1>4, Parts DEF PutDown
    <2>2. CASE Busy(t)'
      <3>1. /\ Busy(t) /\ tab'[t].op = tab[t].op
            /\ tab'[t].st \in {"picked", "claimed"} => tab[t].st \in {"picked", "claimed"}
            /\ tab'[t].st = "answered" => tab[t].st = "answered" /\ tab'[t].answer = tab[t].answer
        BY <1>4, <2>2 DEF PutDown
      <3>2. tab'[t].st \in {"picked", "claimed"} => InOrder(tab[t].op)'
        BY <1>1, <1>2, <2>1, <3>1 DEF TabOK, InOrder
      <3> QED BY <1>1, <1>2, <2>1, <3>1, <3>2 DEF TabOK, Busy, InOrder
    <2>3. CASE ~Busy(t)'
      BY <2>1, <2>3 DEF TabOK, Busy
    <2> QED BY <2>2, <2>3
  <1> QED BY <1>3, <1>4

LEMMA WireKept ==
    ASSUME OInv, RowsEdited, UNCHANGED serverVars, NEW c \in wire
    PROVE  WireOK(c)'
  <1>1. /\ \A i \in Ops : row[i].st # "unmade" => row'[i].st # "unmade" /\ Alike(row[i], row'[i])
        /\ ledger' = ledger /\ epoch' = epoch
    BY RowsKept DEF serverVars
  <1>2. c.op \in Ops /\ WireOK(c)
    BY Parts DEF TypeOK, Copy
  <1> QED BY <1>1, <1>2 DEF WireOK, InOrder, Alike

\* What holds of every step that edits rows and moves at most one tab.
LEMMA StepKept ==
    ASSUME OInv, RowsEdited, UNCHANGED <<serverVars, wire>>, faults' \in Nat,
           NEW t \in Tabs, tab' \in [Tabs -> Tab],
           \A s \in Tabs \ {t} : tab'[s] = tab[s],
           tab'[t] = tab[t] \/ PutDown(t)
    PROVE  OInv'
  <1>1. storeEpoch' \in 0..MaxEpoch /\ \A i \in Ops : RowOK(i)'
    BY RowsKept
  <1>2. \A s \in Tabs : TabOK(s)'
    BY TabsKept
  <1>3. \A c \in wire' : WireOK(c)'
    BY WireKept
  <1>4. storeEpoch' <= epoch'
    BY DEF RowsEdited, serverVars
  <1>5. TypeOK'
    BY <1>1, Parts DEF TypeOK, RowsEdited, serverVars
  <1> QED BY <1>1, <1>2, <1>3, <1>4, <1>5, WholeNext DEF AllOK

LEMMA IntendedEdited ==
    ASSUME OInv, NEW t \in Tabs, Intended(t)
    PROVE  RowsEdited
  <1>1. TypeOK /\ TabOK(t) /\ \A i \in Ops : RowOK(i)
    BY Parts
  <1>2. storeEpoch' <= epoch /\ storeEpoch' \in Nat
    BY <1>1, OutboxAssumption DEF TabOK, TypeOK, Tab, Intended
  <1>3. \A i \in Ops : Edited(i) \/ (Begun(t, i) /\ tab[t].page = storeEpoch')
    BY <1>1, EditedRow DEF Intended
  <1> QED BY <1>2, <1>3 DEF Intended, RowsEdited

LEMMA CoordinatedEdited ==
    ASSUME OInv, Coordinated
    PROVE  RowsEdited
  <1>1. TypeOK /\ \A i \in Ops : RowOK(i)
    BY Parts
  <1> QED BY <1>1, EditedRow DEF Coordinated, RowsEdited

\* A step that leaves the rows alone.
LEMMA UneditedRows ==
    ASSUME OInv, UNCHANGED <<row, storeEpoch>>
    PROVE  RowsEdited
  <1>1. TypeOK /\ storeEpoch <= epoch /\ \A i \in Ops : RowOK(i)
    BY Parts
  <1>2. \A i \in Ops : Edited(i)
    BY <1>1 DEF Edited, RowOK, Alike
  <1>3. storeEpoch \in Nat
    BY <1>1, OutboxAssumption DEF TypeOK
  <1> QED BY <1>1, <1>2, <1>3 DEF RowsEdited, TypeOK

\* A step that edits one row of the queue in place.
LEMMA EditedInPlace ==
    ASSUME OInv, NEW i \in Ops, NEW r \in Row, row' = [row EXCEPT ![i] = r], storeEpoch' = storeEpoch,
           Alike(row[i], r), row[i].st # "unmade", r.st # "unmade",
           r.st \in InStore => row[i].st \in InStore,
           (r.st \in {"acknowledged", "retired"} /\ r.result = "none" /\ row[i].epoch = epoch)
               => ledger[i] = "ack"
    PROVE  RowsEdited
  <1>1. TypeOK /\ storeEpoch <= epoch /\ \A j \in Ops : RowOK(j)
    BY Parts
  <1>2. row' \in [Ops -> Row] /\ row'[i] = r /\ \A j \in Ops \ {i} : row'[j] = row[j]
    BY <1>1 DEF TypeOK
  <1>3. Edited(i)
    BY <1>1, <1>2 DEF Edited, RowOK
  <1>4. \A j \in Ops \ {i} : Edited(j)
    BY <1>1, <1>2 DEF Edited, RowOK, Alike
  <1>5. storeEpoch \in Nat
    BY <1>1, OutboxAssumption DEF TypeOK
  <1> QED BY <1>1, <1>2, <1>3, <1>4, <1>5 DEF RowsEdited

-----------------------------------------------------------------------------
(* Every step keeps the invariant *)

LEMMA FreeTab ==
    ASSUME TypeOK, NEW t \in Tabs, NEW st \in {"idle", "loop"}
    PROVE  /\ Free(t, st) \in Tab /\ Free(t, st).st = st /\ Free(t, st).page = tab[t].page
           /\ Free(t, st).latest = tab[t].latest
  <1> DEFINE r == [tab[t] EXCEPT !.st = st]
             put == [[r EXCEPT !.op = 0] EXCEPT !.prior = 0]
             q == [put EXCEPT !.nr = 0]
  <1>1. r \in Tab /\ r.st = st /\ r.page = tab[t].page /\ r.latest = tab[t].latest
    BY DEF TypeOK, Tab
  <1> HIDE DEF r
  <1>2. put \in Tab /\ put.st = r.st /\ put.page = r.page /\ put.latest = r.latest
    <2>1. 0 \in 0..MaxOps /\ 0 \in Nat
      BY OutboxAssumption
    <2> QED BY <1>1, <2>1 DEF Tab
  <1>3. Free(t, st) = [q EXCEPT !.answer = "none"]
    BY DEF Free, r
  <1> HIDE DEF put
  <1>5. q \in Tab /\ q.st = r.st /\ q.page = r.page /\ q.latest = r.latest
    BY <1>2 DEF Tab
  <1> HIDE DEF q
  <1>4. /\ [q EXCEPT !.answer = "none"] \in Tab /\ [q EXCEPT !.answer = "none"].st = q.st
        /\ [q EXCEPT !.answer = "none"].page = q.page
        /\ [q EXCEPT !.answer = "none"].latest = q.latest
    BY <1>5 DEF Tab, Answers
  <1> QED BY <1>1, <1>3, <1>4, <1>5

\* The record of a page that has just been opened.
LEMMA OpenedTab ==
    ASSUME TypeOK
    PROVE  LET r == [Closed EXCEPT !.st = "idle", !.page = epoch, !.latest = epoch] IN
           /\ r \in Tab /\ r.st = "idle" /\ r.page = epoch /\ r.latest = epoch
           /\ Closed \in Tab /\ Closed.st = "closed" /\ Closed.page = 0 /\ Closed.latest = 0
  <1> DEFINE r == [Closed EXCEPT !.st = "idle"]
             q == [[r EXCEPT !.page = epoch] EXCEPT !.latest = epoch]
  <1>1. /\ Closed \in Tab /\ Closed.st = "closed" /\ Closed.page = 0 /\ Closed.latest = 0
        /\ epoch \in 0..MaxEpoch
    BY OutboxAssumption DEF Closed, Tab, Answers, TypeOK
  <1>2. r \in Tab /\ r.st = "idle"
    BY <1>1 DEF Tab
  <1> HIDE DEF r
  <1>3. q \in Tab /\ q.st = "idle" /\ q.page = epoch /\ q.latest = epoch
    BY <1>1, <1>2 DEF Tab
  <1> QED BY <1>1, <1>3 DEF r

\* One tab moves: what has to be known of its new record.
LEMMA TabMoves ==
    ASSUME OInv, NEW t \in Tabs, NEW r \in Tab, tab' = [tab EXCEPT ![t] = r],
           r.page <= epoch, r.latest <= epoch,
           r.st \in {"picked", "claimed", "sent", "answered", "settled"} =>
               /\ Busy(t) /\ r.op = tab[t].op /\ r.st # "answered"
               /\ r.st \in {"picked", "claimed"} => tab[t].st \in {"picked", "claimed"}
    PROVE  /\ tab' \in [Tabs -> Tab] /\ \A s \in Tabs \ {t} : tab'[s] = tab[s]
           /\ PutDown(t) /\ tab'[t] = r
  <1>1. tab \in [Tabs -> Tab]
    BY Parts DEF TypeOK
  <1>2. tab' \in [Tabs -> Tab] /\ tab'[t] = r /\ \A s \in Tabs \ {t} : tab'[s] = tab[s]
    BY <1>1
  <1> QED BY <1>2 DEF PutDown, Busy

LEMMA UserKeeps ==
    ASSUME OInv, NEW t \in Tabs,
           \/ Create(t) \/ SaveField(t) \/ Delete(t)
           \/ \E i \in Ops : Discard(t, i) \/ DiscardRestored(t, i)
    PROVE  OInv'
  <1>1. TypeOK /\ Epochs /\ DepsMade
    BY DEF OInv
  <1>2. UNCHANGED <<serverVars, tab, wire, faults>>
    BY DEF Create, SaveField, Delete, Discard, DiscardRestored, Intend
  <1>3. CASE Create(t) \/ SaveField(t) \/ Delete(t) \/ \E i \in Ops : Discard(t, i)
    <2>1. Intended(t)
      BY <1>1, <1>3, CreateRows, SaveFieldRows, DeleteRows, DiscardRows
    <2>2. RowsEdited
      BY <2>1, IntendedEdited
    <2> QED BY <1>1, <1>2, <2>2, StepKept DEF TypeOK
  <1>4. ASSUME NEW i \in Ops, DiscardRestored(t, i) PROVE OInv'
    <2> DEFINE r == [row[i] EXCEPT !.st = "discarded"]
    <2>1. row' = [row EXCEPT ![i] = r] /\ storeEpoch' = storeEpoch /\ row[i].st = "restored"
      BY <1>4, Zenon DEF DiscardRestored
    <2>2. r \in Row /\ Alike(row[i], r) /\ r.st = "discarded"
      BY <1>1, RowEdit, RowFields, Zenon DEF TypeOK, Status
    <2> HIDE DEF r
    <2>3. RowsEdited
      BY <2>1, <2>2, EditedInPlace DEF InStore
    <2> QED BY <1>1, <1>2, <2>3, StepKept DEF TypeOK
  <1> QED BY <1>3, <1>4

LEMMA PageKeeps ==
    ASSUME OInv, NEW t \in Tabs, Start(t) \/ Crash(t) \/ Verify(t) \/ Rest(t) \/ Send(t)
    PROVE  RowsEdited /\ tab' \in [Tabs -> Tab] /\ faults' \in Nat
           /\ (\A s \in Tabs \ {t} : tab'[s] = tab[s]) /\ PutDown(t)
  <1>1. TypeOK /\ TabOK(t) /\ tab[t] \in Tab /\ epoch \in 1..MaxEpoch /\ epoch <= epoch
        /\ epoch \in 0..MaxEpoch
    BY Parts, OutboxAssumption DEF TypeOK
  <1>2. UNCHANGED <<serverVars, row, storeEpoch>>
    BY DEF Start, Crash, Verify, Rest, Send
  <1>3. faults' \in Nat
    BY <1>1 DEF Start, Crash, Verify, Rest, Send, Fault, TypeOK
  <1>4. RowsEdited
    BY <1>2, UneditedRows
  <1>5. CASE Start(t)
    <2> DEFINE r == [Closed EXCEPT !.st = "idle", !.page = epoch, !.latest = epoch]
    <2>1. /\ tab' = [tab EXCEPT ![t] = r] /\ r \in Tab /\ r.page <= epoch /\ r.latest <= epoch
          /\ r.st = "idle"
      BY <1>1, <1>5, OpenedTab DEF Start
    <2> HIDE DEF r
    <2> QED BY <1>3, <1>4, <2>1, TabMoves
  <1>6. CASE Crash(t)
    <2>1. /\ tab' = [tab EXCEPT ![t] = Closed] /\ Closed \in Tab /\ Closed.page <= epoch
          /\ Closed.latest <= epoch /\ Closed.st = "closed"
      BY <1>1, <1>6, OpenedTab DEF Crash
    <2> QED BY <1>3, <1>4, <2>1, TabMoves
  <1>7. CASE Verify(t)
    <2> DEFINE r == [tab[t] EXCEPT !.latest = epoch]
    <2>1. tab' = [tab EXCEPT ![t] = r]
      BY <1>7 DEF Verify
    <2>2. /\ r \in Tab /\ r.page <= epoch /\ r.latest <= epoch
          /\ r.st = tab[t].st /\ r.op = tab[t].op /\ r.answer = tab[t].answer
      BY <1>1 DEF Tab, TabOK
    <2> HIDE DEF r
    <2>3. tab' \in [Tabs -> Tab] /\ tab'[t] = r /\ \A s \in Tabs \ {t} : tab'[s] = tab[s]
      BY <1>1, <2>1, <2>2 DEF TypeOK
    <2> QED BY <1>3, <1>4, <2>2, <2>3 DEF PutDown, Busy
  <1>8. CASE Rest(t)
    <2>1. tab' = [tab EXCEPT ![t] = Free(t, "idle")]
      BY <1>8 DEF Rest
    <2>2. /\ Free(t, "idle") \in Tab /\ Free(t, "idle").st = "idle"
          /\ Free(t, "idle").page <= epoch /\ Free(t, "idle").latest <= epoch
      BY <1>1, FreeTab DEF TabOK
    <2> QED BY <1>3, <1>4, <2>1, <2>2, TabMoves
  <1>9. CASE Send(t)
    <2> DEFINE r == [tab[t] EXCEPT !.st = "sent"]
    <2>1. tab' = [tab EXCEPT ![t] = r] /\ tab[t].st = "claimed"
      BY <1>9 DEF Send
    <2>2. /\ r \in Tab /\ r.page <= epoch /\ r.latest <= epoch
          /\ r.st = "sent" /\ r.op = tab[t].op
      BY <1>1 DEF Tab, TabOK
    <2> HIDE DEF r
    <2> QED BY <1>3, <1>4, <2>1, <2>2, TabMoves DEF Busy
  <1> QED BY <1>5, <1>6, <1>7, <1>8, <1>9

\* What is sent was picked in order.
LEMMA SendKeeps ==
    ASSUME OInv, NEW t \in Tabs, Send(t)
    PROVE  OInv'
  <1>1. /\ RowsEdited /\ tab' \in [Tabs -> Tab] /\ \A s \in Tabs \ {t} : tab'[s] = tab[s]
        /\ PutDown(t)
    BY PageKeeps
  <1>2. /\ wire' = wire \cup {[op |-> tab[t].op, by |-> t, nr |-> tab[t].nr, looked |-> FALSE]}
        /\ tab[t].st = "claimed" /\ UNCHANGED <<serverVars, row, storeEpoch, faults>>
    BY DEF Send
  <1>3. TypeOK /\ TabOK(t) /\ tab[t] \in Tab /\ storeEpoch <= epoch
    BY Parts DEF TypeOK
  <1>4. PICK c \in Copy : c.op = tab[t].op /\ c.op \in Ops /\ wire' = wire \cup {c}
    BY <1>2, <1>3 DEF TabOK, Busy, Copy, Tab
  <1>5. WireOK(c)'
    BY <1>2, <1>3, <1>4 DEF TabOK, Busy, WireOK, InOrder, serverVars
  <1>6. \A d \in wire' : WireOK(d)'
    BY <1>1, <1>2, <1>4, <1>5, WireKept
  <1>7. \A s \in Tabs : TabOK(s)'
    BY <1>1, <1>2, TabsKept
  <1>8. storeEpoch' \in 0..MaxEpoch /\ \A i \in Ops : RowOK(i)'
    BY <1>1, <1>2, RowsKept
  <1>9. TypeOK' /\ storeEpoch' <= epoch'
    BY <1>1, <1>2, <1>3, <1>4 DEF TypeOK, serverVars
  <1> QED BY <1>6, <1>7, <1>8, <1>9, WholeNext DEF AllOK

LEMMA PickKeeps ==
    ASSUME OInv, NEW t \in Tabs, Pick(t)
    PROVE  OInv'
  <1>1. /\ TypeOK /\ tab[t] \in Tab /\ \A s \in Tabs : TabOK(s)
        /\ storeEpoch <= epoch /\ epoch \in 0..MaxEpoch /\ epoch <= epoch
        /\ \A i \in Ops : RowOK(i)
    BY Parts, OutboxAssumption DEF TypeOK
  <1>2. PICK i \in Candidates :
           tab' = [tab EXCEPT ![t].st = "picked", ![t].op = i, ![t].prior = row[i].attempts,
                              ![t].latest = epoch]
    BY Zenon DEF Pick
  <1>3. /\ i \in Ops /\ row[i].st = "pending" /\ row[i].attempts \in Nat /\ i \in 0..MaxOps
        /\ \A d \in row[i].deps : Succeeded(row[d])
    BY <1>1 DEF Candidates, Ready, TypeOK, Row, Ops
  <1>4. UNCHANGED <<serverVars, row, storeEpoch, wire, faults>> /\ epoch' = epoch /\ ledger' = ledger
    BY DEF Pick, serverVars
  <1> DEFINE q == [[tab[t] EXCEPT !.st = "picked"] EXCEPT !.op = i]
             r == [[q EXCEPT !.prior = row[i].attempts] EXCEPT !.latest = epoch]
  <1>5. q \in Tab /\ q.st = "picked" /\ q.op = i /\ q.page = tab[t].page
    BY <1>1, <1>3 DEF Tab
  <1>6. tab' = [tab EXCEPT ![t] = r]
    BY <1>1, <1>2 DEF TypeOK
  <1> HIDE DEF q
  <1>7. r \in Tab /\ r.st = "picked" /\ r.op = i /\ r.page = tab[t].page /\ r.latest = epoch
    BY <1>1, <1>3, <1>5 DEF Tab
  <1> HIDE DEF r
  <1>8. tab' \in [Tabs -> Tab] /\ tab'[t] = r /\ \A s \in Tabs \ {t} : tab'[s] = tab[s]
    BY <1>1, <1>6, <1>7 DEF TypeOK
  <1>9. row[i].epoch = epoch => \A d \in row[i].deps : ledger[d] = "ack"
    <2> SUFFICES ASSUME row[i].epoch = epoch, NEW d \in row[i].deps PROVE ledger[d] = "ack"
      OBVIOUS
    <2>1. d \in Ops /\ Succeeded(row[d]) /\ row[d].epoch = epoch
      BY <1>1, <1>3 DEF RowOK, TypeOK, Row
    <2> QED BY <1>1, <2>1 DEF RowOK, Succeeded
  <1>10. TabOK(t)'
    <2>1. tab'[t].page <= epoch /\ tab'[t].latest <= epoch /\ tab'[t].st = "picked" /\ tab'[t].op = i
      BY <1>1, <1>7, <1>8 DEF TabOK
    <2> QED BY <1>3, <1>4, <1>9, <2>1 DEF TabOK, InOrder
  <1>11. ASSUME NEW s \in Tabs \ {t} PROVE TabOK(s)'
    BY <1>1, <1>4, <1>8 DEF TabOK, InOrder, Busy
  <1>12. \A c \in wire' : WireOK(c)'
    BY <1>4, Parts DEF WireOK, InOrder
  <1>13. \A j \in Ops : RowOK(j)'
    BY <1>1, <1>4 DEF RowOK
  <1>14. TypeOK'
    BY <1>1, <1>4, <1>8 DEF TypeOK, serverVars
  <1> QED BY <1>1, <1>4, <1>10, <1>11, <1>12, <1>13, <1>14, WholeNext DEF AllOK

\* The tab's new records, where it goes on with the operation in hand.
LEMMA OnwardTab ==
    ASSUME OInv, NEW t \in Tabs, NEW st \in {"claimed", "sent", "settled"}, NEW n \in Nat
    PROVE  /\ [tab[t] EXCEPT !.st = st] \in Tab
           /\ [tab[t] EXCEPT !.st = st, !.nr = n] \in Tab
  <1>1. tab[t] \in Tab
    BY Parts DEF TypeOK
  <1> QED BY <1>1 DEF Tab

LEMMA HandKeeps ==
    ASSUME OInv, NEW t \in Tabs, Claim(t) \/ Release(t)
    PROVE  OInv'
  <1> DEFINE i == tab[t].op
             free == Free(t, IF tab[t].st = "picked" THEN "loop" ELSE "idle")
  <1>1. /\ TypeOK /\ tab[t] \in Tab /\ TabOK(t) /\ i \in Ops /\ row[i] \in Row
        /\ row[i].st # "unmade" /\ tab[t].page <= epoch /\ tab[t].latest <= epoch
    <2>1. Busy(t) /\ TypeOK /\ TabOK(t)
      BY Parts DEF Claim, Release, Busy
    <2> QED BY <2>1 DEF TypeOK, TabOK
  <1>2. /\ UNCHANGED <<serverVars, storeEpoch, wire>> /\ faults' \in Nat
    BY <1>1 DEF Claim, Release, Fault, TypeOK
  <1>3. /\ free \in Tab /\ free.st \in {"idle", "loop"} /\ free.page <= epoch /\ free.latest <= epoch
    BY <1>1, FreeTab
  <1> HIDE DEF free
  <1>4. ASSUME NEW n \in Nat, NEW st \in {"pending", "syncing"}, row[i].st \in {"pending", "syncing"},
               row' = [row EXCEPT ![i].st = st, ![i].attempts = n]
        PROVE  RowsEdited
    <2> DEFINE r == [row[i] EXCEPT !.st = st, !.attempts = n]
    <2>1. row' = [row EXCEPT ![i] = r]
      BY <1>1, <1>4 DEF TypeOK
    <2>2. r \in Row /\ Alike(row[i], r) /\ r.st = st
      BY <1>1 DEF Row, Alike, Status
    <2> HIDE DEF r, i
    <2> QED BY <1>1, <1>2, <1>4, <2>1, <2>2, EditedInPlace DEF InStore
  <1>5. CASE Claim(t)
    <2>1. CASE row[i].st = "pending"
      <3> DEFINE r == [tab[t] EXCEPT !.st = "claimed", !.nr = row[i].attempts + 1]
      <3>1. /\ row' = [row EXCEPT ![i].st = "syncing", ![i].attempts = @ + 1] /\ tab[t].st = "picked"
            /\ tab' = [tab EXCEPT ![t] = r] /\ row[i].attempts + 1 \in Nat
        BY <1>1, <1>5, <2>1 DEF Claim, Row, TypeOK
      <3>2. row' = [row EXCEPT ![i].st = "syncing", ![i].attempts = row[i].attempts + 1]
        BY <1>1, <3>1 DEF TypeOK
      <3>3. RowsEdited
        BY <1>4, <2>1, <3>1, <3>2
      <3>4. /\ r \in Tab /\ r.st = "claimed" /\ r.op = tab[t].op /\ r.page = tab[t].page
            /\ r.latest = tab[t].latest
        BY <1>1, <3>1, OnwardTab, Zenon DEF Tab
      <3> HIDE DEF r
      <3>5. tab' \in [Tabs -> Tab] /\ (\A s \in Tabs \ {t} : tab'[s] = tab[s]) /\ PutDown(t)
        BY <1>1, <3>1, <3>4, TabMoves DEF Busy
      <3> QED BY <1>2, <3>3, <3>5, StepKept
    <2>2. CASE row[i].st # "pending"
      <3>1. UNCHANGED <<row, storeEpoch>> /\ tab' = [tab EXCEPT ![t] = free]
        BY <1>5, <2>2 DEF Claim, free
      <3>2. tab' \in [Tabs -> Tab] /\ (\A s \in Tabs \ {t} : tab'[s] = tab[s]) /\ PutDown(t)
        BY <1>3, <3>1, TabMoves
      <3> QED BY <1>2, <3>1, <3>2, StepKept, UneditedRows
    <2> QED BY <2>1, <2>2
  <1>6. CASE Release(t)
    <2>1. tab' = [tab EXCEPT ![t] = free]
      BY <1>6 DEF Release, free
    <2>2. tab' \in [Tabs -> Tab] /\ (\A s \in Tabs \ {t} : tab'[s] = tab[s]) /\ PutDown(t)
      BY <1>3, <2>1, TabMoves
    <2>3. RowsEdited
      <3>1. CASE row' = row
        BY <1>2, <3>1, UneditedRows
      <3>2. CASE row' # row
        <4>1. /\ row' = [row EXCEPT ![i].st = "pending", ![i].attempts = tab[t].prior]
              /\ row[i].st = "syncing" /\ tab[t].prior \in Nat
          BY <1>1, <1>6, <3>2 DEF Release, Tab
        <4> QED BY <1>4, <4>1
      <3> QED BY <3>1, <3>2
    <2> QED BY <1>2, <2>2, <2>3, StepKept
  <1> QED BY <1>5, <1>6

LEMMA DrainKeeps ==
    ASSUME OInv, NEW t \in Tabs, Wake(t) \/ Settle(t)
    PROVE  OInv'
  <1>1. TypeOK /\ AboutMade /\ Epochs /\ DepsMade /\ TabOK(t) /\ tab[t] \in Tab
        /\ tab[t].page <= epoch /\ tab[t].latest <= epoch
    BY Parts DEF OInv, TabOK, TypeOK
  <1>2. UNCHANGED <<serverVars, wire>> /\ faults' \in Nat
    BY <1>1 DEF Wake, Settle, Fault, TypeOK
  <1>3. RowsEdited
    BY <1>1, WakeRows, SettleRows, CoordinatedEdited
  <1>4. CASE Wake(t)
    <2> DEFINE q == [tab[t] EXCEPT !.st = "loop"]
               r == [q EXCEPT !.recovered = TRUE]
    <2>1. tab' = [tab EXCEPT ![t] = r]
      BY <1>1, <1>4 DEF Wake, TypeOK
    <2>2. q \in Tab /\ q.st = "loop" /\ q.page = tab[t].page /\ q.latest = tab[t].latest
      BY <1>1 DEF Tab
    <2> HIDE DEF q
    <2>3. r \in Tab /\ r.st = "loop" /\ r.page = tab[t].page /\ r.latest = tab[t].latest
      BY <2>2 DEF Tab
    <2> HIDE DEF r
    <2>4. tab' \in [Tabs -> Tab] /\ (\A s \in Tabs \ {t} : tab'[s] = tab[s]) /\ PutDown(t)
      BY <1>1, <2>1, <2>3, TabMoves
    <2> QED BY <1>2, <1>3, <2>4, StepKept
  <1>5. CASE Settle(t)
    <2>1. tab' = [tab EXCEPT ![t] = Free(t, "loop")]
      BY <1>5 DEF Settle
    <2>2. /\ Free(t, "loop") \in Tab /\ Free(t, "loop").st = "loop"
          /\ Free(t, "loop").page <= epoch /\ Free(t, "loop").latest <= epoch
      BY <1>1, FreeTab
    <2>3. tab' \in [Tabs -> Tab] /\ (\A s \in Tabs \ {t} : tab'[s] = tab[s]) /\ PutDown(t)
      BY <2>1, <2>2, TabMoves
    <2> QED BY <1>2, <1>3, <2>3, StepKept
  <1> QED BY <1>4, <1>5

\* The row a refusal of admission gives back.
GivenRow(t) == [row[tab[t].op] EXCEPT !.st = "pending", !.attempts = tab[t].prior]

\* After another epoch, the row given back is fenced with the rest.
LEMMA EpochMovedRows ==
    ASSUME TypeOK, Epochs, AboutMade, NEW t \in Tabs, EpochMoved(t)
    PROVE  /\ row' \in [Ops -> Row]
           /\ storeEpoch <= storeEpoch' /\ storeEpoch' <= epoch /\ storeEpoch' \in Nat
           /\ \A i \in Ops \ {tab[t].op} : Stays(i) \/ Left(i)
           /\ \/ /\ row'[tab[t].op] = GivenRow(t)
                 /\ row[tab[t].op].epoch = storeEpoch' /\ storeEpoch' = storeEpoch
              \/ /\ row'[tab[t].op] = [GivenRow(t) EXCEPT !.st = "restored"]
                 /\ row[tab[t].op].epoch < storeEpoch' /\ storeEpoch < storeEpoch'
                 /\ storeEpoch' = epoch
  <1> DEFINE i == tab[t].op
             given == GivenBack(t)
  <1>1. /\ tab[t].st = "answered" /\ row[i].st \in InStore /\ row' = Fenced(given, epoch)
        /\ storeEpoch' = FencedEpoch(epoch)
    BY DEF EpochMoved
  <1>2. /\ i \in Ops /\ row \in [Ops -> Row] /\ row[i] \in Row /\ tab[t].prior \in Nat
        /\ epoch \in Nat /\ storeEpoch \in Nat /\ storeEpoch <= epoch
    BY <1>1, OutboxAssumption DEF AboutMade, Busy, TypeOK, Tab, Epochs
  <1>3. \A j \in Ops : /\ row[j].epoch \in Nat
                       /\ row[j].st \in InStore => row[j].epoch = storeEpoch
    BY <1>2 DEF Row, Epochs
  <1>4. /\ GivenRow(t) \in Row /\ GivenRow(t).st = "pending" /\ GivenRow(t).epoch = row[i].epoch
    BY <1>2 DEF GivenRow, Row, Status
  <1>5. given \in [Ops -> Row] /\ given[i] = GivenRow(t) /\ \A j \in Ops \ {i} : given[j] = row[j]
    BY <1>2, <1>4 DEF GivenBack, GivenRow
  <1> HIDE DEF given, i
  <1>6. /\ row' \in [Ops -> Row]
        /\ \A j \in Ops : LET q == row'[j] IN
              \/ q = given[j] /\ (epoch > storeEpoch /\ given[j].st \in InStore => epoch <= given[j].epoch)
              \/ /\ epoch > storeEpoch /\ given[j].st \in InStore /\ given[j].epoch < epoch
                 /\ q = [given[j] EXCEPT !.st =
                         IF given[j].st = "acknowledged" THEN "retired" ELSE "restored"]
    BY <1>1, <1>2, <1>5, FencedRows
  <1>7. /\ storeEpoch <= storeEpoch' /\ storeEpoch' <= epoch /\ storeEpoch' \in Nat
        /\ epoch > storeEpoch => storeEpoch' = epoch
        /\ ~(epoch > storeEpoch) => storeEpoch' = storeEpoch
    BY <1>1, <1>2 DEF FencedEpoch
  <1>8. ASSUME NEW j \in Ops \ {i} PROVE Stays(j) \/ Left(j)
    <2>1. given[j] = row[j]
      BY <1>5
    <2>2. CASE row'[j] = row[j] /\ (epoch > storeEpoch /\ row[j].st \in InStore => epoch <= row[j].epoch)
      <3>1. row[j].st \in InStore => row[j].epoch = storeEpoch'
        BY <1>2, <1>3, <1>7, <2>2
      <3> QED BY <2>2, <3>1 DEF Stays
    <2>3. CASE ~(row'[j] = row[j] /\ (epoch > storeEpoch /\ row[j].st \in InStore => epoch <= row[j].epoch))
      <3>1. /\ epoch > storeEpoch /\ row[j].st \in InStore /\ row[j].epoch < epoch
            /\ row'[j] = [row[j] EXCEPT !.st =
                         IF row[j].st = "acknowledged" THEN "retired" ELSE "restored"]
        BY <1>6, <2>1, <2>3
      <3> QED BY <1>7, <3>1 DEF Left
    <2> QED BY <2>2, <2>3
  <1>9. \/ row'[i] = GivenRow(t) /\ row[i].epoch = storeEpoch' /\ storeEpoch' = storeEpoch
        \/ /\ row'[i] = [GivenRow(t) EXCEPT !.st = "restored"]
           /\ row[i].epoch < storeEpoch' /\ storeEpoch < storeEpoch' /\ storeEpoch' = epoch
    <2>1. row[i].epoch = storeEpoch /\ given[i].st \in InStore /\ given[i].epoch = storeEpoch
      BY <1>1, <1>2, <1>3, <1>4, <1>5 DEF InStore, i
    <2>2. CASE epoch > storeEpoch
      <3>1. row'[i] = [GivenRow(t) EXCEPT !.st = "restored"]
        <4>1. ~(epoch <= given[i].epoch)
          BY <1>2, <2>1, <2>2
        <4> QED BY <1>2, <1>4, <1>5, <1>6, <2>1, <2>2, <4>1
      <3> QED BY <1>2, <1>7, <2>1, <2>2, <3>1
    <2>3. CASE ~(epoch > storeEpoch)
      BY <1>2, <1>5, <1>6, <1>7, <2>1, <2>3
    <2> QED BY <2>2, <2>3
  <1> QED BY <1>6, <1>7, <1>8, <1>9 DEF i

LEMMA GivenRowFields ==
    ASSUME TypeOK, AboutMade, NEW t \in Tabs, Busy(t)
    PROVE  LET i == tab[t].op r == GivenRow(t) IN
           /\ i \in Ops /\ row[i] \in Row /\ r \in Row /\ Alike(row[i], r) /\ r.st = "pending"
           /\ r.attempts = tab[t].prior /\ r.result = row[i].result
           /\ LET q == [r EXCEPT !.st = "restored"] IN
                 /\ q \in Row /\ Alike(row[i], q) /\ q.st = "restored" /\ q.attempts = tab[t].prior
                 /\ q.result = row[i].result
  <1> DEFINE i == tab[t].op
             r == GivenRow(t)
  <1>1. i \in Ops /\ row[i] \in Row /\ tab[t].prior \in Nat
    BY DEF AboutMade, TypeOK, Tab
  <1> HIDE DEF i
  <1>2. /\ r \in Row /\ Alike(row[i], r) /\ r.st = "pending"
        /\ r.attempts = tab[t].prior /\ r.result = row[i].result
    BY <1>1, Zenon DEF Row, Alike, Status, GivenRow, i
  <1> HIDE DEF r
  <1>3. [r EXCEPT !.st = "restored"] \in Row
    BY <1>2, RowEdit, Zenon DEF Status
  <1>4. LET q == [r EXCEPT !.st = "restored"] IN
           /\ q.st = "restored" /\ q.attempts = r.attempts /\ q.result = r.result /\ Alike(r, q)
    BY <1>2, RowFields DEF Status
  <1> QED BY <1>1, <1>2, <1>3, <1>4 DEF Alike, i, r

LEMMA EpochMovedKeeps ==
    ASSUME OInv, NEW t \in Tabs, EpochMoved(t)
    PROVE  OInv'
  <1> DEFINE i == tab[t].op
             q == Free(t, "loop")
             r == [q EXCEPT !.latest = epoch]
  <1>1. /\ TypeOK /\ Epochs /\ AboutMade /\ TabOK(t) /\ Busy(t) /\ tab[t].page <= epoch
        /\ epoch \in 0..MaxEpoch /\ epoch <= epoch /\ row[i].st \in InStore
        /\ \A j \in Ops : RowOK(j)
    BY Parts, OutboxAssumption DEF OInv, TabOK, TypeOK, Busy, EpochMoved
  <1>2. UNCHANGED <<serverVars, wire, faults>> /\ tab' = [tab EXCEPT ![t] = r]
    BY DEF EpochMoved
  <1>3. q \in Tab /\ q.st = "loop" /\ q.page = tab[t].page
    BY <1>1, FreeTab
  <1> HIDE DEF q
  <1>4. r \in Tab /\ r.st = "loop" /\ r.page = tab[t].page /\ r.latest = epoch
    BY <1>1, <1>3 DEF Tab
  <1> HIDE DEF r
  <1>5. tab' \in [Tabs -> Tab] /\ (\A s \in Tabs \ {t} : tab'[s] = tab[s]) /\ PutDown(t)
    BY <1>1, <1>2, <1>4, TabMoves
  <1>6. Edited(i)
    <2>1. /\ i \in Ops /\ Alike(row[i], row'[i]) /\ row'[i].st \in {"pending", "restored"}
          /\ row'[i].st = "pending" => row[i].epoch = storeEpoch'
      BY <1>1, EpochMovedRows, GivenRowFields
    <2> QED BY <1>1, <2>1 DEF Edited, InStore
  <1>7. RowsEdited
    <2>1. \A j \in Ops \ {i} : Edited(j)
      BY <1>1, EpochMovedRows, EditedRow
    <2> QED BY <1>1, <1>6, <2>1, EpochMovedRows DEF RowsEdited
  <1> QED BY <1>1, <1>2, <1>5, <1>7, StepKept DEF TypeOK

\* What an update of the row in hand comes to.
LEMMA UpdateKeeps ==
    ASSUME OInv, NEW t \in Tabs, Busy(t), NEW r \in Row, NEW q \in Tab,
           Update(t, [row EXCEPT ![tab[t].op] = r], q),
           UNCHANGED <<serverVars, storeEpoch, wire>>, faults' \in Nat,
           Alike(row[tab[t].op], r), r.st \in InStore,
           (r.st = "acknowledged" /\ r.result = "none" /\ row[tab[t].op].epoch = epoch)
               => ledger[tab[t].op] = "ack",
           q.page = tab[t].page, q.latest = tab[t].latest, q.st \in {"idle", "loop", "settled"},
           q.st = "settled" => q.op = tab[t].op
    PROVE  OInv'
  <1> DEFINE i == tab[t].op
  <1>1. TypeOK /\ TabOK(t) /\ i \in Ops /\ row[i].st # "unmade"
        /\ tab[t].page <= epoch /\ tab[t].latest <= epoch
    BY Parts DEF TabOK
  <1>2. CASE row[i].st \in InStore
    <2>1. row' = [row EXCEPT ![i] = r] /\ tab' = [tab EXCEPT ![t] = q]
      BY <1>2 DEF Update
    <2>2. RowsEdited
      BY <1>1, <1>2, <2>1, EditedInPlace DEF InStore
    <2>3. tab' \in [Tabs -> Tab] /\ (\A s \in Tabs \ {t} : tab'[s] = tab[s]) /\ PutDown(t)
      BY <1>1, <2>1, TabMoves
    <2> QED BY <2>2, <2>3, StepKept
  <1>3. CASE row[i].st \notin InStore
    <2>1. row' = row /\ tab' = [tab EXCEPT ![t] = Free(t, "idle")]
      BY <1>3 DEF Update
    <2>2. /\ Free(t, "idle") \in Tab /\ Free(t, "idle").st = "idle"
          /\ Free(t, "idle").page <= epoch /\ Free(t, "idle").latest <= epoch
      BY <1>1, FreeTab
    <2>3. tab' \in [Tabs -> Tab] /\ (\A s \in Tabs \ {t} : tab'[s] = tab[s]) /\ PutDown(t)
      BY <2>1, <2>2, TabMoves
    <2> QED BY <2>1, <2>3, StepKept, UneditedRows
  <1> QED BY <1>2, <1>3

LEMMA AnswerKeeps ==
    ASSUME OInv, NEW t \in Tabs, Timeout(t) \/ RecordFails(t) \/ GiveBack(t) \/ Record(t)
    PROVE  OInv'
  <1> DEFINE i == tab[t].op
  <1>1. /\ TypeOK /\ AboutMade /\ Busy(t) /\ TabOK(t) /\ i \in Ops /\ row[i] \in Row
        /\ tab[t] \in Tab
    <2>1. Busy(t) /\ TypeOK /\ AboutMade /\ TabOK(t)
      BY Parts DEF Timeout, RecordFails, GiveBack, Record, Busy, OInv
    <2> QED BY <2>1 DEF TypeOK, AboutMade
  <1>2. UNCHANGED <<serverVars, storeEpoch, wire>> /\ faults' \in Nat
    BY <1>1 DEF Timeout, RecordFails, GiveBack, Record, Fault, TypeOK
  <1>3. /\ Free(t, "idle") \in Tab /\ Free(t, "idle").st = "idle"
        /\ Free(t, "idle").page = tab[t].page /\ Free(t, "idle").latest = tab[t].latest
        /\ Free(t, "loop") \in Tab /\ Free(t, "loop").st = "loop"
        /\ Free(t, "loop").page = tab[t].page /\ Free(t, "loop").latest = tab[t].latest
    BY <1>1, FreeTab
  <1>4. CASE Timeout(t) \/ RecordFails(t)
    <2> DEFINE r == [row[i] EXCEPT !.st = "pending"]
    <2>1. Update(t, [row EXCEPT ![i].st = "pending"], Free(t, "idle"))
      BY <1>4 DEF Timeout, RecordFails, Retry
    <2>2. [row EXCEPT ![i].st = "pending"] = [row EXCEPT ![i] = r]
      BY <1>1 DEF TypeOK
    <2>3. Update(t, [row EXCEPT ![i] = r], Free(t, "idle"))
      BY <2>1, <2>2, Zenon
    <2>4. r \in Row /\ Alike(row[i], r) /\ r.st = "pending"
      BY <1>1, RowEdit, RowFields, Zenon DEF Status
    <2> HIDE DEF r
    <2> QED BY <1>1, <1>2, <1>3, <2>3, <2>4, UpdateKeeps DEF InStore
  <1>5. CASE GiveBack(t)
    <2>1. GivenBack(t) = [row EXCEPT ![i] = GivenRow(t)]
      BY <1>1 DEF GivenBack, GivenRow, TypeOK
    <2>2. Update(t, [row EXCEPT ![i] = GivenRow(t)], Free(t, "idle"))
      BY <1>5, <2>1 DEF GiveBack
    <2>3. GivenRow(t) \in Row /\ Alike(row[i], GivenRow(t)) /\ GivenRow(t).st = "pending"
      BY <1>1, GivenRowFields
    <2> QED BY <1>1, <1>2, <1>3, <2>2, <2>3, UpdateKeeps DEF InStore
  <1>6. CASE Record(t)
    <2> DEFINE acked == tab[t].answer = "ack"
               consumed == acked \/ row[i].kind = "create"
               st == IF consumed THEN "acknowledged" ELSE "conflict"
               result == IF acked THEN row[i].result ELSE "refusal"
               r == [row[i] EXCEPT !.st = st, !.result = result]
               q == IF consumed THEN [tab[t] EXCEPT !.st = "settled"] ELSE Free(t, "loop")
    <2>1. Update(t, Patched(i, st, IF acked THEN "none" ELSE "refusal"), q) /\ tab[t].st = "answered"
      BY <1>6 DEF Record
    <2>2. Patched(i, st, IF acked THEN "none" ELSE "refusal") = [row EXCEPT ![i] = r]
      BY <1>1 DEF Patched, TypeOK
    <2>3. Update(t, [row EXCEPT ![i] = r], q)
      BY <2>1, <2>2
    <2>4. st \in Status /\ result \in Results
      BY <1>1 DEF Status, Results, Row
    <2>5. /\ r \in Row /\ Alike(row[i], r) /\ r.st = st /\ r.result = result
      BY <1>1, <2>4 DEF Row, Alike
    <2>6. /\ q \in Tab /\ q.page = tab[t].page /\ q.latest = tab[t].latest
          /\ q.st \in {"loop", "settled"} /\ (q.st = "settled" => q.op = i)
      BY <1>1, <1>3, OnwardTab, Zenon DEF Tab
    <2>7. (r.st = "acknowledged" /\ r.result = "none" /\ row[i].epoch = epoch)
              => ledger[i] = "ack"
      BY <1>1, <2>1, <2>5 DEF TabOK
    <2>8. r.st \in InStore
      BY <2>5 DEF InStore
    <2> HIDE DEF r, q
    <2> QED BY <1>1, <1>2, <2>3, <2>5, <2>6, <2>7, <2>8, UpdateKeeps
  <1> QED BY <1>4, <1>5, <1>6

\* The server answers a request, and its ledger may have grown.
LEMMA ServedKeeps ==
    ASSUME OInv, NEW c \in wire, NEW answer \in Answers, Answer(c, answer),
           UNCHANGED <<row, storeEpoch, epoch, archive>>, faults' \in Nat,
           ledger' \in [Ops -> {"none", "ack", "refused"}], applied' \in [Ops -> Nat],
           \A i \in Ops : ledger[i] # "none" => ledger'[i] = ledger[i],
           answer \in {"ack", "refused"} /\ row[c.op].epoch = epoch => ledger'[c.op] = answer
    PROVE  OInv'
  <1>1. /\ TypeOK /\ storeEpoch <= epoch /\ c \in Copy /\ c.by \in Tabs /\ c.op \in Ops
        /\ WireOK(c)
        /\ \A i \in Ops : RowOK(i)
        /\ \A s \in Tabs : TabOK(s)
    BY Parts DEF TypeOK, Copy
  <1>2. /\ UNCHANGED <<row, storeEpoch, epoch, archive>> /\ faults' \in Nat
        /\ wire' = wire \ {c}
        /\ \A d \in Ops : ledger[d] = "ack" => ledger'[d] = "ack"
    BY <1>1 DEF Answer, TypeOK
  <1> DEFINE s == c.by
             q == [tab[s] EXCEPT !.st = "answered"]
             r == [q EXCEPT !.answer = answer]
  <1>3. /\ tab[s] \in Tab /\ q \in Tab /\ q.st = "answered" /\ q.op = tab[s].op
        /\ q.page = tab[s].page /\ q.latest = tab[s].latest
    BY <1>1 DEF TypeOK, Tab
  <1>4. Awaited(c) => tab' = [tab EXCEPT ![s] = r]
    BY <1>1 DEF Answer, TypeOK
  <1> HIDE DEF q
  <1>5. /\ r \in Tab /\ r.st = "answered" /\ r.op = tab[s].op /\ r.answer = answer
        /\ r.page = tab[s].page /\ r.latest = tab[s].latest
    BY <1>3 DEF Tab
  <1> HIDE DEF r
  <1>6. ~Awaited(c) => tab' = tab
    BY DEF Answer
  <1>7. /\ tab' \in [Tabs -> Tab]
        /\ \A u \in Tabs : \/ tab'[u] = tab[u]
                           \/ u = s /\ tab'[u] = r /\ Awaited(c)
    BY <1>1, <1>4, <1>5, <1>6 DEF TypeOK
  <1>8. ASSUME NEW u \in Tabs, tab'[u] = tab[u] PROVE TabOK(u)'
    <2>1. TabOK(u)
      BY <1>1
    <2>2. \A i \in Ops : InOrder(i) => InOrder(i)'
      BY <1>1, <1>2 DEF InOrder, TypeOK, Row
    <2>3. tab[u].st = "answered" /\ tab[u].answer \in {"ack", "refused"} /\ row[tab[u].op].epoch = epoch
             => ledger'[tab[u].op] = tab[u].answer
      BY <2>1 DEF TabOK, Busy
    <2> QED BY <1>2, <1>8, <2>1, <2>2, <2>3 DEF TabOK, Busy
  <1>9. ASSUME tab'[s] = r, Awaited(c) PROVE TabOK(s)'
    <2>1. TabOK(s) /\ tab[s].op = c.op
      BY <1>1, <1>9 DEF Awaited
    <2> QED BY <1>1, <1>2, <1>5, <1>9, <2>1 DEF TabOK, Busy, WireOK
  <1>10. \A i \in Ops : RowOK(i)'
    BY <1>1, <1>2 DEF RowOK
  <1>11. \A d \in wire' : WireOK(d)'
    <2> SUFFICES ASSUME NEW d \in wire PROVE WireOK(d)'
      BY <1>2
    <2>1. WireOK(d) /\ d.op \in Ops
      BY Parts DEF TypeOK, Copy
    <2> QED BY <1>1, <1>2, <2>1 DEF WireOK, InOrder, TypeOK, Row
  <1>12. TypeOK'
    BY <1>1, <1>2, <1>7 DEF TypeOK
  <1> QED BY <1>1, <1>2, <1>7, <1>8, <1>9, <1>10, <1>11, <1>12, WholeNext DEF AllOK

LEMMA RequestKeeps ==
    ASSUME OInv, NEW c \in wire, Lose(c) \/ Hold(c) \/ Look(c) \/ Apply(c)
    PROVE  OInv'
  <1> DEFINE i == c.op
  <1>1. /\ TypeOK /\ i \in Ops /\ c \in Copy /\ WireOK(c) /\ ledger[i] \in {"none", "ack", "refused"}
        /\ ledger \in [Ops -> {"none", "ack", "refused"}] /\ applied \in [Ops -> Nat]
        /\ faults \in Nat
    BY Parts DEF TypeOK, Copy
  <1>2. UNCHANGED <<row, storeEpoch, epoch, archive>> /\ faults' \in Nat
    BY <1>1 DEF Lose, Hold, Look, Apply, Fault, serverVars
  <1>3. CASE Lose(c)
    <2>1. UNCHANGED <<serverVars, row, storeEpoch, tab>> /\ wire' = wire \ {c}
      BY <1>3 DEF Lose
    <2>2. RowsEdited
      BY <2>1, UneditedRows
    <2>3. storeEpoch' \in 0..MaxEpoch /\ \A j \in Ops : RowOK(j)'
      BY <2>1, <2>2, RowsKept
    <2>4. \A d \in wire' : WireOK(d)'
      BY <2>1, <2>2, WireKept
    <2>5. \A s \in Tabs : TabOK(s)'
      BY <2>1, Parts DEF TabOK, InOrder, Busy, serverVars
    <2>6. TypeOK'
      BY <1>1, <1>2, <2>1 DEF TypeOK, serverVars
    <2>7. storeEpoch' <= epoch'
      BY <1>2, Parts
    <2> QED BY <2>3, <2>4, <2>5, <2>6, <2>7, WholeNext DEF AllOK
  <1>4. CASE Hold(c)
    <2>1. Answer(c, "held") /\ UNCHANGED serverVars
      BY <1>4 DEF Hold
    <2> QED BY <1>1, <1>2, <2>1, ServedKeeps DEF Answers, serverVars
  <1>5. CASE Look(c) /\ ~row[i].valid
    <2>1. Answer(c, "invalid") /\ UNCHANGED serverVars
      BY <1>5 DEF Look
    <2> QED BY <1>1, <1>2, <2>1, ServedKeeps DEF Answers, serverVars
  <1>6. CASE Look(c) /\ row[i].valid /\ ledger[i] # "none"
    <2>1. Answer(c, ledger[i]) /\ UNCHANGED serverVars /\ ledger[i] \in Answers
      BY <1>1, <1>6 DEF Look, Answers
    <2> QED BY <1>1, <1>2, <2>1, ServedKeeps DEF serverVars
  <1>7. CASE Look(c) /\ row[i].valid /\ ledger[i] = "none"
    <2> DEFINE d == [c EXCEPT !.looked = TRUE]
    <2>1. UNCHANGED <<serverVars, row, storeEpoch, tab>> /\ wire' = (wire \ {c}) \cup {d}
      BY <1>7 DEF Look
    <2>2. d \in Copy /\ d.op = c.op
      BY <1>1 DEF Copy
    <2> HIDE DEF d
    <2>3. RowsEdited
      BY <2>1, UneditedRows
    <2>4. storeEpoch' \in 0..MaxEpoch /\ \A j \in Ops : RowOK(j)'
      BY <2>1, <2>3, RowsKept
    <2>5. \A e \in wire' : WireOK(e)'
      <3>1. \A e \in wire : WireOK(e)'
        BY <2>1, <2>3, WireKept
      <3>2. WireOK(d)'
        BY <2>2, <3>1 DEF WireOK, InOrder
      <3> QED BY <2>1, <3>1, <3>2
    <2>6. \A s \in Tabs : TabOK(s)'
      BY <2>1, Parts DEF TabOK, InOrder, Busy, serverVars
    <2>7. TypeOK'
      BY <1>1, <1>2, <2>1, <2>2 DEF TypeOK, serverVars
    <2>8. storeEpoch' <= epoch'
      BY <1>2, Parts
    <2> QED BY <2>4, <2>5, <2>6, <2>7, <2>8, WholeNext DEF AllOK
  <1>8. CASE Apply(c)
    <2>1. PICK result \in {"ack", "refused"} :
             IF row[i].epoch # epoch THEN Answer(c, "epoch") /\ UNCHANGED <<ledger, applied>>
             ELSE IF ~Claimed(i) THEN Answer(c, ledger[i]) /\ UNCHANGED <<ledger, applied>>
             ELSE IF ~Satisfied(i) THEN Answer(c, "invalid") /\ UNCHANGED <<ledger, applied>>
             ELSE /\ Answer(c, result)
                  /\ ledger' = [ledger EXCEPT ![i] = result]
                  /\ applied' = IF result = "ack" THEN [applied EXCEPT ![i] = @ + 1] ELSE applied
      BY <1>8 DEF Apply
    <2>2. CASE row[i].epoch # epoch
      <3>1. Answer(c, "epoch") /\ UNCHANGED <<ledger, applied>>
        BY <2>1, <2>2
      <3> QED BY <1>1, <1>2, <3>1, ServedKeeps DEF Answers
    <2>3. CASE row[i].epoch = epoch /\ ~Claimed(i)
      <3>1. Answer(c, ledger[i]) /\ UNCHANGED <<ledger, applied>> /\ ledger[i] \in Answers
        BY <1>1, <2>1, <2>3 DEF Answers, Claimed
      <3> QED BY <1>1, <1>2, <3>1, ServedKeeps
    <2>4. CASE row[i].epoch = epoch /\ Claimed(i) /\ ~Satisfied(i)
      <3>1. Answer(c, "invalid") /\ UNCHANGED <<ledger, applied>>
        BY <2>1, <2>4
      <3> QED BY <1>1, <1>2, <3>1, ServedKeeps DEF Answers
    <2>5. CASE row[i].epoch = epoch /\ Claimed(i) /\ Satisfied(i)
      <3>1. /\ Answer(c, result) /\ ledger' = [ledger EXCEPT ![i] = result]
            /\ applied' = IF result = "ack" THEN [applied EXCEPT ![i] = @ + 1] ELSE applied
        BY <2>1, <2>5
      <3>2. /\ result \in Answers /\ ledger' \in [Ops -> {"none", "ack", "refused"}]
            /\ ledger'[i] = result /\ \A j \in Ops : ledger[j] # "none" => ledger'[j] = ledger[j]
        BY <1>1, <2>5, <3>1 DEF Answers, Claimed
      <3>3. applied' \in [Ops -> Nat]
        BY <1>1, <3>1
      <3> QED BY <1>1, <1>2, <3>1, <3>2, <3>3, ServedKeeps
    <2> QED BY <2>2, <2>3, <2>4, <2>5
  <1> QED BY <1>3, <1>4, <1>5, <1>6, <1>7, <1>8

\* After a restore everything the browser has is of an older epoch.
LEMMA LibraryKeeps ==
    ASSUME OInv, Backup \/ Restore
    PROVE  OInv'
  <1>1. /\ TypeOK /\ storeEpoch <= epoch /\ epoch \in Nat /\ storeEpoch \in Nat
        /\ \A i \in Ops : RowOK(i) /\ row[i].epoch \in Nat
        /\ \A s \in Tabs : TabOK(s) /\ tab[s].page \in Nat /\ tab[s].latest \in Nat
        /\ \A c \in wire : WireOK(c) /\ c.op \in Ops
    BY Parts, OutboxAssumption DEF TypeOK, Row, Tab, Copy
  <1>2. UNCHANGED <<row, storeEpoch, tab, wire, faults, applied>>
    BY DEF Backup, Restore
  <1>3. CASE Backup
    <2>1. archive' = ledger /\ ledger' = ledger /\ epoch' = epoch
      BY <1>3 DEF Backup
    <2>2. TypeOK'
      BY <1>1, <1>2, <2>1 DEF TypeOK
    <2>3. \A i \in Ops : RowOK(i)'
      BY <1>1, <1>2, <2>1 DEF RowOK
    <2>4. (\A s \in Tabs : TabOK(s)') /\ \A c \in wire' : WireOK(c)'
      BY <1>1, <1>2, <2>1 DEF TabOK, InOrder, Busy, WireOK
    <2> QED BY <1>1, <1>2, <2>1, <2>2, <2>3, <2>4, WholeNext DEF AllOK
  <1>4. CASE Restore
    <2>1. ledger' = archive /\ archive' = archive /\ epoch' = epoch + 1 /\ epoch < MaxEpoch
      BY <1>4 DEF Restore
    <2>2. TypeOK' /\ storeEpoch' <= epoch'
      <3>1. epoch' \in 1..MaxEpoch /\ storeEpoch' <= epoch'
        BY <1>1, <1>2, <2>1, OutboxAssumption
      <3> QED BY <1>1, <1>2, <2>1, <3>1 DEF TypeOK
    <2>3. \A i \in Ops : row[i].epoch <= epoch /\ row'[i].epoch # epoch'
      BY <1>1, <1>2, <2>1 DEF RowOK
    <2>4. \A i \in Ops : RowOK(i)'
      BY <1>1, <1>2, <2>3 DEF RowOK
    <2>5. \A c \in wire' : WireOK(c)'
      BY <1>1, <1>2, <2>3 DEF InOrder, WireOK
    <2>6. \A s \in Tabs : TabOK(s)'
      <3> SUFFICES ASSUME NEW s \in Tabs PROVE TabOK(s)'
        OBVIOUS
      <3>1. TabOK(s) /\ tab'[s] = tab[s] /\ tab[s].page <= epoch' /\ tab[s].latest <= epoch'
        BY <1>1, <1>2, <2>1 DEF TabOK
      <3>2. Busy(s) => tab[s].op \in Ops /\ row'[tab[s].op].epoch # epoch'
        BY <2>3, <3>1 DEF TabOK
      <3> QED BY <1>2, <3>1, <3>2 DEF TabOK, InOrder, Busy
    <2> QED BY <2>2, <2>4, <2>5, <2>6, WholeNext DEF AllOK
  <1> QED BY <1>3, <1>4

LEMMA InitKeeps ==
    ASSUME Init
    PROVE  OInv
  <1>1. TypeOK
    <2>1. row \in [Ops -> Row]
      BY OutboxAssumption DEF Init, Unmade, Row, Status, Kinds, Results
    <2>2. tab \in [Tabs -> Tab]
      BY OutboxAssumption DEF Init, Closed, Tab, Answers
    <2> QED BY <2>1, <2>2, OutboxAssumption DEF Init, TypeOK
  <1>2. \A i \in Ops : RowOK(i)
    BY DEF Init, Unmade, RowOK, InStore
  <1>3. \A t \in Tabs : TabOK(t)
    BY DEF Init, Closed, TabOK, Busy
  <1>4. (\A c \in wire : WireOK(c)) /\ storeEpoch <= epoch
    BY DEF Init
  <1> QED BY <1>1, <1>2, <1>3, <1>4, Whole DEF AllOK

LEMMA NextKeeps ==
    ASSUME OInv, [Next]_vars
    PROVE  OInv'
  <1>1. ASSUME NEW t \in Tabs, Create(t) \/ SaveField(t) \/ Delete(t) PROVE OInv'
    BY <1>1, UserKeeps
  <1>2. ASSUME NEW t \in Tabs, NEW i \in Ops, Discard(t, i) \/ DiscardRestored(t, i) PROVE OInv'
    BY <1>2, UserKeeps
  <1>3. ASSUME NEW t \in Tabs, Start(t) \/ Crash(t) \/ Verify(t) \/ Rest(t) PROVE OInv'
    <2>1. UNCHANGED <<serverVars, wire>>
      BY <1>3 DEF Start, Crash, Verify, Rest
    <2> QED BY <1>3, <2>1, PageKeeps, StepKept
  <1>4. ASSUME NEW t \in Tabs, Send(t) PROVE OInv'
    BY <1>4, SendKeeps
  <1>5. ASSUME NEW t \in Tabs, Release(t) \/ Claim(t) PROVE OInv'
    BY <1>5, HandKeeps
  <1>6. ASSUME NEW t \in Tabs, Wake(t) \/ Settle(t) PROVE OInv'
    BY <1>6, DrainKeeps
  <1>7. ASSUME NEW t \in Tabs, Timeout(t) \/ RecordFails(t) \/ GiveBack(t) \/ Record(t) PROVE OInv'
    BY <1>7, AnswerKeeps
  <1>8. ASSUME NEW t \in Tabs, Pick(t) \/ EpochMoved(t) PROVE OInv'
    BY <1>8, PickKeeps, EpochMovedKeeps
  <1>9. ASSUME NEW c \in wire, Lose(c) \/ Hold(c) \/ Look(c) \/ Apply(c) PROVE OInv'
    BY <1>9, RequestKeeps
  <1>10. ASSUME Backup \/ Restore PROVE OInv'
    BY <1>10, LibraryKeeps
  <1>11. ASSUME UNCHANGED vars PROVE OInv'
    <2>1. UNCHANGED <<row, storeEpoch, tab, wire, ledger, epoch, archive, applied, faults>>
      BY <1>11 DEF vars
    <2> QED BY <2>1 DEF OInv, TypeOK, AboutMade, Epochs, DepsMade, Believed, PickedInOrder,
                        SentInOrder, Busy
  <1> QED BY <1>1, <1>2, <1>3, <1>4, <1>5, <1>6, <1>7, <1>8, <1>9, <1>10, <1>11
          DEF Next, Coordinate

\* The parts the queue's order rests on hold throughout.
THEOREM Kept == Spec => []OInv
  <1>1. Init => OInv
    BY InitKeeps
  <1>2. OInv /\ [Next]_vars => OInv'
    BY NextKeeps
  <1> QED BY <1>1, <1>2, PTL DEF Spec

\* Every variable of the queue and the ledger keeps its shape.
THEOREM Types == Spec => []TypeOK
  <1>1. OInv => TypeOK
    BY DEF OInv
  <1> QED BY <1>1, Kept, PTL

\* An operation of the Library's epoch that is under way waits for nothing the
\* server has not applied, with or without a lock between the tabs.
THEOREM SentOnceReady == Spec => []SentInOrder
  <1>1. OInv => SentInOrder
    BY DEF OInv
  <1> QED BY <1>1, Kept, PTL
=============================================================================

-------------------------- MODULE RootPairingProofs --------------------------
(***************************************************************************)
(* Proofs, for every value of the constants, about who may run on a data   *)
(* root.  PInv is inductive under every fault: a claim, once it is on the  *)
(* disk, is on every marker the disk may ever have, so two instances never *)
(* serve one root.  StartInv adds the start generations: what the rows and *)
(* the markers say of the history of starts, what a start knows while it   *)
(* holds its key, and so that the starts that served on a root are those   *)
(* of one database, and that an interrupted start never locks it out.      *)
(***************************************************************************)
EXTENDS RootPairing, TLAPS

-----------------------------------------------------------------------------
(* Types *)

\* The constants of the data are of their types.
LEMMA DataTypes == /\ NotStarted \in StartState /\ Unclaimed \in Marker
                   /\ NoInstance \in Row /\ Idle \in Proc
  <1>1. NotStarted \in StartState
    BY DEF NotStarted, StartState
  <1>2. Unclaimed \in Marker
    BY <1>1 DEF Unclaimed, Marker
  <1>3. NoInstance \in Row
    BY <1>1 DEF NoInstance, Row
  <1>4. Idle \in Proc
    BY <1>1, <1>3 DEF Idle, Proc
  <1> QED BY <1>1, <1>2, <1>3, <1>4

\* The rows that a bootstrap, a commit of step 3 and a bump write are rows.
LEMMA RowTypes ==
    ASSUME NEW row \in Row, NEW r \in Roots, NEW t \in Tokens
    PROVE  /\ FirstRow(r, t) \in Row
           /\ [row EXCEPT !.setup = "ready"] \in Row
           /\ Bumped(row, t) \in Row
           /\ ClaimOf(row) \in Marker
  <1>1. FirstRow(r, t) \in Row
    BY DEF FirstRow, Row, StartState
  <1>2. [row EXCEPT !.setup = "ready"] \in Row
    BY DEF Row
  <1>3. Bumped(row, t) \in Row
    <2>1. row.at \in StartState /\ row.at.tok \in Tokens \cup {Nothing} /\ row.at.gen + 1 \in Nat
      BY DEF Row, StartState
    <2>2. [gen |-> row.at.gen + 1, tok |-> t] \in StartState
      BY <2>1 DEF StartState
    <2> QED BY <2>1, <2>2 DEF Bumped, Row
  <1>4. ClaimOf(row) \in Marker
    BY DEF ClaimOf, Row, Marker
  <1> QED BY <1>1, <1>2, <1>3, <1>4

\* The updates of a process record keep it one.
LEMMA ProcEdit ==
    ASSUME NEW c \in Proc, NEW d \in Databases, NEW r \in Roots, NEW b \in BOOLEAN,
           NEW row \in Row, NEW s \in StartState
    PROVE  /\ [Idle EXCEPT !.pc = "begin", !.db = d, !.root = r, !.new = b] \in Proc
           /\ [Idle EXCEPT !.pc = "read", !.db = d, !.root = r, !.owes = b,
                           !.locked = TRUE] \in Proc
           /\ \A pc \in {"claimSync", "finish", "finishTx", "bump", "replace", "sync", "prove"} :
                 [c EXCEPT !.pc = pc] \in Proc
           /\ \A pc \in {"claim", "check"} : [c EXCEPT !.pc = pc, !.row = row] \in Proc
           /\ [c EXCEPT !.pc = "write", !.from = s] \in Proc
           /\ [c EXCEPT !.pc = "write", !.row = row, !.from = s, !.owes = FALSE] \in Proc
           /\ [c EXCEPT !.pc = "serving", !.locked = FALSE] \in Proc
           /\ [c EXCEPT !.locked = FALSE] \in Proc
  <1>1. [Idle EXCEPT !.pc = "begin", !.db = d, !.root = r, !.new = b] \in Proc
    BY DataTypes DEF Idle, Proc
  <1>2. [Idle EXCEPT !.pc = "read", !.db = d, !.root = r, !.owes = b, !.locked = TRUE] \in Proc
    BY DataTypes DEF Idle, Proc
  <1>3. \A pc \in {"claimSync", "finish", "finishTx", "bump", "replace", "sync", "prove"} :
           [c EXCEPT !.pc = pc] \in Proc
    BY DEF Proc
  <1>4. \A pc \in {"claim", "check"} : [c EXCEPT !.pc = pc, !.row = row] \in Proc
    BY DEF Proc
  <1>5. [c EXCEPT !.pc = "write", !.from = s] \in Proc
    BY DEF Proc
  <1>6. [c EXCEPT !.pc = "write", !.row = row, !.from = s, !.owes = FALSE] \in Proc
    BY DEF Proc
  <1>7. [c EXCEPT !.pc = "serving", !.locked = FALSE] \in Proc
    BY DEF Proc
  <1>8. [c EXCEPT !.locked = FALSE] \in Proc
    BY DEF Proc
  <1> QED BY <1>1, <1>2, <1>3, <1>4, <1>5, <1>6, <1>7, <1>8

-----------------------------------------------------------------------------
(* The inductive invariant *)

\* A database with a row names an instance, its root and its last start.
Named(d) ==
    db[d].setup # "none" =>
        db[d].id \in Tokens /\ db[d].root \in Roots /\ db[d].at.tok \in Tokens

\* Every marker the disk of a ready database's root may have is claimed by it.
Committed(d) ==
    db[d].setup = "ready" => \A m \in disk[db[d].root] : m.id = db[d].id

Bootstrapping == {"claim", "claimSync", "finish", "finishTx"}
AtRoot == {"bump", "write", "replace", "sync", "prove", "serving"}

\* A process at work has a database and a root.
Placed(p) == proc[p].pc # "idle" => proc[p].db \in Databases /\ proc[p].root \in Roots

\* A bootstrap past step 1 goes by a row of its own root.
HoldsRow(p) ==
    proc[p].pc \in Bootstrapping =>
        /\ proc[p].row.setup = "bootstrapping"
        /\ proc[p].row.id \in Tokens /\ proc[p].row.root = proc[p].root

\* Its claim is in the marker once step 2 has written it, and on the disk once
\* step 2 has synced it.
Claimed(p) ==
    /\ proc[p].pc = "claimSync" => marker[proc[p].root].id = proc[p].row.id
    /\ proc[p].pc \in {"finish", "finishTx"} =>
          \A m \in disk[proc[p].root] : m.id = proc[p].row.id

\* A start past its read goes by the row of its ready database, and past its
\* check it is at that row's root.
Knows(p) ==
    /\ proc[p].pc \in AtRoot \cup {"check"} =>
          /\ db[proc[p].db].setup = "ready"
          /\ proc[p].row.id = db[proc[p].db].id
          /\ proc[p].row.root = db[proc[p].db].root
          /\ proc[p].row.at.tok \in Tokens
    /\ proc[p].pc \in AtRoot => proc[p].row.root = proc[p].root

DbSafe == \A d \in Databases : Named(d) /\ Committed(d)
ProcSafe == \A p \in Procs : Placed(p) /\ HoldsRow(p) /\ Claimed(p) /\ Knows(p)
PInv == TypeOK /\ DbSafe /\ ProcSafe

-----------------------------------------------------------------------------
(* A step keeps the types *)

\* A rename and a sync keep the type of the markers.
LEMMA MarkerTypes ==
    ASSUME TypeOK, NEW r \in Roots
    PROVE  /\ \A m \in Marker : Rename(r, m) =>
                 /\ marker' \in [Roots -> Marker] /\ disk' \in [Roots -> SUBSET Marker]
                 /\ \A s \in Roots : marker'[s] \in disk'[s]
           /\ SyncDirectory(r) =>
                 /\ disk' \in [Roots -> SUBSET Marker]
                 /\ \A s \in Roots : marker[s] \in disk'[s]
  <1>1. ASSUME NEW m \in Marker, Rename(r, m)
        PROVE  /\ marker' \in [Roots -> Marker] /\ disk' \in [Roots -> SUBSET Marker]
               /\ \A s \in Roots : marker'[s] \in disk'[s]
    BY <1>1 DEF TypeOK, Rename
  <1>2. ASSUME SyncDirectory(r)
        PROVE  /\ disk' \in [Roots -> SUBSET Marker]
               /\ \A s \in Roots : marker[s] \in disk'[s]
    BY <1>2 DEF TypeOK, SyncDirectory
  <1> QED BY <1>1, <1>2

\* The edits of a process keep the type of all of them.
LEMMA ProcTypes ==
    ASSUME TypeOK, NEW p \in Procs
    PROVE  /\ \A c \in Proc : [proc EXCEPT ![p] = c] \in [Procs -> Proc]
           /\ \A pc \in {"claimSync", "finish", "finishTx", "bump", "replace", "sync", "prove"} :
                 Goto(p, pc) => proc' \in [Procs -> Proc]
           /\ Idle \in Proc /\ proc[p] \in Proc /\ proc[p].row \in Row
  <1>1. \A c \in Proc : [proc EXCEPT ![p] = c] \in [Procs -> Proc]
    BY DEF TypeOK
  <1>2. proc[p] \in Proc /\ proc[p].row \in Row
    BY DEF TypeOK, Proc
  <1>3. ASSUME NEW pc \in {"claimSync", "finish", "finishTx", "bump", "replace", "sync", "prove"},
               Goto(p, pc)
        PROVE  proc' \in [Procs -> Proc]
    <2>1. [proc[p] EXCEPT !.pc = pc] \in Proc
      BY <1>2 DEF Proc
    <2>2. proc' = [proc EXCEPT ![p] = [proc[p] EXCEPT !.pc = pc]]
      BY <1>3 DEF Goto
    <2> QED BY <1>1, <2>1, <2>2
  <1> QED BY <1>1, <1>2, <1>3, DataTypes

\* A start that goes on to serve keeps them too.
LEMMA ServeTypes ==
    ASSUME TypeOK, NEW p \in Procs, Serve(p), proc[p].root \in Roots,
           proc[p].row.at.tok \in Tokens
    PROVE  proc' \in [Procs -> Proc] /\ served' \in [Roots -> SUBSET Tokens]
  <1>1. [proc[p] EXCEPT !.pc = "serving", !.locked = FALSE] \in Proc
    BY ProcTypes DEF Proc
  <1>2. proc' \in [Procs -> Proc]
    BY <1>1, ProcTypes DEF Serve
  <1>3. served' \in [Roots -> SUBSET Tokens]
    BY DEF TypeOK, Serve
  <1> QED BY <1>2, <1>3

\* Each action keeps the types; that a process at work has a database and a
\* root, and a start a row, is what ProcSafe adds to them.
LEMMA TypeStep == PInv /\ Next => TypeOK'
  <1> SUFFICES ASSUME PInv, Next PROVE TypeOK'
    OBVIOUS
  <1> USE DEF PInv
  <1>1. ASSUME NEW p \in Procs, NEW d \in Databases, NEW r \in Roots, ReadRoot(p, d, r)
        PROVE  TypeOK'
    <2>1. (marker[r] = Unclaimed /\ r \notin holds) \in BOOLEAN
      OBVIOUS
    <2>2. proc' \in [Procs -> Proc]
      BY <1>1, <2>1, ProcTypes, ProcEdit, DataTypes, Zenon DEF ReadRoot
    <2> QED BY <1>1, <2>2, Zenon DEF ReadRoot, TypeOK
  <1>2. ASSUME NEW p \in Procs, InsertInstance(p) PROVE TypeOK'
    <2>1. proc[p].db \in Databases /\ proc[p].root \in Roots
      BY <1>2 DEF InsertInstance, ProcSafe, Placed
    <2>2. PICK t \in Tokens :
             /\ db' = [db EXCEPT ![proc[p].db] = FirstRow(proc[p].root, t)]
             /\ past' = [past EXCEPT ![proc[p].db] = @ \cup {t}]
             /\ proc' = [proc EXCEPT ![p].pc = "claim", ![p].row = FirstRow(proc[p].root, t)]
      BY <1>2 DEF InsertInstance, FreshTokens
    <2>3. FirstRow(proc[p].root, t) \in Row
      BY <2>1, RowTypes, DataTypes
    <2>4. [proc[p] EXCEPT !.pc = "claim", !.row = FirstRow(proc[p].root, t)] \in Proc
      BY <2>3, ProcTypes DEF Proc
    <2>5. proc' \in [Procs -> Proc]
      BY <2>2, <2>4, ProcTypes
    <2>6. db' \in [Databases -> Row] /\ past' \in [Databases -> SUBSET Tokens]
      BY <2>1, <2>2, <2>3 DEF TypeOK
    <2> QED BY <1>2, <2>5, <2>6 DEF InsertInstance, TypeOK
  <1>3. ASSUME NEW p \in Procs, ResumeInstance(p) PROVE TypeOK'
    <2>1. proc[p].db \in Databases /\ db[proc[p].db] \in Row
      BY <1>3 DEF ResumeInstance, ProcSafe, Placed, TypeOK
    <2>2. [proc[p] EXCEPT !.pc = "claim", !.row = db[proc[p].db]] \in Proc
      BY <2>1, ProcTypes DEF Proc
    <2>3. proc' \in [Procs -> Proc]
      BY <1>3, <2>2, ProcTypes DEF ResumeInstance
    <2> QED BY <1>3, <2>3 DEF ResumeInstance, TypeOK
  <1>4. ASSUME NEW p \in Procs, ClaimRoot(p) PROVE TypeOK'
    <2>1. proc[p].root \in Roots
      BY <1>4 DEF ClaimRoot, ProcSafe, Placed
    <2>2. ClaimOf(proc[p].row) \in Marker
      BY ProcTypes DEF ClaimOf, Row, Marker
    <2>3. proc' \in [Procs -> Proc]
      BY <1>4, ProcTypes DEF ClaimRoot
    <2>4. CASE Rename(proc[p].root, ClaimOf(proc[p].row))
      BY <1>4, <2>1, <2>2, <2>3, <2>4, MarkerTypes DEF ClaimRoot, TypeOK
    <2>5. CASE UNCHANGED <<marker, disk>>
      BY <1>4, <2>3, <2>5 DEF ClaimRoot, TypeOK
    <2> QED BY <1>4, <2>4, <2>5 DEF ClaimRoot
  <1>5. ASSUME NEW p \in Procs, SyncClaim(p) PROVE TypeOK'
    <2>1. proc[p].root \in Roots
      BY <1>5 DEF SyncClaim, ProcSafe, Placed
    <2>2. proc' \in [Procs -> Proc]
      BY <1>5, ProcTypes DEF SyncClaim
    <2> QED BY <1>5, <2>1, <2>2, MarkerTypes DEF SyncClaim, TypeOK
  <1>6. ASSUME NEW p \in Procs, ReadClaim(p) PROVE TypeOK'
    <2>1. proc' \in [Procs -> Proc]
      BY <1>6, ProcTypes DEF ReadClaim
    <2> QED BY <1>6, <2>1 DEF ReadClaim, TypeOK
  <1>7. ASSUME NEW p \in Procs, MarkReady(p) PROVE TypeOK'
    <2>1. proc[p].db \in Databases
      BY <1>7 DEF MarkReady, ProcSafe, Placed
    <2>2. [db[proc[p].db] EXCEPT !.setup = "ready"] \in Row
      BY <2>1 DEF TypeOK, Row
    <2>3. db' \in [Databases -> Row]
      BY <1>7, <2>1, <2>2 DEF MarkReady, TypeOK
    <2>4. proc' \in [Procs -> Proc]
      BY <1>7, ProcTypes DEF MarkReady
    <2> QED BY <1>7, <2>3, <2>4 DEF MarkReady, TypeOK
  <1>8. ASSUME NEW p \in Procs, NEW d \in Databases, NEW r \in Roots, NEW bump \in BOOLEAN,
               TakeStartKey(p, d, r, bump)
        PROVE  TypeOK'
    <2>1. proc' \in [Procs -> Proc]
      BY <1>8, ProcTypes, ProcEdit, DataTypes, Zenon DEF TakeStartKey
    <2> QED BY <1>8, <2>1 DEF TakeStartKey, TypeOK
  <1>9. ASSUME NEW p \in Procs, ReadInstance(p) PROVE TypeOK'
    <2>1. proc[p].db \in Databases /\ db[proc[p].db] \in Row
      BY <1>9 DEF ReadInstance, ProcSafe, Placed, TypeOK
    <2>2. [proc[p] EXCEPT !.pc = "check", !.row = db[proc[p].db]] \in Proc
      BY <2>1, ProcTypes DEF Proc
    <2>3. proc' \in [Procs -> Proc]
      BY <1>9, <2>2, ProcTypes DEF ReadInstance
    <2> QED BY <1>9, <2>3 DEF ReadInstance, TypeOK
  <1>10. ASSUME NEW p \in Procs, CheckPasses(p) PROVE TypeOK'
    <2>1. proc' \in [Procs -> Proc]
      BY <1>10, ProcTypes DEF CheckPasses
    <2> QED BY <1>10, <2>1 DEF CheckPasses, TypeOK
  <1>11. ASSUME NEW p \in Procs, CheckReconciles(p) PROVE TypeOK'
    <2>1. proc[p].root \in Roots /\ marker[proc[p].root].at \in StartState
      BY <1>11 DEF CheckReconciles, ProcSafe, Placed, TypeOK, Marker
    <2>2. [proc[p] EXCEPT !.pc = "write", !.from = marker[proc[p].root].at] \in Proc
      BY <2>1, ProcTypes DEF Proc
    <2>3. proc' \in [Procs -> Proc]
      BY <1>11, <2>2, ProcTypes DEF CheckReconciles
    <2> QED BY <1>11, <2>3 DEF CheckReconciles, TypeOK
  <1>12. ASSUME NEW p \in Procs, BumpDatabase(p) PROVE TypeOK'
    <2> DEFINE d == proc[p].db
    <2>1. d \in Databases /\ db[d] \in Row /\ proc[p].row.at \in StartState
      BY <1>12, ProcTypes DEF BumpDatabase, ProcSafe, Placed, TypeOK, Row
    <2>2. PICK t \in Tokens :
             /\ db' = [db EXCEPT ![d] = Bumped(db[d], t)]
             /\ past' = [past EXCEPT ![d] = @ \cup {t}]
             /\ proc' = [proc EXCEPT ![p].pc = "write", ![p].row = Bumped(db[d], t),
                                     ![p].from = proc[p].row.at, ![p].owes = FALSE]
      BY <1>12, <2>1, Zenon DEF BumpDatabase, FreshTokens, TypeOK
    <2>3. Bumped(db[d], t) \in Row
      <3>1. db[d].at \in StartState /\ db[d].at.tok \in Tokens \cup {Nothing}
            /\ db[d].at.gen + 1 \in Nat
        BY <2>1 DEF Row, StartState
      <3>2. [gen |-> db[d].at.gen + 1, tok |-> t] \in StartState
        BY <3>1 DEF StartState
      <3> QED BY <2>1, <3>1, <3>2 DEF Bumped, Row
    <2>4. [proc[p] EXCEPT !.pc = "write", !.row = Bumped(db[d], t), !.from = proc[p].row.at,
                          !.owes = FALSE] \in Proc
      BY <2>1, <2>3, ProcTypes DEF Proc
    <2>5. proc' \in [Procs -> Proc]
      BY <2>2, <2>4, ProcTypes, Zenon
    <2>6. db' \in [Databases -> Row] /\ past' \in [Databases -> SUBSET Tokens]
      BY <2>1, <2>2, <2>3 DEF TypeOK
    <2> QED BY <1>12, <2>5, <2>6 DEF BumpDatabase, TypeOK
  <1>13. ASSUME NEW p \in Procs, CompareMarker(p) PROVE TypeOK'
    <2>1. proc' \in [Procs -> Proc]
      BY <1>13, ProcTypes DEF CompareMarker
    <2> QED BY <1>13, <2>1 DEF CompareMarker, TypeOK
  <1>14. ASSUME NEW p \in Procs, ReplaceMarker(p) PROVE TypeOK'
    <2>1. proc[p].root \in Roots
      BY <1>14 DEF ReplaceMarker, ProcSafe, Placed
    <2>2. ClaimOf(proc[p].row) \in Marker
      BY ProcTypes DEF ClaimOf, Row, Marker
    <2>3. proc' \in [Procs -> Proc]
      BY <1>14, ProcTypes DEF ReplaceMarker
    <2> QED BY <1>14, <2>1, <2>2, <2>3, MarkerTypes DEF ReplaceMarker, TypeOK
  <1>15. ASSUME NEW p \in Procs, SyncMarker(p) PROVE TypeOK'
    <2>1. proc[p].root \in Roots /\ proc[p].row.at.tok \in Tokens
      BY <1>15 DEF SyncMarker, ProcSafe, Placed, Knows, AtRoot
    <2>2. proc' \in [Procs -> Proc] /\ served' \in [Roots -> SUBSET Tokens]
      <3>1. CASE proc' = [proc EXCEPT ![p] = Idle] /\ UNCHANGED served
        BY <3>1, ProcTypes DEF TypeOK
      <3>2. CASE Goto(p, "bump") /\ UNCHANGED served
        BY <3>2, ProcTypes DEF TypeOK
      <3>3. CASE Serve(p)
        BY <2>1, <3>3, ServeTypes
      <3> QED BY <1>15, <3>1, <3>2, <3>3 DEF SyncMarker
    <2> QED BY <1>15, <2>1, <2>2, MarkerTypes DEF SyncMarker, TypeOK
  <1>16. ASSUME NEW p \in Procs, ProveDurable(p) PROVE TypeOK'
    <2>1. proc[p].root \in Roots /\ proc[p].row.at.tok \in Tokens
      BY <1>16 DEF ProveDurable, ProcSafe, Placed, Knows, AtRoot
    <2>2. proc' \in [Procs -> Proc] /\ served' \in [Roots -> SUBSET Tokens]
      BY <1>16, <2>1, ServeTypes DEF ProveDurable
    <2> QED BY <1>16, <2>1, <2>2, MarkerTypes DEF ProveDurable, TypeOK
  <1>17. ASSUME NEW p \in Procs, StoreObject(p) PROVE TypeOK'
    <2>1. proc[p].root \in Roots
      BY <1>17 DEF StoreObject, ProcSafe, Placed
    <2> QED BY <1>17, <2>1 DEF StoreObject, TypeOK
  <1>18. ASSUME NEW p \in Procs, Quit(p) PROVE TypeOK'
    <2>1. proc' \in [Procs -> Proc]
      BY <1>18, ProcTypes DEF Quit
    <2> QED BY <1>18, <2>1 DEF Quit, TypeOK
  <1>19. ASSUME NEW p \in Procs, LoseSession(p) PROVE TypeOK'
    <2>1. [proc[p] EXCEPT !.locked = FALSE] \in Proc
      BY ProcTypes DEF Proc
    <2>2. proc' \in [Procs -> Proc]
      BY <1>19, <2>1, ProcTypes DEF LoseSession
    <2> QED BY <1>19, <2>2 DEF LoseSession, TypeOK
  <1>20. ASSUME NEW r \in Roots, LosePower(r) PROVE TypeOK'
    <2>1. proc' \in [Procs -> Proc]
      BY <1>20, DataTypes DEF LosePower, TypeOK
    <2> QED BY <1>20, <2>1 DEF LosePower, TypeOK
  <1>21. ASSUME NEW d \in Databases, NEW e \in Databases, CopyDatabase(d, e) PROVE TypeOK'
    BY <1>21 DEF CopyDatabase, TypeOK
  <1> QED BY <1>1, <1>2, <1>3, <1>4, <1>5, <1>6, <1>7, <1>8, <1>9, <1>10, <1>11, <1>12, <1>13,
             <1>14, <1>15, <1>16, <1>17, <1>18, <1>19, <1>20, <1>21
          DEF Next, BootstrapStep, StartStep

-----------------------------------------------------------------------------
(* What a step does to the rows and the markers *)

\* The row of a database with a process is its row for good: nothing changes
\* the instance, the root or that setup is ready.
LEMMA RowStep ==
    ASSUME PInv, Next, NEW d \in Databases, db[d].setup # "none"
    PROVE  /\ db'[d].setup # "none" /\ db'[d].id = db[d].id /\ db'[d].root = db[d].root
           /\ db[d].setup = "ready" => db'[d].setup = "ready"
           /\ db'[d].at.tok \in Tokens
  <1>1. db \in [Databases -> Row] /\ db[d] \in Row /\ db[d].at.tok \in Tokens
    BY DEF PInv, TypeOK, DbSafe, Named
  <1>2. CASE UNCHANGED db
    BY <1>1, <1>2
  <1>3. ASSUME NEW p \in Procs, InsertInstance(p)
        PROVE  db'[d] = db[d]
    BY <1>1, <1>3 DEF InsertInstance
  <1>4. ASSUME NEW p \in Procs, MarkReady(p)
        PROVE  db'[d] = db[d] \/ db'[d] = [db[d] EXCEPT !.setup = "ready"]
    BY <1>1, <1>4 DEF MarkReady
  <1>5. ASSUME NEW p \in Procs, BumpDatabase(p)
        PROVE  db'[d] = db[d] \/ \E t \in Tokens : db'[d] = Bumped(db[d], t)
    BY <1>1, <1>5 DEF BumpDatabase, FreshTokens
  <1>6. ASSUME NEW c \in Databases, NEW e \in Databases, CopyDatabase(c, e)
        PROVE  db'[d] = db[d]
    BY <1>1, <1>6, Zenon DEF CopyDatabase
  <1>7. UNCHANGED db \/ db'[d] = db[d] \/ db'[d] = [db[d] EXCEPT !.setup = "ready"]
        \/ \E t \in Tokens : db'[d] = Bumped(db[d], t)
    BY <1>3, <1>4, <1>5, <1>6, Zenon
       DEF Next, BootstrapStep, StartStep, ReadRoot, ResumeInstance, ClaimRoot, SyncClaim,
           ReadClaim, TakeStartKey, ReadInstance, CheckPasses, CheckReconciles, CompareMarker,
           ReplaceMarker, SyncMarker, ProveDurable, StoreObject, Quit, LoseSession, LosePower
  <1>8. CASE db'[d] = [db[d] EXCEPT !.setup = "ready"]
    BY <1>1, <1>8 DEF Row
  <1>9. CASE \E t \in Tokens : db'[d] = Bumped(db[d], t)
    BY <1>1, <1>9 DEF Bumped, Row
  <1> QED BY <1>1, <1>2, <1>7, <1>8, <1>9

\* A process that replaces a marker writes the instance that is there.
LEMMA Replaces ==
    ASSUME PInv, NEW p \in Procs, proc[p].pc \in AtRoot
    PROVE  /\ proc[p].root \in Roots
           /\ \A m \in disk[proc[p].root] : m.id = proc[p].row.id
           /\ marker[proc[p].root].id = proc[p].row.id
  <1>1. proc[p].db \in Databases /\ proc[p].root \in Roots
    BY DEF PInv, ProcSafe, Placed, AtRoot
  <1>2. /\ db[proc[p].db].setup = "ready" /\ proc[p].row.id = db[proc[p].db].id
        /\ db[proc[p].db].root = proc[p].root
    BY DEF PInv, ProcSafe, Knows
  <1>3. \A m \in disk[proc[p].root] : m.id = proc[p].row.id
    BY <1>1, <1>2 DEF PInv, DbSafe, Committed
  <1> QED BY <1>1, <1>3 DEF PInv, TypeOK

\* A claim on every marker a disk may have is there for good, and so is one in
\* the marker that is read, unless the power goes.
LEMMA MarkerStep ==
    ASSUME PInv, Next, NEW r \in Roots, NEW i \in Tokens
    PROVE  /\ (\A m \in disk[r] : m.id = i) => \A m \in disk'[r] : m.id = i
           /\ marker[r].id = i => marker'[r].id = i \/ LosePower(r)
  <1>1. /\ marker \in [Roots -> Marker] /\ disk \in [Roots -> SUBSET Marker]
        /\ marker[r] \in disk[r]
    BY DEF PInv, TypeOK
  <1> DEFINE Keeps == /\ (\A m \in disk[r] : m.id = i) => \A m \in disk'[r] : m.id = i
                      /\ marker[r].id = i => marker'[r].id = i \/ LosePower(r)
  <1>2. CASE UNCHANGED <<marker, disk>>
    BY <1>2
  <1>3. ASSUME NEW p \in Procs, ClaimRoot(p) PROVE Keeps
    <2>1. CASE UNCHANGED <<marker, disk>>
      BY <2>1
    <2>2. CASE proc[p].root # r /\ Rename(proc[p].root, ClaimOf(proc[p].row))
      BY <1>1, <2>2 DEF Rename
    <2>3. CASE marker[r] = Unclaimed
      BY <1>1, <2>3, PairingAssumption DEF Unclaimed
    <2> QED BY <1>3, <2>1, <2>2, <2>3 DEF ClaimRoot
  <1>4. ASSUME NEW p \in Procs, ReplaceMarker(p) PROVE Keeps
    <2>1. CASE proc[p].root # r
      BY <1>1, <1>4, <2>1 DEF ReplaceMarker, Rename
    <2>2. CASE proc[p].root = r
      <3>1. marker[r].id = proc[p].row.id
        BY <1>4, <2>2, Replaces DEF ReplaceMarker, AtRoot
      <3>2. marker'[r].id = proc[p].row.id /\ disk'[r] = disk[r] \cup {marker'[r]}
        BY <1>1, <1>4, <2>2 DEF ReplaceMarker, Rename, ClaimOf
      <3> QED BY <1>1, <3>1, <3>2
    <2> QED BY <2>1, <2>2
  <1>5. ASSUME NEW s \in Roots, SyncDirectory(s), UNCHANGED marker PROVE Keeps
    BY <1>1, <1>5 DEF SyncDirectory
  <1>6. ASSUME NEW p \in Procs, SyncClaim(p) \/ SyncMarker(p) \/ ProveDurable(p)
        PROVE  Keeps
    <2>1. proc[p].root \in Roots
      BY <1>6 DEF SyncClaim, SyncMarker, ProveDurable, PInv, ProcSafe, Placed
    <2> QED BY <1>5, <1>6, <2>1 DEF SyncClaim, SyncMarker, ProveDurable
  <1>7. ASSUME NEW s \in Roots, LosePower(s) PROVE Keeps
    BY <1>1, <1>7 DEF LosePower
  <1> QED
    <2>1. ASSUME NEW p \in Procs, BootstrapStep(p) PROVE Keeps
      <3>1. CASE InsertInstance(p) \/ ResumeInstance(p) \/ ReadClaim(p) \/ MarkReady(p)
        BY <1>2, <3>1 DEF InsertInstance, ResumeInstance, ReadClaim, MarkReady
      <3> QED BY <1>3, <1>6, <2>1, <3>1 DEF BootstrapStep
    <2>2. ASSUME NEW p \in Procs, StartStep(p) PROVE Keeps
      <3>1. CASE ReadInstance(p) \/ CheckPasses(p) \/ CheckReconciles(p)
        BY <1>2, <3>1 DEF ReadInstance, CheckPasses, CheckReconciles
      <3>2. CASE BumpDatabase(p) \/ CompareMarker(p)
        BY <1>2, <3>2, Zenon DEF BumpDatabase, CompareMarker
      <3> QED BY <1>4, <1>6, <2>2, <3>1, <3>2 DEF StartStep
    <2>3. ASSUME NEW p \in Procs, StoreObject(p) \/ Quit(p) \/ LoseSession(p) PROVE Keeps
      BY <1>2, <2>3 DEF StoreObject, Quit, LoseSession
    <2>4. ASSUME NEW p \in Procs, NEW d \in Databases, NEW s \in Roots,
                 ReadRoot(p, d, s) \/ \E bump \in BOOLEAN : TakeStartKey(p, d, s, bump)
          PROVE  Keeps
      BY <1>2, <2>4, Zenon DEF ReadRoot, TakeStartKey
    <2>5. ASSUME NEW d \in Databases, NEW e \in Databases, CopyDatabase(d, e) PROVE Keeps
      BY <1>2, <2>5 DEF CopyDatabase
    <2> QED BY <1>7, <2>1, <2>2, <2>3, <2>4, <2>5 DEF Next

\* A step keeps the databases safe: setup becomes ready on a claim that step 2
\* made durable, or is copied with it.
LEMMA DbStep == PInv /\ Next => DbSafe'
  <1> SUFFICES ASSUME PInv, Next, NEW d \in Databases PROVE Named(d)' /\ Committed(d)'
    BY DEF DbSafe
  <1>1. /\ db \in [Databases -> Row] /\ Named(d) /\ Committed(d)
        /\ db' \in [Databases -> Row]
    BY TypeStep DEF PInv, TypeOK, DbSafe
  <1>2. CASE db[d].setup = "ready"
    <2>1. db'[d].id = db[d].id /\ db'[d].root = db[d].root /\ db'[d].at.tok \in Tokens
      BY <1>2, RowStep
    <2>2. db[d].id \in Tokens /\ db[d].root \in Roots
      BY <1>1, <1>2 DEF Named
    <2>3. \A m \in disk'[db[d].root] : m.id = db[d].id
      BY <1>1, <1>2, <2>2, MarkerStep DEF Committed
    <2> QED BY <2>1, <2>2, <2>3 DEF Named, Committed
  <1>3. CASE db[d].setup = "bootstrapping"
    <2>1. Named(d)'
      BY <1>1, <1>3, RowStep DEF Named
    <2>2. ASSUME NEW p \in Procs, MarkReady(p), proc[p].db = d PROVE Committed(d)'
      <3>1. proc[p].row = db[d] /\ proc[p].row.root = proc[p].root /\ UNCHANGED disk
        BY <2>2 DEF MarkReady, PInv, ProcSafe, HoldsRow, Bootstrapping
      <3>2. \A m \in disk[proc[p].root] : m.id = proc[p].row.id
        BY <2>2 DEF MarkReady, PInv, ProcSafe, Claimed
      <3>3. db'[d].id = db[d].id /\ db'[d].root = db[d].root
        BY <1>3, RowStep
      <3> QED BY <3>1, <3>2, <3>3 DEF Committed
    <2>3. CASE db'[d].setup # "ready"
      BY <2>1, <2>3, Zenon DEF Committed
    <2>4. db'[d].setup # "ready" \/ \E p \in Procs : MarkReady(p) /\ proc[p].db = d
      <3>1. CASE UNCHANGED db
        BY <1>3, <3>1
      <3>2. ASSUME NEW p \in Procs, InsertInstance(p) PROVE db'[d] = db[d]
        BY <1>1, <1>3, <3>2 DEF InsertInstance
      <3>3. ASSUME NEW p \in Procs, MarkReady(p), proc[p].db # d PROVE db'[d] = db[d]
        BY <1>1, <3>3 DEF MarkReady
      <3>4. ASSUME NEW p \in Procs, BumpDatabase(p) PROVE db'[d].setup = db[d].setup
        BY <1>1, <3>4 DEF BumpDatabase, Bumped, Row
      <3>5. ASSUME NEW c \in Databases, NEW e \in Databases, CopyDatabase(c, e)
            PROVE  db'[d] = db[d]
        BY <1>1, <1>3, <3>5 DEF CopyDatabase
      <3> QED
        BY <1>3, <3>1, <3>2, <3>3, <3>4, <3>5, Zenon
           DEF Next, BootstrapStep, StartStep, ReadRoot, ResumeInstance, ClaimRoot, SyncClaim,
               ReadClaim, TakeStartKey, ReadInstance, CheckPasses, CheckReconciles,
               CompareMarker, ReplaceMarker, SyncMarker, ProveDurable, StoreObject, Quit,
               LoseSession, LosePower
    <2> QED BY <2>1, <2>2, <2>3, <2>4
  <1>4. CASE db[d].setup = "none"
    <2>1. CASE db'[d].setup = "none"
      BY <2>1 DEF Named, Committed
    <2>2. ASSUME NEW p \in Procs, InsertInstance(p), proc[p].db = d
          PROVE  Named(d)' /\ Committed(d)'
      <3>1. proc[p].root \in Roots
        BY <2>2 DEF InsertInstance, PInv, ProcSafe, Placed
      <3>2. \E t \in Tokens : db'[d] = FirstRow(proc[p].root, t)
        BY <1>1, <2>2 DEF InsertInstance, FreshTokens
      <3> QED BY <3>1, <3>2 DEF FirstRow, Named, Committed
    <2>3. ASSUME NEW c \in Databases, CopyDatabase(c, d) PROVE Named(d)' /\ Committed(d)'
      <3>1. db'[d] = db[c] /\ UNCHANGED disk /\ Named(c) /\ Committed(c)
        BY <1>1, <2>3 DEF CopyDatabase, PInv, DbSafe
      <3> QED BY <3>1 DEF Named, Committed
    <2>4. \/ db'[d].setup = "none"
          \/ \E p \in Procs : InsertInstance(p) /\ proc[p].db = d
          \/ \E c \in Databases : CopyDatabase(c, d)
      <3>1. CASE UNCHANGED db
        BY <1>4, <3>1
      <3>2. ASSUME NEW p \in Procs, InsertInstance(p), proc[p].db # d PROVE db'[d] = db[d]
        BY <1>1, <3>2 DEF InsertInstance
      <3>3. ASSUME NEW p \in Procs, MarkReady(p) PROVE db'[d] = db[d]
        <4>1. proc[p].db # d
          BY <1>4, <3>3 DEF MarkReady, PInv, ProcSafe, HoldsRow, Bootstrapping
        <4> QED BY <1>1, <3>3, <4>1 DEF MarkReady
      <3>4. ASSUME NEW p \in Procs, BumpDatabase(p) PROVE db'[d].setup = db[d].setup
        BY <1>1, <3>4 DEF BumpDatabase, Bumped, Row
      <3>5. ASSUME NEW c \in Databases, NEW e \in Databases, CopyDatabase(c, e), e # d
            PROVE  db'[d] = db[d]
        BY <1>1, <3>5 DEF CopyDatabase
      <3> QED
        BY <1>4, <3>1, <3>2, <3>3, <3>4, <3>5, Zenon
           DEF Next, BootstrapStep, StartStep, ReadRoot, ResumeInstance, ClaimRoot, SyncClaim,
               ReadClaim, TakeStartKey, ReadInstance, CheckPasses, CheckReconciles,
               CompareMarker, ReplaceMarker, SyncMarker, ProveDurable, StoreObject, Quit,
               LoseSession, LosePower
    <2> QED BY <2>1, <2>2, <2>3, <2>4
  <1> QED BY <1>1, <1>2, <1>3, <1>4 DEF Row

-----------------------------------------------------------------------------
(* What a step does to the processes *)

Safe(p) == Placed(p) /\ HoldsRow(p) /\ Claimed(p) /\ Knows(p)

\* A process that ends is safe, and so is one that does not act: what it knows
\* of its row and its claim stays, or the power ends it.
LEMMA Bystander ==
    ASSUME PInv, Next, NEW q \in Procs,
           proc'[q] = Idle \/ (proc'[q] = proc[q] /\ ~LosePower(proc[q].root))
    PROVE  Safe(q)'
  <1>1. CASE proc'[q] = Idle
    BY <1>1 DEF Safe, Placed, HoldsRow, Claimed, Knows, Idle, Bootstrapping, AtRoot
  <1>2. CASE proc'[q] = proc[q] /\ ~LosePower(proc[q].root)
    <2>1. Placed(q) /\ HoldsRow(q) /\ Claimed(q) /\ Knows(q)
      BY DEF PInv, ProcSafe
    <2>2. Placed(q)' /\ HoldsRow(q)'
      BY <1>2, <2>1 DEF Placed, HoldsRow
    <2>3. Claimed(q)'
      <3>1. CASE proc[q].pc \in {"claimSync", "finish", "finishTx"}
        <4>1. proc[q].root \in Roots /\ proc[q].row.id \in Tokens
          BY <2>1, <3>1 DEF Placed, HoldsRow, Bootstrapping
        <4> QED BY <1>2, <2>1, <4>1, MarkerStep DEF Claimed
      <3>2. CASE proc[q].pc \notin {"claimSync", "finish", "finishTx"}
        BY <1>2, <3>2 DEF Claimed
      <3> QED BY <3>1, <3>2
    <2>4. Knows(q)'
      <3>1. CASE proc[q].pc \in AtRoot \cup {"check"}
        <4>1. proc[q].db \in Databases /\ db[proc[q].db].setup = "ready"
          BY <2>1, <3>1 DEF Placed, Knows, AtRoot
        <4>2. /\ db'[proc[q].db].setup = "ready" /\ db'[proc[q].db].id = db[proc[q].db].id
              /\ db'[proc[q].db].root = db[proc[q].db].root
          BY <4>1, RowStep
        <4> QED BY <1>2, <2>1, <3>1, <4>2 DEF Knows
      <3>2. CASE proc[q].pc \notin AtRoot \cup {"check"}
        BY <1>2, <3>2 DEF Knows
      <3> QED BY <3>1, <3>2
    <2> QED BY <2>2, <2>3, <2>4 DEF Safe
  <1> QED BY <1>1, <1>2

\* A step of one process leaves the others alone.
LEMMA OneActs ==
    ASSUME PInv, NEW p \in Procs, NEW q \in Procs, q # p,
           \/ BootstrapStep(p) \/ StartStep(p) \/ StoreObject(p) \/ Quit(p) \/ LoseSession(p)
           \/ \E d \in Databases, r \in Roots :
                 ReadRoot(p, d, r) \/ \E bump \in BOOLEAN : TakeStartKey(p, d, r, bump)
    PROVE  proc'[q] = proc[q]
  <1>1. proc \in [Procs -> Proc]
    BY DEF PInv, TypeOK
  <1>2. CASE BootstrapStep(p)
    BY <1>1, <1>2 DEF BootstrapStep, InsertInstance, ResumeInstance, ClaimRoot, SyncClaim,
                      ReadClaim, MarkReady, Goto
  <1>3. CASE StartStep(p)
    <2>1. CASE SyncMarker(p) \/ ProveDurable(p)
      BY <1>1, <2>1 DEF SyncMarker, ProveDurable, Serve, Goto
    <2>2. CASE ReadInstance(p) \/ CheckPasses(p) \/ CheckReconciles(p)
      BY <1>1, <2>2 DEF ReadInstance, CheckPasses, CheckReconciles, Goto
    <2>3. CASE BumpDatabase(p) \/ CompareMarker(p) \/ ReplaceMarker(p)
      BY <1>1, <2>3, Zenon DEF BumpDatabase, CompareMarker, ReplaceMarker, Goto
    <2> QED BY <1>3, <2>1, <2>2, <2>3 DEF StartStep
  <1>4. CASE StoreObject(p) \/ Quit(p) \/ LoseSession(p)
    BY <1>1, <1>4 DEF StoreObject, Quit, LoseSession
  <1>5. CASE \E d \in Databases, r \in Roots :
                ReadRoot(p, d, r) \/ \E bump \in BOOLEAN : TakeStartKey(p, d, r, bump)
    BY <1>1, <1>5, Zenon DEF ReadRoot, TakeStartKey
  <1> QED BY <1>2, <1>3, <1>4, <1>5

\* A step of a bootstrap leaves it safe.
LEMMA BootstrapSafe ==
    ASSUME PInv, Next, NEW p \in Procs, BootstrapStep(p)
    PROVE  Safe(p)'
  <1>1. /\ proc \in [Procs -> Proc] /\ proc[p] \in Proc
        /\ Placed(p) /\ HoldsRow(p) /\ Claimed(p)
    BY DEF PInv, TypeOK, ProcSafe
  <1> USE DEF Bootstrapping, AtRoot
  <1>2. CASE InsertInstance(p)
    <2>1. PICK t \in Tokens :
             proc' = [proc EXCEPT ![p].pc = "claim", ![p].row = FirstRow(proc[p].root, t)]
      BY <1>2 DEF InsertInstance, FreshTokens
    <2>2. /\ proc'[p].pc = "claim" /\ proc'[p].row = FirstRow(proc[p].root, t)
          /\ proc'[p].db = proc[p].db /\ proc'[p].root = proc[p].root
      BY <1>1, <2>1 DEF Proc
    <2>3. proc[p].pc = "begin"
      BY <1>2 DEF InsertInstance
    <2> QED BY <1>1, <2>2, <2>3 DEF Safe, Placed, HoldsRow, Claimed, Knows, FirstRow
  <1>3. CASE ResumeInstance(p)
    <2>1. /\ proc'[p].pc = "claim" /\ proc'[p].row = db[proc[p].db]
          /\ proc'[p].db = proc[p].db /\ proc'[p].root = proc[p].root
      BY <1>1, <1>3 DEF ResumeInstance, Proc
    <2>2. proc[p].pc = "begin" /\ db[proc[p].db].setup = "bootstrapping"
          /\ db[proc[p].db].root = proc[p].root
      BY <1>3 DEF ResumeInstance
    <2>3. db[proc[p].db].id \in Tokens
      BY <1>1, <2>2 DEF Placed, PInv, DbSafe, Named
    <2> QED BY <1>1, <2>1, <2>2, <2>3 DEF Safe, Placed, HoldsRow, Claimed, Knows
  <1>4. CASE ClaimRoot(p)
    <2>1. proc'[p] = [proc[p] EXCEPT !.pc = "claimSync"] /\ proc[p].pc = "claim"
      BY <1>1, <1>4 DEF ClaimRoot, Goto
    <2>2. marker'[proc[p].root] = ClaimOf(proc[p].row)
      <3>1. proc[p].root \in Roots /\ marker \in [Roots -> Marker]
        BY <1>1, <2>1 DEF Placed, PInv, TypeOK
      <3> QED BY <1>4, <3>1 DEF ClaimRoot, Claimable, Rename
    <2>3. /\ proc'[p].pc = "claimSync" /\ proc'[p].row = proc[p].row
          /\ proc'[p].db = proc[p].db /\ proc'[p].root = proc[p].root
      BY <1>1, <2>1 DEF Proc
    <2> QED BY <1>1, <2>1, <2>2, <2>3 DEF Safe, Placed, HoldsRow, Claimed, Knows, ClaimOf
  <1>5. CASE SyncClaim(p)
    <2>1. proc'[p] = [proc[p] EXCEPT !.pc = "finish"] /\ proc[p].pc = "claimSync"
      BY <1>1, <1>5 DEF SyncClaim, Goto
    <2>2. disk'[proc[p].root] = {marker[proc[p].root]}
      <3>1. proc[p].root \in Roots /\ disk \in [Roots -> SUBSET Marker]
        BY <1>1, <2>1 DEF Placed, PInv, TypeOK
      <3> QED BY <1>5, <3>1 DEF SyncClaim, SyncDirectory
    <2>3. /\ proc'[p].pc = "finish" /\ proc'[p].row = proc[p].row
          /\ proc'[p].db = proc[p].db /\ proc'[p].root = proc[p].root
      BY <1>1, <2>1 DEF Proc
    <2> QED BY <1>1, <2>1, <2>2, <2>3 DEF Safe, Placed, HoldsRow, Claimed, Knows
  <1>6. CASE ReadClaim(p)
    <2>1. proc'[p] = [proc[p] EXCEPT !.pc = "finishTx"] /\ proc[p].pc = "finish"
          /\ UNCHANGED <<marker, disk>>
      BY <1>1, <1>6 DEF ReadClaim, Goto
    <2>2. /\ proc'[p].pc = "finishTx" /\ proc'[p].row = proc[p].row
          /\ proc'[p].db = proc[p].db /\ proc'[p].root = proc[p].root
      BY <1>1, <2>1 DEF Proc
    <2> QED BY <1>1, <2>1, <2>2 DEF Safe, Placed, HoldsRow, Claimed, Knows
  <1>7. CASE MarkReady(p)
    BY <1>1, <1>7, Bystander DEF MarkReady
  <1> QED BY <1>2, <1>3, <1>4, <1>5, <1>6, <1>7 DEF BootstrapStep

\* A process past its check that goes on with the row of its database, at the
\* same root, is safe.
LEMMA GoesOn ==
    ASSUME PInv, Next, NEW p \in Procs, proc[p].pc \in AtRoot \cup {"check"},
           proc'[p].pc \in AtRoot, proc'[p].row = proc[p].row,
           proc'[p].db = proc[p].db, proc'[p].root = proc[p].root,
           proc[p].row.root = proc[p].root
    PROVE  Safe(p)'
  <1>1. /\ proc[p].db \in Databases /\ proc[p].root \in Roots
        /\ db[proc[p].db].setup = "ready" /\ proc[p].row.id = db[proc[p].db].id
        /\ proc[p].row.root = db[proc[p].db].root /\ proc[p].row.at.tok \in Tokens
    BY DEF PInv, ProcSafe, Placed, Knows, AtRoot
  <1>2. /\ db'[proc[p].db].setup = "ready" /\ db'[proc[p].db].id = db[proc[p].db].id
        /\ db'[proc[p].db].root = db[proc[p].db].root
    BY <1>1, RowStep
  <1> QED
    BY <1>1, <1>2 DEF Safe, Placed, HoldsRow, Claimed, Knows, Bootstrapping, AtRoot

\* A step of a start leaves it safe.
LEMMA StartSafe ==
    ASSUME PInv, Next, NEW p \in Procs, StartStep(p)
    PROVE  Safe(p)'
  <1>1. /\ proc \in [Procs -> Proc] /\ proc[p] \in Proc
        /\ Placed(p) /\ Knows(p)
    BY DEF PInv, TypeOK, ProcSafe
  <1> USE DEF AtRoot
  <1>2. CASE ReadInstance(p)
    <2>1. /\ proc'[p].pc = "check" /\ proc'[p].row = db[proc[p].db]
          /\ proc'[p].db = proc[p].db /\ proc'[p].root = proc[p].root
          /\ proc[p].pc = "read" /\ db[proc[p].db].setup = "ready" /\ UNCHANGED db
      BY <1>1, <1>2 DEF ReadInstance, Proc
    <2>2. db[proc[p].db].at.tok \in Tokens
      BY <1>1, <2>1 DEF Placed, PInv, DbSafe, Named
    <2> QED BY <1>1, <2>1, <2>2 DEF Safe, Placed, HoldsRow, Claimed, Knows, Bootstrapping
  <1>3. CASE CheckPasses(p)
    <2>1. /\ proc'[p].pc \in AtRoot /\ proc'[p].row = proc[p].row
          /\ proc'[p].db = proc[p].db /\ proc'[p].root = proc[p].root
          /\ proc[p].pc = "check" /\ proc[p].row.root = proc[p].root
      BY <1>1, <1>3 DEF CheckPasses, Goto, Paired, Proc
    <2> QED BY <2>1, GoesOn
  <1>4. CASE CheckReconciles(p)
    <2>1. /\ proc'[p].pc \in AtRoot /\ proc'[p].row = proc[p].row
          /\ proc'[p].db = proc[p].db /\ proc'[p].root = proc[p].root
          /\ proc[p].pc = "check" /\ proc[p].row.root = proc[p].root
      BY <1>1, <1>4 DEF CheckReconciles, Paired, Proc
    <2> QED BY <2>1, GoesOn
  <1>5. CASE BumpDatabase(p)
    <2> DEFINE d == proc[p].db
    <2>1. /\ d \in Databases /\ proc[p].root \in Roots /\ db[d].setup = "ready"
          /\ proc[p].row.root = db[d].root /\ proc[p].row.root = proc[p].root
      BY <1>1, <1>5 DEF BumpDatabase, Placed, Knows
    <2>2. PICK t \in Tokens :
             /\ db' = [db EXCEPT ![d] = Bumped(db[d], t)]
             /\ proc' = [proc EXCEPT ![p].pc = "write", ![p].row = Bumped(db[d], t),
                                     ![p].from = proc[p].row.at, ![p].owes = FALSE]
      BY <1>5, <2>1, Zenon DEF BumpDatabase, FreshTokens, PInv, TypeOK
    <2>3. /\ proc'[p].pc = "write" /\ proc'[p].row = Bumped(db[d], t)
          /\ proc'[p].db = d /\ proc'[p].root = proc[p].root
      BY <1>1, <2>2 DEF Proc
    <2>4. db \in [Databases -> Row] /\ db[d] \in Row
      BY <2>1 DEF PInv, TypeOK
    <2>5. db'[d] = Bumped(db[d], t)
      BY <2>1, <2>2, <2>4
    <2>6. /\ Bumped(db[d], t).setup = db[d].setup /\ Bumped(db[d], t).root = db[d].root
          /\ Bumped(db[d], t).at.tok = t
      BY <2>4 DEF Bumped, Row
    <2> QED BY <2>1, <2>3, <2>5, <2>6
            DEF Safe, Placed, HoldsRow, Claimed, Knows, Bootstrapping
  <1>6. CASE CompareMarker(p)
    <2>1. /\ proc'[p].pc \in AtRoot /\ proc'[p].row = proc[p].row
          /\ proc'[p].db = proc[p].db /\ proc'[p].root = proc[p].root
          /\ proc[p].pc = "write"
      BY <1>1, <1>6 DEF CompareMarker, Goto, Proc
    <2>2. proc[p].row.root = proc[p].root
      BY <1>1, <2>1 DEF Knows
    <2> QED BY <2>1, <2>2, GoesOn
  <1>7. CASE ReplaceMarker(p)
    <2>1. /\ proc'[p].pc \in AtRoot /\ proc'[p].row = proc[p].row
          /\ proc'[p].db = proc[p].db /\ proc'[p].root = proc[p].root
          /\ proc[p].pc = "replace"
      BY <1>1, <1>7 DEF ReplaceMarker, Goto, Proc
    <2>2. proc[p].row.root = proc[p].root
      BY <1>1, <2>1 DEF Knows
    <2> QED BY <2>1, <2>2, GoesOn
  <1>8. CASE SyncMarker(p) \/ ProveDurable(p)
    <2>1. proc[p].pc \in {"sync", "prove"} /\ proc[p].row.root = proc[p].root
      BY <1>1, <1>8 DEF SyncMarker, ProveDurable, Knows
    <2>2. CASE proc' = [proc EXCEPT ![p] = Idle]
      BY <1>1, <2>2, Bystander
    <2>3. CASE Goto(p, "bump") \/ Serve(p)
      <3>1. /\ proc'[p].pc \in AtRoot /\ proc'[p].row = proc[p].row
            /\ proc'[p].db = proc[p].db /\ proc'[p].root = proc[p].root
        <4>1. CASE Goto(p, "bump")
          BY <1>1, <4>1 DEF Goto, Proc
        <4>2. CASE Serve(p)
          <5>1. proc'[p] = [proc[p] EXCEPT !.pc = "serving", !.locked = FALSE]
            BY <1>1, <4>2 DEF Serve
          <5> QED BY <1>1, <5>1 DEF Proc
        <4> QED BY <2>3, <4>1, <4>2
      <3>2. proc[p].pc \in AtRoot \cup {"check"}
        BY <2>1
      <3> QED BY <2>1, <3>1, <3>2, GoesOn
    <2> QED BY <1>8, <2>2, <2>3 DEF SyncMarker, ProveDurable
  <1> QED BY <1>2, <1>3, <1>4, <1>5, <1>6, <1>7, <1>8 DEF StartStep

\* So is every process, whatever else happens.
LEMMA ProcStep == PInv /\ Next => ProcSafe'
  <1> SUFFICES ASSUME PInv, Next, NEW q \in Procs PROVE Safe(q)'
    BY DEF ProcSafe, Safe
  <1>1. proc \in [Procs -> Proc] /\ proc[q] \in Proc /\ Safe(q)
    BY DEF PInv, TypeOK, ProcSafe, Safe
  <1>2. ASSUME NEW r \in Roots, LosePower(r) PROVE Safe(q)'
    <2>1. CASE proc'[q] = Idle
      BY <2>1, Bystander
    <2>2. CASE proc'[q] # Idle
      <3>1. proc'[q] = proc[q] /\ proc[q].root # r
        BY <1>2, <2>2 DEF LosePower
      <3>2. CASE ~LosePower(proc[q].root)
        BY <3>1, <3>2, Bystander
      <3>3. CASE LosePower(proc[q].root)
        BY <2>2, <3>3 DEF LosePower
      <3> QED BY <3>2, <3>3
    <2> QED BY <2>1, <2>2
  <1>3. CASE proc'[q] = proc[q]
    <2>1. CASE proc[q].pc = "idle"
      BY <1>3, <2>1 DEF Safe, Placed, HoldsRow, Claimed, Knows, Bootstrapping, AtRoot
    <2>2. CASE proc[q].root \in Roots /\ LosePower(proc[q].root)
      BY <1>2, <2>2
    <2>3. CASE ~LosePower(proc[q].root)
      BY <1>3, <2>3, Bystander
    <2> QED BY <1>1, <2>1, <2>2, <2>3 DEF Safe, Placed
  <1>4. ASSUME NEW p \in Procs, BootstrapStep(p) \/ StartStep(p), p = q PROVE Safe(q)'
    BY <1>4, BootstrapSafe, StartSafe
  <1>5. ASSUME NEW p \in Procs, StoreObject(p) \/ Quit(p) \/ LoseSession(p) PROVE Safe(q)'
    <2>1. CASE proc'[q] = Idle
      BY <2>1, Bystander
    <2>2. CASE proc'[q] = proc[q]
      BY <2>2, <1>3
    <2>3. CASE proc'[q] = [proc[q] EXCEPT !.locked = FALSE] /\ UNCHANGED <<db, marker, disk>>
      <3>1. /\ proc'[q].pc = proc[q].pc /\ proc'[q].row = proc[q].row
            /\ proc'[q].db = proc[q].db /\ proc'[q].root = proc[q].root
        BY <1>1, <2>3 DEF Proc
      <3> QED BY <1>1, <2>3, <3>1 DEF Safe, Placed, HoldsRow, Claimed, Knows
    <2>4. \/ proc'[q] = Idle \/ proc'[q] = proc[q]
          \/ proc'[q] = [proc[q] EXCEPT !.locked = FALSE] /\ UNCHANGED <<db, marker, disk>>
      BY <1>1, <1>5 DEF StoreObject, Quit, LoseSession
    <2> QED BY <2>1, <2>2, <2>3, <2>4
  <1>6. ASSUME NEW p \in Procs, NEW d \in Databases, NEW r \in Roots, p = q,
               ReadRoot(p, d, r) \/ \E bump \in BOOLEAN : TakeStartKey(p, d, r, bump)
        PROVE  Safe(q)'
    <2>1. /\ proc'[q].pc \in {"begin", "read"} /\ proc'[q].db = d /\ proc'[q].root = r
      <3>1. CASE ReadRoot(p, d, r)
        BY <1>1, <1>6, <3>1 DEF ReadRoot, Idle
      <3>2. ASSUME NEW bump \in BOOLEAN, TakeStartKey(p, d, r, bump)
            PROVE  proc'[q].pc = "read" /\ proc'[q].db = d /\ proc'[q].root = r
        BY <1>1, <1>6, <3>2, Zenon DEF TakeStartKey, Idle
      <3> QED BY <1>6, <3>1, <3>2
    <2> QED BY <2>1 DEF Safe, Placed, HoldsRow, Claimed, Knows, Bootstrapping, AtRoot
  <1>7. ASSUME NEW d \in Databases, NEW e \in Databases, CopyDatabase(d, e)
        PROVE  proc'[q] = proc[q]
    BY <1>7 DEF CopyDatabase
  <1>8. CASE \E r \in Roots : LosePower(r)
    BY <1>2, <1>8
  <1>9. CASE ~\E r \in Roots : LosePower(r)
    <2>1. CASE proc'[q] = proc[q]
      BY <1>3, <2>1
    <2>2. CASE proc'[q] # proc[q]
      BY <1>4, <1>5, <1>6, <1>7, <1>9, <2>2, OneActs DEF Next
    <2> QED BY <2>1, <2>2
  <1> QED BY <1>8, <1>9

-----------------------------------------------------------------------------
(* The theorems *)

\* The first state is as it should be: no database has a row.
LEMMA InitInv == Init => PInv
  <1> SUFFICES ASSUME Init PROVE PInv
    OBVIOUS
  <1>1. TypeOK
    BY DataTypes, PairingAssumption DEF Init, TypeOK
  <1>2. DbSafe
    BY DEF Init, DbSafe, Named, Committed, NoInstance
  <1>3. ProcSafe
    BY Zenon DEF Init, ProcSafe, Placed, HoldsRow, Claimed, Knows, Idle, Bootstrapping, AtRoot
  <1> QED BY <1>1, <1>2, <1>3 DEF PInv

\* Every reachable state has its types, every ready database is on its root's
\* disk, and every process knows what it goes by.
THEOREM Invariance == Spec => []PInv
  <1>1. Init => PInv
    BY InitInv
  <1>2. PInv /\ [Next]_vars => PInv'
    <2>1. PInv /\ Next => PInv'
      BY TypeStep, DbStep, ProcStep DEF PInv
    <2>2. PInv /\ UNCHANGED vars => PInv'
      BY DEF PInv, TypeOK, DbSafe, Named, Committed, ProcSafe, Placed, HoldsRow, Claimed, Knows,
             vars
    <2> QED BY <2>1, <2>2
  <1> QED BY <1>1, <1>2, PTL DEF Spec

\* Every variable keeps its type.
THEOREM Types == Spec => []TypeOK
  <1>1. PInv => TypeOK
    BY DEF PInv
  <1> QED BY <1>1, Invariance, PTL

\* Two instances never serve one data root, for any number of processes,
\* databases, copies, roots and starts, and under every fault: the claim that
\* made the one database ready is on every marker the disk of the root may
\* have, and the other's would be too.
THEOREM Served == Spec => []OneInstance
  <1>1. PInv => OneInstance
    <2> SUFFICES ASSUME PInv, NEW p \in Procs, NEW q \in Procs, proc[p].pc = "serving",
                        proc[q].pc = "serving", proc[p].root = proc[q].root
                 PROVE  db[proc[p].db].id = db[proc[q].db].id
      BY DEF OneInstance
    <2>1. /\ db[proc[p].db].id = proc[p].row.id /\ db[proc[q].db].id = proc[q].row.id
      BY DEF PInv, ProcSafe, Knows, AtRoot
    <2>2. /\ marker[proc[p].root].id = proc[p].row.id
          /\ marker[proc[q].root].id = proc[q].row.id
      BY Replaces, Zenon DEF AtRoot
    <2> QED BY <2>1, <2>2
  <1> QED BY <1>1, Invariance, PTL

-----------------------------------------------------------------------------
(* The starts: what the rows, the markers and the history say of each other *)

\* A database with a row has its start in its history; one without has none;
\* a bootstrap is at its first start.
OfRow(d) ==
    /\ db[d].setup = "none" => db[d] = NoInstance /\ past[d] = {}
    /\ db[d].setup # "none" => db[d].at.tok \in past[d]
    /\ db[d].setup = "bootstrapping" => db[d].at.gen = 1

\* Whoever has had the start tok has had those of toks.
Follows(tok, toks) == \A e \in Databases : tok \in past[e] => toks \subseteq past[e]

\* The token that a row keeps is one of a start before its own.
PrevKept(d) == db[d].prev # Nothing => Follows(db[d].at.tok, {db[d].prev})

\* A marker is at the start of some database, and a root that served is one
\* that a ready database claimed.
OfMarkers(r) ==
    /\ \A m \in disk[r] : m.at.tok = Nothing \/ \E d \in Databases : m.at.tok \in past[d]
    /\ served[r] # {} => \E d \in Databases : db[d].setup = "ready" /\ db[d].root = r

\* A process with a row goes by a start that its database has had.
OfProc(p) ==
    /\ proc[p].pc \in Bootstrapping \cup AtRoot \cup {"check"} =>
          proc[p].row.at.tok \in past[proc[p].db]
    /\ proc[p].pc \in Bootstrapping => proc[p].row.at.gen = 1

RowsRecorded == \A d \in Databases : OfRow(d) /\ PrevKept(d)
MarkersRecorded == \A r \in Roots : OfMarkers(r)
ProcsRecorded == \A p \in Procs : OfProc(p)
Recorded == RowsRecorded /\ MarkersRecorded /\ ProcsRecorded

\* A start holds its key, and no other start is at its database or its root.
KeyKept ==
    /\ \A p \in Procs : Starting(p) => proc[p].locked
    /\ \A p, q \in Procs :
          /\ Starting(p) /\ Starting(q)
          /\ proc[p].db = proc[q].db \/ proc[p].root = proc[q].root
          => p = q

\* A start that holds its key goes by the row as it is, and knows what the
\* marker says: the same before its bump and its proof, the start before at
\* its replace; and nobody it must give way to has served.
Current(p) ==
    /\ proc[p].pc \in {"check"} \cup (AtRoot \ {"serving"}) => proc[p].row = db[proc[p].db]
    /\ proc[p].pc \in {"bump", "prove"} => marker[proc[p].root].at = proc[p].row.at
    /\ proc[p].pc \in {"write", "replace"} =>
          /\ proc[p].row.at.gen = proc[p].from.gen + 1
          /\ Follows(proc[p].row.at.tok, served[proc[p].root])
    /\ proc[p].pc = "replace" => marker[proc[p].root].at = proc[p].from

\* Whoever has had the start of a marker has had every start that served
\* there, and somebody has.
Lineage(r) ==
    /\ \A m \in disk[r] : Follows(m.at.tok, served[r])
    /\ served[r] # {} => \E d \in Databases : served[r] \subseteq past[d]

\* What the start keys are for.
Serialized == KeyKept /\ (\A p \in Procs : Current(p)) /\ (\A r \in Roots : Lineage(r))

\* A bootstrap about to commit still has its claim in the marker, if nobody
\* has copied its database.
ClaimHeld(p) ==
    proc[p].pc = "finishTx" /\ db[proc[p].db] = proc[p].row /\ Alone(proc[p].db)
        => marker[proc[p].root] = ClaimOf(proc[p].row)

StartInv ==
    /\ PInv /\ Recorded
    /\ "session" \notin faults => Serialized
    /\ faults = {} => Startable /\ \A p \in Procs : ClaimHeld(p)

-----------------------------------------------------------------------------
(* What a step changes *)

\* Process p inserts the row of a first start t.
Inserts(p, t) ==
    LET d == proc[p].db IN
    /\ proc[p].pc = "begin" /\ d \in Databases /\ proc[p].root \in Roots
    /\ db[d].setup = "none"
    /\ db' = [db EXCEPT ![d] = FirstRow(proc[p].root, t)]
    /\ past' = [past EXCEPT ![d] = @ \cup {t}]
    /\ proc' = [proc EXCEPT ![p].pc = "claim", ![p].row = FirstRow(proc[p].root, t)]
    /\ UNCHANGED <<marker, disk, holds, served, faults>>

\* Process p bumps its database to start t.
Bumps(p, t) ==
    LET d == proc[p].db IN
    /\ proc[p].pc = "bump" /\ d \in Databases /\ proc[p].root \in Roots
    /\ proc[p].locked /\ db[d].setup = "ready" /\ db[d].at = proc[p].row.at
    /\ db' = [db EXCEPT ![d] = Bumped(db[d], t)]
    /\ past' = [past EXCEPT ![d] = @ \cup {t}]
    /\ proc' = [proc EXCEPT ![p].pc = "write", ![p].row = Bumped(db[d], t),
                            ![p].from = proc[p].row.at, ![p].owes = FALSE]
    /\ UNCHANGED <<marker, disk, holds, served, faults>>

\* A fresh token is one that no database has had.
LEMMA Fresh ==
    ASSUME NEW t \in FreshTokens
    PROVE  t \in Tokens /\ t # Nothing /\ \A d \in Databases : t \notin past[d]
  BY PairingAssumption DEF FreshTokens

\* The rows and the history change by an insert, a commit, a bump or a copy.
LEMMA DbMoves ==
    ASSUME PInv, Next
    PROVE  \/ UNCHANGED <<db, past>>
           \/ \E p \in Procs, t \in FreshTokens : Inserts(p, t)
           \/ \E p \in Procs : MarkReady(p)
           \/ \E p \in Procs, t \in FreshTokens : Bumps(p, t)
           \/ \E c, e \in Databases : CopyDatabase(c, e)
  <1>1. ASSUME NEW p \in Procs, InsertInstance(p)
        PROVE  \E t \in FreshTokens : Inserts(p, t)
    BY <1>1 DEF InsertInstance, Inserts, PInv, ProcSafe, Placed
  <1>2. ASSUME NEW p \in Procs, BumpDatabase(p)
        PROVE  \E t \in FreshTokens : Bumps(p, t)
    <2>1. /\ proc[p].pc = "bump" /\ proc[p].db \in Databases /\ proc[p].root \in Roots
          /\ proc[p].locked /\ db[proc[p].db].setup = "ready"
          /\ db[proc[p].db].at = proc[p].row.at
      BY <1>2 DEF BumpDatabase, Connected, PInv, ProcSafe, Placed, Knows, AtRoot
    <2>2. PICK t \in FreshTokens :
             /\ db' = [db EXCEPT ![proc[p].db] = Bumped(@, t)]
             /\ past' = [past EXCEPT ![proc[p].db] = @ \cup {t}]
             /\ proc' = [proc EXCEPT ![p].pc = "write", ![p].row = Bumped(db[proc[p].db], t),
                                     ![p].from = proc[p].row.at, ![p].owes = FALSE]
      BY <1>2, Zenon DEF BumpDatabase
    <2> QED BY <1>2, <2>1, <2>2, Zenon DEF BumpDatabase, Bumps, PInv, TypeOK
  <1> QED
    BY <1>1, <1>2, Zenon
       DEF Next, BootstrapStep, StartStep, ReadRoot, ResumeInstance, ClaimRoot, SyncClaim,
           ReadClaim, TakeStartKey, ReadInstance, CheckPasses, CheckReconciles, CompareMarker,
           ReplaceMarker, SyncMarker, ProveDurable, StoreObject, Quit, LoseSession, LosePower

\* A marker changes by a claim of a new root, by a replace or with the power;
\* otherwise its disk only loses what it might have had.
LEMMA MarkerMoves ==
    ASSUME PInv, Next, NEW r \in Roots
    PROVE  \/ marker'[r] = marker[r] /\ disk'[r] \subseteq disk[r]
           \/ \E p \in Procs : /\ ClaimRoot(p) \/ ReplaceMarker(p)
                               /\ ClaimRoot(p) => marker[r] = Unclaimed
                               /\ proc[p].root = r
                               /\ marker'[r] = ClaimOf(proc[p].row)
                               /\ disk'[r] = disk[r] \cup {ClaimOf(proc[p].row)}
           \/ LosePower(r) /\ marker'[r] \in disk[r] /\ disk'[r] = {marker'[r]}
  <1>1. /\ marker \in [Roots -> Marker] /\ disk \in [Roots -> SUBSET Marker]
        /\ marker[r] \in disk[r]
    BY DEF PInv, TypeOK
  <1> DEFINE Same == marker'[r] = marker[r] /\ disk'[r] \subseteq disk[r]
             Writes(p) == /\ ClaimRoot(p) \/ ReplaceMarker(p)
                          /\ ClaimRoot(p) => marker[r] = Unclaimed
                          /\ proc[p].root = r
                          /\ marker'[r] = ClaimOf(proc[p].row)
                          /\ disk'[r] = disk[r] \cup {ClaimOf(proc[p].row)}
             Lost == LosePower(r) /\ marker'[r] \in disk[r] /\ disk'[r] = {marker'[r]}
  <1>2. CASE UNCHANGED <<marker, disk>>
    BY <1>2
  <1>3. ASSUME NEW p \in Procs, ClaimRoot(p) PROVE Same \/ Writes(p)
    <2>1. CASE UNCHANGED <<marker, disk>>
      BY <2>1
    <2>2. CASE Rename(proc[p].root, ClaimOf(proc[p].row)) /\ proc[p].root # r
      BY <1>1, <2>2 DEF Rename
    <2>3. CASE /\ Rename(proc[p].root, ClaimOf(proc[p].row)) /\ proc[p].root = r
               /\ marker[r] = Unclaimed
      BY <1>1, <1>3, <2>3 DEF Rename
    <2> QED BY <1>3, <2>1, <2>2, <2>3 DEF ClaimRoot
  <1>4. ASSUME NEW p \in Procs, ReplaceMarker(p) PROVE Same \/ Writes(p)
    <2>1. CASE proc[p].root # r
      BY <1>1, <1>4, <2>1 DEF ReplaceMarker, Rename
    <2>2. CASE proc[p].root = r
      <3>1. ~ClaimRoot(p)
        BY <1>4 DEF ReplaceMarker, ClaimRoot
      <3> QED BY <1>1, <1>4, <2>2, <3>1 DEF ReplaceMarker, Rename
    <2> QED BY <2>1, <2>2
  <1>5. ASSUME NEW p \in Procs, SyncClaim(p) \/ SyncMarker(p) \/ ProveDurable(p)
        PROVE  Same
    <2>1. proc[p].root \in Roots
      BY <1>5 DEF SyncClaim, SyncMarker, ProveDurable, PInv, ProcSafe, Placed
    <2>2. SyncDirectory(proc[p].root) /\ UNCHANGED marker
      BY <1>5 DEF SyncClaim, SyncMarker, ProveDurable
    <2> QED BY <1>1, <2>1, <2>2 DEF SyncDirectory
  <1>6. ASSUME NEW s \in Roots, LosePower(s) PROVE Same \/ Lost
    <2>1. CASE s # r
      BY <1>1, <1>6, <2>1 DEF LosePower
    <2>2. CASE s = r
      BY <1>1, <1>6, <2>2 DEF LosePower
    <2> QED BY <2>1, <2>2
  <1> HIDE DEF Same, Writes, Lost
  <1>7. Same \/ (\E p \in Procs : Writes(p)) \/ Lost
    <2>1. UNCHANGED <<marker, disk>> => Same
      BY <1>2 DEF Same
    <2>2. ASSUME NEW p \in Procs, BootstrapStep(p) PROVE Same \/ Writes(p)
      <3>1. CASE InsertInstance(p) \/ ResumeInstance(p) \/ ReadClaim(p) \/ MarkReady(p)
        BY <2>1, <3>1 DEF InsertInstance, ResumeInstance, ReadClaim, MarkReady
      <3> QED BY <1>3, <1>5, <2>2, <3>1 DEF BootstrapStep
    <2>3. ASSUME NEW p \in Procs, StartStep(p) PROVE Same \/ Writes(p)
      <3>1. CASE ReadInstance(p) \/ CheckPasses(p) \/ CheckReconciles(p)
        BY <2>1, <3>1 DEF ReadInstance, CheckPasses, CheckReconciles
      <3>2. CASE BumpDatabase(p) \/ CompareMarker(p)
        BY <2>1, <3>2, Zenon DEF BumpDatabase, CompareMarker
      <3> QED BY <1>4, <1>5, <2>3, <3>1, <3>2 DEF StartStep
    <2>4. ASSUME NEW p \in Procs, StoreObject(p) \/ Quit(p) \/ LoseSession(p) PROVE Same
      BY <2>1, <2>4 DEF StoreObject, Quit, LoseSession
    <2>5. ASSUME NEW p \in Procs, NEW d \in Databases, NEW s \in Roots,
                 ReadRoot(p, d, s) \/ \E bump \in BOOLEAN : TakeStartKey(p, d, s, bump)
          PROVE  Same
      BY <2>1, <2>5, Zenon DEF ReadRoot, TakeStartKey
    <2>6. ASSUME NEW d \in Databases, NEW e \in Databases, CopyDatabase(d, e) PROVE Same
      BY <2>1, <2>6, Zenon DEF CopyDatabase
    <2> QED BY <1>6, <2>2, <2>3, <2>4, <2>5, <2>6 DEF Next
  <1> QED BY <1>7 DEF Same, Writes, Lost

\* A root serves one more start when one proves its marker, and the marker is
\* then at that start.
LEMMA ServedMoves ==
    ASSUME PInv, Next, NEW r \in Roots
    PROVE  \/ served'[r] = served[r]
           \/ \E p \in Procs :
                 /\ proc[p].pc \in {"sync", "prove"} /\ proc[p].root = r
                 /\ proc[p].pc = "sync" => marker[r] = ClaimOf(proc[p].row)
                 /\ served'[r] = served[r] \cup {proc[p].row.at.tok}
                 /\ disk'[r] = {marker[r]}
                 /\ proc'[p] = [proc[p] EXCEPT !.pc = "serving", !.locked = FALSE]
                 /\ UNCHANGED <<db, marker, past, faults>>
  <1>1. /\ served \in [Roots -> SUBSET Tokens] /\ disk \in [Roots -> SUBSET Marker]
        /\ proc \in [Procs -> Proc]
    BY DEF PInv, TypeOK
  <1>2. ASSUME NEW p \in Procs, SyncMarker(p) \/ ProveDurable(p), served'[r] # served[r]
        PROVE  /\ proc[p].pc \in {"sync", "prove"} /\ proc[p].root = r
               /\ proc[p].pc = "sync" => marker[r] = ClaimOf(proc[p].row)
               /\ served'[r] = served[r] \cup {proc[p].row.at.tok}
               /\ disk'[r] = {marker[r]}
               /\ proc'[p] = [proc[p] EXCEPT !.pc = "serving", !.locked = FALSE]
               /\ UNCHANGED <<db, marker, past, faults>>
    <2>1. Serve(p) /\ SyncDirectory(proc[p].root) /\ UNCHANGED <<db, marker, past, faults>>
      BY <1>2 DEF SyncMarker, ProveDurable
    <2>2. proc[p].root = r
      BY <1>1, <1>2, <2>1 DEF Serve
    <2>3. proc[p].pc \in {"sync", "prove"} /\ (proc[p].pc = "sync" => SyncMarker(p))
      BY <1>2 DEF SyncMarker, ProveDurable
    <2>4. proc[p].pc = "sync" => marker[r] = ClaimOf(proc[p].row)
      BY <1>2, <2>2, <2>3, Zenon DEF SyncMarker
    <2> QED BY <1>1, <2>1, <2>2, <2>3, <2>4 DEF Serve, SyncDirectory
  <1>3. served'[r] = served[r] \/ \E p \in Procs : SyncMarker(p) \/ ProveDurable(p)
    <2>1. ASSUME NEW p \in Procs, BootstrapStep(p) PROVE served' = served
      BY <2>1 DEF BootstrapStep, InsertInstance, ResumeInstance, ClaimRoot, SyncClaim, ReadClaim,
                  MarkReady
    <2>2. ASSUME NEW p \in Procs, StartStep(p), ~SyncMarker(p), ~ProveDurable(p)
          PROVE  served' = served
      BY <2>2, Zenon
         DEF StartStep, ReadInstance, CheckPasses, CheckReconciles, BumpDatabase,
                  CompareMarker, ReplaceMarker
    <2> QED BY <2>1, <2>2, Zenon
       DEF Next, ReadRoot, TakeStartKey, StoreObject, Quit, LoseSession,
                               LosePower, CopyDatabase
  <1> QED BY <1>2, <1>3, Zenon

\* No start is forgotten, and only a fresh one or a copied history is new.
LEMMA PastGrows ==
    ASSUME PInv, RowsRecorded, Next, NEW d \in Databases
    PROVE  past[d] \subseteq past'[d]
  <1>1. past \in [Databases -> SUBSET Tokens]
    BY DEF PInv, TypeOK
  <1>2. ASSUME NEW p \in Procs, NEW t \in FreshTokens, Inserts(p, t) \/ Bumps(p, t)
        PROVE  past[d] \subseteq past'[d]
    BY <1>1, <1>2 DEF Inserts, Bumps
  <1>3. ASSUME NEW c \in Databases, NEW e \in Databases, CopyDatabase(c, e)
        PROVE  past[d] \subseteq past'[d]
    BY <1>1, <1>3 DEF CopyDatabase, RowsRecorded, OfRow
  <1>4. ASSUME NEW p \in Procs, MarkReady(p) PROVE past[d] \subseteq past'[d]
    BY <1>4 DEF MarkReady
  <1> QED BY <1>2, <1>3, <1>4, DbMoves

\* Whoever has had a start that is not fresh has had those before it: a copy
\* has the whole history, and a bump adds to one history only.
LEMMA FollowsStep ==
    ASSUME PInv, RowsRecorded, Next, NEW tok, NEW toks, Follows(tok, toks),
           tok \notin FreshTokens
    PROVE  \A e \in Databases : tok \in past'[e] => toks \subseteq past'[e]
  <1>1. past \in [Databases -> SUBSET Tokens]
    BY DEF PInv, TypeOK
  <1>2. ASSUME NEW p \in Procs, NEW t \in FreshTokens, Inserts(p, t) \/ Bumps(p, t)
        PROVE  \A e \in Databases : tok \in past'[e] => toks \subseteq past'[e]
    <2>1. \A e \in Databases : past'[e] \in {past[e], past[e] \cup {t}}
      BY <1>1, <1>2 DEF Inserts, Bumps
    <2> QED BY <2>1 DEF Follows
  <1>3. ASSUME NEW c \in Databases, NEW e \in Databases, CopyDatabase(c, e)
        PROVE  \A f \in Databases : tok \in past'[f] => toks \subseteq past'[f]
    BY <1>1, <1>3 DEF CopyDatabase, Follows
  <1>4. CASE UNCHANGED past
    BY <1>4 DEF Follows
  <1> QED BY <1>2, <1>3, <1>4, DbMoves DEF MarkReady

\* A start that some database has had is not fresh.
LEMMA NotFresh ==
    ASSUME NEW d \in Databases, NEW tok \in past[d]
    PROVE  tok \notin FreshTokens
  BY DEF FreshTokens

-----------------------------------------------------------------------------
(* Every step is recorded *)

\* A row that stays, or only becomes ready, keeps what it says of its history.
LEMMA RowStays ==
    ASSUME PInv, RowsRecorded, Next, NEW d \in Databases,
           db'[d] = db[d] \/ (db'[d] = [db[d] EXCEPT !.setup = "ready"]
                              /\ db[d].setup = "bootstrapping"),
           past'[d] = past[d] \/ db[d].setup # "none"
    PROVE  OfRow(d)' /\ PrevKept(d)'
  <1>1. db[d] \in Row /\ OfRow(d) /\ PrevKept(d) /\ past[d] \subseteq past'[d]
    BY PastGrows DEF PInv, TypeOK, RowsRecorded
  <1>2. /\ db'[d].at = db[d].at /\ db'[d].prev = db[d].prev
        /\ db'[d] = db[d] \/ (db'[d].setup = "ready" /\ db[d].setup = "bootstrapping")
    BY <1>1 DEF Row
  <1>3. OfRow(d)'
    BY <1>1, <1>2 DEF OfRow
  <1>4. PrevKept(d)'
    <2>1. CASE db[d].prev = Nothing
      BY <1>2, <2>1 DEF PrevKept
    <2>2. CASE db[d].prev # Nothing
      <3>1. db[d].at.tok \in past[d]
        BY <1>1, <2>2 DEF OfRow, NoInstance
      <3>2. Follows(db[d].at.tok, {db[d].prev})
        BY <1>1, <2>2 DEF PrevKept
      <3>3. db[d].at.tok \notin FreshTokens
        BY <3>1, NotFresh
      <3>4. \A e \in Databases : db[d].at.tok \in past'[e] => {db[d].prev} \subseteq past'[e]
        BY <3>2, <3>3, FollowsStep
      <3> QED BY <1>2, <3>4 DEF PrevKept, Follows
    <2> QED BY <2>1, <2>2
  <1> QED BY <1>3, <1>4

LEMMA RowsStep ==
    ASSUME PInv, RowsRecorded, Next
    PROVE  RowsRecorded'
  <1> SUFFICES ASSUME NEW d \in Databases PROVE OfRow(d)' /\ PrevKept(d)'
    BY DEF RowsRecorded
  <1>1. /\ db \in [Databases -> Row] /\ past \in [Databases -> SUBSET Tokens]
        /\ db[d] \in Row /\ OfRow(d) /\ PrevKept(d)
    BY DEF PInv, TypeOK, RowsRecorded
  <1>2. CASE UNCHANGED <<db, past>>
    BY <1>2, RowStays
  <1>3. ASSUME NEW p \in Procs, NEW t \in FreshTokens, Inserts(p, t)
        PROVE  OfRow(d)' /\ PrevKept(d)'
    <2>1. CASE proc[p].db # d
      BY <1>1, <1>3, <2>1, RowStays DEF Inserts
    <2>2. CASE proc[p].db = d
      <3>1. db'[d] = FirstRow(proc[p].root, t) /\ past'[d] = past[d] \cup {t}
        BY <1>1, <1>3, <2>2 DEF Inserts
      <3> QED BY <3>1 DEF FirstRow, OfRow, PrevKept
    <2> QED BY <2>1, <2>2
  <1>4. ASSUME NEW p \in Procs, MarkReady(p)
        PROVE  OfRow(d)' /\ PrevKept(d)'
    <2>1. proc[p].db = d => db[d].setup = "bootstrapping"
      BY <1>4 DEF MarkReady, PInv, ProcSafe, HoldsRow, Bootstrapping
    <2> QED BY <1>1, <1>4, <2>1, RowStays DEF MarkReady
  <1>5. ASSUME NEW p \in Procs, NEW t \in FreshTokens, Bumps(p, t)
        PROVE  OfRow(d)' /\ PrevKept(d)'
    <2>1. CASE proc[p].db # d
      BY <1>1, <1>5, <2>1, RowStays DEF Bumps
    <2>2. CASE proc[p].db = d
      <3>1. db'[d] = Bumped(db[d], t) /\ past'[d] = past[d] \cup {t} /\ db[d].setup = "ready"
        BY <1>1, <1>5, <2>2 DEF Bumps
      <3>2. /\ db'[d].setup = "ready" /\ db'[d].at.tok = t /\ db'[d].prev = db[d].at.tok
        BY <1>1, <3>1 DEF Bumped, Row
      <3>3. db[d].at.tok \in past[d]
        BY <1>1, <3>1 DEF OfRow
      <3>4. \A e \in Databases : t \in past'[e] => e = d
        BY <1>1, <1>5, <2>2, Fresh DEF Bumps
      <3> QED BY <3>1, <3>2, <3>3, <3>4 DEF OfRow, PrevKept, Follows
    <2> QED BY <2>1, <2>2
  <1>6. ASSUME NEW c \in Databases, NEW e \in Databases, CopyDatabase(c, e)
        PROVE  OfRow(d)' /\ PrevKept(d)'
    <2>1. CASE e # d
      BY <1>1, <1>6, <2>1, RowStays DEF CopyDatabase
    <2>2. CASE e = d
      <3>1. /\ db'[d] = db[c] /\ past'[d] = past[c] /\ db[c].setup # "none"
            /\ OfRow(c) /\ PrevKept(c)
        BY <1>1, <1>6, <2>2 DEF CopyDatabase, RowsRecorded
      <3>2. OfRow(d)'
        BY <3>1 DEF OfRow
      <3>3. db[c].at.tok \notin FreshTokens
        BY <3>1, NotFresh DEF OfRow
      <3>4. db[c].prev # Nothing => \A f \in Databases :
               db[c].at.tok \in past'[f] => {db[c].prev} \subseteq past'[f]
        BY <3>1, <3>3, FollowsStep DEF PrevKept
      <3>5. PrevKept(d)'
        BY <3>1, <3>4 DEF PrevKept, Follows
      <3> QED BY <3>2, <3>5
    <2> QED BY <2>1, <2>2
  <1> QED BY <1>2, <1>3, <1>4, <1>5, <1>6, DbMoves

\* A marker that is written is at the start of a row, and a root serves what a
\* process knows to be ready.
LEMMA MarkersStep ==
    ASSUME PInv, Recorded, Next
    PROVE  MarkersRecorded'
  <1> SUFFICES ASSUME NEW r \in Roots PROVE OfMarkers(r)'
    BY DEF MarkersRecorded
  <1>1. /\ OfMarkers(r) /\ RowsRecorded /\ ProcsRecorded
        /\ marker \in [Roots -> Marker] /\ disk \in [Roots -> SUBSET Marker]
        /\ marker[r] \in disk[r]
    BY DEF PInv, TypeOK, Recorded, MarkersRecorded
  <1>2. \A m \in disk'[r] : m.at.tok = Nothing \/ \E d \in Databases : m.at.tok \in past'[d]
    <2>1. CASE disk'[r] \subseteq disk[r]
      BY <1>1, <2>1, PastGrows DEF OfMarkers
    <2>2. ASSUME NEW p \in Procs, ClaimRoot(p) \/ ReplaceMarker(p),
                 disk'[r] = disk[r] \cup {ClaimOf(proc[p].row)}
          PROVE  \A m \in disk'[r] :
                    m.at.tok = Nothing \/ \E d \in Databases : m.at.tok \in past'[d]
      <3>1. proc[p].pc \in {"claim", "replace"}
        BY <2>2 DEF ClaimRoot, ReplaceMarker
      <3>2. proc[p].db \in Databases /\ proc[p].row.at.tok \in past[proc[p].db]
        BY <1>1, <3>1 DEF PInv, ProcSafe, Placed, ProcsRecorded, OfProc, Bootstrapping, AtRoot
      <3>3. ClaimOf(proc[p].row).at.tok = proc[p].row.at.tok
        BY DEF ClaimOf
      <3> QED BY <1>1, <2>2, <3>2, <3>3, PastGrows DEF OfMarkers
    <2> QED BY <1>1, <2>1, <2>2, MarkerMoves
  <1>3. served'[r] # {} => \E d \in Databases : db'[d].setup = "ready" /\ db'[d].root = r
    <2>1. CASE served'[r] = served[r]
      <3>1. ASSUME served[r] # {}
            PROVE  \E d \in Databases : db'[d].setup = "ready" /\ db'[d].root = r
        <4>1. PICK d \in Databases : db[d].setup = "ready" /\ db[d].root = r
          BY <1>1, <3>1 DEF OfMarkers
        <4>2. db'[d].setup = "ready" /\ db'[d].root = r
          BY <4>1, RowStep
        <4> QED BY <4>2
      <3> QED BY <2>1, <3>1
    <2>2. ASSUME NEW p \in Procs, proc[p].pc \in {"sync", "prove"}, proc[p].root = r,
                 UNCHANGED db
          PROVE  \E d \in Databases : db'[d].setup = "ready" /\ db'[d].root = r
      <3>1. /\ proc[p].db \in Databases /\ db[proc[p].db].setup = "ready"
            /\ db[proc[p].db].root = r
        BY <2>2 DEF PInv, ProcSafe, Placed, Knows, AtRoot
      <3> QED BY <2>2, <3>1
    <2> QED BY <2>1, <2>2, ServedMoves, Zenon
  <1> QED BY <1>2, <1>3 DEF OfMarkers

\* What a step may be for a process: none of its own, its end, the first step
\* of a bootstrap or of a start, a step of either, or the loss of its session.
LEMMA ProcMoves ==
    ASSUME PInv, Next, NEW q \in Procs
    PROVE  \/ proc'[q] = proc[q]
           \/ proc'[q].pc \in {"idle", "begin"}
           \/ BootstrapStep(q) \/ StartStep(q)
           \/ \E d \in Databases, r \in Roots, bump \in BOOLEAN : TakeStartKey(q, d, r, bump)
           \/ LoseSession(q)
  <1>1. proc \in [Procs -> Proc]
    BY DEF PInv, TypeOK
  <1>2. ASSUME NEW r \in Roots, LosePower(r)
        PROVE  proc'[q] = proc[q] \/ proc'[q].pc = "idle"
    BY <1>2 DEF LosePower, Idle
  <1>3. ASSUME NEW d \in Databases, NEW r \in Roots, ReadRoot(q, d, r)
        PROVE  proc'[q].pc = "begin"
    BY <1>1, <1>3 DEF ReadRoot, Idle
  <1>4. ASSUME Quit(q) PROVE proc'[q].pc = "idle"
    BY <1>1, <1>4 DEF Quit, Idle
  <1>5. ASSUME StoreObject(q) PROVE proc'[q] = proc[q]
    BY <1>5 DEF StoreObject
  <1>6. ASSUME NEW d \in Databases, NEW e \in Databases, CopyDatabase(d, e)
        PROVE  proc'[q] = proc[q]
    BY <1>6 DEF CopyDatabase
  <1>7. ASSUME NEW p \in Procs, p # q,
               \/ BootstrapStep(p) \/ StartStep(p) \/ StoreObject(p) \/ Quit(p) \/ LoseSession(p)
               \/ \E d \in Databases, r \in Roots :
                     ReadRoot(p, d, r) \/ \E bump \in BOOLEAN : TakeStartKey(p, d, r, bump)
        PROVE  proc'[q] = proc[q]
    BY <1>7, OneActs
  <1> QED BY <1>2, <1>3, <1>4, <1>5, <1>6, <1>7 DEF Next

\* A process that goes on with its row is recorded if it was.
LEMMA GoesByRow ==
    ASSUME PInv, Recorded, Next, NEW q \in Procs,
           proc'[q].row = proc[q].row, proc'[q].db = proc[q].db,
           proc'[q].pc = proc[q].pc
           \/ (proc[q].pc \in Bootstrapping /\ proc'[q].pc \in Bootstrapping)
           \/ (proc[q].pc \in AtRoot \cup {"check"} /\ proc'[q].pc \in AtRoot)
    PROVE  OfProc(q)'
  <1>1. OfProc(q) /\ RowsRecorded
    BY DEF Recorded, ProcsRecorded
  <1>2. proc[q].pc \in Bootstrapping \cup AtRoot \cup {"check"} => proc[q].db \in Databases
    BY DEF PInv, ProcSafe, Placed, Bootstrapping, AtRoot
  <1>3. /\ proc'[q].pc \in Bootstrapping \cup AtRoot \cup {"check"}
           => proc[q].pc \in Bootstrapping \cup AtRoot \cup {"check"}
        /\ proc'[q].pc \in Bootstrapping => proc[q].pc \in Bootstrapping
    BY DEF Bootstrapping, AtRoot
  <1>4. proc'[q].pc \in Bootstrapping \cup AtRoot \cup {"check"} =>
            proc'[q].row.at.tok \in past'[proc'[q].db]
    BY <1>1, <1>2, <1>3, PastGrows DEF OfProc
  <1>5. proc'[q].pc \in Bootstrapping => proc'[q].row.at.gen = 1
    BY <1>1, <1>3 DEF OfProc
  <1> QED BY <1>4, <1>5 DEF OfProc

\* The fields that the steps of a start write, of the process that takes one.
LEMMA StartEdits ==
    ASSUME PInv, NEW q \in Procs, StartStep(q)
    PROVE  \/ proc'[q] = Idle
           \/ ReadInstance(q) /\ proc'[q] = [proc[q] EXCEPT !.pc = "check",
                                                            !.row = db[proc[q].db]]
           \/ BumpDatabase(q)
           \/ CheckReconciles(q)
              /\ proc'[q] = [proc[q] EXCEPT !.pc = "write", !.from = marker[proc[q].root].at]
           \/ CheckPasses(q) /\ \E pc \in {"bump", "prove"} : proc'[q] = [proc[q] EXCEPT !.pc = pc]
           \/ CompareMarker(q)
              /\ \E pc \in {"sync", "replace"} : proc'[q] = [proc[q] EXCEPT !.pc = pc]
           \/ ReplaceMarker(q) /\ proc'[q] = [proc[q] EXCEPT !.pc = "sync"]
           \/ /\ SyncMarker(q) /\ marker[proc[q].root] = ClaimOf(proc[q].row)
              /\ proc'[q] = [proc[q] EXCEPT !.pc = "bump"]
           \/ /\ SyncMarker(q) \/ ProveDurable(q)
              /\ proc'[q] = [proc[q] EXCEPT !.pc = "serving", !.locked = FALSE]
  <1>1. proc \in [Procs -> Proc]
    BY DEF PInv, TypeOK
  <1>2. CASE ReadInstance(q)
    BY <1>1, <1>2 DEF ReadInstance
  <1>3. CASE CheckPasses(q)
    BY <1>1, <1>3 DEF CheckPasses, Goto
  <1>4. CASE CheckReconciles(q)
    BY <1>1, <1>4 DEF CheckReconciles
  <1>5. CASE CompareMarker(q)
    BY <1>1, <1>5 DEF CompareMarker, Goto
  <1>6. CASE ReplaceMarker(q)
    BY <1>1, <1>6 DEF ReplaceMarker, Goto
  <1>7. CASE SyncMarker(q)
    BY <1>1, <1>7 DEF SyncMarker, Goto, Serve
  <1>8. CASE ProveDurable(q)
    BY <1>1, <1>8 DEF ProveDurable, Serve
  <1> QED BY <1>2, <1>3, <1>4, <1>5, <1>6, <1>7, <1>8 DEF StartStep

LEMMA ProcsStep ==
    ASSUME PInv, Recorded, Next
    PROVE  ProcsRecorded'
  <1> SUFFICES ASSUME NEW q \in Procs PROVE OfProc(q)'
    BY DEF ProcsRecorded
  <1>1. /\ proc \in [Procs -> Proc] /\ proc[q] \in Proc /\ OfProc(q)
        /\ past \in [Databases -> SUBSET Tokens]
    BY DEF PInv, TypeOK, Recorded, ProcsRecorded
  <1>2. CASE proc'[q] = proc[q]
    BY <1>2, GoesByRow
  <1>3. CASE proc'[q].pc \in {"idle", "begin"}
    BY <1>3 DEF OfProc, Bootstrapping, AtRoot
  <1>4. CASE BootstrapStep(q)
    <2>1. ASSUME NEW t \in FreshTokens, Inserts(q, t) PROVE OfProc(q)'
      <3>1. proc'[q] = [proc[q] EXCEPT !.pc = "claim", !.row = FirstRow(proc[q].root, t)]
        BY <1>1, <2>1 DEF Inserts
      <3>2. /\ proc'[q].row = FirstRow(proc[q].root, t) /\ proc'[q].db = proc[q].db
        BY <1>1, <3>1 DEF Proc
      <3>3. t \in past'[proc[q].db]
        BY <1>1, <2>1 DEF Inserts
      <3> QED BY <3>2, <3>3 DEF OfProc, FirstRow
    <2>2. CASE InsertInstance(q)
      BY <2>1, <2>2 DEF InsertInstance, Inserts, PInv, ProcSafe, Placed
    <2>3. CASE ResumeInstance(q)
      <3>1. proc'[q] = [proc[q] EXCEPT !.pc = "claim", !.row = db[proc[q].db]]
            /\ UNCHANGED past /\ db[proc[q].db].setup = "bootstrapping"
            /\ proc[q].db \in Databases
        BY <1>1, <2>3 DEF ResumeInstance, PInv, ProcSafe, Placed
      <3>2. /\ proc'[q].row = db[proc[q].db] /\ proc'[q].db = proc[q].db
        BY <1>1, <3>1 DEF Proc
      <3> QED BY <3>1, <3>2 DEF OfProc, Recorded, RowsRecorded, OfRow
    <2>4. CASE ClaimRoot(q) \/ SyncClaim(q) \/ ReadClaim(q)
      <3>1. /\ proc[q].pc \in Bootstrapping
            /\ \E pc \in {"claimSync", "finish", "finishTx"} : Goto(q, pc)
        BY <2>4 DEF ClaimRoot, SyncClaim, ReadClaim, Bootstrapping
      <3>2. /\ proc'[q].row = proc[q].row /\ proc'[q].db = proc[q].db
            /\ proc'[q].pc \in Bootstrapping
        BY <1>1, <3>1 DEF Goto, Proc, Bootstrapping
      <3> QED BY <3>1, <3>2, GoesByRow
    <2>5. CASE MarkReady(q)
      BY <1>1, <1>3, <2>5, Zenon DEF MarkReady, Idle
    <2> QED BY <1>4, <2>2, <2>3, <2>4, <2>5 DEF BootstrapStep
  <1>5. CASE StartStep(q)
    <2>1. CASE proc'[q] = Idle
      BY <1>3, <2>1 DEF Idle
    <2>2. CASE ReadInstance(q) /\ proc'[q] = [proc[q] EXCEPT !.pc = "check",
                                                             !.row = db[proc[q].db]]
      <3>1. /\ UNCHANGED past /\ db[proc[q].db].setup = "ready" /\ proc[q].db \in Databases
        BY <2>2 DEF ReadInstance, PInv, ProcSafe, Placed
      <3>2. /\ proc'[q].row = db[proc[q].db] /\ proc'[q].db = proc[q].db
            /\ proc'[q].pc = "check"
        BY <1>1, <2>2 DEF Proc
      <3> QED BY <3>1, <3>2 DEF OfProc, Recorded, RowsRecorded, OfRow, Bootstrapping
    <2>3. ASSUME NEW t \in FreshTokens, Bumps(q, t) PROVE OfProc(q)'
      <3>1. /\ proc'[q].row = Bumped(db[proc[q].db], t) /\ proc'[q].db = proc[q].db
            /\ proc'[q].pc = "write" /\ db[proc[q].db] \in Row
        BY <1>1, <2>3 DEF Bumps, Proc, PInv, TypeOK
      <3>2. t \in past'[proc[q].db]
        BY <1>1, <2>3 DEF Bumps
      <3>3. Bumped(db[proc[q].db], t).at.tok = t
        BY <3>1 DEF Bumped, Row
      <3> QED BY <3>1, <3>2, <3>3 DEF OfProc, Bootstrapping
    <2>4. CASE BumpDatabase(q)
      <3>1. \E t \in FreshTokens : Bumps(q, t)
        <4>1. /\ proc[q].pc = "bump" /\ proc[q].db \in Databases /\ proc[q].root \in Roots
              /\ proc[q].locked /\ db[proc[q].db].setup = "ready"
              /\ db[proc[q].db].at = proc[q].row.at
          BY <2>4 DEF BumpDatabase, Connected, PInv, ProcSafe, Placed, Knows, AtRoot
        <4> QED BY <2>4, <4>1, Zenon DEF BumpDatabase, Bumps, PInv, TypeOK
      <3> QED BY <2>3, <3>1
    <2>5. ASSUME proc[q].pc \in AtRoot \cup {"check"}, proc'[q].row = proc[q].row,
                 proc'[q].db = proc[q].db, proc'[q].pc \in AtRoot
          PROVE  OfProc(q)'
      BY <2>5, GoesByRow
    <2>6. CASE CheckReconciles(q)
               /\ proc'[q] = [proc[q] EXCEPT !.pc = "write", !.from = marker[proc[q].root].at]
      BY <1>1, <2>5, <2>6 DEF CheckReconciles, Proc, AtRoot
    <2>7. ASSUME CheckPasses(q) \/ CompareMarker(q) \/ ReplaceMarker(q) \/ SyncMarker(q),
                 NEW pc \in {"bump", "prove", "sync", "replace"},
                 proc'[q] = [proc[q] EXCEPT !.pc = pc]
          PROVE  OfProc(q)'
      <3>1. proc[q].pc \in AtRoot \cup {"check"}
        BY <2>7 DEF CheckPasses, CompareMarker, ReplaceMarker, SyncMarker, AtRoot
      <3> QED BY <1>1, <2>5, <2>7, <3>1 DEF Proc, AtRoot
    <2>8. CASE /\ SyncMarker(q) \/ ProveDurable(q)
               /\ proc'[q] = [proc[q] EXCEPT !.pc = "serving", !.locked = FALSE]
      <3>1. proc[q].pc \in AtRoot \cup {"check"}
        BY <2>8 DEF SyncMarker, ProveDurable, AtRoot
      <3> QED BY <1>1, <2>5, <2>8, <3>1 DEF Proc, AtRoot
    <2> QED BY <1>5, <2>1, <2>2, <2>4, <2>6, <2>7, <2>8, StartEdits, Zenon
  <1>6. ASSUME NEW d \in Databases, NEW r \in Roots, NEW bump \in BOOLEAN,
               TakeStartKey(q, d, r, bump)
        PROVE  OfProc(q)'
    <2>1. proc'[q].pc = "read"
      BY <1>1, <1>6 DEF TakeStartKey, Idle
    <2> QED BY <2>1 DEF OfProc, Bootstrapping, AtRoot
  <1>7. CASE LoseSession(q)
    BY <1>1, <1>7, GoesByRow, Zenon DEF LoseSession, Proc
  <1> QED BY <1>2, <1>3, <1>4, <1>5, <1>6, <1>7, ProcMoves

-----------------------------------------------------------------------------
(* The starts of one database, and at one root, are serialized *)

\* A fault that has happened has happened.
LEMMA FaultsGrow ==
    ASSUME Next
    PROVE  faults \subseteq faults'
  <1>1. ASSUME NEW p \in Procs, BootstrapStep(p) PROVE faults' = faults
    BY <1>1 DEF BootstrapStep, InsertInstance, ResumeInstance, ClaimRoot, SyncClaim, ReadClaim,
                MarkReady
  <1>2. ASSUME NEW p \in Procs, StartStep(p) PROVE faults' = faults
    BY <1>2, Zenon
       DEF StartStep, ReadInstance, CheckPasses, CheckReconciles, BumpDatabase,
                CompareMarker, ReplaceMarker, SyncMarker, ProveDurable
  <1> QED BY <1>1, <1>2, Zenon
     DEF Next, ReadRoot, TakeStartKey, StoreObject, Quit, LoseSession,
                             LosePower, CopyDatabase

\* A process that is starting was, with the same database, root and key, or
\* has just taken its key.
LEMMA StartingStep ==
    ASSUME PInv, Next, "session" \notin faults', NEW q \in Procs, Starting(q)'
    PROVE  \/ /\ Starting(q) /\ proc'[q].db = proc[q].db /\ proc'[q].root = proc[q].root
              /\ proc'[q].locked = proc[q].locked
           \/ \E d \in Databases, r \in Roots, bump \in BOOLEAN : TakeStartKey(q, d, r, bump)
  <1>1. proc \in [Procs -> Proc] /\ proc[q] \in Proc
    BY DEF PInv, TypeOK
  <1>2. ASSUME BootstrapStep(q) PROVE FALSE
    <2>1. proc'[q].pc \in {"claim", "claimSync", "finish", "finishTx", "idle"}
      BY <1>1, <1>2 DEF BootstrapStep, InsertInstance, ResumeInstance, ClaimRoot, SyncClaim,
                        ReadClaim, MarkReady, Goto, Idle, Proc
    <2> QED BY <2>1 DEF Starting
  <1>3. CASE StartStep(q)
    <2>1. Starting(q)
      BY <1>3, Zenon
         DEF Starting, StartStep, ReadInstance, CheckPasses, CheckReconciles, BumpDatabase,
                  CompareMarker, ReplaceMarker, SyncMarker, ProveDurable
    <2>2. CASE BumpDatabase(q)
      <3>1. PICK t \in FreshTokens :
               proc' = [proc EXCEPT ![q].pc = "write", ![q].row = Bumped(db[proc[q].db], t),
                                    ![q].from = proc[q].row.at, ![q].owes = FALSE]
        BY <2>2, Zenon DEF BumpDatabase
      <3> QED BY <1>1, <2>1, <3>1 DEF Proc
    <2>3. CASE ~BumpDatabase(q)
      <3>1. proc'[q].pc \notin {"idle", "serving"}
        BY DEF Starting
      <3>2. proc'[q] # Idle /\ proc'[q] # [proc[q] EXCEPT !.pc = "serving", !.locked = FALSE]
        <4>1. Idle.pc = "idle"
          BY DEF Idle
        <4>2. [proc[q] EXCEPT !.pc = "serving", !.locked = FALSE].pc = "serving"
          BY <1>1, Zenon DEF Proc
        <4> QED BY <3>1, <4>1, <4>2
      <3>3. \/ proc'[q] = [proc[q] EXCEPT !.pc = "check", !.row = db[proc[q].db]]
            \/ proc'[q] = [proc[q] EXCEPT !.pc = "write", !.from = marker[proc[q].root].at]
            \/ \E pc \in {"bump", "prove", "sync", "replace"} :
                  proc'[q] = [proc[q] EXCEPT !.pc = pc]
        BY <1>3, <2>3, <3>2, StartEdits, Zenon
      <3> QED BY <1>1, <2>1, <3>3 DEF Proc
    <2> QED BY <2>2, <2>3, Zenon
  <1>4. CASE proc'[q] = proc[q]
    BY <1>4 DEF Starting
  <1>5. ASSUME LoseSession(q) PROVE FALSE
    BY <1>5 DEF LoseSession
  <1>6. proc'[q].pc \notin {"idle", "begin"}
    BY DEF Starting
  <1> QED BY <1>2, <1>3, <1>4, <1>5, <1>6, ProcMoves

\* The start key serializes the starts of a database; that two copies are not
\* started against one root at once is the limitation OneCopyStarts.
LEMMA KeyStep ==
    ASSUME PInv, KeyKept, Next, "session" \notin faults'
    PROVE  KeyKept'
  <1>1. proc \in [Procs -> Proc]
    BY DEF PInv, TypeOK
  <1>2. ASSUME NEW q \in Procs, Starting(q)' PROVE proc'[q].locked
    <2>1. ASSUME NEW d \in Databases, NEW r \in Roots, NEW bump \in BOOLEAN,
                 TakeStartKey(q, d, r, bump)
          PROVE  proc'[q].locked
      BY <1>1, <2>1 DEF TakeStartKey, Idle
    <2> QED BY <1>2, <2>1, StartingStep DEF KeyKept
  <1>3. ASSUME NEW p \in Procs, NEW q \in Procs, Starting(p)', Starting(q)', p # q,
               NEW d \in Databases, NEW r \in Roots, NEW bump \in BOOLEAN,
               TakeStartKey(p, d, r, bump)
        PROVE  proc'[p].db # proc'[q].db /\ proc'[p].root # proc'[q].root
    <2>1. proc'[q] = proc[q]
      BY <1>3, OneActs
    <2>2. Starting(q) /\ proc[q].locked
      BY <1>3, <2>1 DEF Starting, KeyKept
    <2>3. proc'[p].db = d /\ proc'[p].root = r
      BY <1>1, <1>3 DEF TakeStartKey, Idle
    <2>4. proc[q].db # d /\ proc[q].root # r
      BY <1>3, <2>2 DEF TakeStartKey, StartKeyFree, OneCopyStarts
    <2> QED BY <2>1, <2>3, <2>4
  <1>4. ASSUME NEW p \in Procs, NEW q \in Procs, Starting(p)', Starting(q)', p # q
        PROVE  proc'[p].db # proc'[q].db /\ proc'[p].root # proc'[q].root
    <2>1. CASE \E d \in Databases, r \in Roots, bump \in BOOLEAN : TakeStartKey(p, d, r, bump)
      BY <1>3, <1>4, <2>1
    <2>2. CASE \E d \in Databases, r \in Roots, bump \in BOOLEAN : TakeStartKey(q, d, r, bump)
      BY <1>3, <1>4, <2>2
    <2> QED BY <1>4, <2>1, <2>2, StartingStep DEF KeyKept
  <1> QED BY <1>2, <1>4 DEF KeyKept

\* What a start that does not act goes by is left alone: nobody else writes
\* its row or its root's marker, or serves there.
LEMMA LeftAlone ==
    ASSUME PInv, Recorded, Serialized, Next, NEW q \in Procs, Starting(q),
           proc[q].pc # "read", proc'[q] = proc[q]
    PROVE  /\ db'[proc[q].db] = db[proc[q].db]
           /\ proc[q].pc # "check" =>
                 /\ marker'[proc[q].root] = marker[proc[q].root]
                 /\ served'[proc[q].root] = served[proc[q].root]
  <1> DEFINE d == proc[q].db
             r == proc[q].root
  <1>1. /\ d \in Databases /\ r \in Roots /\ db[d].setup = "ready"
        /\ proc[q].pc # "check" => proc[q].pc \in AtRoot
        /\ proc \in [Procs -> Proc] /\ proc[q] \in Proc /\ db \in [Databases -> Row]
    BY DEF PInv, TypeOK, ProcSafe, Placed, Knows, Starting, AtRoot
  <1>2. ASSUME NEW p \in Procs, Starting(p), proc[p].db = d \/ proc[p].root = r
        PROVE  p = q
    BY <1>2 DEF Serialized, KeyKept
  <1>3. db'[d] = db[d]
    <2>1. ASSUME NEW p \in Procs, NEW t \in FreshTokens, Inserts(p, t) PROVE db'[d] = db[d]
      BY <1>1, <2>1 DEF Inserts
    <2>2. ASSUME NEW p \in Procs, MarkReady(p) PROVE db'[d] = db[d]
      BY <1>1, <2>2 DEF MarkReady, PInv, ProcSafe, HoldsRow, Bootstrapping
    <2>3. ASSUME NEW p \in Procs, NEW t \in FreshTokens, Bumps(p, t) PROVE db'[d] = db[d]
      <3>1. p # q
        <4>1. p = q => proc'[q].pc = "write" /\ proc[q].pc = "bump"
          BY <1>1, <2>3 DEF Bumps, Proc
        <4> QED BY <4>1
      <3>2. proc[p].db # d
        BY <1>2, <2>3, <3>1 DEF Bumps, Starting
      <3> QED BY <1>1, <2>3, <3>2 DEF Bumps
    <2>4. ASSUME NEW c \in Databases, NEW e \in Databases, CopyDatabase(c, e)
          PROVE  db'[d] = db[d]
      BY <1>1, <2>4 DEF CopyDatabase
    <2> QED BY <2>1, <2>2, <2>3, <2>4, DbMoves
  <1>4. ASSUME proc[q].pc # "check" PROVE marker'[r] = marker[r]
    <2>1. marker[r] # Unclaimed
      <3>1. marker[r].id = db[d].id /\ db[d].id \in Tokens
        BY <1>1, <1>4, Replaces DEF PInv, ProcSafe, Knows, DbSafe, Named
      <3> QED BY <3>1, PairingAssumption DEF Unclaimed
    <2>2. ASSUME NEW p \in Procs, ReplaceMarker(p), proc[p].root = r PROVE FALSE
      <3>1. p = q
        BY <1>2, <2>2 DEF ReplaceMarker, Starting
      <3>2. proc'[q].pc = "sync" /\ proc[q].pc = "replace"
        BY <1>1, <2>2, <3>1 DEF ReplaceMarker, Goto, Proc
      <3> QED BY <3>2
    <2>3. ASSUME LosePower(r) PROVE FALSE
      BY <1>1, <2>3 DEF LosePower, Idle, Starting
    <2> QED BY <1>1, <2>1, <2>2, <2>3, MarkerMoves
  <1>5. served'[r] = served[r]
    <2>1. ASSUME NEW p \in Procs, proc[p].pc \in {"sync", "prove"}, proc[p].root = r,
                 proc'[p] = [proc[p] EXCEPT !.pc = "serving", !.locked = FALSE]
          PROVE  FALSE
      <3>1. p = q
        BY <1>2, <2>1 DEF Starting
      <3> QED BY <1>1, <2>1, <3>1 DEF Proc
    <2> QED BY <1>1, <2>1, ServedMoves, Zenon
  <1> QED BY <1>3, <1>4, <1>5

\* Whatever else happens, a start that does not act stays current.
LEMMA StaysCurrent ==
    ASSUME PInv, Recorded, Serialized, Next, NEW q \in Procs, proc'[q] = proc[q]
    PROVE  Current(q)'
  <1>1. Current(q) /\ OfProc(q) /\ RowsRecorded
    BY DEF Serialized, Recorded, ProcsRecorded
  <1>2. CASE ~Starting(q) \/ proc[q].pc = "read"
    BY <1>2 DEF Current, Starting, AtRoot
  <1>3. CASE Starting(q) /\ proc[q].pc # "read"
    <2>1. /\ db'[proc[q].db] = db[proc[q].db]
          /\ proc[q].pc # "check" => /\ marker'[proc[q].root] = marker[proc[q].root]
                                     /\ served'[proc[q].root] = served[proc[q].root]
      BY <1>3, LeftAlone
    <2>2. proc[q].db \in Databases /\ proc[q].row.at.tok \in past[proc[q].db]
      BY <1>1, <1>3 DEF OfProc, Starting, AtRoot, PInv, ProcSafe, Placed
    <2>3. proc[q].row.at.tok \notin FreshTokens
      BY <2>2, NotFresh
    <2>4. Follows(proc[q].row.at.tok, served[proc[q].root]) =>
             \A e \in Databases : proc[q].row.at.tok \in past'[e]
                                     => served[proc[q].root] \subseteq past'[e]
      BY <1>1, <2>3, FollowsStep
    <2>5. proc[q].pc \in {"write", "replace"} => Follows(proc[q].row.at.tok, served[proc[q].root])'
      BY <1>1, <1>3, <2>1, <2>4, Zenon DEF Current, Follows
    <2> QED BY <1>1, <1>3, <2>1, <2>5 DEF Current
  <1> QED BY <1>2, <1>3

\* A start that acts is current after its step.
LEMMA ActsCurrent ==
    ASSUME PInv, Recorded, Serialized, Next, NEW q \in Procs, StartStep(q)
    PROVE  Current(q)'
  <1> DEFINE d == proc[q].db
             r == proc[q].root
  <1>1. /\ Current(q) /\ OfProc(q) /\ RowsRecorded /\ proc[q] \in Proc
        /\ proc \in [Procs -> Proc] /\ db \in [Databases -> Row]
        /\ past \in [Databases -> SUBSET Tokens] /\ marker \in [Roots -> Marker]
        /\ d \in Databases /\ r \in Roots
    BY Zenon DEF Serialized, Recorded, ProcsRecorded, PInv, TypeOK, ProcSafe, Placed, StartStep,
           ReadInstance, CheckPasses, CheckReconciles, BumpDatabase, CompareMarker,
           ReplaceMarker, SyncMarker, ProveDurable
  <1>2. /\ marker[r] \in disk[r] /\ Follows(marker[r].at.tok, served[r])
    BY <1>1 DEF Serialized, Lineage, PInv, TypeOK
  <1>3. CASE proc'[q] = Idle
    BY <1>3 DEF Idle, Current, AtRoot
  <1>4. CASE ReadInstance(q) /\ proc'[q] = [proc[q] EXCEPT !.pc = "check", !.row = db[d]]
    <2>1. proc'[q].pc = "check" /\ proc'[q].row = db[d] /\ proc'[q].db = d /\ UNCHANGED db
      BY <1>1, <1>4 DEF ReadInstance, Proc
    <2> QED BY <2>1 DEF Current, AtRoot
  <1>5. CASE CheckPasses(q) /\ \E pc \in {"bump", "prove"} : proc'[q] = [proc[q] EXCEPT !.pc = pc]
    <2>1. /\ proc'[q].pc \in {"bump", "prove"} /\ proc'[q].row = proc[q].row
          /\ proc'[q].db = d /\ proc'[q].root = r /\ UNCHANGED <<db, marker>>
          /\ proc[q].row.at = marker[r].at /\ proc[q].row = db[d]
      BY <1>1, <1>5 DEF CheckPasses, Proc, Current
    <2> QED BY <2>1 DEF Current, AtRoot
  <1>6. CASE CheckReconciles(q)
             /\ proc'[q] = [proc[q] EXCEPT !.pc = "write", !.from = marker[r].at]
    <2>1. /\ proc'[q].pc = "write" /\ proc'[q].row = proc[q].row /\ proc'[q].from = marker[r].at
          /\ proc'[q].db = d /\ proc'[q].root = r /\ UNCHANGED <<db, marker, past, served>>
          /\ OneAhead(proc[q].row, marker[r].at) /\ proc[q].row = db[d]
      BY <1>1, <1>6 DEF CheckReconciles, Proc, Current
    <2>2. Follows(db[d].at.tok, {db[d].prev}) /\ db[d].prev = marker[r].at.tok
          /\ db[d].at.gen = marker[r].at.gen + 1
      BY <1>1, <2>1 DEF OneAhead, RowsRecorded, PrevKept
    <2>3. Follows(db[d].at.tok, served[r])
      BY <1>2, <2>2 DEF Follows
    <2>4. Follows(proc[q].row.at.tok, served[proc[q].root])'
      BY <2>1, <2>3 DEF Follows
    <2> QED BY <2>1, <2>2, <2>4 DEF Current, AtRoot
  <1>7. ASSUME NEW t \in FreshTokens, Bumps(q, t) PROVE Current(q)'
    <2>1. /\ proc'[q].pc = "write" /\ proc'[q].row = Bumped(db[d], t)
          /\ proc'[q].from = proc[q].row.at /\ proc'[q].db = d /\ proc'[q].root = r
          /\ db'[d] = Bumped(db[d], t) /\ past' = [past EXCEPT ![d] = @ \cup {t}]
          /\ UNCHANGED <<marker, served>> /\ proc[q].pc = "bump"
      BY <1>1, <1>7 DEF Bumps, Proc
    <2>2. /\ proc[q].row = db[d] /\ marker[r].at = proc[q].row.at
          /\ proc[q].row.at.tok \in past[d]
      BY <1>1, <2>1 DEF Current, OfProc, AtRoot
    <2>3. served[r] \subseteq past[d]
      BY <1>1, <1>2, <2>2 DEF Follows
    <2>4. \A e \in Databases : t \in past'[e] => served'[r] \subseteq past'[e]
      BY <1>1, <2>1, <2>3, Fresh
    <2>5. /\ Bumped(db[d], t).at.tok = t /\ Bumped(db[d], t).at.gen = db[d].at.gen + 1
      BY <1>1 DEF Bumped, Row
    <2>6. Follows(proc[q].row.at.tok, served[proc[q].root])'
      BY <2>1, <2>4, <2>5 DEF Follows
    <2> QED BY <2>1, <2>2, <2>5, <2>6 DEF Current, AtRoot
  <1>8. CASE BumpDatabase(q)
    <2>1. \E t \in FreshTokens : Bumps(q, t)
      <3>1. /\ proc[q].pc = "bump" /\ d \in Databases /\ r \in Roots
            /\ proc[q].locked /\ db[d].setup = "ready" /\ db[d].at = proc[q].row.at
        BY <1>8 DEF BumpDatabase, Connected, PInv, ProcSafe, Placed, Knows, AtRoot
      <3> QED BY <1>8, <3>1, Zenon DEF BumpDatabase, Bumps, PInv, TypeOK
    <2> QED BY <1>7, <2>1
  <1>9. CASE CompareMarker(q) /\ \E pc \in {"sync", "replace"} :
                                     proc'[q] = [proc[q] EXCEPT !.pc = pc]
    <2>1. /\ proc'[q].pc \in {"sync", "replace"} /\ proc'[q].row = proc[q].row
          /\ proc'[q].from = proc[q].from
          /\ proc'[q].db = d /\ proc'[q].root = r /\ UNCHANGED <<db, marker, past, served>>
          /\ proc[q].pc = "write"
      BY <1>1, <1>9 DEF CompareMarker, Proc
    <2>2. proc'[q].pc = "replace" => marker[r].at = proc[q].from
      <3>1. CASE Goto(q, "sync")
        BY <1>1, <3>1 DEF Goto, Proc
      <3> QED BY <1>9, <3>1 DEF CompareMarker
    <2>3. /\ proc[q].row = db[d] /\ proc[q].row.at.gen = proc[q].from.gen + 1
          /\ Follows(proc[q].row.at.tok, served[r])
      BY <1>1, <2>1 DEF Current, AtRoot
    <2>4. Follows(proc[q].row.at.tok, served[proc[q].root])'
      BY <2>1, <2>3 DEF Follows
    <2> QED BY <2>1, <2>2, <2>3, <2>4 DEF Current, AtRoot
  <1>10. CASE ReplaceMarker(q) /\ proc'[q] = [proc[q] EXCEPT !.pc = "sync"]
    <2>1. /\ proc'[q].pc = "sync" /\ proc'[q].row = proc[q].row /\ proc'[q].db = d
          /\ UNCHANGED db /\ proc[q].pc = "replace"
      BY <1>1, <1>10 DEF ReplaceMarker, Proc
    <2>2. proc[q].row = db[d]
      BY <1>1, <2>1 DEF Current, AtRoot
    <2> QED BY <2>1, <2>2 DEF Current, AtRoot
  <1>11. CASE /\ SyncMarker(q) /\ marker[r] = ClaimOf(proc[q].row)
              /\ proc'[q] = [proc[q] EXCEPT !.pc = "bump"]
    <2>1. /\ proc'[q].pc = "bump" /\ proc'[q].row = proc[q].row /\ proc'[q].db = d
          /\ proc'[q].root = r /\ UNCHANGED <<db, marker>> /\ proc[q].pc = "sync"
      BY <1>1, <1>11 DEF SyncMarker, Proc
    <2>2. proc[q].row = db[d] /\ marker[r].at = proc[q].row.at
      BY <1>1, <1>11, <2>1 DEF Current, AtRoot, ClaimOf
    <2> QED BY <2>1, <2>2 DEF Current, AtRoot
  <1>12. CASE proc'[q] = [proc[q] EXCEPT !.pc = "serving", !.locked = FALSE]
    <2>1. proc'[q].pc = "serving"
      BY <1>1, <1>12 DEF Proc
    <2> QED BY <2>1 DEF Current, AtRoot
  <1> QED BY <1>3, <1>4, <1>5, <1>6, <1>8, <1>9, <1>10, <1>11, <1>12, StartEdits, Zenon

\* So every process is current as long as no start has lost its session.
LEMMA CurrentStep ==
    ASSUME PInv, Recorded, Serialized, Next, "session" \notin faults', NEW q \in Procs
    PROVE  Current(q)'
  <1>1. proc \in [Procs -> Proc] /\ proc[q] \in Proc
    BY DEF PInv, TypeOK
  <1>2. ASSUME proc'[q].pc \in {"idle", "begin", "read"} \cup Bootstrapping PROVE Current(q)'
    BY <1>2 DEF Current, AtRoot, Bootstrapping
  <1>3. CASE BootstrapStep(q)
    <2>1. proc'[q].pc \in {"idle"} \cup Bootstrapping
      BY <1>1, <1>3 DEF BootstrapStep, InsertInstance, ResumeInstance, ClaimRoot, SyncClaim,
                        ReadClaim, MarkReady, Goto, Idle, Proc, Bootstrapping
    <2> QED BY <1>2, <2>1
  <1>4. ASSUME NEW d \in Databases, NEW r \in Roots, NEW bump \in BOOLEAN,
               TakeStartKey(q, d, r, bump)
        PROVE  Current(q)'
    <2>1. proc'[q].pc = "read"
      BY <1>1, <1>4 DEF TakeStartKey, Idle
    <2> QED BY <1>2, <2>1
  <1>5. ASSUME LoseSession(q) PROVE FALSE
    BY <1>5 DEF LoseSession
  <1> QED BY <1>2, <1>3, <1>4, <1>5, ProcMoves, StaysCurrent, ActsCurrent

\* A root whose start is proved, replaced or claimed passes the lineage on: a
\* claim is of a root that has not served.
LEMMA LineageStep ==
    ASSUME PInv, Recorded, Serialized, Next, NEW r \in Roots
    PROVE  Lineage(r)'
  <1>1. /\ Lineage(r) /\ OfMarkers(r) /\ RowsRecorded
        /\ marker \in [Roots -> Marker] /\ disk \in [Roots -> SUBSET Marker]
        /\ marker[r] \in disk[r] /\ served \in [Roots -> SUBSET Tokens]
    BY DEF Serialized, Recorded, MarkersRecorded, PInv, TypeOK
  <1>2. ASSUME NEW m \in disk[r]
        PROVE  \A e \in Databases : m.at.tok \in past'[e] => served[r] \subseteq past'[e]
    <2>1. m.at.tok \notin FreshTokens
      <3>1. CASE m.at.tok = Nothing
        BY <3>1, Fresh
      <3>2. CASE \E d \in Databases : m.at.tok \in past[d]
        BY <3>2, NotFresh
      <3> QED BY <1>1, <3>1, <3>2 DEF OfMarkers
    <2>2. Follows(m.at.tok, served[r])
      BY <1>1 DEF Lineage
    <2> QED BY <1>1, <2>1, <2>2, FollowsStep
  <1>3. CASE served'[r] = served[r]
    <2>1. ASSUME NEW p \in Procs, ClaimRoot(p) \/ ReplaceMarker(p),
                 ClaimRoot(p) => marker[r] = Unclaimed, proc[p].root = r
          PROVE  \A e \in Databases : proc[p].row.at.tok \in past'[e]
                                         => served[r] \subseteq past'[e]
      <3>1. CASE ClaimRoot(p)
        <4>1. ASSUME NEW d \in Databases, db[d].setup = "ready", db[d].root = r PROVE FALSE
          <5>1. marker[r].id = db[d].id /\ db[d].id \in Tokens
            BY <1>1, <4>1 DEF PInv, DbSafe, Committed, Named
          <5> QED BY <2>1, <3>1, <5>1, PairingAssumption DEF Unclaimed
        <4>2. served[r] = {}
          BY <1>1, <4>1 DEF OfMarkers
        <4> QED BY <4>2
      <3>2. CASE ReplaceMarker(p)
        <4>1. Follows(proc[p].row.at.tok, served[r])
          BY <2>1, <3>2 DEF ReplaceMarker, Serialized, Current
        <4>2. proc[p].row.at.tok \notin FreshTokens
          BY <3>2, NotFresh DEF ReplaceMarker, Recorded, ProcsRecorded, OfProc, AtRoot, PInv,
                                ProcSafe, Placed
        <4> QED BY <1>1, <4>1, <4>2, FollowsStep
      <3> QED BY <2>1, <3>1, <3>2
    <2>2. ASSUME NEW m \in disk'[r]
          PROVE  \A e \in Databases : m.at.tok \in past'[e] => served[r] \subseteq past'[e]
      <3>1. CASE m \in disk[r]
        BY <1>2, <3>1
      <3>2. CASE m \notin disk[r]
        <4>1. PICK p \in Procs : /\ ClaimRoot(p) \/ ReplaceMarker(p)
                                 /\ ClaimRoot(p) => marker[r] = Unclaimed
                                 /\ proc[p].root = r /\ m = ClaimOf(proc[p].row)
          BY <3>2, MarkerMoves
        <4>2. m.at.tok = proc[p].row.at.tok
          BY <4>1 DEF ClaimOf
        <4> QED BY <2>1, <4>1, <4>2
      <3> QED BY <3>1, <3>2
    <2>3. served[r] # {} => \E d \in Databases : served[r] \subseteq past'[d]
      BY <1>1, PastGrows DEF Lineage
    <2> QED BY <1>3, <2>2, <2>3 DEF Lineage, Follows
  <1>4. ASSUME NEW p \in Procs, proc[p].pc \in {"sync", "prove"}, proc[p].root = r,
               proc[p].pc = "sync" => marker[r] = ClaimOf(proc[p].row),
               served'[r] = served[r] \cup {proc[p].row.at.tok},
               disk'[r] = {marker[r]}, UNCHANGED past
        PROVE  Lineage(r)'
    <2>1. marker[r].at = proc[p].row.at
      BY <1>4 DEF ClaimOf, Serialized, Current
    <2>2. proc[p].db \in Databases /\ proc[p].row.at.tok \in past[proc[p].db]
      BY <1>4 DEF PInv, ProcSafe, Placed, Recorded, ProcsRecorded, OfProc, AtRoot
    <2>3. \A e \in Databases : proc[p].row.at.tok \in past[e] => served[r] \subseteq past[e]
      BY <1>1, <2>1 DEF Lineage, Follows
    <2>4. \A e \in Databases : proc[p].row.at.tok \in past[e] => served'[r] \subseteq past[e]
      BY <1>4, <2>3
    <2>5. \A m \in disk'[r] : m.at.tok = proc[p].row.at.tok
      BY <1>4, <2>1
    <2> QED BY <1>4, <2>2, <2>4, <2>5 DEF Lineage, Follows
  <1> QED BY <1>3, <1>4, ServedMoves, Zenon

-----------------------------------------------------------------------------
(* A database that nobody copied keeps up with its root *)

\* A copy is a copy for good.
LEMMA AloneBefore ==
    ASSUME PInv, RowsRecorded, Next, NEW d \in Databases, db[d].setup # "none",
           \A e \in Databases \ {d} : db'[e].id # db'[d].id
    PROVE  Alone(d)
  <1> SUFFICES ASSUME NEW e \in Databases \ {d}, db[e].id = db[d].id PROVE FALSE
    BY DEF Alone
  <1>1. db[d].id \in Tokens
    BY DEF PInv, DbSafe, Named
  <1>2. db[e].setup # "none"
    BY <1>1, PairingAssumption DEF RowsRecorded, OfRow, NoInstance
  <1>3. db'[e].id = db[e].id /\ db'[d].id = db[d].id
    BY <1>2, RowStep
  <1> QED BY <1>3 DEF Alone

\* The marker of a claimed root changes, while no power is lost, only as a
\* start of that instance's database replaces it.
LEMMA ClaimedMoves ==
    ASSUME PInv, Next, faults' = {}, NEW r \in Roots, marker[r].id \in Tokens
    PROVE  \/ marker'[r] = marker[r]
           \/ \E p \in Procs : /\ ReplaceMarker(p) /\ proc[p].root = r
                               /\ marker'[r] = ClaimOf(proc[p].row)
                               /\ proc[p].db \in Databases /\ db[proc[p].db].setup = "ready"
                               /\ db[proc[p].db].id = marker[r].id
  <1>1. marker[r] # Unclaimed
    BY PairingAssumption DEF Unclaimed
  <1>2. ~LosePower(r)
    BY DEF LosePower
  <1>3. ASSUME NEW p \in Procs, ReplaceMarker(p), proc[p].root = r
        PROVE  /\ proc[p].db \in Databases /\ db[proc[p].db].setup = "ready"
               /\ db[proc[p].db].id = marker[r].id
    <2>1. proc[p].pc = "replace"
      BY <1>3 DEF ReplaceMarker
    <2>2. marker[r].id = proc[p].row.id
      BY <1>3, <2>1, Replaces DEF AtRoot
    <2> QED BY <2>1, <2>2 DEF PInv, ProcSafe, Placed, Knows, AtRoot
  <1> QED BY <1>1, <1>2, <1>3, MarkerMoves

LEMMA StartableStep ==
    ASSUME StartInv, Next, faults' = {}
    PROVE  Startable'
  <1> SUFFICES ASSUME NEW d \in Databases, db'[d].setup = "ready", Alone(d)'
               PROVE  LET row == db'[d]
                          m == marker'[row.root] IN
                      m.id = row.id /\ (m.at = row.at \/ OneAhead(row, m.at))
    BY DEF Startable
  <1>1. faults = {}
    BY FaultsGrow
  <1>2. /\ PInv /\ RowsRecorded /\ Serialized /\ Startable /\ \A p \in Procs : ClaimHeld(p)
        /\ db \in [Databases -> Row] /\ db[d] \in Row
    BY <1>1 DEF StartInv, Recorded, PInv, TypeOK
  <1>3. /\ db'[d].root \in Roots /\ marker'[db'[d].root].id = db'[d].id
    BY <1>2, TypeStep, DbStep DEF TypeOK, DbSafe, Named, Committed
  <1>4. CASE db'[d] = db[d]
    <2> DEFINE r == db[d].root
    <2>1. /\ Alone(d) /\ r \in Roots /\ marker[r].id = db[d].id /\ db[d].id \in Tokens
          /\ marker[r].at = db[d].at \/ OneAhead(db[d], marker[r].at)
      <3>1. Alone(d)
        BY <1>2, <1>4, AloneBefore DEF Alone
      <3> QED BY <1>2, <1>3, <1>4, <3>1 DEF Startable, PInv, DbSafe, Named
    <2>2. CASE marker'[r] = marker[r]
      BY <1>3, <1>4, <2>1, <2>2
    <2>3. ASSUME NEW p \in Procs, ReplaceMarker(p), marker'[r] = ClaimOf(proc[p].row),
                 proc[p].db \in Databases, db[proc[p].db].id = marker[r].id
          PROVE  marker'[r].at = db[d].at
      <3>1. proc[p].db = d
        BY <2>1, <2>3 DEF Alone
      <3>2. proc[p].row = db[d]
        BY <1>2, <2>3, <3>1 DEF ReplaceMarker, Serialized, Current, AtRoot
      <3> QED BY <2>3, <3>2 DEF ClaimOf
    <2> QED BY <1>2, <1>3, <1>4, <2>1, <2>2, <2>3, ClaimedMoves
  <1>5. ASSUME NEW p \in Procs, NEW t \in FreshTokens, Inserts(p, t) PROVE db'[d] = db[d]
    <2>1. CASE proc[p].db = d
      BY <1>2, <1>5, <2>1 DEF Inserts, FirstRow
    <2> QED BY <1>2, <1>5, <2>1 DEF Inserts
  <1>6. ASSUME NEW p \in Procs, MarkReady(p), proc[p].db = d
        PROVE  marker'[db'[d].root] = [id |-> db'[d].id, at |-> db'[d].at]
    <2>1. /\ proc[p].pc = "finishTx" /\ db[d] = proc[p].row /\ UNCHANGED marker
          /\ db'[d] = [db[d] EXCEPT !.setup = "ready"]
      BY <1>2, <1>6 DEF MarkReady
    <2>2. db[d].setup = "bootstrapping" /\ db[d].root = proc[p].root
      BY <1>2, <2>1 DEF PInv, ProcSafe, HoldsRow, Bootstrapping
    <2>3. Alone(d)
      BY <1>2, <2>2, AloneBefore DEF Alone
    <2>4. marker[proc[p].root] = ClaimOf(proc[p].row)
      BY <1>2, <1>6, <2>1, <2>3 DEF ClaimHeld
    <2>5. db'[d].id = db[d].id /\ db'[d].at = db[d].at /\ db'[d].root = db[d].root
      BY <1>2, <2>1 DEF Row
    <2> QED BY <2>1, <2>2, <2>4, <2>5 DEF ClaimOf
  <1>7. ASSUME NEW p \in Procs, NEW t \in FreshTokens, Bumps(p, t), proc[p].db = d
        PROVE  OneAhead(db'[d], marker'[db'[d].root].at)
    <2>1. /\ proc[p].pc = "bump" /\ db'[d] = Bumped(db[d], t) /\ UNCHANGED marker
          /\ db[d].setup = "ready" /\ db[d].at = proc[p].row.at
      BY <1>2, <1>7 DEF Bumps
    <2>2. marker[proc[p].root].at = db[d].at /\ db[d].root = proc[p].root
      BY <1>2, <1>7, <2>1 DEF Serialized, Current, PInv, ProcSafe, Knows, AtRoot
    <2>3. /\ db'[d].root = db[d].root /\ db'[d].at.gen = db[d].at.gen + 1
          /\ db'[d].prev = db[d].at.tok
      BY <1>2, <2>1 DEF Bumped, Row
    <2>4. db[d].at.tok # Nothing
      BY <1>2, <2>1, PairingAssumption DEF PInv, DbSafe, Named
    <2> QED BY <2>1, <2>2, <2>3, <2>4 DEF OneAhead
  <1>8. ASSUME NEW c \in Databases, NEW e \in Databases, CopyDatabase(c, e)
        PROVE  db'[d] = db[d]
    <2>1. CASE e = d
      <3>1. c # d /\ db'[c] = db[c] /\ db'[d] = db[c]
        BY <1>2, <1>8, <2>1 DEF CopyDatabase
      <3>2. db'[c].id # db'[d].id
        BY <3>1 DEF Alone
      <3> QED BY <3>1, <3>2
    <2> QED BY <1>2, <1>8, <2>1 DEF CopyDatabase
  <1>9. \/ db'[d] = db[d]
        \/ \E p \in Procs : MarkReady(p) /\ proc[p].db = d
        \/ \E p \in Procs, t \in FreshTokens : Bumps(p, t) /\ proc[p].db = d
    <2>1. ASSUME NEW p \in Procs, MarkReady(p), proc[p].db # d PROVE db'[d] = db[d]
      BY <1>2, <2>1 DEF MarkReady
    <2>2. ASSUME NEW p \in Procs, NEW t \in FreshTokens, Bumps(p, t), proc[p].db # d
          PROVE  db'[d] = db[d]
      BY <1>2, <2>2 DEF Bumps
    <2> QED BY <1>2, <1>5, <1>8, <2>1, <2>2, DbMoves
  <1> QED BY <1>3, <1>4, <1>6, <1>7, <1>9

\* Until a bootstrap commits, its row stays the bootstrap's, and its claim the
\* marker: no start of the instance can replace it yet.
LEMMA ClaimHeldStep ==
    ASSUME StartInv, Next, faults' = {}, NEW q \in Procs
    PROVE  ClaimHeld(q)'
  <1> DEFINE d == proc'[q].db
             r == proc'[q].root
             row == proc'[q].row
  <1> SUFFICES ASSUME proc'[q].pc = "finishTx", db'[d] = row,
                      \A e \in Databases \ {d} : db'[e].id # db'[d].id
               PROVE  marker'[r] = ClaimOf(row)
    BY DEF ClaimHeld, Alone, ClaimOf
  <1>1. faults = {}
    BY FaultsGrow
  <1>2. /\ PInv /\ RowsRecorded /\ ProcsRecorded /\ ClaimHeld(q) /\ HoldsRow(q)
        /\ db \in [Databases -> Row] /\ proc \in [Procs -> Proc] /\ proc[q] \in Proc
    BY <1>1 DEF StartInv, Recorded, PInv, TypeOK, ProcSafe
  <1>3. CASE ReadClaim(q)
    <2>1. proc'[q] = [proc[q] EXCEPT !.pc = "finishTx"] /\ UNCHANGED marker
      BY <1>2, <1>3 DEF ReadClaim, Goto
    <2>2. r = proc[q].root /\ row = proc[q].row
      BY <1>2, <2>1 DEF Proc
    <2> QED BY <1>3, <2>1, <2>2 DEF ReadClaim
  <1>4. CASE proc'[q] = proc[q]
    <2>1. /\ d = proc[q].db /\ r = proc[q].root /\ row = proc[q].row /\ proc[q].pc = "finishTx"
          /\ d \in Databases /\ r \in Roots /\ row.setup = "bootstrapping" /\ row.id \in Tokens
      BY <1>2, <1>4 DEF HoldsRow, Bootstrapping, PInv, ProcSafe, Placed
    <2>2. db[d].setup # "none"
      BY <1>2, <2>1 DEF ProcsRecorded, OfProc, RowsRecorded, OfRow, Bootstrapping
    <2>3. db[d].setup # "ready"
      BY <1>2, <2>1, <2>2, RowStep
    <2>4. db'[d] = db[d]
      <3>1. ASSUME NEW p \in Procs, NEW t \in FreshTokens, Inserts(p, t) PROVE db'[d] = db[d]
        BY <1>2, <2>1, <2>2, <3>1 DEF Inserts
      <3>2. ASSUME NEW p \in Procs, MarkReady(p) PROVE db'[d] = db[d]
        <4>1. proc[p].db # d
          <5>1. proc[p].db = d => db'[d].setup = "ready"
            BY <1>2, <2>1, <3>2 DEF MarkReady, Row
          <5> QED BY <2>1, <5>1
        <4> QED BY <1>2, <2>1, <3>2, <4>1 DEF MarkReady
      <3>3. ASSUME NEW p \in Procs, NEW t \in FreshTokens, Bumps(p, t) PROVE db'[d] = db[d]
        BY <1>2, <2>1, <2>3, <3>3 DEF Bumps
      <3>4. ASSUME NEW c \in Databases, NEW e \in Databases, CopyDatabase(c, e)
            PROVE  db'[d] = db[d]
        BY <1>2, <2>1, <2>2, <3>4 DEF CopyDatabase
      <3> QED BY <1>2, <3>1, <3>2, <3>3, <3>4, DbMoves
    <2>5. Alone(d)
      BY <1>2, <2>1, <2>2, AloneBefore
    <2>6. marker[r] = ClaimOf(row) /\ marker[r].id = row.id
      BY <1>2, <2>1, <2>4, <2>5 DEF ClaimHeld, ClaimOf
    <2>7. ASSUME NEW p \in Procs, proc[p].db \in Databases, db[proc[p].db].setup = "ready",
                 db[proc[p].db].id = marker[r].id
          PROVE  FALSE
      BY <2>1, <2>3, <2>4, <2>5, <2>6, <2>7 DEF Alone
    <2>8. marker'[r] = marker[r]
      BY <1>2, <2>1, <2>6, <2>7, ClaimedMoves
    <2> QED BY <2>6, <2>8
  <1>5. proc'[q] = proc[q] \/ ReadClaim(q)
    <2>1. ASSUME BootstrapStep(q) PROVE ReadClaim(q)
      BY <1>2, <2>1 DEF BootstrapStep, InsertInstance, ResumeInstance, ClaimRoot, SyncClaim,
                        MarkReady, Goto, Idle, Proc
    <2>2. ASSUME StartStep(q), ~BumpDatabase(q) PROVE FALSE
      <3>1. Idle.pc = "idle"
        BY Zenon DEF Idle
      <3>2. \/ proc'[q] = Idle
            \/ proc'[q] = [proc[q] EXCEPT !.pc = "check", !.row = db[proc[q].db]]
            \/ proc'[q] = [proc[q] EXCEPT !.pc = "write", !.from = marker[proc[q].root].at]
            \/ \E pc \in {"bump", "prove", "sync", "replace"} :
                  proc'[q] = [proc[q] EXCEPT !.pc = pc]
            \/ proc'[q] = [proc[q] EXCEPT !.pc = "serving", !.locked = FALSE]
        BY <1>2, <2>2, StartEdits, Zenon
      <3>3. proc'[q].pc \in {"idle", "check", "write", "bump", "prove", "sync", "replace", "serving"}
        BY <1>2, <3>1, <3>2 DEF Proc
      <3> QED BY <3>3
    <2>3. ASSUME BumpDatabase(q) PROVE FALSE
      <3>1. proc'[q].pc = "write"
        BY <1>2, <2>3 DEF BumpDatabase, Proc
      <3> QED BY <3>1
    <2>4. ASSUME NEW c \in Databases, NEW s \in Roots, NEW bump \in BOOLEAN,
                 TakeStartKey(q, c, s, bump)
          PROVE  FALSE
      <3>1. proc'[q].pc = "read"
        BY <1>2, <2>4 DEF TakeStartKey, Idle
      <3> QED BY <3>1
    <2>5. ~LoseSession(q)
      BY DEF LoseSession
    <2> QED BY <1>2, <2>1, <2>2, <2>3, <2>4, <2>5, ProcMoves
  <1> QED BY <1>3, <1>4, <1>5

-----------------------------------------------------------------------------
(* The theorems about the starts *)

LEMMA StartInvInit == Init => StartInv
  <1> SUFFICES ASSUME Init PROVE StartInv
    OBVIOUS
  <1>1. RowsRecorded
    BY DEF Init, RowsRecorded, OfRow, PrevKept, NoInstance
  <1>2. MarkersRecorded
    BY DEF Init, MarkersRecorded, OfMarkers, Unclaimed, NotStarted
  <1>3. ProcsRecorded
    BY Zenon DEF Init, ProcsRecorded, OfProc, Idle, Bootstrapping, AtRoot
  <1>4. KeyKept
    BY DEF Init, KeyKept, Starting, Idle
  <1>5. \A p \in Procs : Current(p)
    BY Zenon DEF Init, Current, Idle, AtRoot
  <1>6. \A r \in Roots : Lineage(r)
    BY DEF Init, Lineage, Follows
  <1>7. Startable
    BY DEF Init, Startable, NoInstance
  <1>8. \A p \in Procs : ClaimHeld(p)
    BY DEF Init, ClaimHeld, Idle
  <1> QED BY <1>1, <1>2, <1>3, <1>4, <1>5, <1>6, <1>7, <1>8, InitInv
          DEF StartInv, Recorded, Serialized

LEMMA StartInvNext == StartInv /\ [Next]_vars => StartInv'
  <1>1. ASSUME StartInv, Next PROVE StartInv'
    <2>1. PInv /\ Recorded /\ RowsRecorded
      BY <1>1 DEF StartInv, Recorded
    <2>2. PInv'
      BY <1>1, <2>1, TypeStep, DbStep, ProcStep DEF PInv
    <2>3. Recorded'
      BY <1>1, <2>1, RowsStep, MarkersStep, ProcsStep DEF Recorded
    <2>4. "session" \notin faults' => Serialized'
      <3> SUFFICES ASSUME "session" \notin faults' PROVE Serialized'
        OBVIOUS
      <3>1. Serialized
        BY <1>1, FaultsGrow DEF StartInv
      <3>2. KeyKept'
        BY <1>1, <2>1, <3>1, KeyStep DEF Serialized
      <3>3. \A p \in Procs : Current(p)'
        BY <1>1, <2>1, <3>1, CurrentStep
      <3>4. \A r \in Roots : Lineage(r)'
        BY <1>1, <2>1, <3>1, LineageStep
      <3> QED BY <3>2, <3>3, <3>4 DEF Serialized
    <2>5. faults' = {} => Startable' /\ \A p \in Procs : ClaimHeld(p)'
      BY <1>1, StartableStep, ClaimHeldStep
    <2> QED BY <2>2, <2>3, <2>4, <2>5 DEF StartInv
  <1>2. ASSUME StartInv, UNCHANGED vars PROVE StartInv'
    <2> USE <1>2 DEF vars
    <2>1. PInv'
      BY DEF StartInv, PInv, TypeOK, DbSafe, Named, Committed, ProcSafe, Placed, HoldsRow,
             Claimed, Knows
    <2>2. Recorded'
      BY DEF StartInv, Recorded, RowsRecorded, OfRow, PrevKept, Follows, MarkersRecorded,
             OfMarkers, ProcsRecorded, OfProc
    <2>3. "session" \notin faults' => Serialized'
      BY DEF StartInv, Serialized, KeyKept, Starting, Current, Lineage, Follows
    <2>4. faults' = {} => Startable' /\ \A p \in Procs : ClaimHeld(p)'
      BY DEF StartInv, Startable, Alone, ClaimHeld
    <2> QED BY <2>1, <2>2, <2>3, <2>4 DEF StartInv
  <1> QED BY <1>1, <1>2

\* Every step is recorded; while no start loses its session the starts are
\* serialized and pass their lineage on, and while nothing is lost the
\* database keeps up with its root.
THEOREM StartInvariance == Spec => []StartInv
  BY StartInvInit, StartInvNext, PTL DEF Spec

\* The starts that ever served on a root are starts of one database, for any
\* number of processes, copies, roots and starts, and whatever markers a loss
\* of power leaves: whoever has had the start in a marker has had all of them.
THEOREM OneLineageServed == Spec => []OneLineage
  <1>1. StartInv => OneLineage
    BY DEF StartInv, Serialized, Lineage, OneLineage
  <1> QED BY <1>1, StartInvariance, PTL

\* While neither the power nor a session is lost, the only database of its
\* instance is where its root is or one interrupted bump ahead, whichever
\* steps its bootstraps and its starts failed or died between.
THEOREM NeverRefused == Spec => []StartableUnlessLost
  <1>1. StartInv => StartableUnlessLost
    BY DEF StartInv, StartableUnlessLost
  <1> QED BY <1>1, StartInvariance, PTL

\* No step but those that a fault explains overwrites a claim or moves a start
\* generation other than up by one.
THEOREM Forward == Spec => MarkerForward
  <1>1. StartInv /\ Next =>
           \A r \in Roots :
              \/ marker'[r] = marker[r]
              \/ faults' # {}
              \/ /\ marker[r].id \in {Nothing, marker'[r].id}
                 /\ marker'[r].at.gen = marker[r].at.gen + 1
    <2> SUFFICES ASSUME StartInv, Next, NEW r \in Roots, faults' = {},
                        marker'[r] # marker[r]
                 PROVE  /\ marker[r].id \in {Nothing, marker'[r].id}
                        /\ marker'[r].at.gen = marker[r].at.gen + 1
      OBVIOUS
    <2>1. PInv /\ ProcsRecorded /\ Serialized
      BY FaultsGrow DEF StartInv, Recorded
    <2>2. PICK p \in Procs : /\ ClaimRoot(p) \/ ReplaceMarker(p)
                             /\ ClaimRoot(p) => marker[r] = Unclaimed
                             /\ proc[p].root = r
                             /\ marker'[r] = ClaimOf(proc[p].row)
      BY <2>1, MarkerMoves DEF LosePower
    <2>3. marker'[r].id = proc[p].row.id /\ marker'[r].at = proc[p].row.at
      BY <2>2 DEF ClaimOf
    <2>4. CASE ClaimRoot(p)
      <3>1. proc[p].row.at.gen = 1
        BY <2>1, <2>4 DEF ClaimRoot, ProcsRecorded, OfProc, Bootstrapping
      <3> QED BY <2>2, <2>3, <2>4, <3>1 DEF Unclaimed, NotStarted
    <2>5. CASE ReplaceMarker(p)
      <3>1. proc[p].pc = "replace"
        BY <2>5 DEF ReplaceMarker
      <3>2. marker[r].id = proc[p].row.id
        BY <2>1, <2>2, <3>1, Replaces DEF AtRoot
      <3>3. marker[r].at = proc[p].from /\ proc[p].row.at.gen = proc[p].from.gen + 1
        BY <2>1, <2>2, <3>1 DEF Serialized, Current
      <3> QED BY <2>3, <3>2, <3>3
    <2> QED BY <2>2, <2>4, <2>5
  <1>2. StartInv /\ [Next]_vars =>
           [\A r \in Roots :
              \/ marker'[r] = marker[r]
              \/ faults' # {}
              \/ /\ marker[r].id \in {Nothing, marker'[r].id}
                 /\ marker'[r].at.gen = marker[r].at.gen + 1]_vars
    BY <1>1 DEF vars
  <1> QED BY <1>2, StartInvariance, PTL DEF Spec, MarkerForward

=============================================================================

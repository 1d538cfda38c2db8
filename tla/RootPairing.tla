----------------------------- MODULE RootPairing -----------------------------
(* The pairing of PRKS databases with data roots: the three steps of the     *)
(* bootstrap that claims a root, and the check, reconcile and bump of every  *)
(* process start (backend/domain/identity/root_pairing.py), against the      *)
(* marker file prks-root.json (backend/storage/root_marker.py). Processes    *)
(* die anywhere, a directory sync may fail, a host may lose power with a     *)
(* marker that is visible but not on its disk, a database session may be     *)
(* lost with its lock, and databases may be copied.                          *)
EXTENDS Naturals

CONSTANTS
    Procs,      \* processes of any role: web, worker, migrate, admin
    Databases,  \* PostgreSQL databases, with the copies anyone makes of them
    Roots,      \* data roots, each with its own storage_root_id
    Tokens,     \* random start tokens; an instance is named by its first one
    Nothing,    \* a column or a marker field that is absent
    Faults      \* the faults of FaultKinds that may happen

FaultKinds == {"power", "session"}

\* A sentinel is no value, and only known faults are chosen.
ASSUME PairingAssumption ==
    /\ Nothing \notin Databases \cup Roots \cup Tokens
    /\ Faults \subseteq FaultKinds

VARIABLES
    db,      \* per database, its instance row
    marker,  \* per root, the marker a process reads
    disk,    \* per root, the markers a power loss may leave behind
    holds,   \* the roots that hold stored objects
    proc,    \* per process, where it is and what it has read
    past,    \* history: per database, every start token it has had
    served,  \* history: per root, the tokens of the starts that went on to serve
    faults   \* history: the faults that have happened

vars == <<db, marker, disk, holds, proc, past, served, faults>>

-----------------------------------------------------------------------------
(* The data.                                                                  *)

StartState == [gen : Nat, tok : Tokens \cup {Nothing}]
NotStarted == [gen |-> 0, tok |-> Nothing]

Marker == [id : Tokens \cup {Nothing}, at : StartState]
Unclaimed == [id |-> Nothing, at |-> NotStarted]

Row == [setup : {"none", "bootstrapping", "ready"}, id : Tokens \cup {Nothing},
        root : Roots \cup {Nothing}, at : StartState, prev : Tokens \cup {Nothing}]
NoInstance == [setup |-> "none", id |-> Nothing, root |-> Nothing, at |-> NotStarted,
               prev |-> Nothing]

\* The row that step 1 of a bootstrap inserts; its id is drawn with its token.
FirstRow(r, t) == [setup |-> "bootstrapping", id |-> t, root |-> r,
                   at |-> [gen |-> 1, tok |-> t], prev |-> Nothing]

\* new: root_is_new of begin_bootstrap; row: the instance row the process goes
\* by; from: the marker state its next marker write expects; owes: its bump is
\* still to come; locked: its session holds the start key.
Proc == [pc : {"idle", "begin", "claim", "claimSync", "finish", "finishTx", "read", "check",
               "bump", "write", "replace", "sync", "prove", "serving"},
         db : Databases \cup {Nothing}, root : Roots \cup {Nothing}, new : BOOLEAN,
         row : Row, from : StartState, owes : BOOLEAN, locked : BOOLEAN]
Idle == [pc |-> "idle", db |-> Nothing, root |-> Nothing, new |-> FALSE, row |-> NoInstance,
         from |-> NotStarted, owes |-> FALSE, locked |-> FALSE]

FreshTokens == Tokens \ UNION {past[d] : d \in Databases}

Init ==
    /\ db = [d \in Databases |-> NoInstance]
    /\ marker = [r \in Roots |-> Unclaimed]
    /\ disk = [r \in Roots |-> {Unclaimed}]
    /\ holds = {}
    /\ proc = [p \in Procs |-> Idle]
    /\ past = [d \in Databases |-> {}]
    /\ served = [r \in Roots |-> {}]
    /\ faults = {}

\* A claimed marker at the state that step 2 of this bootstrap writes.
ClaimOf(row) == [id |-> row.id, at |-> row.at]

\* Broken: the renamed file never reaches the disk.
RenameLost(r, m) == marker' = [marker EXCEPT ![r] = m] /\ UNCHANGED disk

\* A rename is visible at once; which marker a disk has is open until a sync.
Rename(r, m) ==
    /\ marker' = [marker EXCEPT ![r] = m]
    /\ disk' = [disk EXCEPT ![r] = @ \cup {m}]

SyncDirectory(r) == disk' = [disk EXCEPT ![r] = {marker[r]}]

\* Process p goes on at pc.
Goto(p, pc) == proc' = [proc EXCEPT ![p].pc = pc]

-----------------------------------------------------------------------------
(* Bootstrap.                                                                 *)

\* bootstrap() begins: the file checks of step 1, once and before its
\* transaction.
ReadRoot(p, d, r) ==
    /\ proc[p].pc = "idle"
    /\ proc' = [proc EXCEPT ![p] = [Idle EXCEPT !.pc = "begin", !.db = d, !.root = r,
                                        !.new = marker[r] = Unclaimed /\ r \notin holds]]
    /\ UNCHANGED <<db, marker, disk, holds, past, served, faults>>

\* Step 1 of a database without a row, on a root that was new when it was read.
InsertInstance(p) ==
    LET d == proc[p].db IN
    /\ proc[p].pc = "begin"
    /\ db[d].setup = "none"
    /\ proc[p].new
    /\ \E t \in FreshTokens :
        LET row == FirstRow(proc[p].root, t) IN
        /\ db' = [db EXCEPT ![d] = row]
        /\ past' = [past EXCEPT ![d] = @ \cup {t}]
        /\ proc' = [proc EXCEPT ![p].pc = "claim", ![p].row = row]
    /\ UNCHANGED <<marker, disk, holds, served, faults>>

\* Step 1 finds the row of an earlier bootstrap and resumes it, against the
\* root it started with only.
ResumeInstance(p) ==
    LET row == db[proc[p].db] IN
    /\ proc[p].pc = "begin"
    /\ row.setup = "bootstrapping"
    /\ row.root = proc[p].root
    /\ proc' = [proc EXCEPT ![p].pc = "claim", ![p].row = row]
    /\ UNCHANGED <<db, marker, disk, holds, past, served, faults>>

\* root.claim is held from the re-read of the marker until the claim is synced.
ClaimLockFree(r) == \A q \in Procs : proc[q].root = r => proc[q].pc # "claimSync"

\* What step 2 accepts: a new root, or its own claim of an earlier try.
Claimable(p) ==
    LET r == proc[p].root IN
    /\ marker[r] \in {Unclaimed, ClaimOf(proc[p].row)}
    /\ r \notin holds

\* Broken: step 2 trusts what step 1 read of the root.
ClaimRootAsRead(p) ==
    /\ proc[p].pc = "claim"
    /\ ClaimLockFree(proc[p].root)
    /\ IF proc[p].new THEN Rename(proc[p].root, ClaimOf(proc[p].row))
                      ELSE Claimable(p) /\ UNCHANGED <<marker, disk>>
    /\ Goto(p, "claimSync")
    /\ UNCHANGED <<db, holds, past, served, faults>>

\* Step 2 re-reads the marker under root.claim and writes the claim; a retry
\* that finds its own claim writes the same bytes, that is nothing.
ClaimRoot(p) ==
    LET r == proc[p].root IN
    /\ proc[p].pc = "claim"
    /\ ClaimLockFree(r)
    /\ Claimable(p)
    /\ IF marker[r] = Unclaimed THEN Rename(r, ClaimOf(proc[p].row))
                                ELSE UNCHANGED <<marker, disk>>
    /\ Goto(p, "claimSync")
    /\ UNCHANGED <<db, holds, past, served, faults>>

\* A claim that may not survive a crash is not a claim.
SyncClaim(p) ==
    /\ proc[p].pc = "claimSync"
    /\ SyncDirectory(proc[p].root)
    /\ Goto(p, "finish")
    /\ UNCHANGED <<db, marker, holds, past, served, faults>>

\* Step 3 first requires the claim exactly as step 2 left it.
ReadClaim(p) ==
    /\ proc[p].pc = "finish"
    /\ marker[proc[p].root] = ClaimOf(proc[p].row)
    /\ Goto(p, "finishTx")
    /\ UNCHANGED <<db, marker, disk, holds, past, served, faults>>

\* Then its transaction marks the row ready, if it is still the row claimed.
MarkReady(p) ==
    LET d == proc[p].db IN
    /\ proc[p].pc = "finishTx"
    /\ db[d] = proc[p].row
    /\ db' = [db EXCEPT ![d].setup = "ready"]
    /\ proc' = [proc EXCEPT ![p] = Idle]
    /\ UNCHANGED <<marker, disk, holds, past, served, faults>>

-----------------------------------------------------------------------------
(* The start of a process: check, reconcile, bump.                            *)

Starting(p) == proc[p].pc \in {"read", "check", "bump", "write", "replace", "sync", "prove"}

\* Broken: starts of one database are not serialized.
StartKeyFreeAlways(d) == d \in Databases

StartKeyFree(d) == \A q \in Procs : proc[q].db = d => ~proc[q].locked

\* The limitation the deployment accepts (risk R20): two databases are not
\* started against one root at the same moment. One may start while processes
\* of the other serve.
OneCopyStarts(d, r) == \A q \in Procs : Starting(q) /\ proc[q].root = r => proc[q].db = d

\* start_process on its own session, which takes the start key of its database.
TakeStartKey(p, d, r, bump) ==
    /\ proc[p].pc = "idle"
    /\ StartKeyFree(d)
    /\ OneCopyStarts(d, r)
    /\ proc' = [proc EXCEPT ![p] = [Idle EXCEPT !.pc = "read", !.db = d, !.root = r,
                                        !.owes = bump, !.locked = TRUE]]
    /\ UNCHANGED <<db, marker, disk, holds, past, served, faults>>

\* A statement of the dedicated connection needs the session it opened.
Connected(p) == proc[p].locked

ReadInstance(p) ==
    LET row == db[proc[p].db] IN
    /\ proc[p].pc = "read"
    /\ Connected(p)
    /\ row.setup = "ready"
    /\ proc' = [proc EXCEPT ![p].pc = "check", ![p].row = row]
    /\ UNCHANGED <<db, marker, disk, holds, past, served, faults>>

\* _check_pairing: the root is this database's and was claimed by its instance.
Paired(row, r) == row.root = r /\ marker[r].id = row.id

\* Broken: the generation alone is compared.
CheckPassesByNumber(p) ==
    LET row == proc[p].row
        r == proc[p].root IN
    /\ proc[p].pc = "check"
    /\ Paired(row, r)
    /\ row.at.gen = marker[r].at.gen
    /\ Goto(p, IF proc[p].owes THEN "bump" ELSE "prove")
    /\ UNCHANGED <<db, marker, disk, holds, past, served, faults>>

\* The start check passes: equal generations with equal tokens.
CheckPasses(p) ==
    LET row == proc[p].row
        r == proc[p].root IN
    /\ proc[p].pc = "check"
    /\ Paired(row, r)
    /\ row.at = marker[r].at
    /\ Goto(p, IF proc[p].owes THEN "bump" ELSE "prove")
    /\ UNCHANGED <<db, marker, disk, holds, past, served, faults>>

\* One bump of the database's own whose marker write never happened.
OneAhead(row, at) == row.at.gen = at.gen + 1 /\ row.prev = at.tok /\ row.prev # Nothing

\* The database is one interrupted bump of its own ahead: write that first.
CheckReconciles(p) ==
    LET row == proc[p].row
        r == proc[p].root IN
    /\ proc[p].pc = "check"
    /\ Paired(row, r)
    /\ OneAhead(row, marker[r].at)
    /\ proc' = [proc EXCEPT ![p].pc = "write", ![p].from = marker[r].at]
    /\ UNCHANGED <<db, marker, disk, holds, past, served, faults>>

\* Broken: the token that the bump replaces is not kept.
BumpedWithoutPrev(row, t) == [row EXCEPT !.at = [gen |-> @.gen + 1, tok |-> t]]

\* The row after one more start, with a token of its own.
Bumped(row, t) == [row EXCEPT !.at = [gen |-> @.gen + 1, tok |-> t], !.prev = row.at.tok]

\* The database goes first, compared and set, and committed.
BumpDatabase(p) ==
    LET d == proc[p].db
        row == proc[p].row IN
    /\ proc[p].pc = "bump"
    /\ Connected(p)
    /\ db[d].id = row.id /\ db[d].at = row.at
    /\ \E t \in FreshTokens :
        /\ db' = [db EXCEPT ![d] = Bumped(@, t)]
        /\ past' = [past EXCEPT ![d] = @ \cup {t}]
        /\ proc' = [proc EXCEPT ![p].pc = "write", ![p].row = Bumped(db[d], t),
                                ![p].from = row.at, ![p].owes = FALSE]
    /\ UNCHANGED <<marker, disk, holds, served, faults>>

\* bump_start_generation re-reads the marker and compares it; one that is
\* already there is only synced.
CompareMarker(p) ==
    LET m == marker[proc[p].root]
        row == proc[p].row IN
    /\ proc[p].pc = "write"
    /\ m.id = row.id
    /\ \/ m.at = row.at /\ Goto(p, "sync")
       \/ m.at = proc[p].from /\ Goto(p, "replace")
    /\ UNCHANGED <<db, marker, disk, holds, past, served, faults>>

\* ... and then replaces it.
ReplaceMarker(p) ==
    /\ proc[p].pc = "replace"
    /\ Rename(proc[p].root, ClaimOf(proc[p].row))
    /\ Goto(p, "sync")
    /\ UNCHANGED <<db, holds, past, served, faults>>

\* A start that reaches its end lets go of the start key and serves.
Serve(p) ==
    /\ proc' = [proc EXCEPT ![p] = [@ EXCEPT !.pc = "serving", !.locked = FALSE]]
    /\ served' = [served EXCEPT ![proc[p].root] = @ \cup {proc[p].row.at.tok}]

\* The write is synced and read back; after a reconcile the bump is still owed.
SyncMarker(p) ==
    LET r == proc[p].root IN
    /\ proc[p].pc = "sync"
    /\ SyncDirectory(r)
    /\ IF marker[r] # ClaimOf(proc[p].row)
       THEN proc' = [proc EXCEPT ![p] = Idle] /\ UNCHANGED served
       ELSE IF proc[p].owes THEN Goto(p, "bump") /\ UNCHANGED served ELSE Serve(p)
    /\ UNCHANGED <<db, marker, holds, past, faults>>

\* A check that wrote nothing proves the marker it found durable.
ProveDurable(p) ==
    /\ proc[p].pc = "prove"
    /\ SyncDirectory(proc[p].root)
    /\ Serve(p)
    /\ UNCHANGED <<db, marker, holds, past, faults>>

-----------------------------------------------------------------------------
(* The rest of the world.                                                     *)

\* A process that serves stores an object.
StoreObject(p) ==
    /\ proc[p].pc = "serving"
    /\ holds' = holds \cup {proc[p].root}
    /\ UNCHANGED <<db, marker, disk, proc, past, served, faults>>

\* A process is refused, waits for setup, fails to write or sync the marker,
\* stops, or is killed; its session and its locks go with it.
Quit(p) ==
    /\ proc[p].pc # "idle"
    /\ proc' = [proc EXCEPT ![p] = Idle]
    /\ UNCHANGED <<db, marker, disk, holds, past, served, faults>>

\* The connection of a start is lost, and with it the start key; the process
\* does not notice before its next statement.
LoseSession(p) ==
    /\ "session" \in Faults
    /\ proc[p].locked
    /\ proc' = [proc EXCEPT ![p].locked = FALSE]
    /\ faults' = faults \cup {"session"}
    /\ UNCHANGED <<db, marker, disk, holds, past, served>>

\* The host of root r loses power: its processes end, and the disk has one of
\* the markers renamed there since the last sync, or the one of that sync.
LosePower(r) ==
    /\ "power" \in Faults
    /\ \E m \in disk[r] :
        /\ marker' = [marker EXCEPT ![r] = m]
        /\ disk' = [disk EXCEPT ![r] = {m}]
    /\ proc' = [p \in Procs |-> IF proc[p].root = r THEN Idle ELSE proc[p]]
    /\ faults' = faults \cup {"power"}
    /\ UNCHANGED <<db, holds, past, served>>

\* Database d is copied to e, which was empty.
CopyDatabase(d, e) ==
    /\ db[d].setup # "none" /\ db[e].setup = "none"
    /\ db' = [db EXCEPT ![e] = db[d]]
    /\ past' = [past EXCEPT ![e] = past[d]]
    /\ UNCHANGED <<marker, disk, holds, proc, served, faults>>

BootstrapStep(p) ==
    \/ InsertInstance(p) \/ ResumeInstance(p) \/ ClaimRoot(p) \/ SyncClaim(p)
    \/ ReadClaim(p) \/ MarkReady(p)

StartStep(p) ==
    \/ ReadInstance(p) \/ CheckPasses(p) \/ CheckReconciles(p) \/ BumpDatabase(p)
    \/ CompareMarker(p) \/ ReplaceMarker(p) \/ SyncMarker(p) \/ ProveDurable(p)

Next ==
    \/ \E p \in Procs :
        \/ BootstrapStep(p) \/ StartStep(p) \/ StoreObject(p) \/ Quit(p) \/ LoseSession(p)
        \/ \E d \in Databases, r \in Roots :
            \/ ReadRoot(p, d, r)
            \/ \E bump \in BOOLEAN : TakeStartKey(p, d, r, bump)
    \/ \E r \in Roots : LosePower(r)
    \/ \E d, e \in Databases : CopyDatabase(d, e)

Spec == Init /\ [][Next]_vars

-----------------------------------------------------------------------------
(* Properties.                                                                *)

\* Every variable keeps its type, and the marker a process reads is one its
\* disk may have.
TypeOK ==
    /\ db \in [Databases -> Row]
    /\ marker \in [Roots -> Marker]
    /\ disk \in [Roots -> SUBSET Marker]
    /\ \A r \in Roots : marker[r] \in disk[r]
    /\ holds \subseteq Roots
    /\ proc \in [Procs -> Proc]
    /\ past \in [Databases -> SUBSET Tokens]
    /\ served \in [Roots -> SUBSET Tokens]
    /\ faults \subseteq Faults

\* Two instances never serve one data root: processes that serve the same root
\* run on databases of one instance (root_pairing.bootstrap's claim under
\* root.claim, made durable before setup is ready; _check_pairing).
OneInstance ==
    \A p, q \in Procs :
        proc[p].pc = "serving" /\ proc[q].pc = "serving" /\ proc[p].root = proc[q].root
            => db[proc[p].db].id = db[proc[q].db].id

\* The starts that ever served on a root are the starts of one database: a copy
\* that missed one of them was refused (_needs_reconcile: behind, forked, or
\* ahead by what is not its own), whatever was lost with the power.
OneLineage ==
    "session" \notin faults =>
        \A r \in Roots : served[r] # {} => \E d \in Databases : served[r] \subseteq past[d]

\* The database never copied is the one its root last ran with.
Alone(d) == \A e \in Databases \ {d} : db[e].id # db[d].id

\* A start of the only database of its instance is never refused for its
\* generation: its root is where it is, or one interrupted bump behind.
Startable ==
    \A d \in Databases :
        db[d].setup = "ready" /\ Alone(d) =>
            LET row == db[d]
                m == marker[row.root] IN
            m.id = row.id /\ (m.at = row.at \/ OneAhead(row, m.at))

\* As long as no power is lost and no start loses its session, whatever else
\* fails halfway, and however often (the database first, then the marker, with
\* prev_start_token to tell).
StartableUnlessLost == faults = {} => Startable

\* What no loss of power explains never goes back: a claim is not overwritten
\* and a start generation is not lowered (claim_root, bump_start_generation).
MarkerForward ==
    [][\A r \in Roots :
          \/ marker'[r] = marker[r]
          \/ faults' # {}
          \/ /\ marker[r].id \in {Nothing, marker'[r].id}
             /\ marker'[r].at.gen = marker[r].at.gen + 1]_vars

=============================================================================

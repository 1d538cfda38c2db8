-------------------------- MODULE BrowserScopeProofs --------------------------
(***************************************************************************)
(* Proofs, for every number of accounts, tabs, reads, stamps and faults,   *)
(* that a recorded sign-out is final and that a page's epochs are its own  *)
(* Library's.  The first rests on stamps: an answer of a session that has  *)
(* ended began before the sign-out took its stamp, and the record's stamp  *)
(* never falls.                                                            *)
(***************************************************************************)
EXTENDS BrowserScope, TLAPS

-----------------------------------------------------------------------------
(* Types *)

\* A read of a session that signed out: a refusal.
Refused(r) == [Blank(r) EXCEPT !.st = "decided"]

\* The constants of the data are of their types.
LEMMA DataTypes == /\ Closed \in Page /\ Loading \in Page /\ Idle \in Read
                   /\ Staying \in Leaving
                   /\ \A n \in Nat : NoScope(n) \in Pointer
  <1>1. Closed \in Page
    BY DEF Closed, Page, Anyone
  <1>2. Loading \in Page
    BY DEF Loading, Closed, Page, Anyone
  <1>3. Idle \in Read
    BY BoundsAssumption, ReadsAssumption DEF Idle, Read, Kinds, Anyone
  <1>4. Staying \in Leaving
    BY DEF Staying, Leaving
  <1>5. \A n \in Nat : NoScope(n) \in Pointer
    BY DEF NoScope, Pointer, Anyone
  <1> QED BY <1>1, <1>2, <1>3, <1>4, <1>5

\* A stamp is a time that is told apart, and never before the last one.
LEMMA StampType ==
    ASSUME clock \in 0..MaxClock
    PROVE  Stamp \in 0..MaxClock /\ clock <= Stamp
  BY BoundsAssumption DEF Stamp

\* What a read becomes when it is sent, given up or decided.
LEMMA ReadEdit ==
    ASSUME clock \in 0..MaxClock, NEW q \in Read
    PROVE  /\ \A n \in 0..MaxReads, t \in Tabs : Sent(t, n) \in Read
           /\ [q EXCEPT !.late = TRUE] \in Read
           /\ [q EXCEPT !.st = "asking"] \in Read
           /\ [q EXCEPT !.st = "answered", !.kind = "unreachable"] \in Read
           /\ \A k \in Kinds, u \in Anyone, e \in Nat, i \in Nat :
                 [q EXCEPT !.st = "answered", !.kind = k, !.user = u, !.epoch = e,
                           !.id = i] \in Read
           /\ \A u \in Anyone, e \in Nat :
                 [q EXCEPT !.st = "decided", !.user = u, !.epoch = e] \in Read
  <1>1. Stamp \in Nat
    BY StampType, BoundsAssumption
  <1>2. \A n \in 0..MaxReads, t \in Tabs : Sent(t, n) \in Read
    BY <1>1, BoundsAssumption DEF Sent, Idle, Read, Kinds, Anyone
  <1>3. /\ [q EXCEPT !.late = TRUE] \in Read
        /\ [q EXCEPT !.st = "asking"] \in Read
        /\ [q EXCEPT !.st = "answered", !.kind = "unreachable"] \in Read
    BY DEF Read, Kinds
  <1>4. \A k \in Kinds, u \in Anyone, e \in Nat, i \in Nat :
           [q EXCEPT !.st = "answered", !.kind = k, !.user = u, !.epoch = e, !.id = i] \in Read
    BY DEF Read
  <1>5. \A u \in Anyone, e \in Nat :
           [q EXCEPT !.st = "decided", !.user = u, !.epoch = e] \in Read
    BY DEF Read
  <1> QED BY <1>2, <1>3, <1>4, <1>5, Zenon

\* What a read becomes when it is given up or decided.
LEMMA BlankType ==
    ASSUME read \in [Reads -> Read], NEW r \in Reads
    PROVE  /\ Refused(r) \in Read /\ Acting(r) \in Read /\ Unheard(r) \in Read
           /\ [Blank(r) EXCEPT !.st = "decided", !.kind = "superseded"] \in Read
  <1>1. Blank(r) \in Read
    BY DataTypes DEF Blank, Read
  <1>2. read[r].kind \in Kinds /\ read[r].user \in Anyone /\ read[r].epoch \in Nat
    BY DEF Read
  <1>3. Acting(r) \in Read
    BY <1>1, <1>2 DEF Acting, Read
  <1> QED BY <1>1, <1>3 DEF Refused, Unheard, Read, Kinds

\* A page begins r.
Begun(r) == \E t \in Tabs : Verify(t, r) \/ NoteEpoch(t, r)

\* What a page becomes.
LEMMA PageEdit ==
    ASSUME NEW p \in Page
    PROVE  /\ \A u \in Anyone, e \in Nat :
                 [p EXCEPT !.st = "resolved", !.bound = u, !.opened = e, !.latest = e] \in Page
           /\ [p EXCEPT !.st = "retired"] \in Page
           /\ \A e \in Nat : [p EXCEPT !.latest = e] \in Page
           /\ \A u \in Anyone : [p EXCEPT !.told = u] \in Page
           /\ \A st \in {"closed", "resolving", "resolved", "retired"} :
                 [p EXCEPT !.told = NoUser, !.st = st] \in Page
  BY Zenon DEF Page, Anyone

\* What Decided makes of the reads.
LEMMA DecidedType ==
    ASSUME clock \in 0..MaxClock, read \in [Reads -> Read], NEW r \in Reads, NEW d \in Read
    PROVE  Decided(r, d) \in [Reads -> Read]
  <1>1. \A q \in Reads : [read[q] EXCEPT !.late = TRUE] \in Read
    BY ReadEdit, Zenon
  <1> QED BY <1>1 DEF Decided

\* What a read that has to begin again becomes, and the clock.
LEMMA AgainType ==
    ASSUME clock \in 0..MaxClock, read \in [Reads -> Read], NEW r \in Reads
    PROVE  Again(r) \in Read /\ ClockAgain(r) \in 0..MaxClock
  <1>1. read[r] \in Read /\ read[r].tries \in 0..MaxReads /\ read[r].tab \in Tabs
    BY DEF Read
  <1>2. read[r].tries < MaxReads => read[r].tries + 1 \in 0..MaxReads
    BY <1>1, BoundsAssumption
  <1>3. Again(r) \in Read
    BY <1>1, <1>2, ReadEdit, BlankType, Zenon DEF Again
  <1> QED BY <1>3, StampType DEF ClockAgain

LEMMA InitType == Init => TypeOK
  BY DataTypes, UsersAssumption, BoundsAssumption DEF Init, TypeOK, Anyone, Logout

\* What the server and the user do keeps the types.
LEMMA ServerKeepsType ==
    ASSUME TypeOK, (\E u \in Users : SignIn(u) \/ Restore(u)) \/ Expire
    PROVE  TypeOK'
  <1>1. ASSUME NEW u \in Users, SignIn(u) PROVE TypeOK'
    BY <1>1 DEF SignIn, TypeOK, Anyone
  <1>2. ASSUME NEW u \in Users, Restore(u) PROVE TypeOK'
    BY <1>2 DEF Restore, Fault, TypeOK
  <1>3. CASE Expire
    BY <1>3 DEF Expire, Fault, TypeOK, Anyone
  <1> QED BY <1>1, <1>2, <1>3

\* The steps of a read until its answer is decided keep the types.
LEMMA ReadKeepsType ==
    ASSUME TypeOK, NEW r \in Reads,
           \/ Begun(r) \/ Answer(r) \/ FetchFails(r) \/ Deadline(r)
           \/ ArriveLate(r) \/ RecordNothing(r) \/ RecordFails(r)
    PROVE  TypeOK'
  <1>1. /\ read[r] \in Read /\ read \in [Reads -> Read] /\ clock \in 0..MaxClock
        /\ Stamp \in 0..MaxClock /\ clock \in Nat /\ 1 \in 0..MaxReads
    BY StampType, BoundsAssumption DEF TypeOK
  <1>2. CASE Begun(r)
    <2>1. \A t \in Tabs : Sent(t, 1) \in Read
      BY <1>1, ReadEdit, Zenon
    <2> QED BY <1>1, <1>2, <2>1 DEF Begun, Verify, NoteEpoch, serverVars, TypeOK
  <1>3. CASE Answer(r)
    <2>1. /\ session \in Anyone /\ signIns \in Nat /\ 0 \in Nat
          /\ session # NoUser => epoch[session] \in Nat
      BY DEF TypeOK, Anyone
    <2>2. read'[r] \in Read
      BY <1>1, <1>3, <2>1, ReadEdit, Zenon DEF Answer, Kinds
    <2> QED BY <1>1, <1>3, <2>2 DEF Answer, serverVars, TypeOK
  <1>4. CASE FetchFails(r)
    <2>1. [read[r] EXCEPT !.st = "answered", !.kind = "unreachable"] \in Read
      BY <1>1, ReadEdit, Zenon
    <2>2. read' \in [Reads -> Read] /\ faults' \in Nat
      BY <1>1, <1>4, <2>1 DEF FetchFails, Fault, TypeOK
    <2> QED BY <1>4, <2>2 DEF FetchFails, serverVars, TypeOK
  <1>5. Unheard(r) \in Read
    BY <1>1, BlankType
  <1>6. CASE Deadline(r)
    BY <1>1, <1>5, <1>6 DEF Deadline, Fault, serverVars, TypeOK
  <1>7. CASE ArriveLate(r)
    BY <1>1, <1>7, AgainType DEF ArriveLate, serverVars, TypeOK
  <1>8. CASE RecordNothing(r)
    <2>1. read' \in [Reads -> Read]
      BY <1>1, <1>5, <1>8, DecidedType DEF RecordNothing
    <2> QED BY <1>8, <2>1 DEF RecordNothing, serverVars, TypeOK
  <1>9. CASE RecordFails(r)
    <2>1. Acting(r) \in Read
      BY <1>1, BlankType
    <2>2. read' \in [Reads -> Read]
      BY <1>1, <1>9, <2>1, DecidedType DEF RecordFails
    <2> QED BY <1>9, <2>2 DEF RecordFails, Fault, serverVars, TypeOK
  <1> QED BY <1>2, <1>3, <1>4, <1>6, <1>7, <1>8, <1>9

\* So do the transactions that record an answer.
LEMMA RecordKeepsType ==
    ASSUME TypeOK, NEW r \in Reads, RecordSession(r) \/ RecordRefusal(r)
    PROVE  TypeOK'
  <1>1. /\ read[r] \in Read /\ read \in [Reads -> Read] /\ clock \in 0..MaxClock
        /\ read[r].user \in Anyone /\ read[r].epoch \in Nat /\ read[r].at \in Nat
        /\ read[r].id \in Nat
    BY DEF TypeOK, Read
  <1>2. /\ Acting(r) \in Read /\ Refused(r) \in Read
        /\ Again(r) \in Read /\ ClockAgain(r) \in 0..MaxClock
    BY <1>1, BlankType, AgainType
  <1>3. CASE RecordSession(r)
    <2>1. WriteOutcome(read[r].user, read[r].at) \in {"logged_out", "stale", "written"}
      BY DEF WriteOutcome
    <2>2. read' \in [Reads -> Read]
      BY <1>1, <1>2, <1>3, <2>1, DecidedType DEF RecordSession, Refused
    <2>3. clock' \in 0..MaxClock
      BY <1>1, <1>2, <1>3 DEF RecordSession
    <2>4. pointer' \in Pointer
      BY <1>1, <1>3 DEF RecordSession, TypeOK, Pointer
    <2>5. logout' \in Logout
      BY <1>3 DEF RecordSession, TypeOK, Logout, Anyone
    <2> QED BY <1>3, <2>2, <2>3, <2>4, <2>5 DEF RecordSession, serverVars, TypeOK
  <1>4. CASE RecordRefusal(r)
    <2>1. read' \in [Reads -> Read] /\ clock' \in 0..MaxClock
      BY <1>1, <1>2, <1>4, DecidedType DEF RecordRefusal
    <2>2. pointer' \in Pointer
      BY <1>1, <1>4, DataTypes DEF RecordRefusal, TypeOK
    <2> QED BY <1>4, <2>1, <2>2 DEF RecordRefusal, serverVars, TypeOK
  <1> QED BY <1>3, <1>4

\* So does what a page makes of an answer.
LEMMA ActKeepsType ==
    ASSUME TypeOK, NEW r \in Reads, Fallback(r) \/ Resolve(r) \/ Settle(r) \/ SignedOut(r)
    PROVE  TypeOK'
  <1> DEFINE t == read[r].tab
  <1>1. /\ read[r] \in Read /\ read \in [Reads -> Read] /\ Idle \in Read
        /\ read[r].user \in Anyone /\ read[r].epoch \in Nat
        /\ t \in Tabs /\ page[t] \in Page /\ page \in [Tabs -> Page]
        /\ clock \in 0..MaxClock
    BY DataTypes DEF TypeOK, Read
  <1>2. CASE Fallback(r)
    <2>1. pointer.user \in Anyone /\ pointer.epoch \in Nat
      BY DEF TypeOK, Pointer
    <2>2. [read[r] EXCEPT !.st = "decided", !.user = pointer.user, !.epoch = pointer.epoch] \in Read
      BY <1>1, <2>1, ReadEdit, Zenon
    <2>3. read' \in [Reads -> Read]
      BY <1>1, <1>2, <2>2 DEF Fallback
    <2> QED BY <1>2, <2>3 DEF Fallback, serverVars, TypeOK
  <1>3. CASE Resolve(r)
    <2>1. Bind(t, read[r].user, read[r].epoch) \in Page
      BY <1>1, PageEdit, Zenon DEF Bind
    <2>2. page' \in [Tabs -> Page] /\ read' \in [Reads -> Read]
      BY <1>1, <1>3, <2>1 DEF Resolve
    <2> QED BY <1>3, <2>2, Zenon DEF Resolve, serverVars, TypeOK
  <1>4. Retired(t) \in [Tabs -> Page]
    <2>1. [page[t] EXCEPT !.st = "retired"] \in Page
      BY <1>1, PageEdit, Zenon
    <2> QED BY <1>1, <2>1, Zenon DEF Retired
  <1>5. CASE Settle(r)
    <2>1. Raised(t, read[r].epoch) \in [Tabs -> Page]
      <3>1. page[t].latest \in Nat
        BY <1>1, Zenon DEF Page
      <3>2. \A e \in Nat : [page[t] EXCEPT !.latest = e] \in Page
        BY <1>1, PageEdit, Zenon
      <3> QED BY <1>1, <3>1, <3>2 DEF Raised
    <2>2. page' \in [Tabs -> Page]
      BY <1>1, <1>4, <1>5, <2>1 DEF Settle, Judged
    <2>3. [read[r] EXCEPT !.st = "asking"] \in Read
      BY <1>1, ReadEdit, Zenon
    <2>4. read' \in [Reads -> Read]
      BY <1>1, <1>5, <2>3 DEF Settle
    <2> QED BY <1>5, <2>2, <2>4 DEF Settle, serverVars, TypeOK
  <1>6. CASE SignedOut(r)
    <2>1. page' \in [Tabs -> Page] /\ read' \in [Reads -> Read]
      BY <1>1, <1>4, <1>6 DEF SignedOut
    <2> QED BY <1>6, <2>1 DEF SignedOut, serverVars, TypeOK
  <1> QED BY <1>2, <1>3, <1>5, <1>6

\* So do a load, a sign-out and its broadcast.
LEMMA TabKeepsType ==
    ASSUME TypeOK, NEW t \in Tabs,
           \/ Load(t) \/ Leave(t) \/ LeaveFails(t) \/ LeaveStamp(t) \/ LeaveMark(t)
           \/ LeaveMarkFails(t) \/ Told(t)
    PROVE  TypeOK'
  <1>1. /\ page[t] \in Page /\ page \in [Tabs -> Page] /\ leaving \in [Tabs -> Leaving]
        /\ leaving[t] \in Leaving /\ leaving[t].id \in Nat /\ leaving[t].at \in Nat
        /\ clock \in 0..MaxClock /\ clock \in Nat /\ Stamp \in 0..MaxClock /\ Stamp \in Nat
        /\ page[t].bound \in Anyone
        /\ Staying \in Leaving /\ Idle \in Read /\ Loading \in Page
        /\ 1 \in 0..MaxReads
    BY StampType, DataTypes, BoundsAssumption DEF TypeOK, Leaving, Page
  <1>2. CASE Load(t)
    <2>1. Sent(t, 1) \in Read
      BY <1>1, ReadEdit, DataTypes, Zenon
    <2> QED BY <1>1, <1>2, <2>1 DEF Load, serverVars, TypeOK
  <1>3. CASE Leave(t)
    BY <1>1, <1>3 DEF Leave, TypeOK, Anyone, Leaving
  <1>4. CASE LeaveFails(t)
    BY <1>1, <1>4 DEF LeaveFails, Fault, serverVars, TypeOK
  <1>5. CASE LeaveStamp(t)
    BY <1>1, <1>5 DEF LeaveStamp, serverVars, TypeOK, Leaving
  <1>6. Announced(t) \in [Tabs -> Page]
    <2>1. \A s \in Tabs : /\ page[s] \in Page /\ [page[s] EXCEPT !.st = "retired"] \in Page
                          /\ [page[s] EXCEPT !.told = page[t].bound] \in Page
      BY <1>1, PageEdit, Zenon
    <2> QED BY <2>1, Zenon DEF Announced
  <1>7. CASE LeaveMark(t)
    <2>1. pointer' \in Pointer /\ logout' \in Logout
      BY <1>1, <1>7, DataTypes DEF LeaveMark, TypeOK, Logout
    <2>2. ended' \subseteq [id : Nat, at : Nat]
      BY <1>1, <1>7 DEF LeaveMark, TypeOK
    <2>3. leaving' \in [Tabs -> Leaving] /\ page' \in [Tabs -> Page]
      BY <1>1, <1>6, <1>7 DEF LeaveMark
    <2> QED BY <1>7, <2>1, <2>2, <2>3 DEF LeaveMark, serverVars, TypeOK
  <1>8. CASE LeaveMarkFails(t)
    BY <1>1, <1>6, <1>8 DEF LeaveMarkFails, Fault, serverVars, TypeOK
  <1>9. CASE Told(t)
    <2>1. \A st \in {"closed", "resolving", "resolved", "retired"} :
             [page[t] EXCEPT !.told = NoUser, !.st = st] \in Page
      BY <1>1, PageEdit, Zenon
    <2>2. page[t].st \in {"closed", "resolving", "resolved", "retired"}
      BY <1>1 DEF Page
    <2>3. page' \in [Tabs -> Page]
      BY <1>1, <1>9, <2>1, <2>2, Zenon DEF Told
    <2> QED BY <1>9, <2>3, Zenon DEF Told, serverVars, TypeOK
  <1> QED BY <1>2, <1>3, <1>4, <1>5, <1>7, <1>8, <1>9

\* A step keeps the types.
LEMMA NextKeepsType == ASSUME TypeOK, [Next]_vars PROVE TypeOK'
  <1>1. CASE UNCHANGED vars
    BY <1>1 DEF vars, TypeOK
  <1>2. CASE Next
    BY <1>2, ServerKeepsType, ReadKeepsType, RecordKeepsType, ActKeepsType, TabKeepsType
       DEF Next, ReadStep, Begun
  <1> QED BY <1>1, <1>2

\* Every variable keeps its type.
THEOREM TypeCorrect == Spec => []TypeOK
  BY InitType, NextKeepsType, PTL DEF Spec

-----------------------------------------------------------------------------
(* A page's epochs *)

\* An answer, and the recorded one, name an epoch the Library has had.
EpochsHad ==
    /\ \A r \in Reads : read[r].user # NoUser => read[r].epoch <= epoch[read[r].user]
    /\ pointer.user # NoUser => pointer.epoch <= epoch[pointer.user]

\* An epoch never falls.
LEMMA EpochsRise ==
    ASSUME TypeOK, [Next]_vars
    PROVE  \A u \in Users : epoch[u] \in Nat /\ epoch'[u] \in Nat /\ epoch[u] <= epoch'[u]
  <1>1. \A u \in Users : epoch[u] \in Nat
    BY DEF TypeOK
  <1>2. ASSUME NEW u \in Users, Restore(u) PROVE \A v \in Users : epoch'[v] \in Nat /\ epoch[v] <= epoch'[v]
    BY <1>1, <1>2 DEF Restore, TypeOK
  <1>3. CASE UNCHANGED epoch
    BY <1>1, <1>3
  <1>4. Next => UNCHANGED epoch \/ \E u \in Users : Restore(u)
    BY Zenon DEF Next, SignIn, Expire, ReadStep, Verify, NoteEpoch, Answer, FetchFails, Deadline,
           ArriveLate, RecordSession, RecordRefusal, RecordNothing, RecordFails, Fallback,
           Resolve, Settle, SignedOut, Load, Leave, LeaveFails, LeaveStamp, LeaveMark,
           LeaveMarkFails, Told, serverVars
  <1> QED BY <1>1, <1>2, <1>3, <1>4 DEF vars

\* What a step makes of the reads: an answer is the session's, the record's,
\* or one that was there.
LEMMA ReadsFrom ==
    ASSUME TypeOK, [Next]_vars, NEW q \in Reads
    PROVE  \/ read'[q].user = NoUser
           \/ read'[q].user = read[q].user /\ read'[q].epoch = read[q].epoch
           \/ read'[q].user = session /\ read'[q].epoch = epoch[session]
           \/ read'[q].user = pointer.user /\ read'[q].epoch = pointer.epoch
  <1>1. read \in [Reads -> Read]
    BY DEF TypeOK
  <1>2. /\ \A t, n : Sent(t, n).user = NoUser
        /\ Idle.user = NoUser
        /\ \A r \in Reads : Unheard(r).user = NoUser
        /\ \A r \in Reads : Again(r).user = NoUser
        /\ \A r \in Reads : Refused(r).user = NoUser
        /\ \A r \in Reads : Acting(r).user = read[r].user /\ Acting(r).epoch = read[r].epoch
    BY DEF Sent, Idle, Blank, Refused, Unheard, Again, Acting
  <1>3. [read[q] EXCEPT !.late = TRUE].user = read[q].user
        /\ [read[q] EXCEPT !.late = TRUE].epoch = read[q].epoch
    BY <1>1 DEF Read
  <1>4. ASSUME NEW r \in Reads, NEW d, read' = Decided(r, d),
               d.user = NoUser \/ (d.user = read[r].user /\ d.epoch = read[r].epoch)
        PROVE  \/ read'[q].user = NoUser
               \/ read'[q].user = read[q].user /\ read'[q].epoch = read[q].epoch
    <2>1. (read'[q] = d /\ q = r) \/ read'[q] = [read[q] EXCEPT !.late = TRUE] \/ read'[q] = read[q]
      BY <1>4 DEF Decided
    <2> QED BY <1>3, <1>4, <2>1
  <1>5. CASE UNCHANGED read
    BY <1>5
  <1>6. ASSUME NEW t \in Tabs, Load(t) PROVE read'[q].user = NoUser \/ read'[q] = read[q]
    BY <1>1, <1>2, <1>6 DEF Load
  <1>7. ASSUME NEW r \in Reads, Begun(r) \/ Deadline(r) \/ ArriveLate(r)
        PROVE  read'[q].user = NoUser \/ read'[q] = read[q]
    BY <1>1, <1>2, <1>7 DEF Begun, Verify, NoteEpoch, Deadline, ArriveLate
  <1>8. ASSUME NEW r \in Reads, Answer(r)
        PROVE  \/ read'[q] = read[q] \/ read'[q].user = NoUser
               \/ read'[q].user = session /\ read'[q].epoch = epoch[session]
    BY <1>1, <1>8 DEF Answer, Read
  <1>9. ASSUME NEW r \in Reads, FetchFails(r)
        PROVE  read'[q].user = read[q].user /\ read'[q].epoch = read[q].epoch
    BY <1>1, <1>9 DEF FetchFails, Read
  <1>10. ASSUME NEW r \in Reads, RecordSession(r)
         PROVE  \/ read'[q].user = NoUser
                \/ read'[q].user = read[q].user /\ read'[q].epoch = read[q].epoch
    <2>1. WriteOutcome(read[r].user, read[r].at) \in {"logged_out", "stale", "written"}
      BY DEF WriteOutcome
    <2>2. PICK d \in {Acting(r), Refused(r), Again(r)} : read' = Decided(r, d)
      BY <1>10, <2>1 DEF RecordSession, Refused
    <2>3. d.user = NoUser \/ (d.user = read[r].user /\ d.epoch = read[r].epoch)
      BY <1>2, <2>2
    <2> QED BY <1>4, <2>2, <2>3
  <1>11. ASSUME NEW r \in Reads, RecordRefusal(r) \/ RecordNothing(r) \/ RecordFails(r)
         PROVE  \/ read'[q].user = NoUser
                \/ read'[q].user = read[q].user /\ read'[q].epoch = read[q].epoch
    <2>1. PICK d \in {Acting(r), Unheard(r), Again(r)} : read' = Decided(r, d)
      BY <1>11 DEF RecordRefusal, RecordNothing, RecordFails
    <2>3. d.user = NoUser \/ (d.user = read[r].user /\ d.epoch = read[r].epoch)
      BY <1>2, <2>1
    <2> QED BY <1>4, <2>1, <2>3
  <1>12. ASSUME NEW r \in Reads, Fallback(r)
         PROVE  \/ read'[q] = read[q]
                \/ read'[q].user = pointer.user /\ read'[q].epoch = pointer.epoch
    BY <1>1, <1>12 DEF Fallback, Read
  <1>13. ASSUME NEW r \in Reads, Resolve(r) \/ Settle(r) \/ SignedOut(r)
         PROVE  \/ read'[q].user = NoUser
                \/ read'[q].user = read[q].user /\ read'[q].epoch = read[q].epoch
    BY <1>1, <1>2, <1>13 DEF Resolve, Settle, SignedOut, Read
  <1>14. ASSUME NEW u \in Users, SignIn(u) \/ Restore(u) PROVE UNCHANGED read
    BY <1>14 DEF SignIn, Restore
  <1>15. ASSUME Expire PROVE UNCHANGED read
    BY <1>15 DEF Expire
  <1>16. ASSUME NEW t \in Tabs, Leave(t) \/ LeaveFails(t) \/ LeaveStamp(t) \/ LeaveMark(t)
                                \/ LeaveMarkFails(t) \/ Told(t)
         PROVE  UNCHANGED read
    BY <1>16 DEF Leave, LeaveFails, LeaveStamp, LeaveMark, LeaveMarkFails, Told
  <1> QED BY <1>5, <1>6, <1>7, <1>8, <1>9, <1>10, <1>11, <1>12, <1>13, <1>14, <1>15, <1>16
          DEF Next, ReadStep, Begun, vars

\* What a step makes of the record: a session's answer, no account, or what
\* was there.
LEMMA PointerFrom ==
    ASSUME TypeOK, [Next]_vars
    PROVE  \/ pointer'.user = NoUser
           \/ pointer' = pointer
           \/ \E r \in Reads : /\ RecordSession(r) /\ ~(pointer.at > read[r].at)
                               /\ pointer' = [user |-> read[r].user, epoch |-> read[r].epoch,
                                              at |-> read[r].at, id |-> read[r].id]
  <1>1. \A n : NoScope(n).user = NoUser
    BY DEF NoScope
  <1>2. ASSUME NEW r \in Reads, RecordSession(r)
        PROVE  \/ pointer' = pointer
               \/ /\ ~(pointer.at > read[r].at)
                  /\ pointer' = [user |-> read[r].user, epoch |-> read[r].epoch,
                                 at |-> read[r].at, id |-> read[r].id]
    <2>1. pointer' =
              IF WriteOutcome(read[r].user, read[r].at) = "written" /\ ~(pointer.at > read[r].at)
              THEN [user |-> read[r].user, epoch |-> read[r].epoch,
                    at |-> read[r].at, id |-> read[r].id] ELSE pointer
      BY <1>2, Zenon DEF RecordSession
    <2> QED BY <2>1
  <1>3. ASSUME NEW r \in Reads, RecordRefusal(r) PROVE pointer'.user = NoUser \/ pointer' = pointer
    BY <1>1, <1>3 DEF RecordRefusal
  <1>4. ASSUME NEW t \in Tabs, LeaveMark(t) PROVE pointer'.user = NoUser \/ pointer' = pointer
    BY <1>1, <1>4 DEF LeaveMark
  <1>5. \/ UNCHANGED pointer \/ \E r \in Reads : RecordSession(r) \/ RecordRefusal(r)
        \/ \E t \in Tabs : LeaveMark(t)
    BY Zenon DEF Next, SignIn, Restore, Expire, ReadStep, Begun, Verify, NoteEpoch, Answer, FetchFails, Deadline,
           ArriveLate, RecordNothing, RecordFails, Fallback,
           Resolve, Settle, SignedOut, Load, Leave, LeaveFails, LeaveStamp,
           LeaveMarkFails, Told, vars
  <1> QED BY <1>2, <1>3, <1>4, <1>5

LEMMA EpochsStayHad == ASSUME TypeOK, TypeOK', EpochsHad, [Next]_vars PROVE EpochsHad'
  <1>1. /\ \A u \in Users : epoch[u] \in Nat /\ epoch'[u] \in Nat /\ epoch[u] <= epoch'[u]
        /\ pointer.user \in Anyone /\ pointer.epoch \in Nat /\ session \in Anyone
        /\ pointer'.user \in Anyone /\ pointer'.epoch \in Nat
        /\ \A q \in Reads : /\ read[q].user \in Anyone /\ read[q].epoch \in Nat
                            /\ read'[q].user \in Anyone /\ read'[q].epoch \in Nat
    BY EpochsRise DEF TypeOK, Pointer, Read
  <1>2. ASSUME NEW q \in Reads, read'[q].user # NoUser
        PROVE  read'[q].epoch <= epoch'[read'[q].user]
    <2>1. read'[q].user \in Users
      BY <1>1, <1>2 DEF Anyone
    <2>2. read'[q].epoch <= epoch[read'[q].user]
      BY <1>1, <1>2, <2>1, ReadsFrom DEF EpochsHad
    <2> QED BY <1>1, <2>1, <2>2
  <1>3. ASSUME pointer'.user # NoUser PROVE pointer'.epoch <= epoch'[pointer'.user]
    <2>1. pointer'.user \in Users
      BY <1>1, <1>3 DEF Anyone
    <2>2. pointer'.epoch <= epoch[pointer'.user]
      BY <1>1, <1>3, <2>1, PointerFrom DEF EpochsHad
    <2> QED BY <1>1, <2>1, <2>2
  <1> QED BY <1>2, <1>3 DEF EpochsHad

\* What a step makes of a page: it is as it was, it is a new one, it binds an
\* answer, or an answer of its own account raises its epoch.
LEMMA PagesFrom ==
    ASSUME TypeOK, [Next]_vars, NEW t \in Tabs
    PROVE  \/ /\ page'[t].bound = page[t].bound
              /\ page'[t].opened = page[t].opened /\ page'[t].latest = page[t].latest
           \/ page'[t].bound = NoUser
           \/ \E r \in Reads : /\ page'[t].bound = read[r].user
                               /\ page'[t].opened = read[r].epoch
                               /\ page'[t].latest = read[r].epoch
           \/ \E r \in Reads : /\ page'[t].bound = page[t].bound /\ page'[t].opened = page[t].opened
                               /\ read[r].user = page[t].bound
                               /\ page[t].latest < read[r].epoch
                               /\ page'[t].latest = read[r].epoch
  <1> DEFINE Same == /\ page'[t].bound = page[t].bound
                     /\ page'[t].opened = page[t].opened /\ page'[t].latest = page[t].latest
  <1>1. page \in [Tabs -> Page]
    BY DEF TypeOK
  <1>2. CASE UNCHANGED page
    BY <1>2
  <1>3. ASSUME NEW s \in Tabs, Load(s) PROVE Same \/ page'[t].bound = NoUser
    BY <1>1, <1>3 DEF Load, Loading, Closed
  <1>4. ASSUME NEW s \in Tabs PROVE /\ Announced(s)[t].bound = page[t].bound
                                    /\ Announced(s)[t].opened = page[t].opened
                                    /\ Announced(s)[t].latest = page[t].latest
    BY <1>1, <1>4 DEF Announced, Page
  <1>5. ASSUME NEW s \in Tabs, LeaveMark(s) \/ LeaveMarkFails(s) PROVE Same
    BY <1>4, <1>5 DEF LeaveMark, LeaveMarkFails
  <1>6. ASSUME NEW s \in Tabs, Told(s) PROVE Same
    BY <1>1, <1>6 DEF Told, Page
  <1>7. ASSUME NEW r \in Reads, Resolve(r)
        PROVE  Same \/ /\ page'[t].bound = read[r].user /\ page'[t].opened = read[r].epoch
                       /\ page'[t].latest = read[r].epoch
    BY <1>1, <1>7 DEF Resolve, Bind, Page
  <1>8. ASSUME NEW s \in Tabs
        PROVE  /\ Retired(s)[t].bound = page[t].bound /\ Retired(s)[t].opened = page[t].opened
               /\ Retired(s)[t].latest = page[t].latest
    BY <1>1, <1>8 DEF Retired, Page
  <1>9. ASSUME NEW r \in Reads, SignedOut(r) PROVE Same
    <2>1. read[r].tab \in Tabs
      BY DEF TypeOK, Read
    <2> QED BY <1>8, <1>9, <2>1 DEF SignedOut
  <1>10. ASSUME NEW r \in Reads, Settle(r)
         PROVE  \/ Same
                \/ /\ page'[t].bound = page[t].bound /\ page'[t].opened = page[t].opened
                   /\ read[r].user = page[t].bound
                   /\ page[t].latest < read[r].epoch /\ page'[t].latest = read[r].epoch
    <2>1. read[r].tab \in Tabs /\ page[t].latest \in Nat /\ read[r].epoch \in Nat
      BY <1>1 DEF Page, TypeOK, Read
    <2>2. \/ page' = page \/ page' = Retired(read[r].tab)
          \/ page' = Raised(read[r].tab, read[r].epoch) /\ read[r].user = page[read[r].tab].bound
      BY <1>10 DEF Settle, Judged
    <2>3. CASE page' = Raised(read[r].tab, read[r].epoch) /\ read[r].user = page[read[r].tab].bound
      BY <1>1, <2>1, <2>3 DEF Raised, Page
    <2> QED BY <1>8, <2>1, <2>2, <2>3
  <1>11. \/ UNCHANGED page
         \/ \E s \in Tabs : Load(s) \/ LeaveMark(s) \/ LeaveMarkFails(s) \/ Told(s)
         \/ \E r \in Reads : Resolve(r) \/ Settle(r) \/ SignedOut(r)
    BY Zenon DEF Next, SignIn, Restore, Expire, ReadStep, Begun, Verify, NoteEpoch, Answer, FetchFails, Deadline,
           ArriveLate, RecordSession, RecordRefusal, RecordNothing, RecordFails, Fallback,
           Leave, LeaveFails, LeaveStamp, serverVars, vars
  <1> QED BY <1>2, <1>3, <1>5, <1>6, <1>7, <1>9, <1>10, <1>11

LEMMA EpochStaysOwn ==
    ASSUME TypeOK, TypeOK', EpochsHad, EpochOwn, [Next]_vars
    PROVE  EpochOwn'
  <1> SUFFICES ASSUME NEW t \in Tabs, page'[t].bound # NoUser
               PROVE  /\ page'[t].opened <= page'[t].latest
                      /\ page'[t].latest <= epoch'[page'[t].bound]
    BY DEF EpochOwn
  <1>1. /\ page'[t].bound \in Users /\ page'[t].opened \in Nat /\ page'[t].latest \in Nat
        /\ page[t].opened \in Nat /\ page[t].latest \in Nat
        /\ \A r \in Reads : read[r].epoch \in Nat
    BY DEF TypeOK, Page, Anyone, Read
  <1>2. epoch[page'[t].bound] \in Nat /\ epoch'[page'[t].bound] \in Nat
        /\ epoch[page'[t].bound] <= epoch'[page'[t].bound]
    BY <1>1, EpochsRise
  <1>3. page'[t].opened <= page'[t].latest /\ page'[t].latest <= epoch[page'[t].bound]
    BY <1>1, <1>2, PagesFrom DEF EpochOwn, EpochsHad
  <1> QED BY <1>1, <1>2, <1>3

\* A page's epochs are its own Library's, whoever's answers name a higher one.
THEOREM EpochIsOwn == Spec => []EpochOwn
  <1>1. Init => EpochsHad /\ EpochOwn
    BY DEF Init, EpochsHad, EpochOwn, Idle, NoScope, Closed
  <1>2. TypeOK /\ TypeOK' /\ EpochsHad /\ EpochOwn /\ [Next]_vars => EpochsHad' /\ EpochOwn'
    BY EpochsStayHad, EpochStaysOwn
  <1>3. Spec => []TypeOK
    BY TypeCorrect
  <1> QED BY <1>1, <1>2, <1>3, PTL DEF Spec

-----------------------------------------------------------------------------
(* A sign-out *)

\* An answer that names a session and is not decided yet.
Answered(r) == read[r].st = "answered" /\ read[r].kind = "session"

\* Nothing has a stamp that was not given out yet.
Stamped ==
    /\ pointer.at <= clock
    /\ \A r \in Reads : read[r].at <= clock
    /\ \A t \in Tabs : leaving[t].at <= clock

\* Answers and the record name sessions there were; one that ended is over.
Numbered ==
    /\ session # NoUser => 1 <= signIns
    /\ \A r \in Reads : Answered(r) => 1 <= read[r].id
    /\ pointer.user # NoUser => 1 <= pointer.id
    /\ \A e \in ended : e.id <= signIns /\ (session # NoUser => e.id < signIns)
    /\ \A t \in Tabs : leaving[t].st # "no" =>
          leaving[t].id <= signIns /\ (session # NoUser => leaving[t].id < signIns)

\* An answer of a session that ended began before its sign-out took its stamp.
Earlier ==
    /\ \A e \in ended, r \in Reads : Answered(r) /\ read[r].id = e.id => read[r].at < e.at
    /\ \A t \in Tabs, r \in Reads :
          leaving[t].st = "stamped" /\ Answered(r) /\ read[r].id = leaving[t].id
              => read[r].at < leaving[t].at

\* So did the record's, until the sign-out itself is recorded.
RecordEarlier ==
    /\ \A e \in ended : e.at <= pointer.at
    /\ \A t \in Tabs :
          leaving[t].st = "stamped" /\ pointer.user # NoUser /\ pointer.id = leaving[t].id
              => pointer.at < leaving[t].at

SInv == Stamped /\ Numbered /\ Earlier /\ RecordEarlier /\ SignOutHolds

\* What a step makes of an answered read: it was there, or the server answers.
LEMMA AnswersFrom ==
    ASSUME TypeOK, [Next]_vars, NEW q \in Reads, Answered(q)'
    PROVE  \/ Answered(q) /\ read'[q].id = read[q].id /\ read'[q].at = read[q].at
           \/ /\ session # NoUser /\ read'[q].id = signIns /\ read'[q].at = read[q].at
              /\ Answer(q)
  <1> DEFINE There == Answered(q) /\ read'[q].id = read[q].id /\ read'[q].at = read[q].at
  <1>1. read \in [Reads -> Read]
    BY DEF TypeOK
  <1>2. /\ \A t, n : Sent(t, n).st = "sent"
        /\ Idle.st = "idle"
        /\ \A r \in Reads : Unheard(r).st \in {"fallback", "decided"}
        /\ \A r \in Reads : Again(r).st \in {"sent", "decided"}
        /\ \A r \in Reads : Refused(r).st = "decided"
        /\ \A r \in Reads : Acting(r).st = "decided"
    BY DEF Sent, Idle, Blank, Refused, Unheard, Again, Acting
  <1>3. CASE UNCHANGED read
    BY <1>3 DEF Answered
  <1>4. ASSUME NEW r \in Reads, NEW d, read' = Decided(r, d), d.st # "answered" PROVE There
    <2>1. (read'[q] = d /\ q = r) \/ read'[q] = [read[q] EXCEPT !.late = TRUE] \/ read'[q] = read[q]
      BY <1>4 DEF Decided
    <2> QED BY <1>1, <1>4, <2>1 DEF Answered, Read
  <1>5. ASSUME NEW t \in Tabs, Load(t) PROVE There
    BY <1>1, <1>2, <1>5 DEF Load, Answered
  <1>6. ASSUME NEW r \in Reads, Begun(r) \/ Deadline(r) \/ ArriveLate(r) PROVE There
    BY <1>1, <1>2, <1>6 DEF Begun, Verify, NoteEpoch, Deadline, ArriveLate, Answered
  <1>7. ASSUME NEW r \in Reads, Answer(r)
        PROVE  There \/ (session # NoUser /\ read'[q].id = signIns /\ read'[q].at = read[q].at /\ q = r)
    BY <1>1, <1>7 DEF Answer, Answered, Read
  <1>8. ASSUME NEW r \in Reads, FetchFails(r) PROVE There
    BY <1>1, <1>8 DEF FetchFails, Answered, Read
  <1>9. ASSUME NEW r \in Reads, RecordSession(r) PROVE There
    <2>1. WriteOutcome(read[r].user, read[r].at) \in {"logged_out", "stale", "written"}
      BY DEF WriteOutcome
    <2>2. PICK d \in {Acting(r), Refused(r), Again(r)} : read' = Decided(r, d)
      BY <1>9, <2>1 DEF RecordSession, Refused
    <2>3. d.st # "answered"
      BY <1>2, <2>2
    <2> QED BY <1>4, <2>2, <2>3
  <1>10. ASSUME NEW r \in Reads, RecordRefusal(r) \/ RecordNothing(r) \/ RecordFails(r) PROVE There
    <2>1. PICK d \in {Acting(r), Unheard(r), Again(r)} : read' = Decided(r, d)
      BY <1>10 DEF RecordRefusal, RecordNothing, RecordFails
    <2>2. d.st # "answered"
      BY <1>2, <2>1
    <2> QED BY <1>4, <2>1, <2>2
  <1>11. ASSUME NEW r \in Reads, Fallback(r) \/ Resolve(r) \/ Settle(r) \/ SignedOut(r) PROVE There
    BY <1>1, <1>2, <1>11 DEF Fallback, Resolve, Settle, SignedOut, Answered, Read
  <1>12. \/ UNCHANGED read
         \/ \E t \in Tabs : Load(t)
         \/ \E r \in Reads : \/ Begun(r) \/ Deadline(r) \/ ArriveLate(r) \/ Answer(r)
                             \/ FetchFails(r) \/ RecordSession(r) \/ RecordRefusal(r)
                             \/ RecordNothing(r) \/ RecordFails(r) \/ Fallback(r) \/ Resolve(r)
                             \/ Settle(r) \/ SignedOut(r)
    BY DEF Next, ReadStep, Begun, SignIn, Restore, Expire, Leave, LeaveFails, LeaveStamp, LeaveMark,
           LeaveMarkFails, Told, vars
  <1> QED BY <1>3, <1>5, <1>6, <1>7, <1>8, <1>9, <1>10, <1>11, <1>12

\* What a step makes of the stamps.
LEMMA StampsFrom ==
    ASSUME TypeOK, TypeOK', Stamped, [Next]_vars
    PROVE  clock <= clock' /\ Stamped'
  <1>1. /\ read \in [Reads -> Read] /\ leaving \in [Tabs -> Leaving] /\ clock \in Nat
        /\ clock' \in Nat /\ Stamp \in Nat /\ clock <= Stamp
        /\ pointer.at \in Nat /\ \A r \in Reads : read[r].at \in Nat
        /\ \A t \in Tabs : leaving[t].at \in Nat
    BY StampType, BoundsAssumption DEF TypeOK, Pointer, Read, Leaving
  <1>2. /\ \A t, n : Sent(t, n).at = Stamp
        /\ Idle.at = 0
        /\ \A r \in Reads : Unheard(r).at = 0 /\ Acting(r).at = 0
        /\ \A r \in Reads : \/ Again(r).at = Stamp /\ ClockAgain(r) = Stamp
                            \/ Again(r).at = 0 /\ ClockAgain(r) = clock
        /\ \A r \in Reads : Refused(r).at = 0
        /\ \A n : NoScope(n).at = n
        /\ Staying.at = 0
    BY DEF Sent, Idle, Blank, Refused, Unheard, Acting, Again, ClockAgain, NoScope, Staying
  <1>3. ASSUME NEW r \in Reads, NEW d, read' = Decided(r, d), clock <= clock', d.at <= clock'
        PROVE  \A q \in Reads : read'[q].at <= clock'
    <2> SUFFICES ASSUME NEW q \in Reads PROVE read'[q].at <= clock'
      OBVIOUS
    <2>1. read'[q] = d \/ read'[q] = [read[q] EXCEPT !.late = TRUE] \/ read'[q] = read[q]
      BY <1>3 DEF Decided
    <2>2. [read[q] EXCEPT !.late = TRUE].at = read[q].at
      BY <1>1 DEF Read
    <2>3. read[q].at <= clock'
      BY <1>1, <1>3 DEF Stamped
    <2> QED BY <1>3, <2>1, <2>2, <2>3
  <1>4. CASE UNCHANGED <<clock, read, pointer, leaving>>
    BY <1>1, <1>4 DEF Stamped
  <1>5. ASSUME NEW t \in Tabs, Load(t) PROVE clock <= clock' /\ Stamped'
    BY <1>1, <1>2, <1>5 DEF Load, Stamped
  <1>6. ASSUME NEW r \in Reads, Begun(r) PROVE clock <= clock' /\ Stamped'
    BY <1>1, <1>2, <1>6 DEF Begun, Verify, NoteEpoch, Stamped
  <1>7. ASSUME NEW r \in Reads, Answer(r) \/ FetchFails(r) PROVE clock <= clock' /\ Stamped'
    BY <1>1, <1>7 DEF Answer, FetchFails, Stamped, Read
  <1>8. ASSUME NEW r \in Reads, Deadline(r) PROVE clock <= clock' /\ Stamped'
    BY <1>1, <1>2, <1>8 DEF Deadline, Stamped
  <1>9. ASSUME NEW r \in Reads, ArriveLate(r) PROVE clock <= clock' /\ Stamped'
    BY <1>1, <1>2, <1>9 DEF ArriveLate, Stamped
  <1>10. ASSUME NEW r \in Reads, RecordSession(r) PROVE clock <= clock' /\ Stamped'
    <2>1. WriteOutcome(read[r].user, read[r].at) \in {"logged_out", "stale", "written"}
      BY DEF WriteOutcome
    <2>2. /\ \/ read' = Decided(r, Acting(r)) /\ clock' = clock
             \/ read' = Decided(r, Refused(r)) /\ clock' = clock
             \/ read' = Decided(r, Again(r)) /\ clock' = ClockAgain(r)
          /\ UNCHANGED leaving
      BY <1>10, <2>1 DEF RecordSession, Refused
    <2>3. clock <= clock' /\ \A q \in Reads : read'[q].at <= clock'
      <3>1. clock <= ClockAgain(r) /\ Again(r).at <= ClockAgain(r)
        BY <1>1, <1>2
      <3>2. /\ Acting(r).at <= clock /\ Refused(r).at <= clock
            /\ clock <= clock
        BY <1>1, <1>2
      <3>3. CASE read' = Decided(r, Acting(r)) /\ clock' = clock
        BY <1>3, <3>2, <3>3
      <3>4. CASE read' = Decided(r, Refused(r)) /\ clock' = clock
        BY <1>3, <3>2, <3>4
      <3>5. CASE read' = Decided(r, Again(r)) /\ clock' = ClockAgain(r)
        BY <1>3, <3>1, <3>5
      <3> QED BY <2>2, <3>3, <3>4, <3>5
    <2>4. pointer' = pointer \/ pointer'.at = read[r].at
      <3>1. pointer' = IF WriteOutcome(read[r].user, read[r].at) = "written"
                          /\ ~(pointer.at > read[r].at)
                       THEN [user |-> read[r].user, epoch |-> read[r].epoch,
                             at |-> read[r].at, id |-> read[r].id] ELSE pointer
        BY <1>10, Zenon DEF RecordSession
      <3> QED BY <3>1
    <2> QED BY <1>1, <2>2, <2>3, <2>4 DEF Stamped
  <1>11. ASSUME NEW r \in Reads, RecordRefusal(r) PROVE clock <= clock' /\ Stamped'
    <2>1. PICK d : read' = Decided(r, d) /\ d.at <= clock' /\ clock <= clock'
      BY <1>1, <1>2, <1>11 DEF RecordRefusal
    <2>2. pointer'.at <= clock' /\ UNCHANGED leaving
      BY <1>1, <1>2, <1>11, <2>1 DEF RecordRefusal, Stamped
    <2> QED BY <1>1, <1>3, <2>1, <2>2 DEF Stamped
  <1>12. ASSUME NEW r \in Reads, RecordNothing(r) \/ RecordFails(r) PROVE clock <= clock' /\ Stamped'
    <2>1. PICK d : read' = Decided(r, d) /\ d.at <= clock' /\ clock <= clock'
      BY <1>1, <1>2, <1>12 DEF RecordNothing, RecordFails
    <2>2. UNCHANGED <<pointer, leaving>>
      BY <1>12 DEF RecordNothing, RecordFails, serverVars
    <2> QED BY <1>1, <1>3, <2>1, <2>2 DEF Stamped
  <1>13. ASSUME NEW r \in Reads, Fallback(r) \/ Resolve(r) \/ Settle(r) \/ SignedOut(r)
         PROVE clock <= clock' /\ Stamped'
    BY <1>1, <1>2, <1>13 DEF Fallback, Resolve, Settle, SignedOut, Stamped, Read
  <1>14. ASSUME NEW t \in Tabs, Leave(t) \/ LeaveFails(t) PROVE clock <= clock' /\ Stamped'
    BY <1>1, <1>2, <1>14 DEF Leave, LeaveFails, Stamped, Leaving
  <1>15. ASSUME NEW t \in Tabs, LeaveStamp(t) PROVE clock <= clock' /\ Stamped'
    BY <1>1, <1>2, <1>15 DEF LeaveStamp, Stamped, Leaving
  <1>16. ASSUME NEW t \in Tabs, LeaveMark(t) \/ LeaveMarkFails(t) PROVE clock <= clock' /\ Stamped'
    BY <1>1, <1>2, <1>16 DEF LeaveMark, LeaveMarkFails, serverVars, Stamped, Leaving
  <1>17. ASSUME (\E u \in Users : SignIn(u) \/ Restore(u)) \/ Expire \/ \E t \in Tabs : Told(t)
         PROVE UNCHANGED <<clock, read, pointer, leaving>>
    BY <1>17 DEF SignIn, Restore, Expire, Told
  <1> QED BY <1>4, <1>5, <1>6, <1>7, <1>8, <1>9, <1>10, <1>11, <1>12, <1>13, <1>14, <1>15,
             <1>16, <1>17 DEF Next, ReadStep, Begun, vars

\* What a step makes of the record's stamp and of the sign-outs.
LEMMA RecordFrom ==
    ASSUME TypeOK, TypeOK', [Next]_vars
    PROVE  /\ pointer.at <= pointer'.at
           /\ \/ UNCHANGED ended
              \/ \E t \in Tabs : /\ LeaveMark(t)
                                 /\ ended' = ended \cup {[id |-> leaving[t].id, at |-> leaving[t].at]}
                                 /\ leaving[t].at <= pointer'.at
                                 /\ pointer'.user = NoUser \/ (pointer' = pointer /\ pointer.at > leaving[t].at)
  <1>1. /\ pointer.at \in Nat /\ pointer'.at \in Nat
        /\ \A r \in Reads : read[r].at \in Nat
        /\ \A t \in Tabs : leaving[t].at \in Nat
        /\ \A n : NoScope(n).at = n /\ NoScope(n).user = NoUser
    BY DEF TypeOK, Pointer, Read, Leaving, NoScope
  <1>2. ASSUME NEW r \in Reads, RecordSession(r) PROVE pointer.at <= pointer'.at /\ UNCHANGED ended
    <2>1. pointer' = IF WriteOutcome(read[r].user, read[r].at) = "written"
                        /\ ~(pointer.at > read[r].at)
                     THEN [user |-> read[r].user, epoch |-> read[r].epoch,
                           at |-> read[r].at, id |-> read[r].id] ELSE pointer
      BY <1>2, Zenon DEF RecordSession
    <2>2. UNCHANGED ended
      BY <1>2 DEF RecordSession
    <2> QED BY <1>1, <2>1, <2>2
  <1>3. ASSUME NEW r \in Reads, RecordRefusal(r) PROVE pointer.at <= pointer'.at /\ UNCHANGED ended
    BY <1>1, <1>3 DEF RecordRefusal
  <1>4. ASSUME NEW t \in Tabs, LeaveMark(t)
        PROVE  /\ pointer.at <= pointer'.at
               /\ ended' = ended \cup {[id |-> leaving[t].id, at |-> leaving[t].at]}
               /\ leaving[t].at <= pointer'.at
               /\ pointer'.user = NoUser \/ (pointer' = pointer /\ pointer.at > leaving[t].at)
    BY <1>1, <1>4 DEF LeaveMark
  <1>5. \/ UNCHANGED <<pointer, ended>>
        \/ \E r \in Reads : RecordSession(r) \/ RecordRefusal(r)
        \/ \E t \in Tabs : LeaveMark(t)
    BY Zenon DEF Next, SignIn, Restore, Expire, ReadStep, Begun, Verify, NoteEpoch, Answer, FetchFails, Deadline,
           ArriveLate, RecordNothing, RecordFails, Fallback,
           Resolve, Settle, SignedOut, Load, Leave, LeaveFails, LeaveStamp,
           LeaveMarkFails, Told, vars
  <1> QED BY <1>1, <1>2, <1>3, <1>4, <1>5

\* What a step makes of a sign-out under way.
LEMMA LeavingFrom ==
    ASSUME TypeOK, [Next]_vars, NEW t \in Tabs
    PROVE  \/ leaving'[t] = leaving[t]
           \/ leaving'[t].st = "no"
           \/ /\ leaving'[t].st = "ended" /\ session' = NoUser /\ UNCHANGED signIns
              /\ leaving'[t].id \in {0, signIns}
           \/ /\ leaving[t].st = "ended" /\ leaving'[t].st = "stamped"
              /\ leaving'[t].id = leaving[t].id
              /\ clock < leaving'[t].at
              /\ UNCHANGED <<pointer, read, ended, session, signIns>>
  <1>1. leaving \in [Tabs -> Leaving] /\ clock \in Nat /\ MaxClock \in Nat
    BY BoundsAssumption DEF TypeOK
  <1>2. CASE UNCHANGED leaving
    BY <1>2
  <1>3. ASSUME NEW s \in Tabs, Load(s) \/ LeaveFails(s) \/ LeaveMark(s) \/ LeaveMarkFails(s)
        PROVE  leaving'[t] = leaving[t] \/ leaving'[t].st = "no"
    BY <1>1, <1>3 DEF Load, LeaveFails, LeaveMark, LeaveMarkFails, Staying
  <1>4. ASSUME NEW s \in Tabs, Leave(s)
        PROVE  \/ leaving'[t] = leaving[t]
               \/ /\ leaving'[t].st = "ended" /\ session' = NoUser /\ UNCHANGED signIns
                  /\ leaving'[t].id \in {0, signIns}
    BY <1>1, <1>4 DEF Leave, Leaving
  <1>5. ASSUME NEW s \in Tabs, LeaveStamp(s)
        PROVE  \/ leaving'[t] = leaving[t] \/ leaving'[t].st = "no"
               \/ /\ leaving[t].st = "ended" /\ leaving'[t].st = "stamped"
                  /\ leaving'[t].id = leaving[t].id
                  /\ clock < leaving'[t].at
                  /\ UNCHANGED <<pointer, read, ended, session, signIns>>
    BY <1>1, <1>5 DEF LeaveStamp, Leaving, Staying, Stamp, serverVars
  <1>6. \/ UNCHANGED leaving
        \/ \E s \in Tabs : \/ Load(s) \/ LeaveFails(s) \/ LeaveMark(s) \/ LeaveMarkFails(s)
                           \/ Leave(s) \/ LeaveStamp(s)
    BY Zenon DEF Next, SignIn, Restore, Expire, ReadStep, Begun, Verify, NoteEpoch, Answer, FetchFails, Deadline,
           ArriveLate, RecordSession, RecordRefusal, RecordNothing, RecordFails, Fallback,
           Resolve, Settle, SignedOut, Told, vars
  <1> QED BY <1>2, <1>3, <1>4, <1>5, <1>6

\* What a step makes of the session: it ends, it goes on, or it is a new one.
LEMMA SessionFrom ==
    ASSUME TypeOK, [Next]_vars
    PROVE  \/ session' = NoUser /\ signIns' = signIns
           \/ session' = session /\ signIns' = signIns
           \/ session' # NoUser /\ signIns' = signIns + 1
  <1>1. ASSUME NEW u \in Users, SignIn(u) PROVE session' # NoUser /\ signIns' = signIns + 1
    BY <1>1, UsersAssumption DEF SignIn
  <1>2. ASSUME NEW t \in Tabs, Leave(t) PROVE session' = NoUser /\ signIns' = signIns
    BY <1>2 DEF Leave
  <1>3. ASSUME Expire PROVE session' = NoUser /\ signIns' = signIns
    BY <1>3 DEF Expire
  <1>4. ASSUME NEW r \in Reads,
               \/ Begun(r) \/ FetchFails(r) \/ Deadline(r) \/ RecordFails(r)
               \/ ReadStep(r)
        PROVE  UNCHANGED <<session, signIns>>
    <2>1. CASE Begun(r) \/ FetchFails(r) \/ Deadline(r) \/ RecordFails(r)
      BY <2>1 DEF Begun, Verify, NoteEpoch, FetchFails, Deadline, RecordFails, serverVars
    <2>2. CASE ReadStep(r)
      BY <2>2 DEF ReadStep, Answer, ArriveLate, RecordSession, RecordRefusal, RecordNothing,
                  Fallback, Resolve, Settle, SignedOut, serverVars
    <2> QED BY <1>4, <2>1, <2>2
  <1>5. ASSUME NEW t \in Tabs,
               \/ Load(t) \/ LeaveFails(t) \/ LeaveStamp(t) \/ LeaveMark(t) \/ LeaveMarkFails(t)
               \/ Told(t)
        PROVE  UNCHANGED <<session, signIns>>
    BY <1>5 DEF Load, LeaveFails, LeaveStamp, LeaveMark, LeaveMarkFails, Told, serverVars
  <1>6. ASSUME NEW u \in Users, Restore(u) PROVE UNCHANGED <<session, signIns>>
    BY <1>6 DEF Restore
  <1>7. CASE UNCHANGED vars
    BY <1>7 DEF vars
  <1>8. CASE Next
    BY <1>1, <1>2, <1>3, <1>4, <1>5, <1>6, <1>8 DEF Next, Begun
  <1> QED BY <1>7, <1>8

LEMMA NumberedStays ==
    ASSUME TypeOK, TypeOK', Numbered, [Next]_vars
    PROVE  Numbered'
  <1>1. /\ signIns \in Nat /\ signIns' \in Nat
        /\ \A e \in ended : e.id \in Nat
        /\ \A e \in ended' : e.id \in Nat
        /\ \A t \in Tabs : leaving[t].id \in Nat /\ leaving'[t].id \in Nat
        /\ pointer.id \in Nat /\ pointer'.id \in Nat
        /\ \A r \in Reads : read[r].id \in Nat
    BY DEF TypeOK, Leaving, Pointer, Read
  <1>2. session' # NoUser => 1 <= signIns'
    BY <1>1, SessionFrom DEF Numbered
  <1>3. \A r \in Reads : Answered(r)' => 1 <= read'[r].id
    BY <1>1, AnswersFrom DEF Numbered
  <1>4. pointer'.user # NoUser => 1 <= pointer'.id
    <2>1. \A r \in Reads : RecordSession(r) => Answered(r)
      BY DEF RecordSession, Arrived, Answered
    <2> QED BY <1>1, <2>1, PointerFrom DEF Numbered
  <1>5. \A e \in ended' : e.id <= signIns' /\ (session' # NoUser => e.id < signIns')
    <2>1. \A t \in Tabs : LeaveMark(t) => leaving[t].st # "no" /\ session' = session /\ signIns' = signIns
      BY DEF LeaveMark, serverVars
    <2>2. CASE UNCHANGED ended
      BY <1>1, <2>2, SessionFrom DEF Numbered
    <2>3. ASSUME NEW t \in Tabs, LeaveMark(t),
                 ended' = ended \cup {[id |-> leaving[t].id, at |-> leaving[t].at]}
          PROVE  \A e \in ended' : e.id <= signIns' /\ (session' # NoUser => e.id < signIns')
      BY <1>1, <2>1, <2>3 DEF Numbered
    <2> QED BY <2>2, <2>3, RecordFrom
  <1>6. ASSUME NEW t \in Tabs, leaving'[t].st # "no"
        PROVE  leaving'[t].id <= signIns' /\ (session' # NoUser => leaving'[t].id < signIns')
    BY <1>1, <1>6, LeavingFrom, SessionFrom DEF Numbered
  <1> QED BY <1>2, <1>3, <1>4, <1>5, <1>6 DEF Numbered

LEMMA EarlierStays ==
    ASSUME TypeOK, TypeOK', SInv, [Next]_vars
    PROVE  Earlier'
  <1>1. /\ clock \in Nat /\ signIns \in Nat
        /\ \A t \in Tabs : leaving[t].id \in Nat /\ leaving[t].at \in Nat /\ leaving'[t].at \in Nat
        /\ \A e \in ended : e.id \in Nat /\ e.at \in Nat
        /\ \A r \in Reads : read[r].id \in Nat /\ read[r].at \in Nat
    BY DEF TypeOK, Leaving, Read
  <1>2. ASSUME NEW r \in Reads, Answered(r)', NEW e \in ended, read'[r].id = e.id
        PROVE  read'[r].at < e.at
    BY <1>1, <1>2, AnswersFrom DEF SInv, Earlier, Numbered
  <1>3. ASSUME NEW r \in Reads, Answered(r)', NEW t \in Tabs, leaving[t].st = "stamped",
               read'[r].id = leaving[t].id
        PROVE  read'[r].at < leaving[t].at
    BY <1>1, <1>3, AnswersFrom DEF SInv, Earlier, Numbered
  <1>4. ASSUME NEW r \in Reads, Answered(r)', NEW e \in ended', read'[r].id = e.id
        PROVE  read'[r].at < e.at
    <2>1. CASE e \in ended
      BY <1>2, <1>4, <2>1
    <2>2. ASSUME NEW t \in Tabs, LeaveMark(t), e = [id |-> leaving[t].id, at |-> leaving[t].at]
          PROVE  read'[r].at < e.at
      <3>1. leaving[t].st = "stamped"
        BY <2>2 DEF LeaveMark
      <3> QED BY <1>3, <1>4, <2>2, <3>1
    <2> QED BY <1>4, <2>1, <2>2, RecordFrom
  <1>5. ASSUME NEW r \in Reads, Answered(r)', NEW t \in Tabs, leaving'[t].st = "stamped",
               read'[r].id = leaving'[t].id
        PROVE  read'[r].at < leaving'[t].at
    <2>1. CASE leaving'[t] = leaving[t]
      BY <1>3, <1>5, <2>1
    <2>2. CASE clock < leaving'[t].at /\ UNCHANGED read
      BY <1>1, <2>2 DEF SInv, Stamped
    <2> QED BY <1>5, <2>1, <2>2, LeavingFrom
  <1> QED BY <1>4, <1>5 DEF Earlier

LEMMA RecordEarlierStays ==
    ASSUME TypeOK, TypeOK', SInv, [Next]_vars
    PROVE  RecordEarlier' /\ SignOutHolds'
  <1>1. /\ clock \in Nat /\ pointer.at \in Nat /\ pointer'.at \in Nat
        /\ \A t \in Tabs : leaving[t].id \in Nat /\ leaving[t].at \in Nat /\ leaving'[t].at \in Nat
        /\ \A e \in ended : e.id \in Nat /\ e.at \in Nat
        /\ \A r \in Reads : read[r].id \in Nat /\ read[r].at \in Nat
    BY DEF TypeOK, Leaving, Read, Pointer
  <1>2. \A r \in Reads : RecordSession(r) => Answered(r) /\ UNCHANGED <<ended, leaving>>
    BY DEF RecordSession, Arrived, Answered
  <1>3. \A e \in ended' : e.at <= pointer'.at
    BY <1>1, RecordFrom DEF SInv, RecordEarlier
  <1>4. ASSUME pointer'.user # NoUser, NEW e \in ended PROVE e.id # pointer'.id
    <2>1. CASE pointer' = pointer
      BY <1>4, <2>1 DEF SInv, SignOutHolds
    <2>2. ASSUME NEW r \in Reads, RecordSession(r), ~(pointer.at > read[r].at),
                 pointer' = [user |-> read[r].user, epoch |-> read[r].epoch,
                             at |-> read[r].at, id |-> read[r].id]
          PROVE  e.id # pointer'.id
      BY <1>1, <1>2, <2>2 DEF SInv, Earlier, RecordEarlier
    <2> QED BY <1>4, <2>1, <2>2, PointerFrom
  <1>5. ASSUME pointer'.user # NoUser, NEW e \in ended' PROVE e.id # pointer'.id
    <2>1. CASE e \in ended
      BY <1>4, <1>5, <2>1
    <2>2. ASSUME NEW t \in Tabs, LeaveMark(t), e = [id |-> leaving[t].id, at |-> leaving[t].at],
                 pointer' = pointer, pointer.at > leaving[t].at
          PROVE  e.id # pointer'.id
      <3>1. leaving[t].st = "stamped"
        BY <2>2 DEF LeaveMark
      <3> QED BY <1>1, <1>5, <2>2, <3>1 DEF SInv, RecordEarlier
    <2> QED BY <1>5, <2>1, <2>2, RecordFrom
  <1>6. ASSUME NEW t \in Tabs, leaving'[t].st = "stamped", pointer'.user # NoUser,
               pointer'.id = leaving'[t].id
        PROVE  pointer'.at < leaving'[t].at
    <2>1. CASE leaving'[t] = leaving[t] /\ pointer' = pointer
      BY <1>6, <2>1 DEF SInv, RecordEarlier
    <2>2. CASE clock < leaving'[t].at /\ UNCHANGED pointer
      BY <1>1, <2>2 DEF SInv, Stamped
    <2>3. ASSUME NEW r \in Reads, RecordSession(r),
                 pointer' = [user |-> read[r].user, epoch |-> read[r].epoch,
                             at |-> read[r].at, id |-> read[r].id]
          PROVE  pointer'.at < leaving'[t].at
      BY <1>1, <1>2, <1>6, <2>3 DEF SInv, Earlier
    <2> QED BY <1>6, <2>1, <2>2, <2>3, PointerFrom, LeavingFrom
  <1> QED BY <1>3, <1>5, <1>6 DEF RecordEarlier, SignOutHolds

\* A recorded sign-out is final: no answer that predates it brings its session
\* back as the recorded account.
THEOREM SignOutIsFinal == Spec => []SignOutHolds
  <1>1. Init => SInv
    BY UsersAssumption, BoundsAssumption DEF Init, SInv, Stamped, Numbered, Earlier, RecordEarlier, SignOutHolds,
       Idle, NoScope, Staying, Answered
  <1>2. TypeOK /\ TypeOK' /\ SInv /\ [Next]_vars => SInv'
    BY StampsFrom, NumberedStays, EarlierStays, RecordEarlierStays DEF SInv
  <1>3. SInv => SignOutHolds
    BY DEF SInv
  <1>4. Spec => []TypeOK
    BY TypeCorrect
  <1> QED BY <1>1, <1>2, <1>3, <1>4, PTL DEF Spec

=============================================================================

---------------------------- MODULE BrowserScope ----------------------------
(***************************************************************************)
(* Which account's stores a page of the browser may open:                  *)
(* frontend/js/browser-scope.js.  Every tab loads pages; a page binds one  *)
(* account from a session read, or from the last recorded one while the    *)
(* server does not answer, and keeps it until it is retired.  All tabs     *)
(* share one cookie (the server's session), one record of the last         *)
(* confirmed account and one record of an explicit sign-out, both in       *)
(* IndexedDB.                                                              *)
(*                                                                         *)
(* A user stands for a scope (instance, Library, user), and owns the       *)
(* Library whose epoch the server counts.  A session read takes four       *)
(* steps, because tabs interleave between them: it begins and takes its    *)
(* stamp, the server answers it, one transaction records the answer, the   *)
(* page acts on it.  Within a page the read numbers (readSeq) rise with    *)
(* the stamps, so the stamp stands for both.                               *)
(***************************************************************************)
EXTENDS Naturals, FiniteSets

CONSTANTS
    Users,        \* the accounts
    NoUser,       \* no account
    Tabs,
    Reads,        \* session reads that may be in flight, of all tabs together
    MaxReads,     \* MAX_SESSION_READS
    MaxClock,     \* bound: stamps that are told apart
    MaxSignIns,   \* bound
    MaxFaults     \* bound: reads without an answer, failed transactions,
                  \* expired sessions, lost sign-out answers, restores

ASSUME UsersAssumption == NoUser \notin Users
ASSUME ReadsAssumption == Reads \subseteq Nat /\ Tabs # {}
ASSUME BoundsAssumption ==
    /\ MaxReads \in Nat \ {0}
    /\ MaxClock \in Nat \ {0}
    /\ MaxSignIns \in Nat /\ MaxFaults \in 0..MaxClock

VARIABLES
    session,   \* the account the browser's cookie is signed in as
    epoch,     \* the epoch of each account's Library
    pointer,   \* the record of the last confirmed account
    logout,    \* the record of an explicit sign-out
    page,      \* the page each tab shows
    read,      \* the session reads
    leaving,   \* a tab's signOut() call
    clock,     \* the last stamp given out
    signIns, faults,
    ended      \* history: the sessions (numbered by sign-in) whose sign-out was
               \* recorded, with its stamp

vars == <<session, epoch, pointer, logout, page, read, leaving, clock,
          signIns, faults, ended>>
serverVars == <<session, epoch, signIns>>

-----------------------------------------------------------------------------
(* Records.  An id is history: which of the browser's sign-ins it is of. *)

Anyone == Users \cup {NoUser}

Pointer == [user: Anyone, epoch: Nat, at: Nat, id: Nat]
Logout  == [user: Anyone, at: Nat]

\* noScopeRecord: no account, and the time that was decided.
NoScope(at) == [user |-> NoUser, epoch |-> 0, at |-> at, id |-> 0]

(* st: "closed", "resolving" until resolve() settles, then "resolved", or    *)
(* "retired".  bound, opened, latest: the account, pageEpoch, latestEpoch.   *)
(* told: a logged_out message not yet delivered.                             *)
Page == [st: {"closed", "resolving", "resolved", "retired"},
         bound: Anyone, opened: Nat, latest: Nat, told: Anyone]

Closed  == [st |-> "closed", bound |-> NoUser, opened |-> 0, latest |-> 0,
            told |-> NoUser]
Loading == [Closed EXCEPT !.st = "resolving"]

(* st: "sent", "answered", "decided" (the page will act on kind),            *)
(* "fallback" (pointer.read is due), "asking" (loggedOut is due).            *)
Kinds == {"session", "none", "unreachable", "superseded"}
Read  == [st: {"idle", "sent", "answered", "decided", "fallback", "asking"},
          tab: Tabs, at: Nat, late: BOOLEAN, tries: 0..MaxReads, kind: Kinds,
          user: Anyone, epoch: Nat, id: Nat]

\* It is of no tab in particular.
Idle == [st |-> "idle", tab |-> CHOOSE t \in Tabs : TRUE, at |-> 0, late |-> FALSE,
         tries |-> 0, kind |-> "none", user |-> NoUser, epoch |-> 0, id |-> 0]

\* signOut(): the server ended the session, the stamp is taken.
Leaving == [st: {"no", "ended", "stamped"}, at: Nat, id: Nat]
Staying == [st |-> "no", at |-> 0, id |-> 0]

Live(t)   == page[t].st = "resolved" /\ page[t].bound # NoUser
Of(t)     == {r \in Reads : read[r].st # "idle" /\ read[r].tab = t}
Resolving(r) == page[read[r].tab].st = "resolving"

\* now(): stamps are told apart up to MaxClock.
Stamp == IF clock < MaxClock THEN clock + 1 ELSE MaxClock

\* A read to begin: which of the idle ones makes no difference.
Free == {r \in Reads : /\ read[r].st = "idle"
                       /\ \A q \in Reads : read[q].st = "idle" => r <= q}

\* A read of r's page that says nothing yet.
Blank(r) == [Idle EXCEPT !.tab = read[r].tab]

\* The answer the page will act on.
Acting(r) == [Blank(r) EXCEPT !.st = "decided", !.kind = read[r].kind,
                              !.user = read[r].user, !.epoch = read[r].epoch]

Sent(t, tries) == [Idle EXCEPT !.st = "sent", !.tab = t, !.at = Stamp, !.tries = tries]

-----------------------------------------------------------------------------
\* The bounds are shared: of MaxClock stamps and MaxFaults faults, a behaviour
\* that may yet have fewer faults has more stamps to come.
Init ==
    /\ session = NoUser
    /\ epoch = [u \in Users |-> 1]
    /\ pointer = NoScope(0)
    /\ logout = [user |-> NoUser, at |-> 0]
    /\ page = [t \in Tabs |-> Closed]
    /\ read = [r \in Reads |-> Idle]
    /\ leaving = [t \in Tabs |-> Staying]
    /\ signIns = 0
    /\ faults \in 0..MaxFaults /\ clock = MaxFaults - faults
    /\ ended = {}

Fault == faults < MaxFaults /\ faults' = faults + 1

-----------------------------------------------------------------------------
(* The server, and what other pages of the browser do to its session *)

SignIn(u) ==
    /\ session # u /\ signIns < MaxSignIns
    /\ session' = u /\ signIns' = signIns + 1
    /\ UNCHANGED <<epoch, pointer, logout, page, read, leaving, clock, faults, ended>>

Expire ==
    /\ session # NoUser
    /\ session' = NoUser
    /\ Fault
    /\ UNCHANGED <<epoch, pointer, logout, page, read, leaving, clock, signIns, ended>>

Restore(u) ==
    /\ epoch' = [epoch EXCEPT ![u] = @ + 1]
    /\ Fault
    /\ UNCHANGED <<session, pointer, logout, page, read, leaving, clock, signIns, ended>>

-----------------------------------------------------------------------------
(* readSession *)

\* A page loads (or reloads) and binds at once: resolve() begins its read.
Load(t) ==
    /\ \E r \in Of(t) \cup Free :
          read' = [q \in Reads |-> IF q = r THEN Sent(t, 1) ELSE IF q \in Of(t) THEN Idle ELSE read[q]]
    /\ clock' = Stamp
    /\ page' = [page EXCEPT ![t] = Loading]
    /\ leaving' = [leaving EXCEPT ![t] = Staying]
    /\ UNCHANGED <<serverVars, pointer, logout, faults, ended>>

\* verify(): from the lifecycle, the sync runtime, or noteEpoch.
Verify(t, r) ==
    /\ Live(t) /\ r \in Free
    /\ read' = [read EXCEPT ![r] = Sent(t, 1)]
    /\ clock' = Stamp
    /\ UNCHANGED <<serverVars, pointer, logout, page, leaving, faults, ended>>

\* Mutant: a header's epoch is taken for the page's own Library's.
NoteEpochRaises(t, r) ==
    /\ Live(t) /\ session # NoUser /\ epoch[session] > page[t].latest
    /\ page' = [page EXCEPT ![t].latest = epoch[session]]
    /\ UNCHANGED <<serverVars, pointer, logout, read, leaving, clock, faults, ended>>

\* An answer's header names a higher epoch, of whoever is signed in: verify.
NoteEpoch(t, r) ==
    /\ session # NoUser /\ epoch[session] > page[t].latest
    /\ Verify(t, r)

\* The server answers with the session it has now.
Answer(r) ==
    /\ read[r].st = "sent"
    /\ read' = [read EXCEPT ![r].st = "answered",
                            ![r].kind = IF session = NoUser THEN "none" ELSE "session",
                            ![r].user = session,
                            ![r].epoch = IF session = NoUser THEN 0 ELSE epoch[session],
                            ![r].id = IF session = NoUser THEN 0 ELSE signIns]
    /\ UNCHANGED <<serverVars, pointer, logout, page, leaving, clock, faults, ended>>

\* fetchAnswer fails: an answer like another, which says nothing.
FetchFails(r) ==
    /\ read[r].st = "sent"
    /\ read' = [read EXCEPT ![r].st = "answered", ![r].kind = "unreachable"]
    /\ Fault
    /\ UNCHANGED <<serverVars, pointer, logout, page, leaving, clock, ended>>

\* Nothing heard: resolve() falls back, verify() tries again later.
Unheard(r) == [Blank(r) EXCEPT !.kind = "unreachable",
                               !.st = IF Resolving(r) THEN "fallback" ELSE "decided"]

\* The deadline passes first, and a later answer is dropped.
Deadline(r) ==
    /\ read[r].st \in {"sent", "answered"}
    /\ read' = [read EXCEPT ![r] = Unheard(r)]
    /\ Fault
    /\ UNCHANGED <<serverVars, pointer, logout, page, leaving, clock, ended>>

\* Mutant: the tries are not counted down.
AgainForever(r) == Sent(read[r].tab, read[r].tries + 1)

\* A newer read outranks this answer: read again, MaxReads times in all.
Again(r) == IF read[r].tries < MaxReads THEN Sent(read[r].tab, read[r].tries + 1)
            ELSE [Blank(r) EXCEPT !.st = "decided", !.kind = "superseded"]
ClockAgain(r) == IF read[r].tries < MaxReads THEN Stamp ELSE clock

-----------------------------------------------------------------------------
(* The pointer's transactions *)

\* pointer.write: what it answers for a session of u read from `began`.
WriteOutcome(u, began) ==
    IF logout.user = u /\ ~(began > logout.at) THEN "logged_out"
    ELSE IF pointer.at > began /\ pointer.user # u THEN "stale"
    ELSE "written"

\* pointer.forget
ForgetOutcome(began) ==
    IF pointer.at > began /\ pointer.user # NoUser THEN "stale" ELSE "written"

Arrived(r) == read[r].st = "answered" /\ ~read[r].late

\* The page acts on r next, and never on a read it began before r.
Decided(r, d) == [q \in Reads |->
    IF q = r THEN d
    ELSE IF read[q].tab = read[r].tab /\ read[q].at < read[r].at /\ read[q].st \in {"sent", "answered"}
    THEN [read[q] EXCEPT !.late = TRUE] ELSE read[q]]

\* seq < recordedSeq: read again.
ArriveLate(r) ==
    /\ read[r].st = "answered" /\ read[r].late
    /\ read' = [read EXCEPT ![r] = Again(r)] /\ clock' = ClockAgain(r)
    /\ UNCHANGED <<serverVars, pointer, logout, page, leaving, faults, ended>>

\* pointer.write of a session answer.
RecordSession(r) == LET u == read[r].user
                        began == read[r].at
                        outcome == WriteOutcome(u, began) IN
    /\ Arrived(r) /\ read[r].kind = "session"
    /\ logout' = IF outcome # "logged_out" /\ logout.user = u
                 THEN [user |-> NoUser, at |-> 0] ELSE logout
    /\ pointer' = IF outcome = "written" /\ ~(pointer.at > began)
                  THEN [user |-> u, epoch |-> read[r].epoch, at |-> began,
                        id |-> read[r].id] ELSE pointer
    /\ read' = Decided(r, CASE outcome = "written"    -> Acting(r)
                            [] outcome = "logged_out" -> [Blank(r) EXCEPT !.st = "decided"]
                            [] outcome = "stale"      -> Again(r))
    /\ clock' = IF outcome = "stale" THEN ClockAgain(r) ELSE clock
    /\ UNCHANGED <<serverVars, page, leaving, faults, ended>>

\* pointer.forget of a refusal.
RecordRefusal(r) == LET began == read[r].at
                        stale == ForgetOutcome(began) = "stale" IN
    /\ Arrived(r) /\ read[r].kind = "none"
    /\ pointer' = IF pointer.at > began THEN pointer ELSE NoScope(began)
    /\ read' = Decided(r, IF stale THEN Again(r) ELSE Acting(r))
    /\ clock' = IF stale THEN ClockAgain(r) ELSE clock
    /\ UNCHANGED <<serverVars, logout, page, leaving, faults, ended>>

\* No answer, no transaction; the read still outranks the earlier ones.
RecordNothing(r) ==
    /\ Arrived(r) /\ read[r].kind = "unreachable"
    /\ read' = Decided(r, Unheard(r))
    /\ UNCHANGED <<serverVars, pointer, logout, page, leaving, clock, faults, ended>>

\* The transaction fails, and the answer counts as written.
RecordFails(r) ==
    /\ Arrived(r) /\ read[r].kind # "unreachable"
    /\ read' = Decided(r, Acting(r))
    /\ Fault
    /\ UNCHANGED <<serverVars, pointer, logout, page, leaving, clock, ended>>

-----------------------------------------------------------------------------
(* What the page does with an answer *)

Bind(t, u, e) == [page[t] EXCEPT !.st = "resolved", !.bound = u, !.opened = e, !.latest = e]

\* resolve() with the server unreachable: the last confirmed account.
Fallback(r) ==
    /\ read[r].st = "fallback"
    /\ read' = [read EXCEPT ![r].st = "decided", ![r].user = pointer.user, ![r].epoch = pointer.epoch]
    /\ UNCHANGED <<serverVars, pointer, logout, page, leaving, clock, faults, ended>>

\* resolve() settles: an account, or none for the life of the page.
Resolve(r) == LET t == read[r].tab IN
    /\ read[r].st = "decided" /\ Resolving(r)
    /\ page' = [page EXCEPT ![t] = Bind(t, read[r].user, read[r].epoch)]
    /\ read' = [read EXCEPT ![r] = Idle]
    /\ UNCHANGED <<serverVars, pointer, logout, leaving, clock, faults, ended>>

\* retire
Retired(t) == [page EXCEPT ![t].st = "retired"]

\* raiseEpoch
Raised(t, e) == [page EXCEPT ![t].latest = IF e > @ THEN e ELSE @]

\* Mutant: whoever the session is of, its epoch counts.
JudgedSame(t, answer) == Raised(t, answer.epoch)

\* A session of the page's own account, or of another.
Judged(t, answer) == IF answer.user = page[t].bound THEN Raised(t, answer.epoch) ELSE Retired(t)

\* verify() settles; a refusal asks for an explicit sign-out first.
Settle(r) == LET t == read[r].tab IN
    /\ read[r].st = "decided" /\ ~Resolving(r)
    /\ IF ~Live(t) \/ read[r].kind \in {"unreachable", "superseded"}
       THEN read' = [read EXCEPT ![r] = Idle] /\ UNCHANGED page
       ELSE IF read[r].kind = "none"
       THEN read' = [read EXCEPT ![r].st = "asking"] /\ UNCHANGED page
       ELSE /\ read' = [read EXCEPT ![r] = Idle]
            /\ page' = Judged(t, read[r])
    /\ UNCHANGED <<serverVars, pointer, logout, leaving, clock, faults, ended>>

\* Mutant: only the broadcast retires a page of an account that signed out.
SignedOutHeld(r) ==
    /\ read[r].st = "asking"
    /\ read' = [read EXCEPT ![r] = Idle]
    /\ UNCHANGED <<serverVars, pointer, logout, page, leaving, clock, faults, ended>>

\* 'logged_out' retires the page; 'signed_out' (an expired session) holds it.
SignedOut(r) == LET t == read[r].tab IN
    /\ read[r].st = "asking"
    /\ page' = IF Live(t) /\ logout.user = page[t].bound THEN Retired(t) ELSE page
    /\ read' = [read EXCEPT ![r] = Idle]
    /\ UNCHANGED <<serverVars, pointer, logout, leaving, clock, faults, ended>>

-----------------------------------------------------------------------------
(* signOut() *)

\* The server ends the browser's session, whoever it belongs to.
Leave(t) ==
    /\ page[t].st \in {"resolved", "retired"} /\ leaving[t].st = "no" /\ clock + 1 < MaxClock
    /\ session' = NoUser
    /\ leaving' = [leaving EXCEPT ![t].st = "ended", ![t].id = IF session = NoUser THEN 0 ELSE signIns]
    /\ UNCHANGED <<epoch, signIns, pointer, logout, page, read, clock, faults, ended>>

\* The answer is lost: sign_out_failed, nothing is recorded.
LeaveFails(t) ==
    /\ leaving[t].st = "ended"
    /\ leaving' = [leaving EXCEPT ![t] = Staying]
    /\ Fault
    /\ UNCHANGED <<serverVars, pointer, logout, page, read, clock, ended>>

\* The answer arrives; a page that bound nothing stops here.
LeaveStamp(t) ==
    /\ leaving[t].st = "ended" /\ clock + 1 < MaxClock
    /\ IF page[t].bound = NoUser
       THEN leaving' = [leaving EXCEPT ![t] = Staying] /\ UNCHANGED clock
       ELSE leaving' = [leaving EXCEPT ![t].st = "stamped", ![t].at = Stamp] /\ clock' = Stamp
    /\ UNCHANGED <<serverVars, pointer, logout, page, read, faults, ended>>

\* The broadcast and this page's retirement, which follow the transaction.
Announced(t) == [s \in Tabs |->
    IF s = t THEN [page[t] EXCEPT !.st = "retired"]
    ELSE IF page[s].st = "closed" THEN page[s]
    ELSE [page[s] EXCEPT !.told = page[t].bound]]

\* Mutant: the sign-out deletes the record and leaves no other.
LeaveMarkDeletes(t) ==
    /\ leaving[t].st = "stamped"
    /\ pointer' = NoScope(0)
    /\ ended' = ended \cup {[id |-> leaving[t].id, at |-> leaving[t].at]}
    /\ page' = Announced(t)
    /\ leaving' = [leaving EXCEPT ![t] = Staying]
    /\ UNCHANGED <<serverVars, logout, read, clock, faults>>

\* pointer.markLoggedOut
LeaveMark(t) == LET at == leaving[t].at IN
    /\ leaving[t].st = "stamped"
    /\ pointer' = IF pointer.at > at THEN pointer ELSE NoScope(at)
    /\ logout' = [user |-> page[t].bound, at |-> at]
    /\ ended' = ended \cup {[id |-> leaving[t].id, at |-> at]}
    /\ page' = Announced(t)
    /\ leaving' = [leaving EXCEPT ![t] = Staying]
    /\ UNCHANGED <<serverVars, read, clock, faults>>

\* The transaction fails, which stops neither the broadcast nor the retirement.
LeaveMarkFails(t) ==
    /\ leaving[t].st = "stamped"
    /\ page' = Announced(t)
    /\ leaving' = [leaving EXCEPT ![t] = Staying]
    /\ Fault
    /\ UNCHANGED <<serverVars, pointer, logout, read, clock, ended>>

\* onChannelMessage: a page that has not bound yet ignores it.
Told(t) ==
    /\ page[t].told # NoUser
    /\ page' = [page EXCEPT ![t].told = NoUser,
                            ![t].st = IF Live(t) /\ page[t].bound = page[t].told
                                      THEN "retired" ELSE @]
    /\ UNCHANGED <<serverVars, pointer, logout, read, leaving, clock, faults, ended>>

-----------------------------------------------------------------------------
ReadStep(r) == Answer(r) \/ ArriveLate(r) \/ RecordSession(r) \/ RecordRefusal(r)
               \/ RecordNothing(r) \/ Fallback(r) \/ Resolve(r) \/ Settle(r) \/ SignedOut(r)

Next ==
    \/ \E u \in Users : SignIn(u) \/ Restore(u)
    \/ Expire
    \/ \E r \in Reads, t \in Tabs : Verify(t, r) \/ NoteEpoch(t, r)
    \/ \E r \in Reads : FetchFails(r) \/ Deadline(r) \/ RecordFails(r) \/ ReadStep(r)
    \/ \E t \in Tabs : \/ Load(t) \/ Leave(t) \/ LeaveFails(t)
                       \/ LeaveStamp(t) \/ LeaveMark(t) \/ LeaveMarkFails(t) \/ Told(t)

Spec == Init /\ [][Next]_vars

(* A visible page verifies at least once a minute (watchLifecycle), a read  *)
(* it began ends (at the deadline if not before), a message is delivered.   *)
(* Loads, sign-ins, sign-outs and faults are never owed.  Verify's fairness *)
(* is strong only because the tabs share the model's Reads: in the browser  *)
(* another tab's reads never keep a page from beginning its own.            *)
Fairness ==
    /\ \A t \in Tabs : SF_vars(\E r \in Reads : Verify(t, r)) /\ WF_vars(Told(t))
    /\ \A r \in Reads : WF_vars(ReadStep(r))

FairSpec == Spec /\ Fairness

-----------------------------------------------------------------------------
(* Properties *)

\* Every variable keeps the shape the code gives it.
TypeOK ==
    /\ session \in Anyone
    /\ epoch \in [Users -> Nat]
    /\ pointer \in Pointer
    /\ logout \in Logout
    /\ page \in [Tabs -> Page]
    /\ read \in [Reads -> Read]
    /\ leaving \in [Tabs -> Leaving]
    /\ clock \in 0..MaxClock
    /\ signIns \in Nat /\ faults \in Nat
    /\ ended \subseteq [id: Nat, at: Nat]

\* A session whose sign-out was recorded is never the recorded one again: no
\* answer of any tab that predates the sign-out, and no other account's record
\* in between, brings it back for an offline reload to open ("a refusal or a
\* sign-out keeps its time as a record with no scope", local-first-sync.md).
SignOutHolds == pointer.user # NoUser => \A e \in ended : e.id # pointer.id

\* A page's epochs are its own Library's: never ahead of it, whoever's
\* answers name a higher one ("a header does not say whose Library it is",
\* browser-scope.js), and never behind the one it opened with.
EpochOwn == \A t \in Tabs : page[t].bound # NoUser =>
    /\ page[t].opened <= page[t].latest
    /\ page[t].latest <= epoch[page[t].bound]

\* When another account stays signed in, every page of this one is retired in
\* the end: outranked, unanswered and unrecorded reads do not keep it live.
ForeignPageRetires == \A u \in Users :
    <>[](session \notin {u, NoUser}) => <>[](\A t \in Tabs : ~(Live(t) /\ page[t].bound = u))

\* When an account stays signed out on purpose, every page of it is retired,
\* also one that bound it between the sign-out's record and its broadcast.
SignedOutPageRetires == \A u \in Users :
    <>[](session = NoUser /\ logout.user = u)
        => <>[](\A t \in Tabs : ~(Live(t) /\ page[t].bound = u))

=============================================================================

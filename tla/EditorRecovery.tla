--------------------------- MODULE EditorRecovery ---------------------------
(***************************************************************************)
(* Browser-local recovery of unsaved editor text                           *)
(* (frontend-app/src/lifecycle/editor-recovery): the IndexedDB store of    *)
(* drafts that all pages of an account share, each page's writer, the      *)
(* localStorage key a page writes when it hides, the merge of dead pages'  *)
(* keys, and what a page does with the drafts it finds.  One editor, at    *)
(* most one session of it per page.                                        *)
(***************************************************************************)
EXTENDS Naturals, Sequences, FiniteSets

CONSTANTS
    Pages,         \* page loads, each with a fresh pageInstanceId
    NoPage, NoLineage,
    MaxTexts,      \* edits in all
    MaxAdoptions,  \* drafts taken over in all
    MaxFaults,     \* writes a storage refuses, and pages that miss a ping, in all
    MaxServed      \* texts the server takes, in all

ASSUME ConstantsOK ==
    /\ NoPage \notin Pages
    /\ {MaxTexts, MaxAdoptions, MaxFaults, MaxServed} \subseteq Nat

VARIABLES
    page,      \* what each page is: see PageStates
    typed,     \* every text reported to a writer: generation and what it was typed over
    draft,     \* the store: lineage -> its record and body
    key,       \* per page, its emergency key: the one entry, or none
    marks,     \* superseded generations whose removal may still be due
    ed,        \* per page, its editor session and writer
    listed,    \* per page, the lineage it knows its key to list
    stones,    \* per page, the lineages its key's tombstones stand for
    write,     \* per page, its writer's write in flight
    chore,     \* per page, an acknowledgement being carried out
    scan,      \* per page, a merge of emergency keys
    plan,      \* per page, what it has decided to do with a draft it found
    served,    \* the texts the server has acknowledged
    adoptions, faults,
    dropped,   \* history: tails that a merge dropped, or that a tombstone buried
    safe,      \* history: texts committed, or in a key with their body
    discarded, \* history: texts the user discarded
    gone       \* history: drafts discarded whose page was proven gone

local  == <<typed, ed, listed, stones, write, chore, scan, plan>>
limits == <<adoptions, faults>>
vars == <<page, draft, key, marks, local, served, limits, safe, dropped, discarded, gone>>

-----------------------------------------------------------------------------
(* Texts, lineages and records *)

\* A text is its number; 0 is none.
Texts == 1..Len(typed)
Gen(t) == IF t = 0 THEN 0 ELSE typed[t].gen

\* The texts t was typed over.
Under(t) == IF t = 0 THEN {} ELSE typed[t].under

\* What the server holds: it takes a text only on the one it holds, so the newest.
Note == IF served = {} THEN 0 ELSE CHOOSE t \in served : \A u \in served : u <= t

\* mintId, and forkedDraftId.
Lineage == [page : Pages, nth : Nat, forks : Seq(Nat)]
ASSUME NoLineageOK == NoLineage \notin Lineage
Minted(p, n) == [page |-> p, nth |-> n, forks |-> <<>>]
Fork(d, t) == [d EXCEPT !.forks = Append(@, Gen(t))]

PageStates == {"new", "open", "gone"}
Gone(p) == page[p] = "gone"
Here(p) == page[p] = "open"

\* A record is of its text's generation.  A discarded one, a tombstone, has
\* no body: its owner is the page whose key it answers.
Row == [owner : Pages, text : Nat, status : {"active", "tail-missing", "discarded"},
        source : Pages \cup {NoPage}]
HasRow(d) == d \in DOMAIN draft
Kept(d) == HasRow(d) /\ draft[d].status # "discarded"

\* An entry of an emergency key.
Entry == [id : Lineage, tail : Nat, body : BOOLEAN, committed : BOOLEAN]
NoEntry == [id |-> NoLineage, tail |-> 0, body |-> FALSE, committed |-> FALSE]

NewEditor == [id |-> NoLineage, stored |-> FALSE, committed |-> 0, latest |-> 0,
              shown |-> 0, minted |-> 0, told |-> 0, failed |-> FALSE]
NoWrite == [id |-> NoLineage, text |-> 0, create |-> FALSE, out |-> "none"]
NoChore == [pc |-> "none", text |-> 0, id |-> NoLineage, out |-> "none"]
NoScan  == [pc |-> "none", todo |-> {}, of |-> NoPage, entry |-> NoEntry, definite |-> FALSE]
NoPlan  == [act |-> "none", id |-> NoLineage, row |-> [owner |-> NoPage], stone |-> NoPage,
            proven |-> FALSE]

-----------------------------------------------------------------------------
(* What transactions do to the store *)

With(d, row) == [e \in DOMAIN draft \cup {d} |-> IF e = d THEN row ELSE draft[e]]
Without(d) == [e \in DOMAIN draft \ {d} |-> draft[e]]

\* retire: deletes a record, or leaves a tombstone for the key it came from.
Retired(d) ==
    IF draft[d].source = NoPage THEN Without(d)
    ELSE With(d, [draft[d] EXCEPT !.owner = draft[d].source, !.status = "discarded",
                                  !.source = NoPage])

\* discard with a tombstone for the key of page q: it also answers the key the
\* record came from, or that an earlier tombstone in its place answers.
Entombed(d, q, newest) ==
    LET first == IF ~HasRow(d) THEN NoPage
                 ELSE IF draft[d].source # NoPage THEN draft[d].source
                 ELSE IF draft[d].status = "discarded" THEN draft[d].owner ELSE NoPage
        text == IF HasRow(d) /\ Gen(draft[d].text) > Gen(newest) THEN draft[d].text ELSE newest
    IN  With(d, [owner |-> q, text |-> text, status |-> "discarded",
                 source |-> IF first = q THEN NoPage ELSE first])

\* A mutant: a tombstone is taken to answer a second key always.
UnmarkedAny(d, q) ==
    CASE HasRow(d) /\ draft[d].source = q -> With(d, [draft[d] EXCEPT !.source = NoPage])
      [] HasRow(d) /\ ~Kept(d) /\ draft[d].owner = q /\ draft[d].source # q ->
            With(d, [draft[d] EXCEPT !.owner = draft[d].source, !.source = NoPage])
      [] OTHER -> draft

\* clearTombstone: the key of page q is gone, and what answered it goes too.
Unmarked(d, q) ==
    CASE HasRow(d) /\ draft[d].source = q -> With(d, [draft[d] EXCEPT !.source = NoPage])
      [] HasRow(d) /\ ~Kept(d) /\ draft[d].owner = q /\ draft[d].source = NoPage -> Without(d)
      [] HasRow(d) /\ ~Kept(d) /\ draft[d].owner = q /\ draft[d].source \notin {q, NoPage} ->
            With(d, [draft[d] EXCEPT !.owner = draft[d].source, !.source = NoPage])
      [] OTHER -> draft

\* applyEmergencyEntry, for an entry e of page q's key.
FromEntry(q, e) == [owner |-> q, text |-> e.tail, status |-> "active", source |-> q]
Applied(q, e) ==
    LET d == e.id
        fork == Fork(d, e.tail)
    IN  CASE ~HasRow(d) /\ ~e.committed /\ e.body -> With(d, FromEntry(q, e))
          [] Kept(d) /\ draft[d].owner = q /\ Gen(draft[d].text) < Gen(e.tail) ->
               With(d, IF e.body THEN [draft[d] EXCEPT !.text = e.tail, !.status = "active"]
                                 ELSE [draft[d] EXCEPT !.status = "tail-missing"])
          [] Kept(d) /\ draft[d].owner # q /\ e.body /\ ~HasRow(fork) ->
               With(fork, FromEntry(q, e))
          [] OTHER -> draft

\* An entry with a body is dropped when it says that its lineage was
\* committed and no record is left, under a tombstone of other texts, and when
\* the fork it would become is already another page's of that generation.
DroppedTail(q, e) ==
    LET d == e.id
        fork == Fork(d, e.tail)
    IN  e.body /\ \/ ~HasRow(d) /\ e.committed
                  \/ HasRow(d) /\ ~Kept(d) /\ e.tail \notin {draft[d].text} \cup Under(draft[d].text)
                  \/ /\ Kept(d) /\ draft[d].owner # q /\ HasRow(fork)
                     /\ e.tail \notin {draft[fork].text} \cup Under(draft[fork].text)

-----------------------------------------------------------------------------
(* A page's emergency key *)

\* A storage works, or refuses within the bound.
Works == UNCHANGED faults
Refuses == faults < MaxFaults /\ faults' = faults + 1

Safe(t) == safe' = safe \cup {t}

\* What only the key of p still had is lost, with the leave guard armed.
Exposed(p) == safe' = safe \ (({key[p].tail} \cup Under(key[p].tail))
                               \ {draft[d].text : d \in {e \in DOMAIN draft : Kept(e)}})

SetKey(p, e) == key' = [key EXCEPT ![p] = e] /\ listed' = [listed EXCEPT ![p] = e.id]

\* writeEmergencyNow, for a pending writer w: with its body, or without it
\* over the budget or the quota, or not at all.
EntryOf(w, body) == [id |-> w.id, tail |-> w.latest, body |-> body,
                     committed |-> w.stored /\ w.committed # 0]
KeyWritten(p, w) == Works /\ SetKey(p, EntryOf(w, TRUE)) /\ Safe(w.latest)
KeyStripped(p, w) == Refuses /\ SetKey(p, EntryOf(w, FALSE)) /\ Exposed(p)
KeyKept == Refuses /\ UNCHANGED <<key, listed, safe>>
WriteKey(p, w) == KeyWritten(p, w) \/ KeyStripped(p, w) \/ KeyKept

\* removeEmergencyKey: removed or emptied, unless storage refuses both.
KeyRemoved(p) == Works /\ SetKey(p, NoEntry) /\ UNCHANGED safe
KeyGivenUp(p) == Refuses /\ SetKey(p, NoEntry) /\ Exposed(p)
KeyStuck(p) == Refuses /\ UNCHANGED <<key, listed>> /\ Exposed(p)

\* refreshEmergencyKey: an entry whose writer committed, was cleared or moved
\* to another lineage does not outlive it.
RefreshKey(p, w) ==
    \/ /\ listed[p] = NoLineage \/ (w.latest # 0 /\ listed[p] = w.id)
       /\ UNCHANGED <<key, listed, faults, safe>>
    \/ /\ listed[p] # NoLineage /\ w.latest = 0
       /\ KeyRemoved(p) \/ KeyKept
    \/ /\ listed[p] # NoLineage /\ w.latest # 0 /\ listed[p] # w.id
       /\ KeyWritten(p, w) \/ KeyStripped(p, w) \/ KeyGivenUp(p) \/ KeyStuck(p)

-----------------------------------------------------------------------------
(* The writer *)

SetEditor(p, w) == ed' = [ed EXCEPT ![p] = w]
KeyStepOnly == UNCHANGED <<page, draft, marks, typed, stones, served, adoptions,
                           dropped, discarded, gone>>

\* startLineage.
FreshLineage(p, w) == [w EXCEPT !.id = Minted(p, w.minted + 1), !.minted = @ + 1,
                                !.stored = FALSE, !.committed = 0]
NoLineageLeft(w) == [w EXCEPT !.id = NoLineage, !.stored = FALSE, !.committed = 0,
                              !.failed = FALSE]

\* The user types: the newest generation and body are reported to the writer.
Edit(p) ==
    LET t == Len(typed) + 1
        under == IF ed[p].shown = 0 THEN {} ELSE {ed[p].shown} \cup Under(ed[p].shown)
        lineage == IF ed[p].id = NoLineage THEN FreshLineage(p, ed[p]) ELSE ed[p]
        w == [lineage EXCEPT !.latest = t, !.shown = t, !.failed = FALSE]
    IN  /\ Here(p) /\ t <= MaxTexts
        /\ typed' = Append(typed, [gen |-> Gen(ed[p].shown) + 1, under |-> under])
        /\ SetEditor(p, w) /\ RefreshKey(p, w)
        /\ UNCHANGED <<page, draft, marks, stones, write, chore, scan, plan, served,
                       adoptions, dropped, discarded, gone>>

\* A timer, a retry, the end of an earlier write or a flush starts the newest.
StartWrite(p) ==
    /\ Here(p) /\ write[p] = NoWrite /\ ed[p].latest # 0
    /\ write' = [write EXCEPT ![p] = [id |-> ed[p].id, text |-> ed[p].latest,
                                      create |-> ~ed[p].stored, out |-> "sent"]]
    /\ UNCHANGED <<page, draft, key, marks, typed, ed, listed, stones, chore, scan, plan,
                   served, limits, safe, dropped, discarded, gone>>

\* A mutant: a write does not look at the generation it finds.
WriteOutcomeAny(p) ==
    LET d == write[p].id
    IN  CASE ~HasRow(d) -> IF write[p].create THEN "ok" ELSE "missing"
          [] HasRow(d) /\ draft[d].owner # p -> "not-owner"
          [] OTHER -> "ok"

\* writeGeneration: only the owner page writes a lineage, and only forward.
WriteOutcome(p) ==
    LET d == write[p].id
    IN  CASE ~HasRow(d) -> IF write[p].create THEN "ok" ELSE "missing"
          [] HasRow(d) /\ draft[d].owner # p -> "not-owner"
          [] HasRow(d) /\ draft[d].owner = p /\ Gen(draft[d].text) >= Gen(write[p].text) -> "stale"
          [] OTHER -> "ok"
CommitWrite(p) ==
    LET d == write[p].id
        source == IF HasRow(d) THEN draft[d].source ELSE NoPage
    IN  /\ write[p].out = "sent"
        /\ IF WriteOutcome(p) = "ok"
           THEN /\ draft' = With(d, [owner |-> p, text |-> write[p].text,
                                     status |-> "active", source |-> source])
                /\ Safe(write[p].text)
           ELSE UNCHANGED <<draft, safe>>
        /\ write' = [write EXCEPT ![p].out = WriteOutcome(p)]
        /\ UNCHANGED <<page, key, marks, typed, ed, listed, stones, chore, scan, plan,
                       served, limits, dropped, discarded, gone>>
FailWrite(p) ==
    /\ write[p].out = "sent" /\ Refuses
    /\ write' = [write EXCEPT ![p].out = "failed"]
    /\ UNCHANGED <<page, draft, key, marks, typed, ed, listed, stones, chore, scan, plan,
                   served, adoptions, safe, dropped, discarded, gone>>

\* What the writer makes of the outcome.  A lineage that is another page's,
\* removed or newer elsewhere is never written again: the text moves on.
AfterWrite(p) ==
    LET out == write[p].out
        w == CASE ed[p].id # write[p].id -> ed[p]
               [] ed[p].id = write[p].id /\ out = "ok" ->
                    [ed[p] EXCEPT !.stored = TRUE, !.committed = write[p].text, !.failed = FALSE,
                                  !.latest = IF @ = write[p].text THEN 0 ELSE @]
               [] ed[p].id = write[p].id /\ out = "failed" -> [ed[p] EXCEPT !.failed = TRUE]
               [] OTHER -> FreshLineage(p, ed[p])
    IN  /\ Here(p) /\ out \notin {"none", "sent"}
        /\ SetEditor(p, w) /\ RefreshKey(p, w)
        /\ write' = [write EXCEPT ![p] = NoWrite]
        /\ KeyStepOnly /\ UNCHANGED <<chore, scan, plan>>

-----------------------------------------------------------------------------
(* The page *)

PageStep(p, state) ==
    /\ page' = [page EXCEPT ![p] = state]
    /\ UNCHANGED <<draft, marks, typed, stones, served, adoptions, dropped, discarded, gone>>
Open(p) ==
    /\ page[p] = "new" /\ PageStep(p, "open")
    /\ UNCHANGED <<key, ed, listed, write, chore, scan, plan, faults, safe>>

\* visibilitychange to hidden: text not yet stored goes to the key.
Hide(p) ==
    /\ Here(p) /\ ed[p].latest # 0
    /\ WriteKey(p, ed[p])
    /\ KeyStepOnly /\ UNCHANGED <<ed, write, chore, scan, plan>>

\* A page's memory goes with it.  A transaction it had open commits before
\* any that another page begins later, or never: CommitWrite comes first.
Forgotten(p) ==
    /\ ed' = [ed EXCEPT ![p] = NewEditor] /\ write' = [write EXCEPT ![p] = NoWrite]
    /\ chore' = [chore EXCEPT ![p] = NoChore] /\ scan' = [scan EXCEPT ![p] = NoScan]
    /\ plan' = [plan EXCEPT ![p] = NoPlan]

\* The final pagehide.
Close(p) ==
    /\ Here(p) /\ PageStep(p, "gone") /\ Forgotten(p)
    /\ IF ed[p].latest = 0 THEN UNCHANGED <<key, listed, faults, safe>>
       ELSE WriteKey(p, ed[p])
Crash(p) ==
    /\ Here(p) /\ PageStep(p, "gone") /\ Forgotten(p)
    /\ UNCHANGED <<key, listed, faults, safe>>

-----------------------------------------------------------------------------
(* Acknowledgements *)

\* The server takes the operation of a text, from whichever page sends it.
Serve(t) ==
    /\ t \in Texts \ served /\ (Note = 0 \/ Note \in Under(t))
    /\ Cardinality(served) < MaxServed /\ served' = served \cup {t}
    /\ UNCHANGED <<page, draft, key, marks, local, limits, safe, dropped, discarded, gone>>

Chore(p, c) == chore' = [chore EXCEPT ![p] = c]
ChoreOnly == UNCHANGED <<page, key, typed, listed, write, scan, plan, served, adoptions,
                         safe, discarded, gone>>

\* acknowledged: a pending write of that generation finishes first.
Acknowledge(p, t) ==
    /\ Here(p) /\ chore[p] = NoChore /\ ed[p].id # NoLineage
    /\ t \in served /\ t > ed[p].told /\ t \in {ed[p].shown} \cup Under(ed[p].shown)
    /\ SetEditor(p, [ed[p] EXCEPT !.told = t])
    /\ Chore(p, [NoChore EXCEPT !.pc = "flush", !.text = t])
    /\ Works /\ ChoreOnly /\ UNCHANGED <<draft, marks, stones, dropped>>
AskDelete(p) ==
    /\ Here(p) /\ chore[p].pc = "flush" /\ write[p] = NoWrite
    /\ ed[p].latest = 0 \/ ed[p].failed \/ Gen(ed[p].latest) > Gen(chore[p].text)
    /\ Chore(p, IF ed[p].id = NoLineage THEN NoChore
                ELSE [chore[p] EXCEPT !.pc = "asked", !.id = ed[p].id])
    /\ Works /\ ChoreOnly /\ UNCHANGED <<draft, marks, ed, stones, dropped>>

\* A mutant: an acknowledgement deletes whatever generation the record has.
DeleteAcknowledgedAny(p) ==
    LET c == chore[p]
    IN  /\ Here(p) /\ c.pc = "asked" /\ Works
        /\ IF Kept(c.id) THEN draft' = Retired(c.id) ELSE UNCHANGED draft
        /\ Chore(p, [c EXCEPT !.pc = "told", !.out = IF Kept(c.id) THEN "deleted" ELSE "kept"])
        /\ ChoreOnly /\ UNCHANGED <<marks, ed, stones, dropped>>

\* deleteIfAcknowledged: only that generation with that body.
DeleteAcknowledged(p) ==
    LET c == chore[p]
        match == Kept(c.id) /\ draft[c.id].text = c.text
        Told(out) == Chore(p, [c EXCEPT !.pc = "told", !.out = out])
    IN  /\ Here(p) /\ c.pc = "asked"
        /\ \/ match /\ Works /\ draft' = Retired(c.id) /\ Told("deleted")
           \/ ~match /\ Works /\ UNCHANGED draft /\ Told("kept")
           \/ Refuses /\ UNCHANGED draft /\ Told("kept")
        /\ ChoreOnly /\ UNCHANGED <<marks, ed, stones, dropped>>

\* What the writer makes of it.  A text the store never took is safe on the
\* server: the lineage ends, and an older generation of it is marked to go.
AfterDelete(p) ==
    LET c == chore[p]
        w == ed[p]
        mine == w.id = c.id
        uncommitted == c.out # "deleted" /\ mine /\ w.latest = c.text /\ write[p] = NoWrite
        superseded == uncommitted /\ w.stored /\ w.committed # 0
        v == CASE uncommitted -> [NoLineageLeft(w) EXCEPT !.latest = 0]
               [] c.out = "deleted" /\ mine /\ w.latest # 0 -> FreshLineage(p, w)
               [] c.out = "deleted" /\ mine /\ w.latest = 0 -> NoLineageLeft(w)
               [] OTHER -> w
    IN  /\ Here(p) /\ c.pc = "told"
        /\ SetEditor(p, v) /\ RefreshKey(p, v)
        /\ marks' = IF superseded
                    THEN {m \in marks : m.id # c.id}
                         \cup {[id |-> c.id, owner |-> p, text |-> w.committed]}
                    ELSE marks
        /\ Chore(p, IF uncommitted \/ c.out = "deleted"
                    THEN [c EXCEPT !.pc = IF superseded THEN "sweep" ELSE "stone"] ELSE NoChore)
        /\ UNCHANGED <<page, draft, typed, stones, write, scan, plan, served, adoptions,
                       dropped, discarded, gone>>

\* removeSupersededRecord: that generation, while it is that page's.
Swept(m) ==
    /\ IF Kept(m.id) /\ draft[m.id].owner = m.owner /\ draft[m.id].status = "active"
          /\ Gen(draft[m.id].text) = Gen(m.text)
       THEN draft' = Retired(m.id) ELSE UNCHANGED draft
    /\ marks' = marks \ {m}

\* By the page that marked it, or by a later one.
Sweep(p, m) ==
    LET own == chore[p].pc = "sweep" /\ chore[p].id = m.id IN
    /\ Here(p) /\ (m.owner # p \/ own)
    /\ Swept(m)
    /\ Chore(p, IF own THEN [chore[p] EXCEPT !.pc = "stone"] ELSE chore[p])
    /\ Works /\ ChoreOnly /\ UNCHANGED <<ed, stones, dropped>>

\* A tombstone is put without a look at the record: a draft that a merge has
\* made of a key meanwhile is buried.
BuriedTail(d) == Kept(d)

\* tombstoneIfListed: the page's own key could not be cleared of the lineage.
LeaveStone(p) ==
    LET d == chore[p].id
        due == listed[p] = d
    IN  /\ Here(p) /\ chore[p].pc = "stone"
        /\ \/ /\ due /\ Works /\ draft' = Entombed(d, p, ed[p].shown)
              /\ dropped' = IF BuriedTail(d) THEN dropped \cup {draft[d].text} ELSE dropped
           \/ due /\ Refuses /\ UNCHANGED <<draft, dropped>>
           \/ ~due /\ Works /\ UNCHANGED <<draft, dropped>>
        /\ stones' = IF due THEN [stones EXCEPT ![p] = @ \cup {d}] ELSE stones
        /\ Chore(p, NoChore)
        /\ ChoreOnly /\ UNCHANGED <<marks, ed>>

\* releaseTombstones: once the key no longer lists it.
ReleaseStone(p, d) ==
    /\ Here(p) /\ d \in stones[p] /\ listed[p] # d
    /\ draft' = Unmarked(d, p)
    /\ stones' = [stones EXCEPT ![p] = @ \ {d}]
    /\ Works /\ ChoreOnly /\ UNCHANGED <<chore, marks, ed, dropped>>

-----------------------------------------------------------------------------
(* The merge of emergency keys *)

Scan(p, s) == scan' = [scan EXCEPT ![p] = s]
ScanOnly == UNCHANGED <<page, marks, typed, ed, listed, stones, write, chore, plan, served,
                        adoptions, safe, discarded, gone>>

\* readEmergencyKeys: every key as it is now.  The scan at startup is the one
\* that takes a page that misses its ping for dead.
StartScan(p) ==
    /\ Here(p) /\ scan[p].pc \in {"none", "done"}
    /\ Scan(p, [NoScan EXCEPT !.pc = "pick", !.definite = scan[p].pc = "done",
                              !.todo = {<<q, key[q]>> : q \in {r \in Pages \ {p} : key[r] # NoEntry}}])
    /\ ScanOnly /\ UNCHANGED <<draft, key, faults, dropped>>
TakenForDead(p, q) == (Gone(q) /\ Works) \/ (~Gone(q) /\ ~scan[p].definite /\ Refuses)

\* mergeable: a page that is there keeps its key.
SkipKey(p, x) ==
    /\ Here(p) /\ scan[p].pc = "pick" /\ (~Gone(x[1]) \/ key[x[1]] # x[2])
    /\ Scan(p, [scan[p] EXCEPT !.todo = @ \ {x}])
    /\ ScanOnly /\ UNCHANGED <<draft, key, faults, dropped>>

\* mergeKey: the key is as it was in the snapshot, so its entry is applied.
PickKey(p, x) ==
    /\ Here(p) /\ scan[p].pc = "pick" /\ key[x[1]] = x[2] /\ TakenForDead(p, x[1])
    /\ Scan(p, [scan[p] EXCEPT !.todo = @ \ {x}, !.of = x[1], !.entry = x[2], !.pc = "apply"])
    /\ ScanOnly /\ UNCHANGED <<draft, key, dropped>>
ApplyEntry(p) ==
    /\ Here(p) /\ scan[p].pc = "apply"
    /\ \/ /\ Works /\ draft' = Applied(scan[p].of, scan[p].entry)
          /\ dropped' = IF DroppedTail(scan[p].of, scan[p].entry) THEN dropped \cup {scan[p].entry.tail}
                        ELSE dropped
          /\ Scan(p, [scan[p] EXCEPT !.pc = "applied"])
       \/ /\ Refuses /\ UNCHANGED <<draft, dropped>>
          /\ Scan(p, [scan[p] EXCEPT !.pc = "pick"])
    /\ ScanOnly /\ UNCHANGED key

\* The key goes once its entry was handled, if it is still the same.
RemoveKey(p) ==
    LET q == scan[p].of
        same == key[q] = scan[p].entry
    IN  /\ Here(p) /\ scan[p].pc = "applied"
        /\ \/ /\ same /\ Works /\ key' = [key EXCEPT ![q] = NoEntry]
              /\ Scan(p, [scan[p] EXCEPT !.pc = "unmark"])
           \/ /\ IF same THEN Refuses ELSE Works
              /\ UNCHANGED key /\ Scan(p, [scan[p] EXCEPT !.pc = "pick"])
        /\ ScanOnly /\ UNCHANGED <<draft, dropped>>

\* Then the marks of its lineage, and of its fork, are not needed.
Unmark(p) ==
    LET q == scan[p].of
        e == scan[p].entry
        first == scan[p].pc = "unmark"
    IN  /\ Here(p) /\ scan[p].pc \in {"unmark", "unmark-fork"}
        /\ draft' = Unmarked(IF first THEN e.id ELSE Fork(e.id, e.tail), q)
        /\ Scan(p, [scan[p] EXCEPT !.pc = IF first THEN "unmark-fork" ELSE "pick"])
        /\ ScanOnly /\ UNCHANGED <<key, faults, dropped>>
EndScan(p) ==
    /\ Here(p) /\ scan[p].pc = "pick" /\ scan[p].todo = {}
    /\ Scan(p, [NoScan EXCEPT !.pc = "done"])
    /\ ScanOnly /\ UNCHANGED <<draft, key, faults, dropped>>

-----------------------------------------------------------------------------
(* What a page does with the drafts it finds after a scan *)

Plan(p, x) == plan' = [plan EXCEPT ![p] = x]
PlanOnly == UNCHANGED <<page, key, marks, typed, listed, stones, write, chore, scan, served,
                        safe>>

\* No live editor owns it: its page is proven gone, or it is this page's own
\* and no writer of this page has it.
Adoptable(p, d) == Gone(draft[d].owner) \/ (draft[d].owner = p /\ ed[p].id # d)

\* Only for review: its page is there without a writer for it, or missed the
\* pings.
Discardable(p, d) ==
    LET q == draft[d].owner IN
    \/ Adoptable(p, d) /\ Works
    \/ q # p /\ Here(q) /\ IF ed[q].id = d THEN Refuses ELSE Works

\* listingPage: the first page found whose key lists the lineage or its fork.
Listing(d) == {q \in Pages : key[q] # NoEntry /\ d \in {key[q].id, Fork(key[q].id, key[q].tail)}}

\* A draft that is the server's note is cleared; one typed over it may be
\* restored into an editor without a session; the user may discard any that
\* no answering page is editing.
Decide(p, d) ==
    LET row == draft[d]
        active == row.status = "active" /\ Adoptable(p, d)
        Decided(act, stone) == Plan(p, [act |-> act, id |-> d, row |-> row, stone |-> stone,
                                        proven |-> Gone(row.owner)])
    IN  /\ Here(p) /\ scan[p].pc = "done" /\ plan[p] = NoPlan /\ Kept(d)
        /\ \/ active /\ row.text = Note /\ Works /\ Decided("clear", NoPage)
           \/ /\ active /\ Works /\ (Note = 0 \/ Note \in Under(row.text))
              /\ ed[p].shown = 0 /\ adoptions < MaxAdoptions /\ Decided("adopt", NoPage)
           \/ /\ Discardable(p, d)
              /\ \/ \E q \in Listing(d) : Decided("discard", q)
                 \/ Listing(d) = {} /\ Decided("discard", NoPage)
        /\ PlanOnly /\ UNCHANGED <<draft, ed, adoptions, dropped, discarded, gone>>

\* A mutant: the generation that a plan was made for is not compared.
AsDecidedAny(x) == Kept(x.id) /\ draft[x.id].owner = x.row.owner

\* The record is still the one that was decided on.
AsDecided(x) == /\ Kept(x.id) /\ draft[x.id].owner = x.row.owner
                /\ Gen(draft[x.id].text) = Gen(x.row.text)

ClearDraft(p) ==
    LET x == plan[p] IN
    /\ Here(p) /\ x.act = "clear"
    /\ IF AsDecided(x) /\ draft[x.id].text = x.row.text THEN draft' = Retired(x.id)
       ELSE UNCHANGED draft
    /\ Plan(p, NoPlan) /\ Works /\ PlanOnly /\ UNCHANGED <<ed, adoptions, dropped, discarded, gone>>

\* discardReviewed: the tails that keys have of it are discarded with it.
DiscardDraft(p) ==
    LET x == plan[p]
        text == draft[x.id].text
    IN  /\ Here(p) /\ x.act = "discard"
        /\ IF AsDecided(x) /\ draft[x.id].status = x.row.status
           THEN /\ draft' = IF x.stone = NoPage THEN Retired(x.id)
                            ELSE Entombed(x.id, x.stone, text)
                /\ gone' = IF x.proven THEN gone \cup {[id |-> x.id, text |-> text]} ELSE gone
                /\ discarded' = discarded \cup {text} \cup {key[q].tail : q \in Listing(x.id)}
           ELSE UNCHANGED <<draft, gone, discarded>>
        /\ Plan(p, NoPlan) /\ Works /\ PlanOnly /\ UNCHANGED <<ed, adoptions, dropped>>

\* adopt: compare-and-set on the owner page and the generation, and never a
\* superseded one.
AdoptDraft(p) ==
    LET x == plan[p]
        superseded == \E m \in marks : m.id = x.id /\ Gen(m.text) >= Gen(x.row.text)
    IN  /\ Here(p) /\ x.act = "adopt"
        /\ IF AsDecided(x) /\ ~superseded /\ adoptions < MaxAdoptions
           THEN /\ draft' = With(x.id, [draft[x.id] EXCEPT !.owner = p])
                /\ adoptions' = adoptions + 1
                /\ Plan(p, [x EXCEPT !.act = "adopted"])
           ELSE Plan(p, NoPlan) /\ UNCHANGED <<draft, adoptions>>
        /\ Works /\ PlanOnly /\ UNCHANGED <<ed, dropped, discarded, gone>>

\* The editor continues the lineage, unless the note or the pane moved on
\* meanwhile: then it stays this page's, for review.
Restore(p) ==
    LET x == plan[p]
        t == x.row.text
        fits == ed[p].shown = 0 /\ (Note = 0 \/ Note \in Under(t))
    IN  /\ Here(p) /\ x.act = "adopted"
        /\ SetEditor(p, IF ~fits THEN ed[p]
                        ELSE [ed[p] EXCEPT !.id = x.id, !.stored = TRUE, !.committed = t,
                                           !.shown = t, !.latest = 0, !.failed = FALSE])
        /\ Plan(p, NoPlan) /\ Works /\ PlanOnly
        /\ UNCHANGED <<draft, adoptions, dropped, discarded, gone>>

-----------------------------------------------------------------------------
(* The specification *)

Init ==
    /\ page = [p \in Pages |-> "new"] /\ typed = <<>> /\ draft = <<>> /\ marks = {}
    /\ key = [p \in Pages |-> NoEntry] /\ ed = [p \in Pages |-> NewEditor]
    /\ listed = [p \in Pages |-> NoLineage] /\ stones = [p \in Pages |-> {}]
    /\ write = [p \in Pages |-> NoWrite] /\ chore = [p \in Pages |-> NoChore]
    /\ scan = [p \in Pages |-> NoScan] /\ plan = [p \in Pages |-> NoPlan]
    /\ served = {} /\ adoptions = 0 /\ faults = 0
    /\ safe = {} /\ dropped = {} /\ discarded = {} /\ gone = {}

PageNext(p) == Open(p) \/ Hide(p) \/ Close(p) \/ Crash(p)
WriterNext(p) == Edit(p) \/ StartWrite(p) \/ CommitWrite(p) \/ FailWrite(p) \/ AfterWrite(p)
AcknowledgementNext(p) ==
    \/ \E t \in served : Acknowledge(p, t)
    \/ AskDelete(p) \/ DeleteAcknowledged(p) \/ AfterDelete(p) \/ LeaveStone(p)
    \/ \E m \in marks : Sweep(p, m)
    \/ \E d \in stones[p] : ReleaseStone(p, d)
MergeNext(p) ==
    \/ StartScan(p) \/ ApplyEntry(p) \/ RemoveKey(p) \/ Unmark(p) \/ EndScan(p)
    \/ \E x \in scan[p].todo : SkipKey(p, x) \/ PickKey(p, x)
RecoveryNext(p) ==
    \/ \E d \in DOMAIN draft : Decide(p, d)
    \/ ClearDraft(p) \/ DiscardDraft(p) \/ AdoptDraft(p) \/ Restore(p)
Next ==
    \/ \E p \in Pages : PageNext(p) \/ WriterNext(p) \/ AcknowledgementNext(p)
                        \/ MergeNext(p) \/ RecoveryNext(p)
    \/ \E t \in Texts : Serve(t)

Spec == Init /\ [][Next]_vars

-----------------------------------------------------------------------------
(* Properties *)

\* Every variable keeps the shape the code gives it; what a writer has pending
\* is the text its editor shows.
TypeOK ==
    /\ page \in [Pages -> PageStates]
    /\ typed \in Seq([gen : Nat, under : SUBSET Nat]) /\ Len(typed) <= MaxTexts
    /\ DOMAIN draft \subseteq Lineage /\ draft \in [DOMAIN draft -> Row]
    /\ key \in [Pages -> Entry \cup {NoEntry}]
    /\ \A p \in Pages : ed[p].latest \in {0, ed[p].shown}
    /\ adoptions <= MaxAdoptions /\ faults <= MaxFaults

\* The text itself, and those typed over it.
Over(t) == {u \in Texts : u = t \/ t \in Under(u)}

\* Somewhere it, or one typed over it, still is: on the server, in the store,
\* in a key, in a writer; or the user discarded it.
Held(t) == \/ t \in discarded \cup served
           \/ \E d \in DOMAIN draft : Kept(d) /\ draft[d].text = t
           \/ \E p \in Pages : \/ key[p].tail = t /\ key[p].body
                              \/ ed[p].latest = t
Lost(t) == \A u \in Over(t) : ~Held(u)

\* A text that reached the store, or a key with its body, is kept until the
\* server has it or the user discards it: records go only with an
\* acknowledgement of what they hold, a discard or a deleted Work, "never by
\* age" (local-first-sync.md:188-190), and a merge drops a key's tail only for
\* a discarded lineage (applyEmergencyEntry).
TextKept == \A t \in safe : ~Lost(t)

\* The ways to lose one are a merge that drops an entry with its body
\* (applyEmergencyEntry's "dropped", "suppressed", and "noop" on a fork of
\* another page) and a tombstone put over a draft (tombstoneIfListed): no
\* acknowledgement, late write, adoption, crash or refused write loses it.
LostOnlyDropped == \A t \in safe : Lost(t) => Over(t) \cap dropped # {}

\* A draft the user discarded, of a page proven gone, does not come back with
\* the text it had, however many pages had read the page's key by then: "the
\* key cannot recreate the draft" (local-first-sync.md:226-227).
DiscardStays == \A x \in gone : ~(Kept(x.id) /\ draft[x.id].text = x.text)

\* A draft that a page takes over has the text that the page decided on: the
\* owner and the generation, which adopt compares, tell one text of it from
\* another.  Of two pages, that is: with five, a fork may be made twice.
AdoptsDecided == \A p \in Pages :
    plan[p].act = "adopt" /\ AsDecided(plan[p]) => draft[plan[p].id].text = plan[p].row.text

\* What a lineage holds is only ever replaced by a text typed over it, whoever
\* writes: its page, late or not, a merge of its key, or a page that took it
\* over (the generations of writeGeneration and applyEmergencyEntry).
LineageForward ==
    [][\A d \in DOMAIN draft \cap DOMAIN draft', t \in Texts :
          Kept(d) /\ draft[d].text = t /\ draft'[d].status # "discarded"
              => draft'[d].text \in Over(t)']_vars
=============================================================================

------------------------ MODULE EditorRecoveryProofs ------------------------
(***************************************************************************)
(* Proofs, for every number of texts, adoptions, faults and served texts,  *)
(* that the store, the keys and the pages keep their shape, that what a    *)
(* lineage holds only ever moves on to a text typed over it, and that no   *)
(* text that was safe is lost but by a merge that drops it or a tombstone  *)
(* put over it.                                                            *)
(***************************************************************************)
EXTENDS EditorRecovery, SequenceTheorems, TLAPS

-----------------------------------------------------------------------------
(* The invariant: what everything is *)

None == 0 .. Len(typed)     \* a text, or none

\* A text is newer than those it was typed over.
TypedOK ==
    /\ typed \in Seq([gen : Nat, under : SUBSET Nat]) /\ Len(typed) <= MaxTexts
    /\ \A t \in Texts : \A u \in typed[t].under :
          u \in 1 .. (t - 1) /\ typed[u].gen < typed[t].gen

\* A record has a text.
StoreLike(f) ==
    /\ DOMAIN f \subseteq Lineage /\ f \in [DOMAIN f -> Row]
    /\ \A d \in DOMAIN f : f[d].text \in None /\ (f[d].status # "discarded" => f[d].text # 0)
StoreOK == StoreLike(draft)

KeysOK ==
    /\ key \in [Pages -> Entry \cup {NoEntry}]
    /\ \A p \in Pages : key[p] # NoEntry => key[p].tail \in Texts

EditorsOK ==
    /\ ed \in [Pages -> [id : Lineage \cup {NoLineage}, stored : BOOLEAN, committed : Nat,
                         latest : Nat, shown : Nat, minted : Nat, told : Nat,
                         failed : BOOLEAN]]
    /\ \A p \in Pages : /\ ed[p].shown \in None /\ ed[p].latest \in {0, ed[p].shown}
                        /\ ed[p].id = NoLineage => ed[p].latest = 0
                        /\ ed[p].id # NoLineage => ed[p].shown # 0

WritesOK ==
    /\ write \in [Pages -> [id : Lineage \cup {NoLineage}, text : Nat, create : BOOLEAN,
                            out : {"none", "sent", "ok", "missing", "not-owner", "stale",
                                   "failed"}]]
    /\ \A p \in Pages : write[p].out # "none" => write[p].id # NoLineage /\ write[p].text \in Texts

ChoresOK ==
    /\ chore \in [Pages -> [pc : {"none", "flush", "asked", "told", "sweep", "stone"},
                            text : Nat, id : Lineage \cup {NoLineage},
                            out : {"none", "deleted", "kept"}]]
    /\ \A p \in Pages : chore[p].pc \notin {"none", "flush"} => chore[p].id # NoLineage

ScansOK ==
    /\ scan \in [Pages -> [pc : {"none", "pick", "apply", "applied", "unmark", "unmark-fork",
                                 "done"},
                           todo : SUBSET (Pages \X Entry), of : Pages \cup {NoPage},
                           entry : Entry \cup {NoEntry}, definite : BOOLEAN]]
    /\ \A p \in Pages : scan[p].pc \notin {"none", "pick", "done"} =>
          scan[p].of \in Pages /\ scan[p].entry # NoEntry /\ scan[p].entry.tail \in Texts

\* What a page has decided to do with a draft, it decided about a record.
Planned == [act : {"clear", "adopt", "adopted", "discard"}, id : Lineage, row : Row,
            stone : Pages \cup {NoPage}, proven : BOOLEAN]
PlansOK ==
    /\ plan \in [Pages -> Planned \cup {NoPlan}]
    /\ \A p \in Pages : plan[p] # NoPlan => plan[p].row.text \in Texts

LimitsOK == adoptions \in 0 .. MaxAdoptions /\ faults \in 0 .. MaxFaults /\ served \subseteq Texts

\* A page that is not open remembers nothing, and one that never was has no key.
PagesOK ==
    /\ page \in [Pages -> PageStates]
    /\ \A p \in Pages : ~Here(p) =>
          /\ ed[p] = NewEditor /\ write[p] = NoWrite /\ chore[p] = NoChore
          /\ scan[p] = NoScan /\ plan[p] = NoPlan
    /\ \A p \in Pages : page[p] = "new" => key[p] = NoEntry

Shapes == /\ TypedOK /\ StoreOK /\ KeysOK /\ EditorsOK /\ WritesOK /\ ChoresOK /\ ScansOK
          /\ PlansOK /\ LimitsOK /\ PagesOK

-----------------------------------------------------------------------------
(* The invariant: what the pages say a lineage holds *)

\* A word of page q: a lineage and a text of it.  What q's key, a merge of
\* that key, q's writer and q's editor have:
KeyWords(q) == IF key[q] = NoEntry THEN {} ELSE {[id |-> key[q].id, text |-> key[q].tail]}
ScanWords(q) == {[id |-> scan[r].entry.id, text |-> scan[r].entry.tail] :
                    r \in {s \in Pages : scan[s].pc = "apply" /\ scan[s].of = q}}
WriteWords(q) == IF write[q].out # "sent" THEN {}
                 ELSE {[id |-> write[q].id, text |-> write[q].text]}
EditorWords(q) == IF ed[q].id = NoLineage THEN {} ELSE {[id |-> ed[q].id, text |-> ed[q].shown]}
Uses(q) == KeyWords(q) \cup ScanWords(q) \cup WriteWords(q) \cup EditorWords(q)

\* And what the store has as q's.
Owns(q) == {[id |-> d, text |-> draft[d].text] :
               d \in {e \in DOMAIN draft : Kept(e) /\ draft[e].owner = q}}
Says(q) == Uses(q) \cup Owns(q)

Taking(q) == plan[q].act \in {"adopt", "adopted"}

\* The lineages that pages or the store know.
Known == {x.id : x \in UNION {Says(q) : q \in Pages}} \cup {plan[q].id : q \in {r \in Pages : Taking(r)}}

\* A page that is not gone knows how many lineages bear its name.
MintedKnown == \A q \in Pages : ~Gone(q) =>
    \A d \in Known : d.page = q => d.nth \in 1 .. ed[q].minted

\* Of the lineages with its name, a page has only those it minted in hand, not
\* their forks; of the others, at most the one it took over.
OwnPlain == \A q \in Pages : \A x \in Uses(q) : x.id.page = q => x.id.forks = <<>>
OneForeign == \A q \in Pages : \A x, y \in Uses(q) :
    x.id.page # q /\ y.id.page # q => x.id = y.id

\* Until an editor shows a text its page has no lineage.
BlankUses == \A q \in Pages : ~Gone(q) /\ ed[q].shown = 0 => Uses(q) = {} /\ ed[q].minted = 0
\* A page takes over no lineage with its own name, and none while it has one.
TakesForeign == \A q \in Pages : Taking(q) =>
    /\ plan[q].id.page # q
    /\ \A x \in Uses(q) : x.id.page = q

Comparable(t, u) == t = u \/ t \in Under(u) \/ u \in Under(t)

\* What an open page says of its own lineages, and of the one it edits, is
\* what its editor shows, or was typed over on the way there.
ShownLast == \A q \in Pages : ~Gone(q) =>
    \A x \in Says(q) : x.id.page = q \/ x.id = ed[q].id =>
        x.text \in {ed[q].shown} \cup Under(ed[q].shown)

\* A page's texts are typed one over the other, in all its own lineages, and
\* in each other.
OneChain == \A q \in Pages : \A x, y \in Says(q) :
    x.id = y.id \/ (x.id.page = q /\ y.id.page = q) => Comparable(x.text, y.text)

\* What a page has taken over is what it decided on, until an editor has it.
TakenAsDecided == \A q \in Pages : plan[q].act = "adopted" =>
    \A x \in Owns(q) : x.id = plan[q].id => x.text = plan[q].row.text

WordsOK == /\ MintedKnown /\ OwnPlain /\ OneForeign /\ BlankUses /\ TakesForeign
           /\ ShownLast /\ OneChain /\ TakenAsDecided
IInv == Shapes /\ WordsOK

-----------------------------------------------------------------------------
(* The invariant of two pages *)

\* While one page is there, the other has taken nothing over.
OneTaker == \A q, r \in Pages : q # r /\ ~Gone(r) =>
    ~Taking(q) /\ \A x \in Says(q) : x.id.page = q

\* What a page decided on goes with all that the gone page said of its own
\* lineages; or it is its own and still has that text.
DecidedChain == \A r, q \in Pages : plan[r].act = "adopt" /\ plan[r].row.owner = q =>
    /\ q = r => \A x \in Owns(r) : x.id = plan[r].id => x.text = plan[r].row.text
    /\ q # r => /\ Gone(q) /\ plan[r].id.page = q
               /\ \A x \in Says(q) : x.id.page = q => Comparable(x.text, plan[r].row.text)

TwoInv == OneTaker /\ DecidedChain


-----------------------------------------------------------------------------
(* What transactions do to the store *)

\* A store f says of no lineage that it is another page's than it was, or of
\* another text.
NothingNew(f) == \A d \in DOMAIN f : f[d].status # "discarded" =>
    Kept(d) /\ f[d].text = draft[d].text /\ f[d].owner = draft[d].owner

LEMMA WithStore ==
    ASSUME StoreOK, NEW d \in Lineage, NEW row \in Row, row.text \in None,
           row.status # "discarded" => row.text # 0
    PROVE  /\ StoreLike(With(d, row)) /\ DOMAIN With(d, row) = DOMAIN draft \cup {d}
           /\ With(d, row)[d] = row
           /\ \A e \in DOMAIN draft : e # d => With(d, row)[e] = draft[e]
  BY DEF StoreOK, StoreLike, With

\* A record deleted, or a tombstone in its place.
LEMMA WithNothingNew ==
    ASSUME StoreOK, NEW d \in Lineage, NEW row \in Row, row.text \in None,
           row.status # "discarded" =>
              Kept(d) /\ row.text = draft[d].text /\ row.owner = draft[d].owner
    PROVE  StoreLike(With(d, row)) /\ NothingNew(With(d, row))
  <1>1. row.status # "discarded" => row.text # 0
    BY DEF StoreOK, StoreLike, Kept, HasRow
  <1>2. /\ StoreLike(With(d, row)) /\ DOMAIN With(d, row) = DOMAIN draft \cup {d}
        /\ With(d, row)[d] = row
        /\ \A e \in DOMAIN draft : e # d => With(d, row)[e] = draft[e]
    BY <1>1, WithStore, Zenon
  <1> QED BY <1>2 DEF NothingNew, Kept, HasRow

LEMMA RetiredStore ==
    ASSUME StoreOK, NEW d, HasRow(d)
    PROVE  StoreLike(Retired(d)) /\ NothingNew(Retired(d))
  <1>1. d \in Lineage /\ draft[d] \in Row /\ draft[d].text \in None
    BY DEF StoreOK, StoreLike, HasRow
  <1>2. CASE draft[d].source = NoPage
    BY <1>2 DEF StoreOK, StoreLike, HasRow, Retired, Without, NothingNew, Kept
  <1>3. CASE draft[d].source # NoPage
    <2> DEFINE row == [draft[d] EXCEPT !.owner = draft[d].source, !.status = "discarded",
                                       !.source = NoPage]
    <2>1. row \in Row /\ row.text \in None /\ row.status = "discarded"
      BY <1>1, <1>3 DEF Row
    <2>2. StoreLike(With(d, row)) /\ NothingNew(With(d, row))
      <3> HIDE DEF row
      <3> QED BY <1>1, <2>1, WithNothingNew
    <2> QED BY <1>3, <2>2 DEF Retired
  <1> QED BY <1>2, <1>3

LEMMA EntombedStore ==
    ASSUME StoreOK, NEW d \in Lineage, NEW q \in Pages, NEW newest \in None
    PROVE  StoreLike(Entombed(d, q, newest)) /\ NothingNew(Entombed(d, q, newest))
  <1> DEFINE first == IF ~HasRow(d) THEN NoPage
                      ELSE IF draft[d].source # NoPage THEN draft[d].source
                      ELSE IF draft[d].status = "discarded" THEN draft[d].owner ELSE NoPage
             text == IF HasRow(d) /\ Gen(draft[d].text) > Gen(newest) THEN draft[d].text
                     ELSE newest
             row == [owner |-> q, text |-> text, status |-> "discarded",
                     source |-> IF first = q THEN NoPage ELSE first]
  <1>1. HasRow(d) => draft[d] \in Row /\ draft[d].text \in None
    BY DEF StoreOK, StoreLike, HasRow
  <1>2. first \in Pages \cup {NoPage} /\ text \in None /\ text \in Nat
    BY <1>1 DEF Row, None
  <1>3. row \in Row /\ row.text \in None /\ row.status = "discarded"
    BY <1>2 DEF Row
  <1>4. StoreLike(With(d, row)) /\ NothingNew(With(d, row))
    <2> HIDE DEF row
    <2> QED BY <1>3, WithNothingNew
  <1> QED BY <1>4 DEF Entombed

LEMMA UnmarkedStore ==
    ASSUME StoreOK, NEW d, NEW q \in Pages
    PROVE  StoreLike(Unmarked(d, q)) /\ NothingNew(Unmarked(d, q))
  <1>1. HasRow(d) => d \in Lineage /\ draft[d] \in Row /\ draft[d].text \in None
    BY DEF StoreOK, StoreLike, HasRow
  <1>2. StoreLike(draft) /\ NothingNew(draft)
    BY DEF StoreOK, NothingNew, Kept, HasRow
  <1>3. CASE HasRow(d) /\ draft[d].source = q
    <2> DEFINE row == [draft[d] EXCEPT !.source = NoPage]
    <2>1. row \in Row /\ row.text = draft[d].text /\ row.owner = draft[d].owner
          /\ row.status = draft[d].status
      BY <1>1, <1>3 DEF Row
    <2>2. StoreLike(With(d, row)) /\ NothingNew(With(d, row))
      <3> HIDE DEF row
      <3> QED BY <1>1, <1>3, <2>1, WithNothingNew DEF Kept
    <2>3. q # NoPage
      BY ConstantsOK
    <2>4. Unmarked(d, q) = With(d, row)
      BY <1>3, <2>3 DEF Unmarked
    <2> QED BY <2>2, <2>4
  <1>4. CASE HasRow(d) /\ ~Kept(d) /\ draft[d].owner = q /\ draft[d].source = NoPage
    <2>1. StoreLike(Without(d)) /\ NothingNew(Without(d))
      BY <1>4 DEF StoreOK, StoreLike, HasRow, Without, NothingNew, Kept
    <2>2. q # NoPage
      BY ConstantsOK
    <2> QED BY <1>4, <2>1, <2>2 DEF Unmarked
  <1>5. CASE HasRow(d) /\ ~Kept(d) /\ draft[d].owner = q /\ draft[d].source \notin {q, NoPage}
    <2> DEFINE row == [draft[d] EXCEPT !.owner = draft[d].source, !.source = NoPage]
    <2>1. row \in Row /\ row.text = draft[d].text /\ row.status = "discarded"
      BY <1>1, <1>5 DEF Row, Kept
    <2>2. StoreLike(With(d, row)) /\ NothingNew(With(d, row))
      <3> HIDE DEF row
      <3> QED BY <1>1, <1>5, <2>1, WithNothingNew
    <2> QED BY <1>5, <2>2 DEF Unmarked
  <1>6. CASE ~(HasRow(d) /\ draft[d].source = q)
             /\ ~(HasRow(d) /\ ~Kept(d) /\ draft[d].owner = q /\ draft[d].source = NoPage)
             /\ ~(HasRow(d) /\ ~Kept(d) /\ draft[d].owner = q
                  /\ draft[d].source \notin {q, NoPage})
    BY <1>2, <1>6 DEF Unmarked
  <1> QED BY <1>3, <1>4, <1>5, <1>6

\* An entry of page q makes a record of its tail, of its lineage or of the fork.
LEMMA ForkLineage ==
    ASSUME TypedOK, NEW d \in Lineage, NEW t \in None
    PROVE  /\ Fork(d, t) \in Lineage /\ Fork(d, t).page = d.page /\ Fork(d, t).nth = d.nth
           /\ Fork(d, t).forks # <<>> /\ Fork(d, t) # d /\ Gen(t) \in Nat
  <1>1. Gen(t) \in Nat
    <2>1. t = 0 \/ t \in 1 .. Len(typed)
      BY DEF None, TypedOK
    <2>2. t \in 1 .. Len(typed) => typed[t] \in [gen : Nat, under : SUBSET Nat]
      BY ElementOfSeq DEF TypedOK
    <2> QED BY <2>1, <2>2 DEF Gen
  <1>2. /\ Append(d.forks, Gen(t)) \in Seq(Nat)
        /\ Len(Append(d.forks, Gen(t))) = Len(d.forks) + 1 /\ Len(d.forks) \in Nat
    BY <1>1 DEF Lineage
  <1>3. Append(d.forks, Gen(t)) # <<>> /\ Append(d.forks, Gen(t)) # d.forks
    BY <1>2
  <1> QED BY <1>1, <1>2, <1>3 DEF Fork, Lineage

LEMMA AppliedStore ==
    ASSUME TypedOK, StoreOK, NEW q \in Pages, NEW e \in Entry, e.tail \in Texts
    PROVE  LET f == Applied(q, e) IN
           /\ StoreLike(f)
           /\ \A d \in DOMAIN f : f[d].status # "discarded" =>
                 \/ Kept(d) /\ f[d].text = draft[d].text /\ f[d].owner = draft[d].owner
                 \/ /\ d = e.id /\ f[d].text = e.tail /\ f[d].owner = q
                    /\ HasRow(d) =>
                          draft[d].owner = q /\ Gen(draft[d].text) < Gen(e.tail)
                 \/ /\ d = Fork(e.id, e.tail) /\ ~HasRow(d)
                    /\ f[d].text = e.tail /\ f[d].owner = q
  <1> DEFINE d == e.id
             fork == Fork(d, e.tail)
             row == FromEntry(q, e)
  <1>1. d \in Lineage /\ e.tail \in None /\ e.tail # 0 /\ e.tail \in Nat
    BY DEF Entry, Texts, None
  <1>2. fork \in Lineage
    BY <1>1, ForkLineage
  <1>3. row \in Row /\ row.text = e.tail /\ row.owner = q /\ row.text \in None
    BY <1>1 DEF FromEntry, Row
  <1>4. HasRow(d) => draft[d] \in Row /\ draft[d].text \in None
    BY DEF StoreOK, StoreLike, HasRow
  <1>5. CASE ~HasRow(d) /\ ~e.committed /\ e.body
    <2> HIDE DEF row
    <2>1. StoreLike(With(d, row)) /\ DOMAIN With(d, row) = DOMAIN draft \cup {d}
          /\ With(d, row)[d] = row
          /\ \A x \in DOMAIN draft : x # d => With(d, row)[x] = draft[x]
      BY <1>1, <1>3, WithStore
    <2> QED BY <1>3, <1>5, <2>1 DEF Applied, Kept, HasRow, row
  <1>6. CASE Kept(d) /\ draft[d].owner = q /\ Gen(draft[d].text) < Gen(e.tail)
    <2> DEFINE new == IF e.body THEN [draft[d] EXCEPT !.text = e.tail, !.status = "active"]
                      ELSE [draft[d] EXCEPT !.status = "tail-missing"]
    <2>1. new \in Row /\ new.text \in None /\ new.text # 0 /\ new.owner = q
          /\ new.text \in {draft[d].text, e.tail}
      BY <1>1, <1>4, <1>6 DEF Row, Kept, StoreOK, StoreLike, HasRow
    <2> HIDE DEF new
    <2>2. StoreLike(With(d, new)) /\ DOMAIN With(d, new) = DOMAIN draft \cup {d}
          /\ With(d, new)[d] = new
          /\ \A x \in DOMAIN draft : x # d => With(d, new)[x] = draft[x]
      BY <1>1, <2>1, WithStore
    <2>3. Applied(q, e) = With(d, new)
      BY <1>6 DEF Applied, Kept, new
    <2> QED BY <1>6, <2>1, <2>2, <2>3 DEF Kept, HasRow
  <1>7. CASE Kept(d) /\ draft[d].owner # q /\ e.body /\ ~HasRow(fork)
    <2> HIDE DEF row
    <2>1. StoreLike(With(fork, row)) /\ DOMAIN With(fork, row) = DOMAIN draft \cup {fork}
          /\ With(fork, row)[fork] = row
          /\ \A x \in DOMAIN draft : x # fork => With(fork, row)[x] = draft[x]
      BY <1>1, <1>2, <1>3, WithStore
    <2>2. Applied(q, e) = With(fork, row)
      BY <1>7 DEF Applied, Kept, row
    <2> QED BY <1>3, <1>7, <2>1, <2>2 DEF Kept, HasRow
  <1>8. CASE ~(~HasRow(d) /\ ~e.committed /\ e.body)
             /\ ~(Kept(d) /\ draft[d].owner = q /\ Gen(draft[d].text) < Gen(e.tail))
             /\ ~(Kept(d) /\ draft[d].owner # q /\ e.body /\ ~HasRow(fork))
    BY <1>8 DEF Applied, StoreOK, Kept, HasRow
  <1> QED BY <1>5, <1>6, <1>7, <1>8


-----------------------------------------------------------------------------
(* Texts, keys and words *)

LEMMA TextFacts ==
    ASSUME TypedOK
    PROVE  /\ Len(typed) \in Nat /\ None \subseteq Nat /\ Texts \subseteq None
           /\ \A t \in None : /\ Gen(t) \in Nat /\ Under(t) \subseteq 1 .. (t - 1)
                              /\ \A u \in Under(t) : Gen(u) < Gen(t)
  <1>1. Len(typed) \in Nat
    BY DEF TypedOK
  <1>2. \A t \in Texts : typed[t] \in [gen : Nat, under : SUBSET Nat]
    BY ElementOfSeq DEF TypedOK, Texts
  <1>3. \A t \in None : Gen(t) \in Nat
    BY <1>1, <1>2 DEF None, Texts, Gen
  <1>4. \A t \in None : Under(t) \subseteq 1 .. (t - 1)
    BY <1>1 DEF None, Texts, Under, TypedOK
  <1>5. ASSUME NEW t \in None, NEW u \in Under(t) PROVE Gen(u) < Gen(t)
    <2>1. t # 0 /\ t \in Texts /\ u \in typed[t].under
      BY <1>1, <1>5 DEF None, Texts, Under
    <2>2. u # 0 /\ typed[u].gen < typed[t].gen
      BY <2>1 DEF TypedOK
    <2> QED BY <2>1, <2>2 DEF Gen
  <1> QED BY <1>1, <1>3, <1>4, <1>5 DEF None, Texts

\* Of two texts of a chain the one of the later generation was typed over the
\* other, and there is one of each generation.
LEMMA ChainByGeneration ==
    ASSUME TypedOK, NEW t \in None, NEW u \in None, Comparable(t, u)
    PROVE  /\ Gen(t) < Gen(u) => t \in Under(u)
           /\ Gen(t) = Gen(u) => t = u
  <1>1. Gen(t) \in Nat /\ Gen(u) \in Nat
        /\ (t \in Under(u) => Gen(t) < Gen(u)) /\ (u \in Under(t) => Gen(u) < Gen(t))
    BY TextFacts
  <1> HIDE DEF Gen, Under
  <1> QED BY <1>1 DEF Comparable

\* A new text over the one that an editor shows.
LEMMA NewText ==
    ASSUME TypedOK, NEW s \in None, NEW n \in Nat, n = Len(typed) + 1, n <= MaxTexts,
           typed' = Append(typed, [gen |-> Gen(s) + 1,
                                   under |-> IF s = 0 THEN {} ELSE {s} \cup Under(s)])
    PROVE  /\ TypedOK' /\ None \subseteq None' /\ Texts \subseteq Texts'
           /\ n \in Texts' /\ n \notin None
           /\ \A t \in None : Gen(t)' = Gen(t) /\ Under(t)' = Under(t)
           /\ Under(n)' = IF s = 0 THEN {} ELSE {s} \cup Under(s)
           /\ Texts' = Texts \cup {n}
  <1> DEFINE R == [gen : Nat, under : SUBSET Nat]
             new == [gen |-> Gen(s) + 1, under |-> IF s = 0 THEN {} ELSE {s} \cup Under(s)]
  <1>1. n \in Nat /\ n - 1 \in Nat /\ n # 0 /\ Gen(s) \in Nat /\ s \in Nat /\ s < n
        /\ Under(s) \subseteq 1 .. (s - 1) /\ (\A u \in Under(s) : Gen(u) < Gen(s))
    BY TextFacts DEF None
  <1>2. new \in R
    BY <1>1
  <1>3. /\ typed' \in Seq(R) /\ Len(typed') = n
        /\ \A i \in 1 .. Len(typed) : typed'[i] = typed[i]
        /\ typed'[n] = new
    <2>1. typed \in Seq(R) /\ typed' = Append(typed, new)
      BY DEF TypedOK
    <2> HIDE DEF new, R
    <2> QED BY <1>2, <2>1, AppendProperties
  <1>4. \A t \in None : Gen(t)' = Gen(t) /\ Under(t)' = Under(t)
    BY <1>1, <1>3 DEF None, Gen, Under
  <1>5. Gen(n)' = Gen(s) + 1 /\ Under(n)' = IF s = 0 THEN {} ELSE {s} \cup Under(s)
    BY <1>1, <1>3 DEF Gen, Under
  <1>6. Texts' = Texts \cup {n} /\ None' = None \cup {n} /\ n \notin None
    BY <1>1, <1>3 DEF Texts, None
  <1>7. ASSUME NEW t \in Texts', NEW u \in typed'[t].under
        PROVE  u \in 1 .. (t - 1) /\ typed'[u].gen < typed'[t].gen
    <2>1. CASE t \in Texts
      BY <1>1, <1>3, <1>7, <2>1 DEF Texts, TypedOK
    <2>2. CASE t = n
      <3>1. s # 0 /\ u \in {s} \cup Under(s) /\ typed'[n].gen = Gen(s) + 1
        BY <1>3, <1>7, <2>2
      <3>2. u \in Nat /\ u # 0 /\ u < n /\ u \in None /\ u \in 1 .. Len(typed)
        BY <1>1, <3>1 DEF None
      <3>3. Gen(u) = typed[u].gen /\ typed'[u] = typed[u] /\ Gen(u) \in Nat
        BY <1>3, <3>2, TextFacts DEF Gen
      <3>4. Gen(u) < Gen(s) + 1
        BY <1>1, <3>1, <3>3
      <3> QED BY <1>1, <2>2, <3>1, <3>2, <3>3, <3>4
    <2> QED BY <1>6, <2>1, <2>2
  <1>8. TypedOK'
    BY <1>3, <1>7 DEF TypedOK
  <1> QED BY <1>4, <1>5, <1>6, <1>8

\* What a page does to its key.
KeyMoved(p, w) ==
    /\ key' \in [Pages -> Entry \cup {NoEntry}] /\ faults' \in 0 .. MaxFaults
    /\ \A q \in Pages \ {p} : key'[q] = key[q]
    /\ \/ key'[p] \in {key[p], NoEntry}
       \/ w.latest # 0 /\ key'[p].id = w.id /\ key'[p].tail = w.latest

LEMMA KeyWrite ==
    ASSUME KeysOK, LimitsOK, NEW p \in Pages, NEW w, w.latest # 0, w.latest \in Nat,
           w.id \in Lineage, w.stored \in BOOLEAN, WriteKey(p, w)
    PROVE  KeyMoved(p, w)
  <1>1. MaxFaults \in Nat
    BY ConstantsOK
  <1>2. \A b \in BOOLEAN : EntryOf(w, b) \in Entry /\ EntryOf(w, b).id = w.id
                            /\ EntryOf(w, b).tail = w.latest
    BY DEF EntryOf, Entry
  <1>3. Works \/ Refuses => faults' \in 0 .. MaxFaults
    BY <1>1 DEF Works, Refuses, LimitsOK
  <1> HIDE DEF EntryOf
  <1>4. (\E b \in BOOLEAN : SetKey(p, EntryOf(w, b))) \/ key' = key
    BY DEF WriteKey, KeyWritten, KeyStripped, KeyKept
  <1>5. Works \/ Refuses
    BY DEF WriteKey, KeyWritten, KeyStripped, KeyKept
  <1> QED BY <1>2, <1>3, <1>4, <1>5 DEF KeyMoved, SetKey, KeysOK

LEMMA KeyRefresh ==
    ASSUME KeysOK, LimitsOK, NEW p \in Pages, NEW w,
           w.latest # 0 => w.latest \in Nat /\ w.id \in Lineage,
           w.stored \in BOOLEAN, RefreshKey(p, w)
    PROVE  KeyMoved(p, w)
  <1>1. MaxFaults \in Nat
    BY ConstantsOK
  <1>2. w.latest # 0 => \A b \in BOOLEAN :
           EntryOf(w, b) \in Entry /\ EntryOf(w, b).id = w.id /\ EntryOf(w, b).tail = w.latest
    BY DEF EntryOf, Entry
  <1>3. Works \/ Refuses => faults' \in 0 .. MaxFaults
    BY <1>1 DEF Works, Refuses, LimitsOK
  <1> HIDE DEF EntryOf
  <1>4. \/ w.latest # 0 /\ \E b \in BOOLEAN : SetKey(p, EntryOf(w, b))
        \/ SetKey(p, NoEntry) \/ key' = key
    BY DEF RefreshKey, KeyWritten, KeyStripped, KeyKept, KeyRemoved, KeyGivenUp, KeyStuck
  <1>5. Works \/ Refuses
    BY DEF RefreshKey, KeyWritten, KeyStripped, KeyKept, KeyRemoved, KeyGivenUp, KeyStuck,
           Works
  <1> QED BY <1>2, <1>3, <1>4, <1>5 DEF KeyMoved, SetKey, KeysOK


\* A step after which no page says anything it did not say before.
QuietStep ==
    /\ typed' = typed
    /\ \A q \in Pages : Uses(q)' \subseteq Uses(q) /\ Says(q)' \subseteq Says(q)
    /\ \A q \in Pages : page'[q] # "gone" =>
          /\ ~Gone(q) /\ ed'[q].id = ed[q].id /\ ed'[q].shown = ed[q].shown
          /\ ed'[q].minted = ed[q].minted
    /\ \A q \in Pages : plan'[q] = plan[q] \/ plan'[q].act \notin {"adopt", "adopted"}

LEMMA OwnsShrink ==
    ASSUME NothingNew(draft')
    PROVE  \A q \in Pages : Owns(q)' \subseteq Owns(q)
  BY DEF NothingNew, Owns, Kept, HasRow

\* A store or a key, and what pages remember of it, that say nothing new.
LEMMA WordsShrink ==
    ASSUME \A q \in Pages : KeyWords(q)' \subseteq Uses(q),
           \A q \in Pages : ScanWords(q)' \subseteq Uses(q),
           \A q \in Pages : WriteWords(q)' \subseteq Uses(q),
           \A q \in Pages : EditorWords(q)' \subseteq Uses(q),
           \A q \in Pages : Owns(q)' \subseteq Says(q)
    PROVE  \A q \in Pages : Uses(q)' \subseteq Uses(q) /\ Says(q)' \subseteq Says(q)
  <1>1. ASSUME NEW q \in Pages PROVE Uses(q)' \subseteq Uses(q) /\ Says(q)' \subseteq Says(q)
    <2>1. Uses(q)' = KeyWords(q)' \cup ScanWords(q)' \cup WriteWords(q)' \cup EditorWords(q)'
      BY DEF Uses
    <2>2. Says(q)' = Uses(q)' \cup Owns(q)' /\ Uses(q) \subseteq Says(q)
      BY DEF Says
    <2> QED BY <2>1, <2>2
  <1> QED BY <1>1

\* Where everything else rests.
LEMMA WordsRest ==
    ASSUME NEW q \in Pages
    PROVE  /\ key'[q] = key[q] => KeyWords(q)' = KeyWords(q)
           /\ scan' = scan => ScanWords(q)' = ScanWords(q)
           /\ write'[q] = write[q] => WriteWords(q)' = WriteWords(q)
           /\ ed'[q].id = ed[q].id /\ ed'[q].shown = ed[q].shown =>
                 EditorWords(q)' = EditorWords(q)
           /\ draft' = draft => Owns(q)' = Owns(q)
           /\ KeyWords(q) \subseteq Uses(q) /\ ScanWords(q) \subseteq Uses(q)
           /\ WriteWords(q) \subseteq Uses(q) /\ EditorWords(q) \subseteq Uses(q)
           /\ Uses(q) \subseteq Says(q) /\ Owns(q) \subseteq Says(q)
  <1>1. key'[q] = key[q] => KeyWords(q)' = KeyWords(q)
    BY DEF KeyWords
  <1>2. scan' = scan => ScanWords(q)' = ScanWords(q)
    BY DEF ScanWords
  <1>3. write'[q] = write[q] => WriteWords(q)' = WriteWords(q)
    BY DEF WriteWords
  <1>4. ed'[q].id = ed[q].id /\ ed'[q].shown = ed[q].shown =>
            EditorWords(q)' = EditorWords(q)
    BY DEF EditorWords
  <1>5. draft' = draft => Owns(q)' = Owns(q)
    BY DEF Owns, Kept, HasRow
  <1> QED BY <1>1, <1>2, <1>3, <1>4, <1>5, Zenon DEF Uses, Says

-----------------------------------------------------------------------------
(* Acknowledgements *)

ChoreLike(c) ==
    /\ c \in [pc : {"none", "flush", "asked", "told", "sweep", "stone"}, text : Nat,
              id : Lineage \cup {NoLineage}, out : {"none", "deleted", "kept"}]
    /\ c.pc \notin {"none", "flush"} => c.id # NoLineage

LEMMA ChoreStep ==
    ASSUME Shapes, NEW p \in Pages, Here(p), NEW c, ChoreLike(c), Chore(p, c),
           StoreLike(draft'), NothingNew(draft'), Works \/ Refuses,
           ed' = ed \/ \E t \in Nat : SetEditor(p, [ed[p] EXCEPT !.told = t]), ChoreOnly
    PROVE  Shapes' /\ QuietStep
  <1> USE DEF Shapes
  <1>1. UNCHANGED <<page, key, typed, write, scan, plan, served, adoptions>>
    BY DEF ChoreOnly
  <1>2. None' = None /\ Texts' = Texts /\ TypedOK'
    BY <1>1 DEF None, Texts, TypedOK
  <1>3. StoreOK' /\ KeysOK' /\ WritesOK'
    BY <1>1, <1>2 DEF StoreOK, StoreLike, KeysOK, WritesOK, None
  <1>4. EditorsOK' /\ \A q \in Pages : /\ ed'[q].id = ed[q].id /\ ed'[q].shown = ed[q].shown
                                       /\ ed'[q].minted = ed[q].minted
                                       /\ q # p => ed'[q] = ed[q]
    BY <1>2 DEF EditorsOK, SetEditor
  <1>5. ChoresOK' /\ \A q \in Pages : q # p => chore'[q] = chore[q]
    BY DEF ChoresOK, ChoreLike, Chore
  <1>6. ScansOK' /\ PlansOK'
    BY <1>1, <1>2 DEF ScansOK, PlansOK
  <1>7. LimitsOK'
    BY <1>1, <1>2, ConstantsOK DEF LimitsOK, Works, Refuses
  <1>8. PagesOK'
    BY <1>1, <1>4, <1>5 DEF PagesOK, Here
  <1>9. \A q \in Pages : Uses(q)' \subseteq Uses(q) /\ Says(q)' \subseteq Says(q)
    <2>1. \A q \in Pages : Owns(q)' \subseteq Says(q)
      BY OwnsShrink, WordsRest
    <2> QED BY <1>1, <1>4, <2>1, WordsRest, WordsShrink
  <1>10. QuietStep
    BY <1>1, <1>4, <1>9 DEF QuietStep, Gone
  <1> QED BY <1>2, <1>3, <1>4, <1>5, <1>6, <1>7, <1>8, <1>10

LEMMA SameStore ==
    ASSUME StoreOK
    PROVE  StoreLike(draft) /\ NothingNew(draft)
  BY DEF StoreOK, NothingNew, Kept, HasRow

LEMMA AcknowledgeQuiet ==
    ASSUME Shapes, NEW p \in Pages, NEW t \in served, Acknowledge(p, t)
    PROVE  Shapes' /\ QuietStep
  <1>1. t \in Nat
    BY TextFacts DEF Shapes, LimitsOK
  <1>2. ChoreLike([NoChore EXCEPT !.pc = "flush", !.text = t])
    BY <1>1 DEF ChoreLike, NoChore
  <1>3. StoreLike(draft') /\ NothingNew(draft')
    BY SameStore DEF Shapes, Acknowledge
  <1> QED BY <1>1, <1>2, <1>3, ChoreStep DEF Acknowledge

LEMMA AskDeleteQuiet ==
    ASSUME Shapes, NEW p \in Pages, AskDelete(p)
    PROVE  Shapes' /\ QuietStep
  <1> DEFINE c == IF ed[p].id = NoLineage THEN NoChore
                  ELSE [chore[p] EXCEPT !.pc = "asked", !.id = ed[p].id]
  <1>1. ChoreLike(c)
    <2>1. CASE ed[p].id = NoLineage
      BY <2>1 DEF ChoreLike, NoChore
    <2>2. CASE ed[p].id # NoLineage
      <3>1. ed[p].id \in Lineage
        BY <2>2 DEF Shapes, EditorsOK
      <3>2. ChoreLike(chore[p])
        BY DEF Shapes, ChoresOK, ChoreLike
      <3>3. c = [chore[p] EXCEPT !.pc = "asked", !.id = ed[p].id]
        BY <2>2
      <3> HIDE DEF c
      <3> QED BY <2>2, <3>1, <3>2, <3>3 DEF ChoreLike
    <2> QED BY <2>1, <2>2
  <1>2. StoreLike(draft') /\ NothingNew(draft')
    BY SameStore DEF Shapes, AskDelete
  <1> QED BY <1>1, <1>2, ChoreStep DEF AskDelete

LEMMA DeleteAcknowledgedQuiet ==
    ASSUME Shapes, NEW p \in Pages, DeleteAcknowledged(p)
    PROVE  Shapes' /\ QuietStep /\ NothingNew(draft')
  <1>1. PICK out \in {"deleted", "kept"} : Chore(p, [chore[p] EXCEPT !.pc = "told", !.out = out])
    BY Zenon DEF DeleteAcknowledged
  <1>2. ChoreLike([chore[p] EXCEPT !.pc = "told", !.out = out])
    BY DEF Shapes, ChoresOK, ChoreLike, DeleteAcknowledged
  <1>3. StoreLike(draft') /\ NothingNew(draft')
    <2>1. (Kept(chore[p].id) /\ draft' = Retired(chore[p].id)) \/ draft' = draft
      BY Zenon DEF DeleteAcknowledged
    <2> QED BY <2>1, SameStore, RetiredStore DEF Shapes, Kept
  <1>4. Here(p) /\ ChoreOnly /\ (Works \/ Refuses) /\ ed' = ed
    BY DEF DeleteAcknowledged
  <1> QED BY <1>1, <1>2, <1>3, <1>4, ChoreStep

LEMMA SweepQuiet ==
    ASSUME Shapes, NEW p \in Pages, NEW m \in marks, Sweep(p, m)
    PROVE  Shapes' /\ QuietStep /\ NothingNew(draft')
  <1> DEFINE own == chore[p].pc = "sweep" /\ chore[p].id = m.id
             c == IF own THEN [chore[p] EXCEPT !.pc = "stone"] ELSE chore[p]
  <1>1. ChoreLike(c)
    BY DEF Shapes, ChoresOK, ChoreLike
  <1>2. StoreLike(draft') /\ NothingNew(draft')
    <2>1. (Kept(m.id) /\ draft' = Retired(m.id)) \/ draft' = draft
      BY Zenon DEF Sweep, Swept
    <2> QED BY <2>1, SameStore, RetiredStore DEF Shapes, Kept
  <1>3. Here(p) /\ Chore(p, c) /\ ChoreOnly /\ Works /\ ed' = ed
    BY DEF Sweep
  <1> QED BY <1>1, <1>2, <1>3, ChoreStep

LEMMA LeaveStoneQuiet ==
    ASSUME Shapes, NEW p \in Pages, LeaveStone(p)
    PROVE  Shapes' /\ QuietStep /\ NothingNew(draft')
  <1>1. ChoreLike(NoChore)
    BY DEF ChoreLike, NoChore
  <1>2. chore[p].id \in Lineage /\ ed[p].shown \in None
    BY DEF Shapes, ChoresOK, EditorsOK, LeaveStone
  <1>3. StoreLike(draft') /\ NothingNew(draft')
    <2>1. draft' = Entombed(chore[p].id, p, ed[p].shown) \/ draft' = draft
      BY Zenon DEF LeaveStone
    <2> QED BY <1>2, <2>1, SameStore, EntombedStore DEF Shapes
  <1>4. Here(p) /\ Chore(p, NoChore) /\ ChoreOnly /\ (Works \/ Refuses) /\ ed' = ed
    BY DEF LeaveStone
  <1> QED BY <1>1, <1>3, <1>4, ChoreStep

LEMMA ReleaseStoneQuiet ==
    ASSUME Shapes, NEW p \in Pages, NEW d \in stones[p], ReleaseStone(p, d)
    PROVE  Shapes' /\ QuietStep /\ NothingNew(draft')
  <1>1. ChoreLike(chore[p]) /\ chore = [chore EXCEPT ![p] = chore[p]]
    BY DEF Shapes, ChoresOK, ChoreLike
  <1>2. StoreLike(draft') /\ NothingNew(draft')
    BY UnmarkedStore DEF Shapes, ReleaseStone
  <1>3. Here(p) /\ Chore(p, chore[p]) /\ ChoreOnly /\ Works /\ ed' = ed
    BY <1>1 DEF ReleaseStone, Chore
  <1> QED BY <1>1, <1>2, <1>3, ChoreStep


-----------------------------------------------------------------------------
(* The writer's transaction, and what only the page sees *)

WriteLike(w) ==
    /\ w \in [id : Lineage \cup {NoLineage}, text : Nat, create : BOOLEAN,
              out : {"none", "sent", "ok", "missing", "not-owner", "stale", "failed"}]
    /\ w.out # "none" => w.id # NoLineage /\ w.text \in Texts

LEMMA WriteStep ==
    ASSUME Shapes, NEW p \in Pages, Here(p), NEW w, WriteLike(w),
           write' = [write EXCEPT ![p] = w],
           w.out = "sent" => [id |-> w.id, text |-> w.text] \in Uses(p),
           StoreLike(draft'), \A q \in Pages : Owns(q)' \subseteq Says(q), Works \/ Refuses,
           UNCHANGED <<page, key, typed, ed, chore, scan, plan, served, adoptions>>
    PROVE  Shapes' /\ QuietStep
  <1> USE DEF Shapes
  <1>1. None' = None /\ Texts' = Texts /\ TypedOK'
    BY DEF None, Texts, TypedOK
  <1>2. StoreOK' /\ KeysOK'
    BY <1>1 DEF StoreOK, StoreLike, KeysOK, None
  <1>3. EditorsOK' /\ ChoresOK'
    BY <1>1 DEF EditorsOK, ChoresOK
  <1>4. WritesOK' /\ \A q \in Pages : q # p => write'[q] = write[q]
    BY <1>1 DEF WritesOK, WriteLike
  <1>5. ScansOK' /\ PlansOK'
    BY <1>1 DEF ScansOK, PlansOK
  <1>6. LimitsOK'
    BY <1>1, ConstantsOK DEF LimitsOK, Works, Refuses
  <1>7. PagesOK'
    BY <1>4 DEF PagesOK, Here
  <1>8. write'[p] = w
    BY DEF WritesOK
  <1>9. \A q \in Pages : WriteWords(q)' \subseteq Uses(q)
    <2>1. WriteWords(p)' \subseteq Uses(p)
      BY <1>8 DEF WriteWords
    <2> QED BY <1>4, <2>1, WordsRest
  <1>10. \A q \in Pages : Uses(q)' \subseteq Uses(q) /\ Says(q)' \subseteq Says(q)
    BY <1>9, WordsRest, WordsShrink
  <1>11. QuietStep
    BY <1>10 DEF QuietStep, Gone
  <1> QED BY <1>1, <1>2, <1>3, <1>4, <1>5, <1>6, <1>7, <1>11

LEMMA StartWriteQuiet ==
    ASSUME Shapes, NEW p \in Pages, StartWrite(p)
    PROVE  Shapes' /\ QuietStep
  <1> DEFINE w == [id |-> ed[p].id, text |-> ed[p].latest, create |-> ~ed[p].stored,
                   out |-> "sent"]
  <1>1. /\ ed[p].latest = ed[p].shown /\ ed[p].latest \in Texts /\ ed[p].latest \in Nat
        /\ ed[p].id \in Lineage /\ ed[p].id # NoLineage /\ ed[p].stored \in BOOLEAN
    <2>1. ed[p].latest = ed[p].shown /\ ed[p].shown \in None /\ ed[p].latest # 0
          /\ ed[p].id # NoLineage
      BY DEF Shapes, EditorsOK, StartWrite
    <2> QED BY <2>1, TextFacts DEF Shapes, EditorsOK, None, Texts
  <1>2. WriteLike(w)
    BY <1>1 DEF WriteLike
  <1>3. [id |-> w.id, text |-> w.text] \in Uses(p)
    BY <1>1 DEF Uses, EditorWords
  <1>4. StoreLike(draft') /\ \A q \in Pages : Owns(q)' \subseteq Says(q)
    BY SameStore, OwnsShrink, WordsRest DEF Shapes, StartWrite
  <1>5. /\ Here(p) /\ write' = [write EXCEPT ![p] = w] /\ Works
        /\ UNCHANGED <<page, key, typed, ed, chore, scan, plan, served, adoptions>>
    BY DEF StartWrite, Works, limits
  <1> HIDE DEF w
  <1> QED BY <1>2, <1>3, <1>4, <1>5, WriteStep

LEMMA OpenWrites ==
    ASSUME Shapes, NEW p \in Pages, write[p].out # "none"
    PROVE  Here(p) /\ write[p].id \in Lineage /\ write[p].text \in Texts /\ WriteLike(write[p])
  BY DEF Shapes, PagesOK, NoWrite, WritesOK, WriteLike

\* A write that the store takes puts in a word that the writer had.
LEMMA CommitWriteQuiet ==
    ASSUME Shapes, NEW p \in Pages, CommitWrite(p)
    PROVE  Shapes' /\ QuietStep
  <1> DEFINE d == write[p].id
             w == [write[p] EXCEPT !.out = WriteOutcome(p)]
             source == IF HasRow(d) THEN draft[d].source ELSE NoPage
             row == [owner |-> p, text |-> write[p].text, status |-> "active",
                     source |-> source]
  <1>1. Here(p) /\ d \in Lineage /\ write[p].text \in Texts /\ WriteLike(write[p])
        /\ write[p].out = "sent"
    BY OpenWrites DEF CommitWrite
  <1>2. WriteOutcome(p) \in {"ok", "missing", "not-owner", "stale"}
    BY <1>1 DEF WriteOutcome
  <1>3. WriteLike(w) /\ w.out # "sent"
    BY <1>1, <1>2 DEF WriteLike
  <1>4. row \in Row /\ row.text \in None /\ row.text # 0
    BY <1>1, TextFacts DEF Row, Shapes, StoreOK, StoreLike, HasRow, Texts
  <1>5. StoreLike(draft') /\ \A q \in Pages : Owns(q)' \subseteq Says(q)
    <2>1. CASE WriteOutcome(p) = "ok"
      <3>1. draft' = With(d, row)
        BY <2>1 DEF CommitWrite
      <3>2. row.owner = p /\ row.text = write[p].text
        OBVIOUS
      <3> HIDE DEF row, d
      <3>3. /\ StoreLike(draft') /\ DOMAIN draft' = DOMAIN draft \cup {d} /\ draft'[d] = row
            /\ \A e \in DOMAIN draft : e # d => draft'[e] = draft[e]
        BY <1>1, <1>4, <3>1, WithStore DEF Shapes
      <3>4. [id |-> d, text |-> write[p].text] \in Uses(p)
        BY <1>1 DEF Uses, WriteWords, d
      <3>5. ASSUME NEW q \in Pages, NEW x \in Owns(q)' PROVE x \in Says(q)
        <4>1. PICK e \in DOMAIN draft' : /\ x = [id |-> e, text |-> draft'[e].text]
                                         /\ draft'[e].owner = q
                                         /\ draft'[e].status # "discarded"
          BY <3>5 DEF Owns, Kept, HasRow
        <4>2. CASE e = d
          BY <3>2, <3>3, <3>4, <4>1, <4>2 DEF Says
        <4>3. CASE e # d
          BY <3>3, <4>1, <4>3 DEF Says, Owns, Kept, HasRow
        <4> QED BY <4>2, <4>3
      <3> QED BY <3>3, <3>5
    <2>2. CASE WriteOutcome(p) # "ok"
      BY <2>2, SameStore, OwnsShrink, WordsRest DEF Shapes, CommitWrite
    <2> QED BY <2>1, <2>2
  <1>6. /\ write' = [write EXCEPT ![p] = w] /\ Works
        /\ UNCHANGED <<page, key, typed, ed, chore, scan, plan, served, adoptions>>
    BY DEF CommitWrite, Works, limits
  <1> HIDE DEF w
  <1> QED BY <1>1, <1>3, <1>5, <1>6, WriteStep

LEMMA FailWriteQuiet ==
    ASSUME Shapes, NEW p \in Pages, FailWrite(p)
    PROVE  Shapes' /\ QuietStep
  <1> DEFINE w == [write[p] EXCEPT !.out = "failed"]
  <1>1. Here(p) /\ WriteLike(w) /\ w.out # "sent"
    BY OpenWrites DEF FailWrite, WriteLike
  <1>2. StoreLike(draft') /\ \A q \in Pages : Owns(q)' \subseteq Says(q)
    BY SameStore, OwnsShrink, WordsRest DEF Shapes, FailWrite
  <1>3. /\ write' = [write EXCEPT ![p] = w] /\ Refuses
        /\ UNCHANGED <<page, key, typed, ed, chore, scan, plan, served, adoptions>>
    BY DEF FailWrite
  <1> HIDE DEF w
  <1> QED BY <1>1, <1>2, <1>3, WriteStep


-----------------------------------------------------------------------------
(* The writer's lineage and text *)

EditorRecords == [id : Lineage \cup {NoLineage}, stored : BOOLEAN, committed : Nat, latest : Nat,
                  shown : Nat, minted : Nat, told : Nat, failed : BOOLEAN]

\* Writer p becomes w: it keeps its lineage, ends it or mints a new one; and
\* it keeps its text, or has a new one typed over it.
KeepsText(p, w) == w.shown = ed[p].shown /\ typed' = typed
TypesText(p, w) ==
    /\ w.id # NoLineage /\ w.shown \in Texts' \ None
    /\ None \subseteq None' /\ Texts \subseteq Texts' /\ Texts' \subseteq Texts \cup {w.shown}
    /\ \A t \in None : Gen(t)' = Gen(t) /\ Under(t)' = Under(t)
    /\ Under(w.shown)' = IF ed[p].shown = 0 THEN {}
                         ELSE {ed[p].shown} \cup Under(ed[p].shown)
WriterMoves(p, w) ==
    /\ \/ w.id \in {ed[p].id, NoLineage} /\ w.minted = ed[p].minted
       \/ w.id = Minted(p, ed[p].minted + 1) /\ w.minted = ed[p].minted + 1
    /\ w.id # NoLineage => w.shown # 0
    /\ KeepsText(p, w) \/ TypesText(p, w)

\* Nothing else says anything new.
WriterStep(p) ==
    /\ \E w \in EditorRecords : ed'[p] = w /\ WriterMoves(p, w)
    /\ Here(p) /\ UNCHANGED <<page, draft, plan>>
    /\ \A q \in Pages \ {p} : ed'[q] = ed[q] /\ Uses(q)' \subseteq Uses(q)
    /\ Uses(p)' \subseteq Uses(p) \cup (IF ed'[p].id = NoLineage THEN {}
                                        ELSE {[id |-> ed'[p].id, text |-> ed'[p].shown]})

LEMMA WriterShapes ==
    ASSUME Shapes, NEW p \in Pages, Here(p), TypedOK', NEW w \in EditorRecords,
           SetEditor(p, w), RefreshKey(p, w), WriterMoves(p, w), w.latest \in {0, w.shown},
           w.id = NoLineage => w.latest = 0,
           NEW c, ChoreLike(c), Chore(p, c),
           write' = write \/ write' = [write EXCEPT ![p] = NoWrite],
           UNCHANGED <<page, draft, scan, plan, served, adoptions>>
    PROVE  Shapes' /\ WriterStep(p)
  <1> USE DEF Shapes
  <1>1. /\ None \subseteq None' /\ Texts \subseteq Texts' /\ w.shown \in None'
        /\ w.shown # 0 => w.shown \in Texts'
    <2>1. CASE KeepsText(p, w)
      BY <2>1, TextFacts DEF KeepsText, EditorsOK, None, Texts
    <2>2. CASE TypesText(p, w)
      BY <2>2 DEF TypesText, TypedOK, None, Texts
    <2> QED BY <2>1, <2>2 DEF WriterMoves
  <1>2. /\ w.latest # 0 => w.latest \in Nat /\ w.id \in Lineage /\ w.latest \in Texts'
        /\ w.stored \in BOOLEAN /\ w.id \in Lineage \cup {NoLineage}
    BY <1>1 DEF EditorRecords
  <1>3. KeyMoved(p, w)
    BY <1>2, KeyRefresh
  <1>4. ed' = [ed EXCEPT ![p] = w] /\ ed'[p] = w /\ \A q \in Pages \ {p} : ed'[q] = ed[q]
    BY DEF SetEditor, EditorsOK
  <1>5. StoreOK'
    BY <1>1 DEF StoreOK, StoreLike
  <1>6. KeysOK'
    <2>1. ASSUME NEW q \in Pages, key'[q] # NoEntry PROVE key'[q].tail \in Texts'
      BY <1>1, <1>2, <1>3, <2>1 DEF KeyMoved, KeysOK
    <2> QED BY <1>3, <2>1 DEF KeyMoved, KeysOK
  <1>7. EditorsOK'
    <2>1. ed' \in [Pages -> EditorRecords]
      BY <1>4 DEF EditorsOK, EditorRecords
    <2>2. ASSUME NEW q \in Pages
          PROVE  /\ ed'[q].shown \in None' /\ ed'[q].latest \in {0, ed'[q].shown}
                 /\ ed'[q].id = NoLineage => ed'[q].latest = 0
                 /\ ed'[q].id # NoLineage => ed'[q].shown # 0
      BY <1>1, <1>4 DEF EditorsOK, WriterMoves
    <2> QED BY <2>1, <2>2 DEF EditorsOK, EditorRecords
  <1>8. WritesOK' /\ \A q \in Pages : write'[q] = write[q] \/ (q = p /\ write'[q] = NoWrite)
    <2>1. WriteLike(NoWrite)
      BY DEF WriteLike, NoWrite
    <2>2. \A q \in Pages : write'[q] = write[q] \/ (q = p /\ write'[q] = NoWrite)
      BY DEF WritesOK
    <2> QED BY <1>1, <2>1, <2>2 DEF WritesOK, WriteLike
  <1>9. ChoresOK' /\ \A q \in Pages : q # p => chore'[q] = chore[q]
    BY DEF ChoresOK, ChoreLike, Chore
  <1>10. ScansOK' /\ PlansOK'
    BY <1>1 DEF ScansOK, PlansOK
  <1>11. LimitsOK'
    BY <1>1, <1>3 DEF LimitsOK, KeyMoved
  <1>12. PagesOK'
    BY <1>3, <1>4, <1>8, <1>9 DEF PagesOK, Here, KeyMoved
  <1>13. \A q \in Pages \ {p} : Uses(q)' = Uses(q)
    <2>1. ASSUME NEW q \in Pages \ {p} PROVE Uses(q)' = Uses(q)
      <3>1. key'[q] = key[q] /\ write'[q] = write[q] /\ ed'[q] = ed[q] /\ scan' = scan
        BY <1>3, <1>4, <1>8 DEF KeyMoved
      <3>2. /\ KeyWords(q)' = KeyWords(q) /\ ScanWords(q)' = ScanWords(q)
            /\ WriteWords(q)' = WriteWords(q) /\ EditorWords(q)' = EditorWords(q)
        BY <3>1, WordsRest
      <3> QED BY <3>2 DEF Uses
    <2> QED BY <2>1
  <1>14. Uses(p)' \subseteq Uses(p) \cup (IF w.id = NoLineage THEN {}
                                         ELSE {[id |-> w.id, text |-> w.shown]})
    <2> DEFINE new == IF w.id = NoLineage THEN {} ELSE {[id |-> w.id, text |-> w.shown]}
    <2>1. KeyWords(p)' \subseteq KeyWords(p) \cup new
      <3>1. CASE key'[p] = key[p]
        BY <3>1 DEF KeyWords
      <3>2. CASE key'[p] = NoEntry
        BY <3>2 DEF KeyWords
      <3>3. CASE w.latest # 0 /\ key'[p].id = w.id /\ key'[p].tail = w.latest
        BY <3>3, <1>2 DEF KeyWords
      <3> QED BY <1>3, <3>1, <3>2, <3>3 DEF KeyMoved
    <2>2. WriteWords(p)' \subseteq WriteWords(p) /\ ScanWords(p)' = ScanWords(p)
      BY <1>8 DEF WriteWords, NoWrite, ScanWords
    <2>3. EditorWords(p)' = new
      BY <1>4 DEF EditorWords
    <2>4. Uses(p)' = KeyWords(p)' \cup ScanWords(p)' \cup WriteWords(p)' \cup EditorWords(p)'
      BY DEF Uses
    <2>5. Uses(p)' \subseteq Uses(p) \cup new
      <3> HIDE DEF new
      <3> QED BY <2>1, <2>2, <2>3, <2>4 DEF Uses
    <2> QED BY <2>5
  <1>15. WriterStep(p)
    BY <1>4, <1>13, <1>14 DEF WriterStep
  <1> QED BY <1>5, <1>6, <1>7, <1>8, <1>9, <1>10, <1>11, <1>12, <1>15


LEMMA FreshLineageIs ==
    ASSUME NEW p \in Pages, NEW e \in EditorRecords
    PROVE  LET w == FreshLineage(p, e) IN
           /\ w \in EditorRecords /\ w.id = Minted(p, e.minted + 1) /\ w.minted = e.minted + 1
           /\ w.shown = e.shown /\ w.latest = e.latest /\ w.id \in Lineage /\ w.id # NoLineage
  <1>1. Minted(p, e.minted + 1) \in Lineage /\ e.minted + 1 \in Nat
    BY DEF Minted, Lineage, EditorRecords
  <1> HIDE DEF Minted, Lineage
  <1> QED BY <1>1, NoLineageOK DEF FreshLineage, EditorRecords

LEMMA EditWrites ==
    ASSUME Shapes, NEW p \in Pages, Edit(p)
    PROVE  Shapes' /\ WriterStep(p)
  <1> DEFINE s == ed[p].shown
             lineage == IF ed[p].id = NoLineage THEN FreshLineage(p, ed[p]) ELSE ed[p]
  <1>1. PICK n \in Nat : n = Len(typed) + 1
    BY TextFacts DEF Shapes
  <1> DEFINE w == [lineage EXCEPT !.latest = n, !.shown = n, !.failed = FALSE]
  <1>2. ed[p] \in EditorRecords /\ s \in None /\ n <= MaxTexts /\ n # 0 /\ Here(p)
    BY <1>1, TextFacts DEF Shapes, EditorsOK, EditorRecords, Edit
  <1>3. /\ TypedOK' /\ None \subseteq None' /\ Texts \subseteq Texts' /\ n \in Texts' /\ n \notin None
        /\ \A t \in None : Gen(t)' = Gen(t) /\ Under(t)' = Under(t)
        /\ Under(n)' = (IF s = 0 THEN {} ELSE {s} \cup Under(s)) /\ Texts' \subseteq Texts \cup {n}
    <2>1. typed' = Append(typed, [gen |-> Gen(s) + 1,
                                  under |-> IF s = 0 THEN {} ELSE {s} \cup Under(s)])
      BY DEF Edit
    <2> HIDE DEF s
    <2> QED BY <1>1, <1>2, <2>1, NewText DEF Shapes
  <1>4. /\ lineage \in EditorRecords /\ lineage.id # NoLineage
        /\ \/ lineage.id = ed[p].id /\ lineage.minted = ed[p].minted
           \/ lineage.id = Minted(p, ed[p].minted + 1) /\ lineage.minted = ed[p].minted + 1
    BY <1>2, FreshLineageIs
  <1>5. /\ w \in EditorRecords /\ w.shown = n /\ w.latest = n /\ w.id = lineage.id
        /\ w.minted = lineage.minted
    <2> HIDE DEF lineage
    <2> QED BY <1>4 DEF EditorRecords
  <1>6. SetEditor(p, w) /\ RefreshKey(p, w)
    BY <1>1 DEF Edit
  <1>7. UNCHANGED <<page, draft, scan, plan, served, adoptions, write, chore>>
    BY DEF Edit
  <1>w. PICK v \in EditorRecords : v = w
    BY <1>5
  <1> HIDE DEF w, lineage, s
  <1>8. WriterMoves(p, v)
    <2>1. v.shown = n /\ v.id # NoLineage
      BY <1>4, <1>5, <1>w
    <2>2. TypesText(p, v)
      BY <1>3, <2>1 DEF TypesText, s
    <2> QED BY <1>2, <1>4, <1>5, <1>w, <2>1, <2>2 DEF WriterMoves
  <1>9. ChoreLike(chore[p]) /\ Chore(p, chore[p])
    BY <1>7 DEF Shapes, ChoresOK, ChoreLike, Chore
  <1> QED BY <1>2, <1>3, <1>4, <1>5, <1>6, <1>7, <1>w, <1>8, <1>9, WriterShapes

LEMMA AfterWriteWrites ==
    ASSUME Shapes, NEW p \in Pages, AfterWrite(p)
    PROVE  Shapes' /\ WriterStep(p)
  <1> DEFINE out == write[p].out
             e == ed[p]
             ok == [e EXCEPT !.stored = TRUE, !.committed = write[p].text, !.failed = FALSE,
                             !.latest = IF @ = write[p].text THEN 0 ELSE @]
             w == CASE ed[p].id # write[p].id -> ed[p]
                    [] ed[p].id = write[p].id /\ out = "ok" -> ok
                    [] ed[p].id = write[p].id /\ out = "failed" -> [ed[p] EXCEPT !.failed = TRUE]
                    [] OTHER -> FreshLineage(p, ed[p])
  <1>1. /\ e \in EditorRecords /\ Here(p) /\ write[p].text \in Nat /\ write[p].id # NoLineage
        /\ e.id = NoLineage => e.latest = 0
        /\ e.latest \in {0, e.shown} /\ (e.id # NoLineage => e.shown # 0)
    <2>1. write[p].out # "none" /\ Here(p)
      BY DEF AfterWrite
    <2>2. write[p].id # NoLineage /\ write[p].text \in Nat
      BY <2>1, TextFacts DEF Shapes, WritesOK
    <2> QED BY <2>1, <2>2 DEF Shapes, EditorsOK, EditorRecords
  <1>3. \/ w \in {ed[p], ok, [ed[p] EXCEPT !.failed = TRUE]}
        \/ w = FreshLineage(p, ed[p]) /\ ed[p].id = write[p].id
    OBVIOUS
  <1>4. /\ w \in EditorRecords /\ w.latest \in {0, w.shown} /\ w.shown = ed[p].shown
        /\ w.id = NoLineage => w.latest = 0
        /\ w.id # NoLineage => w.shown # 0
        /\ \/ w.id = ed[p].id /\ w.minted = ed[p].minted
           \/ w.id = Minted(p, ed[p].minted + 1) /\ w.minted = ed[p].minted + 1
    <2> HIDE DEF w
    <2>1. CASE w = ed[p]
      BY <1>1, <2>1
    <2>2. CASE w = ok
      BY <1>1, <2>2 DEF EditorRecords
    <2>3. CASE w = [ed[p] EXCEPT !.failed = TRUE]
      BY <1>1, <2>3 DEF EditorRecords
    <2>4. CASE w = FreshLineage(p, ed[p]) /\ ed[p].id = write[p].id
      BY <1>1, <2>4, FreshLineageIs
    <2> QED BY <1>3, <2>1, <2>2, <2>3, <2>4
  <1>5. /\ SetEditor(p, w) /\ RefreshKey(p, w) /\ write' = [write EXCEPT ![p] = NoWrite]
        /\ UNCHANGED <<page, draft, scan, plan, served, adoptions, typed, chore>>
    BY DEF AfterWrite, KeyStepOnly
  <1> HIDE DEF w
  <1>6. WriterMoves(p, w)
    BY <1>4, <1>5 DEF WriterMoves, KeepsText
  <1>7. ChoreLike(chore[p]) /\ Chore(p, chore[p]) /\ TypedOK'
    BY <1>5 DEF Shapes, ChoresOK, ChoreLike, Chore, TypedOK, Texts
  <1> QED BY <1>1, <1>4, <1>5, <1>6, <1>7, WriterShapes

LEMMA AfterDeleteWrites ==
    ASSUME Shapes, NEW p \in Pages, AfterDelete(p)
    PROVE  Shapes' /\ WriterStep(p)
  <1> DEFINE c == chore[p]
             e == ed[p]
             mine == e.id = c.id
             uncommitted == c.out # "deleted" /\ mine /\ e.latest = c.text /\ write[p] = NoWrite
             superseded == uncommitted /\ e.stored /\ e.committed # 0
             ended == [NoLineageLeft(e) EXCEPT !.latest = 0]
             w == CASE uncommitted -> ended
                    [] c.out = "deleted" /\ mine /\ e.latest # 0 -> FreshLineage(p, e)
                    [] c.out = "deleted" /\ mine /\ e.latest = 0 -> NoLineageLeft(e)
                    [] OTHER -> e
             next == IF uncommitted \/ c.out = "deleted"
                     THEN [c EXCEPT !.pc = IF superseded THEN "sweep" ELSE "stone"] ELSE NoChore
  <1>1. /\ e \in EditorRecords /\ Here(p) /\ c.id # NoLineage /\ ChoreLike(c)
        /\ e.id = NoLineage => e.latest = 0
        /\ e.latest \in {0, e.shown} /\ (e.id # NoLineage => e.shown # 0)
    BY DEF Shapes, EditorsOK, EditorRecords, AfterDelete, ChoresOK, ChoreLike
  <1>3. \/ w \in {ended, e}
        \/ w = FreshLineage(p, e) /\ mine
        \/ w = NoLineageLeft(e) /\ e.latest = 0
    OBVIOUS
  <1>4. /\ w \in EditorRecords /\ w.latest \in {0, w.shown} /\ w.shown = e.shown
        /\ w.id = NoLineage => w.latest = 0
        /\ w.id # NoLineage => w.shown # 0
        /\ \/ w.id \in {e.id, NoLineage} /\ w.minted = e.minted
           \/ w.id = Minted(p, e.minted + 1) /\ w.minted = e.minted + 1
    <2> HIDE DEF w
    <2>1. CASE w = e
      BY <1>1, <2>1
    <2>2. CASE w = ended
      BY <1>1, <2>2 DEF EditorRecords, NoLineageLeft
    <2>3. CASE w = NoLineageLeft(e) /\ e.latest = 0
      BY <1>1, <2>3 DEF EditorRecords, NoLineageLeft
    <2>4. CASE w = FreshLineage(p, e) /\ mine
      BY <1>1, <2>4, FreshLineageIs
    <2> QED BY <1>3, <2>1, <2>2, <2>3, <2>4
  <1>5. ChoreLike(next)
    <2>1. ChoreLike(NoChore)
      BY DEF ChoreLike, NoChore
    <2>2. ASSUME NEW pc \in {"sweep", "stone"} PROVE ChoreLike([c EXCEPT !.pc = pc])
      <3> HIDE DEF c
      <3> QED BY <1>1, <2>2 DEF ChoreLike
    <2>3. next \in {NoChore, [c EXCEPT !.pc = "sweep"], [c EXCEPT !.pc = "stone"]}
      OBVIOUS
    <2> HIDE DEF next, c
    <2> QED BY <2>1, <2>2, <2>3
  <1>6. /\ SetEditor(p, w) /\ RefreshKey(p, w) /\ Chore(p, next)
        /\ UNCHANGED <<page, draft, scan, plan, served, adoptions, typed, write>>
    BY DEF AfterDelete
  <1> HIDE DEF w, next, c, e
  <1>7. WriterMoves(p, w)
    BY <1>4, <1>6 DEF WriterMoves, KeepsText, e
  <1>8. TypedOK'
    BY <1>6 DEF Shapes, TypedOK, Texts
  <1> QED BY <1>1, <1>4, <1>5, <1>6, <1>7, <1>8, WriterShapes


-----------------------------------------------------------------------------
(* The page *)

\* A pending text goes into the page's key.
LEMMA KeyQuiet ==
    ASSUME Shapes, NEW p \in Pages, Here(p), typed' = typed,
           (ed[p].latest # 0 /\ WriteKey(p, ed[p])) \/ UNCHANGED <<key, faults>>
    PROVE  /\ KeysOK' /\ faults' \in 0 .. MaxFaults
           /\ \A q \in Pages : KeyWords(q)' \subseteq Uses(q) /\ (q # p => key'[q] = key[q])
  <1>1. Texts' = Texts
    BY DEF Texts
  <1>2. CASE UNCHANGED <<key, faults>>
    BY <1>1, <1>2, WordsRest DEF Shapes, KeysOK, LimitsOK
  <1>3. CASE ed[p].latest # 0 /\ WriteKey(p, ed[p])
    <2>1. /\ ed[p].latest = ed[p].shown /\ ed[p].latest \in Texts /\ ed[p].latest \in Nat
          /\ ed[p].id \in Lineage /\ ed[p].id # NoLineage /\ ed[p].stored \in BOOLEAN
      BY <1>3, TextFacts DEF Shapes, EditorsOK, None, Texts
    <2>2. KeyMoved(p, ed[p])
      BY <1>3, <2>1, KeyWrite DEF Shapes
    <2>3. KeysOK'
      BY <1>1, <2>1, <2>2 DEF Shapes, KeysOK, KeyMoved
    <2>4. KeyWords(p)' \subseteq Uses(p)
      <3>1. CASE key'[p] = key[p]
        BY <3>1, WordsRest
      <3>2. CASE key'[p] = NoEntry
        BY <3>2 DEF KeyWords
      <3>3. CASE key'[p].id = ed[p].id /\ key'[p].tail = ed[p].latest
        BY <2>1, <3>3 DEF KeyWords, Uses, EditorWords
      <3> QED BY <2>2, <3>1, <3>2, <3>3 DEF KeyMoved
    <2> QED BY <2>2, <2>3, <2>4, WordsRest DEF KeyMoved
  <1> QED BY <1>2, <1>3

LEMMA HideQuiet ==
    ASSUME Shapes, NEW p \in Pages, Hide(p)
    PROVE  Shapes' /\ QuietStep
  <1> USE DEF Shapes
  <1>1. /\ UNCHANGED <<page, draft, typed, ed, write, chore, scan, plan, served, adoptions>>
        /\ Here(p) /\ ed[p].latest # 0 /\ WriteKey(p, ed[p])
    BY DEF Hide, KeyStepOnly
  <1>2. None' = None /\ Texts' = Texts /\ TypedOK'
    BY <1>1 DEF None, Texts, TypedOK
  <1>3. /\ KeysOK' /\ faults' \in 0 .. MaxFaults
        /\ \A q \in Pages : KeyWords(q)' \subseteq Uses(q) /\ (q # p => key'[q] = key[q])
    BY <1>1, KeyQuiet
  <1>4. StoreOK' /\ EditorsOK' /\ WritesOK' /\ ChoresOK' /\ ScansOK' /\ PlansOK' /\ LimitsOK'
    BY <1>1, <1>2, <1>3
       DEF StoreOK, StoreLike, EditorsOK, WritesOK, ChoresOK, ScansOK, PlansOK, LimitsOK
  <1>5. PagesOK'
    BY <1>1, <1>3 DEF PagesOK, Here
  <1>6. \A q \in Pages : Uses(q)' \subseteq Uses(q) /\ Says(q)' \subseteq Says(q)
    BY <1>1, <1>3, WordsRest, WordsShrink
  <1>7. QuietStep
    BY <1>1, <1>6 DEF QuietStep, Gone
  <1> QED BY <1>2, <1>3, <1>4, <1>5, <1>7

\* What a page that is not open remembers.
LEMMA NothingRemembered ==
    ASSUME TypedOK
    PROVE  /\ NewEditor \in EditorRecords /\ NewEditor.shown = 0 /\ NewEditor.latest = 0
           /\ NewEditor.id = NoLineage
           /\ WriteLike(NoWrite) /\ NoWrite.out = "none" /\ ChoreLike(NoChore)
           /\ NoScan \in [pc : {"none", "pick", "apply", "applied", "unmark", "unmark-fork",
                                "done"},
                          todo : SUBSET (Pages \X Entry), of : Pages \cup {NoPage},
                          entry : Entry \cup {NoEntry}, definite : BOOLEAN]
           /\ NoScan.pc = "none" /\ NoPlan.act = "none" /\ 0 \in None
  BY DEF NewEditor, EditorRecords, NoWrite, WriteLike, NoChore, ChoreLike, NoScan, NoPlan, None,
         TypedOK

LEMMA LeaveQuiet ==
    ASSUME Shapes, NEW p \in Pages, Close(p) \/ Crash(p)
    PROVE  Shapes' /\ QuietStep
  <1> USE DEF Shapes
  <1>1. /\ UNCHANGED <<draft, typed, served, adoptions>> /\ Here(p)
        /\ page' = [page EXCEPT ![p] = "gone"] /\ Forgotten(p)
        /\ (ed[p].latest # 0 /\ WriteKey(p, ed[p])) \/ UNCHANGED <<key, faults>>
    BY DEF Close, Crash, PageStep
  <1>2. None' = None /\ Texts' = Texts /\ TypedOK'
    BY <1>1 DEF None, Texts, TypedOK
  <1>3. /\ KeysOK' /\ faults' \in 0 .. MaxFaults
        /\ \A q \in Pages : KeyWords(q)' \subseteq Uses(q) /\ (q # p => key'[q] = key[q])
    BY <1>1, KeyQuiet
  <1>4. /\ ed'[p] = NewEditor /\ write'[p] = NoWrite /\ chore'[p] = NoChore /\ scan'[p] = NoScan
        /\ plan'[p] = NoPlan /\ page'[p] = "gone"
        /\ \A q \in Pages \ {p} : /\ ed'[q] = ed[q] /\ write'[q] = write[q]
                                  /\ chore'[q] = chore[q] /\ scan'[q] = scan[q]
                                  /\ plan'[q] = plan[q] /\ page'[q] = page[q]
    BY <1>1 DEF Forgotten, EditorsOK, WritesOK, ChoresOK, ScansOK, PlansOK, PagesOK
  <1>5. EditorsOK'
    <2>1. ed' \in [Pages -> EditorRecords]
      BY <1>1, NothingRemembered DEF Forgotten, EditorsOK, EditorRecords
    <2> QED BY <1>2, <1>4, <2>1, NothingRemembered DEF EditorsOK, EditorRecords
  <1>6. WritesOK' /\ ChoresOK'
    BY <1>1, <1>2, <1>4, NothingRemembered DEF Forgotten, WritesOK, ChoresOK, WriteLike, ChoreLike
  <1>7. ScansOK'
    BY <1>1, <1>2, <1>4, NothingRemembered DEF Forgotten, ScansOK
  <1>8. PlansOK' /\ StoreOK' /\ LimitsOK'
    BY <1>1, <1>2, <1>3, <1>4 DEF Forgotten, PlansOK, StoreOK, StoreLike, LimitsOK
  <1>9. PagesOK'
    BY <1>1, <1>3, <1>4 DEF PagesOK, Here, PageStates
  <1>10. \A q \in Pages : Uses(q)' \subseteq Uses(q) /\ Says(q)' \subseteq Says(q)
    <2>1. \A q \in Pages : ScanWords(q)' \subseteq ScanWords(q)
      BY <1>4, NothingRemembered DEF ScanWords
    <2>2. \A q \in Pages : WriteWords(q)' \subseteq WriteWords(q)
      BY <1>4, NothingRemembered DEF WriteWords
    <2>3. \A q \in Pages : EditorWords(q)' \subseteq EditorWords(q)
      BY <1>4, NothingRemembered DEF EditorWords
    <2>4. \A q \in Pages : /\ ScanWords(q)' \subseteq Uses(q) /\ WriteWords(q)' \subseteq Uses(q)
                           /\ EditorWords(q)' \subseteq Uses(q) /\ Owns(q)' \subseteq Says(q)
      BY <1>1, <2>1, <2>2, <2>3, WordsRest
    <2> QED BY <1>3, <2>4, WordsShrink
  <1>11. QuietStep
    BY <1>1, <1>4, <1>10, NothingRemembered DEF QuietStep, Gone
  <1> QED BY <1>2, <1>3, <1>5, <1>6, <1>7, <1>8, <1>9, <1>11

LEMMA OpenQuiet ==
    ASSUME Shapes, NEW p \in Pages, Open(p)
    PROVE  Shapes' /\ QuietStep
  <1> USE DEF Shapes
  <1>1. /\ UNCHANGED <<draft, typed, ed, write, chore, scan, plan, served, adoptions, key, faults>>
        /\ page' = [page EXCEPT ![p] = "open"] /\ page[p] = "new"
    BY DEF Open, PageStep
  <1>2. None' = None /\ Texts' = Texts /\ TypedOK'
    BY <1>1 DEF None, Texts, TypedOK
  <1>3. /\ StoreOK' /\ KeysOK' /\ EditorsOK' /\ WritesOK' /\ ChoresOK' /\ ScansOK' /\ PlansOK'
        /\ LimitsOK'
    BY <1>1, <1>2
       DEF StoreOK, StoreLike, KeysOK, EditorsOK, WritesOK, ChoresOK, ScansOK, PlansOK, LimitsOK
  <1>4. page'[p] = "open" /\ \A q \in Pages \ {p} : page'[q] = page[q]
    BY <1>1 DEF PagesOK
  <1>5. PagesOK'
    BY <1>1, <1>4 DEF PagesOK, Here, PageStates
  <1>6. \A q \in Pages : Uses(q)' \subseteq Uses(q) /\ Says(q)' \subseteq Says(q)
    BY <1>1, WordsRest, WordsShrink
  <1>7. QuietStep
    BY <1>1, <1>4, <1>6 DEF QuietStep, Gone
  <1> QED BY <1>2, <1>3, <1>5, <1>7

LEMMA ServeQuiet ==
    ASSUME Shapes, NEW t \in Texts, Serve(t)
    PROVE  Shapes' /\ QuietStep
  <1> USE DEF Shapes
  <1>1. UNCHANGED <<page, draft, typed, ed, write, chore, scan, plan, adoptions, key, faults>>
        /\ served' = served \cup {t}
    BY DEF Serve, local, limits
  <1>2. None' = None /\ Texts' = Texts /\ TypedOK'
    BY <1>1 DEF None, Texts, TypedOK
  <1>3. /\ StoreOK' /\ KeysOK' /\ EditorsOK' /\ WritesOK' /\ ChoresOK' /\ ScansOK' /\ PlansOK'
        /\ LimitsOK' /\ PagesOK'
    BY <1>1, <1>2 DEF StoreOK, StoreLike, KeysOK, EditorsOK, WritesOK, ChoresOK, ScansOK, PlansOK,
                      LimitsOK, PagesOK, Here
  <1>4. \A q \in Pages : Uses(q)' \subseteq Uses(q) /\ Says(q)' \subseteq Says(q)
    BY <1>1, WordsRest, WordsShrink
  <1>5. QuietStep
    BY <1>1, <1>4 DEF QuietStep, Gone
  <1> QED BY <1>2, <1>3, <1>5


-----------------------------------------------------------------------------
(* The merge *)

ScanRecords == [pc : {"none", "pick", "apply", "applied", "unmark", "unmark-fork", "done"},
                todo : SUBSET (Pages \X Entry), of : Pages \cup {NoPage},
                entry : Entry \cup {NoEntry}, definite : BOOLEAN]
ScanLike(s) ==
    /\ s \in ScanRecords
    /\ s.pc \notin {"none", "pick", "done"} =>
          s.of \in Pages /\ s.entry # NoEntry /\ s.entry.tail \in Texts

\* A merge of page q's key that puts the word x of it into a fork.
ForkStep(q, x) ==
    /\ UNCHANGED <<page, typed, ed, plan>> /\ x \in Uses(q)
    /\ Fork(x.id, x.text) \in Lineage /\ ~HasRow(Fork(x.id, x.text))
    /\ \A r \in Pages : Uses(r)' \subseteq Uses(r)
    /\ \A r \in Pages \ {q} : Says(r)' \subseteq Says(r)
    /\ Says(q)' \subseteq Says(q) \cup {[id |-> Fork(x.id, x.text), text |-> x.text]}

LEMMA ScanStep ==
    ASSUME Shapes, NEW p \in Pages, Here(p), NEW s, ScanLike(s), Scan(p, s),
           s.pc = "apply" => [id |-> s.entry.id, text |-> s.entry.tail] \in Uses(s.of),
           StoreLike(draft'), Works \/ Refuses, ScanOnly,
           key' = key \/ \E q \in Pages : key' = [key EXCEPT ![q] = NoEntry]
    PROVE  /\ Shapes'
           /\ UNCHANGED <<page, typed, ed, plan>>
           /\ \A q \in Pages : Uses(q)' \subseteq Uses(q)
           /\ (\A q \in Pages : Owns(q)' \subseteq Says(q)) => QuietStep
  <1> USE DEF Shapes
  <1>1. UNCHANGED <<page, typed, ed, write, chore, plan, served, adoptions>>
    BY DEF ScanOnly
  <1>2. None' = None /\ Texts' = Texts /\ TypedOK'
    BY <1>1 DEF None, Texts, TypedOK
  <1>3. StoreOK' /\ EditorsOK' /\ WritesOK' /\ ChoresOK' /\ PlansOK'
    BY <1>1, <1>2 DEF StoreOK, StoreLike, None, EditorsOK, WritesOK, ChoresOK, PlansOK
  <1>4. KeysOK' /\ \A q \in Pages : key'[q] \in {key[q], NoEntry}
    BY <1>2 DEF KeysOK
  <1>5. LimitsOK'
    BY <1>1, <1>2, ConstantsOK DEF LimitsOK, Works, Refuses
  <1>6. scan'[p] = s /\ \A q \in Pages \ {p} : scan'[q] = scan[q]
    BY DEF Scan, ScansOK
  <1>7. ScansOK'
    <2>1. scan' \in [Pages -> ScanRecords]
      BY DEF Scan, ScansOK, ScanLike, ScanRecords
    <2> QED BY <1>2, <1>6, <2>1 DEF ScansOK, ScanLike, ScanRecords
  <1>8. PagesOK'
    BY <1>1, <1>4, <1>6 DEF PagesOK, Here
  <1>9. \A q \in Pages : /\ KeyWords(q)' \subseteq Uses(q) /\ ScanWords(q)' \subseteq Uses(q)
                         /\ WriteWords(q)' \subseteq Uses(q) /\ EditorWords(q)' \subseteq Uses(q)
    <2>1. \A q \in Pages : KeyWords(q)' \subseteq KeyWords(q)
      BY <1>4 DEF KeyWords
    <2>2. ASSUME NEW q \in Pages, NEW x \in ScanWords(q)' PROVE x \in Uses(q)
      <3>1. PICK r \in Pages : /\ scan'[r].pc = "apply" /\ scan'[r].of = q
                               /\ x = [id |-> scan'[r].entry.id, text |-> scan'[r].entry.tail]
        BY <2>2 DEF ScanWords
      <3>2. CASE r = p
        BY <1>6, <3>1, <3>2
      <3>3. CASE r # p
        BY <1>6, <3>1, <3>3 DEF Uses, ScanWords
      <3> QED BY <3>2, <3>3
    <2> QED BY <1>1, <2>1, <2>2, WordsRest
  <1>10. \A q \in Pages : Uses(q)' \subseteq Uses(q)
    BY <1>9 DEF Uses
  <1>11. ASSUME \A q \in Pages : Owns(q)' \subseteq Says(q) PROVE QuietStep
    <2>1. \A q \in Pages : Uses(q)' \subseteq Uses(q) /\ Says(q)' \subseteq Says(q)
      BY <1>9, <1>11, WordsShrink
    <2> QED BY <1>1, <2>1 DEF QuietStep, Gone
  <1> QED BY <1>1, <1>2, <1>3, <1>4, <1>5, <1>7, <1>8, <1>10, <1>11

\* A step of a merge that leaves the store alone, or takes marks off it.
LEMMA QuietScan ==
    ASSUME Shapes, NEW p \in Pages, Here(p), NEW s, ScanLike(s), Scan(p, s),
           s.pc = "apply" => [id |-> s.entry.id, text |-> s.entry.tail] \in Uses(s.of),
           StoreLike(draft'), NothingNew(draft'), Works \/ Refuses, ScanOnly,
           key' = key \/ \E q \in Pages : key' = [key EXCEPT ![q] = NoEntry]
    PROVE  Shapes' /\ QuietStep
  <1>1. \A q \in Pages : Owns(q)' \subseteq Says(q)
    BY OwnsShrink, WordsRest
  <1> QED BY <1>1, ScanStep

LEMMA ScanSteps ==
    ASSUME Shapes, NEW p \in Pages, StartScan(p) \/ RemoveKey(p) \/ Unmark(p) \/ EndScan(p)
                                    \/ \E x \in scan[p].todo : SkipKey(p, x) \/ PickKey(p, x)
    PROVE  Shapes' /\ QuietStep
  <1>1. /\ scan[p] \in ScanRecords /\ ScanLike(scan[p]) /\ StoreLike(draft) /\ NothingNew(draft)
        /\ key \in [Pages -> Entry \cup {NoEntry}]
        /\ \A q \in Pages : key[q] # NoEntry => key[q].tail \in Texts
    BY SameStore DEF Shapes, ScansOK, ScanLike, ScanRecords, KeysOK
  <1>2. NoScan \in ScanRecords /\ NoScan.pc = "none"
    BY NothingRemembered DEF Shapes, ScanRecords
  <1>3. ScanOnly /\ Here(p)
    BY DEF StartScan, RemoveKey, Unmark, EndScan, SkipKey, PickKey
  <1>4. CASE StartScan(p)
    <2> DEFINE s == [NoScan EXCEPT !.pc = "pick", !.definite = scan[p].pc = "done",
                        !.todo = {<<q, key[q]>> : q \in {r \in Pages \ {p} : key[r] # NoEntry}}]
    <2>1. {<<q, key[q]>> : q \in {r \in Pages \ {p} : key[r] # NoEntry}} \in SUBSET (Pages \X Entry)
      BY <1>1
    <2>2. ScanLike(s) /\ s.pc = "pick"
      BY <1>2, <2>1 DEF ScanLike, ScanRecords
    <2>3. Scan(p, s) /\ UNCHANGED <<draft, key, faults>>
      BY <1>4 DEF StartScan
    <2> HIDE DEF s
    <2> QED BY <1>1, <1>3, <2>2, <2>3, QuietScan DEF Works
  <1>5. CASE EndScan(p)
    <2> DEFINE s == [NoScan EXCEPT !.pc = "done"]
    <2>1. ScanLike(s) /\ s.pc = "done"
      BY <1>2 DEF ScanLike, ScanRecords
    <2>2. Scan(p, s) /\ UNCHANGED <<draft, key, faults>>
      BY <1>5 DEF EndScan
    <2> HIDE DEF s
    <2> QED BY <1>1, <1>3, <2>1, <2>2, QuietScan DEF Works
  <1>6. CASE RemoveKey(p)
    <2>1. scan[p].pc = "applied" /\ scan[p].of \in Pages
      BY <1>1, <1>6 DEF RemoveKey, ScanLike
    <2>2. PICK pc \in {"unmark", "pick"} :
             /\ Scan(p, [scan[p] EXCEPT !.pc = pc]) /\ (Works \/ Refuses)
             /\ key' = key \/ key' = [key EXCEPT ![scan[p].of] = NoEntry]
      BY <1>6, Zenon DEF RemoveKey
    <2>3. ScanLike([scan[p] EXCEPT !.pc = pc]) /\ [scan[p] EXCEPT !.pc = pc].pc # "apply"
      BY <1>1, <2>1 DEF ScanLike, ScanRecords
    <2>4. draft' = draft
      BY <1>6 DEF RemoveKey
    <2> QED BY <1>1, <1>3, <2>1, <2>2, <2>3, <2>4, QuietScan
  <1>7. CASE Unmark(p)
    <2>1. scan[p].pc \in {"unmark", "unmark-fork"} /\ scan[p].of \in Pages
      BY <1>1, <1>7 DEF Unmark, ScanLike
    <2>2. PICK pc \in {"unmark-fork", "pick"} : Scan(p, [scan[p] EXCEPT !.pc = pc])
      BY <1>7 DEF Unmark
    <2>3. ScanLike([scan[p] EXCEPT !.pc = pc]) /\ [scan[p] EXCEPT !.pc = pc].pc # "apply"
      BY <1>1, <2>1 DEF ScanLike, ScanRecords
    <2>4. StoreLike(draft') /\ NothingNew(draft')
      BY <1>7, <2>1, UnmarkedStore DEF Shapes, Unmark
    <2>5. key' = key /\ faults' = faults
      BY <1>7 DEF Unmark
    <2> QED BY <1>3, <2>2, <2>3, <2>4, <2>5, QuietScan DEF Works
  <1>8. ASSUME NEW x \in scan[p].todo, SkipKey(p, x)
        PROVE  Shapes' /\ QuietStep
    <2> DEFINE s == [scan[p] EXCEPT !.todo = @ \ {x}]
    <2>1. ScanLike(s) /\ s.pc = "pick"
      BY <1>1, <1>8 DEF ScanLike, ScanRecords, SkipKey
    <2>2. Scan(p, s) /\ UNCHANGED <<draft, key, faults>>
      BY <1>8 DEF SkipKey
    <2> HIDE DEF s
    <2> QED BY <1>1, <1>3, <2>1, <2>2, QuietScan DEF Works
  <1>9. ASSUME NEW x \in scan[p].todo, PickKey(p, x)
        PROVE  Shapes' /\ QuietStep
    <2> DEFINE s == [scan[p] EXCEPT !.todo = @ \ {x}, !.of = x[1], !.entry = x[2], !.pc = "apply"]
    <2>1. /\ x[1] \in Pages /\ x[2] \in Entry /\ key[x[1]] = x[2] /\ x[2] # NoEntry
          /\ x[2].tail \in Texts
      <3>1. x \in Pages \X Entry /\ key[x[1]] = x[2]
        BY <1>1, <1>9 DEF ScanRecords, PickKey
      <3>2. x[2] # NoEntry
        BY <3>1, NoLineageOK DEF Entry, NoEntry
      <3> QED BY <1>1, <3>1, <3>2
    <2>2. ScanLike(s) /\ s.of = x[1] /\ s.entry = x[2]
      BY <1>1, <2>1 DEF ScanLike, ScanRecords
    <2>3. [id |-> x[2].id, text |-> x[2].tail] \in Uses(x[1])
      BY <2>1 DEF Uses, KeyWords
    <2>4. Scan(p, s) /\ UNCHANGED <<draft, key>> /\ (Works \/ Refuses)
      BY <1>9 DEF PickKey, TakenForDead
    <2> HIDE DEF s
    <2> QED BY <1>1, <1>3, <2>2, <2>3, <2>4, QuietScan
  <1> QED BY <1>4, <1>5, <1>6, <1>7, <1>8, <1>9

LEMMA ApplyEntryForks ==
    ASSUME Shapes, NEW p \in Pages, ApplyEntry(p)
    PROVE  Shapes' /\ (QuietStep \/ \E q \in Pages : \E x \in Uses(q) : ForkStep(q, x))
  <1>0. scan[p].pc = "apply" /\ ScanLike(scan[p]) /\ scan[p] \in ScanRecords
    BY DEF Shapes, ScansOK, ScanLike, ScanRecords, ApplyEntry
  <1>q. PICK q \in Pages : q = scan[p].of
    BY <1>0 DEF ScanLike
  <1>e. PICK e \in Entry : e = scan[p].entry
    BY <1>0 DEF ScanLike, ScanRecords
  <1>1. /\ scan[p] \in ScanRecords /\ ScanLike(scan[p]) /\ StoreLike(draft) /\ NothingNew(draft)
        /\ scan[p].pc = "apply" /\ e.tail \in Texts
        /\ Here(p) /\ ScanOnly /\ key' = key
    BY <1>0, <1>e, SameStore DEF Shapes, ScanLike, ApplyEntry
  <1> DEFINE x == [id |-> e.id, text |-> e.tail]
  <1>2. PICK pc \in {"applied", "pick"} :
           /\ Scan(p, [scan[p] EXCEPT !.pc = pc]) /\ (Works \/ Refuses)
           /\ draft' = draft \/ draft' = Applied(q, e)
    <2>1. draft' = draft \/ draft' = Applied(scan[p].of, scan[p].entry)
      BY Zenon DEF ApplyEntry
    <2>2. \E k \in {"applied", "pick"} : Scan(p, [scan[p] EXCEPT !.pc = k])
      BY Zenon DEF ApplyEntry
    <2>3. Works \/ Refuses
      BY DEF ApplyEntry
    <2> QED BY <1>q, <1>e, <2>1, <2>2, <2>3
  <1>3. ScanLike([scan[p] EXCEPT !.pc = pc]) /\ [scan[p] EXCEPT !.pc = pc].pc # "apply"
    BY <1>1 DEF ScanLike, ScanRecords
  <1>4. x \in Uses(q) /\ Fork(e.id, e.tail) \in Lineage
    <2>1. x \in Uses(q)
      BY <1>1, <1>q, <1>e DEF Uses, ScanWords
    <2>2. e.id \in Lineage /\ e.tail \in None
      BY <1>1, TextFacts DEF Shapes, Entry
    <2> QED BY <2>1, <2>2, ForkLineage DEF Shapes
  <1>5. CASE draft' = draft
    BY <1>1, <1>2, <1>3, <1>5, QuietScan
  <1>6. CASE draft' = Applied(q, e)
    <2>f. PICK fork \in Lineage : fork = Fork(e.id, e.tail)
      BY <1>4
    <2>1. /\ StoreLike(draft')
          /\ \A d \in DOMAIN draft' : draft'[d].status # "discarded" =>
                \/ Kept(d) /\ draft'[d].text = draft[d].text /\ draft'[d].owner = draft[d].owner
                \/ d = e.id /\ draft'[d].text = e.tail /\ draft'[d].owner = q
                \/ d = fork /\ ~HasRow(d) /\ draft'[d].text = e.tail /\ draft'[d].owner = q
      BY <1>1, <1>6, <2>f, AppliedStore DEF Shapes
    <2>2. ASSUME NEW r \in Pages, NEW y \in Owns(r)'
          PROVE  y \in Says(r) \/ (r = q /\ ~HasRow(fork) /\ y = [id |-> fork, text |-> e.tail])
      <3>1. PICK d \in DOMAIN draft' : /\ y = [id |-> d, text |-> draft'[d].text]
                                       /\ draft'[d].owner = r
                                       /\ draft'[d].status # "discarded"
        BY <2>2 DEF Owns, Kept, HasRow
      <3>2. CASE Kept(d) /\ draft'[d].text = draft[d].text /\ draft'[d].owner = draft[d].owner
        BY <3>1, <3>2 DEF Says, Owns, Kept, HasRow
      <3>3. CASE d = e.id /\ draft'[d].text = e.tail /\ draft'[d].owner = q
        BY <1>4, <3>1, <3>3 DEF Says
      <3>4. CASE d = fork /\ ~HasRow(d) /\ draft'[d].text = e.tail /\ draft'[d].owner = q
        BY <3>1, <3>4
      <3> QED BY <2>1, <3>1, <3>2, <3>3, <3>4
    <2>3. /\ Shapes' /\ UNCHANGED <<page, typed, ed, plan>>
          /\ \A r \in Pages : Uses(r)' \subseteq Uses(r)
          /\ (\A r \in Pages : Owns(r)' \subseteq Says(r)) => QuietStep
      BY <1>1, <1>2, <1>3, <2>1, ScanStep
    <2>4. CASE HasRow(fork)
      BY <2>2, <2>3, <2>4
    <2>5. CASE ~HasRow(fork)
      <3>1. ForkStep(q, x)
        <4>1. \A r \in Pages \ {q} : Says(r)' \subseteq Says(r)
          BY <2>2, <2>3 DEF Says
        <4>2. Says(q)' \subseteq Says(q) \cup {[id |-> fork, text |-> e.tail]}
          BY <1>1, <2>2, <2>3 DEF Says
        <4>3. x.id = e.id /\ x.text = e.tail
          OBVIOUS
        <4> QED BY <1>4, <2>f, <2>3, <2>5, <4>1, <4>2, <4>3 DEF ForkStep
      <3> QED BY <1>1, <1>4, <2>3, <3>1
    <2> QED BY <2>4, <2>5
  <1> QED BY <1>2, <1>5, <1>6


-----------------------------------------------------------------------------
(* Drafts found *)

\* Page p decides to take a draft over: the draft's page is gone, or it is p.
TakesStep(p) ==
    /\ UNCHANGED <<page, typed, draft, key, ed, write, scan>> /\ Here(p) /\ ed[p].shown = 0
    /\ \A q \in Pages \ {p} : plan'[q] = plan[q]
    /\ \E d \in DOMAIN draft :
          /\ Kept(d) /\ (Gone(draft[d].owner) \/ draft[d].owner = p)
          /\ plan'[p].act = "adopt" /\ plan'[p].id = d /\ plan'[p].row = draft[d]

\* It takes over the draft d that is as it decided on, with the text t.
AdoptStep(p) == \E d \in DOMAIN draft : \E t \in Texts :
    /\ UNCHANGED <<page, typed, key, ed, write, scan>> /\ Here(p)
    /\ plan[p].act = "adopt" /\ plan[p].id = d /\ AsDecided(plan[p]) /\ draft[d].text = t
    /\ \A q \in Pages \ {p} : plan'[q] = plan[q]
    /\ plan'[p].act = "adopted" /\ plan'[p].id = d /\ plan'[p].row = plan[p].row
    /\ \A q \in Pages \ {p} : Owns(q)' \subseteq Owns(q)
    /\ Owns(p)' \subseteq Owns(p) \cup {[id |-> d, text |-> t]}

\* Its editor, which has no text yet, has it.
RestoreStep(p) == \E d \in Lineage : \E t \in Texts :
    /\ UNCHANGED <<page, typed, draft, key, write, scan>> /\ Here(p)
    /\ ed[p].shown = 0 /\ plan[p].act = "adopted" /\ plan[p].id = d /\ plan[p].row.text = t
    /\ ed'[p].id = d /\ ed'[p].shown = t /\ ed'[p].minted = ed[p].minted
    /\ \A q \in Pages \ {p} : plan'[q] = plan[q] /\ ed'[q] = ed[q]
    /\ plan'[p].act = "none"

PlanLike(x) == x = NoPlan \/ (x \in Planned /\ x.row.text \in Texts)

LEMMA PlanShapes ==
    ASSUME Shapes, NEW p \in Pages, Here(p), NEW x, PlanLike(x), Plan(p, x),
           StoreLike(draft'), adoptions' \in 0 .. MaxAdoptions, PlanOnly, Works \/ Refuses,
           EditorsOK', \A q \in Pages \ {p} : ed'[q] = ed[q]
    PROVE  /\ Shapes' /\ UNCHANGED <<page, typed, key, write, scan>>
           /\ plan'[p] = x /\ \A q \in Pages \ {p} : plan'[q] = plan[q]
           /\ (\A q \in Pages : Owns(q)' \subseteq Owns(q)) /\ ed' = ed
              /\ x.act \notin {"adopt", "adopted"} => QuietStep
  <1> USE DEF Shapes
  <1>1. UNCHANGED <<page, key, typed, write, chore, scan, served>>
    BY DEF PlanOnly
  <1>2. None' = None /\ Texts' = Texts /\ TypedOK'
    BY <1>1 DEF None, Texts, TypedOK
  <1>3. StoreOK' /\ KeysOK' /\ WritesOK' /\ ChoresOK' /\ ScansOK'
    BY <1>1, <1>2 DEF StoreOK, StoreLike, None, KeysOK, WritesOK, ChoresOK, ScansOK
  <1>4. plan'[p] = x /\ \A q \in Pages \ {p} : plan'[q] = plan[q]
    BY DEF Plan, PlansOK
  <1>5. PlansOK'
    <2>1. plan' \in [Pages -> Planned \cup {NoPlan}]
      BY DEF Plan, PlansOK, PlanLike
    <2> QED BY <1>2, <1>4, <2>1 DEF PlansOK, PlanLike
  <1>6. LimitsOK'
    BY <1>1, <1>2, ConstantsOK DEF LimitsOK, Works, Refuses
  <1>7. PagesOK'
    BY <1>1, <1>4 DEF PagesOK, Here
  <1>8. ASSUME \A q \in Pages : Owns(q)' \subseteq Owns(q), ed' = ed,
               x.act \notin {"adopt", "adopted"}
        PROVE  QuietStep
    <2>1. \A q \in Pages : Owns(q)' \subseteq Says(q)
      BY <1>8, WordsRest
    <2>2. \A q \in Pages : Uses(q)' \subseteq Uses(q) /\ Says(q)' \subseteq Says(q)
      BY <1>1, <1>8, <2>1, WordsRest, WordsShrink
    <2> QED BY <1>1, <1>4, <1>8, <2>2 DEF QuietStep, Gone
  <1> QED BY <1>1, <1>2, <1>3, <1>4, <1>5, <1>6, <1>7, <1>8

\* The frame of a step that leaves editors and adoptions alone.
LEMMA PlanFrame ==
    ASSUME Shapes, UNCHANGED <<ed, adoptions>>, PlanOnly
    PROVE  EditorsOK' /\ adoptions' \in 0 .. MaxAdoptions
  BY DEF Shapes, EditorsOK, LimitsOK, PlanOnly, None

LEMMA DecideTakes ==
    ASSUME Shapes, NEW p \in Pages, NEW d \in DOMAIN draft, Decide(p, d)
    PROVE  Shapes' /\ (QuietStep \/ TakesStep(p))
  <1>1. PICK act \in {"clear", "adopt", "discard"}, stone \in Pages \cup {NoPage} :
           /\ Plan(p, [act |-> act, id |-> d, row |-> draft[d], stone |-> stone,
                       proven |-> Gone(draft[d].owner)])
           /\ Works \/ Refuses
           /\ act = "adopt" => ed[p].shown = 0 /\ Adoptable(p, d)
    BY DEF Decide, Listing, Discardable
  <1> DEFINE x == [act |-> act, id |-> d, row |-> draft[d], stone |-> stone,
                   proven |-> Gone(draft[d].owner)]
  <1>2. Here(p) /\ Kept(d) /\ PlanOnly /\ UNCHANGED <<draft, ed, adoptions>>
    BY DEF Decide
  <1>3. x \in Planned /\ x.row.text \in Texts
    <2>1. d \in Lineage /\ draft[d] \in Row /\ draft[d].text \in Texts
      <3>1. draft[d].text \in None /\ draft[d].text # 0
        BY <1>2 DEF Shapes, StoreOK, StoreLike, Kept
      <3> QED BY <3>1, TextFacts DEF Shapes, StoreOK, StoreLike, None, Texts
    <2> QED BY <2>1 DEF Planned, Gone
  <1>4. x.act = act /\ x.id = d /\ x.row = draft[d]
    OBVIOUS
  <1> HIDE DEF x
  <1>5. /\ Shapes' /\ UNCHANGED <<page, typed, key, write, scan>>
        /\ plan'[p] = x /\ \A q \in Pages \ {p} : plan'[q] = plan[q]
        /\ (\A q \in Pages : Owns(q)' \subseteq Owns(q)) /\ ed' = ed
           /\ x.act \notin {"adopt", "adopted"} => QuietStep
    <2>1. PlanLike(x) /\ Plan(p, x)
      BY <1>1, <1>3 DEF PlanLike, x
    <2>2. StoreLike(draft') /\ \A q \in Pages \ {p} : ed'[q] = ed[q]
      BY <1>2, SameStore DEF Shapes
    <2> QED BY <1>1, <1>2, <2>1, <2>2, PlanFrame, PlanShapes
  <1>6. CASE act = "adopt"
    BY <1>1, <1>2, <1>4, <1>5, <1>6 DEF TakesStep, Adoptable
  <1>7. CASE act # "adopt"
    <2>1. \A q \in Pages : Owns(q)' \subseteq Owns(q)
      BY <1>2, WordsRest
    <2> QED BY <1>2, <1>4, <1>5, <1>7, <2>1
  <1> QED BY <1>6, <1>7

LEMMA ClearDraftQuiet ==
    ASSUME Shapes, NEW p \in Pages, ClearDraft(p)
    PROVE  Shapes' /\ QuietStep /\ NothingNew(draft')
  <1>1. Here(p) /\ PlanOnly /\ UNCHANGED <<ed, adoptions>> /\ Plan(p, NoPlan) /\ Works
    BY DEF ClearDraft
  <1>2. StoreLike(draft') /\ NothingNew(draft')
    <2>1. (Kept(plan[p].id) /\ draft' = Retired(plan[p].id)) \/ draft' = draft
      BY Zenon DEF ClearDraft, AsDecided
    <2> QED BY <2>1, SameStore, RetiredStore DEF Shapes, Kept
  <1>3. PlanLike(NoPlan) /\ NoPlan.act = "none"
    BY DEF PlanLike, NoPlan
  <1>4. \A q \in Pages : Owns(q)' \subseteq Owns(q)
    BY <1>2, OwnsShrink
  <1> QED BY <1>1, <1>2, <1>3, <1>4, PlanFrame, PlanShapes

LEMMA DiscardDraftQuiet ==
    ASSUME Shapes, NEW p \in Pages, DiscardDraft(p)
    PROVE  Shapes' /\ QuietStep /\ NothingNew(draft')
  <1>1. Here(p) /\ PlanOnly /\ UNCHANGED <<ed, adoptions>> /\ Plan(p, NoPlan) /\ Works
    BY DEF DiscardDraft
  <1>2. StoreLike(draft') /\ NothingNew(draft')
    <2> DEFINE x == plan[p]
    <2>1. \/ draft' = draft
          \/ /\ Kept(x.id)
             /\ \/ draft' = Retired(x.id)
                \/ x.stone # NoPage /\ draft' = Entombed(x.id, x.stone, draft[x.id].text)
      BY Zenon DEF DiscardDraft, AsDecided
    <2>2. x.stone # NoPage => x.stone \in Pages
      BY DEF Shapes, PlansOK, NoPlan, Planned
    <2>3. Kept(x.id) => x.id \in Lineage /\ draft[x.id].text \in None
      BY DEF Shapes, StoreOK, StoreLike, Kept, HasRow
    <2> HIDE DEF x
    <2> QED BY <2>1, <2>2, <2>3, SameStore, RetiredStore, EntombedStore DEF Shapes, Kept
  <1>3. PlanLike(NoPlan) /\ NoPlan.act = "none"
    BY DEF PlanLike, NoPlan
  <1>4. \A q \in Pages : Owns(q)' \subseteq Owns(q)
    BY <1>2, OwnsShrink
  <1> QED BY <1>1, <1>2, <1>3, <1>4, PlanFrame, PlanShapes


LEMMA AdoptDraftAdopts ==
    ASSUME Shapes, NEW p \in Pages, AdoptDraft(p)
    PROVE  Shapes' /\ (QuietStep \/ AdoptStep(p))
  <1> DEFINE x == plan[p]
             y == [x EXCEPT !.act = "adopted"]
  <1>1. Here(p) /\ PlanOnly /\ ed' = ed /\ Works /\ x.act = "adopt"
    BY DEF AdoptDraft
  <1>2. x \in Planned /\ x.row.text \in Texts /\ x.id \in Lineage
    BY <1>1 DEF Shapes, PlansOK, NoPlan, Planned
  <1>3. EditorsOK' /\ \A q \in Pages \ {p} : ed'[q] = ed[q]
    BY <1>1 DEF Shapes, EditorsOK, PlanOnly, None
  <1>4. CASE draft' = draft /\ Plan(p, NoPlan) /\ adoptions' = adoptions
    <2>1. PlanLike(NoPlan) /\ NoPlan.act = "none"
      BY DEF PlanLike, NoPlan
    <2>2. StoreLike(draft') /\ \A q \in Pages : Owns(q)' \subseteq Owns(q)
      BY <1>4, SameStore, OwnsShrink DEF Shapes
    <2>3. adoptions' \in 0 .. MaxAdoptions
      BY <1>4 DEF Shapes, LimitsOK
    <2> QED BY <1>1, <1>3, <1>4, <2>1, <2>2, <2>3, PlanShapes
  <1>5. CASE /\ AsDecided(x) /\ adoptions < MaxAdoptions /\ adoptions' = adoptions + 1
             /\ draft' = With(x.id, [draft[x.id] EXCEPT !.owner = p]) /\ Plan(p, y)
    <2>1. PICK d \in DOMAIN draft : d = x.id
      BY <1>5 DEF AsDecided, Kept, HasRow
    <2>2. /\ Kept(d) /\ d \in Lineage /\ draft[d] \in Row /\ draft[d].text \in None
          /\ draft[d].text # 0
      BY <1>5, <2>1 DEF Shapes, StoreOK, StoreLike, AsDecided, Kept
    <2>3. PICK t \in Texts : t = draft[d].text
      BY <2>2, TextFacts DEF Shapes, None, Texts
    <2> DEFINE row == [draft[d] EXCEPT !.owner = p]
    <2>4. /\ row \in Row /\ row.text = t /\ row.text \in None /\ row.text # 0 /\ row.owner = p
      BY <2>2, <2>3 DEF Row
    <2>5. draft' = With(d, row)
      BY <1>5, <2>1
    <2> HIDE DEF row
    <2>6. /\ StoreLike(draft') /\ DOMAIN draft' = DOMAIN draft \cup {d} /\ draft'[d] = row
          /\ \A e \in DOMAIN draft : e # d => draft'[e] = draft[e]
      BY <2>2, <2>4, <2>5, WithStore DEF Shapes
    <2>7. ASSUME NEW q \in Pages, NEW z \in Owns(q)'
          PROVE  z \in Owns(q) \/ (q = p /\ z = [id |-> d, text |-> t])
      <3>1. PICK e \in DOMAIN draft' : /\ z = [id |-> e, text |-> draft'[e].text]
                                       /\ draft'[e].owner = q /\ draft'[e].status # "discarded"
        BY <2>7 DEF Owns, Kept, HasRow
      <3> QED BY <2>4, <2>6, <3>1 DEF Owns, Kept, HasRow
    <2>8. PlanLike(y) /\ y.act = "adopted" /\ y.id = d /\ y.row = x.row
      BY <1>2, <2>1 DEF PlanLike, Planned
    <2>9. adoptions' \in 0 .. MaxAdoptions
      BY <1>5, ConstantsOK DEF Shapes, LimitsOK
    <2> HIDE DEF y, x
    <2>10. /\ Shapes' /\ UNCHANGED <<page, typed, key, write, scan>>
           /\ plan'[p] = y /\ \A q \in Pages \ {p} : plan'[q] = plan[q]
      BY <1>1, <1>3, <1>5, <2>6, <2>8, <2>9, PlanShapes
    <2>11. /\ \A q \in Pages \ {p} : Owns(q)' \subseteq Owns(q)
           /\ Owns(p)' \subseteq Owns(p) \cup {[id |-> d, text |-> t]}
      BY <2>7
    <2>12. AdoptStep(p)
      BY <1>1, <1>5, <2>1, <2>3, <2>8, <2>10, <2>11 DEF AdoptStep, x
    <2> QED BY <2>10, <2>12
  <1> QED BY <1>4, <1>5 DEF AdoptDraft

LEMMA RestoreRestores ==
    ASSUME Shapes, NEW p \in Pages, Restore(p)
    PROVE  Shapes' /\ (QuietStep \/ RestoreStep(p))
  <1> DEFINE x == plan[p]
             t == x.row.text
             fits == ed[p].shown = 0 /\ (Note = 0 \/ Note \in Under(t))
             w == [ed[p] EXCEPT !.id = x.id, !.stored = TRUE, !.committed = t,
                                !.shown = t, !.latest = 0, !.failed = FALSE]
  <1>1. /\ Here(p) /\ PlanOnly /\ Works /\ x.act = "adopted" /\ Plan(p, NoPlan)
        /\ draft' = draft /\ adoptions' = adoptions
    BY DEF Restore
  <1>2. x.id \in Lineage /\ t \in Texts /\ t # 0 /\ t \in Nat
    BY <1>1, TextFacts DEF Shapes, PlansOK, NoPlan, Planned, Texts
  <1>3. PlanLike(NoPlan) /\ NoPlan.act = "none"
    BY DEF PlanLike, NoPlan
  <1>4. StoreLike(draft') /\ (\A q \in Pages : Owns(q)' \subseteq Owns(q))
        /\ adoptions' \in 0 .. MaxAdoptions
    BY <1>1, SameStore, OwnsShrink DEF Shapes, LimitsOK
  <1>5. CASE ed' = ed
    <2>1. EditorsOK' /\ \A q \in Pages \ {p} : ed'[q] = ed[q]
      BY <1>1, <1>5 DEF Shapes, EditorsOK, PlanOnly, None
    <2> QED BY <1>1, <1>3, <1>4, <1>5, <2>1, PlanShapes
  <1>6. CASE fits /\ ed' = [ed EXCEPT ![p] = w]
    <2>1. ed[p] \in EditorRecords /\ t \in None /\ x.id # NoLineage
      BY <1>2, NoLineageOK, TextFacts DEF Shapes, EditorsOK, EditorRecords
    <2>2. /\ w \in EditorRecords /\ w.id = x.id /\ w.shown = t /\ w.latest = 0
          /\ w.minted = ed[p].minted
      <3> HIDE DEF x, t
      <3> QED BY <1>2, <2>1 DEF EditorRecords
    <2> HIDE DEF w
    <2>3. ed' \in [Pages -> EditorRecords] /\ ed'[p] = w /\ \A q \in Pages \ {p} : ed'[q] = ed[q]
      BY <1>6, <2>2 DEF Shapes, EditorsOK, EditorRecords
    <2>4. EditorsOK'
      <3>1. None' = None
        BY <1>1 DEF PlanOnly, None
      <3> QED BY <1>2, <2>1, <2>2, <2>3, <3>1 DEF Shapes, EditorsOK, EditorRecords
    <2>5. /\ Shapes' /\ UNCHANGED <<page, typed, key, write, scan>>
          /\ plan'[p] = NoPlan /\ \A q \in Pages \ {p} : plan'[q] = plan[q]
      BY <1>1, <1>3, <1>4, <2>3, <2>4, PlanShapes
    <2>6. RestoreStep(p)
      <3>1. PICK d \in Lineage, u \in Texts : d = x.id /\ u = t
        BY <1>2
      <3>2. /\ ed'[p].id = d /\ ed'[p].shown = u /\ ed'[p].minted = ed[p].minted
            /\ ed[p].shown = 0 /\ plan[p].act = "adopted" /\ plan[p].id = d
            /\ plan[p].row.text = u /\ plan'[p].act = "none"
        BY <1>1, <1>3, <1>6, <2>2, <2>3, <2>5, <3>1
      <3> QED BY <1>1, <2>3, <2>5, <3>2 DEF RestoreStep
    <2> QED BY <2>5, <2>6
  <1> QED BY <1>5, <1>6 DEF Restore, SetEditor, EditorsOK, Shapes

-----------------------------------------------------------------------------
(* Every step is of one of six kinds *)

Step == \/ QuietStep
        \/ \E p \in Pages : \/ WriterStep(p) \/ TakesStep(p) \/ AdoptStep(p) \/ RestoreStep(p)
                            \/ \E x \in Uses(p) : ForkStep(p, x)

LEMMA RestQuiet ==
    ASSUME Shapes, UNCHANGED vars
    PROVE  Shapes' /\ QuietStep
  <1>1. /\ UNCHANGED <<page, draft, typed, ed, write, chore, scan, plan, adoptions, key, faults>>
        /\ served' = served
    BY DEF vars, local, limits
  <1>2. Shapes'
    BY <1>1 DEF Shapes, TypedOK, Texts, None, StoreOK, StoreLike, KeysOK, EditorsOK, WritesOK,
                ChoresOK, ScansOK, PlansOK, LimitsOK, PagesOK, Here
  <1>3. \A q \in Pages : Uses(q)' \subseteq Uses(q) /\ Says(q)' \subseteq Says(q)
    BY <1>1, WordsRest, WordsShrink
  <1> QED BY <1>1, <1>2, <1>3 DEF QuietStep, Gone

LEMMA EveryStep ==
    ASSUME Shapes, [Next]_vars
    PROVE  Shapes' /\ Step
  <1>1. ASSUME NEW p \in Pages, PageNext(p) PROVE Shapes' /\ Step
    BY <1>1, OpenQuiet, HideQuiet, LeaveQuiet DEF PageNext, Step
  <1>2. ASSUME NEW p \in Pages, WriterNext(p) PROVE Shapes' /\ Step
    BY <1>2, EditWrites, StartWriteQuiet, CommitWriteQuiet, FailWriteQuiet, AfterWriteWrites
       DEF WriterNext, Step
  <1>3. ASSUME NEW p \in Pages, AcknowledgementNext(p) PROVE Shapes' /\ Step
    BY <1>3, AcknowledgeQuiet, AskDeleteQuiet, DeleteAcknowledgedQuiet, AfterDeleteWrites,
       LeaveStoneQuiet, SweepQuiet, ReleaseStoneQuiet
       DEF AcknowledgementNext, Step
  <1>4. ASSUME NEW p \in Pages, MergeNext(p) PROVE Shapes' /\ Step
    BY <1>4, ScanSteps, ApplyEntryForks DEF MergeNext, Step
  <1>5. ASSUME NEW p \in Pages, RecoveryNext(p) PROVE Shapes' /\ Step
    BY <1>5, DecideTakes, ClearDraftQuiet, DiscardDraftQuiet, AdoptDraftAdopts, RestoreRestores
       DEF RecoveryNext, Step
  <1>6. ASSUME NEW t \in Texts, Serve(t) PROVE Shapes' /\ Step
    BY <1>6, ServeQuiet DEF Step
  <1>7. CASE UNCHANGED vars
    BY <1>7, RestQuiet DEF Step
  <1> QED BY <1>1, <1>2, <1>3, <1>4, <1>5, <1>6, <1>7 DEF Next

-----------------------------------------------------------------------------
(* What everything is *)

LEMMA InitShapes ==
    ASSUME Init
    PROVE  Shapes
  <1>1. typed = <<>> /\ Len(typed) = 0 /\ draft = <<>> /\ DOMAIN draft = {}
    BY DEF Init
  <1>2. {MaxTexts, MaxAdoptions, MaxFaults} \subseteq Nat
    BY ConstantsOK
  <1>3. TypedOK /\ StoreOK
    BY <1>1, <1>2 DEF TypedOK, Texts, StoreOK, StoreLike
  <1>4. KeysOK /\ EditorsOK
    BY <1>1 DEF Init, KeysOK, EditorsOK, NewEditor, None
  <1>5. WritesOK /\ ChoresOK /\ PlansOK
    BY DEF Init, WritesOK, NoWrite, ChoresOK, NoChore, PlansOK
  <1>6. ScansOK
    BY DEF Init, ScansOK, NoScan
  <1>7. LimitsOK /\ PagesOK
    BY <1>2 DEF Init, LimitsOK, PagesOK, PageStates
  <1> QED BY <1>3, <1>4, <1>5, <1>6, <1>7 DEF Shapes

\* Every variable keeps the shape the code gives it, and what a writer has
\* pending is the text its editor shows, whatever the pages, the texts and the
\* faults: through typing, transactions, hiding, crashes, merges of keys and
\* drafts taken over.
THEOREM Types == Spec => []TypeOK
  <1>1. Shapes => TypeOK
    BY DEF Shapes, TypedOK, StoreOK, StoreLike, KeysOK, EditorsOK, LimitsOK, PagesOK, TypeOK
  <1> QED BY <1>1, InitShapes, EveryStep, PTL DEF Spec

-----------------------------------------------------------------------------
(* What each kind of step keeps of what the pages say *)

LEMMA KnownIs ==
    /\ \A d : d \in Known <=>
          \/ \E q \in Pages : \E x \in Says(q) : x.id = d
          \/ \E q \in Pages : Taking(q) /\ plan[q].id = d
    /\ \A d : d \in Known' <=>
          \/ \E q \in Pages : \E x \in Says(q)' : x.id = d
          \/ \E q \in Pages : Taking(q)' /\ plan'[q].id = d
  BY DEF Known

LEMMA SameTexts ==
    ASSUME typed' = typed
    PROVE  /\ \A t : Gen(t)' = Gen(t) /\ Under(t)' = Under(t)
           /\ \A t, u : Comparable(t, u)' = Comparable(t, u)
  <1>1. \A t : Gen(t)' = Gen(t) /\ Under(t)' = Under(t)
    BY DEF Gen, Under
  <1>2. ASSUME NEW t, NEW u PROVE Comparable(t, u)' = Comparable(t, u)
    BY <1>1 DEF Comparable
  <1> QED BY <1>1, <1>2

LEMMA UsesAreSaid == \A q \in Pages : Uses(q) \subseteq Says(q) /\ Owns(q) \subseteq Says(q)
  BY DEF Says

LEMMA QuietKeeps ==
    ASSUME WordsOK, QuietStep
    PROVE  WordsOK'
  <1> USE DEF WordsOK
  <1>1. \A t, u : Under(t)' = Under(t) /\ Comparable(t, u)' = Comparable(t, u)
    BY SameTexts DEF QuietStep
  <1>2. \A q \in Pages : /\ Uses(q)' \subseteq Uses(q) /\ Says(q)' \subseteq Says(q)
                         /\ Taking(q)' => Taking(q) /\ plan'[q] = plan[q]
                         /\ ~Gone(q)' => /\ ~Gone(q) /\ ed'[q].id = ed[q].id
                                         /\ ed'[q].shown = ed[q].shown
                                         /\ ed'[q].minted = ed[q].minted
    BY DEF QuietStep, Taking, Gone
  <1>3. Known' \subseteq Known
    BY <1>2, KnownIs
  <1>4. MintedKnown'
    BY <1>2, <1>3 DEF MintedKnown
  <1>5. OwnPlain' /\ OneForeign' /\ BlankUses' /\ TakesForeign'
    BY <1>2 DEF OwnPlain, OneForeign, BlankUses, TakesForeign
  <1>6. ShownLast' /\ OneChain'
    BY <1>1, <1>2 DEF ShownLast, OneChain
  <1>7. TakenAsDecided'
    <2>1. ASSUME NEW q \in Pages, plan'[q].act = "adopted", NEW x \in Owns(q)', x.id = plan'[q].id
          PROVE  x.text = plan'[q].row.text
      <3>1. plan'[q] = plan[q]
        BY <2>1 DEF QuietStep
      <3>2. x \in Says(q) /\ Taking(q) /\ x.id.page # q
        BY <1>2, <2>1, <3>1, UsesAreSaid DEF TakesForeign, Taking, Says
      <3>3. x \in Owns(q)
        BY <3>2 DEF TakesForeign, Says
      <3> QED BY <2>1, <3>1, <3>3 DEF TakenAsDecided
    <2> QED BY <2>1 DEF TakenAsDecided
  <1> QED BY <1>4, <1>5, <1>6, <1>7

\* What is said, is said of a lineage and has a text.
LEMMA SaidTexts ==
    ASSUME Shapes
    PROVE  \A q \in Pages : \A x \in Says(q) :
              x.text \in Texts /\ x.text \in None /\ x.text # 0 /\ x.id \in Lineage
  <1>1. ASSUME NEW q \in Pages, NEW x \in Says(q) PROVE x.text \in Texts /\ x.id \in Lineage
    <2>1. CASE x \in KeyWords(q)
      BY <2>1, NoLineageOK DEF KeyWords, Shapes, KeysOK, Entry, NoEntry
    <2>2. CASE x \in ScanWords(q)
      <3>1. PICK r \in Pages : /\ scan[r].pc = "apply"
                               /\ x = [id |-> scan[r].entry.id, text |-> scan[r].entry.tail]
        BY <2>2 DEF ScanWords
      <3>2. scan[r].entry \in Entry /\ scan[r].entry.tail \in Texts
        BY <3>1 DEF Shapes, ScansOK
      <3> QED BY <3>1, <3>2 DEF Entry
    <2>3. CASE x \in WriteWords(q)
      <3>1. write[q].out = "sent" /\ x = [id |-> write[q].id, text |-> write[q].text]
        BY <2>3 DEF WriteWords
      <3> QED BY <3>1, OpenWrites
    <2>4. CASE x \in EditorWords(q)
      <3>1. ed[q].id # NoLineage /\ x = [id |-> ed[q].id, text |-> ed[q].shown]
        BY <2>4 DEF EditorWords
      <3> QED BY <3>1, TextFacts DEF Shapes, EditorsOK, None, Texts
    <2>5. CASE x \in Owns(q)
      BY <2>5, TextFacts DEF Owns, Kept, HasRow, Shapes, StoreOK, StoreLike, None, Texts
    <2> QED BY <2>1, <2>2, <2>3, <2>4, <2>5 DEF Says, Uses
  <1>2. \A t \in Texts : t \in None /\ t # 0
    BY TextFacts DEF Shapes, Texts
  <1> QED BY <1>1, <1>2

\* An editor with a lineage says so.
LEMMA EditorSays ==
    ASSUME NEW q \in Pages, ed[q].id # NoLineage
    PROVE  [id |-> ed[q].id, text |-> ed[q].shown] \in Uses(q)
  BY DEF Uses, EditorWords

LEMMA WriterKeeps ==
    ASSUME Shapes, WordsOK, NEW p \in Pages, WriterStep(p)
    PROVE  WordsOK'
  <1> USE DEF WordsOK
  <1>1. PICK w \in EditorRecords : ed'[p] = w /\ WriterMoves(p, w)
    BY DEF WriterStep
  <1> DEFINE new == [id |-> w.id, text |-> w.shown]
  <1>2. /\ Here(p) /\ ~Gone(p) /\ UNCHANGED <<page, draft, plan>>
        /\ \A q \in Pages \ {p} : ed'[q] = ed[q] /\ Uses(q)' \subseteq Uses(q)
        /\ \A x \in Uses(p)' : x \in Uses(p) \/ (w.id # NoLineage /\ x = new)
    BY <1>1 DEF WriterStep, Here, Gone
  <1>3. \A q \in Pages : Owns(q)' = Owns(q) /\ Taking(q)' = Taking(q) /\ Gone(q)' = Gone(q)
    BY <1>2 DEF Owns, Kept, HasRow, Taking, Gone
  <1>4. /\ \A q \in Pages \ {p} : Says(q)' \subseteq Says(q)
        /\ \A x \in Says(p)' : x \in Says(p) \/ (w.id # NoLineage /\ x = new)
    BY <1>2, <1>3 DEF Says
  <1>5. /\ ed[p].minted \in Nat /\ ed[p].shown \in None /\ 0 \in None /\ w.shown \in Nat
        /\ \A q \in Pages : ed[q].minted \in Nat /\ ed[q].shown \in None
    BY TextFacts DEF Shapes, EditorsOK, None, EditorRecords
  <1>6. /\ Minted(p, ed[p].minted + 1) \in Lineage
        /\ Minted(p, ed[p].minted + 1).page = p /\ Minted(p, ed[p].minted + 1).forks = <<>>
        /\ Minted(p, ed[p].minted + 1).nth = ed[p].minted + 1
    BY <1>5 DEF Minted, Lineage
  <1>7. \/ w.id \in {ed[p].id, NoLineage} /\ w.minted = ed[p].minted
        \/ w.id \in Lineage /\ w.id.page = p /\ w.id.forks = <<>> /\ w.id # NoLineage
           /\ w.id.nth = ed[p].minted + 1 /\ w.minted = ed[p].minted + 1
    BY <1>1, <1>6, NoLineageOK DEF WriterMoves
  <1>8. w.id # NoLineage =>
           \/ /\ w.id = ed[p].id /\ [id |-> w.id, text |-> ed[p].shown] \in Uses(p)
              /\ w.minted = ed[p].minted
           \/ w.id \in Lineage /\ w.id.page = p /\ w.id.forks = <<>>
              /\ w.id.nth = ed[p].minted + 1 /\ w.minted = ed[p].minted + 1
    BY <1>7, EditorSays
  <1>9. /\ \A t \in None : Under(t)' = Under(t)
        /\ \A t, u \in None : Comparable(t, u)' = Comparable(t, u)
    <2>1. \A t \in None : Under(t)' = Under(t)
      BY <1>1, SameTexts DEF WriterMoves, KeepsText, TypesText
    <2> QED BY <2>1 DEF Comparable
  <1>10. \A q \in Pages : \A x \in Says(q) : x.text \in None /\ x.text # 0 /\ x.id \in Lineage
    BY SaidTexts
  <1> HIDE DEF new
  <1>11. new.id = w.id /\ new.text = w.shown
    BY DEF new
  <1>12. MintedKnown'
    <2>1. ASSUME NEW q \in Pages, ~Gone(q)', NEW d \in Known', d.page = q
          PROVE  d.nth \in 1 .. ed'[q].minted
      <3>1. d \in Known \/ (w.id # NoLineage /\ d = w.id)
        BY <1>2, <1>3, <1>4, <1>11, KnownIs
      <3>2. d \in Known \/ (d = w.id /\ d.page = p /\ d.nth = ed[p].minted + 1
                            /\ w.minted = ed[p].minted + 1)
        BY <3>1, <1>8, UsesAreSaid, KnownIs
      <3>3. CASE d \in Known
        <4>1. d.nth \in 1 .. ed[q].minted
          BY <1>3, <2>1, <3>3 DEF MintedKnown
        <4> QED BY <1>1, <1>2, <1>5, <1>7, <4>1
      <3>4. CASE d = w.id /\ d.page = p /\ d.nth = ed[p].minted + 1 /\ w.minted = ed[p].minted + 1
        BY <1>1, <1>5, <2>1, <3>4
      <3> QED BY <3>2, <3>3, <3>4
    <2> QED BY <2>1 DEF MintedKnown
  <1>13. OwnPlain' /\ TakesForeign'
    <2>1. ASSUME NEW q \in Pages, NEW x \in Uses(q)'
          PROVE  \/ x \in Uses(q)
                 \/ q = p /\ x.id.page = p /\ x.id.forks = <<>>
                 \/ q = p /\ \E y \in Uses(p) : x.id = y.id
      BY <1>2, <1>8, <1>11, <2>1
    <2>2. OwnPlain'
      BY <2>1 DEF OwnPlain
    <2>3. ASSUME NEW q \in Pages, Taking(q)'
          PROVE  plan'[q].id.page # q /\ \A x \in Uses(q)' : x.id.page = q
      BY <1>2, <1>3, <2>1, <2>3 DEF TakesForeign
    <2> QED BY <2>2, <2>3 DEF TakesForeign
  <1>14. OneForeign'
    <2>1. ASSUME NEW q \in Pages, NEW x \in Uses(q)', x.id.page # q
          PROVE  \E y \in Uses(q) : x.id = y.id
      BY <1>2, <1>8, <1>11, <2>1
    <2> QED BY <2>1 DEF OneForeign
  <1>15. BlankUses'
    <2>1. ASSUME NEW q \in Pages, ~Gone(q)', ed'[q].shown = 0
          PROVE  Uses(q)' = {} /\ ed'[q].minted = 0
      <3>1. CASE q # p
        BY <1>2, <1>3, <2>1, <3>1 DEF BlankUses
      <3>2. CASE q = p
        <4>1. w.shown = 0 /\ ed[p].shown = 0 /\ w.id = NoLineage
          BY <1>1, <1>5, <2>1, <3>2 DEF WriterMoves, KeepsText, TypesText
        <4>2. Uses(p) = {} /\ ed[p].minted = 0 /\ w.minted = ed[p].minted
          BY <1>2, <1>7, <4>1 DEF BlankUses
        <4> QED BY <1>1, <1>2, <3>2, <4>1, <4>2
      <3> QED BY <3>1, <3>2
    <2> QED BY <2>1 DEF BlankUses
  <1>16. ASSUME NEW q \in Pages, ~Gone(q)', NEW x \in Says(q)',
                x.id.page = q \/ x.id = ed'[q].id
         PROVE  \A s : s = ed'[q].shown => x.text \in {s} \cup Under(s)'
    <2>1. CASE q # p
      <3>1. PICK o \in None : o = ed[q].shown
        BY <1>5
      <3>2. x.text \in {o} \cup Under(o) /\ ed'[q].shown = o
        BY <1>2, <1>3, <1>4, <1>16, <2>1, <3>1 DEF ShownLast, Under
      <3> QED BY <1>9, <3>2
    <2>2. CASE q = p /\ x = new
      BY <1>1, <1>11, <2>2
    <2>3. CASE q = p /\ x \in Says(p)
      <3>1. PICK o \in None : o = ed[p].shown
        BY <1>5
      <3>2. x.id.page = p \/ x.id = ed[p].id
        BY <1>1, <1>7, <1>10, <1>16, <2>3, NoLineageOK
      <3>3. x.text \in {o} \cup Under(o) /\ x.text # 0 /\ x.text \in None
        BY <1>2, <1>10, <2>3, <3>1, <3>2 DEF ShownLast, Under
      <3>4. CASE KeepsText(p, w)
        BY <1>1, <1>9, <2>3, <3>1, <3>3, <3>4 DEF KeepsText
      <3>5. CASE TypesText(p, w)
        <4>1. o # 0 /\ \A u \in {o} \cup Under(o) : u \in Under(w.shown)'
          BY <3>1, <3>3, <3>5 DEF Under, TypesText
        <4> QED BY <1>1, <2>3, <3>3, <4>1
      <3> QED BY <1>1, <3>4, <3>5 DEF WriterMoves
    <2> QED BY <1>4, <1>16, <2>1, <2>2, <2>3
  <1>17. OneChain'
    <2>1. ASSUME NEW q \in Pages, NEW x \in Says(q)', NEW y \in Says(q)',
                 x.id = y.id \/ (x.id.page = q /\ y.id.page = q)
          PROVE  Comparable(x.text, y.text)'
      <3>1. CASE x \in Says(q) /\ y \in Says(q)
        BY <1>9, <1>10, <2>1, <3>1 DEF OneChain
      <3>2. ASSUME NEW z \in Says(q)', q = p, z.id.page = p \/ z.id = w.id
            PROVE  Comparable(z.text, w.shown)' /\ Comparable(w.shown, z.text)'
        <4>1. z.text \in {w.shown} \cup Under(w.shown)'
          BY <1>1, <1>2, <1>3, <1>16, <3>2
        <4> QED BY <4>1 DEF Comparable
      <3>3. CASE q = p /\ x = new
        BY <1>11, <2>1, <3>2, <3>3
      <3>4. CASE q = p /\ y = new
        BY <1>11, <2>1, <3>2, <3>4
      <3> QED BY <1>4, <2>1, <3>1, <3>3, <3>4
    <2> QED BY <2>1 DEF OneChain
  <1>18. TakenAsDecided'
    BY <1>2, <1>3 DEF TakenAsDecided
  <1>19. ShownLast'
    <2>1. ASSUME NEW q \in Pages, ~Gone(q)', NEW x \in Says(q)',
                 x.id.page = q \/ x.id = ed'[q].id
          PROVE  (x.text \in {ed[q].shown} \cup Under(ed[q].shown))'
      <3>1. PICK s : s = ed'[q].shown
        OBVIOUS
      <3>2. x.text \in {s} \cup Under(s)'
        BY <1>16, <2>1, <3>1
      <3> QED BY <3>1, <3>2 DEF Under
    <2> QED BY <2>1 DEF ShownLast
  <1> QED BY <1>12, <1>13, <1>14, <1>15, <1>17, <1>18, <1>19

LEMMA TakesKeeps ==
    ASSUME Shapes, WordsOK, NEW p \in Pages, TakesStep(p)
    PROVE  WordsOK'
  <1> USE DEF WordsOK
  <1>1. PICK d \in DOMAIN draft :
           /\ Kept(d) /\ plan'[p].act = "adopt" /\ plan'[p].id = d /\ plan'[p].row = draft[d]
    BY DEF TakesStep
  <1>2. /\ UNCHANGED <<page, typed, draft, key, ed, write, scan>> /\ ed[p].shown = 0 /\ ~Gone(p)
        /\ \A q \in Pages \ {p} : plan'[q] = plan[q]
    BY DEF TakesStep, Here, Gone
  <1>3. \A q \in Pages : Uses(q)' = Uses(q) /\ Says(q)' = Says(q) /\ Owns(q)' = Owns(q)
                         /\ Gone(q)' = Gone(q)
    BY <1>2 DEF Uses, KeyWords, ScanWords, WriteWords, EditorWords, Says, Owns, Kept, HasRow, Gone
  <1>4. d \in Known
    <2>1. draft[d].owner \in Pages
      BY DEF Shapes, StoreOK, StoreLike, Row
    <2>2. [id |-> d, text |-> draft[d].text] \in Owns(draft[d].owner)
      BY <1>1 DEF Owns
    <2> QED BY <2>1, <2>2, UsesAreSaid, KnownIs
  <1>5. Known' \subseteq Known
    BY <1>1, <1>2, <1>3, <1>4, KnownIs DEF Taking
  <1>6. Uses(p) = {} /\ d.page # p
    <2>1. Uses(p) = {} /\ ed[p].minted = 0
      BY <1>2 DEF BlankUses
    <2> QED BY <1>2, <1>4, <2>1 DEF MintedKnown
  <1>7. \A t, u : Under(t)' = Under(t) /\ Comparable(t, u)' = Comparable(t, u)
    BY <1>2, SameTexts
  <1>8. MintedKnown' /\ OwnPlain' /\ OneForeign' /\ BlankUses'
    BY <1>2, <1>3, <1>5 DEF MintedKnown, OwnPlain, OneForeign, BlankUses
  <1>9. TakesForeign' /\ TakenAsDecided'
    BY <1>1, <1>2, <1>3, <1>6 DEF TakesForeign, TakenAsDecided, Taking
  <1>10. ShownLast' /\ OneChain'
    BY <1>2, <1>3, <1>7 DEF ShownLast, OneChain
  <1> QED BY <1>8, <1>9, <1>10

\* A word that a page owns is the record's.
LEMMA OwnsIs ==
    /\ \A q \in Pages : \A x \in Owns(q) :
          HasRow(x.id) /\ Kept(x.id) /\ draft[x.id].owner = q /\ x.text = draft[x.id].text
    /\ \A q \in Pages : \A d : Kept(d) /\ draft[d].owner = q =>
          [id |-> d, text |-> draft[d].text] \in Owns(q)
  BY DEF Owns, Kept, HasRow

LEMMA AdoptKeeps ==
    ASSUME Shapes, WordsOK, AdoptsDecided, NEW p \in Pages, AdoptStep(p)
    PROVE  WordsOK'
  <1> USE DEF WordsOK
  <1>1. PICK d \in DOMAIN draft, t \in Texts :
           /\ plan[p].act = "adopt" /\ plan[p].id = d /\ AsDecided(plan[p]) /\ draft[d].text = t
           /\ plan'[p].act = "adopted" /\ plan'[p].id = d /\ plan'[p].row = plan[p].row
           /\ Owns(p)' \subseteq Owns(p) \cup {[id |-> d, text |-> t]}
    BY Zenon DEF AdoptStep
  <1>2. /\ UNCHANGED <<page, typed, key, ed, write, scan>>
        /\ \A q \in Pages \ {p} : plan'[q] = plan[q] /\ Owns(q)' \subseteq Owns(q)
    BY DEF AdoptStep
  <1>3. \A q \in Pages : /\ Uses(q)' = Uses(q) /\ Gone(q)' = Gone(q)
                         /\ Taking(q)' = Taking(q) /\ plan'[q].id = plan[q].id
    BY <1>1, <1>2 DEF Uses, KeyWords, ScanWords, WriteWords, EditorWords, Gone, Taking
  <1> DEFINE new == [id |-> d, text |-> t]
  <1>4. /\ \A q \in Pages \ {p} : Says(q)' \subseteq Says(q)
        /\ \A x \in Says(p)' : x \in Says(p) \/ x = new
    BY <1>1, <1>2, <1>3 DEF Says
  <1> HIDE DEF new
  <1>5. new.id = d /\ new.text = t
    BY DEF new
  <1>6. d.page # p /\ (\A x \in Uses(p) : x.id.page = p) /\ Taking(p) /\ d \in Lineage
        /\ plan[p].row.text = t
    BY <1>1 DEF TakesForeign, Taking, AdoptsDecided, Shapes, StoreOK, StoreLike
  <1>7. \A x \in Says(p) : x.id = d => x.text = t
    BY <1>1, <1>6, OwnsIs DEF Says
  <1>8. \A t_1, u : Under(t_1)' = Under(t_1) /\ Comparable(t_1, u)' = Comparable(t_1, u)
    BY <1>2, SameTexts
  <1>9. Known' \subseteq Known
    BY <1>1, <1>2, <1>3, <1>4, <1>5, <1>6, KnownIs
  <1>10. MintedKnown' /\ OwnPlain' /\ OneForeign' /\ BlankUses' /\ TakesForeign'
    BY <1>2, <1>3, <1>9 DEF MintedKnown, OwnPlain, OneForeign, BlankUses, TakesForeign
  <1>11. ShownLast'
    <2>1. ed[p].id # d
      BY <1>6, EditorSays, NoLineageOK
    <2> QED BY <1>2, <1>3, <1>4, <1>5, <1>6, <1>8, <2>1 DEF ShownLast
  <1>12. OneChain'
    <2>1. ASSUME NEW q \in Pages, NEW x \in Says(q)', NEW y \in Says(q)',
                 x.id = y.id \/ (x.id.page = q /\ y.id.page = q)
          PROVE  Comparable(x.text, y.text)
      <3>1. CASE x \in Says(q) /\ y \in Says(q)
        BY <2>1, <3>1 DEF OneChain
      <3>2. CASE q = p /\ (x = new \/ y = new)
        BY <1>4, <1>5, <1>6, <1>7, <2>1, <3>2 DEF Comparable
      <3> QED BY <1>4, <2>1, <3>1, <3>2
    <2> QED BY <1>8, <2>1 DEF OneChain
  <1>13. TakenAsDecided'
    <2>1. ASSUME NEW q \in Pages, plan'[q].act = "adopted", NEW x \in Owns(q)', x.id = plan'[q].id
          PROVE  x.text = plan'[q].row.text
      <3>1. CASE q = p
        BY <1>1, <1>5, <1>6, <1>7, <2>1, <3>1, UsesAreSaid DEF new
      <3>2. CASE q # p
        BY <1>2, <2>1, <3>2 DEF TakenAsDecided
      <3> QED BY <3>1, <3>2
    <2> QED BY <2>1 DEF TakenAsDecided
  <1> QED BY <1>10, <1>11, <1>12, <1>13

LEMMA RestoreKeeps ==
    ASSUME Shapes, WordsOK, NEW p \in Pages, RestoreStep(p)
    PROVE  WordsOK'
  <1> USE DEF WordsOK
  <1>1. PICK d \in Lineage, t \in Texts :
           /\ ed[p].shown = 0 /\ plan[p].act = "adopted" /\ plan[p].id = d
           /\ plan[p].row.text = t /\ ed'[p].id = d /\ ed'[p].shown = t
           /\ ed'[p].minted = ed[p].minted
    BY Zenon DEF RestoreStep
  <1>2. /\ UNCHANGED <<page, typed, draft, key, write, scan>> /\ ~Gone(p)
        /\ \A q \in Pages \ {p} : plan'[q] = plan[q] /\ ed'[q] = ed[q]
        /\ plan'[p].act = "none"
    BY DEF RestoreStep, Here, Gone
  <1> DEFINE new == [id |-> d, text |-> t]
  <1>3. /\ \A q \in Pages : Owns(q)' = Owns(q) /\ Gone(q)' = Gone(q)
        /\ \A q \in Pages \ {p} : Uses(q)' = Uses(q) /\ Says(q)' = Says(q) /\ Taking(q)' = Taking(q)
    BY <1>2 DEF Uses, KeyWords, ScanWords, WriteWords, EditorWords, Says, Owns, Kept, HasRow,
                Gone, Taking
  <1>4. Uses(p) = {} /\ ed[p].minted = 0
    BY <1>1, <1>2 DEF BlankUses
  <1>5. Uses(p)' \subseteq {new}
    <2>1. /\ KeyWords(p)' = KeyWords(p) /\ ScanWords(p)' = ScanWords(p)
          /\ WriteWords(p)' = WriteWords(p)
      BY <1>2, WordsRest
    <2>2. EditorWords(p)' \subseteq {new}
      BY <1>1 DEF EditorWords
    <2> HIDE DEF new
    <2> QED BY <1>4, <2>1, <2>2 DEF Uses
  <1> HIDE DEF new
  <1>6. new.id = d /\ new.text = t /\ d.page # p /\ t # 0 /\ Taking(p)
    BY <1>1, TextFacts DEF new, TakesForeign, Taking, Texts, Shapes
  <1>7. \A x \in Says(p)' : x \in Owns(p) \/ x = new
    BY <1>3, <1>5 DEF Says
  <1>8. \A x \in Owns(p) : x.id = d => x.text = t
    BY <1>1 DEF TakenAsDecided
  <1>9. \A u, v : Under(u)' = Under(u) /\ Comparable(u, v)' = Comparable(u, v)
    BY <1>2, SameTexts
  <1>10. Known' \subseteq Known
    BY <1>1, <1>2, <1>3, <1>6, <1>7, UsesAreSaid, KnownIs DEF Taking
  <1>11. MintedKnown'
    <2>1. \A q \in Pages : ed'[q].minted = ed[q].minted
      BY <1>1, <1>2
    <2> QED BY <1>3, <1>10, <2>1 DEF MintedKnown
  <1>12. OwnPlain' /\ OneForeign' /\ BlankUses'
    BY <1>1, <1>2, <1>3, <1>5, <1>6 DEF OwnPlain, OneForeign, BlankUses
  <1>13. TakesForeign' /\ TakenAsDecided'
    BY <1>2, <1>3 DEF TakesForeign, TakenAsDecided, Taking
  <1>14. ShownLast'
    <2>1. ASSUME NEW x \in Says(p)', x.id.page = p \/ x.id = d PROVE x.text = t
      <3>1. ASSUME x \in Owns(p), x.id.page = p PROVE FALSE
        <4>1. x \in Says(p) /\ x.text # 0
          BY <3>1, UsesAreSaid, SaidTexts
        <4>2. x.text \in {0} \cup Under(0)
          BY <1>1, <1>2, <3>1, <4>1 DEF ShownLast, Under
        <4> QED BY <4>1, <4>2 DEF Under
      <3> QED BY <1>6, <1>7, <1>8, <2>1, <3>1
    <2>2. \A x \in Says(p)' : x.id.page = p \/ x.id = ed'[p].id => x.text = ed'[p].shown
      BY <1>1, <2>1
    <2> QED BY <1>2, <1>3, <1>9, <2>2 DEF ShownLast
  <1>15. OneChain'
    <2>1. ASSUME NEW q \in Pages, NEW x \in Says(q)', NEW y \in Says(q)',
                 x.id = y.id \/ (x.id.page = q /\ y.id.page = q)
          PROVE  Comparable(x.text, y.text)
      <3>1. CASE x \in Says(q) /\ y \in Says(q)
        BY <2>1, <3>1 DEF OneChain
      <3>2. CASE q = p /\ (x = new \/ y = new)
        BY <1>6, <1>7, <1>8, <2>1, <3>2 DEF Comparable
      <3> QED BY <1>3, <1>7, <2>1, <3>1, <3>2, UsesAreSaid
    <2> QED BY <1>9, <2>1 DEF OneChain
  <1> QED BY <1>11, <1>12, <1>13, <1>14, <1>15

LEMMA ForkKeeps ==
    ASSUME Shapes, WordsOK, NEW q \in Pages, NEW x \in Uses(q), ForkStep(q, x)
    PROVE  WordsOK'
  <1> USE DEF WordsOK
  <1>1. PICK f \in Lineage : f = Fork(x.id, x.text)
    BY DEF ForkStep
  <1>2. x \in Says(q) /\ x.id \in Lineage /\ x.text \in None
    BY UsesAreSaid, SaidTexts
  <1>3. f.page = x.id.page /\ f.nth = x.id.nth /\ f.forks # <<>> /\ f # x.id /\ ~HasRow(f)
    BY <1>1, <1>2, ForkLineage DEF Shapes, ForkStep
  <1> DEFINE new == [id |-> f, text |-> x.text]
  <1>4. /\ UNCHANGED <<page, typed, ed, plan>>
        /\ \A r \in Pages : Uses(r)' \subseteq Uses(r)
        /\ \A r \in Pages \ {q} : Says(r)' \subseteq Says(r)
        /\ \A y \in Says(q)' : y \in Says(q) \/ y = new
    BY <1>1 DEF ForkStep
  <1> HIDE DEF new
  <1>5. new.id = f /\ new.text = x.text
    BY DEF new
  <1>6. \A r \in Pages : Gone(r)' = Gone(r) /\ Taking(r)' = Taking(r)
    BY <1>4 DEF Gone, Taking
  <1>7. \A u, v : Under(u)' = Under(u) /\ Comparable(u, v)' = Comparable(u, v)
    BY <1>4, SameTexts
  <1>8. \A y \in Uses(q) : y.id # f
    BY <1>3 DEF OwnPlain, OneForeign
  <1>9. \A y \in Says(q) : y.id # f
    BY <1>3, <1>8, OwnsIs DEF Says
  <1>10. MintedKnown'
    <2>1. ASSUME NEW d \in Known' PROVE d \in Known \/ d = f
      BY <1>4, <1>5, <1>6, KnownIs
    <2>2. x.id \in Known
      BY <1>2, KnownIs
    <2> QED BY <1>3, <1>4, <1>6, <2>1, <2>2 DEF MintedKnown
  <1>11. OwnPlain' /\ OneForeign' /\ BlankUses' /\ TakesForeign'
    BY <1>4, <1>6 DEF OwnPlain, OneForeign, BlankUses, TakesForeign
  <1>12. ShownLast'
    <2>1. f # ed[q].id
      BY <1>8, EditorSays, NoLineageOK
    <2>2. ~Gone(q) /\ f.page = q => x.text \in {ed[q].shown} \cup Under(ed[q].shown)
      BY <1>2, <1>3 DEF ShownLast
    <2>3. \A r \in Pages : ~Gone(r) => \A y \in Says(r)' :
            y.id.page = r \/ y.id = ed[r].id => y.text \in {ed[r].shown} \cup Under(ed[r].shown)
      BY <1>4, <1>5, <2>1, <2>2 DEF ShownLast
    <2> QED BY <1>4, <1>6, <1>7, <2>3 DEF ShownLast
  <1>13. OneChain'
    <2>1. ASSUME NEW r \in Pages, NEW y \in Says(r)', NEW z \in Says(r)',
                 y.id = z.id \/ (y.id.page = r /\ z.id.page = r)
          PROVE  Comparable(y.text, z.text)
      <3>1. CASE y \in Says(r) /\ z \in Says(r)
        BY <2>1, <3>1 DEF OneChain
      <3>2. CASE r = q /\ y = new /\ z = new
        BY <3>2 DEF Comparable
      <3>3. CASE r = q /\ y = new /\ z \in Says(q)
        <4>1. f.page = q /\ z.id.page = q
          BY <1>5, <1>9, <2>1, <3>3
        <4> QED BY <1>2, <1>3, <1>5, <3>3, <4>1 DEF OneChain
      <3>4. CASE r = q /\ z = new /\ y \in Says(q)
        <4>1. f.page = q /\ y.id.page = q
          BY <1>5, <1>9, <2>1, <3>4
        <4> QED BY <1>2, <1>3, <1>5, <3>4, <4>1 DEF OneChain
      <3> QED BY <1>4, <2>1, <3>1, <3>2, <3>3, <3>4
    <2> QED BY <1>7, <2>1 DEF OneChain
  <1>14. TakenAsDecided'
    <2>1. ASSUME NEW r \in Pages, plan[r].act = "adopted", NEW y \in Owns(r)', y.id = plan[r].id
          PROVE  y.text = plan[r].row.text
      <3>1. plan[r].id.page # r /\ \A z \in Uses(r) : z.id.page = r
        BY <2>1 DEF TakesForeign, Taking
      <3>2. y \in Says(r)'
        BY <2>1 DEF Says
      <3>3. y \in Says(r)
        BY <1>3, <1>4, <1>5, <2>1, <3>1, <3>2
      <3>4. y \in Owns(r)
        BY <2>1, <3>1, <3>3 DEF Says
      <3> QED BY <2>1, <3>4 DEF TakenAsDecided
    <2> QED BY <1>4, <2>1 DEF TakenAsDecided
  <1> QED BY <1>10, <1>11, <1>12, <1>13, <1>14

\* No page has said anything at first.
LEMMA InitWords ==
    ASSUME Init
    PROVE  WordsOK
  <1>1. \A q \in Pages : Uses(q) = {} /\ Owns(q) = {} /\ ~Taking(q)
    BY DEF Init, Uses, KeyWords, ScanWords, WriteWords, EditorWords, Owns, Taking, NoPlan,
           NoWrite, NewEditor, NoScan
  <1>2. \A q \in Pages : Says(q) = {}
    BY <1>1 DEF Says
  <1>3. Known = {}
    BY <1>1, <1>2, KnownIs
  <1>4. \A q \in Pages : ed[q].minted = 0
    BY DEF Init, NewEditor
  <1> QED BY <1>1, <1>2, <1>3, <1>4
          DEF WordsOK, MintedKnown, OwnPlain, OneForeign, BlankUses, TakesForeign, ShownLast,
              OneChain, TakenAsDecided, Taking

LEMMA WordsKept ==
    ASSUME IInv, AdoptsDecided, [Next]_vars
    PROVE  IInv'
  <1>1. Shapes' /\ Step
    BY EveryStep DEF IInv
  <1>2. WordsOK'
    BY <1>1, QuietKeeps, WriterKeeps, TakesKeeps, AdoptKeeps, RestoreKeeps, ForkKeeps
       DEF IInv, Step
  <1> QED BY <1>1, <1>2 DEF IInv

-----------------------------------------------------------------------------
(* What transactions replace the text of a record with *)

\* The record of d has the text it had, or a later one that its owner's writer
\* or key has of it.
MovesOn(d) ==
    \/ draft'[d].text = draft[d].text
    \/ /\ typed' = typed /\ draft[d].owner \in Pages
       /\ [id |-> d, text |-> draft'[d].text] \in Uses(draft[d].owner)
       /\ Gen(draft[d].text) < Gen(draft'[d].text)
StoreMoves == \A d \in DOMAIN draft \cap DOMAIN draft' :
    Kept(d) /\ draft'[d].status # "discarded" => MovesOn(d)

LEMMA NothingNewMoves ==
    ASSUME NothingNew(draft')
    PROVE  StoreMoves
  BY DEF NothingNew, StoreMoves, MovesOn

LEMMA CommitWriteMoves ==
    ASSUME Shapes, NEW p \in Pages, CommitWrite(p)
    PROVE  StoreMoves
  <1>1. CASE WriteOutcome(p) = "ok"
    <2>1. PICK d \in Lineage : d = write[p].id
      BY OpenWrites DEF CommitWrite
    <2>2. PICK t \in Texts : t = write[p].text
      BY OpenWrites DEF CommitWrite
    <2> DEFINE row == [owner |-> p, text |-> t, status |-> "active",
                       source |-> IF HasRow(d) THEN draft[d].source ELSE NoPage]
    <2>3. draft' = With(d, row) /\ typed' = typed /\ write[p].out = "sent"
      BY <1>1, <2>1, <2>2 DEF CommitWrite
    <2>4. row.text = t
      OBVIOUS
    <2> HIDE DEF row
    <2>5. draft'[d].text = t /\ \A e \in DOMAIN draft : e # d => draft'[e] = draft[e]
      BY <2>3, <2>4 DEF With
    <2>6. ASSUME Kept(d) PROVE MovesOn(d)
      <3>1. HasRow(d) /\ draft[d].owner = p /\ ~(Gen(draft[d].text) >= Gen(t))
        BY <1>1, <2>1, <2>2, <2>6 DEF Kept, WriteOutcome
      <3>2. Gen(draft[d].text) \in Nat /\ Gen(t) \in Nat
        BY <3>1, TextFacts DEF Shapes, StoreOK, StoreLike, HasRow
      <3>3. Gen(draft[d].text) < Gen(t)
        BY <3>1, <3>2
      <3>4. [id |-> d, text |-> t] \in Uses(p)
        BY <2>1, <2>2, <2>3 DEF Uses, WriteWords
      <3> QED BY <2>3, <2>5, <3>1, <3>3, <3>4 DEF MovesOn
    <2> QED BY <2>5, <2>6 DEF StoreMoves, MovesOn
  <1>2. CASE WriteOutcome(p) # "ok"
    BY <1>2 DEF CommitWrite, StoreMoves, MovesOn
  <1> QED BY <1>1, <1>2

LEMMA ApplyEntryMoves ==
    ASSUME Shapes, NEW p \in Pages, ApplyEntry(p)
    PROVE  StoreMoves
  <1>1. scan[p].pc = "apply" /\ typed' = typed
    BY DEF ApplyEntry, ScanOnly
  <1>2. PICK q \in Pages, e \in Entry : q = scan[p].of /\ e = scan[p].entry /\ e.tail \in Texts
    BY <1>1 DEF Shapes, ScansOK
  <1>3. draft' = draft \/ draft' = Applied(q, e)
    BY <1>2 DEF ApplyEntry
  <1>4. CASE draft' = Applied(q, e)
    <2>1. \A d \in DOMAIN draft' : draft'[d].status # "discarded" =>
             \/ Kept(d) /\ draft'[d].text = draft[d].text /\ draft'[d].owner = draft[d].owner
             \/ /\ d = e.id /\ draft'[d].text = e.tail /\ draft'[d].owner = q
                /\ HasRow(d) => draft[d].owner = q /\ Gen(draft[d].text) < Gen(e.tail)
             \/ /\ d = Fork(e.id, e.tail) /\ ~HasRow(d)
                /\ draft'[d].text = e.tail /\ draft'[d].owner = q
      BY <1>2, <1>4, AppliedStore DEF Shapes
    <2>2. [id |-> e.id, text |-> e.tail] \in Uses(q)
      BY <1>1, <1>2 DEF Uses, ScanWords
    <2> QED BY <1>1, <2>1, <2>2 DEF StoreMoves, MovesOn, Kept
  <1> QED BY <1>3, <1>4 DEF StoreMoves, MovesOn

LEMMA AdoptDraftMoves ==
    ASSUME Shapes, NEW p \in Pages, AdoptDraft(p)
    PROVE  StoreMoves
  <1>1. draft' = draft \/ (Kept(plan[p].id)
                           /\ draft' = With(plan[p].id, [draft[plan[p].id] EXCEPT !.owner = p]))
    BY DEF AdoptDraft, AsDecided
  <1>2. CASE Kept(plan[p].id)
             /\ draft' = With(plan[p].id, [draft[plan[p].id] EXCEPT !.owner = p])
    <2>1. PICK d \in DOMAIN draft : d = plan[p].id
      BY <1>2 DEF Kept, HasRow
    <2>2. [draft[d] EXCEPT !.owner = p].text = draft[d].text
      BY DEF Shapes, StoreOK, StoreLike, Row
    <2> QED BY <1>2, <2>1, <2>2 DEF StoreMoves, MovesOn, With
  <1> QED BY <1>1, <1>2 DEF StoreMoves, MovesOn

\* Everything else deletes, buries or marks records, or leaves the store alone.
LEMMA EveryMove ==
    ASSUME Shapes, [Next]_vars
    PROVE  StoreMoves
  <1>1. draft' = draft => StoreMoves
    BY DEF StoreMoves, MovesOn
  <1>2. ASSUME NEW p \in Pages, PageNext(p) PROVE StoreMoves
    BY <1>1, <1>2 DEF PageNext, Open, Hide, Close, Crash, PageStep, KeyStepOnly
  <1>3. ASSUME NEW p \in Pages, WriterNext(p) PROVE StoreMoves
    <2>1. CommitWrite(p) \/ draft' = draft
      BY <1>3 DEF WriterNext, Edit, StartWrite, FailWrite, AfterWrite, KeyStepOnly
    <2> QED BY <1>1, <2>1, CommitWriteMoves
  <1>4. ASSUME NEW p \in Pages, AcknowledgementNext(p) PROVE StoreMoves
    <2>1. CASE \E t \in served : Acknowledge(p, t)
      BY <1>1, <2>1 DEF Acknowledge
    <2>2. CASE AskDelete(p) \/ AfterDelete(p)
      BY <1>1, <2>2 DEF AskDelete, AfterDelete
    <2>3. CASE DeleteAcknowledged(p) \/ LeaveStone(p)
      BY <2>3, DeleteAcknowledgedQuiet, LeaveStoneQuiet, NothingNewMoves
    <2>4. CASE \E m \in marks : Sweep(p, m)
      BY <2>4, SweepQuiet, NothingNewMoves
    <2>5. CASE \E d \in stones[p] : ReleaseStone(p, d)
      BY <2>5, ReleaseStoneQuiet, NothingNewMoves
    <2> QED BY <1>4, <2>1, <2>2, <2>3, <2>4, <2>5 DEF AcknowledgementNext
  <1>5. ASSUME NEW p \in Pages, MergeNext(p) PROVE StoreMoves
    <2>1. CASE Unmark(p)
      <3>1. scan[p].of \in Pages
        BY <2>1 DEF Shapes, ScansOK, Unmark
      <3>2. NothingNew(draft')
        BY <2>1, <3>1, UnmarkedStore DEF Unmark, Shapes
      <3> QED BY <3>2, NothingNewMoves
    <2>2. Unmark(p) \/ ApplyEntry(p) \/ draft' = draft
      BY <1>5 DEF MergeNext, StartScan, RemoveKey, EndScan, SkipKey, PickKey
    <2> QED BY <1>1, <2>1, <2>2, ApplyEntryMoves
  <1>6. ASSUME NEW p \in Pages, RecoveryNext(p) PROVE StoreMoves
    <2>1. CASE ClearDraft(p) \/ DiscardDraft(p)
      BY <2>1, ClearDraftQuiet, DiscardDraftQuiet, NothingNewMoves
    <2>2. ClearDraft(p) \/ DiscardDraft(p) \/ AdoptDraft(p) \/ draft' = draft
      BY <1>6 DEF RecoveryNext, Decide, Restore
    <2> QED BY <1>1, <2>1, <2>2, AdoptDraftMoves
  <1>7. ASSUME NEW t \in Texts, Serve(t) PROVE StoreMoves
    BY <1>1, <1>7 DEF Serve
  <1>8. CASE UNCHANGED vars
    BY <1>1, <1>8 DEF vars
  <1> QED BY <1>2, <1>3, <1>4, <1>5, <1>6, <1>7, <1>8 DEF Next

\* What LineageForward says of a step.
ForwardStep ==
    \A d \in DOMAIN draft \cap DOMAIN draft', t \in Texts :
        Kept(d) /\ draft[d].text = t /\ draft'[d].status # "discarded"
            => draft'[d].text \in Over(t)'

LEMMA WordsForward ==
    ASSUME IInv, [Next]_vars
    PROVE  ForwardStep
  <1>1. Shapes /\ StoreMoves /\ Shapes' /\ OneChain
    BY EveryMove, EveryStep DEF IInv, WordsOK
  <1>2. ASSUME NEW d \in DOMAIN draft \cap DOMAIN draft', NEW t \in Texts,
               Kept(d), draft[d].text = t, draft'[d].status # "discarded"
        PROVE  draft'[d].text \in Over(t)'
    <2>1. PICK u \in Texts' : u = draft'[d].text
      BY <1>1, <1>2, TextFacts DEF Shapes, StoreOK, StoreLike, None, Texts, TypedOK
    <2>2. CASE u = t
      BY <2>1, <2>2 DEF Over
    <2>3. CASE /\ typed' = typed /\ draft[d].owner \in Pages
               /\ [id |-> d, text |-> u] \in Uses(draft[d].owner)
               /\ Gen(t) < Gen(u)
      <3>1. PICK q \in Pages : q = draft[d].owner
        BY <2>3
      <3>2. [id |-> d, text |-> u] \in Says(q) /\ [id |-> d, text |-> t] \in Says(q)
        BY <1>2, <2>3, <3>1, UsesAreSaid, OwnsIs
      <3>3. Comparable(t, u) /\ t \in None /\ u \in None
        BY <1>1, <3>2, SaidTexts DEF OneChain
      <3>4. t \in Under(u)
        BY <1>1, <2>3, <3>3, ChainByGeneration DEF Shapes
      <3>5. t \in Under(u)'
        BY <2>3, <3>4 DEF Under
      <3> QED BY <2>1, <3>5 DEF Over
    <2> QED BY <1>1, <1>2, <2>1, <2>2, <2>3 DEF StoreMoves, MovesOn
  <1> QED BY <1>2 DEF ForwardStep

\* What a lineage holds is only ever replaced by a text typed over it, for
\* every number of pages: if a page never takes over a draft that has moved on
\* since it decided to.  The generations that the transactions compare tell
\* the texts of one page apart; a page that took over one text and edits
\* another with the same generation would write over what it never saw.
THEOREM Forward == Spec /\ []AdoptsDecided => LineageForward
  <1>1. Init => IInv
    BY InitShapes, InitWords DEF IInv
  <1>2. IInv /\ AdoptsDecided /\ [Next]_vars => IInv'
    BY WordsKept
  <1>3. IInv /\ [Next]_vars => [ForwardStep]_vars
    BY WordsForward
  <1> QED BY <1>1, <1>2, <1>3, PTL DEF Spec, LineageForward, ForwardStep

-----------------------------------------------------------------------------
(* Two pages *)

LEMMA InitTwo ==
    ASSUME Init
    PROVE  TwoInv
  <1>1. \A q \in Pages : Uses(q) = {} /\ Owns(q) = {} /\ ~Taking(q)
    BY DEF Init, Uses, KeyWords, ScanWords, WriteWords, EditorWords, Owns, Taking, NoPlan,
           NoWrite, NewEditor, NoScan
  <1> QED BY <1>1 DEF TwoInv, OneTaker, DecidedChain, Says, Taking

\* What decides is the generation: while a page that is gone has only texts of
\* one chain, one generation is one text.
LEMMA TwoDecides ==
    ASSUME IInv, TwoInv
    PROVE  AdoptsDecided
  <1>1. ASSUME NEW p \in Pages, plan[p].act = "adopt", AsDecided(plan[p])
        PROVE  draft[plan[p].id].text = plan[p].row.text
    <2>1. PICK d \in DOMAIN draft : d = plan[p].id
      BY <1>1 DEF AsDecided, Kept, HasRow
    <2>2. PICK t \in Texts : t = plan[p].row.text
      BY <1>1 DEF IInv, Shapes, PlansOK, NoPlan
    <2>3. PICK u \in None : u = draft[d].text
      BY DEF IInv, Shapes, StoreOK, StoreLike
    <2>4. PICK q \in Pages : q = plan[p].row.owner
      BY <1>1 DEF IInv, Shapes, PlansOK, NoPlan, Planned, Row
    <2>5. Kept(d) /\ draft[d].owner = q /\ Gen(u) = Gen(t)
      BY <1>1, <2>1, <2>2, <2>3, <2>4 DEF AsDecided
    <2>6. [id |-> d, text |-> u] \in Owns(q) /\ [id |-> d, text |-> u] \in Says(q)
      BY <2>3, <2>5, OwnsIs, UsesAreSaid
    <2>7. CASE q = p
      <3>1. \A x \in Owns(p) : x.id = d => x.text = t
        BY <1>1, <2>1, <2>2, <2>4, <2>7 DEF TwoInv, DecidedChain
      <3>2. u = t
        BY <2>6, <2>7, <3>1
      <3> QED BY <2>1, <2>2, <2>3, <3>2
    <2>8. CASE q # p
      <3>1. Comparable(u, t)
        BY <1>1, <2>1, <2>2, <2>4, <2>6, <2>8 DEF TwoInv, DecidedChain
      <3>2. u = t
        BY <2>2, <2>5, <3>1, ChainByGeneration, TextFacts DEF IInv, Shapes
      <3> QED BY <2>1, <2>2, <2>3, <3>2
    <2> QED BY <2>7, <2>8
  <1> QED BY <1>1 DEF AdoptsDecided

\* A page that takes over has only words of its own lineages in hand, so what
\* it says of the one it takes is what it owns.
LEMMA TakerOwns ==
    ASSUME WordsOK, NEW q \in Pages, Taking(q), NEW x \in Says(q), x.id = plan[q].id
    PROVE  x \in Owns(q)
  BY DEF WordsOK, TakesForeign, Says

LEMMA QuietTwo ==
    ASSUME IInv, TwoInv, QuietStep
    PROVE  TwoInv'
  <1>1. \A q \in Pages : /\ Says(q)' \subseteq Says(q)
                         /\ Taking(q)' => Taking(q) /\ plan'[q] = plan[q]
                         /\ Gone(q) => Gone(q)'
    BY DEF QuietStep, Taking, Gone
  <1>2. \A t, u : Comparable(t, u)' = Comparable(t, u)
    BY SameTexts DEF QuietStep
  <1>3. OneTaker'
    BY <1>1 DEF TwoInv, OneTaker
  <1>4. ASSUME NEW r \in Pages, NEW q \in Pages, plan'[r].act = "adopt", plan'[r].row.owner = q
        PROVE  /\ q = r => \A x \in Owns(r)' : x.id = plan'[r].id => x.text = plan'[r].row.text
               /\ q # r => /\ Gone(q)' /\ plan'[r].id.page = q
                          /\ \A x \in Says(q)' : x.id.page = q =>
                                Comparable(x.text, plan'[r].row.text)
    <2>1. plan'[r] = plan[r] /\ Taking(r)
      BY <1>1, <1>4 DEF Taking
    <2>2. \A x \in Owns(r)' : x.id = plan[r].id => x \in Owns(r)
      BY <1>1, <2>1, TakerOwns DEF Says, IInv
    <2> QED BY <1>1, <1>4, <2>1, <2>2 DEF TwoInv, DecidedChain
  <1>5. DecidedChain'
    BY <1>2, <1>4 DEF DecidedChain
  <1> QED BY <1>3, <1>5 DEF TwoInv

LEMMA WriterTwo ==
    ASSUME IInv, TwoInv, NEW p \in Pages, WriterStep(p)
    PROVE  TwoInv'
  <1>1. PICK w \in EditorRecords : ed'[p] = w /\ WriterMoves(p, w)
    BY DEF WriterStep
  <1>2. /\ ~Gone(p) /\ UNCHANGED <<page, draft, plan>>
        /\ \A q \in Pages \ {p} : Uses(q)' \subseteq Uses(q)
        /\ \A x \in Uses(p)' : x \in Uses(p) \/ (w.id # NoLineage /\ x.id = w.id)
    BY <1>1 DEF WriterStep, Here, Gone
  <1>3. \A q \in Pages : Owns(q)' = Owns(q) /\ Taking(q)' = Taking(q) /\ Gone(q)' = Gone(q)
    BY <1>2 DEF Owns, Kept, HasRow, Taking, Gone
  <1>4. \A t, u \in None : Comparable(t, u)' = Comparable(t, u)
    BY <1>1, SameTexts DEF WriterMoves, KeepsText, TypesText, Comparable
  <1>5. ASSUME NEW x \in Says(p)' PROVE x.id.page = p \/ \E y \in Says(p) : x.id = y.id
    <2>1. CASE w.id = ed[p].id /\ w.id # NoLineage
      <3>1. [id |-> w.id, text |-> ed[p].shown] \in Says(p)
        BY <2>1, EditorSays, UsesAreSaid
      <3>2. \E y \in Says(p) : y.id = w.id
        BY <3>1
      <3>3. x \in Says(p) \/ x.id = w.id
        BY <1>2, <1>3 DEF Says
      <3> QED BY <3>2, <3>3
    <2>2. CASE w.id = Minted(p, ed[p].minted + 1)
      BY <1>2, <1>3, <2>2 DEF Says, Minted
    <2> QED BY <1>1, <1>2, <1>3, <2>1, <2>2 DEF Says, WriterMoves
  <1>6. \A q \in Pages \ {p} : Says(q)' \subseteq Says(q)
    BY <1>2, <1>3 DEF Says
  <1>7. OneTaker'
    BY <1>3, <1>5, <1>6 DEF TwoInv, OneTaker
  <1>8. DecidedChain'
    <2>1. ASSUME NEW r \in Pages, NEW q \in Pages, plan[r].act = "adopt", plan[r].row.owner = q
          PROVE  /\ q = r => \A x \in Owns(r) : x.id = plan[r].id => x.text = plan[r].row.text
                 /\ q # r => /\ Gone(q) /\ plan[r].id.page = q
                            /\ \A x \in Says(q)' : x.id.page = q =>
                                  Comparable(x.text, plan[r].row.text)'
      <3>1. ASSUME q # r, NEW x \in Says(q)', x.id.page = q
            PROVE  Comparable(x.text, plan[r].row.text)'
        <4>1. Gone(q) /\ x \in Says(q)
          BY <1>2, <1>6, <2>1, <3>1 DEF TwoInv, DecidedChain
        <4>2. PICK t \in Texts : t = plan[r].row.text
          BY <2>1 DEF IInv, Shapes, PlansOK, NoPlan
        <4>3. Comparable(x.text, t) /\ x.text \in None /\ t \in None
          BY <2>1, <3>1, <4>1, <4>2, SaidTexts, TextFacts DEF TwoInv, DecidedChain, IInv, Shapes
        <4>4. Comparable(x.text, t)'
          BY <1>4, <4>3
        <4> QED BY <1>2, <4>2, <4>4 DEF Comparable, Under
      <3> QED BY <2>1, <3>1 DEF TwoInv, DecidedChain
    <2> QED BY <1>2, <1>3, <2>1 DEF DecidedChain
  <1> QED BY <1>7, <1>8 DEF TwoInv

\* Two pages: one that another is there for takes nothing.
TwoPages == \A x, y, z \in Pages : x = y \/ y = z \/ x = z

LEMMA TakesTwo ==
    ASSUME IInv, TwoInv, TwoPages, NEW p \in Pages, TakesStep(p)
    PROVE  TwoInv'
  <1>1. PICK d \in DOMAIN draft :
           /\ Kept(d) /\ (Gone(draft[d].owner) \/ draft[d].owner = p)
           /\ plan'[p].act = "adopt" /\ plan'[p].id = d /\ plan'[p].row = draft[d]
    BY DEF TakesStep
  <1>2. /\ UNCHANGED <<page, typed, draft, key, ed, write, scan>> /\ ~Gone(p)
        /\ \A q \in Pages \ {p} : plan'[q] = plan[q]
    BY DEF TakesStep, Here, Gone
  <1>3. \A q \in Pages : Says(q)' = Says(q) /\ Owns(q)' = Owns(q) /\ Gone(q)' = Gone(q)
    BY <1>2 DEF Uses, KeyWords, ScanWords, WriteWords, EditorWords, Says, Owns, Kept, HasRow, Gone
  <1>4. \A t, u : Comparable(t, u)' = Comparable(t, u)
    BY <1>2, SameTexts
  <1>5. WordsOK' /\ d.page # p
    <2>1. WordsOK'
      BY TakesKeeps DEF IInv
    <2> QED BY <1>1, <2>1 DEF WordsOK, TakesForeign, Taking
  <1>6. PICK o \in Pages : o = draft[d].owner
    BY DEF IInv, Shapes, StoreOK, StoreLike, Row
  <1>7. PICK t \in Texts : t = draft[d].text
    BY <1>1, TextFacts DEF IInv, Shapes, StoreOK, StoreLike, Kept, None, Texts
  <1>8. [id |-> d, text |-> t] \in Owns(o) /\ [id |-> d, text |-> t] \in Says(o)
    BY <1>1, <1>6, <1>7, OwnsIs, UsesAreSaid
  <1>9. OneTaker'
    <2>1. ASSUME NEW r \in Pages, r # p, ~Gone(r) PROVE FALSE
      <3>1. o = p
        BY <1>1, <1>2, <1>6, <2>1 DEF TwoPages
      <3> QED BY <1>5, <1>8, <2>1, <3>1 DEF TwoInv, OneTaker
    <2> QED BY <1>2, <1>3, <2>1 DEF TwoInv, OneTaker, Taking
  <1>10. DecidedChain'
    <2>1. ASSUME NEW r \in Pages, NEW q \in Pages, plan'[r].act = "adopt", plan'[r].row.owner = q
          PROVE  /\ q = r => \A x \in Owns(r) : x.id = plan'[r].id => x.text = plan'[r].row.text
                 /\ q # r => /\ Gone(q) /\ plan'[r].id.page = q
                            /\ \A x \in Says(q) : x.id.page = q =>
                                  Comparable(x.text, plan'[r].row.text)
      <3>1. CASE r # p
        BY <1>2, <2>1, <3>1 DEF TwoInv, DecidedChain
      <3>2. CASE r = p /\ q = p
        BY <1>1, <1>7, <2>1, <3>2, OwnsIs
      <3>3. CASE r = p /\ q # p
        <4>1. q = o /\ Gone(q)
          BY <1>1, <1>6, <2>1, <3>3
        <4>2. \A x \in Says(q) : x.id.page = q
          BY <1>2, <3>3 DEF TwoInv, OneTaker
        <4>3. d.page = q
          BY <1>8, <4>1, <4>2
        <4>4. \A x \in Says(q) : x.id.page = q => Comparable(x.text, t)
          BY <1>8, <4>1, <4>3 DEF IInv, WordsOK, OneChain
        <4> QED BY <1>1, <1>7, <3>3, <4>1, <4>3, <4>4
      <3> QED BY <3>1, <3>2, <3>3
    <2> QED BY <1>3, <1>4, <2>1 DEF DecidedChain
  <1> QED BY <1>9, <1>10 DEF TwoInv

LEMMA AdoptTwo ==
    ASSUME IInv, TwoInv, NEW p \in Pages, AdoptStep(p)
    PROVE  TwoInv'
  <1>1. PICK d \in DOMAIN draft, t \in Texts :
           /\ plan[p].act = "adopt" /\ plan'[p].act = "adopted"
           /\ Owns(p)' \subseteq Owns(p) \cup {[id |-> d, text |-> t]}
    BY Zenon DEF AdoptStep
  <1>2. /\ UNCHANGED <<page, typed, key, ed, write, scan>> /\ ~Gone(p)
        /\ \A q \in Pages \ {p} : plan'[q] = plan[q] /\ Owns(q)' \subseteq Owns(q)
    BY DEF AdoptStep, Here, Gone
  <1>3. \A q \in Pages : Uses(q)' = Uses(q) /\ Gone(q)' = Gone(q) /\ Taking(q)' = Taking(q)
    BY <1>1, <1>2 DEF Uses, KeyWords, ScanWords, WriteWords, EditorWords, Gone, Taking
  <1>4. \A q \in Pages \ {p} : Says(q)' \subseteq Says(q)
    BY <1>2, <1>3 DEF Says
  <1>5. \A t_1, u : Comparable(t_1, u)' = Comparable(t_1, u)
    BY <1>2, SameTexts
  <1>6. \A r \in Pages \ {p} : Gone(r)
    BY <1>1 DEF TwoInv, OneTaker, Taking
  <1>7. OneTaker'
    BY <1>3, <1>4, <1>6 DEF TwoInv, OneTaker
  <1>8. DecidedChain'
    <2>1. ASSUME NEW r \in Pages, NEW q \in Pages, plan'[r].act = "adopt", plan'[r].row.owner = q
          PROVE  /\ q = r => \A x \in Owns(r)' : x.id = plan'[r].id => x.text = plan'[r].row.text
                 /\ q # r => /\ Gone(q) /\ plan'[r].id.page = q
                            /\ \A x \in Says(q)' : x.id.page = q =>
                                  Comparable(x.text, plan'[r].row.text)
      <3>1. r # p /\ plan'[r] = plan[r]
        BY <1>1, <1>2, <2>1
      <3>2. q # r => Gone(q) /\ q # p
        BY <1>2, <2>1, <3>1 DEF TwoInv, DecidedChain
      <3> QED BY <1>2, <1>4, <2>1, <3>1, <3>2 DEF TwoInv, DecidedChain
    <2> QED BY <1>3, <1>5, <2>1 DEF DecidedChain
  <1> QED BY <1>7, <1>8 DEF TwoInv

LEMMA RestoreTwo ==
    ASSUME IInv, TwoInv, NEW p \in Pages, RestoreStep(p)
    PROVE  TwoInv'
  <1>1. /\ UNCHANGED <<page, typed, draft, key, write, scan>> /\ ~Gone(p)
        /\ \A q \in Pages \ {p} : plan'[q] = plan[q] /\ ed'[q] = ed[q]
        /\ plan[p].act = "adopted" /\ plan'[p].act = "none"
    BY DEF RestoreStep, Here, Gone
  <1>2. /\ \A q \in Pages : Owns(q)' = Owns(q) /\ Gone(q)' = Gone(q)
        /\ \A q \in Pages \ {p} : Says(q)' = Says(q) /\ Taking(q)' = Taking(q)
    BY <1>1 DEF Uses, KeyWords, ScanWords, WriteWords, EditorWords, Says, Owns, Kept, HasRow,
                Gone, Taking
  <1>3. \A t, u : Comparable(t, u)' = Comparable(t, u)
    BY <1>1, SameTexts
  <1>4. \A r \in Pages \ {p} : Gone(r)
    BY <1>1 DEF TwoInv, OneTaker, Taking
  <1>5. OneTaker'
    BY <1>2, <1>4 DEF TwoInv, OneTaker
  <1>6. DecidedChain'
    <2>1. ASSUME NEW r \in Pages, NEW q \in Pages, plan'[r].act = "adopt", plan'[r].row.owner = q
          PROVE  /\ plan'[r] = plan[r] /\ (q # r => q # p)
                 /\ q = r => \A x \in Owns(r) : x.id = plan[r].id => x.text = plan[r].row.text
                 /\ q # r => /\ Gone(q) /\ plan[r].id.page = q
                            /\ \A x \in Says(q) : x.id.page = q =>
                                  Comparable(x.text, plan[r].row.text)
      <3>1. plan'[r] = plan[r] /\ r # p
        BY <1>1, <2>1
      <3> QED BY <1>1, <2>1, <3>1 DEF TwoInv, DecidedChain
    <2> QED BY <1>2, <1>3, <2>1 DEF DecidedChain
  <1> QED BY <1>5, <1>6 DEF TwoInv

LEMMA ForkTwo ==
    ASSUME IInv, TwoInv, NEW p \in Pages, NEW x \in Uses(p), ForkStep(p, x)
    PROVE  TwoInv'
  <1>1. PICK f \in Lineage : f = Fork(x.id, x.text)
    BY DEF ForkStep
  <1>2. x \in Says(p) /\ x.id \in Lineage /\ x.text \in None
    BY UsesAreSaid, SaidTexts DEF IInv
  <1>3. f.page = x.id.page
    BY <1>1, <1>2, ForkLineage DEF IInv, Shapes
  <1> DEFINE new == [id |-> f, text |-> x.text]
  <1>4. /\ UNCHANGED <<page, typed, ed, plan>>
        /\ \A q \in Pages \ {p} : Says(q)' \subseteq Says(q)
        /\ \A y \in Says(p)' : y \in Says(p) \/ y = new
    BY <1>1 DEF ForkStep
  <1> HIDE DEF new
  <1>5. new.id = f /\ new.text = x.text
    BY DEF new
  <1>6. \A q \in Pages : Gone(q)' = Gone(q) /\ Taking(q)' = Taking(q)
    BY <1>4 DEF Gone, Taking
  <1>7. \A t, u : Comparable(t, u)' = Comparable(t, u)
    BY <1>4, SameTexts
  <1>8. OneTaker'
    BY <1>2, <1>3, <1>4, <1>5, <1>6 DEF TwoInv, OneTaker
  <1>9. DecidedChain'
    <2>1. ASSUME NEW r \in Pages, NEW q \in Pages, plan[r].act = "adopt", plan[r].row.owner = q
          PROVE  /\ q = r => \A y \in Owns(r)' : y.id = plan[r].id => y.text = plan[r].row.text
                 /\ q # r => /\ Gone(q) /\ plan[r].id.page = q
                            /\ \A y \in Says(q)' : y.id.page = q =>
                                  Comparable(y.text, plan[r].row.text)
      <3>1. ASSUME q = r, NEW y \in Owns(r)', y.id = plan[r].id PROVE y.text = plan[r].row.text
        <4>1. Taking(r) /\ y \in Says(r)'
          BY <2>1, <3>1 DEF Taking, Says
        <4>2. ~(r = p /\ y = new)
          <5>1. plan[r].id.page # r /\ \A z \in Uses(r) : z.id.page = r
            BY <4>1 DEF IInv, WordsOK, TakesForeign
          <5> QED BY <1>3, <1>5, <3>1, <5>1
        <4>3. y \in Owns(r)
          BY <1>4, <3>1, <4>1, <4>2, TakerOwns DEF IInv
        <4> QED BY <2>1, <3>1, <4>3 DEF TwoInv, DecidedChain
      <3>2. ASSUME q # r, NEW y \in Says(q)', y.id.page = q
            PROVE  Comparable(y.text, plan[r].row.text)
        <4>1. \A z \in Says(q) : z.id.page = q => Comparable(z.text, plan[r].row.text)
          BY <2>1, <3>2 DEF TwoInv, DecidedChain
        <4>2. CASE q = p /\ y = new
          BY <1>2, <1>3, <1>5, <3>2, <4>1, <4>2
        <4> QED BY <1>4, <3>2, <4>1, <4>2
      <3> QED BY <2>1, <3>1, <3>2 DEF TwoInv, DecidedChain
    <2> QED BY <1>4, <1>6, <1>7, <2>1 DEF DecidedChain
  <1> QED BY <1>8, <1>9 DEF TwoInv

LEMMA TwoKept ==
    ASSUME TwoPages, IInv, TwoInv, [Next]_vars
    PROVE  IInv' /\ TwoInv'
  <1>1. AdoptsDecided
    BY TwoDecides
  <1>2. Step /\ IInv'
    BY <1>1, EveryStep, WordsKept DEF IInv
  <1> QED BY <1>2, QuietTwo, WriterTwo, TakesTwo, AdoptTwo, RestoreTwo, ForkTwo DEF Step

\* Of two pages, a page never takes over a draft with another text than it
\* decided on: while it is there no other page takes over, and a generation of
\* one page's chain of texts is one text (adopt's owner and generation).
THEOREM TakesDecided == TwoPages => (Spec => []AdoptsDecided)
  <1> SUFFICES ASSUME TwoPages PROVE Spec => []AdoptsDecided
    OBVIOUS
  <1>1. Init => IInv /\ TwoInv
    BY InitShapes, InitWords, InitTwo DEF IInv
  <1>2. IInv /\ TwoInv /\ [Next]_vars => IInv' /\ TwoInv'
    BY TwoKept
  <1>3. IInv /\ TwoInv => AdoptsDecided
    BY TwoDecides
  <1> QED BY <1>1, <1>2, <1>3, PTL DEF Spec

\* Of two pages, then, no text that the store held of a lineage is ever
\* replaced by one that was not typed over it.
THEOREM ForwardOfTwo == TwoPages => (Spec => LineageForward)
  <1> SUFFICES ASSUME TwoPages PROVE Spec => LineageForward
    OBVIOUS
  <1>1. Spec => []AdoptsDecided
    BY TakesDecided
  <1> QED BY <1>1, Forward, PTL

-----------------------------------------------------------------------------
(* The invariant of what is kept *)

\* A text, or one typed over it, is on the server, or was discarded or dropped;
Ended(t) == \E u \in Over(t) : u \in served \cup discarded \cup dropped
\* or is a draft's.  What is solid stays so.
Solid(t) == Ended(t) \/ \E u \in Over(t) : \E d \in DOMAIN draft : Kept(d) /\ draft[d].text = u

\* Whatever is safe and in u, is solid: u is not needed for it.
Covered(u) == \A t \in safe : u \in Over(t) => Solid(t)

\* The texts that page q has in hand: its editor's, and those of its words.
UpTo(t) == {t} \cup Under(t)
InHand(q, u) ==
    /\ u \in Texts
    /\ \/ ~Gone(q) /\ \E s \in None : s = ed[q].shown /\ u \in UpTo(s)
       \/ \E x \in Uses(q) : u \in UpTo(x.text)

\* A text typed over another was typed over all that one was typed over.
Nested == \A t \in Texts : \A u \in Under(t) : Under(u) \subseteq Under(t)
\* The server's texts have a newest.
NoteNewest == served = {} \/ \E t \in served : \A u \in served : u <= t

\* What an acknowledgement is of, and what a page clears, the server has.
ServedOK ==
    /\ \A p \in Pages : chore[p].pc # "none" => chore[p].text \in served
    /\ \A p \in Pages : plan[p].act = "clear" => plan[p].row.text \in served

\* What an open page uses was typed on the way to what its editor shows.
UsesShown == \A q \in Pages : ~Gone(q) => \A s \in None : s = ed[q].shown =>
    \A x \in Uses(q) : x.text \in UpTo(s)

\* What an editor shows with nothing pending, what the store took, and what a
\* page took over, is solid.
StoredSolid == \A p \in Pages : \A t \in Texts :
    /\ ed[p].shown = t /\ ed[p].latest = 0 => Solid(t)
    /\ write[p].out = "ok" /\ write[p].text = t => Solid(t)
    /\ plan[p].act = "adopted" /\ plan[p].row.text = t => Solid(t)

\* What two pages have in hand is solid: one has it from the store.
SharedSolid == \A p, q \in Pages : p # q =>
    \A u \in Texts : InHand(p, u) /\ InHand(q, u) => Solid(u)

\* The lineage d is page q's, or the one it took over; and its editor is past it.
Bound(q, d) ==
    /\ ~Gone(q) => ed[q].shown # 0
    /\ d.page = q => d.forks = <<>> /\ (~Gone(q) => d.nth <= ed[q].minted)
    /\ d.page # q => ~Taking(q) /\ \A x \in Uses(q) : x.id.page # q => x.id = d
Past(q, d) == (~Gone(q) => ed[q].id # d) /\ Bound(q, d)

\* What a page's key has of the lineage d is not needed.
KeyCovered(q, d) == \A u \in Texts : [id |-> d, text |-> u] \in KeyWords(q) /\ key[q].body => Covered(u)

\* A marked lineage is past, and all its page says of it is under what the
\* server has.
Sent(u) == \E s \in served : s \in Over(u)
MarksOK == \A m \in marks :
    /\ m.owner \in Pages /\ m.id \in Lineage /\ Past(m.owner, m.id)
    /\ \A x \in Says(m.owner) : x.id = m.id => Sent(x.text)

\* A lineage that was acknowledged is past before it is swept and entombed, and
\* a key that still lists it then is not needed.
ChoresPast == \A p \in Pages : \A d \in Lineage : chore[p].id = d =>
    /\ chore[p].pc \in {"asked", "told"} => ed[p].id = d \/ Past(p, d)
    /\ chore[p].pc \in {"sweep", "stone"} =>
          Past(p, d) /\ (listed[p] = d => KeyCovered(p, d))

\* What a tombstone keeps out is solid, or it is in the key of a page that is
\* past the lineage, and not needed.
KeptOut(q, d, t) == \/ \A u \in UpTo(t) : InHand(q, u) => Solid(u)
                    \/ Past(q, d) /\ KeyCovered(q, d)
StonesOK == \A d \in DOMAIN draft : \A t \in None : ~Kept(d) /\ draft[d].text = t =>
    \A q \in Pages : KeptOut(q, d, t)

\* A key whose entry was applied is not needed.
AppliedOK == \A r, q \in Pages : \A e \in Entry :
    scan[r].pc = "applied" /\ scan[r].of = q /\ scan[r].entry = e /\ e.body =>
        \/ Solid(e.tail)
        \/ Past(q, e.id) /\ (key[q] = e => Covered(e.tail))

\* What is safe is solid, or a key has it.
InKey(t) == \E p \in Pages : key[p].body /\ key[p].tail \in Over(t)
SafeOK == safe \subseteq Texts /\ \A t \in safe : Solid(t) \/ InKey(t)

\* A page knows at most one lineage that its key lists.
ListedOK == listed \in [Pages -> Lineage \cup {NoLineage}]

KInv == /\ IInv /\ ListedOK /\ Nested /\ NoteNewest /\ ServedOK /\ UsesShown /\ StoredSolid /\ SharedSolid
        /\ MarksOK /\ ChoresPast /\ StonesOK /\ AppliedOK /\ SafeOK

-----------------------------------------------------------------------------
(* Texts typed over texts *)

LEMMA OverIs ==
    ASSUME TypedOK
    PROVE  \A t \in Texts : /\ t \in Over(t) /\ t \in UpTo(t) /\ t # 0
                            /\ \A u \in Texts : u \in Over(t) <=> t \in UpTo(u)
                            /\ \A u \in UpTo(t) : u \in Texts
  <1>1. \A t \in Texts : \A u \in Under(t) : u \in Texts
    BY TextFacts DEF Texts, TypedOK
  <1> QED BY <1>1 DEF Over, UpTo, Texts

LEMMA OverOver ==
    ASSUME TypedOK, Nested, NEW t \in Texts, NEW u \in Texts, NEW v \in Texts,
           u \in Over(t), v \in Over(u)
    PROVE  v \in Over(t)
  BY DEF Over, Nested

LEMMA SolidUnder ==
    ASSUME TypedOK, Nested, NEW t \in Texts, NEW u \in Texts, u \in UpTo(t)
    PROVE  (Solid(t) => Solid(u)) /\ (Ended(t) => Ended(u))
  <1>1. \A v \in Over(t) : v \in Over(u)
    BY OverOver, OverIs DEF Over
  <1> QED BY <1>1 DEF Solid, Ended

\* Every step leaves the texts there are as they are.
TextsStay == /\ None \subseteq None' /\ Texts \subseteq Texts'
             /\ \A t \in None : Under(t)' = Under(t)
             /\ \A t, u \in Texts : u \in Over(t) => u \in Over(t)'

LEMMA TextsStayStep ==
    ASSUME Shapes, Shapes', Step
    PROVE  TextsStay
  <1>1. CASE typed' = typed
    BY <1>1, SameTexts DEF TextsStay, None, Texts, Over
  <1>2. ASSUME NEW p \in Pages, WriterStep(p) PROVE TextsStay
    <2>1. PICK w : KeepsText(p, w) \/ TypesText(p, w)
      BY <1>2 DEF WriterStep, WriterMoves
    <2>2. CASE TypesText(p, w)
      <3>1. Texts \subseteq Texts' /\ Texts \subseteq None /\ \A t \in None : Under(t)' = Under(t)
        BY <2>2, TextFacts DEF TypesText, Shapes
      <3>2. ASSUME NEW t \in Texts, NEW u \in Texts, u \in Over(t) PROVE u \in Over(t)'
        BY <3>1, <3>2 DEF Over
      <3> QED BY <2>2, <3>1, <3>2 DEF TextsStay, TypesText
    <2> QED BY <1>1, <2>1, <2>2 DEF KeepsText
  <1>3. typed' = typed \/ \E p \in Pages : WriterStep(p)
    BY DEF Step, QuietStep, TakesStep, AdoptStep, RestoreStep, ForkStep
  <1> QED BY <1>1, <1>2, <1>3

LEMMA NestedKept ==
    ASSUME Shapes, Nested, [Next]_vars
    PROVE  Nested'
  <1>1. CASE typed' = typed
    BY <1>1 DEF Nested, Texts, Under
  <1>2. ASSUME NEW p \in Pages, Edit(p) PROVE Nested'
    <2>1. PICK n \in Nat : n = Len(typed) + 1
      BY TextFacts DEF Shapes
    <2>2. PICK s \in None : s = ed[p].shown
      BY DEF Shapes, EditorsOK
    <2>3. n <= MaxTexts /\ typed' = Append(typed, [gen |-> Gen(s) + 1,
                                    under |-> IF s = 0 THEN {} ELSE {s} \cup Under(s)])
      BY <1>2, <2>1, <2>2 DEF Edit
    <2>4. /\ Texts' = Texts \cup {n} /\ \A t \in None : Under(t)' = Under(t)
          /\ Under(n)' = IF s = 0 THEN {} ELSE {s} \cup Under(s)
      BY <2>1, <2>3, NewText DEF Shapes
    <2>5. Texts \subseteq None /\ (s # 0 => s \in Texts)
          /\ \A t \in None : \A u \in Under(t) : u \in Texts
      <3>1. \A t \in None : Under(t) \subseteq 1 .. (t - 1)
        BY TextFacts DEF Shapes
      <3> QED BY <3>1, TextFacts DEF Shapes, Texts, None
    <2>6. ASSUME NEW t \in Texts', NEW u \in Under(t)' PROVE Under(u)' \subseteq Under(t)'
      <3>1. CASE t \in Texts
        <4>1. u \in Under(t) /\ u \in None
          BY <2>4, <2>5, <2>6, <3>1
        <4> QED BY <2>4, <2>5, <3>1, <4>1 DEF Nested
      <3>2. CASE t = n
        <4>1. s \in Texts /\ u \in {s} \cup Under(s) /\ u \in None
          BY <2>4, <2>5, <2>6, <3>2
        <4>2. Under(u) \subseteq {s} \cup Under(s)
          BY <4>1 DEF Nested
        <4> QED BY <2>4, <3>2, <4>1, <4>2
      <3> QED BY <2>4, <2>6, <3>1, <3>2
    <2> QED BY <2>6 DEF Nested
  <1>3. typed' = typed \/ \E p \in Pages : Edit(p)
    <2>1. ASSUME NEW p \in Pages, PageNext(p) PROVE typed' = typed
      BY <2>1 DEF PageNext, Open, Hide, Close, Crash, PageStep, KeyStepOnly
    <2>2. ASSUME NEW p \in Pages, WriterNext(p) PROVE typed' = typed \/ Edit(p)
      BY <2>2 DEF WriterNext, StartWrite, CommitWrite, FailWrite, AfterWrite, KeyStepOnly
    <2>3. ASSUME NEW p \in Pages, AcknowledgementNext(p) PROVE typed' = typed
      BY <2>3, Zenon DEF AcknowledgementNext, Acknowledge, AskDelete, DeleteAcknowledged,
         AfterDelete, LeaveStone, Sweep, ReleaseStone, ChoreOnly
    <2>4. ASSUME NEW p \in Pages, MergeNext(p) PROVE typed' = typed
      BY <2>4, Zenon DEF MergeNext, StartScan, SkipKey, PickKey, ApplyEntry, RemoveKey, Unmark,
         EndScan, ScanOnly
    <2>5. ASSUME NEW p \in Pages, RecoveryNext(p) PROVE typed' = typed
      BY <2>5, Zenon DEF RecoveryNext, Decide, ClearDraft, DiscardDraft, AdoptDraft, Restore,
         PlanOnly
    <2>6. ASSUME NEW t \in Texts, Serve(t) PROVE typed' = typed
      BY <2>6 DEF Serve, local
    <2>7. CASE UNCHANGED vars
      BY <2>7 DEF vars, local
    <2> QED BY <2>1, <2>2, <2>3, <2>4, <2>5, <2>6, <2>7 DEF Next
  <1> QED BY <1>1, <1>2, <1>3

\* What the histories have, they keep.
LEMMA HistoriesGrow ==
    ASSUME [Next]_vars
    PROVE  served \subseteq served' /\ discarded \subseteq discarded' /\ dropped \subseteq dropped'
    <1>1. ASSUME NEW p \in Pages, PageNext(p) PROVE UNCHANGED <<served, discarded, dropped>>
      BY <1>1 DEF PageNext, Open, Hide, Close, Crash, PageStep, KeyStepOnly
    <1>2. ASSUME NEW p \in Pages, WriterNext(p) PROVE UNCHANGED <<served, discarded, dropped>>
      BY <1>2, Zenon DEF WriterNext, Edit, StartWrite, CommitWrite, FailWrite, AfterWrite, KeyStepOnly
    <1>3. ASSUME NEW p \in Pages, AcknowledgementNext(p)
          PROVE  UNCHANGED <<served, discarded>> /\ dropped \subseteq dropped'
      <2>1. UNCHANGED <<served, discarded>>
        BY <1>3, Zenon DEF AcknowledgementNext, Acknowledge, AskDelete, DeleteAcknowledged,
           AfterDelete, LeaveStone, Sweep, ReleaseStone, ChoreOnly
      <2>2. LeaveStone(p) \/ dropped' = dropped
        BY <1>3, Zenon DEF AcknowledgementNext, Acknowledge, AskDelete, DeleteAcknowledged,
           AfterDelete, Sweep, ReleaseStone, ChoreOnly
      <2>3. LeaveStone(p) => dropped \subseteq dropped'
        BY DEF LeaveStone
      <2> QED BY <2>1, <2>2, <2>3
    <1>4. ASSUME NEW p \in Pages, MergeNext(p)
          PROVE  UNCHANGED <<served, discarded>> /\ dropped \subseteq dropped'
      <2>1. UNCHANGED <<served, discarded>>
        BY <1>4, Zenon DEF MergeNext, StartScan, SkipKey, PickKey, ApplyEntry, RemoveKey, Unmark,
           EndScan, ScanOnly
      <2>2. ApplyEntry(p) \/ dropped' = dropped
        BY <1>4, Zenon DEF MergeNext, StartScan, SkipKey, PickKey, RemoveKey, Unmark, EndScan, ScanOnly
      <2>3. ApplyEntry(p) => dropped \subseteq dropped'
        BY DEF ApplyEntry
      <2> QED BY <2>1, <2>2, <2>3
    <1>5. ASSUME NEW p \in Pages, RecoveryNext(p)
          PROVE  UNCHANGED <<served, dropped>> /\ discarded \subseteq discarded'
      <2>1. UNCHANGED <<served, dropped>>
        BY <1>5, Zenon DEF RecoveryNext, Decide, ClearDraft, DiscardDraft, AdoptDraft, Restore,
         PlanOnly
      <2>2. DiscardDraft(p) \/ discarded' = discarded
        BY <1>5, Zenon DEF RecoveryNext, Decide, ClearDraft, AdoptDraft, Restore, PlanOnly
      <2>3. DiscardDraft(p) => discarded \subseteq discarded'
        BY DEF DiscardDraft
      <2> QED BY <2>1, <2>2, <2>3
    <1>6. ASSUME NEW t \in Texts, Serve(t)
          PROVE  UNCHANGED <<discarded, dropped>> /\ served \subseteq served'
      BY <1>6 DEF Serve
    <1>7. CASE UNCHANGED vars
      BY <1>7 DEF vars, local
    <1> QED BY <1>1, <1>2, <1>3, <1>4, <1>5, <1>6, <1>7 DEF Next

\* Who writes the store,
LEMMA WhoMovesStore ==
    ASSUME [Next]_vars
    PROVE  \/ UNCHANGED draft
           \/ \E p \in Pages : CommitWrite(p) \/ DeleteAcknowledged(p) \/ LeaveStone(p) \/
                               (\E m \in marks : Sweep(p, m)) \/ (\E d \in stones[p] :
                               ReleaseStone(p, d)) \/ ApplyEntry(p) \/ Unmark(p) \/
                               ClearDraft(p) \/ DiscardDraft(p) \/ AdoptDraft(p)
  <1>1. ASSUME NEW p \in Pages, PageNext(p)
        PROVE  UNCHANGED draft
    BY <1>1, Zenon DEF PageNext, Open, Hide, Close, Crash, PageStep, KeyStepOnly,
       Forgotten
  <1>2. ASSUME NEW p \in Pages, WriterNext(p)
        PROVE  UNCHANGED draft \/ CommitWrite(p)
    BY <1>2, Zenon DEF WriterNext, Edit, StartWrite, FailWrite, AfterWrite, KeyStepOnly,
       limits
  <1>3. ASSUME NEW p \in Pages, AcknowledgementNext(p)
        PROVE  UNCHANGED draft \/ DeleteAcknowledged(p) \/ LeaveStone(p) \/ (\E m \in marks
               : Sweep(p, m)) \/ (\E d \in stones[p] : ReleaseStone(p, d))
    BY <1>3, Zenon DEF AcknowledgementNext, Acknowledge, AskDelete, AfterDelete,
       ChoreOnly
  <1>4. ASSUME NEW p \in Pages, MergeNext(p)
        PROVE  UNCHANGED draft \/ ApplyEntry(p) \/ Unmark(p)
    BY <1>4, Zenon DEF MergeNext, StartScan, SkipKey, PickKey, RemoveKey, EndScan,
       ScanOnly
  <1>5. ASSUME NEW p \in Pages, RecoveryNext(p)
        PROVE  UNCHANGED draft \/ ClearDraft(p) \/ DiscardDraft(p) \/ AdoptDraft(p)
    BY <1>5, Zenon DEF RecoveryNext, Decide, Restore, PlanOnly
  <1>6. ASSUME NEW t \in Texts, Serve(t) PROVE UNCHANGED draft
    BY <1>6 DEF Serve, local, limits
  <1>7. CASE UNCHANGED vars
    BY <1>7 DEF vars, local, limits
  <1> QED BY <1>1, <1>2, <1>3, <1>4, <1>5, <1>6, <1>7, Zenon DEF Next

\* who a key,
LEMMA WhoMovesKeys ==
    ASSUME [Next]_vars
    PROVE  \/ UNCHANGED <<key, listed, safe>>
           \/ \E p \in Pages : Hide(p) \/ Close(p) \/ Edit(p) \/ CommitWrite(p) \/
                               AfterWrite(p) \/ AfterDelete(p) \/ RemoveKey(p)
  <1>1. ASSUME NEW p \in Pages, PageNext(p)
        PROVE  UNCHANGED <<key, listed, safe>> \/ Hide(p) \/ Close(p)
    BY <1>1, Zenon DEF PageNext, Open, Crash, PageStep, KeyStepOnly, Forgotten
  <1>2. ASSUME NEW p \in Pages, WriterNext(p)
        PROVE  UNCHANGED <<key, listed, safe>> \/ Edit(p) \/ CommitWrite(p) \/ AfterWrite(p)
    BY <1>2, Zenon DEF WriterNext, StartWrite, FailWrite, KeyStepOnly, limits
  <1>3. ASSUME NEW p \in Pages, AcknowledgementNext(p)
        PROVE  UNCHANGED <<key, listed, safe>> \/ AfterDelete(p)
    BY <1>3, Zenon DEF AcknowledgementNext, Acknowledge, AskDelete, DeleteAcknowledged,
       LeaveStone, Sweep, ReleaseStone, ChoreOnly
  <1>4. ASSUME NEW p \in Pages, MergeNext(p)
        PROVE  UNCHANGED <<key, listed, safe>> \/ RemoveKey(p)
    BY <1>4, Zenon DEF MergeNext, StartScan, SkipKey, PickKey, ApplyEntry, Unmark,
       EndScan, ScanOnly
  <1>5. ASSUME NEW p \in Pages, RecoveryNext(p)
        PROVE  UNCHANGED <<key, listed, safe>>
    BY <1>5, Zenon DEF RecoveryNext, Decide, ClearDraft, DiscardDraft, AdoptDraft,
       Restore, PlanOnly
  <1>6. ASSUME NEW t \in Texts, Serve(t) PROVE UNCHANGED <<key, listed, safe>>
    BY <1>6 DEF Serve, local, limits
  <1>7. CASE UNCHANGED vars
    BY <1>7 DEF vars, local, limits
  <1> QED BY <1>1, <1>2, <1>3, <1>4, <1>5, <1>6, <1>7, Zenon DEF Next

\* who an acknowledgement,
LEMMA WhoMovesChores ==
    ASSUME [Next]_vars
    PROVE  \/ UNCHANGED chore
           \/ \E p \in Pages : Close(p) \/ Crash(p) \/ (\E t \in served : Acknowledge(p,
                               t)) \/ AskDelete(p) \/ DeleteAcknowledged(p) \/
                               AfterDelete(p) \/ LeaveStone(p) \/ (\E m \in marks :
                               Sweep(p, m))
  <1>1. ASSUME NEW p \in Pages, PageNext(p)
        PROVE  UNCHANGED chore \/ Close(p) \/ Crash(p)
    BY <1>1, Zenon DEF PageNext, Open, Hide, PageStep, KeyStepOnly, Forgotten
  <1>2. ASSUME NEW p \in Pages, WriterNext(p)
        PROVE  UNCHANGED chore
    BY <1>2, Zenon DEF WriterNext, Edit, StartWrite, CommitWrite, FailWrite, AfterWrite,
       KeyStepOnly, limits
  <1>3. ASSUME NEW p \in Pages, AcknowledgementNext(p)
        PROVE  UNCHANGED chore \/ (\E t \in served : Acknowledge(p, t)) \/ AskDelete(p) \/
               DeleteAcknowledged(p) \/ AfterDelete(p) \/ LeaveStone(p) \/ (\E m \in marks :
               Sweep(p, m))
    BY <1>3, Zenon DEF AcknowledgementNext, ReleaseStone, ChoreOnly
  <1>4. ASSUME NEW p \in Pages, MergeNext(p)
        PROVE  UNCHANGED chore
    BY <1>4, Zenon DEF MergeNext, StartScan, SkipKey, PickKey, ApplyEntry, RemoveKey,
       Unmark, EndScan, ScanOnly
  <1>5. ASSUME NEW p \in Pages, RecoveryNext(p)
        PROVE  UNCHANGED chore
    BY <1>5, Zenon DEF RecoveryNext, Decide, ClearDraft, DiscardDraft, AdoptDraft,
       Restore, PlanOnly
  <1>6. ASSUME NEW t \in Texts, Serve(t) PROVE UNCHANGED chore
    BY <1>6 DEF Serve, local, limits
  <1>7. CASE UNCHANGED vars
    BY <1>7 DEF vars, local, limits
  <1> QED BY <1>1, <1>2, <1>3, <1>4, <1>5, <1>6, <1>7, Zenon DEF Next

\* who a mark,
LEMMA WhoMovesMarks ==
    ASSUME [Next]_vars
    PROVE  \/ UNCHANGED marks
           \/ \E p \in Pages : AfterDelete(p) \/ (\E m \in marks : Sweep(p, m))
  <1>1. ASSUME NEW p \in Pages, PageNext(p)
        PROVE  UNCHANGED marks
    BY <1>1, Zenon DEF PageNext, Open, Hide, Close, Crash, PageStep, KeyStepOnly,
       Forgotten
  <1>2. ASSUME NEW p \in Pages, WriterNext(p)
        PROVE  UNCHANGED marks
    BY <1>2, Zenon DEF WriterNext, Edit, StartWrite, CommitWrite, FailWrite, AfterWrite,
       KeyStepOnly, limits
  <1>3. ASSUME NEW p \in Pages, AcknowledgementNext(p)
        PROVE  UNCHANGED marks \/ AfterDelete(p) \/ (\E m \in marks : Sweep(p, m))
    BY <1>3, Zenon DEF AcknowledgementNext, Acknowledge, AskDelete, DeleteAcknowledged,
       LeaveStone, ReleaseStone, ChoreOnly
  <1>4. ASSUME NEW p \in Pages, MergeNext(p)
        PROVE  UNCHANGED marks
    BY <1>4, Zenon DEF MergeNext, StartScan, SkipKey, PickKey, ApplyEntry, RemoveKey,
       Unmark, EndScan, ScanOnly
  <1>5. ASSUME NEW p \in Pages, RecoveryNext(p)
        PROVE  UNCHANGED marks
    BY <1>5, Zenon DEF RecoveryNext, Decide, ClearDraft, DiscardDraft, AdoptDraft,
       Restore, PlanOnly
  <1>6. ASSUME NEW t \in Texts, Serve(t) PROVE UNCHANGED marks
    BY <1>6 DEF Serve, local, limits
  <1>7. CASE UNCHANGED vars
    BY <1>7 DEF vars, local, limits
  <1> QED BY <1>1, <1>2, <1>3, <1>4, <1>5, <1>6, <1>7, Zenon DEF Next

\* who a merge,
LEMMA WhoMovesScans ==
    ASSUME [Next]_vars
    PROVE  \/ UNCHANGED scan
           \/ \E p \in Pages : Close(p) \/ Crash(p) \/ StartScan(p) \/ (\E x \in
                               scan[p].todo : SkipKey(p, x)) \/ (\E x \in scan[p].todo :
                               PickKey(p, x)) \/ ApplyEntry(p) \/ RemoveKey(p) \/ Unmark(p)
                               \/ EndScan(p)
  <1>1. ASSUME NEW p \in Pages, PageNext(p)
        PROVE  UNCHANGED scan \/ Close(p) \/ Crash(p)
    BY <1>1, Zenon DEF PageNext, Open, Hide, PageStep, KeyStepOnly, Forgotten
  <1>2. ASSUME NEW p \in Pages, WriterNext(p)
        PROVE  UNCHANGED scan
    BY <1>2, Zenon DEF WriterNext, Edit, StartWrite, CommitWrite, FailWrite, AfterWrite,
       KeyStepOnly, limits
  <1>3. ASSUME NEW p \in Pages, AcknowledgementNext(p)
        PROVE  UNCHANGED scan
    BY <1>3, Zenon DEF AcknowledgementNext, Acknowledge, AskDelete, DeleteAcknowledged,
       AfterDelete, LeaveStone, Sweep, ReleaseStone, ChoreOnly
  <1>4. ASSUME NEW p \in Pages, MergeNext(p)
        PROVE  UNCHANGED scan \/ StartScan(p) \/ (\E x \in scan[p].todo : SkipKey(p, x)) \/
               (\E x \in scan[p].todo : PickKey(p, x)) \/ ApplyEntry(p) \/ RemoveKey(p) \/
               Unmark(p) \/ EndScan(p)
    BY <1>4, Zenon DEF MergeNext
  <1>5. ASSUME NEW p \in Pages, RecoveryNext(p)
        PROVE  UNCHANGED scan
    BY <1>5, Zenon DEF RecoveryNext, Decide, ClearDraft, DiscardDraft, AdoptDraft,
       Restore, PlanOnly
  <1>6. ASSUME NEW t \in Texts, Serve(t) PROVE UNCHANGED scan
    BY <1>6 DEF Serve, local, limits
  <1>7. CASE UNCHANGED vars
    BY <1>7 DEF vars, local, limits
  <1> QED BY <1>1, <1>2, <1>3, <1>4, <1>5, <1>6, <1>7, Zenon DEF Next

\* who a plan,
LEMMA WhoMovesPlans ==
    ASSUME [Next]_vars
    PROVE  \/ UNCHANGED plan
           \/ \E p \in Pages : Close(p) \/ Crash(p) \/ (\E d \in DOMAIN draft : Decide(p,
                               d)) \/ ClearDraft(p) \/ DiscardDraft(p) \/ AdoptDraft(p) \/
                               Restore(p)
  <1>1. ASSUME NEW p \in Pages, PageNext(p)
        PROVE  UNCHANGED plan \/ Close(p) \/ Crash(p)
    BY <1>1, Zenon DEF PageNext, Open, Hide, PageStep, KeyStepOnly, Forgotten
  <1>2. ASSUME NEW p \in Pages, WriterNext(p)
        PROVE  UNCHANGED plan
    BY <1>2, Zenon DEF WriterNext, Edit, StartWrite, CommitWrite, FailWrite, AfterWrite,
       KeyStepOnly, limits
  <1>3. ASSUME NEW p \in Pages, AcknowledgementNext(p)
        PROVE  UNCHANGED plan
    BY <1>3, Zenon DEF AcknowledgementNext, Acknowledge, AskDelete, DeleteAcknowledged,
       AfterDelete, LeaveStone, Sweep, ReleaseStone, ChoreOnly
  <1>4. ASSUME NEW p \in Pages, MergeNext(p)
        PROVE  UNCHANGED plan
    BY <1>4, Zenon DEF MergeNext, StartScan, SkipKey, PickKey, ApplyEntry, RemoveKey,
       Unmark, EndScan, ScanOnly
  <1>5. ASSUME NEW p \in Pages, RecoveryNext(p)
        PROVE  UNCHANGED plan \/ (\E d \in DOMAIN draft : Decide(p, d)) \/ ClearDraft(p) \/
               DiscardDraft(p) \/ AdoptDraft(p) \/ Restore(p)
    BY <1>5, Zenon DEF RecoveryNext
  <1>6. ASSUME NEW t \in Texts, Serve(t) PROVE UNCHANGED plan
    BY <1>6 DEF Serve, local, limits
  <1>7. CASE UNCHANGED vars
    BY <1>7 DEF vars, local, limits
  <1> QED BY <1>1, <1>2, <1>3, <1>4, <1>5, <1>6, <1>7, Zenon DEF Next

\* who a write,
LEMMA WhoMovesWrites ==
    ASSUME [Next]_vars
    PROVE  \/ UNCHANGED write
           \/ \E p \in Pages : Close(p) \/ Crash(p) \/ StartWrite(p) \/ CommitWrite(p) \/
                               FailWrite(p) \/ AfterWrite(p)
  <1>1. ASSUME NEW p \in Pages, PageNext(p)
        PROVE  UNCHANGED write \/ Close(p) \/ Crash(p)
    BY <1>1, Zenon DEF PageNext, Open, Hide, PageStep, KeyStepOnly, Forgotten
  <1>2. ASSUME NEW p \in Pages, WriterNext(p)
        PROVE  UNCHANGED write \/ StartWrite(p) \/ CommitWrite(p) \/ FailWrite(p) \/
               AfterWrite(p)
    BY <1>2, Zenon DEF WriterNext, Edit, KeyStepOnly, limits
  <1>3. ASSUME NEW p \in Pages, AcknowledgementNext(p)
        PROVE  UNCHANGED write
    BY <1>3, Zenon DEF AcknowledgementNext, Acknowledge, AskDelete, DeleteAcknowledged,
       AfterDelete, LeaveStone, Sweep, ReleaseStone, ChoreOnly
  <1>4. ASSUME NEW p \in Pages, MergeNext(p)
        PROVE  UNCHANGED write
    BY <1>4, Zenon DEF MergeNext, StartScan, SkipKey, PickKey, ApplyEntry, RemoveKey,
       Unmark, EndScan, ScanOnly
  <1>5. ASSUME NEW p \in Pages, RecoveryNext(p)
        PROVE  UNCHANGED write
    BY <1>5, Zenon DEF RecoveryNext, Decide, ClearDraft, DiscardDraft, AdoptDraft,
       Restore, PlanOnly
  <1>6. ASSUME NEW t \in Texts, Serve(t) PROVE UNCHANGED write
    BY <1>6 DEF Serve, local, limits
  <1>7. CASE UNCHANGED vars
    BY <1>7 DEF vars, local, limits
  <1> QED BY <1>1, <1>2, <1>3, <1>4, <1>5, <1>6, <1>7, Zenon DEF Next

\* and who an editor.
LEMMA WhoMovesEditors ==
    ASSUME [Next]_vars
    PROVE  \/ UNCHANGED ed
           \/ \E p \in Pages : Close(p) \/ Crash(p) \/ Edit(p) \/ AfterWrite(p) \/ (\E t
                               \in served : Acknowledge(p, t)) \/ AfterDelete(p) \/
                               Restore(p)
  <1>1. ASSUME NEW p \in Pages, PageNext(p)
        PROVE  UNCHANGED ed \/ Close(p) \/ Crash(p)
    BY <1>1, Zenon DEF PageNext, Open, Hide, PageStep, KeyStepOnly, Forgotten
  <1>2. ASSUME NEW p \in Pages, WriterNext(p)
        PROVE  UNCHANGED ed \/ Edit(p) \/ AfterWrite(p)
    BY <1>2, Zenon DEF WriterNext, StartWrite, CommitWrite, FailWrite, KeyStepOnly,
       limits
  <1>3. ASSUME NEW p \in Pages, AcknowledgementNext(p)
        PROVE  UNCHANGED ed \/ (\E t \in served : Acknowledge(p, t)) \/ AfterDelete(p)
    BY <1>3, Zenon DEF AcknowledgementNext, AskDelete, DeleteAcknowledged, LeaveStone,
       Sweep, ReleaseStone, ChoreOnly
  <1>4. ASSUME NEW p \in Pages, MergeNext(p)
        PROVE  UNCHANGED ed
    BY <1>4, Zenon DEF MergeNext, StartScan, SkipKey, PickKey, ApplyEntry, RemoveKey,
       Unmark, EndScan, ScanOnly
  <1>5. ASSUME NEW p \in Pages, RecoveryNext(p)
        PROVE  UNCHANGED ed \/ Restore(p)
    BY <1>5, Zenon DEF RecoveryNext, Decide, ClearDraft, DiscardDraft, AdoptDraft,
       PlanOnly
  <1>6. ASSUME NEW t \in Texts, Serve(t) PROVE UNCHANGED ed
    BY <1>6 DEF Serve, local, limits
  <1>7. CASE UNCHANGED vars
    BY <1>7 DEF vars, local, limits
  <1> QED BY <1>1, <1>2, <1>3, <1>4, <1>5, <1>6, <1>7, Zenon DEF Next

-----------------------------------------------------------------------------
(* How a record ends *)

\* A draft stays one or its text has ended; and a tombstone was one of that
\* text, or is of a text that has ended, or is left for a key that lists it.
StoreEnds == \A d \in DOMAIN draft : \A t \in Texts : Kept(d) /\ draft[d].text = t =>
    (d \in DOMAIN draft' /\ draft'[d].status # "discarded") \/ Ended(t)'
Left(d, t) == \E p \in Pages : LeaveStone(p) /\ listed[p] = d /\ chore[p].id = d /\ t = ed[p].shown
StoneOf(d, t) == \/ HasRow(d) /\ ~Kept(d) /\ draft[d].text = t
                 \/ t \in Texts /\ Ended(t)'
                 \/ Left(d, t)
StonesMove == \A d \in DOMAIN draft' : \A t \in None :
    draft'[d].status = "discarded" /\ draft'[d].text = t => StoneOf(d, t)

LEMMA KeptTexts ==
    ASSUME StoreOK, TypedOK
    PROVE  \A d : Kept(d) => d \in DOMAIN draft /\ draft[d].text \in Texts /\ d \in Lineage
  BY TextFacts DEF StoreOK, StoreLike, Kept, HasRow, None, Texts

LEMMA RetiredEnds ==
    ASSUME StoreOK, NEW d, Kept(d), NEW t \in Texts, draft[d].text = t, Ended(t)',
           draft' = Retired(d)
    PROVE  StoreEnds /\ StonesMove
  <1>1. CASE draft[d].source = NoPage
    <2>1. draft' = Without(d)
      BY <1>1 DEF Retired
    <2>2. \A e \in DOMAIN draft : e # d => e \in DOMAIN draft' /\ draft'[e] = draft[e]
      BY <2>1 DEF Without
    <2>3. \A e \in DOMAIN draft' : e \in DOMAIN draft /\ draft'[e] = draft[e]
      BY <2>1 DEF Without
    <2> QED BY <2>2, <2>3 DEF StoreEnds, StonesMove, StoneOf, Kept, HasRow
  <1>2. CASE draft[d].source # NoPage
    <2> DEFINE row == [draft[d] EXCEPT !.owner = draft[d].source, !.status = "discarded",
                                       !.source = NoPage]
    <2>1. draft' = With(d, row)
      BY <1>2 DEF Retired
    <2>2. row.text = t
      BY DEF StoreOK, StoreLike, Kept, HasRow, Row
    <2> HIDE DEF row
    <2>3. DOMAIN draft' = DOMAIN draft \cup {d} /\ draft'[d] = row
          /\ \A e \in DOMAIN draft : e # d => draft'[e] = draft[e]
      BY <2>1 DEF With
    <2> QED BY <2>2, <2>3 DEF StoreEnds, StonesMove, StoneOf, Kept, HasRow
  <1> QED BY <1>1, <1>2

LEMMA EntombedEnds ==
    ASSUME StoreOK, TypedOK, NEW d, NEW q \in Pages, NEW newest \in None,
           draft' = Entombed(d, q, newest),
           \A t \in Texts : Kept(d) /\ draft[d].text = t => Ended(t)',
           StoneOf(d, newest)
    PROVE  StoreEnds /\ StonesMove
  <1> DEFINE first == IF ~HasRow(d) THEN NoPage
                      ELSE IF draft[d].source # NoPage THEN draft[d].source
                      ELSE IF draft[d].status = "discarded" THEN draft[d].owner ELSE NoPage
             text == IF HasRow(d) /\ Gen(draft[d].text) > Gen(newest) THEN draft[d].text
                     ELSE newest
             row == [owner |-> q, text |-> text, status |-> "discarded",
                     source |-> IF first = q THEN NoPage ELSE first]
  <1>1. draft' = With(d, row)
    BY DEF Entombed
  <1>2. row.text = newest \/ (HasRow(d) /\ row.text = draft[d].text)
    OBVIOUS
  <1> HIDE DEF row
  <1>3. DOMAIN draft' = DOMAIN draft \cup {d} /\ draft'[d] = row
        /\ \A e \in DOMAIN draft : e # d => draft'[e] = draft[e]
    BY <1>1 DEF With
  <1>4. StoreEnds
    BY <1>3 DEF StoreEnds, Kept, HasRow
  <1>5. ASSUME NEW e \in DOMAIN draft', NEW t \in None, draft'[e].status = "discarded",
               draft'[e].text = t
        PROVE  StoneOf(e, t)
    <2>1. CASE e # d
      BY <1>3, <1>5, <2>1 DEF StoneOf, Kept, HasRow
    <2>2. CASE e = d
      <3>1. t = newest \/ (HasRow(d) /\ draft[d].text = t)
        BY <1>2, <1>3, <1>5, <2>2
      <3>2. CASE HasRow(d) /\ draft[d].text = t /\ Kept(d)
        BY <2>2, <3>2, KeptTexts DEF StoneOf
      <3> QED BY <2>2, <3>1, <3>2 DEF StoneOf
    <2> QED BY <2>1, <2>2
  <1> QED BY <1>4, <1>5 DEF StonesMove

LEMMA UnmarkedEnds ==
    ASSUME StoreOK, NEW d, NEW q \in Pages, draft' = Unmarked(d, q)
    PROVE  StoreEnds /\ StonesMove
  <1>0. q # NoPage
    BY ConstantsOK
  <1>1. ASSUME HasRow(d), NEW row, row.text = draft[d].text, row.status = draft[d].status,
               draft' = With(d, row)
        PROVE  StoreEnds /\ StonesMove
    <2>1. DOMAIN draft' = DOMAIN draft /\ draft'[d] = row
          /\ \A e \in DOMAIN draft : e # d => draft'[e] = draft[e]
      BY <1>1 DEF With, HasRow
    <2> QED BY <1>1, <2>1 DEF StoreEnds, StonesMove, StoneOf, Kept, HasRow
  <1>2. HasRow(d) => draft[d] \in Row
    BY DEF StoreOK, StoreLike, HasRow
  <1>3. CASE HasRow(d) /\ draft[d].source = q
    <2>1. draft' = With(d, [draft[d] EXCEPT !.source = NoPage])
      BY <1>0, <1>3 DEF Unmarked
    <2>2. [draft[d] EXCEPT !.source = NoPage].text = draft[d].text
          /\ [draft[d] EXCEPT !.source = NoPage].status = draft[d].status
      BY <1>2, <1>3 DEF Row
    <2> QED BY <1>1, <1>3, <2>1, <2>2
  <1>4. CASE HasRow(d) /\ ~Kept(d) /\ draft[d].owner = q /\ draft[d].source = NoPage
    <2>1. draft' = Without(d)
      BY <1>0, <1>4 DEF Unmarked
    <2>2. /\ \A e \in DOMAIN draft : e # d => e \in DOMAIN draft' /\ draft'[e] = draft[e]
          /\ \A e \in DOMAIN draft' : e \in DOMAIN draft /\ draft'[e] = draft[e]
      BY <2>1 DEF Without
    <2> QED BY <1>4, <2>2 DEF StoreEnds, StonesMove, StoneOf, Kept, HasRow
  <1>5. CASE HasRow(d) /\ ~Kept(d) /\ draft[d].owner = q /\ draft[d].source \notin {q, NoPage}
    <2> DEFINE row == [draft[d] EXCEPT !.owner = draft[d].source, !.source = NoPage]
    <2>1. draft' = With(d, row)
      BY <1>0, <1>5 DEF Unmarked
    <2>2. row.text = draft[d].text /\ row.status = draft[d].status
      BY <1>2, <1>5 DEF Row
    <2> HIDE DEF row
    <2> QED BY <1>1, <1>5, <2>1, <2>2
  <1>6. CASE ~(HasRow(d) /\ draft[d].source = q)
             /\ ~(HasRow(d) /\ ~Kept(d) /\ draft[d].owner = q /\ draft[d].source = NoPage)
             /\ ~(HasRow(d) /\ ~Kept(d) /\ draft[d].owner = q
                  /\ draft[d].source \notin {q, NoPage})
    BY <1>6 DEF Unmarked, StoreEnds, StonesMove, StoneOf, Kept, HasRow
  <1> QED BY <1>3, <1>4, <1>5, <1>6

\* Every record stays, with a draft in the place of d.
LEMMA WithEnds ==
    ASSUME NEW d, NEW row, row.status # "discarded", draft' = With(d, row)
    PROVE  StoreEnds /\ StonesMove
  <1>1. DOMAIN draft' = DOMAIN draft \cup {d} /\ draft'[d] = row
        /\ \A e \in DOMAIN draft : e # d => draft'[e] = draft[e]
    BY DEF With
  <1> QED BY <1>1 DEF StoreEnds, StonesMove, StoneOf, Kept, HasRow

LEMMA SameEnds ==
    ASSUME draft' = draft
    PROVE  StoreEnds /\ StonesMove
  BY DEF StoreEnds, StonesMove, StoneOf, Kept, HasRow

LEMMA AppliedEnds ==
    ASSUME StoreOK, NEW q, NEW e, draft' = Applied(q, e)
    PROVE  StoreEnds /\ StonesMove
  <1> DEFINE d == e.id
             fork == Fork(d, e.tail)
             row == FromEntry(q, e)
             new == IF e.body THEN [draft[d] EXCEPT !.text = e.tail, !.status = "active"]
                    ELSE [draft[d] EXCEPT !.status = "tail-missing"]
  <1>1. row.status # "discarded"
    BY DEF FromEntry
  <1>2. HasRow(d) => new.status # "discarded"
    BY DEF StoreOK, StoreLike, HasRow, Row
  <1>3. \/ draft' = With(d, row) \/ (HasRow(d) /\ draft' = With(d, new)) \/ draft' = With(fork, row)
        \/ draft' = draft
    BY DEF Applied, Kept
  <1> HIDE DEF row, new, fork, d
  <1> QED BY <1>1, <1>2, <1>3, WithEnds, SameEnds

\* What the server has, or was dropped or discarded, has ended.
LEMMA EndedNow ==
    ASSUME Shapes, TextsStay, NEW t \in Texts
    PROVE  /\ t \in served' \cup discarded' \cup dropped' => Ended(t)'
           /\ [Next]_vars /\ Sent(t) => Ended(t)'
  <1>1. t \in Over(t)'
    BY OverIs DEF TextsStay, Shapes
  <1>2. ASSUME [Next]_vars, Sent(t) PROVE Ended(t)'
    <2>1. PICK s \in served : s \in Over(t)
      BY <1>2 DEF Sent
    <2>2. s \in served' /\ s \in Over(t)'
      BY <1>2, <2>1, HistoriesGrow DEF TextsStay, Over
    <2> QED BY <2>2 DEF Ended
  <1> QED BY <1>1, <1>2 DEF Ended

LEMMA RecordsEnd ==
    ASSUME IInv, ServedOK, MarksOK, TextsStay, [Next]_vars
    PROVE  StoreEnds /\ StonesMove
  <1> USE DEF IInv
  <1>0. StoreOK /\ TypedOK /\ served \subseteq Texts
    BY DEF Shapes, LimitsOK
  <1>1. ASSUME NEW p \in Pages, CommitWrite(p) PROVE StoreEnds /\ StonesMove
    <2>1. CASE WriteOutcome(p) = "ok"
      <3> DEFINE d == write[p].id
                 source == IF HasRow(d) THEN draft[d].source ELSE NoPage
                 row == [owner |-> p, text |-> write[p].text, status |-> "active",
                         source |-> source]
      <3>1. draft' = With(d, row) /\ row.status # "discarded"
        BY <1>1, <2>1 DEF CommitWrite
      <3> HIDE DEF row, d
      <3> QED BY <3>1, WithEnds
    <2>2. CASE WriteOutcome(p) # "ok"
      BY <1>1, <2>2, SameEnds DEF CommitWrite
    <2> QED BY <2>1, <2>2
  <1>2. ASSUME NEW p \in Pages, DeleteAcknowledged(p) PROVE StoreEnds /\ StonesMove
    <2> DEFINE c == chore[p]
    <2>1. \/ Kept(c.id) /\ draft[c.id].text = c.text /\ draft' = Retired(c.id) /\ c.pc = "asked"
          \/ draft' = draft
      BY <1>2, Zenon DEF DeleteAcknowledged
    <2>2. CASE Kept(c.id) /\ draft[c.id].text = c.text /\ draft' = Retired(c.id) /\ c.pc = "asked"
      <3>1. PICK t \in Texts : t = c.text /\ t \in served
        BY <1>0, <2>2 DEF ServedOK
      <3>2. Ended(t)'
        BY <3>1, EndedNow, HistoriesGrow
      <3> QED BY <1>0, <2>2, <3>1, <3>2, RetiredEnds
    <2> QED BY <2>1, <2>2, SameEnds
  <1>3. ASSUME NEW p \in Pages, LeaveStone(p) PROVE StoreEnds /\ StonesMove
    <2> DEFINE d == chore[p].id
    <2>1. \/ /\ listed[p] = d /\ draft' = Entombed(d, p, ed[p].shown)
             /\ dropped' = IF BuriedTail(d) THEN dropped \cup {draft[d].text} ELSE dropped
          \/ draft' = draft
      BY <1>3, Zenon DEF LeaveStone
    <2>2. CASE /\ listed[p] = d /\ draft' = Entombed(d, p, ed[p].shown)
               /\ dropped' = IF BuriedTail(d) THEN dropped \cup {draft[d].text} ELSE dropped
      <3>1. ed[p].shown \in None
        BY DEF Shapes, EditorsOK
      <3>2. \A t \in Texts : Kept(d) /\ draft[d].text = t => Ended(t)'
        BY <2>2, EndedNow DEF BuriedTail
      <3>3. StoneOf(d, ed[p].shown)
        BY <1>3, <2>2 DEF StoneOf, Left
      <3> HIDE DEF d
      <3> QED BY <1>0, <2>2, <3>1, <3>2, <3>3, EntombedEnds
    <2> QED BY <2>1, <2>2, SameEnds
  <1>4. ASSUME NEW p \in Pages, NEW m \in marks, Sweep(p, m) PROVE StoreEnds /\ StonesMove
    <2>1. \/ Kept(m.id) /\ draft[m.id].owner = m.owner /\ draft' = Retired(m.id)
          \/ draft' = draft
      BY <1>4, Zenon DEF Sweep, Swept
    <2>2. CASE Kept(m.id) /\ draft[m.id].owner = m.owner /\ draft' = Retired(m.id)
      <3>1. PICK t \in Texts : t = draft[m.id].text
        BY <1>0, <2>2, KeptTexts
      <3>2. [id |-> m.id, text |-> t] \in Says(m.owner) /\ m.owner \in Pages
        BY <2>2, <3>1, OwnsIs, UsesAreSaid, KeptTexts, <1>0 DEF MarksOK
      <3>3. Sent(t)
        BY <3>2 DEF MarksOK
      <3> QED BY <1>0, <2>2, <3>1, <3>3, EndedNow, RetiredEnds
    <2> QED BY <2>1, <2>2, SameEnds
  <1>5. ASSUME NEW p \in Pages, NEW d \in stones[p], ReleaseStone(p, d)
        PROVE  StoreEnds /\ StonesMove
    BY <1>0, <1>5, UnmarkedEnds DEF ReleaseStone
  <1>6. ASSUME NEW p \in Pages, ApplyEntry(p) PROVE StoreEnds /\ StonesMove
    <2>1. draft' = Applied(scan[p].of, scan[p].entry) \/ draft' = draft
      BY <1>6, Zenon DEF ApplyEntry
    <2> QED BY <1>0, <2>1, AppliedEnds, SameEnds
  <1>7. ASSUME NEW p \in Pages, Unmark(p) PROVE StoreEnds /\ StonesMove
    <2>1. scan[p].of \in Pages
      BY <1>7 DEF Unmark, Shapes, ScansOK
    <2>2. \E d : draft' = Unmarked(d, scan[p].of)
      BY <1>7 DEF Unmark
    <2> QED BY <1>0, <2>1, <2>2, UnmarkedEnds
  <1>8. ASSUME NEW p \in Pages, ClearDraft(p) PROVE StoreEnds /\ StonesMove
    <2> DEFINE x == plan[p]
    <2>1. \/ Kept(x.id) /\ draft[x.id].text = x.row.text /\ draft' = Retired(x.id)
          \/ draft' = draft
      BY <1>8, Zenon DEF ClearDraft, AsDecided
    <2>2. CASE Kept(x.id) /\ draft[x.id].text = x.row.text /\ draft' = Retired(x.id)
      <3>1. PICK t \in Texts : t = x.row.text /\ t \in served
        BY <1>0, <1>8 DEF ServedOK, ClearDraft
      <3>2. Ended(t)'
        BY <3>1, EndedNow, HistoriesGrow
      <3> QED BY <1>0, <2>2, <3>1, <3>2, RetiredEnds
    <2> QED BY <2>1, <2>2, SameEnds
  <1>9. ASSUME NEW p \in Pages, DiscardDraft(p) PROVE StoreEnds /\ StonesMove
    <2> DEFINE x == plan[p]
    <2>1. \/ /\ Kept(x.id) /\ draft[x.id].text \in discarded'
             /\ draft' = IF x.stone = NoPage THEN Retired(x.id)
                         ELSE Entombed(x.id, x.stone, draft[x.id].text)
          \/ draft' = draft
      BY <1>9, Zenon DEF DiscardDraft, AsDecided
    <2>2. CASE /\ Kept(x.id) /\ draft[x.id].text \in discarded'
               /\ draft' = IF x.stone = NoPage THEN Retired(x.id)
                           ELSE Entombed(x.id, x.stone, draft[x.id].text)
      <3>1. x.stone = NoPage \/ x.stone \in Pages
        BY <1>9 DEF DiscardDraft, Shapes, PlansOK, Planned, NoPlan
      <3> HIDE DEF x
      <3>2. PICK t \in Texts : t = draft[x.id].text
        BY <1>0, <2>2, KeptTexts
      <3>3. Ended(t)' /\ StoneOf(x.id, t) /\ t \in None
        BY <2>2, <3>2, EndedNow, TextFacts DEF StoneOf, Shapes
      <3>4. CASE x.stone = NoPage
        BY <1>0, <2>2, <3>2, <3>3, <3>4, RetiredEnds
      <3>5. CASE x.stone # NoPage
        <4>1. draft' = Entombed(x.id, x.stone, t)
          BY <2>2, <3>2, <3>5
        <4>2. \A u \in Texts : Kept(x.id) /\ draft[x.id].text = u => Ended(u)'
          BY <3>2, <3>3
        <4> QED BY <1>0, <3>1, <3>3, <3>5, <4>1, <4>2, EntombedEnds
      <3> QED BY <3>4, <3>5
    <2> QED BY <2>1, <2>2, SameEnds
  <1>10. ASSUME NEW p \in Pages, AdoptDraft(p) PROVE StoreEnds /\ StonesMove
    <2> DEFINE d == plan[p].id
               row == [draft[d] EXCEPT !.owner = p]
    <2>1. (Kept(d) /\ draft' = With(d, row)) \/ draft' = draft
      BY <1>10, Zenon DEF AdoptDraft, AsDecided
    <2>2. Kept(d) => row.status # "discarded"
      BY <1>0 DEF StoreOK, StoreLike, Kept, HasRow, Row
    <2> HIDE DEF row, d
    <2> QED BY <2>1, <2>2, WithEnds, SameEnds
  <1> QED BY <1>1, <1>2, <1>3, <1>4, <1>5, <1>6, <1>7, <1>8, <1>9, <1>10, SameEnds, WhoMovesStore

\* What is solid stays so.
LEMMA SolidKept ==
    ASSUME IInv, Nested', TextsStay, StoreEnds, [Next]_vars
    PROVE  \A t \in Texts : (Ended(t) => Ended(t)') /\ (Solid(t) => Solid(t)')
  <1>1. ASSUME NEW t \in Texts, NEW u \in Texts, u \in Over(t), NEW v \in Over(u)'
        PROVE  v \in Over(t)'
    <2>1. u \in Over(t)' /\ Over(t)' \subseteq Texts' /\ t \in Texts'
      BY <1>1 DEF TextsStay, Over
    <2>2. v = u \/ u \in Under(v)'
      BY <1>1 DEF Over
    <2>3. u = t \/ t \in Under(u)'
      BY <2>1 DEF Over
    <2>4. v \in Texts'
      BY <1>1 DEF Over
    <2>5. u \in Under(v)' => Under(u)' \subseteq Under(v)'
      BY <2>4 DEF Nested
    <2>6. v = t \/ t \in Under(v)'
      BY <2>2, <2>3, <2>5
    <2> QED BY <2>4, <2>6 DEF Over
  <1>2. ASSUME NEW t \in Texts, Ended(t) PROVE Ended(t)'
    <2>1. PICK u \in Over(t) : u \in served \cup discarded \cup dropped
      BY <1>2 DEF Ended
    <2>2. u \in Over(t)' /\ u \in served' \cup discarded' \cup dropped'
      BY <2>1, HistoriesGrow DEF TextsStay, Over
    <2> QED BY <2>2 DEF Ended
  <1>3. ASSUME NEW t \in Texts, NEW u \in Over(t), NEW d \in DOMAIN draft, Kept(d), draft[d].text = u
        PROVE  Solid(t)'
    <2>1. u \in Texts /\ ForwardStep
      BY WordsForward DEF Over
    <2>2. CASE d \in DOMAIN draft' /\ draft'[d].status # "discarded"
      <3>1. draft'[d].text \in Over(u)'
        BY <1>3, <2>1, <2>2 DEF ForwardStep
      <3>2. PICK v : v = draft'[d].text /\ v \in Over(u)'
        BY <3>1
      <3>3. v \in Over(t)'
        BY <1>1, <1>3, <2>1, <3>2
      <3> QED BY <2>2, <3>2, <3>3 DEF Solid, Kept, HasRow
    <2>3. CASE Ended(u)'
      <3>1. PICK v \in Over(u)' : v \in served' \cup discarded' \cup dropped'
        BY <2>3 DEF Ended
      <3>2. v \in Over(t)'
        BY <1>1, <1>3, <2>1, <3>1
      <3> QED BY <3>1, <3>2 DEF Solid, Ended
    <2> QED BY <1>3, <2>1, <2>2, <2>3 DEF StoreEnds
  <1> QED BY <1>2, <1>3 DEF Solid

-----------------------------------------------------------------------------
(* What a step does to one page *)

\* The page's editor rests, or it has the draft that the page took over.
Rests(q) == /\ ed'[q].id = ed[q].id /\ ed'[q].shown = ed[q].shown
            /\ ed'[q].minted = ed[q].minted
Writes(q) == \E w \in EditorRecords : ed'[q] = w /\ WriterMoves(q, w)
Restores(q) == /\ Here(q) /\ plan[q].act = "adopted" /\ ed[q].shown = 0 /\ ed'[q].minted = ed[q].minted
               /\ \E t \in Texts : plan[q].row.text = t /\ ed'[q].shown = t

LEMMA PageMoves ==
    ASSUME Shapes, Step, NEW q \in Pages
    PROVE  /\ Gone(q) => Gone(q)'
           /\ ~Gone(q)' => Rests(q) \/ Writes(q) \/ Restores(q)
           /\ \A x \in Uses(q)' : \/ x \in Uses(q)
                                  \/ /\ ~Gone(q)' /\ ed'[q].id # NoLineage
                                     /\ x = [id |-> ed'[q].id, text |-> ed'[q].shown]
           /\ Taking(q)' => Taking(q) \/ (~Gone(q) /\ ed[q].shown = 0)
           /\ \A x \in Owns(q)' : \/ x \in Says(q)
                                  \/ Taking(q) /\ x.id = plan[q].id
                                  \/ \E y \in Uses(q) : x.id = Fork(y.id, y.text)
  <1> USE DEF Gone
  <1>s. Uses(q) \subseteq Says(q) /\ Owns(q) \subseteq Says(q)
    BY UsesAreSaid
  <1>1. CASE QuietStep
    <2>1. Owns(q)' \subseteq Says(q)' /\ Says(q)' \subseteq Says(q) /\ Uses(q)' \subseteq Uses(q)
      BY <1>1 DEF QuietStep, Says
    <2> QED BY <1>1, <2>1 DEF QuietStep, Rests, Taking
  <1>2. ASSUME NEW p \in Pages, WriterStep(p)
        PROVE  /\ page' = page /\ plan' = plan /\ Owns(q)' = Owns(q)
               /\ Rests(q) \/ Writes(q)
               /\ \A x \in Uses(q)' : \/ x \in Uses(q)
                                      \/ /\ ~Gone(q)' /\ ed'[q].id # NoLineage
                                         /\ x = [id |-> ed'[q].id, text |-> ed'[q].shown]
    <2>1. page' = page /\ plan' = plan /\ draft' = draft /\ ~Gone(p)
      BY <1>2 DEF WriterStep, Here
    <2>2. CASE q = p
      BY <1>2, <2>1, <2>2 DEF WriterStep, Owns, Kept, HasRow, Writes
    <2>3. CASE q # p
      BY <1>2, <2>1, <2>3 DEF WriterStep, Owns, Kept, HasRow, Rests
    <2> QED BY <2>1, <2>2, <2>3
  <1>3. ASSUME NEW p \in Pages, TakesStep(p)
        PROVE  /\ page' = page /\ Owns(q)' = Owns(q) /\ Uses(q)' = Uses(q) /\ Rests(q)
               /\ Taking(q)' => Taking(q) \/ (~Gone(q) /\ ed[q].shown = 0)
    <2>1. UNCHANGED <<page, typed, draft, key, ed, write, scan>>
      BY <1>3 DEF TakesStep
    <2>2. Owns(q)' = Owns(q) /\ Uses(q)' = Uses(q) /\ Rests(q)
      BY <2>1, WordsRest DEF Uses, Rests
    <2> QED BY <1>3, <2>1, <2>2 DEF TakesStep, Taking, Here
  <1>4. ASSUME NEW p \in Pages, AdoptStep(p)
        PROVE  /\ page' = page /\ Uses(q)' = Uses(q) /\ Rests(q) /\ (Taking(q)' => Taking(q))
               /\ \A x \in Owns(q)' : x \in Owns(q) \/ (Taking(q) /\ x.id = plan[q].id)
    <2>1. UNCHANGED <<page, typed, key, ed, write, scan>>
      BY <1>4 DEF AdoptStep
    <2>2. Uses(q)' = Uses(q) /\ Rests(q)
      BY <2>1, WordsRest DEF Uses, Rests
    <2> QED BY <1>4, <2>1, <2>2 DEF AdoptStep, Taking
  <1>5. ASSUME NEW p \in Pages, RestoreStep(p)
        PROVE  /\ page' = page /\ Owns(q)' = Owns(q) /\ (Rests(q) \/ Restores(q))
               /\ Taking(q)' => Taking(q)
               /\ \A x \in Uses(q)' : \/ x \in Uses(q)
                                      \/ /\ ~Gone(q)' /\ ed'[q].id # NoLineage
                                         /\ x = [id |-> ed'[q].id, text |-> ed'[q].shown]
    <2>1. UNCHANGED <<page, typed, draft, key, write, scan>> /\ ~Gone(p)
      BY <1>5 DEF RestoreStep, Here
    <2>2. Owns(q)' = Owns(q) /\ \A x \in Uses(q)' : x \in Uses(q) \/ x \in EditorWords(q)'
      BY <2>1, WordsRest DEF Uses
    <2>3. CASE q = p
      <3>1. \A x \in EditorWords(q)' : /\ ed'[q].id # NoLineage
                                       /\ x = [id |-> ed'[q].id, text |-> ed'[q].shown]
        BY DEF EditorWords
      <3>2. Restores(q) /\ ~Taking(q)'
        BY <1>5, <2>3 DEF RestoreStep, Restores, Taking
      <3> QED BY <2>1, <2>2, <2>3, <3>1, <3>2
    <2>4. CASE q # p
      <3>1. ed'[q] = ed[q] /\ plan'[q] = plan[q]
        BY <1>5, <2>4 DEF RestoreStep
      <3>2. EditorWords(q)' = EditorWords(q)
        BY <3>1, WordsRest
      <3> QED BY <2>1, <2>2, <3>1, <3>2 DEF Uses, Rests, Taking
    <2> QED BY <2>3, <2>4
  <1>6. ASSUME NEW p \in Pages, NEW y \in Uses(p), ForkStep(p, y)
        PROVE  /\ page' = page /\ plan' = plan /\ Rests(q) /\ Uses(q)' \subseteq Uses(q)
               /\ \A x \in Owns(q)' : x \in Says(q) \/ \E z \in Uses(q) : x.id = Fork(z.id, z.text)
    <2>1. page' = page /\ plan' = plan /\ Rests(q) /\ Uses(q)' \subseteq Uses(q)
      BY <1>6 DEF ForkStep, Rests
    <2>2. Owns(q)' \subseteq Says(q)'
      BY DEF Says
    <2>3. CASE q = p
      <3>1. \A x \in Says(q)' : x \in Says(q) \/ x.id = Fork(y.id, y.text)
        BY <1>6, <2>3 DEF ForkStep
      <3> QED BY <1>6, <2>1, <2>2, <2>3, <3>1
    <2>4. CASE q # p
      BY <1>6, <2>1, <2>2, <2>4 DEF ForkStep
    <2> QED BY <2>3, <2>4
  <1>7. QuietStep \/ \E p \in Pages : \/ WriterStep(p) \/ TakesStep(p) \/ AdoptStep(p)
                                      \/ RestoreStep(p) \/ \E x \in Uses(p) : ForkStep(p, x)
    BY DEF Step
  <1>8. page' = page /\ plan' = plan => (Gone(q) => Gone(q)') /\ (Taking(q)' => Taking(q))
    BY DEF Taking
  <1> HIDE DEF Gone
  <1>9. CASE \E p \in Pages : WriterStep(p)
    BY <1>2, <1>8, <1>9, <1>s
  <1>10. CASE \E p \in Pages : TakesStep(p)
    <2>1. page' = page => (Gone(q) => Gone(q)')
      BY DEF Gone
    <2> QED BY <1>3, <1>10, <1>s, <2>1
  <1>11. CASE \E p \in Pages : AdoptStep(p)
    <2>1. page' = page => (Gone(q) => Gone(q)')
      BY DEF Gone
    <2> QED BY <1>4, <1>11, <1>s, <2>1
  <1>12. CASE \E p \in Pages : RestoreStep(p)
    <2>1. page' = page => (Gone(q) => Gone(q)')
      BY DEF Gone
    <2> QED BY <1>5, <1>12, <1>s, <2>1
  <1>13. CASE \E p \in Pages : \E x \in Uses(p) : ForkStep(p, x)
    BY <1>6, <1>8, <1>13, <1>s
  <1> QED BY <1>1, <1>7, <1>9, <1>10, <1>11, <1>12, <1>13

\* A page that edits a lineage is bound to it,
LEMMA EditorBound ==
    ASSUME IInv, NEW q \in Pages, NEW d \in Lineage, ed[q].id = d
    PROVE  Bound(q, d)
  <1> DEFINE x == [id |-> d, text |-> ed[q].shown]
  <1>1. d # NoLineage /\ ed[q].shown # 0
    BY NoLineageOK DEF IInv, Shapes, EditorsOK
  <1>2. x \in Uses(q) /\ x \in Says(q) /\ x.id = d
    BY <1>1, EditorSays, UsesAreSaid
  <1> HIDE DEF x
  <1>3. d \in Known
    BY <1>2 DEF Known
  <1>4. d.page = q => d.forks = <<>> /\ (~Gone(q) => d.nth <= ed[q].minted)
    BY <1>2, <1>3 DEF IInv, WordsOK, OwnPlain, MintedKnown, Lineage
  <1>5. d.page # q => ~Taking(q) /\ \A y \in Uses(q) : y.id.page # q => y.id = d
    BY <1>2 DEF IInv, WordsOK, TakesForeign, OneForeign
  <1> QED BY <1>1, <1>4, <1>5 DEF Bound

\* and stays so; and what it is past, it stays past, and says nothing new of.
LEMMA BoundKept ==
    ASSUME IInv, Shapes', Step, NEW q \in Pages, NEW d \in Lineage, Bound(q, d)
    PROVE  Bound(q, d)' /\ (Past(q, d) => Past(q, d)')
  <1>0. d # NoLineage /\ d.nth \in Nat
    BY NoLineageOK DEF Lineage
  <1>1. /\ Gone(q) => Gone(q)'
        /\ ~Gone(q)' => Rests(q) \/ Writes(q) \/ Restores(q)
        /\ \A x \in Uses(q)' : \/ x \in Uses(q)
                               \/ /\ ~Gone(q)' /\ ed'[q].id # NoLineage
                                  /\ x = [id |-> ed'[q].id, text |-> ed'[q].shown]
        /\ Taking(q)' => Taking(q) \/ (~Gone(q) /\ ed[q].shown = 0)
    BY PageMoves DEF IInv
  <1>2. ~Gone(q) => ed[q].shown # 0
    BY DEF Bound
  <1>3. ASSUME ~Gone(q)'
        PROVE  Rests(q) \/ Writes(q)
    BY <1>1, <1>2, <1>3 DEF Restores
  <1>4. ASSUME ~Gone(q)'
        PROVE  /\ ed'[q].shown # 0 /\ ed[q].minted \in Nat /\ ed'[q].minted \in Nat
               /\ ed[q].minted <= ed'[q].minted
               /\ \/ ed'[q].id \in {ed[q].id, NoLineage}
                  \/ ed'[q].id = Minted(q, ed[q].minted + 1)
    <2>1. ed[q].minted \in Nat /\ ed'[q].minted \in Nat /\ 0 \in None /\ ~Gone(q)
      BY <1>1, <1>4, TextFacts DEF IInv, Shapes, EditorsOK, None
    <2>2. CASE Rests(q)
      BY <1>2, <2>1, <2>2 DEF Rests
    <2>3. CASE Writes(q)
      <3>1. PICK w \in EditorRecords : ed'[q] = w /\ WriterMoves(q, w)
        BY <2>3 DEF Writes
      <3>2. w.shown # 0
        BY <1>2, <2>1, <3>1 DEF WriterMoves, KeepsText, TypesText
      <3> QED BY <2>1, <3>1, <3>2 DEF WriterMoves
    <2> QED BY <1>3, <1>4, <2>2, <2>3
  <1>5. d.page = q => d.forks = <<>> /\ (~Gone(q)' => d.nth <= ed'[q].minted)
    BY <1>0, <1>1, <1>4 DEF Bound
  <1>6. ASSUME d.page # q
        PROVE  ~Taking(q)' /\ \A x \in Uses(q)' : x.id.page # q => x.id = d
    <2>1. ~Taking(q) /\ \A x \in Uses(q) : x.id.page # q => x.id = d
      BY <1>6 DEF Bound
    <2>2. ~Taking(q)'
      BY <1>1, <1>2, <2>1
    <2>3. ASSUME NEW x \in Uses(q)', x.id.page # q PROVE x.id = d
      <3>1. CASE x \in Uses(q)
        BY <2>1, <2>3, <3>1
      <3>2. CASE ~Gone(q)' /\ ed'[q].id # NoLineage /\ x.id = ed'[q].id
        <4>1. CASE ed'[q].id = ed[q].id
          <5>1. [id |-> ed[q].id, text |-> ed[q].shown] \in Uses(q)
            BY <3>2, <4>1, EditorSays
          <5> QED BY <2>1, <2>3, <3>2, <4>1, <5>1
        <4>2. CASE ed'[q].id = Minted(q, ed[q].minted + 1)
          BY <2>3, <3>2, <4>2 DEF Minted
        <4> QED BY <1>4, <3>2, <4>1, <4>2
      <3> QED BY <1>1, <2>3, <3>1, <3>2
    <2> QED BY <2>2, <2>3
  <1>7. Bound(q, d)'
    BY <1>4, <1>5, <1>6 DEF Bound
  <1>8. ASSUME Past(q, d) PROVE Past(q, d)'
    <2>1. ASSUME ~Gone(q)' PROVE ed'[q].id # d
      <3>1. ~Gone(q) /\ ed[q].id # d
        BY <1>1, <1>8, <2>1 DEF Past
      <3>2. CASE ed'[q].id = Minted(q, ed[q].minted + 1)
        <4>1. ed'[q].id = d => d.page = q /\ d.nth = ed[q].minted + 1
          BY <3>2 DEF Minted
        <4>2. d.page = q => d.nth <= ed[q].minted
          BY <3>1 DEF Bound
        <4> QED BY <1>0, <1>4, <2>1, <4>1, <4>2
      <3> QED BY <1>0, <1>4, <2>1, <3>1, <3>2
    <2> QED BY <1>7, <2>1 DEF Past
  <1> QED BY <1>7, <1>8

LEMMA PastByEditor ==
    ASSUME IInv, Shapes', Step, NEW q \in Pages, NEW d \in Lineage, ed[q].id = d \/ Past(q, d)
    PROVE  ed'[q].id = d \/ Past(q, d)'
  <1>1. Bound(q, d)
    BY EditorBound DEF Past
  <1> QED BY <1>1, BoundKept DEF Past

LEMMA PastSays ==
    ASSUME IInv, Shapes', Step, NEW q \in Pages, NEW d \in Lineage, Past(q, d),
           NEW x \in Says(q)', x.id = d
    PROVE  x \in Says(q)
  <1>1. /\ \A y \in Uses(q)' : \/ y \in Uses(q)
                               \/ /\ ~Gone(q)' /\ ed'[q].id # NoLineage
                                  /\ y = [id |-> ed'[q].id, text |-> ed'[q].shown]
        /\ \A y \in Owns(q)' : \/ y \in Says(q)
                               \/ Taking(q) /\ y.id = plan[q].id
                               \/ \E z \in Uses(q) : y.id = Fork(z.id, z.text)
    BY PageMoves DEF IInv
  <1>2. Past(q, d)' /\ Bound(q, d)
    BY BoundKept DEF Past
  <1>3. CASE x \in Uses(q)'
    BY <1>1, <1>2, <1>3 DEF Past, Says
  <1>4. CASE x \in Owns(q)' /\ Taking(q) /\ x.id = plan[q].id
    BY <1>2, <1>4 DEF Bound, IInv, WordsOK, TakesForeign
  <1>5. ASSUME NEW z \in Uses(q), x.id = Fork(z.id, z.text) PROVE FALSE
    <2>1. z.id \in Lineage /\ z.text \in None
      BY <1>5, SaidTexts, UsesAreSaid DEF IInv
    <2>2. d.page = z.id.page /\ d.forks # <<>> /\ d # z.id
      BY <1>5, <2>1, ForkLineage DEF IInv, Shapes
    <2>3. CASE d.page = q
      BY <1>2, <2>2, <2>3 DEF Bound
    <2>4. CASE d.page # q
      BY <1>2, <1>5, <2>2, <2>4 DEF Bound
    <2> QED BY <2>3, <2>4
  <1> QED BY <1>1, <1>3, <1>4, <1>5 DEF Says

-----------------------------------------------------------------------------
(* One step of what is kept *)

\* What the step lemmas start from.
KStep == /\ KInv /\ AdoptsDecided /\ [Next]_vars /\ Step /\ IInv' /\ Nested' /\ TextsStay /\ StoreEnds /\ StonesMove
         /\ \A t \in Texts : (Ended(t) => Ended(t)') /\ (Solid(t) => Solid(t)')

LEMMA KSteps ==
    ASSUME KInv, AdoptsDecided, [Next]_vars
    PROVE  KStep
  <1>1. IInv /\ Nested /\ ServedOK /\ MarksOK
    BY DEF KInv
  <1>2. IInv' /\ Step
    BY <1>1, WordsKept, EveryStep DEF IInv
  <1>3. Nested' /\ TextsStay
    BY <1>1, <1>2, NestedKept, TextsStayStep DEF IInv
  <1>4. StoreEnds /\ StonesMove
    BY <1>1, <1>3, RecordsEnd
  <1> QED BY <1>1, <1>2, <1>3, <1>4, SolidKept DEF KStep

LEMMA WhoServes ==
    ASSUME [Next]_vars
    PROVE  served' = served \/ \E t \in Texts : Serve(t)
  <1>1. ASSUME NEW p \in Pages, PageNext(p)
        PROVE  served' = served
    BY <1>1, Zenon DEF PageNext, Open, Hide, Close, Crash, PageStep, KeyStepOnly
  <1>2. ASSUME NEW p \in Pages, WriterNext(p)
        PROVE  served' = served
    BY <1>2, Zenon DEF WriterNext, Edit, StartWrite, CommitWrite, FailWrite, AfterWrite, KeyStepOnly
  <1>3. ASSUME NEW p \in Pages, AcknowledgementNext(p)
        PROVE  served' = served
    BY <1>3, Zenon DEF AcknowledgementNext, Acknowledge, AskDelete, DeleteAcknowledged,
       AfterDelete, LeaveStone, Sweep, ReleaseStone, ChoreOnly
  <1>4. ASSUME NEW p \in Pages, MergeNext(p)
        PROVE  served' = served
    BY <1>4, Zenon DEF MergeNext, StartScan, SkipKey, PickKey, ApplyEntry, RemoveKey,
       Unmark, EndScan, ScanOnly
  <1>5. ASSUME NEW p \in Pages, RecoveryNext(p)
        PROVE  served' = served
    BY <1>5, Zenon DEF RecoveryNext, Decide, ClearDraft, DiscardDraft, AdoptDraft, Restore, PlanOnly
  <1>7. CASE UNCHANGED vars
    BY <1>7 DEF vars
  <1> QED BY <1>1, <1>2, <1>3, <1>4, <1>5, <1>7, Zenon DEF Next

\* The server's newest text.
LEMMA NoteIs ==
    ASSUME NoteNewest, served \subseteq Texts
    PROVE  /\ served = {} => Note = 0
           /\ served # {} => Note \in served /\ \A u \in served : u <= Note
  BY DEF NoteNewest, Note

LEMMA NoteKept ==
    ASSUME KStep
    PROVE  NoteNewest'
  <1>0. NoteNewest /\ served \subseteq Texts /\ TypedOK
    BY DEF KStep, KInv, IInv, Shapes, LimitsOK
  <1>1. CASE served' = served
    BY <1>0, <1>1 DEF NoteNewest
  <1>2. ASSUME NEW t \in Texts, Serve(t) PROVE NoteNewest'
    <2>1. served' = served \cup {t} /\ (Note = 0 \/ Note \in Under(t))
      BY <1>2 DEF Serve
    <2>2. t \in Nat /\ Under(t) \subseteq 1 .. (t - 1) /\ \A u \in Texts : u \in Nat /\ u # 0
      BY <1>0, TextFacts DEF Texts
    <2>3. \A u \in served : u <= t
      BY <1>0, <2>1, <2>2, NoteIs
    <2> QED BY <2>1, <2>2, <2>3 DEF NoteNewest
  <1> QED BY <1>1, <1>2, WhoServes DEF KStep

\* How an acknowledgement moves on.
ChoreMoves(p) ==
    \/ chore'[p] = chore[p]
    \/ chore'[p] = NoChore
    \/ chore'[p].pc = "flush" /\ chore'[p].id = NoLineage /\ chore'[p].text \in served
    \/ /\ chore[p].pc # "none" /\ chore'[p].text = chore[p].text
       /\ \/ chore'[p].pc = "asked" /\ chore'[p].id = ed[p].id
          \/ /\ chore'[p].id = chore[p].id
             /\ \/ chore[p].pc = "asked" /\ chore'[p].pc = "told"
                \/ chore[p].pc = "told" /\ chore'[p].pc \in {"sweep", "stone"} /\ AfterDelete(p)
                \/ chore[p].pc = "sweep" /\ chore'[p].pc = "stone"

LEMMA ChoresMove ==
    ASSUME Shapes, [Next]_vars, NEW q \in Pages
    PROVE  ChoreMoves(q)
  <1>1. \A p \in Pages : \A c : Chore(p, c) => chore'[p] = c /\ \A r \in Pages : r # p => chore'[r] = chore[r]
    BY DEF Chore, Shapes, ChoresOK
  <1>2. /\ chore[q] \in [pc : {"none", "flush", "asked", "told", "sweep", "stone"}, text : Nat,
                         id : Lineage \cup {NoLineage}, out : {"none", "deleted", "kept"}]
        /\ NoChore \in [pc : {"none", "flush", "asked", "told", "sweep", "stone"}, text : Nat,
                         id : Lineage \cup {NoLineage}, out : {"none", "deleted", "kept"}]
        /\ NoChore.id = NoLineage
    BY DEF Shapes, ChoresOK, NoChore
  <1>3. ASSUME NEW p \in Pages, Close(p) \/ Crash(p) PROVE ChoreMoves(q)
    BY <1>3 DEF Close, Crash, Forgotten, ChoreMoves, Shapes, ChoresOK
  <1>4. ASSUME NEW p \in Pages, NEW t \in served, Acknowledge(p, t) PROVE ChoreMoves(q)
    <2>1. Chore(p, [NoChore EXCEPT !.pc = "flush", !.text = t])
      BY <1>4 DEF Acknowledge
    <2>2. PICK v : v = [NoChore EXCEPT !.pc = "flush", !.text = t]
      OBVIOUS
    <2>3. v.pc = "flush" /\ v.id = NoLineage /\ v.text = t
      BY <2>2 DEF NoChore
    <2> QED BY <1>1, <2>1, <2>2, <2>3 DEF ChoreMoves
  <1>5. ASSUME NEW p \in Pages, AskDelete(p) PROVE ChoreMoves(q)
    <2>1. chore[p].pc = "flush" /\ Chore(p, IF ed[p].id = NoLineage THEN NoChore
                ELSE [chore[p] EXCEPT !.pc = "asked", !.id = ed[p].id])
      BY <1>5 DEF AskDelete
    <2>2. CASE q # p
      BY <1>1, <2>1, <2>2 DEF ChoreMoves
    <2>3. CASE q = p /\ ed[p].id # NoLineage
      <3>1. PICK c : c = chore[p]
        OBVIOUS
      <3>2. PICK v : v = [c EXCEPT !.pc = "asked", !.id = ed[p].id]
        OBVIOUS
      <3>3. v.pc = "asked" /\ v.id = ed[p].id /\ v.text = c.text
        BY <1>2, <2>3, <3>1, <3>2
      <3>4. chore'[p] = v
        BY <1>1, <2>1, <2>3, <3>1, <3>2
      <3> QED BY <2>1, <2>3, <3>1, <3>3, <3>4 DEF ChoreMoves
    <2>4. CASE q = p /\ ed[p].id = NoLineage
      BY <1>1, <2>1, <2>4 DEF ChoreMoves
    <2> QED BY <2>2, <2>3, <2>4
  <1>6. ASSUME NEW p \in Pages, DeleteAcknowledged(p) PROVE ChoreMoves(q)
    <2>1. PICK o : chore[p].pc = "asked" /\ Chore(p, [chore[p] EXCEPT !.pc = "told", !.out = o])
      BY <1>6, Zenon DEF DeleteAcknowledged
    <2>2. CASE q = p
      <3>1. PICK c : c = chore[p]
        OBVIOUS
      <3>2. PICK v : v = [c EXCEPT !.pc = "told", !.out = o]
        OBVIOUS
      <3>3. v.pc = "told" /\ v.id = c.id /\ v.text = c.text
        BY <1>2, <2>2, <3>1, <3>2
      <3>4. chore'[p] = v
        BY <1>1, <2>1, <3>1, <3>2
      <3> QED BY <2>1, <2>2, <3>1, <3>3, <3>4 DEF ChoreMoves
    <2>3. CASE q # p
      BY <1>1, <2>1, <2>3 DEF ChoreMoves
    <2> QED BY <2>2, <2>3
  <1>7. ASSUME NEW p \in Pages, AfterDelete(p) PROVE ChoreMoves(q)
    <2>1. PICK b \in {"sweep", "stone"} : chore[p].pc = "told"
            /\ \/ Chore(p, [chore[p] EXCEPT !.pc = b])
               \/ Chore(p, NoChore)
      <3> DEFINE c == chore[p]
                 uncommitted == c.out # "deleted" /\ ed[p].id = c.id /\ ed[p].latest = c.text /\ write[p] = NoWrite
                 superseded == uncommitted /\ ed[p].stored /\ ed[p].committed # 0
      <3>1. c.pc = "told" /\ Chore(p, IF uncommitted \/ c.out = "deleted"
                    THEN [c EXCEPT !.pc = IF superseded THEN "sweep" ELSE "stone"] ELSE NoChore)
        BY <1>7 DEF AfterDelete
      <3> HIDE DEF uncommitted, superseded
      <3> QED BY <3>1
    <2> QED BY <1>1, <1>2, <1>7, <2>1 DEF ChoreMoves
  <1>8. ASSUME NEW p \in Pages, LeaveStone(p) PROVE ChoreMoves(q)
    BY <1>1, <1>8 DEF LeaveStone, ChoreMoves
  <1>9. ASSUME NEW p \in Pages, NEW m \in marks, Sweep(p, m) PROVE ChoreMoves(q)
    <2>1. \/ chore[p].pc = "sweep" /\ Chore(p, [chore[p] EXCEPT !.pc = "stone"])
          \/ Chore(p, chore[p])
      BY <1>9 DEF Sweep
    <2> QED BY <1>1, <1>2, <2>1 DEF ChoreMoves
  <1>10. CASE UNCHANGED chore
    BY <1>10 DEF ChoreMoves
  <1> QED BY <1>3, <1>4, <1>5, <1>6, <1>7, <1>8, <1>9, <1>10, WhoMovesChores

LEMMA ServedKept ==
    ASSUME KStep
    PROVE  ServedOK'
  <1>0. /\ NoteNewest /\ served \subseteq Texts /\ TypedOK /\ ServedOK /\ [Next]_vars /\ Shapes
        /\ served \subseteq served'
    BY HistoriesGrow DEF KStep, KInv, IInv, Shapes, LimitsOK
  <1>1. ASSUME NEW p \in Pages, chore'[p].pc # "none" PROVE chore'[p].text \in served'
    <2>1. ChoreMoves(p)
      BY <1>0, ChoresMove
    <2> QED BY <1>0, <1>1, <2>1 DEF ChoreMoves, ServedOK, NoChore
  <1>2. ASSUME NEW q \in Pages, plan'[q].act = "clear" PROVE plan'[q].row.text \in served'
    <2>1. \A p \in Pages : \A x : Plan(p, x) => plan'[p] = x /\ \A r \in Pages : r # p => plan'[r] = plan[r]
      BY <1>0 DEF Plan, Shapes, PlansOK
    <2>2. CASE plan'[q] = plan[q]
      BY <1>0, <1>2, <2>2 DEF ServedOK
    <2>3. ASSUME NEW p \in Pages, Close(p) \/ Crash(p) PROVE plan'[q] = plan[q]
      BY <1>0, <1>2, <2>3 DEF Close, Crash, Forgotten, Shapes, PlansOK, NoPlan
    <2>4. ASSUME NEW p \in Pages, NEW d \in DOMAIN draft, Decide(p, d), plan'[q] # plan[q]
          PROVE  plan'[q].row.text \in served'
      <3> DEFINE P(a, s) == Plan(p, [act |-> a, id |-> d, row |-> draft[d], stone |-> s,
                                     proven |-> Gone(draft[d].owner)])
      <3>0. Kept(d) /\ \/ P("clear", NoPage) /\ draft[d].text = Note
                       \/ P("adopt", NoPage)
                       \/ \E s : P("discard", s)
        BY <2>4, Zenon DEF Decide
      <3> HIDE DEF P
      <3>1. PICK a, s : /\ P(a, s)
                        /\ a = "clear" => draft[d].text = Note
                        /\ Kept(d)
        BY <3>0
      <3> USE DEF P
      <3>2. plan'[q].row.text = draft[d].text /\ plan'[q].act = a
        BY <2>1, <2>4, <3>1
      <3>3. Note \in Texts
        BY <1>0, <1>2, <3>1, <3>2, KeptTexts DEF Shapes
      <3>4. Note # 0
        BY <3>3 DEF Texts
      <3> QED BY <1>0, <1>2, <3>1, <3>2, <3>4, NoteIs
    <2>5. ASSUME NEW p \in Pages, ClearDraft(p) \/ DiscardDraft(p) \/ AdoptDraft(p) \/ Restore(p)
          PROVE  plan'[q] = plan[q]
      <3>1. PICK x : Plan(p, x) /\ x.act # "clear"
        <4>1. ClearDraft(p) \/ DiscardDraft(p) \/ Restore(p) => Plan(p, NoPlan)
          BY DEF ClearDraft, DiscardDraft, Restore
        <4>2. AdoptDraft(p) => plan[p].act = "adopt" /\ (Plan(p, NoPlan) \/ Plan(p, [plan[p] EXCEPT !.act = "adopted"]))
          BY DEF AdoptDraft
        <4>3. NoPlan.act = "none"
          BY DEF NoPlan
        <4>4. plan[p].act = "adopt" => [plan[p] EXCEPT !.act = "adopted"].act = "adopted"
          BY <1>0, <4>3 DEF Shapes, PlansOK, Planned
        <4> QED BY <2>5, <4>1, <4>2, <4>3, <4>4
      <3> QED BY <1>2, <2>1, <3>1
    <2> QED BY <1>0, <2>2, <2>3, <2>4, <2>5, WhoMovesPlans
  <1> QED BY <1>1, <1>2 DEF ServedOK

\* What it starts from, by name.
LEMMA KParts ==
    ASSUME KStep
    PROVE  /\ IInv /\ ListedOK /\ Shapes /\ TypedOK /\ StoreOK /\ WordsOK /\ IInv' /\ Shapes' /\ TypedOK'
           /\ AdoptsDecided /\ [Next]_vars /\ Step /\ TextsStay /\ Nested /\ Nested' /\ served \subseteq Texts
           /\ NoteNewest /\ ServedOK /\ UsesShown /\ StoredSolid /\ SharedSolid /\ MarksOK
           /\ ChoresPast /\ StonesOK /\ AppliedOK /\ SafeOK /\ StoreEnds /\ StonesMove
           /\ 0 \in None /\ Texts \subseteq None /\ Texts \subseteq Texts' /\ None \subseteq None'
           /\ \A t \in Texts : (Ended(t) => Ended(t)') /\ (Solid(t) => Solid(t)')
           /\ \A q \in Pages : ed[q].shown \in None /\ ed'[q].shown \in None'
           /\ \A q \in Pages : Gone(q) => Gone(q)'
  <1>1. IInv /\ Shapes /\ TypedOK /\ IInv' /\ Shapes' /\ Step /\ TextsStay
    BY DEF KStep, KInv, IInv, Shapes
  <1>2. TypedOK'
    BY <1>1 DEF Shapes
  <1>3. 0 \in None /\ Texts \subseteq None
    BY <1>1, TextFacts DEF None
  <1>4. Texts \subseteq Texts' /\ None \subseteq None'
    BY <1>1 DEF TextsStay
  <1>5. \A q \in Pages : ed[q].shown \in None /\ ed'[q].shown \in None'
    BY <1>1 DEF Shapes, EditorsOK
  <1>6. \A q \in Pages : Gone(q) => Gone(q)'
    BY <1>1, PageMoves
  <1>7. StoreOK /\ served \subseteq Texts /\ WordsOK
    BY <1>1 DEF IInv, Shapes, LimitsOK
  <1> QED BY <1>1, <1>2, <1>3, <1>4, <1>5, <1>6, <1>7 DEF KStep, KInv

\* What the editor shows after the step is over what it showed.
LEMMA ShownGrows ==
    ASSUME KStep, NEW q \in Pages, ~Gone(q)', NEW s \in None, s = ed[q].shown, s # 0,
           NEW u \in None', u = ed'[q].shown
    PROVE  u # 0 /\ UpTo(s) \subseteq UpTo(u)' /\ (u \in None => u = s)
  <1>0. TextsStay /\ 0 \in None
    BY KParts
  <1>1. Rests(q) \/ Writes(q) \/ Restores(q)
    BY KParts, PageMoves
  <1>3. CASE u = s
    BY <1>0, <1>3 DEF TextsStay, UpTo
  <1>4. ASSUME NEW w \in EditorRecords, ed'[q] = w, TypesText(q, w)
        PROVE  u # 0 /\ UpTo(s) \subseteq UpTo(u)' /\ (u \in None => u = s)
    <2>1. u = w.shown
      BY <1>4
    <2> QED BY <1>0, <1>4, <2>1 DEF TypesText, UpTo
  <1>5. u = s \/ \E w \in EditorRecords : ed'[q] = w /\ TypesText(q, w)
    BY <1>1 DEF Rests, Writes, WriterMoves, KeepsText, Restores
  <1> QED BY <1>3, <1>4, <1>5

LEMMA UsesShownKept ==
    ASSUME KStep
    PROVE  UsesShown'
  <1>1. ASSUME NEW q \in Pages, ~Gone(q)', NEW u \in None', u = ed'[q].shown, NEW x \in Uses(q)'
        PROVE  x.text \in UpTo(u)'
    <2>1. ~Gone(q)
      BY <1>1, KParts
    <2>2. CASE x.text = u
      BY <2>2 DEF UpTo
    <2>3. CASE x \in Uses(q)
      <3>1. PICK s \in None : s = ed[q].shown
        BY <1>1, KParts
      <3>2. s # 0
        BY <2>1, <2>3, <3>1, KParts DEF WordsOK, BlankUses
      <3>3. x.text \in UpTo(s)
        BY <2>1, <2>3, <3>1, KParts DEF UsesShown
      <3> QED BY <1>1, <3>1, <3>2, <3>3, ShownGrows
    <2>4. x \in Uses(q) \/ x.text = u
      BY <1>1, KParts, PageMoves
    <2> QED BY <2>2, <2>3, <2>4
  <1> QED BY <1>1 DEF UsesShown

\* A page gets a text that there was in hand only from the store.
LEMMA HandGrows ==
    ASSUME KStep, NEW q \in Pages, NEW u \in Texts, InHand(q, u)'
    PROVE  InHand(q, u) \/ Solid(u)'
  <1>0. /\ TextsStay /\ TypedOK /\ Nested /\ StoredSolid /\ 0 \in None /\ Texts \subseteq None
        /\ \A t \in Texts : Solid(t) => Solid(t)'
        /\ \A t \in None : UpTo(t)' = UpTo(t)
    BY KParts DEF TextsStay, UpTo
  <1>1. ASSUME ~Gone(q)', NEW s \in None', s = ed'[q].shown, u \in UpTo(s)'
        PROVE  InHand(q, u) \/ Solid(u)'
    <2>1. ~Gone(q) /\ ed[q].shown \in None
      BY <1>1, KParts
    <2>2. PICK r \in None : r = ed[q].shown
      BY <2>1
    <2>3. CASE s = r
      BY <1>0, <1>1, <2>1, <2>2, <2>3 DEF InHand
    <2>4. ASSUME NEW w \in EditorRecords, ed'[q] = w, TypesText(q, w)
          PROVE  InHand(q, u)
      <3>1. s = w.shown /\ s \notin None /\ Under(s)' = IF r = 0 THEN {} ELSE {r} \cup Under(r)
        BY <1>1, <2>2, <2>4 DEF TypesText
      <3>2. u \in UpTo(r)
        BY <1>0, <1>1, <3>1 DEF UpTo
      <3> QED BY <2>1, <2>2, <3>2 DEF InHand
    <2>5. CASE Restores(q)
      <3>1. PICK t \in Texts : plan[q].row.text = t /\ s = t /\ plan[q].act = "adopted"
        BY <1>1, <2>5 DEF Restores
      <3>2. Solid(t) /\ u \in UpTo(t)
        BY <1>0, <1>1, <3>1 DEF StoredSolid
      <3>3. Solid(u)
        BY <1>0, <3>2, SolidUnder
      <3> QED BY <1>0, <3>3
    <2>6. s = r \/ (\E w \in EditorRecords : ed'[q] = w /\ TypesText(q, w)) \/ Restores(q)
      BY <1>1, <2>2, KParts, PageMoves DEF Rests, Writes, WriterMoves, KeepsText
    <2> QED BY <2>3, <2>4, <2>5, <2>6
  <1>2. ASSUME NEW x \in Uses(q)', u \in UpTo(x.text)'
        PROVE  InHand(q, u) \/ Solid(u)'
    <2>1. CASE x \in Uses(q)
      <3>1. PICK t \in None : t = x.text
        BY <2>1, SaidTexts, UsesAreSaid, KParts
      <3>2. u \in UpTo(t)'
        BY <1>2, <3>1
      <3> QED BY <1>0, <2>1, <3>1, <3>2 DEF InHand
    <2>2. CASE ~Gone(q)' /\ x.text = ed'[q].shown
      <3>1. PICK s \in None' : s = ed'[q].shown /\ s = x.text
        BY <2>2, KParts
      <3>2. u \in UpTo(s)'
        BY <1>2, <3>1
      <3> QED BY <1>1, <2>2, <3>1, <3>2
    <2> QED BY <2>1, <2>2, KParts, PageMoves
  <1> QED BY <1>1, <1>2 DEF InHand

\* Only the page that typed it has a new text in hand.
LEMMA HandNew ==
    ASSUME KStep, NEW u \in Texts', u \notin Texts
    PROVE  \E p \in Pages : \A q \in Pages \ {p} : ~InHand(q, u)'
  <1>0. /\ TextsStay /\ TypedOK /\ 0 \in None /\ Step
        /\ \A t \in None : UpTo(t)' = UpTo(t)
    BY KParts DEF TextsStay, UpTo
  <1>1. typed' # typed
    BY DEF Texts
  <1>2. PICK p \in Pages : WriterStep(p)
    BY <1>0, <1>1 DEF Step, QuietStep, TakesStep, AdoptStep, RestoreStep, ForkStep
  <1>3. ASSUME NEW q \in Pages \ {p}, InHand(q, u)' PROVE FALSE
    <2>0. ed'[q] = ed[q] /\ Uses(q)' \subseteq Uses(q) /\ ed[q].shown \in None
      BY <1>2, <1>3, KParts DEF WriterStep
    <2>1. ASSUME NEW t \in None, u \in UpTo(t)' PROVE FALSE
      <3>1. u \in UpTo(t) /\ Under(t) \subseteq Texts
        <4>1. Under(t) \subseteq 1 .. (t - 1) /\ t \in 0 .. Len(typed) /\ Len(typed) \in Nat
          BY <1>0, TextFacts DEF None
        <4> QED BY <1>0, <2>1, <4>1 DEF Texts
      <3>2. u # 0
        BY <1>0, KParts, OverIs, TextFacts DEF Texts, TypedOK
      <3> QED BY <3>1, <3>2 DEF UpTo, None, Texts
    <2>2. ASSUME NEW x \in Uses(q)', u \in UpTo(x.text)' PROVE FALSE
      <3>1. PICK t \in None : t = x.text
        BY <2>0, <2>2, SaidTexts, UsesAreSaid, KParts
      <3> QED BY <2>1, <2>2, <3>1
    <2>3. ASSUME NEW s \in None', s = ed'[q].shown, u \in UpTo(s)' PROVE FALSE
      <3>1. s \in None
        BY <2>0, <2>3
      <3> QED BY <2>1, <2>3, <3>1
    <2> QED BY <1>3, <2>2, <2>3 DEF InHand
  <1> QED BY <1>3

LEMMA SharedKept ==
    ASSUME KStep
    PROVE  SharedSolid'
  <1>1. ASSUME NEW p \in Pages, NEW q \in Pages, p # q, NEW u \in Texts', InHand(p, u)', InHand(q, u)'
        PROVE  Solid(u)'
    <2>1. u \in Texts
      BY <1>1, HandNew
    <2>2. (InHand(p, u) \/ Solid(u)') /\ (InHand(q, u) \/ Solid(u)')
      BY <1>1, <2>1, HandGrows
    <2> QED BY <1>1, <2>1, <2>2, KParts DEF SharedSolid
  <1> QED BY <1>1 DEF SharedSolid

\* An editor has nothing pending over a text that the store or the server has.
LEMMA EditorSolid ==
    ASSUME KStep, NEW q \in Pages, NEW t \in Texts', ed'[q].shown = t, ed'[q].latest = 0
    PROVE  t \in Texts /\ Solid(t)
  <1>0. /\ StoredSolid /\ ServedOK /\ Shapes /\ TypedOK /\ served \subseteq Texts
        /\ \A u \in None : u # 0 => u \in Texts
        /\ t # 0
    <2>1. StoredSolid /\ ServedOK /\ Shapes /\ TypedOK /\ served \subseteq Texts
      BY KParts
    <2>2. Len(typed) \in Nat /\ t # 0
      BY <2>1, TextFacts DEF Texts
    <2> QED BY <2>1, <2>2 DEF None, Texts
  <1>1. \A u \in Texts : u \in served => Solid(u)
    BY <1>0, OverIs DEF Solid, Ended
  <1>2. ed[q] \in EditorRecords /\ ed[q].shown \in None /\ ed[q].latest \in {0, ed[q].shown}
    BY <1>0 DEF Shapes, EditorsOK, EditorRecords
  <1>3. CASE ed[q].shown = t /\ ed[q].latest = 0
    BY <1>0, <1>2, <1>3 DEF StoredSolid
  <1>4. \A p \in Pages : \A w : SetEditor(p, w) => ed'[p] = w /\ \A r \in Pages : r # p => ed'[r] = ed[r]
    BY <1>0 DEF SetEditor, Shapes, EditorsOK
  <1>5. ASSUME NEW p \in Pages, Close(p) \/ Crash(p) PROVE ed[q].shown = t /\ ed[q].latest = 0
    BY <1>0, <1>5 DEF Close, Crash, Forgotten, Shapes, EditorsOK, NewEditor
  <1>6. ASSUME NEW p \in Pages, Edit(p) PROVE ed[q].shown = t /\ ed[q].latest = 0
    <2> DEFINE lineage == IF ed[p].id = NoLineage THEN FreshLineage(p, ed[p]) ELSE ed[p]
    <2>1. SetEditor(p, [lineage EXCEPT !.latest = Len(typed) + 1, !.shown = Len(typed) + 1,
                                       !.failed = FALSE])
      BY <1>6 DEF Edit
    <2>2. Len(typed) + 1 # 0 /\ lineage \in EditorRecords
      <3>1. ed[p] \in EditorRecords /\ Len(typed) \in Nat
        BY <1>0, TextFacts DEF Shapes, EditorsOK, EditorRecords
      <3> QED BY <3>1, FreshLineageIs
    <2>3. [lineage EXCEPT !.latest = Len(typed) + 1, !.shown = Len(typed) + 1,
                          !.failed = FALSE].latest = Len(typed) + 1
      <3> HIDE DEF lineage
      <3> QED BY <2>2 DEF EditorRecords
    <2> HIDE DEF lineage
    <2> QED BY <1>4, <2>1, <2>2, <2>3
  <1>7. ASSUME NEW p \in Pages, AfterWrite(p), q = p
        PROVE  (ed[q].shown = t /\ ed[q].latest = 0) \/ (t \in Texts /\ Solid(t))
    <2> DEFINE e == ed[p]
               x == write[p].text
               ok == [e EXCEPT !.stored = TRUE, !.committed = x, !.failed = FALSE,
                               !.latest = IF @ = x THEN 0 ELSE @]
               w == CASE ed[p].id # write[p].id -> ed[p]
                      [] ed[p].id = write[p].id /\ write[p].out = "ok" -> ok
                      [] ed[p].id = write[p].id /\ write[p].out = "failed" -> [ed[p] EXCEPT !.failed = TRUE]
                      [] OTHER -> FreshLineage(p, ed[p])
    <2>1. SetEditor(p, w) /\ write[p].out # "none"
      BY <1>7 DEF AfterWrite
    <2>2. ed'[p] = w
      BY <1>4, <2>1
    <2>3. \/ w = ok /\ write[p].out = "ok"
          \/ w \in {e, [e EXCEPT !.failed = TRUE], FreshLineage(p, e)}
      OBVIOUS
    <2>4. x \in Texts
      BY <1>0, <2>1 DEF Shapes, WritesOK
    <2>5. CASE w \in {e, [e EXCEPT !.failed = TRUE], FreshLineage(p, e)}
      <3>1. w.shown = e.shown /\ w.latest = e.latest
        <4> HIDE DEF w
        <4>1. CASE w = e
          BY <4>1
        <4>2. CASE w = [e EXCEPT !.failed = TRUE]
          BY <1>2, <1>7, <4>2 DEF EditorRecords
        <4>3. CASE w = FreshLineage(p, e)
          BY <1>2, <1>7, <4>3, FreshLineageIs
        <4> QED BY <2>5, <4>1, <4>2, <4>3
      <3> QED BY <1>7, <2>2, <3>1
    <2>6. CASE w = ok /\ write[p].out = "ok"
      <3> HIDE DEF w, x
      <3>1. w.shown = e.shown /\ w.latest = (IF e.latest = x THEN 0 ELSE e.latest)
        BY <1>2, <1>7, <2>6 DEF EditorRecords
      <3>2. e.latest = 0 \/ x = t
        BY <1>2, <1>7, <2>2, <3>1
      <3>3. x = t => Solid(t)
        BY <1>0, <2>4, <2>6 DEF StoredSolid, x
      <3> QED BY <1>7, <2>2, <2>4, <3>1, <3>2, <3>3
    <2> QED BY <2>3, <2>5, <2>6
  <1>8. ASSUME NEW p \in Pages, NEW u \in served, Acknowledge(p, u)
        PROVE  ed[q].shown = t /\ ed[q].latest = 0
    <2>1. SetEditor(p, [ed[p] EXCEPT !.told = u])
      BY <1>8 DEF Acknowledge
    <2>2. q = p => [ed[p] EXCEPT !.told = u].shown = ed[p].shown
                   /\ [ed[p] EXCEPT !.told = u].latest = ed[p].latest
      BY <1>2 DEF EditorRecords
    <2> QED BY <1>4, <2>1, <2>2
  <1>9. ASSUME NEW p \in Pages, AfterDelete(p), q = p
        PROVE  (ed[q].shown = t /\ ed[q].latest = 0) \/ (t \in Texts /\ Solid(t))
    <2> DEFINE c == chore[p]
               e == ed[p]
               mine == e.id = c.id
               uncommitted == c.out # "deleted" /\ mine /\ e.latest = c.text /\ write[p] = NoWrite
               ended == [NoLineageLeft(e) EXCEPT !.latest = 0]
               w == CASE uncommitted -> ended
                      [] c.out = "deleted" /\ mine /\ e.latest # 0 -> FreshLineage(p, e)
                      [] c.out = "deleted" /\ mine /\ e.latest = 0 -> NoLineageLeft(e)
                      [] OTHER -> e
    <2>1. SetEditor(p, w) /\ c.pc # "none"
      BY <1>9 DEF AfterDelete
    <2>2. ed'[p] = w
      BY <1>4, <2>1
    <2>3. \/ w = ended /\ e.latest = c.text
          \/ w \in {e, NoLineageLeft(e), FreshLineage(p, e)}
      OBVIOUS
    <2>4. c.text \in Texts /\ c.text \in served
      BY <1>0, <2>1 DEF ServedOK
    <2>5. w.shown = e.shown /\ (e.latest = c.text \/ w.latest = e.latest)
      <3> HIDE DEF w
      <3>0. CASE w = e
        BY <3>0
      <3>1. CASE w = ended /\ e.latest = c.text
        BY <1>2, <1>9, <3>1 DEF EditorRecords, NoLineageLeft
      <3>2. CASE w = NoLineageLeft(e)
        BY <1>2, <1>9, <3>2 DEF EditorRecords, NoLineageLeft
      <3>3. CASE w = FreshLineage(p, e)
        BY <1>2, <1>9, <3>3, FreshLineageIs
      <3> QED BY <2>3, <3>0, <3>1, <3>2, <3>3
    <2> HIDE DEF w, ended
    <2>6. CASE e.latest = c.text
      <3>1. e.latest # 0 /\ e.latest = e.shown
        <4>1. c.text # 0
          BY <1>0, <2>4, OverIs
        <4> QED BY <1>2, <1>9, <2>6, <4>1
      <3> QED BY <1>1, <1>9, <2>2, <2>4, <2>5, <2>6, <3>1
    <2> QED BY <1>9, <2>2, <2>3, <2>5, <2>6
  <1>10. ASSUME NEW p \in Pages, Restore(p), q = p
         PROVE  (ed[q].shown = t /\ ed[q].latest = 0) \/ (t \in Texts /\ Solid(t))
    <2>1. PICK u : u = plan[p].row.text
      OBVIOUS
    <2>2. /\ plan[p].act = "adopted"
          /\ \/ SetEditor(p, ed[p])
             \/ SetEditor(p, [ed[p] EXCEPT !.id = plan[p].id, !.stored = TRUE, !.committed = u,
                                           !.shown = u, !.latest = 0, !.failed = FALSE])
      BY <1>10, <2>1 DEF Restore
    <2>3. u \in Texts
      BY <1>0, <2>1, <2>2 DEF Shapes, PlansOK, NoPlan
    <2>4. [ed[p] EXCEPT !.id = plan[p].id, !.stored = TRUE, !.committed = u,
                        !.shown = u, !.latest = 0, !.failed = FALSE].shown = u
      BY <1>2, <1>10 DEF EditorRecords
    <2>5. u = t => Solid(t)
      BY <1>0, <2>1, <2>2, <2>3 DEF StoredSolid
    <2> QED BY <1>4, <1>10, <2>2, <2>3, <2>4, <2>5
  <1>11. ASSUME NEW p \in Pages, AfterWrite(p) \/ AfterDelete(p) \/ Restore(p), q # p
         PROVE  ed[q].shown = t /\ ed[q].latest = 0
    <2>1. \E w : SetEditor(p, w)
      BY <1>11, Zenon DEF AfterWrite, AfterDelete, Restore
    <2> QED BY <1>4, <1>11, <2>1
  <1>12. ed' = ed => ed[q].shown = t /\ ed[q].latest = 0
    OBVIOUS
  <1>13. [Next]_vars
    BY KParts
  <1> QED BY <1>3, <1>5, <1>6, <1>7, <1>8, <1>9, <1>10, <1>11, <1>12, <1>13, WhoMovesEditors

LEMMA StoredKept ==
    ASSUME KStep
    PROVE  StoredSolid'
  <1>0. /\ StoredSolid /\ Shapes /\ StoreOK /\ TypedOK /\ [Next]_vars /\ AdoptsDecided
        /\ \A t \in Texts : Solid(t) => Solid(t)'
    BY KParts
  <1>1. ASSUME NEW q \in Pages, NEW t \in Texts', ed'[q].shown = t, ed'[q].latest = 0
        PROVE  Solid(t)'
    BY <1>0, <1>1, EditorSolid
  <1>2. ASSUME NEW q \in Pages, NEW t \in Texts', write'[q].out = "ok", write'[q].text = t
        PROVE  Solid(t)'
    <2>1. CASE write'[q] = write[q]
      BY <1>0, <1>2, <2>1 DEF StoredSolid, Shapes, WritesOK
    <2>2. CASE write'[q] = NoWrite \/ write'[q].out \in {"sent", "failed"}
      BY <1>2, <2>2 DEF NoWrite
    <2>3. ASSUME CommitWrite(q) PROVE Solid(t)'
      <3>1. write[q].out = "sent" /\ write' = [write EXCEPT ![q].out = WriteOutcome(q)]
        BY <2>3 DEF CommitWrite
      <3>2. write'[q].out = WriteOutcome(q) /\ write'[q].text = write[q].text
        BY <1>0, <3>1 DEF Shapes, WritesOK
      <3> DEFINE d == write[q].id
                 row == [owner |-> q, text |-> write[q].text, status |-> "active",
                         source |-> IF HasRow(d) THEN draft[d].source ELSE NoPage]
      <3>3. draft' = With(d, row)
        BY <1>2, <2>3, <3>2 DEF CommitWrite
      <3>4. d \in DOMAIN draft' /\ draft'[d].text = t /\ draft'[d].status # "discarded"
        BY <1>2, <3>2, <3>3 DEF With
      <3>5. t \in Over(t)'
        BY OverIs, KParts DEF Over
      <3> QED BY <3>4, <3>5 DEF Solid, Kept, HasRow
    <2>4. ASSUME NEW p \in Pages, Close(p) \/ Crash(p) PROVE write'[q] \in {write[q], NoWrite}
      BY <1>0, <2>4 DEF Close, Crash, Forgotten, Shapes, WritesOK
    <2>5. ASSUME NEW p \in Pages, AfterWrite(p) PROVE write'[q] \in {write[q], NoWrite}
      BY <1>0, <2>5 DEF AfterWrite, Shapes, WritesOK
    <2>6. ASSUME NEW p \in Pages, StartWrite(p) \/ FailWrite(p)
          PROVE  write'[q] = write[q] \/ write'[q].out \in {"sent", "failed"}
      BY <1>0, <2>6 DEF StartWrite, FailWrite, Shapes, WritesOK
    <2>7. ASSUME NEW p \in Pages, CommitWrite(p), p # q PROVE write'[q] = write[q]
      BY <1>0, <2>7 DEF CommitWrite, Shapes, WritesOK
    <2> QED BY <1>0, <2>1, <2>2, <2>3, <2>4, <2>5, <2>6, <2>7, WhoMovesWrites
  <1>3. ASSUME NEW q \in Pages, NEW t \in Texts', plan'[q].act = "adopted", plan'[q].row.text = t
        PROVE  Solid(t)'
    <2>1. CASE plan'[q] = plan[q]
      BY <1>0, <1>3, <2>1 DEF StoredSolid, Shapes, PlansOK, NoPlan
    <2>2. NoPlan.act = "none"
      BY DEF NoPlan
    <2>3. \A p \in Pages : \A x : Plan(p, x) => plan'[p] = x /\ \A r \in Pages : r # p => plan'[r] = plan[r]
      BY <1>0 DEF Plan, Shapes, PlansOK
    <2>4. ASSUME NEW p \in Pages, Close(p) \/ Crash(p) PROVE plan'[q] = plan[q]
      BY <1>0, <1>3, <2>2, <2>4 DEF Close, Crash, Forgotten, Shapes, PlansOK
    <2>5. ASSUME NEW p \in Pages, ClearDraft(p) \/ DiscardDraft(p) \/ Restore(p) PROVE plan'[q] = plan[q]
      <3>1. Plan(p, NoPlan)
        BY <2>5, Zenon DEF ClearDraft, DiscardDraft, Restore
      <3> QED BY <1>3, <2>2, <2>3, <3>1
    <2>6. ASSUME NEW p \in Pages, NEW d \in DOMAIN draft, Decide(p, d) PROVE plan'[q] = plan[q]
      <3>1. \E a \in {"clear", "adopt", "discard"} : \E s :
               Plan(p, [act |-> a, id |-> d, row |-> draft[d], stone |-> s,
                        proven |-> Gone(draft[d].owner)])
        BY <2>6 DEF Decide
      <3> QED BY <1>3, <2>3, <3>1
    <2>7. ASSUME NEW p \in Pages, AdoptDraft(p), plan'[q] # plan[q] PROVE Solid(t)'
      <3>1. /\ plan[p].act = "adopt"
            /\ \/ Plan(p, NoPlan)
               \/ AsDecided(plan[p]) /\ Plan(p, [plan[p] EXCEPT !.act = "adopted"])
        BY <2>7, Zenon DEF AdoptDraft
      <3>2. p = q /\ AsDecided(plan[p]) /\ plan'[p] = [plan[p] EXCEPT !.act = "adopted"]
        BY <1>3, <2>2, <2>3, <2>7, <3>1
      <3>3. PICK x \in Planned : x = plan[p]
        BY <1>0, <3>1, <2>2 DEF Shapes, PlansOK
      <3>4. [x EXCEPT !.act = "adopted"].row = x.row
        BY DEF Planned
      <3>5. x.row.text = t /\ t \in Texts
        BY <1>0, <1>3, <2>2, <3>1, <3>2, <3>3, <3>4 DEF Shapes, PlansOK
      <3>6. Kept(x.id) /\ draft[x.id].text = t
        BY <1>0, <3>1, <3>2, <3>3, <3>5 DEF AdoptsDecided, AsDecided
      <3>7. Solid(t)
        BY <1>0, <3>5, <3>6, OverIs DEF Solid, Kept, HasRow
      <3> QED BY <1>0, <3>5, <3>7
    <2> QED BY <1>0, <2>1, <2>4, <2>5, <2>6, <2>7, WhoMovesPlans
  <1> QED BY <1>1, <1>2, <1>3 DEF StoredSolid

-----------------------------------------------------------------------------
(* What a step does to keys *)

\* What was typed over what, after the step.
LEMMA OverStays ==
    ASSUME KStep
    PROVE  /\ \A t, u \in Texts : u \in Over(t)' <=> u \in Over(t)
           /\ \A t \in None : UpTo(t)' = UpTo(t)
           /\ \A t \in Texts' : /\ t \in Over(t)' /\ t \in UpTo(t)'
                                /\ \A u \in UpTo(t)' : /\ u \in Texts' /\ t \in Over(u)'
                                                       /\ UpTo(u)' \subseteq UpTo(t)'
                                /\ \A u \in Over(t)' : u \in Texts' /\ t \in UpTo(u)'
  <1>0. /\ TextsStay /\ TypedOK /\ TypedOK' /\ Nested' /\ Texts \subseteq None
        /\ \A t \in None : UpTo(t)' = UpTo(t)
    BY KParts DEF TextsStay, UpTo
  <1>1. \A t, u \in Texts : u \in Over(t)' <=> u \in Over(t)
    BY <1>0 DEF Over, TextsStay
  <1>2. ASSUME NEW t \in Texts', NEW u \in UpTo(t)'
        PROVE  u \in Texts' /\ t \in Over(u)' /\ UpTo(u)' \subseteq UpTo(t)'
    <2>1. \A v \in typed'[t].under : v \in 1 .. (t - 1)
      BY <1>0, <1>2 DEF TypedOK
    <2>2. t \in 1 .. Len(typed') /\ Len(typed') \in Nat
      BY <1>0, <1>2 DEF Texts, TypedOK
    <2>3. u = t \/ u \in typed'[t].under
      BY <1>2, <2>2 DEF UpTo, Under
    <2>4. u \in Texts' /\ (u = t \/ u \in Under(t)')
      BY <2>1, <2>2, <2>3 DEF Texts, Under
    <2>5. Under(u)' \subseteq Under(t)'
      BY <1>0, <1>2, <2>4 DEF Nested
    <2> QED BY <1>2, <2>4, <2>5 DEF Over, UpTo
  <1>3. \A t \in Texts' : /\ t \in Over(t)' /\ t \in UpTo(t)'
                          /\ \A u \in Over(t)' : u \in Texts' /\ t \in UpTo(u)'
    BY DEF Over, UpTo
  <1> QED BY <1>0, <1>1, <1>2, <1>3

LEMMA SolidUnderStep ==
    ASSUME KStep, NEW t \in Texts', NEW u \in UpTo(t)'
    PROVE  (Solid(t)' => Solid(u)') /\ (Ended(t)' => Ended(u)')
  <1>1. \A v \in Over(t)' : v \in Over(u)'
    <2>1. ASSUME NEW v \in Over(t)' PROVE v \in Over(u)'
      <3>1. v \in Texts' /\ t \in UpTo(v)'
        BY <2>1, OverStays
      <3>2. u \in UpTo(v)'
        BY <3>1, OverStays
      <3> QED BY <3>1, <3>2, OverStays
    <2> QED BY <2>1
  <1> QED BY <1>1 DEF Solid, Ended

\* The keys rest, and what is safe now is solid.
KeysRest == /\ key' = key /\ listed' = listed
            /\ \A t \in safe' : t \in safe \/ (t \in Texts /\ Solid(t)')
\* The key of p, or what only it had, goes: nothing that is safe needs it.
KeyGone(p) ==
    /\ \A q \in Pages : q # p => key'[q] = key[q]
    /\ key'[p] = key[p] \/ ~key'[p].body
    /\ safe' \subseteq safe
    /\ \A u \in Texts, t \in safe' : key[p].body /\ key[p].tail = u /\ u \in Over(t) => Solid(t)'
\* An open page p puts what its editor shows into its key.
KeyPut(p) ==
    /\ ~Gone(p) /\ \A q \in Pages : q # p => key'[q] = key[q]
    /\ key'[p].body
    /\ \E t \in Texts' :
          /\ key'[p].tail = t /\ safe' = safe \cup {t}
          /\ \/ key'[p].id = ed[p].id /\ t = ed[p].shown
             \/ ~Gone(p)' /\ key'[p].id = ed'[p].id /\ t = ed'[p].shown
          /\ \A u \in Texts : key[p].tail = u => u \in UpTo(t)'
KeysMove == KeysRest \/ \E p \in Pages : KeyGone(p) \/ KeyPut(p)

\* What a key has, its open page's editor shows or was typed over.
LEMMA KeyShown ==
    ASSUME KStep, NEW p \in Pages, ~Gone(p), NEW s \in None, s = ed[p].shown,
           NEW u \in Texts, key[p].tail = u
    PROVE  s # 0 /\ s \in Texts /\ u \in UpTo(s)
  <1>1. key[p] # NoEntry /\ u # 0
    BY KParts, OverIs DEF NoEntry
  <1>2. [id |-> key[p].id, text |-> u] \in Uses(p)
    BY <1>1 DEF Uses, KeyWords
  <1>3. s # 0
    BY <1>2, KParts DEF WordsOK, BlankUses
  <1>4. u \in UpTo(s)
    BY <1>2, KParts DEF UsesShown
  <1> QED BY <1>3, <1>4, TextFacts, KParts DEF None, Texts

\* Exposed takes what only the key had out of what is safe.
LEMMA ExposedIs ==
    ASSUME KStep, NEW p \in Pages, Exposed(p)
    PROVE  /\ safe' \subseteq safe
           /\ \A u \in Texts, t \in safe' : key[p].tail = u /\ u \in Over(t) => Solid(t)'
  <1>0. /\ \A t \in Texts : Solid(t) => Solid(t)'
        /\ TypedOK /\ SafeOK
    BY KParts
  <1>1. ASSUME NEW u \in Texts, NEW t \in safe', key[p].tail = u, u \in Over(t) PROVE Solid(t)'
    <2>1. t \in safe /\ (t \in {u} \cup Under(u) => \E d \in DOMAIN draft : Kept(d) /\ draft[d].text = t)
      BY <1>1 DEF Exposed
    <2>2. t \in Texts /\ t \in {u} \cup Under(u)
      BY <1>0, <1>1, <2>1 DEF SafeOK, Over
    <2>3. Solid(t)
      BY <1>0, <2>1, <2>2, OverIs DEF Solid
    <2> QED BY <1>0, <2>2, <2>3
  <1> QED BY <1>1 DEF Exposed

\* What a page knows its key to list is what it edits, or what it was.
ListMoves == /\ ListedOK'
             /\ \A q \in Pages : \/ listed'[q] \in {listed[q], NoLineage}
                                 \/ ~Gone(q) /\ listed'[q] = ed[q].id
                                 \/ ~Gone(q)' /\ listed'[q] = ed'[q].id

LEMMA SetKeyIs ==
    ASSUME KStep, NEW p \in Pages, NEW e, SetKey(p, e),
           \/ e.id = NoLineage
           \/ ~Gone(p) /\ e.id = ed[p].id
           \/ ~Gone(p)' /\ e.id = ed'[p].id
    PROVE  ListMoves /\ key'[p] = e /\ \A q \in Pages : q # p => key'[q] = key[q]
  <1>1. ListedOK /\ key \in [Pages -> Entry \cup {NoEntry}]
        /\ \A q \in Pages : ed[q].id \in Lineage \cup {NoLineage}
                            /\ ed'[q].id \in Lineage \cup {NoLineage}
    BY KParts DEF Shapes, KeysOK, EditorsOK
  <1>2. key'[p] = e /\ (\A q \in Pages : q # p => key'[q] = key[q])
    BY <1>1 DEF SetKey
  <1>3. /\ listed' \in [Pages -> Lineage \cup {NoLineage}] /\ listed'[p] = e.id
        /\ \A q \in Pages : q # p => listed'[q] = listed[q]
    BY <1>1 DEF SetKey, ListedOK
  <1> QED BY <1>2, <1>3 DEF ListMoves, ListedOK

LEMMA ListRests ==
    ASSUME KStep, listed' = listed
    PROVE  ListMoves
  BY KParts DEF ListMoves, ListedOK

\* A page's writer w as it is before or after the step.
KeyWriter(p, w) == \/ ~Gone(p) /\ ed[p] = w
                   \/ ~Gone(p)' /\ ed'[p] = w

LEMMA KeyPutIs ==
    ASSUME KStep, NEW p \in Pages, NEW w \in EditorRecords, KeyWriter(p, w), w.latest # 0,
           KeyWritten(p, w)
    PROVE  ListMoves /\ KeyPut(p)
  <1>0. /\ w.latest = w.shown /\ w.id \in Lineage /\ ~Gone(p) /\ w.shown \in None'
    BY KParts DEF KeyWriter, Shapes, EditorsOK, EditorRecords
  <1>1. PICK t \in Texts' : t = w.shown
    BY <1>0, TextFacts, KParts DEF None, Texts, TypedOK
  <1>2. SetKey(p, EntryOf(w, TRUE)) /\ safe' = safe \cup {t}
    BY <1>0, <1>1 DEF KeyWritten, Safe
  <1>3. EntryOf(w, TRUE).id = w.id /\ EntryOf(w, TRUE).tail = t /\ EntryOf(w, TRUE).body
    BY <1>0, <1>1 DEF EntryOf
  <1>4. ListMoves /\ key'[p] = EntryOf(w, TRUE) /\ \A q \in Pages : q # p => key'[q] = key[q]
    <2> HIDE DEF EntryOf
    <2> QED BY <1>2, <1>3, SetKeyIs DEF KeyWriter
  <1>5. ASSUME NEW u \in Texts, key[p].tail = u PROVE u \in UpTo(t)'
    <2>1. PICK s \in None : s = ed[p].shown
      BY KParts
    <2>2. s # 0 /\ u \in UpTo(s)
      BY <1>0, <1>5, <2>1, KeyShown
    <2>3. CASE ed[p] = w
      BY <1>1, <2>1, <2>2, <2>3, OverStays
    <2>4. CASE ~Gone(p)' /\ ed'[p] = w
      <3>1. t \in None' /\ t = ed'[p].shown
        BY <1>1, <2>4, KParts
      <3> QED BY <2>1, <2>2, <2>4, <3>1, ShownGrows
    <2> QED BY <2>3, <2>4 DEF KeyWriter
  <1> HIDE DEF EntryOf
  <1> QED BY <1>0, <1>1, <1>2, <1>3, <1>4, <1>5 DEF KeyPut, KeyWriter

LEMMA KeyStrippedIs ==
    ASSUME KStep, NEW p \in Pages, NEW w \in EditorRecords, KeyWriter(p, w), KeyStripped(p, w)
    PROVE  ListMoves /\ KeyGone(p)
  <1>1. SetKey(p, EntryOf(w, FALSE)) /\ Exposed(p)
    BY DEF KeyStripped
  <1>2. EntryOf(w, FALSE).id = w.id /\ ~EntryOf(w, FALSE).body
    BY DEF EntryOf
  <1> HIDE DEF EntryOf
  <1>3. ListMoves /\ key'[p] = EntryOf(w, FALSE) /\ \A q \in Pages : q # p => key'[q] = key[q]
    BY <1>1, <1>2, SetKeyIs DEF KeyWriter
  <1> QED BY <1>1, <1>2, <1>3, ExposedIs DEF KeyGone

LEMMA KeyLost ==
    ASSUME KStep, NEW p \in Pages, KeyGivenUp(p) \/ KeyStuck(p)
    PROVE  ListMoves /\ KeyGone(p)
  <1>1. Exposed(p) /\ (SetKey(p, NoEntry) \/ (key' = key /\ listed' = listed))
    BY DEF KeyGivenUp, KeyStuck
  <1>2. NoEntry.id = NoLineage /\ ~NoEntry.body
    BY DEF NoEntry
  <1> QED BY <1>1, <1>2, SetKeyIs, ListRests, ExposedIs DEF KeyGone

\* A key is cleared when nothing is pending: what it had is solid.
LEMMA KeyRemovedIs ==
    ASSUME KStep, NEW p \in Pages, ~Gone(p)', ed'[p].latest = 0, KeyRemoved(p)
    PROVE  ListMoves /\ KeyGone(p)
  <1>1. SetKey(p, NoEntry) /\ safe' = safe
    BY DEF KeyRemoved
  <1>2. NoEntry.id = NoLineage /\ ~NoEntry.body
    BY DEF NoEntry
  <1>3. ASSUME NEW u \in Texts, NEW t \in safe', key[p].tail = u, u \in Over(t) PROVE Solid(t)'
    <2>1. PICK s \in None : s = ed[p].shown
      BY KParts
    <2>2. ~Gone(p)
      BY KParts
    <2>3. s # 0 /\ u \in UpTo(s) /\ s \in Texts
      BY <1>3, <2>1, <2>2, KeyShown
    <2>4. PICK v \in None' : v = ed'[p].shown
      BY KParts
    <2>5. v # 0 /\ (v \in None => v = s)
      BY <2>1, <2>3, <2>4, ShownGrows
    <2>6. v \in Texts'
      BY <2>4, <2>5, TextFacts, KParts DEF None, Texts, TypedOK
    <2>7. v = s /\ Solid(s)
      BY <2>4, <2>5, <2>6, EditorSolid, KParts
    <2>8. t \in Texts
      BY <1>1, <1>3, KParts DEF SafeOK
    <2>9. Solid(t)
      <3>1. Solid(u)
        BY <2>3, <2>7, SolidUnder, KParts
      <3>2. t \in UpTo(u)
        BY <1>3, <2>8, OverIs, KParts
      <3> QED BY <2>8, <3>1, <3>2, SolidUnder, KParts
    <2> QED BY <2>8, <2>9, KParts
  <1> QED BY <1>1, <1>2, <1>3, SetKeyIs DEF KeyGone

LEMMA KeyKeptIs ==
    ASSUME KStep, UNCHANGED <<key, listed, safe>>
    PROVE  ListMoves /\ KeysRest
  BY ListRests DEF KeysRest

LEMMA WritesKeyIs ==
    ASSUME KStep, NEW p \in Pages, NEW w \in EditorRecords, KeyWriter(p, w), w.latest # 0,
           WriteKey(p, w)
    PROVE  ListMoves /\ KeysMove
  BY KeyPutIs, KeyStrippedIs, KeyKeptIs DEF WriteKey, KeyKept, KeysMove

LEMMA RefreshesKeyIs ==
    ASSUME KStep, NEW p \in Pages, NEW w \in EditorRecords, ~Gone(p)', ed'[p] = w, RefreshKey(p, w)
    PROVE  ListMoves /\ KeysMove
  <1>1. KeyWriter(p, w)
    BY DEF KeyWriter
  <1>2. \/ UNCHANGED <<key, listed, safe>>
        \/ w.latest = 0 /\ KeyRemoved(p)
        \/ w.latest # 0 /\ KeyWritten(p, w)
        \/ KeyStripped(p, w) \/ KeyGivenUp(p) \/ KeyStuck(p)
    BY Zenon DEF RefreshKey, KeyKept
  <1> QED BY <1>1, <1>2, KeyPutIs, KeyStrippedIs, KeyLost, KeyKeptIs, KeyRemovedIs DEF KeysMove

LEMMA RemoveKeyGoes ==
    ASSUME KStep, NEW p \in Pages, RemoveKey(p)
    PROVE  ListMoves /\ KeysMove
  <1>0. listed' = listed /\ safe' = safe /\ Shapes /\ AppliedOK /\ TypedOK /\ SafeOK
        /\ \A t \in Texts : Solid(t) => Solid(t)'
    BY KParts DEF RemoveKey, ScanOnly
  <1>1. CASE key' = key
    BY <1>0, <1>1, KeyKeptIs DEF KeysMove
  <1>2. CASE key[scan[p].of] = scan[p].entry /\ key' = [key EXCEPT ![scan[p].of] = NoEntry]
    <2>1. scan[p].pc = "applied"
      BY DEF RemoveKey
    <2>2. PICK q \in Pages, e \in Entry : q = scan[p].of /\ e = scan[p].entry /\ e.tail \in Texts
      BY <1>0, <2>1 DEF Shapes, ScansOK
    <2>3. key[q] = e /\ key' = [key EXCEPT ![q] = NoEntry]
      BY <1>2, <2>2
    <2>4. key'[q] = NoEntry /\ ~NoEntry.body /\ \A r \in Pages : r # q => key'[r] = key[r]
      BY <1>0, <2>3 DEF Shapes, KeysOK, NoEntry
    <2>5. ASSUME NEW u \in Texts, NEW t \in safe', key[q].body, key[q].tail = u, u \in Over(t)
          PROVE  Solid(t)'
      <3>1. t \in safe /\ t \in Texts /\ e.body /\ e.tail = u
        BY <1>0, <2>3, <2>5 DEF SafeOK
      <3>2. Solid(u) \/ Covered(u)
        BY <1>0, <2>1, <2>2, <2>3, <3>1 DEF AppliedOK
      <3>3. Solid(u) => Solid(t)
        BY <1>0, <2>5, <3>1, OverIs, SolidUnder, KParts
      <3>4. Covered(u) => Solid(t)
        BY <2>5, <3>1 DEF Covered
      <3> QED BY <1>0, <3>1, <3>2, <3>3, <3>4
    <2> QED BY <1>0, <2>4, <2>5, ListRests DEF KeyGone, KeysMove
  <1> QED BY <1>1, <1>2 DEF RemoveKey

LEMMA CommitWriteRests ==
    ASSUME KStep, NEW p \in Pages, CommitWrite(p)
    PROVE  ListMoves /\ KeysMove
  <1>0. Shapes /\ key' = key /\ listed' = listed
    BY KParts DEF CommitWrite
  <1>1. CASE safe' = safe
    BY <1>0, <1>1, KeyKeptIs DEF KeysMove
  <1>2. CASE WriteOutcome(p) = "ok"
    <2>1. write[p].out = "sent" /\ write' = [write EXCEPT ![p].out = WriteOutcome(p)]
          /\ Safe(write[p].text)
      BY <1>2 DEF CommitWrite
    <2>2. PICK t \in Texts : t = write[p].text
      BY <1>0, <2>1 DEF Shapes, WritesOK
    <2>3. write'[p].out = "ok" /\ write'[p].text = t /\ safe' = safe \cup {t}
      BY <1>0, <1>2, <2>1, <2>2 DEF Shapes, WritesOK, Safe
    <2>4. Solid(t)'
      BY <2>3, StoredKept, KParts DEF StoredSolid
    <2> QED BY <1>0, <2>3, <2>4, ListRests DEF KeysRest, KeysMove
  <1> QED BY <1>1, <1>2 DEF CommitWrite

LEMMA KeysMoveStep ==
    ASSUME KStep
    PROVE  ListMoves /\ KeysMove
  <1>0. Shapes /\ Shapes' /\ [Next]_vars
    BY KParts
  <1>1. CASE UNCHANGED <<key, listed, safe>>
    BY <1>1, KeyKeptIs DEF KeysMove
  <1>2. ASSUME NEW p \in Pages, Hide(p) \/ Close(p) PROVE ListMoves /\ KeysMove
    <2>1. /\ ~Gone(p)
          /\ \/ UNCHANGED <<key, listed, safe>>
             \/ ed[p].latest # 0 /\ WriteKey(p, ed[p])
      BY <1>2 DEF Hide, Close, Here, Gone
    <2>2. PICK w \in EditorRecords : w = ed[p]
      BY <1>0 DEF Shapes, EditorsOK, EditorRecords
    <2>3. CASE ed[p].latest # 0 /\ WriteKey(p, ed[p])
      <3>1. w.latest # 0 /\ WriteKey(p, w) /\ KeyWriter(p, w)
        BY <2>1, <2>2, <2>3 DEF KeyWriter
      <3> QED BY <3>1, WritesKeyIs
    <2> QED BY <1>1, <2>1, <2>3
  <1>3. ASSUME NEW p \in Pages, Edit(p) \/ AfterWrite(p) \/ AfterDelete(p)
        PROVE  ListMoves /\ KeysMove
    <2>1. Here(p) /\ page' = page /\ \E w : SetEditor(p, w) /\ RefreshKey(p, w)
      BY <1>3, Zenon DEF Edit, AfterWrite, AfterDelete, KeyStepOnly
    <2>2. PICK w : SetEditor(p, w) /\ RefreshKey(p, w)
      BY <2>1
    <2>3. ed'[p] = w /\ w \in EditorRecords
      BY <1>0, <2>2 DEF SetEditor, Shapes, EditorsOK, EditorRecords
    <2>4. ~Gone(p)'
      BY <2>1 DEF Here, Gone
    <2> QED BY <2>2, <2>3, <2>4, RefreshesKeyIs
  <1> QED BY <1>0, <1>1, <1>2, <1>3, RemoveKeyGoes, CommitWriteRests, WhoMovesKeys

\* What is safe stays solid, or in a key.
LEMMA SafeKept ==
    ASSUME KStep
    PROVE  SafeOK'
  <1>0. /\ SafeOK /\ TextsStay /\ Texts \subseteq Texts' /\ (\A t \in Texts : Solid(t) => Solid(t)')
        /\ \A t, u \in Texts : u \in Over(t) => u \in Over(t)'
        /\ \A t \in Texts : Over(t) \subseteq Texts
    BY KParts DEF TextsStay, Over
  <1>1. CASE KeysRest
    <2>1. ASSUME NEW t \in safe, InKey(t) PROVE InKey(t)'
      BY <1>0, <1>1, <2>1 DEF InKey, SafeOK, KeysRest
    <2> QED BY <1>0, <1>1, <2>1 DEF SafeOK, KeysRest
  <1>2. ASSUME NEW p \in Pages, KeyGone(p) PROVE SafeOK'
    <2>1. ASSUME NEW t \in safe', NEW q \in Pages, NEW u \in Over(t), key[q].body, key[q].tail = u
          PROVE  Solid(t)' \/ InKey(t)'
      <3>1. t \in Texts /\ u \in Texts /\ u \in Over(t)'
        BY <1>0, <1>2, <2>1 DEF SafeOK, KeyGone
      <3>2. CASE key'[q] = key[q]
        BY <2>1, <3>1, <3>2 DEF InKey
      <3>3. CASE q = p
        BY <1>2, <2>1, <3>1, <3>3 DEF KeyGone
      <3> QED BY <1>2, <3>2, <3>3 DEF KeyGone
    <2>2. ASSUME NEW t \in safe' PROVE t \in Texts /\ (Solid(t)' \/ InKey(t)')
      <3>1. t \in safe /\ t \in Texts
        BY <1>0, <1>2, <2>2 DEF SafeOK, KeyGone
      <3> QED BY <1>0, <2>1, <3>1 DEF SafeOK, InKey
    <2> QED BY <1>0, <2>2 DEF SafeOK
  <1>3. ASSUME NEW p \in Pages, KeyPut(p) PROVE SafeOK'
    <2>1. PICK n \in Texts' : /\ key'[p].tail = n /\ safe' = safe \cup {n}
                              /\ \A u \in Texts : key[p].tail = u => u \in UpTo(n)'
      BY <1>3 DEF KeyPut
    <2>2. key'[p].body /\ \A q \in Pages : q # p => key'[q] = key[q]
      BY <1>3 DEF KeyPut
    <2>3. InKey(n)'
      BY <2>1, <2>2, OverStays DEF InKey
    <2>4. ASSUME NEW t \in safe, NEW q \in Pages, NEW u \in Over(t), key[q].body, key[q].tail = u
          PROVE  InKey(t)'
      <3>1. t \in Texts /\ u \in Texts /\ u \in Over(t)' /\ t \in Texts'
        BY <1>0, <2>4 DEF SafeOK
      <3>2. CASE q # p
        BY <2>2, <2>4, <3>1, <3>2 DEF InKey
      <3>3. CASE q = p
        <4>1. u \in UpTo(n)' /\ t \in UpTo(u)' /\ u \in Texts'
          BY <1>0, <2>1, <2>4, <3>1, <3>3, OverStays
        <4>2. t \in UpTo(n)'
          BY <2>1, <4>1, OverStays
        <4>3. n \in Over(t)'
          BY <2>1, <4>2, OverStays
        <4> QED BY <2>1, <2>2, <4>3 DEF InKey
      <3> QED BY <3>2, <3>3
    <2>5. ASSUME NEW t \in safe PROVE t \in Texts' /\ (Solid(t)' \/ InKey(t)')
      BY <1>0, <2>4 DEF SafeOK, InKey
    <2> QED BY <2>1, <2>3, <2>5 DEF SafeOK
  <1> QED BY <1>1, <1>2, <1>3, KeysMoveStep DEF KeysMove

\* A page puts nothing of a lineage that it is past into its key.
LEMMA PastPuts ==
    ASSUME KStep, NEW q \in Pages, NEW d \in Lineage, Past(q, d)
    PROVE  Past(q, d)' /\ ~(KeyPut(q) /\ key'[q].id = d)
  <1>1. Past(q, d)'
    BY BoundKept, KParts DEF Past
  <1> QED BY <1>1 DEF Past, KeyPut

\* What is not needed stays so, while it is in the key of a page that puts
\* nothing into it.
LEMMA CoveredKept ==
    ASSUME KStep, NEW q \in Pages, ~KeyPut(q), NEW u \in Texts, Covered(u),
           key'[q] # NoEntry, key'[q].tail = u
    PROVE  Covered(u)'
  <1>0. /\ SafeOK /\ \A t \in Texts : Solid(t) => Solid(t)'
        /\ KeysRest \/ \E p \in Pages : KeyGone(p) \/ KeyPut(p)
        /\ u \in None /\ TypedOK /\ Texts \subseteq Texts'
    BY KParts, KeysMoveStep DEF KeysMove
  <1>1. ASSUME NEW t \in safe, u \in Over(t)' PROVE Solid(t)'
    <2>1. t \in Texts /\ u \in Over(t)
      BY <1>0, <1>1, OverStays DEF SafeOK
    <2> QED BY <1>0, <2>1 DEF Covered
  <1>2. ASSUME NEW p \in Pages, KeyPut(p), p # q, NEW n \in Texts', key'[p].tail = n,
               u \in Over(n)'
        PROVE  Solid(n)'
    <2>1. n \in UpTo(u)' /\ n \in UpTo(n)'
      BY <1>0, <1>2, OverStays
    <2>2. [id |-> key'[q].id, text |-> u] \in Uses(q)'
      BY DEF Uses, KeyWords
    <2>3. key'[p] # NoEntry
      BY <1>2 DEF KeyPut, NoEntry
    <2>4. [id |-> key'[p].id, text |-> n] \in Uses(p)'
      BY <1>2, <2>3 DEF Uses, KeyWords
    <2>5. InHand(q, n)' /\ InHand(p, n)'
      <3>1. \A x : x.text = u => n \in UpTo(x.text)'
        BY <2>1
      <3>2. \A x : x.text = n => n \in UpTo(x.text)'
        BY <2>1
      <3> QED BY <2>2, <2>4, <3>1, <3>2 DEF InHand
    <2> QED BY <1>2, <2>5, SharedKept DEF SharedSolid
  <1>3. ASSUME NEW t \in safe', u \in Over(t)' PROVE Solid(t)'
    <2>1. CASE KeysRest
      BY <1>0, <1>1, <1>3, <2>1 DEF KeysRest
    <2>2. ASSUME NEW p \in Pages, KeyGone(p) PROVE Solid(t)'
      BY <1>1, <1>3, <2>2 DEF KeyGone
    <2>3. ASSUME NEW p \in Pages, KeyPut(p) PROVE Solid(t)'
      <3>1. PICK n \in Texts' : key'[p].tail = n /\ safe' = safe \cup {n}
        BY <2>3 DEF KeyPut
      <3> QED BY <1>1, <1>2, <1>3, <2>3, <3>1
    <2> QED BY <1>0, <2>1, <2>2, <2>3
  <1> QED BY <1>3 DEF Covered

\* The key of a page that puts nothing into it has what it had, or no body.
LEMMA KeyStays ==
    ASSUME KStep, NEW q \in Pages, ~KeyPut(q), key'[q].body
    PROVE  key'[q] = key[q]
  BY KeysMoveStep DEF KeysMove, KeysRest, KeyGone, KeyPut

LEMMA KeyCoveredKept ==
    ASSUME KStep, NEW q \in Pages, NEW d \in Lineage, Past(q, d), KeyCovered(q, d)
    PROVE  KeyCovered(q, d)'
  <1>1. ASSUME NEW u \in Texts', [id |-> d, text |-> u] \in KeyWords(q)', key'[q].body
        PROVE  Covered(u)'
    <2>1. key'[q] # NoEntry /\ key'[q].id = d /\ key'[q].tail = u
      BY <1>1 DEF KeyWords
    <2>2. ~KeyPut(q)
      BY <2>1, PastPuts
    <2>3. key'[q] = key[q]
      BY <1>1, <2>2, KeyStays
    <2>4. [id |-> d, text |-> u] \in KeyWords(q) /\ u \in Texts
      BY <2>1, <2>3, KParts DEF KeyWords, Shapes, KeysOK
    <2>5. Covered(u)
      BY <1>1, <2>3, <2>4 DEF KeyCovered
    <2> QED BY <2>1, <2>2, <2>4, <2>5, CoveredKept
  <1> QED BY <1>1 DEF KeyCovered

-----------------------------------------------------------------------------
(* What a step does to lineages that are done with *)

\* An acknowledgement that went through ends the lineage in the editor, or
\* moves the editor to a lineage of its own.
AfterDeletes(p) ==
    /\ ~Gone(p) /\ ~Gone(p)' /\ draft' = draft /\ chore[p].pc = "told" /\ \A q \in Pages : q # p => ed'[q] = ed[q]
    /\ \E w \in EditorRecords : ed'[p] = w /\ RefreshKey(p, w)
          /\ \/ /\ ed[p].id = chore[p].id /\ ed[p].shown = chore[p].text /\ w.id = NoLineage
                /\ marks' \subseteq marks \cup {[id |-> chore[p].id, owner |-> p, text |-> ed[p].committed]}
             \/ marks' = marks /\ chore'[p] = NoChore
             \/ marks' = marks /\ w.id # chore[p].id
             \/ marks' = marks /\ ed[p].id # chore[p].id

LEMMA AfterDeleteIs ==
    ASSUME KStep, NEW p \in Pages, AfterDelete(p)
    PROVE  AfterDeletes(p)
  <1> DEFINE c == chore[p]
             e == ed[p]
             mine == e.id = c.id
             uncommitted == c.out # "deleted" /\ mine /\ e.latest = c.text /\ write[p] = NoWrite
             superseded == uncommitted /\ e.stored /\ e.committed # 0
             ended == [NoLineageLeft(e) EXCEPT !.latest = 0]
             v == CASE uncommitted -> ended
                    [] c.out = "deleted" /\ mine /\ e.latest # 0 -> FreshLineage(p, e)
                    [] c.out = "deleted" /\ mine /\ e.latest = 0 -> NoLineageLeft(e)
                    [] OTHER -> e
             mark == [id |-> c.id, owner |-> p, text |-> e.committed]
             next == IF uncommitted \/ c.out = "deleted"
                     THEN [c EXCEPT !.pc = IF superseded THEN "sweep" ELSE "stone"] ELSE NoChore
             new == IF superseded THEN {m \in marks : m.id # c.id} \cup {mark} ELSE marks
  <1>0. /\ Shapes /\ Shapes' /\ ServedOK /\ e \in EditorRecords /\ TypedOK /\ served \subseteq Texts
        /\ e.latest \in {0, e.shown} /\ e.minted \in Nat
    BY KParts DEF Shapes, EditorsOK, EditorRecords
  <1>1. /\ Here(p) /\ c.pc = "told" /\ SetEditor(p, v) /\ RefreshKey(p, v) /\ Chore(p, next) /\ marks' = new
        /\ draft' = draft /\ page' = page
    BY DEF AfterDelete
  <1>2. ~Gone(p) /\ ~Gone(p)'
    BY <1>1 DEF Here, Gone
  <1>3. c.text \in Texts /\ c.id \in Lineage /\ c.text # 0
    <2>1. c.text \in Texts /\ c.id \in Lineage
      BY <1>0, <1>1 DEF ServedOK, Shapes, ChoresOK
    <2> QED BY <1>0, <2>1, OverIs
  <1>4. chore'[p] = next
    BY <1>0, <1>1 DEF Chore, Shapes, ChoresOK
  <1>5. ended.id = NoLineage /\ NoLineageLeft(e).id = NoLineage
    BY <1>0 DEF EditorRecords, NoLineageLeft
  <1>6. FreshLineage(p, e).id = Minted(p, e.minted + 1)
    <2> HIDE DEF v, next, new, ended, uncommitted, superseded, mark
    <2> QED BY <1>0, FreshLineageIs
  <1>7. ed'[p] = v /\ v \in EditorRecords /\ \A q \in Pages : q # p => ed'[q] = ed[q]
    <2> HIDE DEF v, next, new, ended, uncommitted, superseded, mark
    <2>1. ed \in [Pages -> EditorRecords] /\ ed' \in [Pages -> EditorRecords]
      BY <1>0 DEF Shapes, EditorsOK, EditorRecords
    <2> QED BY <1>1, <2>1 DEF SetEditor
  <1>8. e.id = c.id => Minted(p, e.minted + 1) # c.id
    <2>1. ASSUME e.id = c.id, Minted(p, e.minted + 1) = c.id PROVE FALSE
      <3>1. c.id.page = p /\ c.id.nth = e.minted + 1
        BY <2>1 DEF Minted
      <3>2. c.id.nth <= e.minted /\ c.id.nth \in Nat
        BY <1>2, <1>3, <2>1, <3>1, EditorBound, KParts DEF Bound, Lineage
      <3> QED BY <1>0, <3>1, <3>2
    <2> QED BY <2>1
  <1>9. c.id # NoLineage
    BY <1>3, NoLineageOK
  <1>10. CASE uncommitted
    <2>1. v = ended /\ e.id = c.id /\ e.latest = c.text
      BY <1>10
    <2>2. new \subseteq marks \cup {mark}
      OBVIOUS
    <2>3. e.shown = c.text
      BY <1>0, <1>3, <2>1
    <2> HIDE DEF v, new, next, ended
    <2> QED BY <1>1, <1>2, <1>5, <1>7, <2>1, <2>2, <2>3 DEF AfterDeletes
  <1>11. CASE ~uncommitted
    <2>1. new = marks /\ v \in {FreshLineage(p, e), NoLineageLeft(e), e}
      BY <1>11
    <2>2. CASE c.out # "deleted"
      <3>1. next = NoChore
        BY <1>11, <2>2
      <3> HIDE DEF v, new, next, ended, uncommitted
      <3> QED BY <1>1, <1>2, <1>4, <1>7, <2>1, <3>1 DEF AfterDeletes
    <2>3. CASE c.out = "deleted" /\ mine
      <3>1. v = FreshLineage(p, e) \/ v = NoLineageLeft(e)
        <4>1. e.latest # 0 => v = FreshLineage(p, e)
          BY <1>11, <2>3
        <4>2. e.latest = 0 => v = NoLineageLeft(e)
          BY <1>11, <2>3
        <4> QED BY <4>1, <4>2
      <3>2. v.id # c.id
        <4> HIDE DEF v
        <4> QED BY <1>5, <1>6, <1>8, <1>9, <2>3, <3>1
      <3> HIDE DEF v, new, next, ended, uncommitted
      <3> QED BY <1>1, <1>2, <1>7, <2>1, <3>2 DEF AfterDeletes
    <2>4. CASE ~mine
      <3> HIDE DEF v, new, next, ended, uncommitted
      <3> QED BY <1>1, <1>2, <1>7, <2>1, <2>4 DEF AfterDeletes
    <2> QED BY <2>2, <2>3, <2>4
  <1> QED BY <1>10, <1>11

LEMMA MarksKept ==
    ASSUME KStep
    PROVE  MarksOK'
  <1>0. /\ IInv /\ Shapes' /\ Step /\ MarksOK /\ ServedOK /\ TextsStay /\ served \subseteq Texts /\ [Next]_vars
        /\ WordsOK /\ Texts \subseteq None /\ Texts \subseteq Texts'
    BY KParts
  <1>1. ASSUME NEW u, NEW s \in served, s = u \/ u \in Under(s) PROVE Sent(u)'
    <2>1. s \in served' /\ s \in Texts' /\ Under(s)' = Under(s)
      BY <1>0, HistoriesGrow DEF TextsStay
    <2> QED BY <1>1, <2>1 DEF Sent, Over
  <1>2. ASSUME NEW m \in marks
        PROVE  /\ m.owner \in Pages /\ m.id \in Lineage /\ Past(m.owner, m.id)'
               /\ \A x \in Says(m.owner)' : x.id = m.id => Sent(x.text)'
    <2>1. PICK q \in Pages, d \in Lineage : q = m.owner /\ d = m.id
      BY <1>0 DEF MarksOK
    <2>2. Past(q, d) /\ \A x \in Says(q) : x.id = d => Sent(x.text)
      BY <1>0, <2>1 DEF MarksOK
    <2>3. Past(q, d)'
      BY <1>0, <2>2, BoundKept DEF Past
    <2>4. ASSUME NEW x \in Says(q)', x.id = d PROVE Sent(x.text)'
      <3>1. Sent(x.text)
        BY <1>0, <2>2, <2>4, PastSays
      <3> QED BY <1>1, <3>1 DEF Sent, Over
    <2> QED BY <2>1, <2>3, <2>4
  <1>3. ASSUME NEW p \in Pages, AfterDelete(p), NEW m \in marks', m \notin marks
        PROVE  /\ m.owner \in Pages /\ m.id \in Lineage /\ Past(m.owner, m.id)'
               /\ \A x \in Says(m.owner)' : x.id = m.id => Sent(x.text)'
    <2>1. AfterDeletes(p) /\ plan' = plan /\ chore[p].id \in Lineage
      BY <1>0, <1>3, AfterDeleteIs DEF AfterDelete, IInv, Shapes, ChoresOK
    <2>2. PICK w \in EditorRecords, d \in Lineage, t \in served :
               /\ ed'[p] = w /\ d = chore[p].id /\ t = chore[p].text
               /\ ed[p].id = d /\ ed[p].shown = t /\ w.id = NoLineage
               /\ m.id = d /\ m.owner = p
      BY <1>0, <1>3, <2>1 DEF AfterDeletes, ServedOK
    <2>3. Past(p, d)'
      <3>1. Bound(p, d)'
        BY <1>0, <2>2, EditorBound, BoundKept
      <3>2. ed'[p].id # d
        BY <2>2, NoLineageOK
      <3> QED BY <3>1, <3>2 DEF Past
    <2>4. ASSUME NEW x \in Says(p)', x.id = d PROVE Sent(x.text)'
      <3>1. x \in Says(p)
        <4>1. CASE x \in Uses(p)'
          <5>1. x.id # ed'[p].id
            BY <2>2, <2>4, NoLineageOK
          <5> QED BY <1>0, <4>1, <5>1, PageMoves DEF Says, IInv
        <4>2. CASE x \in Owns(p)'
          <5>1. Owns(p)' = Owns(p)
            BY <2>1 DEF AfterDeletes, Owns, Kept, HasRow
          <5> QED BY <4>2, <5>1 DEF Says
        <4> QED BY <2>4, <4>1, <4>2 DEF Says
      <3>2. x.text \in {t} \cup Under(t)
        BY <1>0, <2>1, <2>2, <2>4, <3>1 DEF AfterDeletes, WordsOK, ShownLast
      <3> QED BY <1>1, <3>2
    <2> QED BY <2>2, <2>3, <2>4
  <1>4. ASSUME NEW p \in Pages, NEW n \in marks, Sweep(p, n) PROVE marks' \subseteq marks
    <2>1. marks' = marks \ {n}
      BY <1>4, Zenon DEF Sweep, Swept
    <2> QED BY <2>1
  <1>5. ASSUME NEW m \in marks'
        PROVE  /\ m.owner \in Pages /\ m.id \in Lineage /\ Past(m.owner, m.id)'
               /\ \A x \in Says(m.owner)' : x.id = m.id => Sent(x.text)'
    BY <1>0, <1>2, <1>3, <1>4, <1>5, WhoMovesMarks
  <1>6. \A m \in marks' : /\ m.owner \in Pages /\ m.id \in Lineage /\ Past(m.owner, m.id)'
                          /\ \A x \in Says(m.owner)' : x.id = m.id => Sent(x.text)'
    BY <1>5
  <1> QED BY <1>6 DEF MarksOK

\* A key that still lists the lineage that its page's editor left then, is of
\* what is solid.
LEMMA LeftCovered ==
    ASSUME KStep, NEW p \in Pages, NEW d \in Lineage, ~Gone(p)', Past(p, d)', listed'[p] = d,
           NEW w \in EditorRecords, ed'[p] = w, RefreshKey(p, w)
    PROVE  KeyCovered(p, d)'
  <1>0. /\ TypedOK /\ SafeOK /\ Shapes /\ ListedOK /\ d # NoLineage /\ w.id # d /\ ~Gone(p)
        /\ \A t \in Texts : Solid(t) => Solid(t)'
    BY NoLineageOK, KParts DEF Past
  <1>1. \A e : SetKey(p, e) => listed'[p] = e.id
    BY <1>0 DEF SetKey, ListedOK
  <1>2. NoEntry.id = NoLineage /\ EntryOf(w, TRUE).id = w.id /\ EntryOf(w, FALSE).id = w.id
    BY DEF NoEntry, EntryOf
  <1>3. \/ key' = key /\ safe' = safe /\ w.latest = 0
        \/ key' = key /\ Exposed(p)
    <2>1. /\ ~KeyRemoved(p) /\ ~KeyGivenUp(p) /\ ~KeyWritten(p, w) /\ ~KeyStripped(p, w)
      BY <1>0, <1>1, <1>2 DEF KeyRemoved, KeyGivenUp, KeyWritten, KeyStripped
    <2> QED BY <1>0, <2>1 DEF RefreshKey, KeyKept, KeyStuck
  <1>4. ASSUME NEW u \in Texts, key[p].tail = u, NEW t \in safe', u \in Over(t)', t \in safe
        PROVE  Solid(t)'
    <2>1. t \in Texts /\ u \in Over(t)
      BY <1>0, <1>4, OverStays DEF SafeOK
    <2>2. CASE Exposed(p)
      BY <1>4, <2>1, <2>2, ExposedIs
    <2>3. CASE w.latest = 0
      <3>1. PICK s \in None : s = ed[p].shown
        BY KParts
      <3>2. s # 0 /\ u \in UpTo(s) /\ s \in Texts
        BY <1>0, <1>4, <3>1, KeyShown
      <3>3. PICK v \in None' : v = ed'[p].shown
        BY KParts
      <3>4. v # 0 /\ (v \in None => v = s)
        BY <3>1, <3>2, <3>3, ShownGrows
      <3>5. v \in Texts'
        BY <3>3, <3>4, TextFacts, KParts DEF None, Texts, TypedOK
      <3>6. Solid(s)
        BY <2>3, <3>3, <3>4, <3>5, EditorSolid, KParts
      <3>7. Solid(u)
        BY <3>2, <3>6, SolidUnder, KParts
      <3>8. t \in UpTo(u)
        BY <1>0, <2>1, OverIs
      <3>9. Solid(t)
        BY <2>1, <3>7, <3>8, SolidUnder, KParts
      <3> QED BY <1>0, <2>1, <3>9
    <2> QED BY <1>3, <2>2, <2>3
  <1>5. ASSUME NEW u \in Texts', [id |-> d, text |-> u] \in KeyWords(p)' PROVE Covered(u)'
    <2>1. key[p].tail = u /\ u \in Texts
      BY <1>0, <1>3, <1>5 DEF KeyWords, Shapes, KeysOK
    <2>2. safe' \subseteq safe
      BY <1>3, ExposedIs
    <2> QED BY <1>4, <2>1, <2>2 DEF Covered
  <1> QED BY <1>5 DEF KeyCovered

LEMMA ChoresKept ==
    ASSUME KStep
    PROVE  ChoresPast'
  <1>0. /\ IInv /\ Shapes /\ Shapes' /\ Step /\ ChoresPast /\ [Next]_vars
    BY KParts
  <1>1. ASSUME NEW p \in Pages, NEW d \in Lineage, ed[p].id = d \/ Past(p, d)
        PROVE  ed'[p].id = d \/ Past(p, d)'
    BY <1>0, <1>1, PastByEditor
  <1>2. ASSUME NEW p \in Pages, NEW d \in Lineage, Past(p, d), listed[p] = d => KeyCovered(p, d)
        PROVE  Past(p, d)' /\ (listed'[p] = d => KeyCovered(p, d)')
    <2>1. Past(p, d)'
      BY <1>0, <1>2, BoundKept DEF Past
    <2>2. listed'[p] = d => listed[p] = d
      <3>1. \/ listed'[p] \in {listed[p], NoLineage}
            \/ ~Gone(p) /\ listed'[p] = ed[p].id
            \/ ~Gone(p)' /\ listed'[p] = ed'[p].id
        BY KeysMoveStep DEF ListMoves
      <3> QED BY <1>2, <2>1, <3>1, NoLineageOK DEF Past
    <2> QED BY <1>2, <2>1, <2>2, KeyCoveredKept
  <1>3. ASSUME NEW p \in Pages, NEW d \in Lineage, AfterDelete(p), chore[p].id = d,
               chore'[p].pc \in {"sweep", "stone"}
        PROVE  Past(p, d)' /\ (listed'[p] = d => KeyCovered(p, d)')
    <2>1. AfterDeletes(p)
      BY <1>3, AfterDeleteIs
    <2>2. PICK w \in EditorRecords :
             /\ ed'[p] = w /\ RefreshKey(p, w)
             /\ w.id = NoLineage \/ chore'[p] = NoChore \/ w.id # d \/ ed[p].id # d
      BY <1>3, <2>1 DEF AfterDeletes
    <2>3. ed[p].id = d \/ Past(p, d)
      BY <1>0, <1>3, <2>1 DEF AfterDeletes, ChoresPast
    <2>4. Past(p, d)'
      <3>1. CASE w.id = NoLineage \/ w.id # d
        BY <1>1, <2>2, <2>3, <3>1, NoLineageOK
      <3>2. CASE ed[p].id # d
        BY <1>0, <2>3, <3>2, BoundKept DEF Past
      <3>3. chore'[p] # NoChore
        BY <1>3 DEF NoChore
      <3> QED BY <2>2, <3>1, <3>2, <3>3
    <2>5. ~Gone(p)'
      BY <2>1 DEF AfterDeletes
    <2> QED BY <2>2, <2>4, <2>5, LeftCovered
  <1>4. ASSUME NEW p \in Pages, NEW d \in Lineage, chore'[p].id = d
        PROVE  /\ chore'[p].pc \in {"asked", "told"} => ed'[p].id = d \/ Past(p, d)'
               /\ chore'[p].pc \in {"sweep", "stone"} =>
                     Past(p, d)' /\ (listed'[p] = d => KeyCovered(p, d)')
    <2>1. ChoreMoves(p)
      BY <1>0, ChoresMove
    <2>2. NoChore.id = NoLineage /\ d # NoLineage
      BY NoLineageOK DEF NoChore
    <2>3. /\ chore[p].id = d /\ chore[p].pc \in {"asked", "told"} => ed[p].id = d \/ Past(p, d)
          /\ chore[p].id = d /\ chore[p].pc \in {"sweep", "stone"} =>
                Past(p, d) /\ (listed[p] = d => KeyCovered(p, d))
      BY <1>0 DEF ChoresPast
    <2>4. CASE chore'[p] = chore[p]
      BY <1>1, <1>2, <1>4, <2>3, <2>4
    <2>5. CASE chore'[p].pc = "asked" /\ chore'[p].id = ed[p].id
      BY <1>1, <1>4, <2>5
    <2>6. CASE chore'[p].id = chore[p].id /\ chore[p].pc = "asked" /\ chore'[p].pc = "told"
      BY <1>1, <1>4, <2>3, <2>6
    <2>7. CASE chore'[p].id = chore[p].id /\ chore'[p].pc \in {"sweep", "stone"} /\ AfterDelete(p)
      BY <1>3, <1>4, <2>7
    <2>8. CASE chore'[p].id = chore[p].id /\ chore[p].pc = "sweep" /\ chore'[p].pc = "stone"
      BY <1>2, <1>4, <2>3, <2>8
    <2> QED BY <1>4, <2>1, <2>2, <2>4, <2>5, <2>6, <2>7, <2>8 DEF ChoreMoves
  <1>5. \A p \in Pages : \A d \in Lineage : chore'[p].id = d =>
               /\ chore'[p].pc \in {"asked", "told"} => ed'[p].id = d \/ Past(p, d)'
               /\ chore'[p].pc \in {"sweep", "stone"} =>
                     Past(p, d)' /\ (listed'[p] = d => KeyCovered(p, d)')
    BY <1>4
  <1> QED BY <1>5 DEF ChoresPast

\* What a tombstone keeps out stays so.
LEMMA StonesKept ==
    ASSUME KStep
    PROVE  StonesOK'
  <1>0. /\ IInv /\ Shapes /\ Shapes' /\ StoreOK /\ TypedOK /\ Step /\ StonesOK /\ StonesMove /\ ChoresPast
        /\ SharedSolid /\ 0 \in None /\ Texts \subseteq None
        /\ (\A t \in Texts : Solid(t) => Solid(t)') /\ (\A t \in None : UpTo(t)' = UpTo(t))
    BY KParts, OverStays
  <1>1. draft' = draft \/ None' = None
    <2>1. draft' = draft \/ typed' = typed
      BY <1>0, Zenon DEF Step, QuietStep, WriterStep, TakesStep, AdoptStep, RestoreStep, ForkStep
    <2> QED BY <2>1 DEF None
  <1>2. ASSUME NEW t \in None, NEW u \in UpTo(t), u \in Texts' PROVE u \in Texts
    <2>1. u # 0
      BY <1>0, <1>2 DEF Texts
    <2>2. Under(t) \subseteq 1 .. (t - 1) /\ t \in 0 .. Len(typed) /\ Len(typed) \in Nat
      BY <1>0, <1>2, TextFacts DEF None
    <2> QED BY <1>2, <2>1, <2>2 DEF UpTo, Texts
  <1>3. ASSUME NEW q \in Pages, NEW d \in Lineage, Past(q, d), KeyCovered(q, d)
        PROVE  Past(q, d)' /\ KeyCovered(q, d)'
    BY <1>0, <1>3, BoundKept, KeyCoveredKept DEF Past
  <1>4. ASSUME NEW d \in DOMAIN draft, NEW t \in None, ~Kept(d), draft[d].text = t, NEW q \in Pages
        PROVE  KeptOut(q, d, t)'
    <2>1. KeptOut(q, d, t) /\ d \in Lineage
      BY <1>0, <1>4 DEF StonesOK, StoreOK, StoreLike
    <2>2. CASE \A u \in UpTo(t) : InHand(q, u) => Solid(u)
      <3>1. ASSUME NEW u \in UpTo(t)', InHand(q, u)' PROVE Solid(u)'
        <4>1. u \in UpTo(t) /\ u \in Texts
          BY <1>0, <1>2, <3>1 DEF InHand
        <4> QED BY <1>0, <2>2, <3>1, <4>1, HandGrows
      <3> QED BY <3>1 DEF KeptOut
    <2>3. CASE Past(q, d) /\ KeyCovered(q, d)
      BY <1>3, <2>1, <2>3 DEF KeptOut
    <2> QED BY <2>1, <2>2, <2>3 DEF KeptOut
  <1>5. ASSUME NEW t \in Texts, Ended(t)', NEW d, NEW q \in Pages
        PROVE  KeptOut(q, d, t)'
    <2>1. ASSUME NEW u \in UpTo(t)' PROVE Solid(u)'
      <3>1. t \in Texts'
        BY KParts
      <3>2. Ended(u)'
        BY <1>5, <2>1, <3>1, SolidUnderStep
      <3> QED BY <3>2 DEF Solid
    <2> QED BY <2>1 DEF KeptOut
  <1>6. ASSUME NEW p \in Pages, LeaveStone(p), NEW d \in Lineage, listed[p] = d, chore[p].id = d,
               NEW t \in None, t = ed[p].shown, NEW q \in Pages
        PROVE  KeptOut(q, d, t)'
    <2>1. chore[p].pc = "stone" /\ ~Gone(p)
      BY <1>6 DEF LeaveStone, Here, Gone
    <2>2. CASE q = p
      <3>1. Past(p, d) /\ KeyCovered(p, d)
        BY <1>0, <1>6, <2>1 DEF ChoresPast
      <3> QED BY <1>3, <2>2, <3>1 DEF KeptOut
    <2>3. CASE q # p
      <3>1. ASSUME NEW u \in UpTo(t)', InHand(q, u)' PROVE Solid(u)'
        <4>1. u \in UpTo(t) /\ u \in Texts
          BY <1>0, <1>2, <3>1 DEF InHand
        <4>2. InHand(p, u)
          BY <1>6, <2>1, <4>1 DEF InHand
        <4>3. InHand(q, u) \/ Solid(u)'
          BY <3>1, <4>1, HandGrows
        <4>4. InHand(q, u) => Solid(u)
          BY <1>0, <2>3, <4>1, <4>2 DEF SharedSolid
        <4> QED BY <1>0, <4>1, <4>3, <4>4
      <3> QED BY <3>1 DEF KeptOut
    <2> QED BY <2>2, <2>3
  <1>7. ASSUME NEW d \in DOMAIN draft', NEW t \in None', draft'[d].status = "discarded",
               draft'[d].text = t, NEW q \in Pages
        PROVE  KeptOut(q, d, t)'
    <2>1. t \in None
      BY <1>0, <1>1, <1>7 DEF StoreOK, StoreLike
    <2>2. StoneOf(d, t)
      BY <1>0, <1>7, <2>1 DEF StonesMove
    <2>3. d \in Lineage
      BY <1>0, <1>7 DEF Shapes, StoreOK, StoreLike
    <2> QED BY <1>4, <1>5, <1>6, <2>1, <2>2, <2>3 DEF StoneOf, HasRow, Left
  <1> QED BY <1>7 DEF StonesOK, Kept, HasRow

\* An entry is applied now, or was before.
LEMMA AppliedBy ==
    ASSUME Shapes, [Next]_vars, NEW r \in Pages, scan'[r].pc = "applied"
    PROVE  \/ scan'[r] = scan[r]
           \/ /\ ApplyEntry(r) /\ scan[r].pc = "apply" /\ scan'[r].of = scan[r].of
              /\ scan'[r].entry = scan[r].entry /\ draft' = Applied(scan[r].of, scan[r].entry)
              /\ DroppedTail(scan[r].of, scan[r].entry) => scan[r].entry.tail \in dropped'
  <1>1. \A p \in Pages : \A s : Scan(p, s) => scan'[p] = s /\ \A q \in Pages : q # p => scan'[q] = scan[q]
    BY DEF Scan, Shapes, ScansOK
  <1>2. NoScan \in ScanRecords /\ NoScan.pc = "none"
    BY DEF NoScan, ScanRecords
  <1>3. \A p \in Pages : scan[p] \in ScanRecords
    BY DEF Shapes, ScansOK, ScanRecords
  <1>4. ASSUME NEW p \in Pages, Close(p) \/ Crash(p) PROVE scan'[r] = scan[r]
    BY <1>2, <1>4 DEF Close, Crash, Forgotten, Shapes, ScansOK
  <1>5. ASSUME NEW p \in Pages, StartScan(p) PROVE scan'[r] = scan[r]
    <2>1. PICK s : Scan(p, s) /\ \E a, b : s = [NoScan EXCEPT !.pc = "pick", !.definite = a, !.todo = b]
      BY <1>5, Zenon DEF StartScan
    <2>2. s.pc = "pick"
      BY <1>2, <2>1 DEF NoScan
    <2> QED BY <1>1, <2>1, <2>2
  <1>6. ASSUME NEW p \in Pages, NEW x \in scan[p].todo, SkipKey(p, x) PROVE scan'[r] = scan[r]
    <2>1. scan[p].pc = "pick" /\ Scan(p, [scan[p] EXCEPT !.todo = @ \ {x}])
      BY <1>6 DEF SkipKey
    <2>2. [scan[p] EXCEPT !.todo = @ \ {x}].pc = "pick"
      BY <1>3, <2>1 DEF ScanRecords
    <2> QED BY <1>1, <2>1, <2>2
  <1>7. ASSUME NEW p \in Pages, NEW x \in scan[p].todo, PickKey(p, x) PROVE scan'[r] = scan[r]
    <2>1. Scan(p, [scan[p] EXCEPT !.todo = @ \ {x}, !.of = x[1], !.entry = x[2], !.pc = "apply"])
      BY <1>7 DEF PickKey
    <2>2. [scan[p] EXCEPT !.todo = @ \ {x}, !.of = x[1], !.entry = x[2], !.pc = "apply"].pc = "apply"
      BY <1>3 DEF ScanRecords
    <2> QED BY <1>1, <2>1, <2>2
  <1>8. ASSUME NEW p \in Pages, RemoveKey(p) \/ Unmark(p) \/ EndScan(p) PROVE scan'[r] = scan[r]
    <2>1. PICK s, a : /\ Scan(p, s) /\ a \in {"unmark", "pick", "unmark-fork"}
                      /\ s = [scan[p] EXCEPT !.pc = a] \/ s = [NoScan EXCEPT !.pc = "done"]
      BY <1>8 DEF RemoveKey, Unmark, EndScan
    <2>2. s.pc # "applied"
      BY <1>2, <1>3, <2>1 DEF ScanRecords
    <2> QED BY <1>1, <2>1, <2>2
  <1>9. ASSUME NEW p \in Pages, ApplyEntry(p), scan'[r] # scan[r]
        PROVE  /\ ApplyEntry(r) /\ scan[r].pc = "apply" /\ scan'[r].of = scan[r].of
               /\ scan'[r].entry = scan[r].entry /\ draft' = Applied(scan[r].of, scan[r].entry)
               /\ DroppedTail(scan[r].of, scan[r].entry) => scan[r].entry.tail \in dropped'
    <2>1. scan[p].pc = "apply" /\ \/ /\ draft' = Applied(scan[p].of, scan[p].entry)
                                     /\ DroppedTail(scan[p].of, scan[p].entry) => scan[p].entry.tail \in dropped'
                                     /\ Scan(p, [scan[p] EXCEPT !.pc = "applied"])
                                  \/ Scan(p, [scan[p] EXCEPT !.pc = "pick"])
      BY <1>9, Zenon DEF ApplyEntry
    <2>2. PICK c \in ScanRecords : c = scan[p]
      BY <1>3
    <2>3. PICK s : s = [c EXCEPT !.pc = "applied"]
      OBVIOUS
    <2>4. PICK n : n = [c EXCEPT !.pc = "pick"]
      OBVIOUS
    <2>5. s.of = c.of /\ s.entry = c.entry /\ n.pc = "pick"
      BY <2>3, <2>4 DEF ScanRecords
    <2>6. Scan(p, s) \/ Scan(p, n)
      BY <2>1, <2>2, <2>3, <2>4
    <2>7. p = r /\ ~Scan(p, n) /\ scan'[p] = s
      BY <1>1, <1>9, <2>5, <2>6
    <2>8. /\ draft' = Applied(scan[p].of, scan[p].entry)
          /\ DroppedTail(scan[p].of, scan[p].entry) => scan[p].entry.tail \in dropped'
      BY <2>1, <2>2, <2>4, <2>7, Zenon
    <2> QED BY <1>9, <2>1, <2>2, <2>5, <2>7, <2>8
  <1>10. UNCHANGED scan => scan'[r] = scan[r]
    OBVIOUS
  <1> QED BY <1>4, <1>5, <1>6, <1>7, <1>8, <1>9, <1>10, WhoMovesScans

\* A draft of a text, or of one typed over it, makes it solid.
LEMMA DraftSolid ==
    ASSUME KStep, NEW u \in Texts
    PROVE  /\ \A d \in DOMAIN draft : Kept(d) /\ u \in UpTo(draft[d].text) => Solid(u)'
           /\ \A d \in DOMAIN draft' : draft'[d].status # "discarded" /\ draft'[d].text = u => Solid(u)'
  <1>0. TypedOK /\ StoreOK /\ Texts \subseteq Texts' /\ \A t \in Texts : Solid(t) => Solid(t)'
    BY KParts
  <1>1. ASSUME NEW d \in DOMAIN draft, Kept(d), u \in UpTo(draft[d].text) PROVE Solid(u)'
    <2>1. draft[d].text \in Over(u)
      BY <1>0, <1>1, KeptTexts, OverIs
    <2> QED BY <1>0, <1>1, <2>1 DEF Solid
  <1>2. ASSUME NEW d \in DOMAIN draft', draft'[d].status # "discarded", draft'[d].text = u
        PROVE  Solid(u)'
    <2>1. u \in Over(u)'
      BY <1>0, OverStays
    <2> QED BY <1>2, <2>1 DEF Solid, Kept, HasRow
  <1> QED BY <1>1, <1>2

\* What a merge makes of a tail: a draft, or one has it; or it is dropped, or
\* a tombstone keeps it out.
LEMMA ApplyKeeps ==
    ASSUME KStep, NEW q \in Pages, NEW e \in Entry, e.body, e.tail \in Texts,
           [id |-> e.id, text |-> e.tail] \in Uses(q), draft' = Applied(q, e), key' = key,
           DroppedTail(q, e) => e.tail \in dropped'
    PROVE  Solid(e.tail)' \/ (Past(q, e.id)' /\ (key'[q] = e => Covered(e.tail)'))
  <1> DEFINE row == FromEntry(q, e)
             x == [id |-> e.id, text |-> e.tail]
  <1>1. PICK d \in Lineage, u \in Texts : d = e.id /\ u = e.tail
    BY DEF Entry
  <1>2. PICK f \in Lineage : /\ f = Fork(d, u) /\ f # d /\ f.page = d.page /\ f.forks # <<>>
    BY <1>1, ForkLineage, KParts
  <1>0. /\ IInv /\ WordsOK /\ Shapes /\ TypedOK /\ StoreOK /\ StonesOK /\ TextsStay /\ Step /\ Shapes'
        /\ \A t \in Texts : Solid(t) => Solid(t)'
    BY KParts
  <1>3. row.status = "active" /\ row.text = u
    BY <1>1 DEF FromEntry
  <1>4. x \in Uses(q) /\ x \in Says(q) /\ x.id = d /\ x.text = u
    BY <1>1, UsesAreSaid
  <1>5. \A g, w : w.status = "active" /\ w.text = u /\ draft' = With(g, w) => Solid(u)'
    <2>1. ASSUME NEW g, NEW w, w.status = "active", w.text = u, draft' = With(g, w) PROVE Solid(u)'
      <3>1. g \in DOMAIN draft' /\ draft'[g] = w
        BY <2>1 DEF With
      <3> QED BY <2>1, <3>1, DraftSolid
    <2> QED BY <2>1
  <1> HIDE DEF row, x
  <1>6. InHand(q, u)
    BY <1>4 DEF InHand, UpTo
  <1>7. CASE DroppedTail(q, e)
    <2>1. Ended(u)'
      BY <1>0, <1>1, <1>7, EndedNow
    <2> QED BY <1>1, <2>1 DEF Solid
  <1>8. CASE ~DroppedTail(q, e) /\ ~HasRow(d)
    <2>1. ~e.committed
      BY <1>1, <1>8 DEF DroppedTail
    <2>2. draft' = With(d, row)
      BY <1>1, <1>8, <2>1 DEF Applied, row, Kept
    <2> QED BY <1>1, <1>3, <1>5, <2>2
  <1>9. CASE Kept(d) /\ draft[d].owner = q
    <2>1. PICK v \in Texts : v = draft[d].text
      BY <1>0, <1>9, KeptTexts
    <2>2. CASE Gen(v) < Gen(u)
      <3> DEFINE new == [draft[d] EXCEPT !.text = u, !.status = "active"]
      <3>1. draft' = With(d, new)
        BY <1>1, <1>9, <2>1, <2>2 DEF Applied, Kept
      <3>2. new.status = "active" /\ new.text = u
        BY <1>0, <1>9 DEF StoreOK, StoreLike, Kept, HasRow, Row
      <3> HIDE DEF new
      <3> QED BY <1>1, <1>5, <3>1, <3>2
    <2>3. CASE ~(Gen(v) < Gen(u))
      <3>1. PICK y \in Says(q) : y.id = d /\ y.text = v
        <4>1. [id |-> d, text |-> v] \in Says(q)
          BY <1>9, <2>1, OwnsIs, UsesAreSaid
        <4> QED BY <4>1
      <3>2. Comparable(u, v)
        BY <1>0, <1>4, <3>1 DEF WordsOK, OneChain
      <3>3. u \in UpTo(v)
        BY <1>0, <2>3, <3>2, ChainByGeneration, TextFacts DEF UpTo, Comparable
      <3> QED BY <1>1, <1>9, <2>1, <3>3, DraftSolid DEF Kept, HasRow
    <2> QED BY <2>2, <2>3
  <1>10. CASE Kept(d) /\ draft[d].owner # q /\ ~HasRow(f)
    <2>1. draft' = With(f, row)
      BY <1>1, <1>2, <1>10 DEF Applied, row, Kept
    <2> QED BY <1>1, <1>3, <1>5, <2>1
  <1>11. CASE ~DroppedTail(q, e) /\ Kept(d) /\ draft[d].owner # q /\ HasRow(f)
    <2>1. PICK v \in None : v = draft[f].text
      BY <1>0, <1>11 DEF StoreOK, StoreLike, HasRow
    <2>2. u \in UpTo(v)
      BY <1>1, <1>2, <1>11, <2>1 DEF DroppedTail, UpTo
    <2>3. CASE Kept(f)
      BY <1>1, <2>1, <2>2, <2>3, DraftSolid DEF Kept, HasRow
    <2>4. CASE ~Kept(f)
      <3>1. KeptOut(q, f, v)
        BY <1>0, <1>11, <2>1, <2>4 DEF StonesOK, HasRow
      <3>2. ~Past(q, f)
        BY <1>2, <1>4 DEF Past, Bound
      <3> QED BY <1>0, <1>1, <1>6, <2>2, <3>1, <3>2 DEF KeptOut
    <2> QED BY <2>3, <2>4
  <1>12. CASE ~DroppedTail(q, e) /\ HasRow(d) /\ ~Kept(d)
    <2>1. PICK v \in None : v = draft[d].text
      BY <1>0, <1>12 DEF StoreOK, StoreLike, HasRow
    <2>2. u \in UpTo(v)
      BY <1>1, <1>12, <2>1 DEF DroppedTail, UpTo
    <2>3. KeptOut(q, d, v)
      BY <1>0, <1>12, <2>1 DEF StonesOK, HasRow
    <2>4. CASE Past(q, d) /\ KeyCovered(q, d)
      <3>1. Past(q, d)'
        BY <1>0, <2>4, BoundKept DEF Past
      <3>2. ASSUME key'[q] = e PROVE Covered(u)'
        <4>1. ~KeyPut(q) /\ key[q] = e /\ e # NoEntry
          BY <1>1, <2>4, <3>2, PastPuts DEF NoEntry
        <4>2. Covered(u)
          BY <1>1, <2>4, <4>1 DEF KeyCovered, KeyWords
        <4> QED BY <1>1, <3>2, <4>1, <4>2, CoveredKept
      <3> QED BY <1>1, <3>1, <3>2
    <2> QED BY <1>0, <1>1, <1>6, <2>2, <2>3, <2>4 DEF KeptOut
  <1> QED BY <1>7, <1>8, <1>9, <1>10, <1>11, <1>12 DEF Kept

LEMMA AppliedKept ==
    ASSUME KStep
    PROVE  AppliedOK'
  <1>0. /\ IInv /\ Shapes /\ Shapes' /\ Step /\ AppliedOK /\ [Next]_vars
        /\ \A t \in Texts : Solid(t) => Solid(t)'
    BY KParts
  <1>1. ASSUME NEW r \in Pages, NEW q \in Pages, NEW e \in Entry, scan'[r].pc = "applied",
               scan'[r].of = q, scan'[r].entry = e, e.body
        PROVE  Solid(e.tail)' \/ (Past(q, e.id)' /\ (key'[q] = e => Covered(e.tail)'))
    <2>1. CASE scan'[r] = scan[r]
      <3>1. e.tail \in Texts /\ e.id \in Lineage
        BY <1>0, <1>1, <2>1 DEF Shapes, ScansOK, Entry
      <3>2. Solid(e.tail) \/ (Past(q, e.id) /\ (key[q] = e => Covered(e.tail)))
        BY <1>0, <1>1, <2>1 DEF AppliedOK
      <3>3. ASSUME Past(q, e.id), key'[q] = e, key[q] = e => Covered(e.tail) PROVE Covered(e.tail)'
        <4>1. ~KeyPut(q) /\ e # NoEntry
          BY <1>1, <3>1, <3>3, PastPuts DEF NoEntry
        <4>2. key[q] = e
          BY <1>1, <3>3, <4>1, KeyStays
        <4> QED BY <3>1, <3>3, <4>1, <4>2, CoveredKept
      <3>4. Past(q, e.id) => Past(q, e.id)'
        BY <1>0, <3>1, BoundKept DEF Past
      <3> QED BY <1>0, <3>1, <3>2, <3>3, <3>4
    <2>2. CASE scan'[r] # scan[r]
      <3>1. /\ ApplyEntry(r) /\ scan[r].pc = "apply" /\ q = scan[r].of /\ e = scan[r].entry
            /\ draft' = Applied(q, e) /\ (DroppedTail(q, e) => e.tail \in dropped')
        BY <1>0, <1>1, <2>2, AppliedBy
      <3>2. e.tail \in Texts /\ key' = key
        BY <1>0, <3>1 DEF Shapes, ScansOK, ApplyEntry
      <3>3. [id |-> e.id, text |-> e.tail] \in Uses(q)
        BY <3>1 DEF Uses, ScanWords
      <3> QED BY <1>1, <3>1, <3>2, <3>3, ApplyKeeps
    <2> QED BY <2>1, <2>2
  <1> QED BY <1>1 DEF AppliedOK

-----------------------------------------------------------------------------
(* What is safe is kept *)

LEMMA InitKept == Init => KInv
  <1> SUFFICES ASSUME Init PROVE KInv
    OBVIOUS
  <1>0. Shapes /\ WordsOK
    BY InitShapes, InitWords
  <1>1. /\ typed = <<>> /\ draft = <<>> /\ marks = {} /\ served = {} /\ safe = {}
        /\ \A p \in Pages : /\ page[p] = "new" /\ key[p] = NoEntry /\ ed[p] = NewEditor
                            /\ listed[p] = NoLineage /\ write[p] = NoWrite /\ chore[p] = NoChore
                            /\ scan[p] = NoScan /\ plan[p] = NoPlan
    BY DEF Init
  <1>2. Texts = {} /\ None = {0} /\ DOMAIN draft = {}
    BY <1>1 DEF Texts, None
  <1>3. ListedOK
    BY DEF Init, ListedOK
  <1>4. Nested /\ NoteNewest /\ StoredSolid /\ SharedSolid /\ MarksOK /\ StonesOK /\ SafeOK
    BY <1>1, <1>2 DEF Nested, NoteNewest, StoredSolid, SharedSolid, MarksOK, StonesOK, SafeOK
  <1>5. ServedOK /\ ChoresPast /\ AppliedOK
    BY <1>1, NoLineageOK DEF ServedOK, ChoresPast, AppliedOK, NoChore, NoScan, NoPlan
  <1>6. UsesShown
    <2>1. \A q \in Pages : ed[q].shown = 0 /\ ~Gone(q)
      BY <1>1 DEF NewEditor, Gone
    <2> QED BY <1>0, <2>1 DEF UsesShown, WordsOK, BlankUses
  <1> QED BY <1>0, <1>3, <1>4, <1>5, <1>6 DEF KInv, IInv

LEMMA KeptStep ==
    ASSUME KInv, AdoptsDecided, [Next]_vars
    PROVE  KInv'
  <1>1. KStep
    BY KSteps
  <1>2. IInv' /\ Nested' /\ ListedOK'
    BY <1>1, KeysMoveStep DEF KStep, ListMoves
  <1> QED BY <1>1, <1>2, NoteKept, ServedKept, UsesShownKept, StoredKept, SharedKept, MarksKept,
             ChoresKept, StonesKept, AppliedKept, SafeKept DEF KInv

LEMMA KeptSafe ==
    ASSUME KInv
    PROVE  LostOnlyDropped
  <1>0. SafeOK
    BY DEF KInv
  <1> SUFFICES ASSUME NEW t \in safe, Lost(t) PROVE Over(t) \cap dropped # {}
    BY DEF LostOnlyDropped
  <1>1. \A u \in Over(t) : ~Held(u)
    BY DEF Lost
  <1>2. ~InKey(t) /\ \A u \in Over(t) : \A d \in DOMAIN draft : ~(Kept(d) /\ draft[d].text = u)
    BY <1>1 DEF InKey, Held
  <1>3. Ended(t)
    BY <1>0, <1>2 DEF SafeOK, Solid
  <1> QED BY <1>1, <1>3 DEF Ended, Held

\* No text that the store took, or a key with its body, is lost, unless a merge
\* dropped it or a tombstone was put over it: of any number of pages, while the
\* drafts that pages take over have the texts they decided on.
THEOREM TextStays == Spec /\ []AdoptsDecided => []LostOnlyDropped
  <1>1. KInv /\ AdoptsDecided /\ [Next]_vars => KInv'
    BY KeptStep
  <1>2. KInv => LostOnlyDropped
    BY KeptSafe
  <1> QED BY <1>1, <1>2, InitKept, PTL DEF Spec

\* Of two pages, always.
THEOREM TextStaysOfTwo == TwoPages => (Spec => []LostOnlyDropped)
  BY TakesDecided, TextStays, PTL

=============================================================================

-------------------------- MODULE Catalogue_proofs --------------------------
(***************************************************************************)
(* Books, rows and files, for any number of books, rows, requests and any  *)
(* scenes.                                                                 *)
(*                                                                         *)
(* TypeInv has what a request remembers at each of its places.  From it    *)
(* alone follow that an ISBN has one book and that a merge loses nothing;  *)
(* RowsInv keeps the rows with their books.  FilesInv is about scenes with *)
(* one request at a time: the request under way knows the rows as they     *)
(* are, and of every file it is clear whose it is; RemovingInv, ScanInv    *)
(* and GatherInv are about files under several requests at once.           *)
(* PictureInv has the times of covers and thumbnails, HouseInv the pages   *)
(* of the list, WalkInv what a walk through the pages may have missed.     *)
(***************************************************************************)
EXTENDS CatalogueLists, FiniteSetTheorems, WellFoundedInduction, TLAPS

Labels == {"idle", "start", "insert", "commit", "look", "unlink", "save", "set", "lock",
           "recheck", "fill"}

Looked == UNION {[B -> Isbn \cup {None}] : B \in SUBSET Book}
Covered == [cover : Path \cup {None}]

Working ==
    [pc : Labels, ask : Ask \cup {None}, seen : Looked \cup Covered \cup Book \cup {None},
     path : Path \cup {None}, sweep : SUBSET (Path \cup Kid)]

\* What a request has with it at each of its places.
Knows(w) ==
    /\ w.pc # "idle" => w.ask \in scene.asks
    /\ w.pc = "insert" => w.ask.kind \in {"create", "intake", "add"}
    /\ w.pc = "commit" => w.ask.kind = "delete"
    /\ w.pc = "save" => w.ask.kind \in {"cover", "intake", "link"} /\ w.path \in Path
    /\ w.pc = "save" /\ w.ask.kind = "cover" => w.seen \in Covered
    /\ w.pc = "save" /\ w.ask.kind = "intake" => w.seen \in Book \cup {None}
    /\ w.pc = "save" /\ w.ask.kind = "link" => w.seen \in Book
    /\ w.pc = "set" => w.ask.kind = "cover" /\ w.path \in Path /\ w.seen \in Covered
    /\ w.pc \in {"lock", "recheck"} => w.ask.kind = "intake"
    /\ w.pc = "fill" => w.ask.kind \in {"intake", "link"} /\ w.path \in Path /\ w.seen \in Book

RowTypes ==
    /\ scene \in Scenes
    /\ books \in [Book -> BookRow \cup {None}]
    /\ kids \in [Kid -> Book \cup {None}]
    /\ files \subseteq Path \cup Kid
    /\ lock \in Request \cup {None}

TypeInv ==
    /\ RowTypes
    /\ at \in [Request -> Working]
    /\ \A r \in Request : Knows(at[r])

\* A request and all it has with it.
State(pc, ask, seen, path, sweep) ==
    [pc |-> pc, ask |-> ask, seen |-> seen, path |-> path, sweep |-> sweep]

-----------------------------------------------------------------------------
(* What is asked, and what a row is.                                         *)
LEMMA AskParts ==
    ASSUME NEW a \in Ask
    PROVE  /\ a.kind \in {"create", "intake", "link", "update"} => a.isbn \in Isbn \cup {None}
           /\ a.kind \in {"create", "intake", "link"} => a.title \in Title
           /\ a.kind \in {"update", "delete", "cover", "link", "add"} => a.book \in Book
           /\ a.kind = "merge" => a.target \in Book /\ a.source \in Book
           /\ a.kind = "add" => a.kid \in Kid
           /\ a.kind \in {"create", "update", "merge", "delete", "cover", "intake", "link", "add"}
  BY DEF Ask

LEMMA LiveRows ==
    ASSUME RowTypes, NEW b \in Live
    PROVE  /\ b \in Book /\ books[b] \in BookRow
           /\ books[b].isbn \in Isbn \cup {None} /\ books[b].title \in Title
           /\ books[b].cover \in Path \cup {None}
  BY DEF RowTypes, Live, BookRow

LEMMA Names ==
    /\ \A i \in Isbn \cup {None}, t \in Title : NameOf(i, t) \in Name
    /\ \A n \in Name, b \in Book : Own(n, b) \in Path /\ Plain(n) \in Path
    /\ \A n \in Name : Spare(n) # {} => Unused(n) \in Path /\ Unused(n) \in Spare(n)
<1>1. \A i \in Isbn \cup {None}, t \in Title : NameOf(i, t) \in Name
  BY DEF NameOf, Name
<1>2. \A n \in Name, b \in Book : Own(n, b) \in Path /\ Plain(n) \in Path
  BY DEF Own, Plain, Path
<1>3. \A n \in Name : Spare(n) \subseteq Path
  BY DEF Spare, Path
<1>4. \A n \in Name : Spare(n) # {} => Unused(n) \in Spare(n)
  BY DEF Unused
<1> QED
  BY <1>1, <1>2, <1>3, <1>4

LEMMA Chosen ==
    ASSUME NEW a \in Ask, a.kind \in {"intake", "link"}, Spare(CoverNameOf(a)) # {}
    PROVE  ChosenPath(a) \in Path
<1>1. CoverNameOf(a) \in Name
  BY AskParts, Names DEF CoverNameOf, Name
<1> QED
  BY <1>1, Names, BookAssumption DEF ChosenPath, Plain, Path

-----------------------------------------------------------------------------
(* Steps.                                                                    *)
LEMMA Went ==
    ASSUME TypeInv, NEW r \in Request, NEW to, Go(r, to)
    PROVE  at' = [at EXCEPT ![r] = State(to, at[r].ask, at[r].seen, at[r].path, at[r].sweep)]
<1>1. at[r] \in Working
  BY DEF TypeInv
<1>2. [at[r] EXCEPT !.pc = to] = State(to, at[r].ask, at[r].seen, at[r].path, at[r].sweep)
  BY <1>1 DEF Working, State
<1>3. at' = [at EXCEPT ![r] = [at[r] EXCEPT !.pc = to]]
  BY DEF Go
<1> QED
  BY <1>2, <1>3

LEMMA Ended ==
    ASSUME TypeInv, NEW r \in Request, End(r)
    PROVE  at' = [at EXCEPT ![r] = State("idle", None, None, None, {})]
  BY DEF TypeInv, End, Idle, State

LEMMA Turned ==
    ASSUME NEW r, NEW to, NEW seen, NEW path, NEW sweep, Turn(r, to, seen, path, sweep)
    PROVE  at' = [at EXCEPT ![r] = State(to, at[r].ask, seen, path, sweep)]
  BY DEF Turn, State

\* Whoever moves leaves the others where they are.
LEMMA Moves ==
    ASSUME TypeInv, NEW r \in Request, NEW w \in Working, Knows(w), UNCHANGED scene,
           at' = [at EXCEPT ![r] = w], RowTypes'
    PROVE  TypeInv'
<1>1. at' \in [Request -> Working]
  BY DEF TypeInv
<1>2. ASSUME NEW q \in Request PROVE Knows(at[q])'
  <2>1. at'[q] = at[q] \/ at'[q] = w
    BY DEF TypeInv
  <2> QED
    BY <2>1 DEF TypeInv, Knows
<1> QED
  BY <1>1, <1>2 DEF TypeInv

LEMMA EndMoves ==
    ASSUME TypeInv, NEW r \in Request, End(r), UNCHANGED scene, RowTypes'
    PROVE  TypeInv'
<1>1. State("idle", None, None, None, {}) \in Working
  BY DEF State, Working, Labels
<1>2. Knows(State("idle", None, None, None, {}))
  BY DEF State, Knows
<1> QED
  BY <1>1, <1>2, Ended, Moves

\* A request's own record, and its ask.
LEMMA OwnState ==
    ASSUME TypeInv, NEW r \in Request
    PROVE  /\ at[r] \in Working /\ Knows(at[r])
           /\ at[r] = State(at[r].pc, at[r].ask, at[r].seen, at[r].path, at[r].sweep)
           /\ at[r].pc # "idle" => at[r].ask \in Ask
<1>1. at[r] \in Working /\ Knows(at[r]) /\ scene.asks \subseteq Ask
  BY SceneAssumption DEF TypeInv, RowTypes
<1> QED
  BY <1>1 DEF Working, Knows, State

-----------------------------------------------------------------------------
(* Every step keeps the types and what requests know.                        *)
LEMMA RowsStay == TypeInv /\ UNCHANGED <<scene, books, kids, files, lock>> => RowTypes'
  BY DEF TypeInv, RowTypes

LEMMA GoTypes ==
    ASSUME TypeInv, NEW r \in Request, NEW to \in Labels, Go(r, to), UNCHANGED scene, RowTypes',
           Knows(State(to, at[r].ask, at[r].seen, at[r].path, at[r].sweep))
    PROVE  TypeInv'
<1>1. State(to, at[r].ask, at[r].seen, at[r].path, at[r].sweep) \in Working
  BY OwnState DEF Working, State
<1> QED
  BY <1>1, Went, Moves

LEMMA IssueTypes ==
    ASSUME TypeInv, NEW r \in Request, Issue(r)
    PROVE  TypeInv'
<1>1. PICK a \in scene.asks :
        at' = [at EXCEPT ![r] = [Idle EXCEPT !.pc = "start", !.ask = a,
                    !.seen = [b \in Live |-> books[b].isbn]]]
  BY DEF Issue
<1> DEFINE w == State("start", a, [b \in Live |-> books[b].isbn], None, {})
<1>2. at' = [at EXCEPT ![r] = w]
  <2> DEFINE f == [b \in Live |-> books[b].isbn]
  <2> HIDE DEF f
  <2>1. [Idle EXCEPT !.pc = "start"] = State("start", None, None, None, {})
    BY DEF Idle, State
  <2>2. [State("start", None, None, None, {}) EXCEPT !.ask = a] = State("start", a, None, None, {})
    BY DEF State
  <2>3. [State("start", a, None, None, {}) EXCEPT !.seen = f] = State("start", a, f, None, {})
    BY DEF State
  <2>4. [Idle EXCEPT !.pc = "start", !.ask = a, !.seen = f] = State("start", a, f, None, {})
    BY <2>1, <2>2, <2>3
  <2> QED
    BY <1>1, <2>4 DEF f
<1>3. [b \in Live |-> books[b].isbn] \in Looked
  <2>1. Live \in SUBSET Book
    BY DEF Live
  <2>2. [b \in Live |-> books[b].isbn] \in [Live -> Isbn \cup {None}]
    BY LiveRows DEF TypeInv
  <2> QED
    BY <2>1, <2>2 DEF Looked
<1>4. w \in Working
  <2>1. a \in Ask
    BY SceneAssumption DEF TypeInv, RowTypes
  <2> QED
    BY <1>3, <2>1 DEF State, Working, Labels
<1>5. Knows(w)
  BY DEF State, Knows
<1>6. RowTypes' /\ UNCHANGED scene
  BY RowsStay DEF Issue
<1> QED
  BY <1>2, <1>4, <1>5, <1>6, Moves

\* A new row has the id nobody has.
LEMMA InsertRow ==
    ASSUME TypeInv, NewId \in Book, NEW i \in Isbn \cup {None}, NEW t \in Title,
           NEW c \in Path \cup {None}, books' = [books EXCEPT ![NewId] = Row(i, t, c)],
           UNCHANGED <<scene, kids>>, files' \subseteq files, lock' \in Request \cup {None}
    PROVE  RowTypes'
<1>1. Row(i, t, c) \in BookRow
  BY DEF Row, BookRow
<1> QED
  BY <1>1 DEF TypeInv, RowTypes

LEMMA CreateTypes ==
    ASSUME TypeInv, NEW r \in Request, CreateLook(r) \/ CreateInsert(r)
    PROVE  TypeInv'
<1>1. CASE CreateLook(r)
  <2>1. RowTypes' /\ UNCHANGED scene
    BY <1>1, RowsStay DEF CreateLook
  <2>2. CASE End(r)
    BY <2>1, <2>2, EndMoves
  <2>3. CASE Go(r, "insert")
    <3>1. Knows(State("insert", at[r].ask, at[r].seen, at[r].path, at[r].sweep))
      BY <1>1, OwnState DEF Knows, State, CreateLook, In
    <3> QED
      BY <2>1, <2>3, <3>1, GoTypes DEF Labels
  <2> QED
    BY <1>1, <2>2, <2>3 DEF CreateLook
<1>2. CASE CreateInsert(r)
  <2>1. at[r].ask \in Ask /\ at[r].ask.kind = "create"
    BY <1>2, OwnState DEF CreateInsert, In
  <2>2. RowTypes'
    <3>1. CASE Taken(at[r].ask.isbn, Live)
      BY <1>2, <3>1, RowsStay DEF CreateInsert
    <3>2. CASE ~Taken(at[r].ask.isbn, Live)
      BY <1>2, <2>1, <3>2, InsertRow, AskParts DEF CreateInsert, TypeInv, RowTypes
    <3> QED BY <3>1, <3>2
  <2> QED
    BY <1>2, <2>2, EndMoves DEF CreateInsert
<1> QED
  BY <1>1, <1>2

LEMMA UpdateTypes ==
    ASSUME TypeInv, NEW r \in Request, Update(r)
    PROVE  TypeInv'
<1> DEFINE a == at[r].ask
<1>1. a \in Ask /\ a.kind = "update"
  BY OwnState DEF Update, In
<1>2. RowTypes'
  <2>1. CASE a.book \in Live /\ books' = [books EXCEPT ![a.book].isbn = a.isbn]
    <3>1. books[a.book] \in BookRow /\ a.isbn \in Isbn \cup {None}
      BY <1>1, <2>1, LiveRows, AskParts DEF TypeInv
    <3>2. [books[a.book] EXCEPT !.isbn = a.isbn] \in BookRow
      BY <3>1 DEF BookRow
    <3> QED
      BY <2>1, <3>2 DEF Update, TypeInv, RowTypes
  <2>2. CASE books' = books
    BY <2>2, RowsStay DEF Update
  <2> QED
    BY <2>1, <2>2 DEF Update
<1> QED
  BY <1>2, EndMoves DEF Update

LEMMA MergeTypes ==
    ASSUME TypeInv, NEW r \in Request, Merge(r) \/ RefuseMerge(r)
    PROVE  TypeInv'
<1>1. CASE RefuseMerge(r)
  BY <1>1, RowsStay, EndMoves DEF RefuseMerge
<1>2. CASE Merge(r)
  <2> DEFINE a == at[r].ask
             t == books[a.target]
             s == books[a.source]
             w == State("look", a, None, LeftCover(a.target, a.source), {})
  <2>1. a \in Ask /\ a.kind = "merge" /\ a.target \in Live /\ a.source \in Live
    BY <1>2, OwnState DEF Merge, In, MayMerge
  <2>2. /\ t \in BookRow /\ s \in BookRow /\ t.isbn \in Isbn \cup {None} /\ s.isbn \in Isbn \cup {None}
        /\ t.cover \in Path \cup {None} /\ s.cover \in Path \cup {None}
    BY <2>1, LiveRows DEF TypeInv
  <2>3. /\ kids' = Migrated(a.target, a.source)
        /\ books' = [books EXCEPT ![a.target] = [t EXCEPT !.isbn = Filled(t.isbn, s.isbn),
                                                          !.cover = Filled(t.cover, s.cover)],
                                  ![a.source] = None]
        /\ UNCHANGED <<scene, files, lock>>
    BY <1>2 DEF Merge
  <2>4. [t EXCEPT !.isbn = Filled(t.isbn, s.isbn), !.cover = Filled(t.cover, s.cover)] \in BookRow
    BY <2>2 DEF BookRow, Filled
  <2>5. kids' \in [Kid -> Book \cup {None}]
    BY <2>1, <2>3 DEF Migrated, Live, TypeInv, RowTypes
  <2>6. RowTypes'
    BY <2>3, <2>4, <2>5 DEF TypeInv, RowTypes
  <2>7. at' = [at EXCEPT ![r] = w]
    BY <1>2, Turned DEF Merge
  <2>8. w \in Working
    BY <2>1, <2>2, OwnState DEF State, Working, Labels, LeftCover
  <2>9. Knows(w)
    BY <1>2, OwnState DEF Knows, State, Merge, In
  <2> QED
    BY <2>3, <2>6, <2>7, <2>8, <2>9, Moves
<1> QED
  BY <1>1, <1>2

LEMMA TurnTypes ==
    ASSUME TypeInv, NEW r \in Request, at[r].pc # "idle",
           NEW to \in Labels, NEW seen \in Looked \cup Covered \cup Book \cup {None},
           NEW path \in Path \cup {None}, NEW sweep \in SUBSET (Path \cup Kid),
           Turn(r, to, seen, path, sweep), UNCHANGED scene, RowTypes',
           Knows(State(to, at[r].ask, seen, path, sweep))
    PROVE  TypeInv'
<1>1. State(to, at[r].ask, seen, path, sweep) \in Working
  BY OwnState DEF Working, State
<1> QED
  BY <1>1, Turned, Moves

LEMMA DeleteTypes ==
    ASSUME TypeInv, NEW r \in Request, DeleteRead(r) \/ DeleteCommit(r)
    PROVE  TypeInv'
<1> DEFINE b == at[r].ask.book
<1>1. CASE DeleteRead(r)
  <2>1. RowTypes' /\ UNCHANGED scene
    BY <1>1, RowsStay DEF DeleteRead
  <2>2. CASE End(r)
    BY <2>1, <2>2, EndMoves
  <2>3. CASE b \in Live /\ Turn(r, "commit", None, books[b].cover, {k \in Of(b) : Attachment(k)})
    <3>1. books[b].cover \in Path \cup {None}
      BY <2>3, LiveRows DEF TypeInv
    <3>2. {k \in Of(b) : Attachment(k)} \in SUBSET (Path \cup Kid)
      BY DEF Of
    <3>3. Knows(State("commit", at[r].ask, None, books[b].cover, {k \in Of(b) : Attachment(k)}))
      BY <1>1, OwnState DEF Knows, State, DeleteRead, In
    <3> QED
      BY <1>1, <2>1, <2>3, <3>1, <3>2, <3>3, TurnTypes DEF Labels, DeleteRead, In
  <2> QED
    BY <1>1, <2>2, <2>3 DEF DeleteRead
<1>2. CASE DeleteCommit(r)
  <2>1. RowTypes' /\ UNCHANGED scene
    BY <1>2 DEF DeleteCommit, TypeInv, RowTypes
  <2>2. Knows(State("look", at[r].ask, at[r].seen, at[r].path, at[r].sweep))
    BY <1>2, OwnState DEF Knows, State, DeleteCommit, In
  <2> QED
    BY <1>2, <2>1, <2>2, GoTypes DEF Labels, DeleteCommit
<1> QED
  BY <1>1, <1>2

LEMMA RemoveTypes ==
    ASSUME TypeInv, NEW r \in Request, Look(r) \/ Unlink(r)
    PROVE  TypeInv'
<1>1. CASE Look(r)
  <2> DEFINE found == at[r].sweep \cup (IF Unreferenced(at[r].path) THEN {at[r].path} ELSE {})
  <2>1. found \in SUBSET (Path \cup Kid)
    BY OwnState DEF Working, Unreferenced
  <2>2. Knows(State("unlink", at[r].ask, None, None, found))
    BY <1>1, OwnState DEF Knows, State, Look
  <2>3. RowTypes' /\ UNCHANGED scene /\ Turn(r, "unlink", None, None, found) /\ at[r].pc # "idle"
    BY <1>1, RowsStay DEF Look
  <2> HIDE DEF found
  <2> QED
    BY <2>1, <2>2, <2>3, TurnTypes DEF Labels
<1>2. CASE Unlink(r)
  <2>1. RowTypes'
    BY <1>2 DEF Unlink, TypeInv, RowTypes
  <2> QED
    BY <1>2, <2>1, EndMoves DEF Unlink
<1> QED
  BY <1>1, <1>2

LEMMA CoverTypes ==
    ASSUME TypeInv, NEW r \in Request, CoverRead(r) \/ CoverSave(r) \/ CoverSet(r)
    PROVE  TypeInv'
<1> DEFINE a == at[r].ask
           b == at[r].ask.book
<1>1. a \in Ask /\ a.kind = "cover" /\ b \in Book /\ at[r].pc # "idle"
  BY OwnState, AskParts DEF CoverRead, CoverSave, CoverSet, In
<1>2. CASE CoverRead(r)
  <2>1. RowTypes' /\ UNCHANGED scene
    BY <1>2, RowsStay DEF CoverRead
  <2>2. CASE End(r)
    BY <2>1, <2>2, EndMoves
  <2>3. CASE ~End(r)
    <3> DEFINE seen == [cover |-> books[b].cover]
               path == Own(NameOf(books[b].isbn, books[b].title), b)
    <3>1. b \in Live /\ Turn(r, "save", seen, path, {})
      BY <1>2, <2>3 DEF CoverRead
    <3>2. seen \in Covered /\ path \in Path
      BY <1>1, <3>1, LiveRows, Names DEF TypeInv, Covered
    <3>3. Knows(State("save", a, seen, path, {}))
      BY <1>1, <3>2, OwnState DEF Knows, State
    <3> HIDE DEF seen, path
    <3> QED
      BY <1>1, <2>1, <3>1, <3>2, <3>3, TurnTypes DEF Labels
  <2> QED
    BY <2>2, <2>3
<1>3. CASE CoverSave(r)
  <2>1. Knows(State("set", a, at[r].seen, at[r].path, at[r].sweep)) /\ at[r].path \in Path
    BY <1>3, OwnState DEF Knows, State, CoverSave, In
  <2>2. RowTypes'
    BY <1>3, <2>1 DEF CoverSave, TypeInv, RowTypes
  <2> QED
    BY <1>3, <2>1, <2>2, GoTypes DEF Labels, CoverSave
<1>4. CASE CoverSet(r)
  <2> DEFINE old == at[r].seen.cover
  <2>1. old \in Path \cup {None} /\ at[r].path \in Path
    BY <1>4, OwnState DEF Knows, CoverSet, In, Covered
  <2>2. CASE End(r) /\ UNCHANGED books
    BY <1>4, <2>2, RowsStay, EndMoves DEF CoverSet
  <2>3. CASE ~(End(r) /\ UNCHANGED books)
    <3>1. b \in Live /\ books' = [books EXCEPT ![b].cover = at[r].path] /\ Turn(r, "look", None, old, {})
      BY <1>4, <2>3 DEF CoverSet
    <3>2. RowTypes'
      <4>1. [books[b] EXCEPT !.cover = at[r].path] \in BookRow
        BY <2>1, <3>1, LiveRows DEF TypeInv, BookRow
      <4> QED
        BY <1>4, <3>1, <4>1 DEF CoverSet, TypeInv, RowTypes
    <3>3. Knows(State("look", a, None, old, {}))
      BY <1>1, OwnState DEF Knows, State
    <3> HIDE DEF old
    <3> QED
      BY <1>1, <1>4, <2>1, <3>1, <3>2, <3>3, TurnTypes DEF Labels, CoverSet
  <2> QED
    BY <2>2, <2>3
<1> QED
  BY <1>2, <1>3, <1>4

LEMMA FoundLive == ASSUME NEW a PROVE Found(a) \subseteq Live
  BY DEF Found

LEMMA IntakeLookTypes ==
    ASSUME TypeInv, NEW r \in Request, IntakeLook(r) \/ LinkLook(r)
    PROVE  TypeInv'
<1> DEFINE a == at[r].ask
<1>1. /\ a \in Ask /\ a.kind \in {"intake", "link"} /\ at[r].pc # "idle"
      /\ ChosenPath(a) \in Path /\ RowTypes' /\ UNCHANGED scene
  BY OwnState, Chosen, RowsStay DEF IntakeLook, LinkLook, In
<1>2. CASE End(r)
  BY <1>1, <1>2, EndMoves
<1>3. CASE a.kind = "intake" /\ Turn(r, "lock", None, None, {})
  <2>1. Knows(State("lock", a, None, None, {}))
    BY <1>1, <1>3, OwnState DEF Knows, State
  <2> QED
    BY <1>1, <1>3, <2>1, TurnTypes DEF Labels
<1>4. ASSUME NEW b \in Live \cup {None}, Turn(r, "save", b, ChosenPath(a), {}),
             a.kind = "link" => b # None
      PROVE  TypeInv'
  <2>1. b \in Book \cup {None}
    BY DEF Live
  <2>2. Knows(State("save", a, b, ChosenPath(a), {}))
    BY <1>1, <1>4, <2>1, OwnState DEF Knows, State
  <2> QED
    BY <1>1, <1>4, <2>1, <2>2, TurnTypes DEF Labels
<1> QED
  <2>1. \A b \in Live : b # None
    BY NoneAssumption DEF Live
  <2>2. CASE IntakeLook(r)
    BY <1>2, <1>3, <1>4, <2>1, <2>2, FoundLive DEF IntakeLook, In
  <2>3. CASE LinkLook(r)
    BY <1>2, <1>4, <2>1, <2>3 DEF LinkLook, In
  <2> QED
    BY <2>2, <2>3

LEMMA SaveTypes ==
    ASSUME TypeInv, NEW r \in Request, Save(r) \/ DownloadFails(r) \/ Lock(r)
    PROVE  TypeInv'
<1> DEFINE a == at[r].ask
<1>1. CASE Save(r)
  <2>1. at[r].path \in Path /\ at[r].seen \in Book \cup {None} /\ a.kind \in {"intake", "link"}
    BY <1>1, OwnState DEF Knows, Save
  <2>2. RowTypes' /\ UNCHANGED scene
    BY <1>1, <2>1 DEF Save, TypeInv, RowTypes
  <2>3. CASE at[r].seen = None
    <3>1. Knows(State("lock", a, at[r].seen, at[r].path, at[r].sweep))
      BY <1>1, <2>1, <2>3, OwnState, NoneAssumption DEF Knows, State, Save
    <3> QED
      BY <1>1, <2>2, <2>3, <3>1, GoTypes DEF Labels, Save
  <2>4. CASE at[r].seen # None
    <3>1. Knows(State("fill", a, at[r].seen, at[r].path, at[r].sweep))
      BY <1>1, <2>1, <2>4, OwnState DEF Knows, State, Save
    <3> QED
      BY <1>1, <2>2, <2>4, <3>1, GoTypes DEF Labels, Save
  <2> QED
    BY <2>3, <2>4
<1>2. CASE DownloadFails(r)
  <2>1. Knows(State("lock", a, None, None, {}))
    BY <1>2, OwnState DEF Knows, State, DownloadFails, In
  <2> QED
    BY <1>2, <2>1, RowsStay, TurnTypes DEF Labels, DownloadFails, In
<1>3. CASE Lock(r)
  <2>1. Knows(State("recheck", a, at[r].seen, at[r].path, at[r].sweep))
    BY <1>3, OwnState DEF Knows, State, Lock
  <2>2. RowTypes'
    BY <1>3 DEF Lock, TypeInv, RowTypes
  <2> QED
    BY <1>3, <2>1, <2>2, GoTypes DEF Labels, Lock
<1> QED
  BY <1>1, <1>2, <1>3

LEMMA RecheckTypes ==
    ASSUME TypeInv, NEW r \in Request, Recheck(r)
    PROVE  TypeInv'
<1> DEFINE a == at[r].ask
<1>1. a \in Ask /\ a.kind = "intake" /\ at[r].pc # "idle" /\ UNCHANGED scene
  BY OwnState DEF Recheck, Knows
<1>2. ASSUME files' \subseteq files, lock' \in Request \cup {None}
      PROVE  RowTypes'
  BY <1>2 DEF Recheck, TypeInv, RowTypes
<1>3. ASSUME Release(r) \/ UNCHANGED lock
      PROVE  lock' \in Request \cup {None}
  BY <1>3 DEF Release, TypeInv, RowTypes
<1>4. Cleaned(r) \subseteq files
  BY DEF Cleaned
<1>5. CASE End(r)
  BY <1>1, <1>2, <1>3, <1>4, <1>5, EndMoves DEF Recheck
<1>6. ASSUME NEW b \in Found(a), at[r].path # None, Turn(r, "fill", b, at[r].path, {}), RowTypes'
      PROVE  TypeInv'
  <2>1. b \in Book /\ at[r].path \in Path
    BY <1>6, OwnState, FoundLive DEF Working, Live
  <2>2. Knows(State("fill", a, b, at[r].path, {}))
    BY <1>1, <2>1, OwnState DEF Knows, State
  <2> QED
    BY <1>1, <1>6, <2>1, <2>2, TurnTypes DEF Labels
<1>7. CASE Go(r, "insert") /\ RowTypes'
  <2>1. Knows(State("insert", a, at[r].seen, at[r].path, at[r].sweep))
    BY <1>1, OwnState DEF Knows, State
  <2> QED
    BY <1>1, <1>7, <2>1, GoTypes DEF Labels
<1>8. CASE UNCHANGED <<files, lock>>
  BY <1>2, <1>3, <1>5, <1>6, <1>7, <1>8 DEF Recheck, TypeInv, RowTypes
<1>9. CASE End(r) \/ UNCHANGED <<files, lock>>
  BY <1>5, <1>8, <1>9
<1> QED
  BY <1>9 DEF Recheck

LEMMA FillTypes ==
    ASSUME TypeInv, NEW r \in Request, Fill(r) \/ IntakeInsert(r)
    PROVE  TypeInv'
<1>1. lock' \in Request \cup {None} /\ UNCHANGED <<scene, kids>> /\ End(r)
  BY DEF Fill, IntakeInsert, Release, TypeInv, RowTypes
<1>2. Cleaned(r) \subseteq files
  BY DEF Cleaned
<1>3. CASE Fill(r)
  <2> DEFINE b == at[r].seen
  <2>1. at[r].path \in Path
    BY <1>3, OwnState DEF Knows, Fill
  <2>2. ASSUME b \in Live PROVE [books[b] EXCEPT !.cover = at[r].path] \in BookRow
    BY <2>1, <2>2, LiveRows DEF TypeInv, BookRow
  <2>3. books' \in [Book -> BookRow \cup {None}] /\ files' \subseteq files
    BY <1>2, <1>3, <2>2 DEF Fill, NotFilled, TypeInv, RowTypes
  <2> QED
    BY <1>1, <2>3, EndMoves DEF TypeInv, RowTypes
<1>4. CASE IntakeInsert(r)
  <2> DEFINE a == at[r].ask
  <2>1. a \in Ask /\ a.kind = "intake" /\ at[r].path \in Path \cup {None}
    BY <1>4, OwnState DEF IntakeInsert, In, Working
  <2>2. a.isbn \in Isbn \cup {None} /\ a.title \in Title
    BY <2>1, AskParts
  <2>0. UNCHANGED files
    BY <1>4 DEF IntakeInsert
  <2>3. CASE UNCHANGED books
    BY <1>1, <2>0, <2>3, EndMoves DEF TypeInv, RowTypes
  <2>4. CASE /\ NewId \in Book
             /\ books' = [books EXCEPT ![NewId] = Row(a.isbn, a.title, at[r].path)]
    BY <1>1, <2>0, <2>1, <2>2, <2>4, InsertRow, EndMoves
  <2> QED
    BY <1>4, <2>3, <2>4 DEF IntakeInsert
<1> QED
  BY <1>3, <1>4

LEMMA AddTypes ==
    ASSUME TypeInv, NEW r \in Request, AddLook(r) \/ AddInsert(r)
    PROVE  TypeInv'
<1> DEFINE a == at[r].ask
<1>1. a \in Ask /\ a.kind = "add" /\ a.kid \in Kid /\ a.book \in Book /\ at[r].pc # "idle"
  BY OwnState, AskParts DEF AddLook, AddInsert, In
<1>2. CASE AddLook(r)
  <2>1. RowTypes' /\ UNCHANGED scene
    BY <1>1, <1>2 DEF AddLook, TypeInv, RowTypes
  <2>2. Knows(State("insert", a, at[r].seen, at[r].path, at[r].sweep))
    BY <1>1, OwnState DEF Knows, State
  <2> QED
    BY <1>1, <1>2, <2>1, <2>2, GoTypes, EndMoves DEF Labels, AddLook
<1>3. CASE AddInsert(r)
  <2>1. RowTypes'
    BY <1>1, <1>3 DEF AddInsert, TypeInv, RowTypes
  <2> QED
    BY <1>3, <2>1, EndMoves DEF AddInsert
<1> QED
  BY <1>2, <1>3

LEMMA FaultTypes ==
    ASSUME TypeInv, NEW r \in Request, Die(r) \/ Busy(r) \/ Refused(r)
    PROVE  TypeInv'
<1>1. Cleaned(r) \subseteq files
  BY DEF Cleaned
<1>2. RowTypes'
  BY <1>1 DEF Die, Busy, Refused, NotFilled, Release, TypeInv, RowTypes
<1> QED
  BY <1>2, EndMoves DEF Die, Busy, Refused

LEMMA TypesStart == Init => TypeInv
<1> SUFFICES ASSUME Init PROVE TypeInv
  OBVIOUS
<1>1. books \in [Book -> BookRow \cup {None}] /\ kids \in [Kid -> Book \cup {None}] /\ scene \in Scenes
  BY SceneAssumption DEF Init
<1>2. Used \subseteq Path
  BY <1>1 DEF Used, Live, BookRow
<1>3. RowTypes
  BY <1>1, <1>2 DEF Init, RowTypes
<1>4. Idle = State("idle", None, None, None, {})
  BY DEF Idle, State
<1>5. Idle \in Working /\ Knows(Idle)
  BY <1>4 DEF State, Working, Labels, Knows
<1> QED
  BY <1>3, <1>5 DEF TypeInv, Init

\* All that the catalogue's variables but the bound of requests.
rows == <<scene, books, kids, files, lock, at>>

LEMMA SceneStays == [Next]_rows => scene' = scene
  BY DEF rows, Next, Issue, CreateLook, CreateInsert, Update, Merge, RefuseMerge, DeleteRead, DeleteCommit,
         Look, Unlink, CoverRead, CoverSave, CoverSet, IntakeLook, LinkLook, Save, DownloadFails, Lock,
         Recheck, Fill, IntakeInsert, AddLook, AddInsert, Die, Busy, Refused

LEMMA TypesStep == TypeInv /\ [Next]_rows => TypeInv'
<1> SUFFICES ASSUME TypeInv, [Next]_rows PROVE TypeInv'
  OBVIOUS
<1>1. CASE UNCHANGED rows
  BY <1>1 DEF rows, TypeInv, RowTypes, Knows
<1>2. CASE Next
  BY <1>2, IssueTypes, CreateTypes, UpdateTypes, MergeTypes, DeleteTypes, RemoveTypes, CoverTypes,
     IntakeLookTypes, SaveTypes, RecheckTypes, FillTypes, AddTypes, FaultTypes DEF Next
<1> QED
  BY <1>1, <1>2

-----------------------------------------------------------------------------
(* One book per ISBN: a step changes the ISBN of one book at most, and the   *)
(* unique column refuses one that another book has.                          *)
LEMMA OneChange ==
    ASSUME OneBookPerIsbn, NEW b,
           \A c \in Live' \ {b} : c \in Live /\ books'[c].isbn = books[c].isbn,
           b \in Live' => \/ books'[b].isbn = None
                          \/ \A c \in Live' \ {b} : books[c].isbn # books'[b].isbn
    PROVE  OneBookPerIsbn'
  BY DEF OneBookPerIsbn

LEMMA InsertOne ==
    ASSUME TypeInv, OneBookPerIsbn, NewId \in Book, NEW i, NEW t, NEW c, ~Taken(i, Live),
           books' = [books EXCEPT ![NewId] = Row(i, t, c)]
    PROVE  OneBookPerIsbn'
<1> DEFINE n == NewId
<1> HIDE DEF n
<1>1. books'[n].isbn = i /\ \A b \in Book \ {n} : books'[b] = books[b]
  BY DEF n, TypeInv, RowTypes, Row
<1>2. \A b \in Live' \ {n} : b \in Live /\ books'[b].isbn = books[b].isbn
  BY <1>1 DEF Live
<1>3. i # None => \A b \in Live : books[b].isbn # i
  BY DEF Taken, Isbns
<1> QED
  BY <1>1, <1>2, <1>3, OneChange

LEMMA SameIsbns ==
    ASSUME TypeInv, OneBookPerIsbn, NEW b \in Live, NEW c \in Path \cup {None},
           books' = [books EXCEPT ![b].cover = c]
    PROVE  OneBookPerIsbn' /\ Live' = Live
<1>1. books[b] \in BookRow /\ b \in Book
  BY LiveRows DEF TypeInv
<1>2. books'[b] = [books[b] EXCEPT !.cover = c] /\ \A o \in Book \ {b} : books'[o] = books[o]
  BY <1>1 DEF TypeInv, RowTypes
<1>3. books'[b].isbn = books[b].isbn
  BY <1>1, <1>2 DEF BookRow
<1>4. \A o \in Live' \ {b} : o \in Live /\ books'[o].isbn = books[o].isbn
  BY <1>2 DEF Live
<1>5. \A o \in Live \ {b} : books[b].isbn = None \/ books[o].isbn # books[b].isbn
  BY DEF OneBookPerIsbn
<1>6. OneBookPerIsbn'
  BY <1>3, <1>4, <1>5, OneChange
<1>7. books'[b] # None
  <2>1. [books[b] EXCEPT !.cover = c] \in BookRow
    BY <1>1 DEF BookRow
  <2> QED
    BY <1>2, <2>1, NoneAssumption
<1> QED
  BY <1>2, <1>6, <1>7 DEF Live

LEMMA MergeOne ==
    ASSUME TypeInv, OneBookPerIsbn, NEW r \in Request, Merge(r)
    PROVE  OneBookPerIsbn'
<1> DEFINE a == at[r].ask
           t == books[a.target]
           s == books[a.source]
<1>1. a.target \in Live /\ a.source \in Live /\ a.target # a.source
  BY DEF Merge, MayMerge
<1>2. t \in BookRow /\ s \in BookRow /\ a.target \in Book /\ a.source \in Book
  BY <1>1, LiveRows DEF TypeInv
<1>3. books' = [books EXCEPT ![a.target] = [t EXCEPT !.isbn = Filled(t.isbn, s.isbn),
                                                     !.cover = Filled(t.cover, s.cover)],
                             ![a.source] = None]
  BY DEF Merge
<1>4. /\ books'[a.target] = [t EXCEPT !.isbn = Filled(t.isbn, s.isbn), !.cover = Filled(t.cover, s.cover)]
      /\ books'[a.source] = None
      /\ \A b \in Book \ {a.target, a.source} : books'[b] = books[b]
  BY <1>1, <1>2, <1>3 DEF TypeInv, RowTypes
<1>5. books'[a.target].isbn = Filled(t.isbn, s.isbn)
  BY <1>2, <1>4 DEF BookRow
<1>6. \A b \in Live' \ {a.target} : b \in Live \ {a.target, a.source} /\ books'[b].isbn = books[b].isbn
  BY <1>4 DEF Live
<1>7. \/ Filled(t.isbn, s.isbn) = None
      \/ \A b \in Live \ {a.target, a.source} : books[b].isbn # Filled(t.isbn, s.isbn)
  BY <1>1 DEF Filled, OneBookPerIsbn
<1> QED
  BY <1>5, <1>6, <1>7, OneChange

LEMMA UpdateOne ==
    ASSUME TypeInv, OneBookPerIsbn, NEW r \in Request, Update(r), books' # books
    PROVE  OneBookPerIsbn' /\ Live' = Live
<1> DEFINE a == at[r].ask
<1>1. /\ a.book \in Live /\ ~Taken(a.isbn, Live \ {a.book})
      /\ books' = [books EXCEPT ![a.book].isbn = a.isbn]
  BY DEF Update
<1>2. books[a.book] \in BookRow /\ a.book \in Book
  BY <1>1, LiveRows DEF TypeInv
<1>3. /\ books'[a.book] = [books[a.book] EXCEPT !.isbn = a.isbn]
      /\ \A b \in Book \ {a.book} : books'[b] = books[b]
  BY <1>1, <1>2 DEF TypeInv, RowTypes
<1>4. books'[a.book].isbn = a.isbn
  BY <1>2, <1>3 DEF BookRow
<1>5. \A b \in Live' \ {a.book} : b \in Live \ {a.book} /\ books'[b].isbn = books[b].isbn
  BY <1>3 DEF Live
<1>6. a.isbn = None \/ \A b \in Live \ {a.book} : books[b].isbn # a.isbn
  BY <1>1 DEF Taken, Isbns
<1>7. OneBookPerIsbn'
  BY <1>4, <1>5, <1>6, OneChange
<1>8. books'[a.book] # None
  <2>1. books' \in [Book -> BookRow \cup {None}]
    BY UpdateTypes DEF TypeInv, RowTypes
  <2>2. [books[a.book] EXCEPT !.isbn = a.isbn] \in BookRow
    <3>1. a.isbn \in Isbn \cup {None}
      BY OwnState, AskParts DEF Update, In
    <3> QED
      BY <1>2, <3>1 DEF BookRow
  <2> QED
    BY <1>3, <2>2, NoneAssumption
<1> QED
  BY <1>1, <1>3, <1>7, <1>8 DEF Live

LEMMA DropOne ==
    ASSUME TypeInv, OneBookPerIsbn, NEW b \in Book, books' = [books EXCEPT ![b] = None]
    PROVE  OneBookPerIsbn'
<1>1. books'[b] = None /\ \A o \in Book \ {b} : books'[o] = books[o]
  BY DEF TypeInv, RowTypes
<1> QED
  BY <1>1, OneChange DEF Live

LEMMA IsbnsStep == TypeInv /\ OneBookPerIsbn /\ [Next]_rows => OneBookPerIsbn'
<1> SUFFICES ASSUME TypeInv, OneBookPerIsbn, [Next]_rows PROVE OneBookPerIsbn'
  OBVIOUS
<1>1. CASE UNCHANGED books
  BY <1>1 DEF OneBookPerIsbn, Live
<1>2. CASE \E r \in Request : Merge(r) \/ (Update(r) /\ books' # books)
  BY <1>2, MergeOne, UpdateOne
<1>3. ASSUME NEW r \in Request, CreateInsert(r) \/ IntakeInsert(r), books' # books
      PROVE  OneBookPerIsbn'
  BY <1>3, InsertOne DEF CreateInsert, IntakeInsert
<1>4. ASSUME NEW r \in Request, DeleteCommit(r)
      PROVE  OneBookPerIsbn'
  <2>1. at[r].ask.book \in Book
    BY <1>4, OwnState, AskParts DEF DeleteCommit, In
  <2> QED
    BY <1>4, <2>1, DropOne DEF DeleteCommit
<1>5. ASSUME NEW r \in Request, CoverSet(r) \/ Fill(r), books' # books
      PROVE  OneBookPerIsbn'
  BY <1>5, SameIsbns, OwnState DEF CoverSet, Fill, Knows, In
<1>6. CASE books' # books
  <2>1. PICK r \in Request :
          \/ Merge(r) \/ Update(r) \/ CreateInsert(r) \/ IntakeInsert(r) \/ DeleteCommit(r)
          \/ CoverSet(r) \/ Fill(r)
    BY <1>6 DEF Next, rows, Issue, CreateLook, RefuseMerge, DeleteRead, Look, Unlink, CoverRead, CoverSave,
                IntakeLook, LinkLook, Save, DownloadFails, Lock, Recheck, AddLook, AddInsert, Die, Busy, Refused
  <2> QED
    BY <1>2, <1>3, <1>4, <1>5, <1>6, <2>1
<1> QED
  BY <1>1, <1>6

LEMMA IsbnsStart == Init => OneBookPerIsbn
  BY SceneAssumption DEF Init, OneBookPerIsbn, Live

\* The requests alone, and with the readers of thumbnails and lists beside them.
LEMMA Behaviours == Spec \/ LSpec => Init /\ [][Next]_rows
<1>1. LInit => Init
  BY DEF LInit, TInit
<1>2. [Next]_vars => [Next]_rows
  BY DEF vars, rows
<1>3. [LNext]_<<vars, pvars, lvars>> => [Next]_rows
  <2> SUFFICES ASSUME [LNext]_<<vars, pvars, lvars>> PROVE [Next]_rows
    OBVIOUS
  <2>1. CASE UNCHANGED vars
    BY <2>1 DEF vars, rows
  <2>2. CASE SetLevel \/ SetStatus
    BY <2>2 DEF SetLevel, SetStatus, rows
  <2>3. CASE TNext
    BY <2>1, <2>3 DEF TNext, Files
  <2> QED
    BY <2>1, <2>2, <2>3 DEF LNext
<1> QED
  BY <1>1, <1>2, <1>3, PTL DEF Spec, LSpec

\* No two books have one ISBN, however creations, intakes, edits and merges overlap.
THEOREM OneBookPerIsbnHolds == Spec \/ LSpec => [](TypeInv /\ OneBookPerIsbn)
<1>1. Init => TypeInv /\ OneBookPerIsbn
  BY TypesStart, IsbnsStart
<1>2. TypeInv /\ OneBookPerIsbn /\ [Next]_rows => (TypeInv /\ OneBookPerIsbn)'
  BY TypesStep, IsbnsStep
<1> QED
  BY <1>1, <1>2, Behaviours, PTL

-----------------------------------------------------------------------------
(* A merge loses nothing.                                                    *)
LEMMA OthersStay ==
    ASSUME TypeInv, NEW q \in Request, NEW r \in Request \ {q}, NEW to, NEW seen, NEW path, NEW sweep,
           Go(q, to) \/ End(q) \/ Turn(q, to, seen, path, sweep)
    PROVE  at'[r] = at[r]
  BY DEF TypeInv, Go, End, Turn

LEMMA MergeOnly ==
    ASSUME TypeInv, Next, NEW r \in Request, In(r, "merge", "start"), at'[r].pc = "look"
    PROVE  Merge(r)
<1>2. at'[r] # Idle
  BY DEF Idle
<1>3. ~End(r)
  BY <1>2 DEF End, TypeInv
<1>4. \A q \in Request \ {r} : at'[r] # at[r]
  BY DEF In
<1>5. \A q \in Request \ {r} : \A to : ~Go(q, to) /\ ~End(q)
  BY <1>4, OthersStay DEF Go, End, TypeInv
<1>6. \A q \in Request \ {r} : \A to, seen, path, sweep : ~Turn(q, to, seen, path, sweep)
  BY <1>4 DEF Turn, TypeInv
<1>7. \A q \in Request \ {r} : ~Issue(q)
  BY <1>4 DEF Issue, TypeInv
<1>8. PICK q \in Request :
        \/ Issue(q) \/ CreateLook(q) \/ CreateInsert(q) \/ Update(q)
        \/ Merge(q) \/ RefuseMerge(q) \/ DeleteRead(q) \/ DeleteCommit(q)
        \/ Look(q) \/ Unlink(q) \/ CoverRead(q) \/ CoverSave(q) \/ CoverSet(q)
        \/ IntakeLook(q) \/ LinkLook(q) \/ Save(q) \/ DownloadFails(q) \/ Lock(q)
        \/ Recheck(q) \/ Fill(q) \/ IntakeInsert(q) \/ Refused(q)
        \/ AddLook(q) \/ AddInsert(q) \/ Die(q) \/ Busy(q)
  BY DEF Next
<1>9. CASE q # r
  BY <1>5, <1>6, <1>7, <1>8, <1>9
     DEF CreateLook, CreateInsert, Update, Merge, RefuseMerge, DeleteRead, DeleteCommit, Look, Unlink,
         CoverRead, CoverSave, CoverSet, IntakeLook, LinkLook, Save, DownloadFails, Lock, Recheck,
         Fill, IntakeInsert, AddLook, AddInsert, Die, Busy, Refused
<1>10. CASE q = r
  BY <1>3, <1>8, <1>10
     DEF In, Issue, CreateLook, CreateInsert, Update, RefuseMerge, DeleteRead, DeleteCommit, Look, Unlink,
         CoverRead, CoverSave, CoverSet, IntakeLook, LinkLook, Save, DownloadFails, Lock, Recheck,
         Fill, IntakeInsert, AddLook, AddInsert, Die, Busy, Refused
<1> QED
  BY <1>9, <1>10

\* What a merge does to the two books and to every row.
LEMMA Merging ==
    ASSUME TypeInv, NEW r \in Request, Merge(r)
    PROVE  LET t == at[r].ask.target
               s == at[r].ask.source
           IN  /\ t \in Live /\ s \in Live /\ t # s
               /\ books'[t].isbn = Filled(books[t].isbn, books[s].isbn)
               /\ books'[t].cover = Filled(books[t].cover, books[s].cover)
               /\ books'[t] \in BookRow /\ books'[s] = None
               /\ \A b \in Book \ {t, s} : books'[b] = books[b]
               /\ \A k \in Kid : kids'[k] = IF k \notin Of(s) THEN kids[k]
                                            ELSE IF Duplicate(k, t) THEN None ELSE t
<1> DEFINE t == at[r].ask.target
           s == at[r].ask.source
           row == [books[t] EXCEPT !.isbn = Filled(books[t].isbn, books[s].isbn),
                                   !.cover = Filled(books[t].cover, books[s].cover)]
<1>1. t \in Live /\ s \in Live /\ t # s
  BY DEF Merge, MayMerge
<1>2. t \in Book /\ s \in Book /\ books[t] \in BookRow /\ books[s] \in BookRow
  BY <1>1, LiveRows DEF TypeInv
<1>3. books' = [books EXCEPT ![t] = row, ![s] = None] /\ kids' = Migrated(t, s)
  BY DEF Merge
<1>4. /\ row \in BookRow
      /\ row.isbn = Filled(books[t].isbn, books[s].isbn) /\ row.cover = Filled(books[t].cover, books[s].cover)
  BY <1>2 DEF BookRow, Filled
<1> HIDE DEF row
<1>5. books'[t] = row /\ books'[s] = None /\ \A b \in Book \ {t, s} : books'[b] = books[b]
  BY <1>1, <1>2, <1>3 DEF TypeInv, RowTypes
<1> QED
  BY <1>1, <1>3, <1>4, <1>5 DEF Migrated

LEMMA MergeKeeps ==
    ASSUME TypeInv, NEW r \in Request, Merge(r)
    PROVE  LET t == at[r].ask.target
               s == at[r].ask.source
           IN  /\ \A k \in Of(s) :
                     \/ kids'[k] = t
                     \/ Keyed(k) /\ \E o \in Of(t) : KindOf[o] = KindOf[k] /\ kids'[o] = t
               /\ books'[t].isbn = None => books[t].isbn = None /\ books[s].isbn = None
               /\ books'[t].cover = None => books[t].cover = None /\ books[s].cover = None
<1> DEFINE t == at[r].ask.target
           s == at[r].ask.source
<1>1. /\ t # s /\ books'[t].isbn = Filled(books[t].isbn, books[s].isbn)
      /\ books'[t].cover = Filled(books[t].cover, books[s].cover)
      /\ \A k \in Kid : kids'[k] = IF k \notin Of(s) THEN kids[k]
                                   ELSE IF Duplicate(k, t) THEN None ELSE t
  BY Merging
<1>2. \A o \in Of(t) : o \in Kid /\ kids[o] = t /\ o \notin Of(s)
  BY <1>1 DEF Of
<1>3. \A o \in Of(t) : kids'[o] = t
  BY <1>1, <1>2
<1>4. ASSUME NEW k \in Of(s)
      PROVE  \/ kids'[k] = t
             \/ Keyed(k) /\ \E o \in Of(t) : KindOf[o] = KindOf[k] /\ kids'[o] = t
  BY <1>1, <1>3 DEF Of, Duplicate
<1>5. /\ books'[t].isbn = None => books[t].isbn = None /\ books[s].isbn = None
      /\ books'[t].cover = None => books[t].cover = None /\ books[s].cover = None
  BY <1>1 DEF Filled
<1> HIDE DEF t, s
<1> QED
  BY <1>4, <1>5 DEF t, s

\* A merge loses no row, ISBN or cover of its source.
THEOREM MergeKeepsAllHolds == Spec \/ LSpec => MergeKeepsAll
<1>1. TypeInv /\ [Next]_rows =>
        [\A r \in Request :
            In(r, "merge", "start") /\ at'[r].pc = "look" =>
               LET t == at[r].ask.target
                   s == at[r].ask.source
               IN  /\ \A k \in Of(s) :
                         \/ kids'[k] = t
                         \/ Keyed(k) /\ \E o \in Of(t) : KindOf[o] = KindOf[k] /\ kids'[o] = t
                   /\ books'[t].isbn = None => books[t].isbn = None /\ books[s].isbn = None
                   /\ books'[t].cover = None => books[t].cover = None /\ books[s].cover = None]_vars
  <2> SUFFICES ASSUME TypeInv, [Next]_rows, NEW r \in Request, In(r, "merge", "start"), at'[r].pc = "look"
               PROVE  LET t == at[r].ask.target
                          s == at[r].ask.source
                      IN  /\ \A k \in Of(s) :
                                \/ kids'[k] = t
                                \/ Keyed(k) /\ \E o \in Of(t) : KindOf[o] = KindOf[k] /\ kids'[o] = t
                          /\ books'[t].isbn = None => books[t].isbn = None /\ books[s].isbn = None
                          /\ books'[t].cover = None => books[t].cover = None /\ books[s].cover = None
    OBVIOUS
  <2>1. Next
    BY DEF rows, In
  <2> QED
    BY <2>1, MergeOnly, MergeKeeps
<1> QED
  BY <1>1, OneBookPerIsbnHolds, Behaviours, PTL DEF MergeKeepsAll

-----------------------------------------------------------------------------
(* One request at a time: who it is, what it knows of the rows, and whose    *)
(* each file is.                                                             *)
Solo == \A r, q \in Request : at[r].pc # "idle" /\ at[q].pc # "idle" => r = q

NewBook(a) == ~NotOwned(a) /\ Found(a) = {}
Coverless(b) == b \in Live /\ books[b].cover = None

Held(w) ==
    LET a == w.ask IN
    /\ w.pc = "insert" /\ a.kind = "add" =>
          a.book \in Live /\ (Attachment(a.kid) => a.kid \in files)
    /\ w.pc = "commit" =>
          /\ a.book \in Live /\ w.path = books[a.book].cover
          /\ w.sweep = {k \in Of(a.book) : Attachment(k)}
    /\ w.pc \in {"look", "unlink"} => w.sweep \cap Referenced = {}
    /\ w.pc \in {"save", "set"} /\ a.kind = "cover" =>
          a.book \in Live /\ w.seen.cover = books[a.book].cover
    /\ w.pc = "set" => w.path \in files
    /\ w.pc = "save" /\ a.kind # "cover" =>
          /\ w.path \notin Used
          /\ w.seen = None => NewBook(a)
          /\ w.seen # None => Coverless(w.seen) /\ a.cover # "url"
    /\ w.pc \in {"lock", "recheck"} \/ (w.pc = "insert" /\ a.kind = "intake") =>
          NewBook(a) /\ (w.path # None => w.path \in files \ Used)
    /\ w.pc = "fill" => w.path \in files \ Used /\ Coverless(w.seen)

\* The files that no row refers to yet, or no more.
Whose(w, f) ==
    \/ w.pc \in {"look", "unlink"} /\ f \in w.sweep
    \/ w.pc \in {"set", "lock", "recheck", "fill", "look"} /\ f = w.path
    \/ w.pc = "insert" /\ w.ask.kind = "intake" /\ f = w.path
    \/ w.pc = "insert" /\ w.ask.kind = "add" /\ f = w.ask.kid /\ Attachment(w.ask.kid)

\* Nothing but receipts fails in a scene that promises the exact files.
Exact == scene.exact /\ scene.faults \subseteq {"refused"}

Tidy == Exact => \A f \in files : f \in Referenced \/ \E r \in Request : Whose(at[r], f)

FilesInv ==
    scene.width = 1 => Solo /\ FilesAreThere /\ (\A r \in Request : Held(at[r])) /\ Tidy

-----------------------------------------------------------------------------
(* Covers and attachments that rows refer to.                                *)
LEMMA InUse ==
    /\ \A p : p \in Used <=> p # None /\ \E b \in Live : books[b].cover = p
    /\ \A f : f \in Referenced <=> f \in Used \/ (f \in Kid /\ Attachment(f) /\ kids[f] # None)
  BY DEF Used, Referenced

LEMMA Refs ==
    TypeInv => /\ Used \subseteq Path
               /\ \A p \in Path : p \in Referenced <=> p \in Used
               /\ \A k \in Kid : k \in Referenced <=> Attachment(k) /\ kids[k] # None
               /\ None \notin Referenced /\ Referenced \subseteq Path \cup Kid
<1> SUFFICES ASSUME TypeInv
             PROVE  /\ Used \subseteq Path
                    /\ \A p \in Path : p \in Referenced <=> p \in Used
                    /\ \A k \in Kid : k \in Referenced <=> Attachment(k) /\ kids[k] # None
                    /\ None \notin Referenced /\ Referenced \subseteq Path \cup Kid
  OBVIOUS
<1>1. Used \subseteq Path
  BY LiveRows, InUse DEF TypeInv
<1> QED
  BY <1>1, InUse, KidAssumption, NoneAssumption

LEMMA SameUsed ==
    ASSUME \A b \in Live : b \in Live' /\ books'[b].cover = books[b].cover,
           \A b \in Live' : b \in Live
    PROVE  Used' = Used
  BY DEF Used

LEMMA NewIdFree == TypeInv /\ NewId \in Book => NewId \notin Live
<1> SUFFICES ASSUME TypeInv PROVE NewId \in Book => NewId \notin Live
  OBVIOUS
<1> DEFINE N == Cardinality(Book)
           IsNew(b) == (\A o \in Live : o < b) /\ (b = 1 \/ b - 1 \in Live)
<1>1. N \in Nat /\ Book = 1 .. N
  BY BookAssumption, FS_CardinalityType
<1>2. Live \subseteq 1 .. N
  BY <1>1 DEF Live
<1>3. \E b \in Book \cup {N + 1} : IsNew(b)
  <2>1. CASE Live = {}
    <3>1. 1 \in Book \cup {N + 1}
      BY <1>1
    <3> QED
      BY <2>1, <3>1
  <2>2. CASE Live # {}
    <3> DEFINE Above == {N - b : b \in Live}
               Less == OpToRel(<, Nat)
    <3>1. Above \subseteq Nat /\ Above # {}
      <4>1. \A b \in Live : N - b \in Nat
        BY <1>1, <1>2
      <4> QED
        BY <2>2, <4>1
    <3>2. PICK x \in Above : \A y \in Above : ~(<<y, x>> \in Less)
      <4> HIDE DEF Above
      <4> QED
        BY <3>1, NatLessThanWellFounded, WFMin
    <3>3. \A m, n \in Nat : <<m, n>> \in Less <=> m < n
      BY DEF OpToRel
    <3>4. PICK b \in Live : x = N - b
      OBVIOUS
    <3>5. ASSUME NEW o \in Live PROVE o <= b
      <4>1. N - o \in Above /\ N - o \in Nat /\ x \in Nat
        BY <3>1
      <4>2. ~(N - o < x)
        <5> HIDE DEF Less, Above
        <5> QED
          BY <3>2, <3>3, <4>1
      <4> QED
        BY <1>1, <1>2, <3>4, <4>2
    <3>6. b + 1 \in Book \cup {N + 1} /\ IsNew(b + 1)
      BY <1>1, <1>2, <3>5
    <3> QED
      BY <3>6
  <2> QED
    BY <2>1, <2>2
<1>4. IsNew(NewId)
  BY <1>3 DEF NewId
<1>5. NewId \in Book => NewId \in Int
  BY <1>1
<1> QED
  BY <1>4, <1>5

LEMMA InsertUsed ==
    ASSUME TypeInv, NewId \in Book, NEW i \in Isbn \cup {None}, NEW t \in Title,
           NEW c \in Path \cup {None}, books' = [books EXCEPT ![NewId] = Row(i, t, c)]
    PROVE  Used' = Used \cup ({c} \ {None})
<1> DEFINE n == NewId
<1>1. n \notin Live
  BY NewIdFree
<1> HIDE DEF n
<1>2. Row(i, t, c) \in BookRow /\ Row(i, t, c).cover = c
  BY DEF Row, BookRow
<1>3. n \in Book /\ books'[n] = Row(i, t, c) /\ \A b \in Book \ {n} : books'[b] = books[b]
  BY DEF n, TypeInv, RowTypes
<1>4. Live' = Live \cup {n}
  BY <1>2, <1>3, NoneAssumption DEF Live
<1> QED
  BY <1>1, <1>2, <1>3, <1>4 DEF Used, Live

-----------------------------------------------------------------------------
(* A step of the one request under way.                                      *)
LEMMA Solitary ==
    ASSUME TypeInv, Solo, NEW r \in Request, at[r].pc # "idle", NEW w,
           at' = [at EXCEPT ![r] = w], UNCHANGED scene, FilesAreThere', Held(at[r])',
           Exact => \A f \in files' : f \in Referenced' \/ Whose(at[r], f)'
    PROVE  FilesInv'
<1>1. \A q \in Request \ {r} : at[q].pc = "idle" /\ at'[q] = at[q]
  BY DEF Solo, TypeInv
<1>2. Solo'
  BY <1>1 DEF Solo
<1>3. \A q \in Request : Held(at[q])'
  BY <1>1 DEF Held
<1>4. Tidy'
  BY DEF Tidy, Exact
<1> QED
  BY <1>2, <1>3, <1>4 DEF FilesInv

LEMMA EndSolitary ==
    ASSUME TypeInv, Solo, NEW r \in Request, at[r].pc # "idle", End(r), UNCHANGED scene,
           FilesAreThere', Exact => files' \subseteq Referenced'
    PROVE  FilesInv'
<1>1. at' = [at EXCEPT ![r] = State("idle", None, None, None, {})]
  BY Ended
<1>2. at'[r].pc = "idle"
  BY <1>1 DEF TypeInv, State
<1>3. Held(at[r])'
  BY <1>2 DEF Held
<1> QED
  BY <1>1, <1>3, Solitary

\* What the one request has before it.
LEMMA Before ==
    ASSUME TypeInv, FilesInv, scene.width = 1, NEW r \in Request, at[r].pc # "idle"
    PROVE  /\ Solo /\ FilesAreThere /\ Held(at[r])
           /\ Exact => \A f \in files : f \in Referenced \/ Whose(at[r], f)
<1>1. \A q \in Request \ {r} : \A f : ~Whose(at[q], f)
  BY DEF FilesInv, Solo, Whose
<1> QED
  BY <1>1 DEF FilesInv, Tidy

\* Rows and files stay, and so does what they refer to.
LEMMA NothingMoves ==
    ASSUME UNCHANGED <<books, kids>>
    PROVE  Used' = Used /\ Referenced' = Referenced /\ Live' = Live
  BY DEF Used, Referenced, Live

LEMMA IssueFiles ==
    ASSUME TypeInv, FilesInv, scene.width = 1, NEW r \in Request, Issue(r)
    PROVE  FilesInv'
<1> DEFINE Active == {q \in Request : at[q].pc # "idle"}
<1>1. Active = {}
  <2>1. Cardinality(Active) < 1
    BY DEF Issue
  <2>2. IsFiniteSet(Active)
    BY RequestAssumption, FS_Subset
  <2>3. Cardinality(Active) = 0
    BY <2>1, <2>2, FS_CardinalityType
  <2> QED
    BY <2>2, <2>3, FS_EmptySet
<1>2. /\ at'[r].pc = "start" /\ \A q \in Request \ {r} : at'[q] = at[q]
      /\ UNCHANGED <<scene, books, kids, files>>
  BY DEF Issue, Idle, TypeInv
<1>3. Solo' /\ \A q \in Request : Held(at[q])'
  BY <1>1, <1>2 DEF Solo, Held
<1>4. \A q \in Request : \A f : ~Whose(at[q], f)
  BY <1>1 DEF Whose
<1>5. FilesAreThere'
  BY <1>2, NothingMoves DEF FilesInv, FilesAreThere
<1>6. Tidy'
  BY <1>2, <1>4, NothingMoves DEF FilesInv, Tidy, Exact
<1> QED
  BY <1>3, <1>5, <1>6 DEF FilesInv

LEMMA CreateFiles ==
    ASSUME TypeInv, FilesInv, scene.width = 1, NEW r \in Request, CreateLook(r) \/ CreateInsert(r)
    PROVE  FilesInv'
<1>1. /\ at[r].pc # "idle" /\ at[r].ask \in Ask /\ at[r].ask.kind = "create"
      /\ UNCHANGED <<scene, kids, files>>
  BY OwnState DEF CreateLook, CreateInsert, In
<1>2. /\ Solo /\ FilesAreThere /\ Held(at[r])
      /\ Exact => \A f \in files : f \in Referenced \/ Whose(at[r], f)
  BY <1>1, Before
<1>3. \A f : ~Whose(at[r], f)
  BY <1>1 DEF Whose, CreateLook, CreateInsert, In
<1>4. Used' = Used
  <2>1. CASE UNCHANGED books
    BY <1>1, <2>1, NothingMoves
  <2>2. CASE books' # books
    <3>1. NewId \in Book /\ books' = [books EXCEPT ![NewId] = Row(at[r].ask.isbn, at[r].ask.title, None)]
      BY <2>2 DEF CreateLook, CreateInsert
    <3>2. at[r].ask.isbn \in Isbn \cup {None} /\ at[r].ask.title \in Title
      BY <1>1, AskParts
    <3>3. Used' = Used \cup ({None} \ {None})
      BY <3>1, <3>2, InsertUsed
    <3> QED
      BY <3>3
  <2> QED
    BY <2>1, <2>2
<1>5. Referenced' = Referenced /\ FilesAreThere'
  BY <1>1, <1>2, <1>4 DEF Referenced, FilesAreThere
<1>6. CASE End(r)
  BY <1>1, <1>2, <1>3, <1>5, <1>6, EndSolitary
<1>7. CASE Go(r, "insert")
  <2>1. at' = [at EXCEPT ![r] = State("insert", at[r].ask, at[r].seen, at[r].path, at[r].sweep)]
    BY <1>7, Went
  <2>2. at'[r].pc = "insert" /\ at'[r].ask.kind = "create"
    BY <1>1, <2>1 DEF TypeInv, State
  <2>3. Held(at[r])'
    BY <2>2 DEF Held
  <2> QED
    BY <1>1, <1>2, <1>3, <1>5, <2>1, <2>3, Solitary
<1> QED
  BY <1>6, <1>7 DEF CreateLook, CreateInsert

LEMMA UpdateUsed ==
    ASSUME TypeInv, OneBookPerIsbn, NEW r \in Request, Update(r)
    PROVE  Used' = Used
<1> DEFINE a == at[r].ask
<1>1. CASE UNCHANGED books
  BY <1>1 DEF Used, Live
<1>2. CASE books' # books
  <2>1. Live' = Live
    BY <1>2, UpdateOne
  <2>2. a.book \in Live /\ books' = [books EXCEPT ![a.book].isbn = a.isbn] /\ books[a.book] \in BookRow
    BY <1>2, LiveRows DEF Update, TypeInv
  <2>3. [books[a.book] EXCEPT !.isbn = a.isbn].cover = books[a.book].cover
    BY <2>2 DEF BookRow
  <2>4. \A b \in Live : books'[b].cover = books[b].cover
    <3>1. /\ books'[a.book] = [books[a.book] EXCEPT !.isbn = a.isbn]
          /\ \A b \in Book \ {a.book} : books'[b] = books[b]
      BY <2>2 DEF TypeInv, RowTypes, Live
    <3> QED
      BY <2>3, <3>1 DEF Live
  <2> QED
    BY <2>1, <2>4, SameUsed
<1> QED
  BY <1>1, <1>2

LEMMA UpdateFiles ==
    ASSUME TypeInv, FilesInv, scene.width = 1, OneBookPerIsbn, NEW r \in Request, Update(r)
    PROVE  FilesInv'
<1> DEFINE a == at[r].ask
<1>1. at[r].pc = "start" /\ UNCHANGED <<scene, kids, files>> /\ End(r)
  BY DEF Update, In
<1>2. Solo /\ FilesAreThere /\ (Exact => \A f \in files : f \in Referenced \/ Whose(at[r], f))
  BY <1>1, Before
<1>3. Used' = Used
  BY UpdateUsed
<1>4. Referenced' = Referenced /\ FilesAreThere'
  BY <1>1, <1>2, <1>3 DEF Referenced, FilesAreThere
<1> QED
  BY <1>1, <1>2, <1>4, EndSolitary DEF Whose

\* A merge leaves no cover but its leftover without a book.
LEMMA MergeUsed ==
    ASSUME TypeInv, NEW r \in Request, Merge(r)
    PROVE  /\ Used' \subseteq Used
           /\ Used \subseteq Used' \cup {LeftCover(at[r].ask.target, at[r].ask.source)}
<1> DEFINE t == at[r].ask.target
           s == at[r].ask.source
           leftover == LeftCover(t, s)
<1>1. /\ t \in Live /\ s \in Live /\ t # s
      /\ books'[t].cover = Filled(books[t].cover, books[s].cover)
      /\ books'[t] \in BookRow /\ books'[s] = None
      /\ \A b \in Book \ {t, s} : books'[b] = books[b]
  BY Merging
<1>2. t \in Book /\ s \in Book /\ Live' = Live \ {s}
  BY <1>1, NoneAssumption DEF Live
<1>3. \A b \in Live \ {t, s} : books'[b] = books[b]
  BY <1>1 DEF Live
<1>4. \A p \in Used' : p \in Used
  BY <1>1, <1>2, <1>3 DEF Used, Filled
<1>5. ASSUME NEW b \in Live, books[b].cover # None, books[b].cover # leftover
      PROVE  \E c \in Live' : books'[c].cover = books[b].cover
  <2>1. CASE b \notin {t, s}
    BY <1>2, <1>3, <2>1
  <2>2. CASE b \in {t, s}
    BY <1>1, <1>2, <1>5, <2>2 DEF Filled, LeftCover
  <2> QED BY <2>1, <2>2
<1> QED
  BY <1>4, <1>5 DEF Used

LEMMA MergeFiles ==
    ASSUME TypeInv, FilesInv, scene.width = 1, NEW r \in Request, Merge(r) \/ RefuseMerge(r)
    PROVE  FilesInv'
<1>1. at[r].pc = "start" /\ UNCHANGED <<scene, files>>
  BY DEF Merge, RefuseMerge, In
<1>2. Solo /\ FilesAreThere /\ (Exact => \A f \in files : f \in Referenced \/ Whose(at[r], f))
  BY <1>1, Before
<1>3. \A f : ~Whose(at[r], f)
  BY <1>1 DEF Whose
<1>4. CASE RefuseMerge(r)
  BY <1>1, <1>2, <1>3, <1>4, NothingMoves, EndSolitary DEF RefuseMerge, FilesAreThere
<1>5. CASE Merge(r)
  <2> DEFINE t == at[r].ask.target
             s == at[r].ask.source
             leftover == LeftCover(t, s)
  <2>1. /\ t \in Live /\ s \in Live
        /\ \A k \in Kid : kids'[k] = IF k \notin Of(s) THEN kids[k]
                                     ELSE IF Duplicate(k, t) THEN None ELSE t
    BY <1>5, Merging
  <2>2. t \in Book /\ s \in Book
    BY <2>1 DEF Live
  <2>3. Used' \subseteq Used /\ Used \subseteq Used' \cup {leftover}
    BY <1>5, MergeUsed
  <2>4. \A k \in Kid : Attachment(k) => (kids'[k] # None <=> kids[k] # None)
    <3>1. \A k \in Kid : Attachment(k) => ~Duplicate(k, t)
      BY DEF Duplicate, Keyed, Attachment
    <3>2. t # None /\ s # None
      BY <2>2, NoneAssumption
    <3> QED
      BY <2>1, <3>1, <3>2 DEF Of
  <2>5. Referenced' \subseteq Referenced /\ Referenced \subseteq Referenced' \cup {leftover}
    BY <2>3, <2>4 DEF Referenced
  <2>6. at' = [at EXCEPT ![r] = State("look", at[r].ask, None, leftover, {})]
    BY <1>5, Turned DEF Merge
  <2> HIDE DEF leftover
  <2>7. at'[r].pc = "look" /\ at'[r].path = leftover /\ at'[r].sweep = {}
    BY <2>6 DEF TypeInv, State
  <2>8. Held(at[r])'
    BY <2>7 DEF Held
  <2>9. FilesAreThere'
    BY <1>1, <1>2, <2>5 DEF FilesAreThere
  <2>10. Exact => \A f \in files' : f \in Referenced' \/ Whose(at[r], f)'
    BY <1>1, <1>2, <1>3, <2>5, <2>7 DEF Whose
  <2> QED
    BY <1>1, <1>2, <2>6, <2>8, <2>9, <2>10, Solitary
<1> QED
  BY <1>4, <1>5

LEMMA DeleteUsed ==
    ASSUME TypeInv, NEW b \in Book, books' = [books EXCEPT ![b] = None]
    PROVE  Live' = Live \ {b} /\ Used' \subseteq Used /\ Used \subseteq Used' \cup {books[b].cover}
<1>1. books'[b] = None /\ \A o \in Book \ {b} : books'[o] = books[o]
  BY DEF TypeInv, RowTypes
<1>2. Live' = Live \ {b}
  BY <1>1 DEF Live
<1> QED
  BY <1>1, <1>2 DEF Used, Live

LEMMA DeleteFiles ==
    ASSUME TypeInv, FilesInv, scene.width = 1, NEW r \in Request, DeleteRead(r) \/ DeleteCommit(r)
    PROVE  FilesInv'
<1> DEFINE b == at[r].ask.book
<1>1. /\ at[r].pc # "idle" /\ at[r].ask \in Ask /\ at[r].ask.kind = "delete" /\ b \in Book
      /\ UNCHANGED <<scene, files>>
  BY OwnState, AskParts DEF DeleteRead, DeleteCommit, In
<1>2. /\ Solo /\ FilesAreThere /\ Held(at[r])
      /\ Exact => \A f \in files : f \in Referenced \/ Whose(at[r], f)
  BY <1>1, Before
<1>3. \A f : ~Whose(at[r], f)
  BY <1>1 DEF Whose, DeleteRead, DeleteCommit, In
<1>4. CASE DeleteRead(r)
  <2>1. Referenced' = Referenced /\ FilesAreThere'
    BY <1>1, <1>2, <1>4, NothingMoves DEF DeleteRead, FilesAreThere
  <2>2. CASE End(r)
    BY <1>1, <1>2, <1>3, <2>1, <2>2, EndSolitary
  <2>3. CASE ~End(r)
    <3> DEFINE swept == {k \in Of(b) : Attachment(k)}
    <3>1. b \in Live /\ at' = [at EXCEPT ![r] = State("commit", at[r].ask, None, books[b].cover, swept)]
      BY <1>4, <2>3, Turned DEF DeleteRead
    <3> HIDE DEF swept
    <3>2. /\ at'[r].pc = "commit" /\ at'[r].path = books[b].cover /\ at'[r].sweep = swept
          /\ at'[r].ask = at[r].ask
      BY <3>1 DEF TypeInv, State
    <3>3. Held(at[r])'
      <4>1. UNCHANGED <<books, kids>>
        BY <1>4 DEF DeleteRead
      <4>2. Live' = Live
        BY <4>1 DEF Live
      <4>3. at'[r].sweep = {k \in Kid : kids'[k] = at'[r].ask.book /\ Attachment(k)}
        BY <3>2, <4>1 DEF swept, Of
      <4>4. {k \in Kid : kids'[k] = at'[r].ask.book /\ Attachment(k)} = {k \in Of(at[r].ask.book) : Attachment(k)}'
        BY DEF Of
      <4>5. at'[r].ask.book \in Live' /\ at'[r].path = books'[at'[r].ask.book].cover
        BY <3>1, <3>2, <4>1, <4>2
      <4> QED
        BY <3>2, <4>3, <4>4, <4>5 DEF Held
    <3> QED
      BY <1>1, <1>2, <1>3, <2>1, <3>1, <3>3, Solitary
  <2> QED
    BY <2>2, <2>3
<1>5. CASE DeleteCommit(r)
  <2>1. /\ b \in Live /\ at[r].path = books[b].cover
        /\ at[r].sweep = {k \in Of(b) : Attachment(k)}
    BY <1>2, <1>5 DEF Held, DeleteCommit, In
  <2>2. /\ books'[b] = None /\ (\A o \in Book \ {b} : books'[o] = books[o])
        /\ \A k \in Kid : kids'[k] = IF k \in Of(b) THEN None ELSE kids[k]
    BY <1>1, <1>5 DEF DeleteCommit, Removed, TypeInv, RowTypes
  <2>3. Used' \subseteq Used /\ Used \subseteq Used' \cup {books[b].cover}
    BY <1>1, <1>5, DeleteUsed DEF DeleteCommit
  <2>4. Used' \subseteq Used /\ Used \subseteq Used' \cup {at[r].path}
    BY <2>1, <2>3
  <2>5. /\ \A k \in Kid : Attachment(k) /\ kids[k] # None => kids'[k] # None \/ k \in at[r].sweep
        /\ \A k \in Kid : kids'[k] # None => kids[k] # None
        /\ \A k \in at[r].sweep : k \in Kid /\ kids'[k] = None
    BY <2>1, <2>2 DEF Of
  <2>6. Referenced' \subseteq Referenced /\ Referenced \subseteq Referenced' \cup {at[r].path} \cup at[r].sweep
    BY <2>4, <2>5 DEF Referenced
  <2>7. at[r].sweep \cap Referenced' = {}
    <3>1. Used' \cap Kid = {}
      BY <2>4, Refs, KidAssumption
    <3> QED
      BY <2>5, <3>1 DEF Referenced
  <2>8. at' = [at EXCEPT ![r] = State("look", at[r].ask, at[r].seen, at[r].path, at[r].sweep)]
    BY <1>5, Went DEF DeleteCommit
  <2>9. at'[r].pc = "look" /\ at'[r].path = at[r].path /\ at'[r].sweep = at[r].sweep
    BY <2>8 DEF TypeInv, State
  <2>10. Held(at[r])'
    BY <2>7, <2>9 DEF Held
  <2>11. FilesAreThere'
    BY <1>1, <1>2, <2>6 DEF FilesAreThere
  <2>12. Exact => \A f \in files' : f \in Referenced' \/ Whose(at[r], f)'
    BY <1>1, <1>2, <1>3, <2>6, <2>9 DEF Whose
  <2> QED
    BY <1>1, <1>2, <2>8, <2>10, <2>11, <2>12, Solitary
<1> QED
  BY <1>4, <1>5

\* What holds of the value holds of the request that has it.
LEMMA HeldNow ==
    ASSUME NEW r \in Request, NEW w, at'[r] = w, Held(w)'
    PROVE  Held(at[r])'
  BY DEF Held, Attachment, NewBook, Coverless, NotOwned, Found, Referenced, Used, Live, Of

LEMMA SetCover ==
    ASSUME TypeInv, NEW b \in Live, NEW c \in Path, books' = [books EXCEPT ![b].cover = c]
    PROVE  /\ Live' = Live /\ Used' \subseteq Used \cup {c} /\ c \in Used'
           /\ Used \subseteq Used' \cup {books[b].cover}
<1>1. books[b] \in BookRow /\ b \in Book
  BY LiveRows DEF TypeInv
<1>2. books'[b] = [books[b] EXCEPT !.cover = c] /\ \A o \in Book \ {b} : books'[o] = books[o]
  BY <1>1 DEF TypeInv, RowTypes
<1>3. [books[b] EXCEPT !.cover = c] \in BookRow /\ [books[b] EXCEPT !.cover = c].cover = c
  BY <1>1 DEF BookRow
<1>4. Live' = Live
  BY <1>1, <1>2, <1>3, NoneAssumption DEF Live
<1>5. books'[b].cover = c /\ c # None /\ \A o \in Live \ {b} : books'[o].cover = books[o].cover
  BY <1>2, <1>3, NoneAssumption DEF Live
<1>6. \A p : p \in Used' <=> p # None /\ \E o \in Live : books'[o].cover = p
  BY <1>4 DEF Used
<1>7. \A p : p \in Used <=> p # None /\ \E o \in Live : books[o].cover = p
  BY InUse
<1> QED
  BY <1>4, <1>5, <1>6, <1>7

LEMMA RemoveFiles ==
    ASSUME TypeInv, FilesInv, scene.width = 1, NEW r \in Request, Look(r) \/ Unlink(r)
    PROVE  FilesInv'
<1>1. at[r].pc # "idle" /\ UNCHANGED <<scene, books, kids>> /\ at[r].path \in Path \cup {None}
  BY OwnState DEF Look, Unlink, Working
<1>2. /\ Solo /\ FilesAreThere /\ at[r].sweep \cap Referenced = {}
      /\ Exact => \A f \in files : f \in Referenced \/ Whose(at[r], f)
  BY <1>1, Before DEF Held, Look, Unlink
<1>3. Referenced' = Referenced
  BY <1>1, NothingMoves
<1>4. CASE Look(r)
  <2> DEFINE found == at[r].sweep \cup (IF Unreferenced(at[r].path) THEN {at[r].path} ELSE {})
  <2>1. at' = [at EXCEPT ![r] = State("unlink", at[r].ask, None, None, found)] /\ UNCHANGED files
    BY <1>4, Turned DEF Look
  <2>2. found \cap Referenced = {}
    BY <1>1, <1>2, Refs DEF Unreferenced
  <2>3. \A f \in files : Whose(at[r], f) => f \in Referenced \/ f \in found
    <3>1. None \notin files
      BY NoneAssumption DEF TypeInv, RowTypes
    <3> QED
      BY <1>1, <1>4, <3>1, Refs DEF Whose, Look, Unreferenced
  <2> HIDE DEF found
  <2>4. at'[r].pc = "unlink" /\ at'[r].sweep = found
    BY <2>1 DEF TypeInv, State
  <2>5. Held(at[r])'
    BY <1>3, <2>2, <2>4 DEF Held
  <2>6. FilesAreThere'
    BY <1>2, <1>3, <2>1 DEF FilesAreThere
  <2>7. Exact => \A f \in files' : f \in Referenced' \/ Whose(at[r], f)'
    BY <1>2, <1>3, <2>1, <2>3, <2>4 DEF Whose
  <2> QED
    BY <1>1, <1>2, <2>1, <2>5, <2>6, <2>7, Solitary
<1>5. CASE Unlink(r)
  <2>1. files' = files \ at[r].sweep /\ End(r)
    BY <1>5 DEF Unlink
  <2>2. FilesAreThere'
    BY <1>2, <1>3, <2>1 DEF FilesAreThere
  <2>3. Exact => files' \subseteq Referenced'
    BY <1>2, <1>3, <1>5, <2>1 DEF Whose, Unlink
  <2> QED
    BY <1>1, <1>2, <2>1, <2>2, <2>3, EndSolitary
<1> QED
  BY <1>4, <1>5

LEMMA CoverFiles ==
    ASSUME TypeInv, FilesInv, scene.width = 1, NEW r \in Request,
           CoverRead(r) \/ CoverSave(r) \/ CoverSet(r)
    PROVE  FilesInv'
<1> DEFINE a == at[r].ask
           b == at[r].ask.book
<1>1. /\ a \in Ask /\ a.kind = "cover" /\ at[r].pc # "idle" /\ b \in Book /\ at[r].path \in Path \cup {None}
      /\ UNCHANGED <<scene, kids>>
  BY OwnState, AskParts DEF CoverRead, CoverSave, CoverSet, In, Working
<1>2. /\ Solo /\ FilesAreThere /\ Held(at[r])
      /\ Exact => \A f \in files : f \in Referenced \/ Whose(at[r], f)
  BY <1>1, Before
<1>3. CASE CoverRead(r)
  <2>1. UNCHANGED <<books, files>>
    BY <1>3 DEF CoverRead
  <2>2. Referenced' = Referenced /\ FilesAreThere'
    BY <1>1, <1>2, <2>1, NothingMoves DEF FilesAreThere
  <2>3. \A f : ~Whose(at[r], f)
    BY <1>3 DEF Whose, CoverRead, In
  <2>4. CASE End(r)
    BY <1>1, <1>2, <2>1, <2>2, <2>3, <2>4, EndSolitary
  <2>5. CASE ~End(r)
    <3> DEFINE path == Own(NameOf(books[b].isbn, books[b].title), b)
    <3> HIDE DEF path
    <3>1. b \in Live /\ at' = [at EXCEPT ![r] = State("save", a, [cover |-> books[b].cover], path, {})]
      BY <1>3, <2>5, Turned DEF CoverRead, path
    <3>2. /\ at'[r].pc = "save" /\ at'[r].ask = a /\ at'[r].seen.cover = books[b].cover
      BY <3>1 DEF TypeInv, State
    <3>3. Live' = Live /\ books' = books
      BY <1>1, <2>1, NothingMoves
    <3>4. Held(at[r])'
      <4>1. at'[r].ask.kind = "cover" /\ at'[r].ask.book \in Live'
        BY <1>1, <3>1, <3>2, <3>3
      <4>2. at'[r].seen.cover = books'[at'[r].ask.book].cover
        BY <3>2, <3>3
      <4> QED
        BY <3>2, <4>1, <4>2 DEF Held
    <3> QED
      BY <1>1, <1>2, <2>1, <2>2, <2>3, <3>1, <3>4, Solitary
  <2> QED
    BY <2>4, <2>5
<1>4. CASE CoverSave(r)
  <2>1. UNCHANGED books /\ files' = files \cup {at[r].path} /\ at[r].pc = "save"
    BY <1>4 DEF CoverSave, In
  <2>2. Referenced' = Referenced /\ Live' = Live
    BY <1>1, <2>1, NothingMoves
  <2>3. at' = [at EXCEPT ![r] = State("set", a, at[r].seen, at[r].path, at[r].sweep)]
    BY <1>4, Went DEF CoverSave
  <2>4. at'[r].pc = "set" /\ at'[r].ask = a /\ at'[r].path = at[r].path /\ at'[r].seen = at[r].seen
    BY <2>3 DEF TypeInv, State
  <2>5. b \in Live /\ at[r].seen.cover = books[b].cover
    BY <1>1, <1>2, <2>1 DEF Held
  <2>6. Held(at[r])'
    BY <1>1, <2>1, <2>2, <2>4, <2>5 DEF Held
  <2>7. FilesAreThere'
    BY <1>2, <2>1, <2>2 DEF FilesAreThere
  <2>8. Exact => \A f \in files' : f \in Referenced' \/ Whose(at[r], f)'
    <3>1. \A f : ~Whose(at[r], f)
      BY <2>1 DEF Whose
    <3> QED
      BY <1>2, <2>1, <2>2, <2>4, <3>1 DEF Whose
  <2> QED
    BY <1>1, <1>2, <2>3, <2>6, <2>7, <2>8, Solitary
<1>5. CASE CoverSet(r)
  <2> DEFINE old == at[r].seen.cover
  <2>1. /\ at[r].pc = "set" /\ at[r].path \in Path /\ at[r].path \in files
        /\ b \in Live /\ old = books[b].cover /\ UNCHANGED files
    BY <1>1, <1>2, <1>5, OwnState DEF Held, Knows, CoverSet, In
  <2>2. Exact => \A f \in files : f \in Referenced \/ f = at[r].path
    BY <1>2, <2>1 DEF Whose
  <2>3. CASE old = at[r].path
    <3>1. End(r) /\ UNCHANGED books
      BY <1>5, <2>3 DEF CoverSet
    <3>2. Referenced' = Referenced /\ FilesAreThere'
      BY <1>1, <1>2, <2>1, <3>1, NothingMoves DEF FilesAreThere
    <3>3. at[r].path \in Referenced
      BY <2>1, <2>3, InUse, NoneAssumption
    <3> QED
      BY <1>1, <1>2, <2>1, <2>2, <3>1, <3>2, <3>3, EndSolitary
  <2>4. CASE old # at[r].path
    <3>1. books' = [books EXCEPT ![b].cover = at[r].path]
      BY <1>5, <2>1, <2>4 DEF CoverSet
    <3>2. at' = [at EXCEPT ![r] = State("look", a, None, old, {})]
      BY <1>5, <2>1, <2>4, Turned DEF CoverSet
    <3>3. Used' \subseteq Used \cup {at[r].path} /\ at[r].path \in Used' /\ Used \subseteq Used' \cup {old}
      BY <2>1, <3>1, SetCover
    <3>4. /\ Referenced' \subseteq Referenced \cup {at[r].path} /\ at[r].path \in Referenced'
          /\ Referenced \subseteq Referenced' \cup {old}
      BY <1>1, <3>3 DEF Referenced
    <3> HIDE DEF old
    <3>5. at'[r].pc = "look" /\ at'[r].path = old /\ at'[r].sweep = {}
      BY <3>2 DEF TypeInv, State
    <3>6. Held(at[r])'
      BY <3>5 DEF Held
    <3>7. FilesAreThere'
      BY <1>2, <2>1, <3>4 DEF FilesAreThere
    <3>8. Exact => \A f \in files' : f \in Referenced' \/ Whose(at[r], f)'
      BY <2>1, <2>2, <3>4, <3>5 DEF Whose
    <3> QED
      BY <1>1, <1>2, <3>2, <3>6, <3>7, <3>8, Solitary
  <2> QED
    BY <2>3, <2>4
<1> QED
  BY <1>3, <1>4, <1>5

LEMMA SameBooks ==
    ASSUME UNCHANGED books
    PROVE  \A x : (NewBook(x)' <=> NewBook(x)) /\ (Coverless(x)' <=> Coverless(x))
  BY DEF NewBook, NotOwned, Found, Coverless, Live

\* The file of a new cover has a name of its own.
LEMMA ChosenFree ==
    ASSUME FilesAreThere, NEW a, Spare(CoverNameOf(a)) # {}
    PROVE  ChosenPath(a) \notin files /\ ChosenPath(a) \notin Used
<1> DEFINE n == CoverNameOf(a)
<1>1. Used \subseteq files
  BY DEF FilesAreThere, Referenced
<1>2. Unused(n) \in Spare(n)
  BY DEF Unused
<1>3. Unused(n) \notin files \cup Used
  BY <1>2 DEF Spare
<1> QED
  BY <1>1, <1>3 DEF ChosenPath

LEMMA LookFiles ==
    ASSUME TypeInv, FilesInv, scene.width = 1, NEW r \in Request, IntakeLook(r) \/ LinkLook(r)
    PROVE  FilesInv'
<1> DEFINE a == at[r].ask
<1>1. /\ a \in Ask /\ a.kind \in {"intake", "link"} /\ at[r].pc = "start"
      /\ UNCHANGED <<scene, books, kids, files>> /\ Spare(CoverNameOf(a)) # {}
  BY OwnState DEF IntakeLook, LinkLook, In
<1>2. /\ Solo /\ FilesAreThere
      /\ Exact => \A f \in files : f \in Referenced \/ Whose(at[r], f)
  BY <1>1, Before
<1>3. \A f : ~Whose(at[r], f)
  BY <1>1 DEF Whose
<1>4. Referenced' = Referenced /\ Used' = Used /\ FilesAreThere'
  BY <1>1, <1>2, NothingMoves DEF FilesAreThere
<1>5. CASE End(r)
  BY <1>1, <1>2, <1>3, <1>4, <1>5, EndSolitary
<1>6. ASSUME NEW w, at' = [at EXCEPT ![r] = w], Held(w)'
      PROVE  FilesInv'
  <2>1. Held(at[r])'
    BY <1>6, HeldNow DEF TypeInv
  <2> QED
    BY <1>1, <1>2, <1>3, <1>4, <1>6, <2>1, Solitary
<1>7. CASE Turn(r, "lock", None, None, {}) /\ NewBook(a) /\ a.kind = "intake"
  <2>1. PICK w : w = State("lock", a, None, None, {})
    OBVIOUS
  <2>2. w.pc = "lock" /\ w.ask = a /\ w.path = None
    BY <2>1 DEF State
  <2>3. NewBook(w.ask)'
    BY <1>1, <1>7, <2>2, SameBooks
  <2>4. Held(w)'
    BY <2>2, <2>3 DEF Held
  <2> QED
    BY <1>6, <1>7, <2>1, <2>4, Turned
<1>8. ASSUME NEW b, Turn(r, "save", b, ChosenPath(a), {}),
             IF b = None THEN NewBook(a) ELSE Coverless(b) /\ a.cover # "url"
      PROVE  FilesInv'
  <2>1. PICK w : w = State("save", a, b, ChosenPath(a), {})
    OBVIOUS
  <2>2. w.pc = "save" /\ w.ask = a /\ w.seen = b /\ w.path = ChosenPath(a)
    BY <2>1 DEF State
  <2>3. IF w.seen = None THEN NewBook(w.ask)' ELSE Coverless(w.seen)'
    BY <1>1, <1>8, <2>2, SameBooks
  <2>4. w.path \notin Used'
    BY <1>1, <1>2, <1>4, <2>2, ChosenFree
  <2>5. Held(w)'
    BY <1>1, <1>8, <2>2, <2>3, <2>4 DEF Held
  <2> QED
    BY <1>6, <1>8, <2>1, <2>5, Turned
<1>9. CASE IntakeLook(r)
  <2>1. CASE Found(a) = {} /\ ~NotOwned(a)
    BY <1>5, <1>7, <1>8, <1>9, <2>1 DEF IntakeLook, In, NewBook
  <2>2. ASSUME NEW b \in Found(a), a.cover # "url", Wants(a, b), Turn(r, "save", b, ChosenPath(a), {})
        PROVE  FilesInv'
    <3>1. Coverless(b) /\ b # None
      BY <2>2, FoundLive, NoneAssumption DEF Coverless, Wants, Live
    <3> QED
      BY <1>8, <2>2, <3>1
  <2> QED
    BY <1>5, <1>9, <2>1, <2>2 DEF IntakeLook
<1>10. CASE LinkLook(r)
  <2>1. a.cover = "photo"
    BY <1>1, <1>10 DEF Ask, LinkLook, In
  <2>2. ASSUME a.book \in Live, Wants(a, a.book), Turn(r, "save", a.book, ChosenPath(a), {})
        PROVE  FilesInv'
    <3>1. Coverless(a.book) /\ a.book # None
      BY <2>2, NoneAssumption DEF Coverless, Wants, Live
    <3> QED
      BY <1>8, <2>1, <2>2, <3>1
  <2> QED
    BY <1>5, <1>10, <2>2 DEF LinkLook
<1> QED
  BY <1>9, <1>10

LEMMA SaveFiles ==
    ASSUME TypeInv, FilesInv, scene.width = 1, NEW r \in Request,
           Save(r) \/ DownloadFails(r) \/ Lock(r)
    PROVE  FilesInv'
<1> DEFINE a == at[r].ask
<1>1. /\ at[r].pc # "idle" /\ UNCHANGED <<scene, books, kids>> /\ a.kind \in {"intake", "link"}
      /\ at[r].pc = "lock" => a.kind = "intake"
  BY OwnState DEF Save, DownloadFails, Lock, In, Knows
<1>2. /\ Solo /\ FilesAreThere /\ Held(at[r])
      /\ Exact => \A f \in files : f \in Referenced \/ Whose(at[r], f)
  BY <1>1, Before
<1>3. Referenced' = Referenced /\ Used' = Used
  BY <1>1, NothingMoves
<1>4. ASSUME NEW w, at' = [at EXCEPT ![r] = w], Held(w)', files \subseteq files',
             Exact => \A f \in files' : f \in Referenced \/ Whose(w, f)
      PROVE  FilesInv'
  <2>1. Held(at[r])' /\ at'[r] = w
    BY <1>4, HeldNow DEF TypeInv
  <2>2. FilesAreThere'
    BY <1>2, <1>3, <1>4 DEF FilesAreThere
  <2>3. Exact => \A f \in files' : f \in Referenced' \/ Whose(at[r], f)'
    BY <1>3, <1>4, <2>1 DEF Whose, Attachment
  <2> QED
    BY <1>1, <1>2, <1>4, <2>1, <2>2, <2>3, Solitary
<1>5. CASE Save(r)
  <2>1. at[r].pc = "save" /\ files' = files \cup {at[r].path} /\ at[r].path \notin Used
    BY <1>1, <1>2, <1>5 DEF Save, Held
  <2>2. at[r].path \in Path
    BY <1>5, OwnState DEF Knows, Save
  <2>3. Exact => \A f \in files' : f \in Referenced \/ f = at[r].path
    BY <1>2, <2>1 DEF Whose
  <2>4. CASE at[r].seen = None
    <3>1. PICK w : w = State("lock", a, at[r].seen, at[r].path, at[r].sweep)
      OBVIOUS
    <3>2. w.pc = "lock" /\ w.ask = a /\ w.path = at[r].path
      BY <3>1 DEF State
    <3>3. NewBook(w.ask)
      BY <1>1, <1>2, <2>1, <2>4, <3>2 DEF Held
    <3>4. NewBook(w.ask)'
      BY <1>1, <3>3, SameBooks
    <3>5. Held(w)'
      BY <1>3, <2>1, <3>2, <3>4 DEF Held
    <3>6. at' = [at EXCEPT ![r] = w]
      BY <1>5, <2>4, <3>1, Went DEF Save
    <3> QED
      BY <1>4, <2>1, <2>3, <3>2, <3>5, <3>6 DEF Whose
  <2>5. CASE at[r].seen # None
    <3>1. PICK w : w = State("fill", a, at[r].seen, at[r].path, at[r].sweep)
      OBVIOUS
    <3>2. w.pc = "fill" /\ w.ask = a /\ w.path = at[r].path /\ w.seen = at[r].seen
      BY <3>1 DEF State
    <3>3. Coverless(w.seen)
      BY <1>1, <1>2, <2>1, <2>5, <3>2 DEF Held
    <3>4. Coverless(w.seen)'
      BY <1>1, <3>3, SameBooks
    <3>5. Held(w)'
      BY <1>3, <2>1, <3>2, <3>4 DEF Held
    <3>6. at' = [at EXCEPT ![r] = w]
      BY <1>5, <2>5, <3>1, Went DEF Save
    <3> QED
      BY <1>4, <2>1, <2>3, <3>2, <3>5, <3>6 DEF Whose
  <2> QED
    BY <2>4, <2>5
<1>6. CASE DownloadFails(r)
  <2>1. PICK w : w = State("lock", a, None, None, {})
    OBVIOUS
  <2>2. w.pc = "lock" /\ w.ask = a /\ w.path = None
    BY <2>1 DEF State
  <2>3. at[r].pc = "save" /\ a.kind # "cover" /\ a.cover = "url" /\ UNCHANGED files
    BY <1>1, <1>6 DEF DownloadFails, In
  <2>4. NewBook(w.ask)
    BY <1>2, <2>2, <2>3 DEF Held
  <2>5. NewBook(w.ask)'
    BY <1>1, <2>4, SameBooks
  <2>6. Held(w)'
    BY <2>2, <2>5 DEF Held
  <2>7. at' = [at EXCEPT ![r] = w]
    BY <1>6, <2>1, Turned DEF DownloadFails
  <2>8. \A f : ~Whose(at[r], f)
    BY <2>3 DEF Whose
  <2> QED
    BY <1>2, <1>4, <2>3, <2>6, <2>7, <2>8
<1>7. CASE Lock(r)
  <2>1. PICK w : w = State("recheck", a, at[r].seen, at[r].path, at[r].sweep)
    OBVIOUS
  <2>2. w.pc = "recheck" /\ w.ask = a /\ w.path = at[r].path
    BY <2>1 DEF State
  <2>3. at[r].pc = "lock" /\ UNCHANGED files
    BY <1>7 DEF Lock
  <2>4. NewBook(w.ask) /\ (w.path # None => w.path \in files \ Used)
    BY <1>2, <2>2, <2>3 DEF Held
  <2>5. NewBook(w.ask)'
    BY <1>1, <2>4, SameBooks
  <2>6. Held(w)'
    BY <1>3, <2>2, <2>3, <2>4, <2>5 DEF Held
  <2>7. at' = [at EXCEPT ![r] = w]
    BY <1>7, <2>1, Went DEF Lock
  <2>8. \A f : Whose(at[r], f) <=> Whose(w, f)
    BY <2>2, <2>3 DEF Whose
  <2> QED
    BY <1>2, <1>4, <2>3, <2>6, <2>7, <2>8
<1> QED
  BY <1>5, <1>6, <1>7

LEMMA RecheckFiles ==
    ASSUME TypeInv, FilesInv, scene.width = 1, NEW r \in Request, Recheck(r)
    PROVE  FilesInv'
<1> DEFINE a == at[r].ask
<1>1. at[r].pc = "recheck" /\ a.kind = "intake" /\ UNCHANGED <<scene, books, kids>>
  BY OwnState DEF Recheck, Knows
<1>2. /\ Solo /\ FilesAreThere /\ Held(at[r])
      /\ Exact => \A f \in files : f \in Referenced \/ Whose(at[r], f)
  BY <1>1, Before
<1>3. NewBook(a) /\ (at[r].path # None => at[r].path \in files \ Used)
  BY <1>1, <1>2 DEF Held
<1>4. Go(r, "insert") /\ UNCHANGED files
  BY <1>3 DEF Recheck, NewBook
<1>5. Referenced' = Referenced /\ Used' = Used /\ FilesAreThere'
  BY <1>1, <1>2, <1>4, NothingMoves DEF FilesAreThere
<1>6. PICK w : w = State("insert", a, at[r].seen, at[r].path, at[r].sweep)
  OBVIOUS
<1>7. w.pc = "insert" /\ w.ask = a /\ w.path = at[r].path
  BY <1>6 DEF State
<1>8. NewBook(w.ask)'
  BY <1>1, <1>3, <1>7, SameBooks
<1>9. Held(w)'
  BY <1>1, <1>3, <1>4, <1>5, <1>7, <1>8 DEF Held
<1>10. at' = [at EXCEPT ![r] = w]
  BY <1>4, <1>6, Went
<1>11. Held(at[r])' /\ at'[r] = w
  BY <1>9, <1>10, HeldNow DEF TypeInv
<1>12. Exact => \A f \in files' : f \in Referenced' \/ Whose(at[r], f)'
  BY <1>1, <1>2, <1>4, <1>5, <1>7, <1>11 DEF Whose
<1> QED
  BY <1>1, <1>2, <1>5, <1>10, <1>11, <1>12, Solitary

LEMMA FillFiles ==
    ASSUME TypeInv, FilesInv, scene.width = 1, NEW r \in Request, Fill(r) \/ IntakeInsert(r)
    PROVE  FilesInv'
<1> DEFINE a == at[r].ask
           p == at[r].path
<1>1. /\ at[r].pc # "idle" /\ UNCHANGED <<scene, kids>> /\ End(r) /\ p \in Path \cup {None}
  BY OwnState DEF Fill, IntakeInsert, In, Working
<1>2. /\ Solo /\ FilesAreThere /\ Held(at[r])
      /\ Exact => \A f \in files : f \in Referenced \/ Whose(at[r], f)
  BY <1>1, Before
<1>3. Exact => \A f \in files : f \in Referenced \/ f = p
  BY <1>2 DEF Whose, Fill, IntakeInsert, In
<1>4. ASSUME UNCHANGED files, p # None => p \in files, Used' = Used \cup ({p} \ {None})
      PROVE  FilesInv'
  <2>1. Referenced' = Referenced \cup ({p} \ {None})
    BY <1>1, <1>4 DEF Referenced
  <2>2. FilesAreThere'
    BY <1>2, <1>4, <2>1 DEF FilesAreThere
  <2>3. None \notin files
    BY NoneAssumption DEF TypeInv, RowTypes
  <2>4. Exact => files' \subseteq Referenced'
    BY <1>3, <1>4, <2>1, <2>3
  <2> QED
    BY <1>1, <1>2, <2>2, <2>4, EndSolitary
<1>5. CASE Fill(r)
  <2> DEFINE b == at[r].seen
  <2>1. p \in files /\ p \in Path /\ b \in Live /\ books[b].cover = None
    BY <1>2, <1>5, OwnState DEF Held, Fill, Knows, Coverless
  <2>2. books' = [books EXCEPT ![b].cover = p] /\ UNCHANGED files
    BY <1>5, <2>1 DEF Fill
  <2>3. Used' \subseteq Used \cup {p} /\ p \in Used' /\ Used \subseteq Used' \cup {None}
    <3>1. p \in Path /\ b \in Live /\ books' = [books EXCEPT ![b].cover = p]
      BY <2>1, <2>2
    <3> HIDE DEF p, b
    <3>2. Used' \subseteq Used \cup {p} /\ p \in Used' /\ Used \subseteq Used' \cup {books[b].cover}
      BY <3>1, SetCover
    <3> QED
      BY <2>1, <3>2
  <2>4. None \notin Used /\ p # None
    BY <2>1, NoneAssumption DEF Used
  <2>5. Used' = Used \cup ({p} \ {None})
    BY <2>3, <2>4
  <2> QED
    BY <1>4, <2>1, <2>2, <2>5
<1>6. CASE IntakeInsert(r)
  <2>1. at[r].pc = "insert" /\ a.kind = "intake" /\ a \in Ask
    BY <1>6, OwnState DEF IntakeInsert, In
  <2>2. NewBook(a) /\ (p # None => p \in files)
    BY <1>2, <2>1 DEF Held
  <2>3. ~Taken(a.isbn, Live)
    BY <2>2 DEF Taken, Isbns, NewBook, Found
  <2>4. NewId \in Book /\ books' = [books EXCEPT ![NewId] = Row(a.isbn, a.title, p)] /\ UNCHANGED files
    BY <1>6, <2>3 DEF IntakeInsert
  <2>5. a.isbn \in Isbn \cup {None} /\ a.title \in Title
    BY <2>1, AskParts
  <2>6. Used' = Used \cup ({p} \ {None})
    BY <1>1, <2>4, <2>5, InsertUsed
  <2> QED
    BY <1>4, <2>2, <2>4, <2>6
<1> QED
  BY <1>5, <1>6

LEMMA AddFiles ==
    ASSUME TypeInv, FilesInv, scene.width = 1, NEW r \in Request, AddLook(r) \/ AddInsert(r)
    PROVE  FilesInv'
<1> DEFINE a == at[r].ask
           mine == IF Attachment(a.kid) THEN {a.kid} ELSE {}
<1>1. /\ a \in Ask /\ a.kind = "add" /\ a.kid \in Kid /\ a.book \in Book /\ at[r].pc # "idle"
      /\ UNCHANGED <<scene, books>>
  BY OwnState, AskParts DEF AddLook, AddInsert, In
<1>2. /\ Solo /\ FilesAreThere /\ Held(at[r])
      /\ Exact => \A f \in files : f \in Referenced \/ Whose(at[r], f)
  BY <1>1, Before
<1>3. CASE AddLook(r)
  <2>1. UNCHANGED kids /\ at[r].pc = "start"
    BY <1>3 DEF AddLook, In
  <2>2. Referenced' = Referenced /\ Live' = Live /\ \A f : ~Whose(at[r], f)
    BY <1>1, <2>1, NothingMoves DEF Whose
  <2>3. CASE a.book \notin Live
    <3>1. End(r) /\ UNCHANGED files
      BY <1>3, <2>3 DEF AddLook
    <3>2. FilesAreThere' /\ (Exact => files' \subseteq Referenced')
      BY <1>2, <2>2, <3>1 DEF FilesAreThere
    <3> QED
      BY <1>1, <1>2, <3>1, <3>2, EndSolitary
  <2>4. CASE a.book \in Live
    <3>1. files' = files \cup mine /\ Go(r, "insert")
      BY <1>3, <2>4 DEF AddLook
    <3>2. PICK w : w = State("insert", a, at[r].seen, at[r].path, at[r].sweep)
      OBVIOUS
    <3>3. w.pc = "insert" /\ w.ask = a
      BY <3>2 DEF State
    <3>4. Attachment(w.ask.kid) => w.ask.kid \in files'
      BY <3>1, <3>3
    <3>5. w.ask.book \in Live'
      BY <2>2, <2>4, <3>3
    <3>6. Held(w)'
      BY <1>1, <3>3, <3>4, <3>5 DEF Held, Attachment
    <3>7. at' = [at EXCEPT ![r] = w]
      BY <3>1, <3>2, Went
    <3>8. Held(at[r])' /\ at'[r] = w
      BY <3>6, <3>7, HeldNow DEF TypeInv
    <3>9. FilesAreThere'
      BY <1>2, <2>2, <3>1 DEF FilesAreThere
    <3>10. \A f \in mine : Whose(w, f)
      BY <1>1, <3>3 DEF Whose
    <3>11. Exact => \A f \in files' : f \in Referenced' \/ Whose(at[r], f)'
      BY <1>2, <2>2, <3>1, <3>8, <3>10 DEF Whose, Attachment
    <3> QED
      BY <1>1, <1>2, <3>7, <3>8, <3>9, <3>11, Solitary
  <2> QED
    BY <2>3, <2>4
<1>4. CASE AddInsert(r)
  <2>1. /\ at[r].pc = "insert" /\ UNCHANGED files /\ End(r) /\ Used' = Used
    BY <1>1, <1>4 DEF AddInsert, In, Used, Live
  <2>2. a.book \in Live /\ (Attachment(a.kid) => a.kid \in files)
    BY <1>1, <1>2, <2>1 DEF Held
  <2>3. CASE Duplicate(a.kid, a.book)
    <3>1. kids' = kids /\ ~Attachment(a.kid)
      BY <1>4, <2>3 DEF AddInsert, Duplicate, Keyed, Attachment
    <3>2. Referenced' = Referenced
      BY <1>1, <3>1, NothingMoves
    <3>3. \A f : ~Whose(at[r], f)
      BY <1>1, <2>1, <3>1 DEF Whose
    <3>4. FilesAreThere' /\ (Exact => files' \subseteq Referenced')
      BY <1>2, <2>1, <3>2, <3>3 DEF FilesAreThere
    <3> QED
      BY <1>1, <1>2, <2>1, <3>4, EndSolitary
  <2>4. CASE ~Duplicate(a.kid, a.book)
    <3>1. kids' = [kids EXCEPT ![a.kid] = a.book]
      BY <1>4, <2>2, <2>4 DEF AddInsert
    <3>2. kids'[a.kid] # None /\ \A k \in Kid \ {a.kid} : kids'[k] = kids[k]
      BY <1>1, <3>1, NoneAssumption DEF TypeInv, RowTypes
    <3>3. Referenced \cup mine = Referenced'
      BY <1>1, <2>1, <3>2 DEF Referenced
    <3>4. FilesAreThere'
      BY <1>2, <2>1, <2>2, <3>3 DEF FilesAreThere
    <3>5. \A f : Whose(at[r], f) => f \in mine
      BY <1>1, <2>1 DEF Whose
    <3>6. Exact => files' \subseteq Referenced'
      BY <1>2, <2>1, <3>3, <3>5
    <3> QED
      BY <1>1, <1>2, <2>1, <3>4, <3>6, EndSolitary
  <2> QED
    BY <2>3, <2>4
<1> QED
  BY <1>3, <1>4

LEMMA FaultFiles ==
    ASSUME TypeInv, FilesInv, scene.width = 1, NEW r \in Request, Die(r) \/ Busy(r) \/ Refused(r)
    PROVE  FilesInv'
<1> DEFINE a == at[r].ask
<1>1. /\ at[r].pc # "idle" /\ UNCHANGED <<scene, books, kids>> /\ End(r)
      /\ at[r].path \in Path \cup {None} /\ Knows(at[r])
  BY OwnState DEF Die, Busy, Refused, In, Working
<1>2. /\ Solo /\ FilesAreThere /\ Held(at[r])
      /\ Exact => \A f \in files : f \in Referenced \/ Whose(at[r], f)
  BY <1>1, Before
<1>3. Referenced' = Referenced
  BY <1>1, NothingMoves
<1>4. UNCHANGED files \/ (files' = files \ {at[r].path} /\ at[r].path \notin Referenced)
  <2>1. CASE UNCHANGED files
    BY <2>1
  <2>2. CASE ~UNCHANGED files
    <3>1. files' = files \ {at[r].path} /\ a.kind \in {"intake", "link"} /\ at[r].pc \in {"insert", "fill"}
      BY <1>1, <2>2 DEF Die, Busy, Refused, NotFilled, Cleaned, In, Knows
    <3>2. at[r].pc = "insert" => a.kind = "intake"
      BY <1>1, <3>1 DEF Knows
    <3>3. at[r].path # None => at[r].path \notin Used
      BY <1>2, <3>1, <3>2 DEF Held
    <3> QED
      BY <1>1, <3>1, <3>3, Refs
  <2> QED
    BY <2>1, <2>2
<1>5. FilesAreThere'
  BY <1>2, <1>3, <1>4 DEF FilesAreThere
\* A refused receipt takes its file with it; nothing else fails in an exact scene.
<1>6. Exact => files' \subseteq Referenced'
  <2> SUFFICES ASSUME Exact PROVE files' \subseteq Referenced'
    OBVIOUS
  <2>1. Refused(r)
    BY DEF Exact, Die, Busy
  <2>2. files' = files \ {at[r].path} /\ at[r].pc \in {"insert", "fill"} /\ a.kind \in {"intake", "link"}
    BY <2>1 DEF Refused, Cleaned
  <2>3. \A f \in files : f \in Referenced \/ f = at[r].path
    BY <1>2, <2>2 DEF Whose
  <2> QED
    BY <1>3, <2>2, <2>3
<1> QED
  BY <1>1, <1>2, <1>5, <1>6, EndSolitary

LEMMA FilesStart == Init => FilesInv
<1> SUFFICES ASSUME Init PROVE FilesInv
  OBVIOUS
<1>1. \A r \in Request : at[r].pc = "idle"
  BY DEF Init, Idle
<1>2. Solo /\ \A r \in Request : Held(at[r])
  BY <1>1 DEF Solo, Held
<1>3. files = Referenced
  BY DEF Init, Referenced
<1> QED
  BY <1>2, <1>3 DEF FilesInv, FilesAreThere, Tidy

LEMMA FilesStep == TypeInv /\ OneBookPerIsbn /\ FilesInv /\ [Next]_rows => FilesInv'
<1> SUFFICES ASSUME TypeInv, OneBookPerIsbn, FilesInv, [Next]_rows PROVE FilesInv'
  OBVIOUS
<1>1. CASE UNCHANGED rows
  <2>1. UNCHANGED <<scene, books, kids, files, at>>
    BY <1>1 DEF rows
  <2>2. (\A r \in Request : Held(at[r])) => (\A r \in Request : Held(at[r])')
    BY <2>1 DEF Held, Attachment, NewBook, Coverless, NotOwned, Found, Referenced, Used, Live, Of
  <2> QED
    BY <2>1, <2>2, NothingMoves DEF FilesInv, Solo, FilesAreThere, Tidy, Exact, Whose, Attachment
<1>2. CASE scene.width # 1
  BY <1>2, SceneStays DEF FilesInv
<1>3. CASE Next /\ scene.width = 1
  BY <1>3, IssueFiles, CreateFiles, UpdateFiles, MergeFiles, DeleteFiles, RemoveFiles, CoverFiles,
     LookFiles, SaveFiles, RecheckFiles, FillFiles, AddFiles, FaultFiles DEF Next
<1> QED
  BY <1>1, <1>2, <1>3

-----------------------------------------------------------------------------
(* Several requests at once.  Where none of them writes a file, no row comes *)
(* to refer to a file again, so what was found without a row stays so.       *)
Merges == \E a \in scene.asks : a.kind = "merge"

Removing ==
    /\ \A a \in scene.asks : \/ a.kind \in {"create", "update", "merge", "delete"}
                             \/ a.kind = "add" /\ ~Attachment(a.kid)
    /\ Merges => \A k \in Kid : Attachment(k) => scene.kids[k] = None

Gone(w) ==
    /\ w.pc \in {"look", "unlink"} => w.sweep \cap Referenced = {}
    /\ w.pc = "commit" => \A k \in w.sweep :
          k \in Kid /\ Attachment(k) /\ kids[k] \in {None, w.ask.book}

RemovingInv ==
    Removing => /\ FilesAreThere
                /\ Merges => \A k \in Kid : Attachment(k) => kids[k] = None
                /\ \A r \in Request : Gone(at[r])

LEMMA RemovedOnly ==
    ASSUME TypeInv, RemovingInv, Removing, NEW r \in Request, NEW w, at' = [at EXCEPT ![r] = w],
           UNCHANGED scene, Used' \subseteq Used, FilesAreThere', Gone(at[r])',
           \A k \in Kid : Attachment(k) => kids'[k] \in {None, kids[k]}
    PROVE  RemovingInv'
<1>1. Referenced' \subseteq Referenced
  BY DEF Referenced, Attachment
<1>2. \A q \in Request \ {r} : at'[q] = at[q]
  BY DEF TypeInv
<1>3. ASSUME NEW q \in Request PROVE Gone(at[q])'
  <2>1. CASE q = r
    BY <2>1
  <2>2. CASE q # r
    <3>1. Gone(at[q]) /\ at'[q] = at[q]
      BY <1>2, <2>2 DEF RemovingInv
    <3>2. at[q].pc = "commit" => \A k \in at[q].sweep :
             k \in Kid /\ Attachment(k) /\ kids'[k] \in {None, at[q].ask.book}
      BY <3>1 DEF Gone
    <3> QED
      BY <1>1, <3>1, <3>2 DEF Gone, Attachment
  <2> QED
    BY <2>1, <2>2
<1>4. (Merges => \A k \in Kid : Attachment(k) => kids[k] = None)'
  BY DEF RemovingInv, Merges, Attachment
<1> QED
  BY <1>3, <1>4 DEF RemovingInv

\* Before a request has removed anything, and after.
LEMMA RemovedNothing ==
    ASSUME TypeInv, RemovingInv, Removing, NEW r \in Request, NEW w, at' = [at EXCEPT ![r] = w],
           w.pc \notin {"commit", "look", "unlink"}, UNCHANGED <<scene, files>>, Used' \subseteq Used,
           \A k \in Kid : Attachment(k) => kids'[k] \in {None, kids[k]}
    PROVE  RemovingInv'
<1>1. Referenced' \subseteq Referenced
  BY DEF Referenced, Attachment
<1>2. FilesAreThere'
  BY <1>1 DEF RemovingInv, FilesAreThere
<1>3. at'[r] = w
  BY DEF TypeInv
<1>4. Gone(at[r])'
  BY <1>3 DEF Gone
<1> QED
  BY <1>2, <1>4, RemovedOnly

\* What is asked in such a scene.
LEMMA RemovingAsks ==
    ASSUME TypeInv, Removing, NEW r \in Request, at[r].pc # "idle"
    PROVE  /\ at[r].ask.kind \in {"create", "update", "merge", "delete", "add"}
           /\ at[r].ask.kind = "add" => ~Attachment(at[r].ask.kid)
           /\ at[r].ask.kind = "merge" => Merges
  BY OwnState DEF Removing, Knows, Merges

LEMMA CreateUsed ==
    ASSUME TypeInv, NEW r \in Request, CreateInsert(r)
    PROVE  Used' = Used
<1>1. at[r].ask \in Ask /\ at[r].ask.kind = "create"
  BY OwnState DEF CreateInsert, In
<1>2. CASE UNCHANGED books
  BY <1>2 DEF Used, Live
<1>3. CASE books' # books
  <2>1. NewId \in Book /\ books' = [books EXCEPT ![NewId] = Row(at[r].ask.isbn, at[r].ask.title, None)]
    BY <1>3 DEF CreateInsert
  <2>2. at[r].ask.isbn \in Isbn \cup {None} /\ at[r].ask.title \in Title
    BY <1>1, AskParts
  <2>3. Used' = Used \cup ({None} \ {None})
    BY <2>1, <2>2, InsertUsed
  <2> QED
    BY <2>3
<1> QED
  BY <1>2, <1>3

LEMMA EditRemoving ==
    ASSUME TypeInv, OneBookPerIsbn, RemovingInv, Removing, NEW r \in Request,
           CreateLook(r) \/ CreateInsert(r) \/ Update(r) \/ RefuseMerge(r)
    PROVE  RemovingInv'
<1>1. UNCHANGED <<scene, kids, files>> /\ Used' = Used
  BY CreateUsed, UpdateUsed, NothingMoves DEF CreateLook, CreateInsert, Update, RefuseMerge
<1>2. CASE End(r)
  <2>1. PICK w : w = State("idle", None, None, None, {})
    OBVIOUS
  <2> QED
    BY <1>1, <1>2, <2>1, Ended, RemovedNothing DEF State
<1>3. CASE Go(r, "insert")
  <2>1. PICK w : w = State("insert", at[r].ask, at[r].seen, at[r].path, at[r].sweep)
    OBVIOUS
  <2> QED
    BY <1>1, <1>3, <2>1, Went, RemovedNothing DEF State
<1> QED
  BY <1>2, <1>3 DEF CreateLook, CreateInsert, Update, RefuseMerge

LEMMA MergeRemoving ==
    ASSUME TypeInv, RemovingInv, Removing, NEW r \in Request, Merge(r)
    PROVE  RemovingInv'
<1> DEFINE t == at[r].ask.target
           s == at[r].ask.source
<1>1. /\ UNCHANGED <<scene, files>> /\ Used' \subseteq Used
      /\ \A k \in Kid : kids'[k] = IF k \notin Of(s) THEN kids[k]
                                   ELSE IF Duplicate(k, t) THEN None ELSE t
  BY MergeUsed, Merging DEF Merge
<1>2. \A k \in Kid : Attachment(k) => kids[k] = None
  BY RemovingAsks DEF Merge, In, RemovingInv
<1>3. s # None
  BY Merging, NoneAssumption DEF Live
<1>4. \A k \in Kid : Attachment(k) => kids'[k] \in {None, kids[k]}
  BY <1>1, <1>2, <1>3 DEF Of
<1>5. PICK w : w = State("look", at[r].ask, None, LeftCover(t, s), {})
  OBVIOUS
<1>6. at' = [at EXCEPT ![r] = w]
  BY <1>5, Turned DEF Merge
<1>7. at'[r] = w /\ w.pc = "look" /\ w.sweep = {}
  BY <1>5, <1>6 DEF TypeInv, State
<1>8. Gone(at[r])'
  BY <1>7 DEF Gone
<1>9. FilesAreThere'
  BY <1>1, <1>4 DEF RemovingInv, FilesAreThere, Referenced, Attachment
<1> QED
  BY <1>1, <1>4, <1>6, <1>8, <1>9, RemovedOnly

LEMMA DeleteRemoving ==
    ASSUME TypeInv, RemovingInv, Removing, NEW r \in Request, DeleteRead(r) \/ DeleteCommit(r)
    PROVE  RemovingInv'
<1> DEFINE b == at[r].ask.book
<1>1. b \in Book /\ UNCHANGED <<scene, files>> /\ FilesAreThere /\ Gone(at[r])
  BY OwnState, AskParts DEF DeleteRead, DeleteCommit, In, RemovingInv
<1>2. CASE DeleteRead(r)
  <2>1. UNCHANGED <<books, kids>>
    BY <1>2 DEF DeleteRead
  <2>2. Used' = Used /\ FilesAreThere'
    BY <1>1, <2>1, NothingMoves DEF FilesAreThere
  <2>3. CASE b \in Live
    <3> DEFINE mine == {k \in Of(b) : Attachment(k)}
    <3>1. PICK w : w = State("commit", at[r].ask, None, books[b].cover, mine)
      OBVIOUS
    <3>2. at' = [at EXCEPT ![r] = w]
      BY <1>2, <2>3, <3>1, Turned DEF DeleteRead
    <3>3. at'[r] = w /\ w.pc = "commit" /\ w.sweep = mine /\ w.ask.book = b
      BY <3>1, <3>2 DEF TypeInv, State
    <3>4. \A k \in mine : k \in Kid /\ Attachment(k) /\ kids'[k] = b
      BY <2>1 DEF Of
    <3>5. Gone(at[r])'
      BY <3>3, <3>4 DEF Gone, Attachment
    <3> QED
      BY <1>1, <2>1, <2>2, <3>2, <3>5, RemovedOnly
  <2>4. CASE b \notin Live
    <3>1. PICK w : w = State("idle", None, None, None, {})
      OBVIOUS
    <3> QED
      BY <1>1, <1>2, <2>1, <2>2, <2>4, <3>1, Ended, RemovedNothing DEF State, DeleteRead
  <2> QED
    BY <2>3, <2>4
<1>3. CASE DeleteCommit(r)
  <2>1. /\ Used' \subseteq Used
        /\ \A k \in Kid : kids'[k] = IF kids[k] = b THEN None ELSE kids[k]
    BY <1>1, <1>3, DeleteUsed DEF DeleteCommit, Removed, Of
  <2>2. FilesAreThere'
    BY <1>1, <2>1 DEF FilesAreThere, Referenced, Attachment
  <2>3. PICK w : w = State("look", at[r].ask, at[r].seen, at[r].path, at[r].sweep)
    OBVIOUS
  <2>4. at' = [at EXCEPT ![r] = w]
    BY <1>3, <2>3, Went DEF DeleteCommit
  <2>5. at'[r] = w /\ w.pc = "look" /\ w.sweep = at[r].sweep
    BY <2>3, <2>4 DEF TypeInv, State
  <2>6. \A k \in at[r].sweep : k \in Kid /\ kids'[k] = None
    BY <1>1, <1>3, <2>1 DEF Gone, DeleteCommit, In
  <2>7. at[r].sweep \cap Referenced' = {}
    <3>1. \A k \in Kid : k \in Referenced' => kids'[k] # None
      BY <2>1, Refs, KidAssumption DEF Referenced
    <3> QED
      BY <2>6, <3>1
  <2>8. Gone(at[r])'
    BY <2>5, <2>7 DEF Gone
  <2> QED
    BY <1>1, <2>1, <2>2, <2>4, <2>8, RemovedOnly
<1> QED
  BY <1>2, <1>3

LEMMA SweepRemoving ==
    ASSUME TypeInv, RemovingInv, Removing, NEW r \in Request, Look(r) \/ Unlink(r)
    PROVE  RemovingInv'
<1>1. /\ UNCHANGED <<scene, books, kids>> /\ FilesAreThere /\ Gone(at[r])
      /\ at[r].path \in Path \cup {None}
  BY OwnState DEF Look, Unlink, RemovingInv, Working
<1>2. Used' = Used /\ Referenced' = Referenced
  BY <1>1, NothingMoves
<1>3. at[r].sweep \cap Referenced = {}
  BY <1>1 DEF Gone, Look, Unlink
<1>4. CASE Look(r)
  <2> DEFINE found == at[r].sweep \cup (IF Unreferenced(at[r].path) THEN {at[r].path} ELSE {})
  <2>1. found \cap Referenced' = {}
    BY <1>1, <1>2, <1>3, Refs DEF Unreferenced
  <2>2. PICK w : w = State("unlink", at[r].ask, None, None, found)
    OBVIOUS
  <2>3. at' = [at EXCEPT ![r] = w]
    BY <1>4, <2>2, Turned DEF Look
  <2>4. at'[r] = w /\ w.pc = "unlink" /\ w.sweep = found
    BY <2>2, <2>3 DEF TypeInv, State
  <2>5. Gone(at[r])'
    BY <2>1, <2>4 DEF Gone
  <2>6. FilesAreThere'
    BY <1>1, <1>2, <1>4 DEF FilesAreThere, Look
  <2> QED
    BY <1>1, <1>2, <2>3, <2>5, <2>6, RemovedOnly
<1>5. CASE Unlink(r)
  <2>1. FilesAreThere'
    BY <1>1, <1>2, <1>3, <1>5 DEF FilesAreThere, Unlink
  <2>2. PICK w : w = State("idle", None, None, None, {})
    OBVIOUS
  <2>3. at' = [at EXCEPT ![r] = w]
    BY <1>5, <2>2, Ended DEF Unlink
  <2>4. at'[r] = w /\ w.pc = "idle"
    BY <2>2, <2>3 DEF TypeInv, State
  <2>5. Gone(at[r])'
    BY <2>4 DEF Gone
  <2> QED
    BY <1>1, <1>2, <2>1, <2>3, <2>5, RemovedOnly
<1> QED
  BY <1>4, <1>5

LEMMA AddRemoving ==
    ASSUME TypeInv, RemovingInv, Removing, NEW r \in Request, AddLook(r) \/ AddInsert(r)
    PROVE  RemovingInv'
<1> DEFINE a == at[r].ask
<1>1. /\ a.kid \in Kid /\ a.book \in Book /\ ~Attachment(a.kid) /\ UNCHANGED <<scene, books>>
  BY OwnState, AskParts, RemovingAsks DEF AddLook, AddInsert, In
<1>2. UNCHANGED files /\ Used' = Used
  BY <1>1 DEF AddLook, AddInsert, Used, Live
<1>3. \A k \in Kid : Attachment(k) => kids'[k] = kids[k]
  BY <1>1 DEF AddLook, AddInsert, TypeInv, RowTypes
<1>4. CASE End(r)
  <2>1. PICK w : w = State("idle", None, None, None, {})
    OBVIOUS
  <2> QED
    BY <1>1, <1>2, <1>3, <1>4, <2>1, Ended, RemovedNothing DEF State
<1>5. CASE Go(r, "insert")
  <2>1. PICK w : w = State("insert", a, at[r].seen, at[r].path, at[r].sweep)
    OBVIOUS
  <2> QED
    BY <1>1, <1>2, <1>3, <1>5, <2>1, Went, RemovedNothing DEF State
<1> QED
  BY <1>4, <1>5 DEF AddLook, AddInsert

LEMMA FaultRemoving ==
    ASSUME TypeInv, RemovingInv, Removing, NEW r \in Request, Die(r) \/ Busy(r) \/ Refused(r)
    PROVE  RemovingInv'
<1>1. UNCHANGED <<scene, books, kids>> /\ End(r) /\ at[r].pc # "idle"
  BY DEF Die, Busy, Refused, In
<1>2. UNCHANGED files /\ Used' = Used
  BY <1>1, OwnState, RemovingAsks, NothingMoves DEF Die, Busy, Refused, Knows
<1>3. PICK w : w = State("idle", None, None, None, {})
  OBVIOUS
<1> QED
  BY <1>1, <1>2, <1>3, Ended, RemovedNothing DEF State

LEMMA IssueRemoving ==
    ASSUME TypeInv, RemovingInv, Removing, NEW r \in Request, Issue(r)
    PROVE  RemovingInv'
<1>1. PICK a : at' = [at EXCEPT ![r] = [Idle EXCEPT !.pc = "start", !.ask = a,
                                                    !.seen = [b \in Live |-> books[b].isbn]]]
  BY DEF Issue
<1>2. PICK w : w = [Idle EXCEPT !.pc = "start", !.ask = a, !.seen = [b \in Live |-> books[b].isbn]]
  OBVIOUS
<1>3. w.pc = "start"
  BY <1>2 DEF Idle
<1> QED
  BY <1>1, <1>2, <1>3, RemovedNothing, NothingMoves DEF Issue

LEMMA RemovingStep == TypeInv /\ OneBookPerIsbn /\ RemovingInv /\ [Next]_rows => RemovingInv'
<1> SUFFICES ASSUME TypeInv, OneBookPerIsbn, RemovingInv, [Next]_rows PROVE RemovingInv'
  OBVIOUS
<1>1. scene' = scene /\ (Removing' <=> Removing)
  BY SceneStays DEF Removing, Merges, Attachment
<1>2. CASE ~Removing
  BY <1>1, <1>2 DEF RemovingInv
<1>3. CASE UNCHANGED rows
  <2>1. UNCHANGED <<scene, books, kids, files, at>> /\ Referenced' = Referenced
    BY <1>3, NothingMoves DEF rows
  <2> QED
    BY <2>1 DEF RemovingInv, Removing, FilesAreThere, Merges, Gone, Attachment
<1>4. CASE Removing /\ Next
  <2>1. PICK r \in Request :
          \/ Issue(r) \/ CreateLook(r) \/ CreateInsert(r) \/ Update(r)
          \/ Merge(r) \/ RefuseMerge(r) \/ DeleteRead(r) \/ DeleteCommit(r)
          \/ Look(r) \/ Unlink(r) \/ CoverRead(r) \/ CoverSave(r) \/ CoverSet(r)
          \/ IntakeLook(r) \/ LinkLook(r) \/ Save(r) \/ DownloadFails(r) \/ Lock(r)
          \/ Recheck(r) \/ Fill(r) \/ IntakeInsert(r) \/ Refused(r)
          \/ AddLook(r) \/ AddInsert(r) \/ Die(r) \/ Busy(r)
    BY <1>4 DEF Next
  <2>2. /\ ~CoverRead(r) /\ ~CoverSave(r) /\ ~CoverSet(r) /\ ~IntakeLook(r) /\ ~LinkLook(r) /\ ~Save(r)
        /\ ~DownloadFails(r) /\ ~Lock(r) /\ ~Recheck(r) /\ ~Fill(r) /\ ~IntakeInsert(r)
    BY <1>4, RemovingAsks, OwnState DEF CoverRead, CoverSave, CoverSet, IntakeLook, LinkLook, Save,
       DownloadFails, Lock, Recheck, Fill, IntakeInsert, In, Knows
  <2> QED
    BY <1>4, <2>1, <2>2, IssueRemoving, EditRemoving, MergeRemoving, DeleteRemoving, SweepRemoving,
       AddRemoving, FaultRemoving
<1> QED
  BY <1>2, <1>3, <1>4

LEMMA RemovingStart == Init => RemovingInv
<1> SUFFICES ASSUME Init PROVE RemovingInv
  OBVIOUS
<1>1. \A r \in Request : Gone(at[r])
  BY DEF Init, Idle, Gone
<1>2. FilesAreThere
  BY DEF Init, FilesAreThere, Referenced
<1> QED
  BY <1>1, <1>2 DEF RemovingInv, Removing, Init

(* Where they only bring covers in, each has a path of its own that no row   *)
(* refers to until it commits: because every path has a uuid, or because one *)
(* request at a time brings any.                                             *)
Scanning ==
    /\ \A a \in scene.asks : a.kind \in {"create", "update", "intake"}
    /\ \/ \A a \in scene.asks : a.kind = "intake" => a.cover = "upload" /\ a.isbn = None
       \/ scene.apart /\ \A a, b \in scene.asks : a.kind = "intake" /\ b.kind = "intake" => a = b

Brings(w) ==
    w.path # None => /\ w.pc \in {"save", "lock", "recheck", "insert", "fill"}
                     /\ w.ask.kind = "intake"
                     /\ w.path \in Path \ Used
                     /\ w.pc # "save" => w.path \in files

ScanInv ==
    Scanning => /\ FilesAreThere
                /\ \A r \in Request : Brings(at[r]) /\ at[r].pc \notin {"commit", "look", "unlink", "set"}
                /\ \A r, q \in Request : r # q => at[r].path = None \/ at[r].path # at[q].path
                /\ scene.apart => \A r, q \in Request :
                      r # q => at[r].pc = "idle" \/ at[q].pc = "idle" \/ at[r].ask # at[q].ask

\* A request moves on with the path it has, without one, or with a new one.
LEMMA ScannedOnly ==
    ASSUME TypeInv, ScanInv, Scanning, NEW r \in Request, NEW w, at' = [at EXCEPT ![r] = w],
           UNCHANGED scene, FilesAreThere', Used' \subseteq Used \cup {at[r].path},
           files \ {at[r].path} \subseteq files', Brings(at[r])',
           w.pc \notin {"commit", "look", "unlink", "set"},
           w.path \in {None, at[r].path} \/ \A q \in Request \ {r} : w.path # at[q].path,
           \/ w.pc = "idle" \/ (w.ask = at[r].ask /\ at[r].pc # "idle")
           \/ scene.apart => \A q \in Request : w.ask # at[q].ask
    PROVE  ScanInv'
<1>1. at'[r] = w /\ \A q \in Request \ {r} : at'[q] = at[q]
  BY DEF TypeInv
<1>2. \A q \in Request \ {r} : at[q].path = None \/ at[q].path # at[r].path
  BY DEF ScanInv
<1>3. ASSUME NEW q \in Request PROVE Brings(at[q])' /\ at'[q].pc \notin {"commit", "look", "unlink", "set"}
  <2>1. CASE q = r
    BY <1>1, <2>1
  <2>2. CASE q # r
    <3>1. at'[q] = at[q] /\ Brings(at[q]) /\ at[q].pc \notin {"commit", "look", "unlink", "set"}
      BY <1>1, <2>2 DEF ScanInv
    <3> QED
      BY <1>2, <2>2, <3>1 DEF Brings
  <2> QED
    BY <2>1, <2>2
<1>4. \A q, s \in Request : q # s => at'[q].path = None \/ at'[q].path # at'[s].path
  <2>1. \A q \in Request \ {r} : w.path = None \/ at[q].path = None \/ w.path # at[q].path
    BY <1>2
  <2> QED
    BY <1>1, <2>1 DEF ScanInv
<1>5. scene.apart => \A q, s \in Request :
         q # s => at'[q].pc = "idle" \/ at'[s].pc = "idle" \/ at'[q].ask # at'[s].ask
  <2>1. scene.apart => \A q \in Request \ {r} : w.pc = "idle" \/ at[q].pc = "idle" \/ w.ask # at[q].ask
    BY DEF ScanInv
  <2> QED
    BY <1>1, <2>1 DEF ScanInv
<1> QED
  BY <1>3, <1>4, <1>5 DEF ScanInv

\* What is asked in such a scene, and what a request that asks it has.
LEMMA ScanAsks ==
    ASSUME TypeInv, ScanInv, Scanning, NEW r \in Request, at[r].pc # "idle"
    PROVE  /\ at[r].ask \in scene.asks /\ at[r].ask \in Ask
           /\ at[r].ask.kind \in {"create", "update", "intake"}
           /\ at[r].path \in Path \cup {None} /\ Brings(at[r]) /\ FilesAreThere
  BY OwnState DEF Scanning, Knows, ScanInv, Working

LEMMA NoPath ==
    ASSUME NEW r \in Request, NEW w, at'[r] = w, w.path = None
    PROVE  Brings(at[r])'
  BY DEF Brings

\* A request ends: its file is a row's now, or stays, or goes.
LEMMA EndScan ==
    ASSUME TypeInv, ScanInv, Scanning, NEW r \in Request, at[r].pc # "idle", End(r), UNCHANGED <<scene, kids>>,
           \/ UNCHANGED files /\ Used' \subseteq Used
           \/ UNCHANGED files /\ Used' \subseteq Used \cup {at[r].path} /\ at[r].pc # "save" /\ at[r].path # None
           \/ files' = Cleaned(r) /\ Used' \subseteq Used
    PROVE  ScanInv'
<1>1. at[r].path \in Path \cup {None} /\ Brings(at[r]) /\ FilesAreThere
  BY ScanAsks
<1>2. PICK w : w = State("idle", None, None, None, {})
  OBVIOUS
<1>3. at' = [at EXCEPT ![r] = w] /\ w.pc = "idle" /\ w.path = None
  BY <1>2, Ended DEF State
<1>4. at[r].path \notin Referenced
  BY <1>1, Refs DEF Brings
<1>5. Referenced' \subseteq files'
  <2>1. \A f \in Referenced' : f \in Used' \/ f \in Referenced
    BY DEF Referenced, Attachment
  <2>2. \A f \in Used : f \in Referenced
    BY DEF Referenced
  <2> QED
    BY <1>1, <1>4, <2>1, <2>2 DEF FilesAreThere, Brings, Cleaned
<1>6. FilesAreThere'
  BY <1>5 DEF FilesAreThere
<1>7. at'[r] = w
  BY <1>3 DEF TypeInv
<1>8. Brings(at[r])'
  BY <1>3, <1>7, NoPath
<1>9. Used' \subseteq Used \cup {at[r].path} /\ files \ {at[r].path} \subseteq files'
  BY DEF Cleaned
<1> QED
  BY <1>3, <1>6, <1>8, <1>9, ScannedOnly

\* A request goes on and rows and files stay.
LEMMA GoScan ==
    ASSUME TypeInv, ScanInv, Scanning, NEW r \in Request, at[r].pc # "idle", NEW w,
           at' = [at EXCEPT ![r] = w], UNCHANGED <<scene, books, kids, files>>, w.ask = at[r].ask,
           w.pc \in {"insert", "lock", "recheck", "fill"},
           w.path = None \/ (w.path = at[r].path /\ at[r].pc # "save")
    PROVE  ScanInv'
<1>1. FilesAreThere /\ Brings(at[r]) /\ Used' = Used /\ Referenced' = Referenced
  BY ScanAsks, NothingMoves
<1>2. at'[r] = w
  BY DEF TypeInv
<1>3. FilesAreThere'
  BY <1>1 DEF FilesAreThere
<1>4. Brings(at[r])'
  BY <1>1, <1>2 DEF Brings
<1> QED
  BY <1>1, <1>3, <1>4, ScannedOnly

LEMMA EditScan ==
    ASSUME TypeInv, OneBookPerIsbn, ScanInv, Scanning, NEW r \in Request,
           CreateLook(r) \/ CreateInsert(r) \/ Update(r)
    PROVE  ScanInv'
<1>1. /\ UNCHANGED <<scene, kids, files>> /\ Used' = Used /\ at[r].pc # "idle"
      /\ at[r].ask.kind # "intake"
  BY CreateUsed, UpdateUsed, NothingMoves DEF CreateLook, CreateInsert, Update, In
<1>2. CASE End(r)
  BY <1>1, <1>2, EndScan
<1>3. CASE CreateLook(r) /\ Go(r, "insert")
  <2>1. PICK w : w = State("insert", at[r].ask, at[r].seen, at[r].path, at[r].sweep)
    OBVIOUS
  <2>2. at' = [at EXCEPT ![r] = w] /\ w.pc = "insert" /\ w.ask = at[r].ask /\ w.path = at[r].path
    BY <1>3, <2>1, Went DEF State
  <2>3. w.path = None
    BY <1>1, <2>2, ScanAsks DEF Brings
  <2> QED
    BY <1>1, <1>3, <2>2, <2>3, GoScan DEF CreateLook
<1> QED
  BY <1>2, <1>3 DEF CreateLook, CreateInsert, Update

\* Where one request brings covers at a time, or they have a uuid each, nobody else has the path.
LEMMA PathOfOwn ==
    ASSUME TypeInv, ScanInv, Scanning, NEW r \in Request, In(r, "intake", "start"),
           Spare(CoverNameOf(at[r].ask)) # {}
    PROVE  \A q \in Request \ {r} : ChosenPath(at[r].ask) # at[q].path
<1> DEFINE a == at[r].ask
<1>1. a \in scene.asks /\ a \in Ask /\ a.kind = "intake"
  BY ScanAsks DEF In
<1>2. CASE a.cover = "upload" /\ a.isbn = None
  <2>1. ChosenPath(a) = Unused(CoverNameOf(a))
    BY <1>2 DEF ChosenPath
  <2>2. ChosenPath(a) \in Spare(CoverNameOf(a))
    BY <2>1 DEF Unused
  <2> QED
    BY <2>2 DEF Spare
<1>3. CASE scene.apart /\ \A b, c \in scene.asks : b.kind = "intake" /\ c.kind = "intake" => b = c
  <2>1. ASSUME NEW q \in Request \ {r}, at[q].path # None PROVE FALSE
    <3>1. at[q].pc # "idle" /\ at[q].ask.kind = "intake"
      BY <2>1 DEF ScanInv, Brings
    <3>2. at[q].ask = a
      BY <1>1, <1>3, <3>1, ScanAsks
    <3> QED
      BY <1>3, <2>1, <3>1, <3>2 DEF ScanInv, In
  <2>2. ChosenPath(a) # None
    BY <1>1, Chosen, NoneAssumption
  <2> QED
    BY <2>1, <2>2
<1> QED
  BY <1>1, <1>2, <1>3 DEF Scanning

LEMMA LookScan ==
    ASSUME TypeInv, ScanInv, Scanning, NEW r \in Request, IntakeLook(r)
    PROVE  ScanInv'
<1> DEFINE a == at[r].ask
<1>1. /\ In(r, "intake", "start") /\ at[r].pc # "idle" /\ UNCHANGED <<scene, books, kids, files>>
      /\ Spare(CoverNameOf(a)) # {}
  BY DEF IntakeLook, In
<1>2. a \in Ask /\ a.kind = "intake" /\ FilesAreThere /\ at[r].path = None
  BY <1>1, ScanAsks DEF In, Brings
<1>3. Used' = Used /\ Referenced' = Referenced /\ FilesAreThere'
  BY <1>1, <1>2, NothingMoves DEF FilesAreThere
<1>4. CASE End(r)
  BY <1>1, <1>3, <1>4, EndScan
<1>5. CASE Turn(r, "lock", None, None, {})
  <2>1. PICK w : w = State("lock", a, None, None, {})
    OBVIOUS
  <2>2. at' = [at EXCEPT ![r] = w] /\ w.pc = "lock" /\ w.ask = a /\ w.path = None
    BY <1>5, <2>1, Turned DEF State
  <2> QED
    BY <1>1, <2>2, GoScan
<1>6. ASSUME NEW b, Turn(r, "save", b, ChosenPath(a), {}) PROVE ScanInv'
  <2>1. PICK w : w = State("save", a, b, ChosenPath(a), {})
    OBVIOUS
  <2>2. at' = [at EXCEPT ![r] = w] /\ w.pc = "save" /\ w.ask = a /\ w.path = ChosenPath(a)
    BY <1>6, <2>1, Turned DEF State
  <2>3. w.path \in Path \ Used
    BY <1>1, <1>2, <2>2, Chosen, ChosenFree
  <2>4. at'[r] = w
    BY <2>2 DEF TypeInv
  <2>5. Brings(at[r])'
    BY <1>2, <1>3, <2>2, <2>3, <2>4 DEF Brings
  <2>6. \A q \in Request \ {r} : w.path # at[q].path
    BY <1>1, <2>2, PathOfOwn
  <2> QED
    BY <1>1, <1>3, <2>2, <2>5, <2>6, ScannedOnly
<1> QED
  BY <1>4, <1>5, <1>6 DEF IntakeLook

LEMMA SaveScan ==
    ASSUME TypeInv, ScanInv, Scanning, NEW r \in Request, Save(r) \/ DownloadFails(r) \/ Lock(r)
    PROVE  ScanInv'
<1>1. /\ at[r].pc # "idle" /\ UNCHANGED <<scene, books, kids>> /\ FilesAreThere /\ Brings(at[r])
      /\ Used' = Used /\ Referenced' = Referenced
  BY ScanAsks, NothingMoves DEF Save, DownloadFails, Lock, In
<1>2. CASE Save(r)
  <2> DEFINE to == IF at[r].seen = None THEN "lock" ELSE "fill"
  <2>1. PICK w : w = State(to, at[r].ask, at[r].seen, at[r].path, at[r].sweep)
    OBVIOUS
  <2>2. /\ at' = [at EXCEPT ![r] = w] /\ w.pc \in {"lock", "fill"} /\ w.ask = at[r].ask
        /\ w.path = at[r].path
    BY <1>2, <2>1, Went DEF State, Save
  <2>3. at'[r] = w /\ files' = files \cup {at[r].path}
    BY <1>2, <2>2 DEF TypeInv, Save
  <2>4. Brings(at[r])' /\ FilesAreThere'
    BY <1>1, <2>2, <2>3 DEF Brings, FilesAreThere
  <2> QED
    BY <1>1, <2>2, <2>3, <2>4, ScannedOnly
<1>3. CASE DownloadFails(r)
  <2>1. PICK w : w = State("lock", at[r].ask, None, None, {})
    OBVIOUS
  <2>2. at' = [at EXCEPT ![r] = w] /\ w.pc = "lock" /\ w.ask = at[r].ask /\ w.path = None
    BY <1>3, <2>1, Turned DEF State, DownloadFails
  <2> QED
    BY <1>1, <1>3, <2>2, GoScan DEF DownloadFails
<1>4. CASE Lock(r)
  <2>1. PICK w : w = State("recheck", at[r].ask, at[r].seen, at[r].path, at[r].sweep)
    OBVIOUS
  <2>2. at' = [at EXCEPT ![r] = w] /\ w.pc = "recheck" /\ w.ask = at[r].ask /\ w.path = at[r].path
    BY <1>4, <2>1, Went DEF State, Lock
  <2> QED
    BY <1>1, <1>4, <2>2, GoScan DEF Lock
<1> QED
  BY <1>2, <1>3, <1>4

LEMMA RecheckScan ==
    ASSUME TypeInv, ScanInv, Scanning, NEW r \in Request, Recheck(r)
    PROVE  ScanInv'
<1>1. at[r].pc = "recheck" /\ UNCHANGED <<scene, books, kids>> /\ Used' = Used
  BY NothingMoves DEF Recheck
<1>2. CASE End(r)
  <2>1. UNCHANGED files \/ files' = Cleaned(r)
    BY DEF Recheck
  <2> QED
    BY <1>1, <1>2, <2>1, EndScan
<1>3. ASSUME NEW b, Turn(r, "fill", b, at[r].path, {}), UNCHANGED files PROVE ScanInv'
  <2>1. PICK w : w = State("fill", at[r].ask, b, at[r].path, {})
    OBVIOUS
  <2>2. at' = [at EXCEPT ![r] = w] /\ w.pc = "fill" /\ w.ask = at[r].ask /\ w.path = at[r].path
    BY <1>3, <2>1, Turned DEF State
  <2> QED
    BY <1>1, <1>3, <2>2, GoScan
<1>4. CASE Go(r, "insert") /\ UNCHANGED files
  <2>1. PICK w : w = State("insert", at[r].ask, at[r].seen, at[r].path, at[r].sweep)
    OBVIOUS
  <2>2. at' = [at EXCEPT ![r] = w] /\ w.pc = "insert" /\ w.ask = at[r].ask /\ w.path = at[r].path
    BY <1>4, <2>1, Went DEF State
  <2> QED
    BY <1>1, <1>4, <2>2, GoScan
<1> QED
  BY <1>2, <1>3, <1>4 DEF Recheck

LEMMA FillScan ==
    ASSUME TypeInv, ScanInv, Scanning, NEW r \in Request, Fill(r) \/ IntakeInsert(r)
    PROVE  ScanInv'
<1> DEFINE p == at[r].path
           b == at[r].seen
<1>1. /\ at[r].pc \in {"fill", "insert"} /\ UNCHANGED <<scene, kids>> /\ End(r)
      /\ p \in Path \cup {None} /\ at[r].ask \in Ask
  BY ScanAsks DEF Fill, IntakeInsert, In
<1>2. CASE UNCHANGED books
  <2>1. Used' = Used /\ (UNCHANGED files \/ files' = Cleaned(r))
    BY <1>2 DEF Used, Live, Fill, IntakeInsert, NotFilled
  <2> QED
    BY <1>1, <2>1, EndScan
<1>3. CASE Fill(r) /\ books' # books
  <2>1. b \in Live /\ p \in Path /\ books' = [books EXCEPT ![b].cover = p] /\ UNCHANGED files
    BY <1>3, OwnState DEF Fill, Knows
  <2>2. Used' \subseteq Used \cup {p}
    <3> HIDE DEF p, b
    <3> QED
      BY <2>1, SetCover
  <2>3. p # None
    BY <2>1, NoneAssumption
  <2> QED
    BY <1>1, <2>1, <2>2, <2>3, EndScan
<1>4. CASE IntakeInsert(r) /\ books' # books
  <2>1. /\ NewId \in Book /\ books' = [books EXCEPT ![NewId] = Row(at[r].ask.isbn, at[r].ask.title, p)]
        /\ UNCHANGED files
    BY <1>4 DEF IntakeInsert
  <2>2. at[r].ask.isbn \in Isbn \cup {None} /\ at[r].ask.title \in Title
    BY <1>1, <1>4, AskParts DEF IntakeInsert, In
  <2>3. Used' = Used \cup ({p} \ {None})
    BY <1>1, <2>1, <2>2, InsertUsed
  <2> QED
    BY <1>1, <2>1, <2>3, EndScan
<1> QED
  BY <1>2, <1>3, <1>4

LEMMA FaultScan ==
    ASSUME TypeInv, ScanInv, Scanning, NEW r \in Request, Die(r) \/ Busy(r) \/ Refused(r)
    PROVE  ScanInv'
<1>1. at[r].pc # "idle" /\ UNCHANGED <<scene, books, kids>> /\ End(r) /\ Used' = Used
  BY NothingMoves DEF Die, Busy, Refused, In
<1>2. UNCHANGED files \/ files' = Cleaned(r)
  BY DEF Die, Busy, Refused, NotFilled
<1> QED
  BY <1>1, <1>2, EndScan

LEMMA IssueScan ==
    ASSUME TypeInv, ScanInv, Scanning, NEW r \in Request, Issue(r)
    PROVE  ScanInv'
<1>1. PICK a \in scene.asks :
        /\ Free(a)
        /\ at' = [at EXCEPT ![r] = [Idle EXCEPT !.pc = "start", !.ask = a,
                                                !.seen = [b \in Live |-> books[b].isbn]]]
  BY DEF Issue
<1>2. PICK w : w = [Idle EXCEPT !.pc = "start", !.ask = a, !.seen = [b \in Live |-> books[b].isbn]]
  OBVIOUS
<1>3. w.pc = "start" /\ w.path = None /\ w.ask = a
  BY <1>2 DEF Idle
<1>4. UNCHANGED <<scene, books, kids, files>> /\ Used' = Used /\ Referenced' = Referenced
  BY NothingMoves DEF Issue
<1>5. FilesAreThere'
  BY <1>4 DEF ScanInv, FilesAreThere
<1>6. scene.apart => \A q \in Request : w.ask # at[q].ask
  BY <1>1, <1>3 DEF Free
<1>7. at'[r] = w
  BY <1>1, <1>2 DEF TypeInv
<1>8. Brings(at[r])'
  BY <1>3, <1>7, NoPath
<1> QED
  BY <1>1, <1>2, <1>3, <1>4, <1>5, <1>6, <1>8, ScannedOnly

LEMMA ScanStep == TypeInv /\ OneBookPerIsbn /\ ScanInv /\ [Next]_rows => ScanInv'
<1> SUFFICES ASSUME TypeInv, OneBookPerIsbn, ScanInv, [Next]_rows PROVE ScanInv'
  OBVIOUS
<1>1. scene' = scene /\ (Scanning' <=> Scanning)
  BY SceneStays DEF Scanning
<1>2. CASE ~Scanning
  BY <1>1, <1>2 DEF ScanInv
<1>3. CASE UNCHANGED rows
  <2>1. UNCHANGED <<scene, books, kids, files, at>> /\ Referenced' = Referenced /\ Used' = Used
    BY <1>3, NothingMoves DEF rows
  <2> QED
    BY <2>1 DEF ScanInv, Scanning, FilesAreThere, Brings
<1>4. CASE Scanning /\ Next
  <2>1. PICK r \in Request :
          \/ Issue(r) \/ CreateLook(r) \/ CreateInsert(r) \/ Update(r)
          \/ Merge(r) \/ RefuseMerge(r) \/ DeleteRead(r) \/ DeleteCommit(r)
          \/ Look(r) \/ Unlink(r) \/ CoverRead(r) \/ CoverSave(r) \/ CoverSet(r)
          \/ IntakeLook(r) \/ LinkLook(r) \/ Save(r) \/ DownloadFails(r) \/ Lock(r)
          \/ Recheck(r) \/ Fill(r) \/ IntakeInsert(r) \/ Refused(r)
          \/ AddLook(r) \/ AddInsert(r) \/ Die(r) \/ Busy(r)
    BY <1>4 DEF Next
  <2>2. /\ ~Merge(r) /\ ~RefuseMerge(r) /\ ~DeleteRead(r) /\ ~DeleteCommit(r) /\ ~CoverRead(r)
        /\ ~CoverSave(r) /\ ~CoverSet(r) /\ ~LinkLook(r) /\ ~AddLook(r) /\ ~AddInsert(r)
    BY <1>4, ScanAsks DEF Merge, RefuseMerge, DeleteRead, DeleteCommit, CoverRead, CoverSave, CoverSet,
       LinkLook, AddLook, AddInsert, In
  <2>3. ~Look(r) /\ ~Unlink(r)
    BY <1>4 DEF ScanInv, Look, Unlink
  <2> QED
    BY <1>4, <2>1, <2>2, <2>3, IssueScan, EditScan, LookScan, SaveScan, RecheckScan, FillScan, FaultScan
<1> QED
  BY <1>2, <1>3, <1>4

LEMMA ScanStart == Init => ScanInv
<1> SUFFICES ASSUME Init PROVE ScanInv
  OBVIOUS
<1>1. \A r \in Request : at[r].pc = "idle" /\ at[r].path = None
  BY DEF Init, Idle
<1>2. FilesAreThere
  BY DEF Init, FilesAreThere, Referenced
<1> QED
  BY <1>1, <1>2 DEF ScanInv, Brings

(* And where each of them brings one, and every book has one, no file is     *)
(* left: a cover is some row's or some request's.                            *)
Gathering ==
    /\ Scanning /\ scene.faults \subseteq {"refused"}
    /\ \A a \in scene.asks : a.kind = "intake" /\ a.cover \in {"upload", "photo"} /\ a.isbn = None
    /\ \A b \in Book : scene.books[b] # None => scene.books[b].cover # None

GatherInv ==
    Gathering => /\ \A b \in Live : books[b].cover # None
                 /\ \A r \in Request : /\ at[r].pc \in {"lock", "recheck", "insert"} => at[r].path # None
                                       /\ at[r].pc = "save" => at[r].seen = None
                                       /\ at[r].pc # "fill"
                 /\ \A f \in files : f \in Referenced \/ \E r \in Request : at[r].path = f

LEMMA GatheredOnly ==
    ASSUME TypeInv, GatherInv, Gathering, NEW r \in Request, NEW w, at' = [at EXCEPT ![r] = w],
           UNCHANGED scene, \A b \in Live' : books'[b].cover # None, Referenced \subseteq Referenced',
           w.pc \in {"lock", "recheck", "insert"} => w.path # None,
           w.pc = "save" => w.seen = None, w.pc # "fill",
           \A f \in files' : f \in files \/ f = w.path,
           at[r].path \in {w.path, None} \/ at[r].path \in Referenced' \/ at[r].path \notin files'
    PROVE  GatherInv'
<1>1. at'[r] = w /\ \A q \in Request \ {r} : at'[q] = at[q]
  BY DEF TypeInv
<1>2. (\A q \in Request : /\ at[q].pc \in {"lock", "recheck", "insert"} => at[q].path # None
                          /\ at[q].pc = "save" => at[q].seen = None
                          /\ at[q].pc # "fill")'
  BY <1>1 DEF GatherInv
<1>3. ASSUME NEW f \in files' PROVE f \in Referenced' \/ \E q \in Request : at'[q].path = f
  <2>1. CASE f = w.path
    BY <1>1, <2>1
  <2>2. CASE f \in files
    <3>1. f # None
      BY <2>2, NoneAssumption DEF TypeInv, RowTypes
    <3>2. f \in Referenced \/ \E q \in Request : at[q].path = f
      BY <2>2 DEF GatherInv
    <3> QED
      BY <1>1, <1>3, <3>1, <3>2
  <2> QED
    BY <2>1, <2>2
<1> QED
  BY <1>2, <1>3 DEF GatherInv

LEMMA GatherAsks ==
    ASSUME TypeInv, ScanInv, GatherInv, Gathering, NEW r \in Request, at[r].pc # "idle"
    PROVE  /\ at[r].ask \in Ask /\ at[r].ask.kind = "intake" /\ at[r].ask.cover \in {"upload", "photo"}
           /\ at[r].ask.isbn = None
           /\ at[r].pc \in {"start", "save", "lock", "recheck", "insert"}
           /\ at[r].pc # "start" => at[r].path \in Path
           /\ at[r].pc = "start" => at[r].path = None
<1>1. Scanning
  BY DEF Gathering
<1>2. /\ at[r].ask \in scene.asks /\ at[r].ask \in Ask /\ at[r].path \in Path \cup {None}
      /\ Brings(at[r]) /\ Knows(at[r]) /\ at[r].pc \in Labels
  BY <1>1, ScanAsks, OwnState DEF Working
<1>3. at[r].pc \notin {"commit", "look", "unlink", "set", "fill"}
  BY <1>1 DEF ScanInv, GatherInv
<1>4. at[r].pc \in {"save", "lock", "recheck", "insert"} => at[r].path \in Path
  BY <1>2, NoneAssumption DEF GatherInv, Knows
<1> QED
  BY <1>2, <1>3, <1>4 DEF Gathering, Brings, Labels

\* A request that goes on with its path, or ends without one or without its file.
LEMMA GatheredSame ==
    ASSUME TypeInv, GatherInv, Gathering, NEW r \in Request, NEW w, at' = [at EXCEPT ![r] = w],
           UNCHANGED <<scene, books, kids>>, files' \subseteq files \cup {w.path},
           w.pc \in {"lock", "recheck", "insert"} => w.path # None,
           w.pc = "save" => w.seen = None, w.pc # "fill",
           at[r].path \in {w.path, None} \/ at[r].path \notin files'
    PROVE  GatherInv'
<1>1. Live' = Live /\ Referenced' = Referenced
  BY NothingMoves
<1>2. \A b \in Live' : books'[b].cover # None
  BY <1>1 DEF GatherInv
<1> QED
  BY <1>1, <1>2, GatheredOnly

LEMMA LookGather ==
    ASSUME TypeInv, ScanInv, GatherInv, Gathering, NEW r \in Request, IntakeLook(r)
    PROVE  GatherInv'
<1> DEFINE a == at[r].ask
<1>1. /\ at[r].pc = "start" /\ UNCHANGED <<scene, books, kids, files>> /\ a \in Ask
      /\ a.cover \in {"upload", "photo"} /\ at[r].path = None /\ a.kind = "intake"
      /\ Spare(CoverNameOf(a)) # {}
  BY GatherAsks DEF IntakeLook, In
<1>2. CASE End(r)
  <2>1. PICK w : w = State("idle", None, None, None, {})
    OBVIOUS
  <2>2. at' = [at EXCEPT ![r] = w] /\ w.pc = "idle"
    BY <1>2, <2>1, Ended DEF State
  <2> QED
    BY <1>1, <2>2, GatheredSame
<1>3. CASE Turn(r, "save", None, ChosenPath(a), {})
  <2>1. PICK w : w = State("save", a, None, ChosenPath(a), {})
    OBVIOUS
  <2>2. at' = [at EXCEPT ![r] = w] /\ w.pc = "save" /\ w.seen = None
    BY <1>3, <2>1, Turned DEF State
  <2> QED
    BY <1>1, <2>2, GatheredSame
<1>4. \A b \in Found(a) : ~Wants(a, b)
  BY FoundLive DEF GatherInv, Wants
<1> QED
  BY <1>1, <1>2, <1>3, <1>4 DEF IntakeLook

LEMMA SaveGather ==
    ASSUME TypeInv, ScanInv, GatherInv, Gathering, NEW r \in Request,
           Save(r) \/ DownloadFails(r) \/ Lock(r)
    PROVE  GatherInv'
<1>1. /\ at[r].pc \in {"save", "lock"} /\ UNCHANGED <<scene, books, kids>>
      /\ at[r].path \in Path /\ at[r].path # None /\ at[r].ask.cover # "url"
  BY GatherAsks, NoneAssumption DEF Save, DownloadFails, Lock, In
<1>2. at[r].pc = "save" => at[r].seen = None
  BY DEF GatherInv
<1>3. CASE Save(r)
  <2>1. PICK w : w = State("lock", at[r].ask, at[r].seen, at[r].path, at[r].sweep)
    OBVIOUS
  <2>2. at' = [at EXCEPT ![r] = w] /\ w.pc = "lock" /\ w.path = at[r].path
    BY <1>2, <1>3, <2>1, Went DEF State, Save
  <2>3. files' = files \cup {w.path}
    BY <1>3, <2>2 DEF Save
  <2> QED
    BY <1>1, <2>2, <2>3, GatheredSame
<1>4. CASE Lock(r)
  <2>1. PICK w : w = State("recheck", at[r].ask, at[r].seen, at[r].path, at[r].sweep)
    OBVIOUS
  <2>2. at' = [at EXCEPT ![r] = w] /\ w.pc = "recheck" /\ w.path = at[r].path /\ UNCHANGED files
    BY <1>4, <2>1, Went DEF State, Lock
  <2> QED
    BY <1>1, <2>2, GatheredSame
<1> QED
  BY <1>1, <1>3, <1>4 DEF DownloadFails

LEMMA RecheckGather ==
    ASSUME TypeInv, ScanInv, GatherInv, Gathering, NEW r \in Request, Recheck(r)
    PROVE  GatherInv'
<1>1. /\ at[r].pc = "recheck" /\ UNCHANGED <<scene, books, kids>>
      /\ at[r].path \in Path /\ at[r].path # None
  BY GatherAsks, NoneAssumption DEF Recheck
<1>2. \A b \in Found(at[r].ask) : books[b].cover # None
  BY FoundLive DEF GatherInv
<1>3. CASE End(r) /\ files' = Cleaned(r)
  <2>1. PICK w : w = State("idle", None, None, None, {})
    OBVIOUS
  <2>2. at' = [at EXCEPT ![r] = w] /\ w.pc = "idle"
    BY <1>3, <2>1, Ended DEF State
  <2>3. files' \subseteq files /\ at[r].path \notin files'
    BY <1>3 DEF Cleaned
  <2> QED
    BY <1>1, <2>2, <2>3, GatheredSame
<1>4. CASE Go(r, "insert") /\ UNCHANGED files
  <2>1. PICK w : w = State("insert", at[r].ask, at[r].seen, at[r].path, at[r].sweep)
    OBVIOUS
  <2>2. at' = [at EXCEPT ![r] = w] /\ w.pc = "insert" /\ w.path = at[r].path
    BY <1>4, <2>1, Went DEF State
  <2> QED
    BY <1>1, <1>4, <2>2, GatheredSame
<1> QED
  BY <1>2, <1>3, <1>4 DEF Recheck

LEMMA InsertGather ==
    ASSUME TypeInv, ScanInv, GatherInv, Gathering, NEW r \in Request, IntakeInsert(r)
    PROVE  GatherInv'
<1> DEFINE a == at[r].ask
           p == at[r].path
<1>1. /\ at[r].pc = "insert" /\ UNCHANGED <<scene, kids>> /\ End(r) /\ a \in Ask /\ a.kind = "intake"
      /\ p \in Path /\ p # None
  BY GatherAsks, NoneAssumption DEF IntakeInsert, In
<1>2. PICK w : w = State("idle", None, None, None, {})
  OBVIOUS
<1>3. at' = [at EXCEPT ![r] = w] /\ w.pc = "idle"
  BY <1>1, <1>2, Ended DEF State
<1>4. ~Taken(a.isbn, Live)
  BY GatherAsks DEF IntakeInsert, In, Taken
<1>5. NewId \in Book /\ books' = [books EXCEPT ![NewId] = Row(a.isbn, a.title, p)] /\ UNCHANGED files
  BY <1>4 DEF IntakeInsert
<1>6. a.isbn \in Isbn \cup {None} /\ a.title \in Title
  BY <1>1, AskParts
<1>7. Used' = Used \cup ({p} \ {None})
  BY <1>1, <1>5, <1>6, InsertUsed
<1>8. Referenced \subseteq Referenced' /\ p \in Referenced'
  BY <1>1, <1>7 DEF Referenced
<1>9. \A b \in Live' : books'[b].cover # None
  <2>1. books'[NewId].cover = p /\ \A b \in Book \ {NewId} : books'[b] = books[b]
    BY <1>5 DEF TypeInv, RowTypes, Row
  <2> QED
    BY <1>1, <2>1 DEF GatherInv, Live
<1> QED
  BY <1>1, <1>3, <1>5, <1>8, <1>9, GatheredOnly

\* A receipt is refused: the cover goes.
LEMMA RefuseGather ==
    ASSUME TypeInv, ScanInv, GatherInv, Gathering, NEW r \in Request, Refused(r)
    PROVE  GatherInv'
<1>1. /\ at[r].pc \in {"insert", "fill"} /\ UNCHANGED <<scene, books, kids>> /\ End(r)
      /\ files' \subseteq files /\ at[r].path \notin files'
  BY DEF Refused, Cleaned
<1>2. PICK w : w = State("idle", None, None, None, {})
  OBVIOUS
<1>3. at' = [at EXCEPT ![r] = w] /\ w.pc = "idle"
  BY <1>1, <1>2, Ended DEF State
<1> QED
  BY <1>1, <1>3, GatheredSame

LEMMA IssueGather ==
    ASSUME TypeInv, ScanInv, GatherInv, Gathering, NEW r \in Request, Issue(r)
    PROVE  GatherInv'
<1>1. PICK a : at' = [at EXCEPT ![r] = [Idle EXCEPT !.pc = "start", !.ask = a,
                                                    !.seen = [b \in Live |-> books[b].isbn]]]
  BY DEF Issue
<1>2. PICK w : w = [Idle EXCEPT !.pc = "start", !.ask = a, !.seen = [b \in Live |-> books[b].isbn]]
  OBVIOUS
<1>3. w.pc = "start" /\ w.path = None
  BY <1>2 DEF Idle
<1>4. at[r].path = None
  BY DEF Issue, Gathering, ScanInv, Brings
<1> QED
  BY <1>1, <1>2, <1>3, <1>4, GatheredSame DEF Issue

LEMMA GatherStep == TypeInv /\ ScanInv /\ GatherInv /\ [Next]_rows => GatherInv'
<1> SUFFICES ASSUME TypeInv, ScanInv, GatherInv, [Next]_rows PROVE GatherInv'
  OBVIOUS
<1>1. scene' = scene /\ (Gathering' <=> Gathering)
  BY SceneStays DEF Gathering, Scanning
<1>2. CASE ~Gathering
  BY <1>1, <1>2 DEF GatherInv
<1>3. CASE UNCHANGED rows
  <2>1. UNCHANGED <<scene, books, kids, files, at>> /\ Referenced' = Referenced /\ Live' = Live
    BY <1>3, NothingMoves DEF rows
  <2> QED
    BY <1>1, <2>1 DEF GatherInv
<1>4. CASE Gathering /\ Next
  <2>1. PICK r \in Request :
          \/ Issue(r) \/ CreateLook(r) \/ CreateInsert(r) \/ Update(r)
          \/ Merge(r) \/ RefuseMerge(r) \/ DeleteRead(r) \/ DeleteCommit(r)
          \/ Look(r) \/ Unlink(r) \/ CoverRead(r) \/ CoverSave(r) \/ CoverSet(r)
          \/ IntakeLook(r) \/ LinkLook(r) \/ Save(r) \/ DownloadFails(r) \/ Lock(r)
          \/ Recheck(r) \/ Fill(r) \/ IntakeInsert(r) \/ Refused(r)
          \/ AddLook(r) \/ AddInsert(r) \/ Die(r) \/ Busy(r)
    BY <1>4 DEF Next
  <2>2. /\ ~CreateLook(r) /\ ~CreateInsert(r) /\ ~Update(r) /\ ~Merge(r) /\ ~RefuseMerge(r)
        /\ ~DeleteRead(r) /\ ~DeleteCommit(r) /\ ~Look(r) /\ ~Unlink(r) /\ ~CoverRead(r) /\ ~CoverSave(r)
        /\ ~CoverSet(r) /\ ~LinkLook(r) /\ ~Fill(r) /\ ~AddLook(r) /\ ~AddInsert(r)
    BY <1>4, GatherAsks DEF CreateLook, CreateInsert, Update, Merge, RefuseMerge, DeleteRead, DeleteCommit,
       Look, Unlink, CoverRead, CoverSave, CoverSet, LinkLook, Fill, AddLook, AddInsert, In
  <2>3. ~Die(r) /\ ~Busy(r)
    BY <1>4 DEF Gathering, Die, Busy
  <2> QED
    BY <1>4, <2>1, <2>2, <2>3, IssueGather, LookGather, SaveGather, RecheckGather, InsertGather,
       RefuseGather
<1> QED
  BY <1>2, <1>3, <1>4

LEMMA GatherStart == Init => GatherInv
<1> SUFFICES ASSUME Init PROVE GatherInv
  OBVIOUS
<1>1. \A r \in Request : at[r].pc = "idle"
  BY DEF Init, Idle
<1>2. files = Referenced /\ books = scene.books
  BY DEF Init, Referenced
<1>3. Gathering => \A b \in Live : books[b].cover # None
  BY <1>2 DEF Gathering, Live
<1> QED
  BY <1>1, <1>2, <1>3 DEF GatherInv

-----------------------------------------------------------------------------
(* Rows have their book: always where the database has a foreign key; where  *)
(* it has none, while a request that adds one is alone, or there is none.    *)
Careful == scene.width = 1 \/ \A a \in scene.asks : a.kind = "add" => Linked(a.kid)

RowsInv == \A k \in Kid : kids[k] # None /\ (Linked(k) \/ Careful) => kids[k] \in Live

LEMMA InsertLive ==
    ASSUME TypeInv, NewId \in Book, NEW i \in Isbn \cup {None}, NEW t \in Title,
           NEW c \in Path \cup {None}, books' = [books EXCEPT ![NewId] = Row(i, t, c)]
    PROVE  Live \subseteq Live'
<1> DEFINE n == NewId
<1> HIDE DEF n
<1>1. Row(i, t, c) # None
  BY NoneAssumption DEF Row, BookRow
<1>2. n \in Book /\ books'[n] = Row(i, t, c) /\ \A b \in Book \ {n} : books'[b] = books[b]
  BY DEF n, TypeInv, RowTypes
<1> QED
  BY <1>1, <1>2 DEF Live

\* Only a merge and the commit of a delete take a book away.
LEMMA LiveStays ==
    ASSUME TypeInv, OneBookPerIsbn, Next, \A r \in Request : ~Merge(r) /\ ~DeleteCommit(r)
    PROVE  Live \subseteq Live'
<1>1. CASE UNCHANGED books
  BY <1>1 DEF Live
<1>2. CASE books' # books
  <2>1. PICK r \in Request :
          Update(r) \/ CreateInsert(r) \/ IntakeInsert(r) \/ CoverSet(r) \/ Fill(r)
    BY <1>2 DEF Next, Issue, CreateLook, RefuseMerge, DeleteRead, Look, Unlink, CoverRead, CoverSave,
                IntakeLook, LinkLook, Save, DownloadFails, Lock, Recheck, AddLook, AddInsert, Die, Busy, Refused
  <2>2. CASE Update(r)
    BY <1>2, <2>2, UpdateOne
  <2>3. CASE CreateInsert(r) \/ IntakeInsert(r)
    <3>1. /\ at[r].ask \in Ask /\ at[r].ask.kind \in {"create", "intake"} /\ at[r].path \in Path \cup {None}
      BY <2>3, OwnState DEF CreateInsert, IntakeInsert, In, Working
    <3>2. at[r].ask.isbn \in Isbn \cup {None} /\ at[r].ask.title \in Title
      BY <3>1, AskParts
    <3>3. CASE CreateInsert(r)
      <4>1. NewId \in Book /\ books' = [books EXCEPT ![NewId] = Row(at[r].ask.isbn, at[r].ask.title, None)]
        BY <1>2, <3>3 DEF CreateInsert
      <4> QED
        BY <3>2, <4>1, InsertLive
    <3>4. CASE IntakeInsert(r)
      <4>1. /\ NewId \in Book
            /\ books' = [books EXCEPT ![NewId] = Row(at[r].ask.isbn, at[r].ask.title, at[r].path)]
        BY <1>2, <3>4 DEF IntakeInsert
      <4> QED
        BY <3>1, <3>2, <4>1, InsertLive
    <3> QED
      BY <2>3, <3>3, <3>4
  <2>4. CASE CoverSet(r)
    BY <1>2, <2>4, SameIsbns, OwnState DEF CoverSet, Knows, In
  <2>5. CASE Fill(r)
    BY <1>2, <2>5, SameIsbns, OwnState DEF Fill, Knows
  <2> QED
    BY <2>1, <2>2, <2>3, <2>4, <2>5
<1> QED
  BY <1>1, <1>2

LEMMA RowsStep == TypeInv /\ OneBookPerIsbn /\ FilesInv /\ RowsInv /\ [Next]_rows => RowsInv'
<1> SUFFICES ASSUME TypeInv, OneBookPerIsbn, FilesInv, RowsInv, [Next]_rows PROVE RowsInv'
  OBVIOUS
<1>1. scene' = scene
  BY SceneStays
<1>2. Careful' <=> Careful
  BY <1>1 DEF Careful, Linked
<1>3. CASE Live \subseteq Live' /\ UNCHANGED kids
  BY <1>2, <1>3 DEF RowsInv, Linked
<1>4. ASSUME NEW r \in Request, Merge(r) PROVE RowsInv'
  <2> DEFINE t == at[r].ask.target
             s == at[r].ask.source
  <2>1. /\ t \in Live /\ s \in Live /\ t # s
        /\ books'[t] \in BookRow /\ \A b \in Book \ {t, s} : books'[b] = books[b]
        /\ \A k \in Kid : kids'[k] = IF k \notin Of(s) THEN kids[k]
                                     ELSE IF Duplicate(k, t) THEN None ELSE t
    BY <1>4, Merging
  <2>2. Live \ {s} \subseteq Live'
    BY <2>1, NoneAssumption DEF Live
  <2> HIDE DEF t, s
  <2>3. ASSUME NEW k \in Kid, kids'[k] # None, Linked(k) \/ Careful PROVE kids'[k] \in Live'
    <3>1. kids[k] # None
      BY <2>1, <2>3, NoneAssumption DEF Of, Live
    <3>2. kids[k] \in Live
      BY <2>3, <3>1 DEF RowsInv
    <3>3. kids'[k] = t \/ (kids'[k] = kids[k] /\ kids[k] # s)
      BY <2>1, <2>3 DEF Of
    <3> QED
      BY <2>1, <2>2, <3>2, <3>3
  <2> QED
    BY <1>2, <2>3 DEF RowsInv, Linked
<1>5. ASSUME NEW r \in Request, DeleteCommit(r) PROVE RowsInv'
  <2> DEFINE b == at[r].ask.book
  <2>1. b \in Book
    BY <1>5, OwnState, AskParts DEF DeleteCommit, In
  <2>2. /\ \A o \in Book \ {b} : books'[o] = books[o]
        /\ \A k \in Kid : kids'[k] = IF k \in Of(b) THEN None ELSE kids[k]
    BY <1>5, <2>1 DEF DeleteCommit, Removed, TypeInv, RowTypes
  <2> HIDE DEF b
  <2>3. ASSUME NEW k \in Kid, kids'[k] # None, Linked(k) \/ Careful PROVE kids'[k] \in Live'
    <3>1. kids'[k] = kids[k] /\ kids[k] # b
      BY <2>2, <2>3 DEF Of
    <3>2. kids[k] \in Live
      BY <2>3, <3>1 DEF RowsInv
    <3> QED
      BY <2>2, <3>1, <3>2 DEF Live
  <2> QED
    BY <1>2, <2>3 DEF RowsInv, Linked
<1>6. ASSUME NEW r \in Request, AddInsert(r) PROVE RowsInv'
  <2> DEFINE a == at[r].ask
  <2>1. /\ at[r].pc = "insert" /\ a \in Ask /\ a \in scene.asks /\ a.kind = "add" /\ a.kid \in Kid
        /\ UNCHANGED books
    BY <1>6, OwnState, AskParts DEF AddInsert, In, Knows
  <2>2. Live' = Live
    BY <2>1 DEF Live
  <2>3. CASE UNCHANGED kids
    BY <1>2, <2>2, <2>3 DEF RowsInv, Linked
  <2>4. CASE kids' # kids
    <3>1. kids' = [kids EXCEPT ![a.kid] = a.book] /\ (Linked(a.kid) => a.book \in Live)
      BY <1>6, <2>4 DEF AddInsert
    <3>2. Careful => a.book \in Live
      <4>1. scene.width = 1 => a.book \in Live
        BY <2>1 DEF FilesInv, Held
      <4> QED
        BY <2>1, <3>1, <4>1 DEF Careful
    <3>3. kids'[a.kid] = a.book /\ \A k \in Kid \ {a.kid} : kids'[k] = kids[k]
      BY <2>1, <3>1 DEF TypeInv, RowTypes
    <3>4. \A k \in Kid : kids'[k] # None /\ (Linked(k) \/ Careful) => kids'[k] \in Live'
      BY <2>2, <3>1, <3>2, <3>3 DEF RowsInv
    <3> QED
      BY <1>2, <3>4 DEF RowsInv, Linked
  <2> QED
    BY <2>3, <2>4
<1>7. CASE UNCHANGED rows
  BY <1>3, <1>7 DEF rows, Live
<1>8. CASE Next /\ \A r \in Request : ~Merge(r) /\ ~DeleteCommit(r) /\ ~AddInsert(r)
  <2>1. UNCHANGED kids
    BY <1>8 DEF Next, Issue, CreateLook, CreateInsert, Update, RefuseMerge, DeleteRead,
         Look, Unlink, CoverRead, CoverSave, CoverSet, IntakeLook, LinkLook, Save, DownloadFails, Lock,
         Recheck, Fill, IntakeInsert, AddLook, Die, Busy, Refused
  <2> QED
    BY <1>3, <1>8, <2>1, LiveStays
<1> QED
  BY <1>4, <1>5, <1>6, <1>7, <1>8

LEMMA RowsStart == Init => RowsInv
<1> SUFFICES ASSUME Init PROVE RowsInv
  OBVIOUS
<1>1. \A k \in Kid : kids[k] \in Book \cup {None} /\ (kids[k] # None => books[kids[k]] # None)
  BY SceneAssumption DEF Init
<1> QED
  BY <1>1 DEF RowsInv, Live

LEMMA CatalogueHolds == Spec \/ LSpec => [](TypeInv /\ OneBookPerIsbn /\ FilesInv /\ RowsInv)
<1>1. Init => TypeInv /\ OneBookPerIsbn /\ FilesInv /\ RowsInv
  BY TypesStart, IsbnsStart, FilesStart, RowsStart
<1>2. /\ TypeInv /\ OneBookPerIsbn /\ FilesInv /\ RowsInv /\ [Next]_rows
      => (TypeInv /\ OneBookPerIsbn /\ FilesInv /\ RowsInv)'
  BY TypesStep, IsbnsStep, FilesStep, RowsStep
<1> QED
  BY <1>1, <1>2, Behaviours, PTL

LEMMA ConcurrentFiles == Spec \/ LSpec => [](RemovingInv /\ ScanInv /\ GatherInv)
<1>1. Init => RemovingInv /\ ScanInv /\ GatherInv
  BY RemovingStart, ScanStart, GatherStart
<1>2. /\ TypeInv /\ OneBookPerIsbn /\ RemovingInv /\ ScanInv /\ GatherInv /\ [Next]_rows
      => (RemovingInv /\ ScanInv /\ GatherInv)'
  BY RemovingStep, ScanStep, GatherStep
<1> QED
  BY <1>1, <1>2, OneBookPerIsbnHolds, Behaviours, PTL

\* No row is left behind by its book: a copy or a progress never is; an attachment or a custom
\* field is not where requests come one at a time, or none of them adds one.
THEOREM RowsHaveTheirBookHolds ==
    Spec \/ LSpec => []( /\ CTypeOK
                         /\ \A k \in Kid : Linked(k) /\ kids[k] # None => kids[k] \in Live
                         /\ Careful => RowsHaveTheirBook )
<1>1. TypeInv => CTypeOK
  BY DEF TypeInv, RowTypes, Working, Labels, CTypeOK
<1>2. TypeInv /\ RowsInv => /\ CTypeOK
                            /\ \A k \in Kid : Linked(k) /\ kids[k] # None => kids[k] \in Live
                            /\ Careful => RowsHaveTheirBook
  BY <1>1 DEF RowsInv, RowsHaveTheirBook
<1> QED
  BY <1>2, CatalogueHolds, PTL

\* Where requests come one at a time, only remove, or only bring covers under names of their own,
\* every cover and attachment a row refers to has its file, in the midst of a request too and after
\* every crash and rollback.  Where no more than receipts fail and they come one at a time or bring
\* one cover each, under names of their own, no other file is left when they have ended.
THEOREM FilesMatchRowsHolds ==
    Spec \/ LSpec =>
        []( /\ scene.width = 1 \/ Removing \/ Scanning => FilesAreThere
            /\ (scene.width = 1 /\ scene.faults \subseteq {"refused"}) \/ Gathering => FilesMatchRows )
<1>1. TypeInv /\ FilesInv => ( scene.width = 1 => /\ FilesAreThere
                                                  /\ scene.faults \subseteq {"refused"} => FilesMatchRows )
  <2> SUFFICES ASSUME FilesInv, scene.width = 1
               PROVE  FilesAreThere /\ (scene.faults \subseteq {"refused"} => FilesMatchRows)
    OBVIOUS
  <2>1. FilesAreThere /\ Tidy
    BY DEF FilesInv
  <2>2. (\A r \in Request : at[r].pc = "idle") => \A r \in Request : \A f : ~Whose(at[r], f)
    BY DEF Whose
  <2> QED
    BY <2>1, <2>2 DEF FilesMatchRows, NoFileLeft, Tidy, Exact
<1>2. RemovingInv /\ ScanInv => (Removing \/ Scanning => FilesAreThere)
  BY DEF RemovingInv, ScanInv
<1>3. TypeInv /\ ScanInv /\ GatherInv => (Gathering => FilesMatchRows)
  <2> SUFFICES ASSUME TypeInv, ScanInv, GatherInv, Gathering PROVE FilesMatchRows
    OBVIOUS
  <2>1. Scanning /\ FilesAreThere
    BY DEF Gathering, ScanInv
  <2>2. ASSUME \A r \in Request : at[r].pc = "idle" PROVE files \subseteq Referenced
    <3>1. \A r \in Request : at[r].path = None
      BY <2>1, <2>2 DEF ScanInv, Brings
    <3>2. None \notin files
      BY NoneAssumption DEF TypeInv, RowTypes
    <3> QED
      BY <3>1, <3>2 DEF GatherInv
  <2> QED
    BY <2>1, <2>2 DEF FilesMatchRows, NoFileLeft
<1> QED
  BY <1>1, <1>2, <1>3, CatalogueHolds, ConcurrentFiles, PTL

-----------------------------------------------------------------------------
(* Thumbnails.  A request is sent at the time it is, so what it writes is    *)
(* newer than every thumbnail; no thumbnail is made while requests are under *)
(* way.  Only a file that brings a time of its own could be older: scenes    *)
(* with visits have none, or are not exact.                                  *)
Dated == scene.visits = 0 \/ \A a \in scene.asks : HasCover(a) => a.cover \notin {"upload", "photo"}

VisitRow == [pc : {"idle", "file", "open", "save"}, path : Path \cup {None}, of : Int]

PictureTypes ==
    /\ clock \in Nat
    /\ sent \in [Request -> Int]
    /\ picture \in [Path -> Int] /\ mtime \in [Path -> Int]
    /\ thumb \in [Path -> [of : Int, at : Int] \cup {None}]
    /\ visit \in [Visitor -> VisitRow]
    /\ \A v \in Visitor : visit[v].pc # "idle" => visit[v].path \in Path

NoPictures == Quiet /\ \A p \in Path : thumb[p] = None

PicturesKept ==
    /\ ~Calm => Quiet
    /\ \A r \in Request : at[r].pc # "idle" => sent[r] = clock
    /\ \A p \in Path : thumb[p] # None => thumb[p].at <= clock
    /\ \A v \in Visitor : visit[v].pc = "save" => visit[v].of = picture[visit[v].path]
    /\ \A p \in Path : UpToDate(p) => thumb[p].of = picture[p]

PictureInv ==
    /\ PictureTypes
    /\ scene.visits = 0 => NoPictures
    /\ scene.visits # 0 /\ scene.exact /\ Dated => PicturesKept

LEMMA OneMoves ==
    ASSUME TypeInv, Next
    PROVE  \E r \in Request : /\ \A q \in Request \ {r} : at'[q] = at[q]
                              /\ at[r].pc = "idle" => at'[r].pc = "start"
<1>1. PICK r \in Request :
        \/ Issue(r) \/ CreateLook(r) \/ CreateInsert(r) \/ Update(r)
        \/ Merge(r) \/ RefuseMerge(r) \/ DeleteRead(r) \/ DeleteCommit(r)
        \/ Look(r) \/ Unlink(r) \/ CoverRead(r) \/ CoverSave(r) \/ CoverSet(r)
        \/ IntakeLook(r) \/ LinkLook(r) \/ Save(r) \/ DownloadFails(r) \/ Lock(r)
        \/ Recheck(r) \/ Fill(r) \/ IntakeInsert(r) \/ Refused(r)
        \/ AddLook(r) \/ AddInsert(r) \/ Die(r) \/ Busy(r)
  BY DEF Next
<1>2. ASSUME NEW to, NEW seen, NEW path, NEW sweep, NEW q \in Request \ {r},
             Go(r, to) \/ End(r) \/ Turn(r, to, seen, path, sweep)
      PROVE  at'[q] = at[q]
  BY <1>2, OthersStay
<1>3. CASE Issue(r)
  BY <1>3 DEF Issue, TypeInv, Idle
<1>4. CASE ~Issue(r)
  <2>1. at[r].pc # "idle"
    BY <1>1, <1>4 DEF In, CreateLook, CreateInsert, Update, Merge, RefuseMerge, DeleteRead, DeleteCommit, Look,
          Unlink, CoverRead, CoverSave, CoverSet, IntakeLook, LinkLook, Save, DownloadFails, Lock, Recheck,
          Fill, IntakeInsert, AddLook, AddInsert, Die, Busy, Refused
  <2>2. \A q \in Request \ {r} : at'[q] = at[q]
    BY <1>1, <1>2, <1>4
       DEF CreateLook, CreateInsert, Update, Merge, RefuseMerge, DeleteRead, DeleteCommit, Look, Unlink,
           CoverRead, CoverSave, CoverSet, IntakeLook, LinkLook, Save, DownloadFails, Lock, Recheck,
           Fill, IntakeInsert, AddLook, AddInsert, Die, Busy, Refused
  <2> QED
    BY <2>1, <2>2
<1> QED
  BY <1>3, <1>4

LEMMA PicturesStart == TInit => PictureInv
<1> SUFFICES ASSUME TInit PROVE PictureInv
  OBVIOUS
<1>1. PictureTypes
  BY DEF TInit, PictureTypes, VisitRow, NoVisit
<1>2. NoPictures /\ PicturesKept
  <2>1. \A v \in Visitor : visit[v].pc = "idle"
    BY DEF TInit, NoVisit
  <2>2. \A r \in Request : at[r].pc = "idle"
    BY DEF TInit, Init, Idle
  <2> QED
    BY <2>1, <2>2 DEF TInit, NoPictures, PicturesKept, Quiet, UpToDate
<1> QED
  BY <1>1, <1>2 DEF PictureInv

\* A step of the requests.
LEMMA RequestPictures ==
    ASSUME TypeInv, TypeInv', PictureInv, Files, scene' = scene
    PROVE  PictureInv'
<1>1. CASE scene.visits = 0
  <2>1. UNCHANGED pvars /\ NoPictures
    BY <1>1 DEF Files, FilesFollow, PictureInv
  <2> QED
    BY <1>1, <2>1 DEF PictureInv, PictureTypes, NoPictures, Quiet, pvars
<1>2. CASE scene.visits # 0
  <2>1. UNCHANGED <<clock, thumb, visit>>
    BY <1>2 DEF Files, FilesFollow
  <2>2. \/ (\A r \in Request : ~Sends(r)) /\ UNCHANGED sent
        \/ \E r \in Request : Sends(r) /\ \E t \in SentAt(at'[r].ask) : sent' = [sent EXCEPT ![r] = t]
    BY <1>2 DEF Files, FilesFollow
  <2>3. \/ UNCHANGED <<picture, mtime>>
        \/ \E r \in Request : /\ at[r].pc = "save"
                              /\ picture' = [picture EXCEPT ![at[r].path] = @ + 1]
                              /\ mtime' = [mtime EXCEPT ![at[r].path] = TimeOf(r)]
    BY <1>2 DEF Files, FilesFollow, Writes
  <2>4. \A a : SentAt(a) \subseteq Int
    BY DEF SentAt, PictureInv, PictureTypes
  <2>5. \A r \in Request : TimeOf(r) \in Int /\ (at[r].pc = "save" => at[r].path \in Path)
    BY OwnState DEF TimeOf, PictureInv, PictureTypes, Knows
  <2>6. PictureTypes'
    <3>1. sent' \in [Request -> Int]
      BY <2>2, <2>4 DEF PictureInv, PictureTypes
    <3>2. picture' \in [Path -> Int] /\ mtime' \in [Path -> Int]
      BY <2>3, <2>5 DEF PictureInv, PictureTypes
    <3> QED
      BY <2>1, <3>1, <3>2 DEF PictureInv, PictureTypes
  <2>7. ASSUME scene.exact, Dated
        PROVE  PicturesKept'
    <3>1. PicturesKept /\ Quiet /\ Quiet'
      BY <1>2, <2>1, <2>7 DEF PictureInv, PicturesKept, Files, Quiet
    <3>2. \A r \in Request : at'[r].pc # "idle" => sent'[r] = clock
      <4>1. ASSUME NEW r \in Request, at'[r].pc # "idle", NEW t \in SentAt(at'[r].ask) PROVE t = clock
        <5>1. at'[r].ask \in scene.asks
          BY <4>1 DEF TypeInv, Knows
        <5> QED
          BY <1>2, <2>7, <4>1, <5>1 DEF SentAt, Dated
      <4>2. PICK m \in Request : /\ \A q \in Request \ {m} : at'[q] = at[q]
                                 /\ at[m].pc = "idle" => at'[m].pc = "start"
        BY OneMoves DEF Files
      <4>3. \A q \in Request \ {m} : ~Sends(q)
        BY <4>2 DEF Sends
      <4>4. ASSUME NEW r \in Request \ {m}, at'[r].pc # "idle" PROVE sent'[r] = clock
        BY <2>2, <3>1, <4>2, <4>3, <4>4 DEF PicturesKept, PictureInv, PictureTypes
      <4>5. ASSUME at'[m].pc # "idle" PROVE sent'[m] = clock
        <5>1. CASE at[m].pc = "idle"
          <6>1. Sends(m)
            BY <4>2, <5>1 DEF Sends
          <6>2. PICK t \in SentAt(at'[m].ask) : sent' = [sent EXCEPT ![m] = t]
            BY <2>2, <4>3, <6>1
          <6> QED
            BY <4>1, <4>5, <6>2 DEF PictureInv, PictureTypes
        <5>2. CASE at[m].pc # "idle"
          BY <2>2, <3>1, <4>3, <5>2 DEF Sends, PicturesKept
        <5> QED
          BY <5>1, <5>2
      <4> QED
        BY <4>4, <4>5
    <3>3. \A p \in Path : UpToDate(p)' => thumb'[p].of = picture'[p]
      <4>1. CASE UNCHANGED <<picture, mtime>>
        BY <2>1, <3>1, <4>1 DEF UpToDate, PicturesKept
      <4>2. ASSUME NEW r \in Request, at[r].pc = "save",
                   picture' = [picture EXCEPT ![at[r].path] = @ + 1],
                   mtime' = [mtime EXCEPT ![at[r].path] = TimeOf(r)]
            PROVE  \A p \in Path : UpToDate(p)' => thumb'[p].of = picture'[p]
        <5>1. TimeOf(r) = clock /\ at[r].path \in Path
          BY <2>5, <3>1, <4>2 DEF TimeOf, PicturesKept
        <5>2. mtime'[at[r].path] = clock /\ clock \in Nat
          BY <4>2, <5>1 DEF PictureInv, PictureTypes
        <5>3. \A p \in Path \ {at[r].path} : mtime'[p] = mtime[p] /\ picture'[p] = picture[p]
          BY <4>2 DEF PictureInv, PictureTypes
        <5>4. thumb[at[r].path] # None => ~(thumb[at[r].path].at > clock)
          BY <3>1, <5>1 DEF PicturesKept, PictureInv, PictureTypes
        <5> QED
          BY <2>1, <3>1, <5>2, <5>3, <5>4 DEF UpToDate, PicturesKept
      <4> QED
        BY <2>3, <4>1, <4>2
    <3> QED
      BY <2>1, <3>1, <3>2, <3>3 DEF PicturesKept, Quiet
  <2> QED
    BY <1>2, <2>6, <2>7 DEF PictureInv, Dated, HasCover
<1> QED
  BY <1>1, <1>2

\* A step of a visitor.
LEMMA VisitPictures ==
    ASSUME TypeInv, PictureInv, Visits, UNCHANGED vars
    PROVE  PictureInv'
<1>1. PICK v \in Visitor : FindCover(v) \/ ResolveCover(v) \/ OpenCover(v) \/ SaveThumbnail(v)
  BY DEF Visits
<1>2. scene' = scene /\ at' = at /\ UNCHANGED <<sent, picture, mtime>>
  BY <1>1 DEF vars, FindCover, ResolveCover, OpenCover, SaveThumbnail
<1>3. visit[v] \in VisitRow /\ PictureTypes
  BY DEF PictureInv, PictureTypes
<1>4. \E w \in VisitRow : /\ visit' = [visit EXCEPT ![v] = w]
                          /\ w.pc # "idle" => w.path \in Path
                          /\ w.pc = "save" => w.of = picture[w.path]
  <2>1. NoVisit \in VisitRow /\ NoVisit.pc = "idle"
    BY DEF NoVisit, VisitRow
  <2>2. CASE FindCover(v)
    <3>1. PICK b \in Live : /\ books[b].cover # None
                            /\ visit' = [visit EXCEPT ![v] = [NoVisit EXCEPT !.pc = "file", !.path = books[b].cover]]
      BY <2>2 DEF FindCover
    <3>2. books[b].cover \in Path
      BY <3>1, LiveRows DEF TypeInv
    <3> DEFINE w == [pc |-> "file", path |-> books[b].cover, of |-> 0]
    <3>3. [NoVisit EXCEPT !.pc = "file", !.path = books[b].cover] = w
      <4> DEFINE c == books[b].cover
      <4> HIDE DEF c
      <4>1. [NoVisit EXCEPT !.pc = "file"] = [pc |-> "file", path |-> None, of |-> 0]
        BY DEF NoVisit
      <4>2. [[pc |-> "file", path |-> None, of |-> 0] EXCEPT !.path = c] = [pc |-> "file", path |-> c, of |-> 0]
        OBVIOUS
      <4>3. [NoVisit EXCEPT !.pc = "file", !.path = c] = [pc |-> "file", path |-> c, of |-> 0]
        BY <4>1, <4>2
      <4> QED
        BY <4>3 DEF c
    <3>4. w \in VisitRow /\ w.pc = "file" /\ w.path \in Path
      BY <3>2 DEF VisitRow
    <3> HIDE DEF w
    <3> QED
      BY <3>1, <3>3, <3>4
  <2>3. CASE ResolveCover(v)
    <3> DEFINE w == [visit[v] EXCEPT !.pc = "open"]
    <3>1. w \in VisitRow /\ w.pc = "open" /\ w.path = visit[v].path /\ visit[v].path \in Path
      BY <1>3, <2>3 DEF VisitRow, ResolveCover, PictureTypes
    <3>2. visit' = [visit EXCEPT ![v] = NoVisit] \/ visit' = [visit EXCEPT ![v] = w]
      BY <2>3 DEF ResolveCover
    <3> HIDE DEF w
    <3> QED
      BY <2>1, <3>1, <3>2
  <2>4. CASE OpenCover(v)
    <3> DEFINE w == [visit[v] EXCEPT !.pc = "save", !.of = picture[visit[v].path]]
    <3>1. visit[v].path \in Path /\ picture[visit[v].path] \in Int
      BY <1>3, <2>4 DEF OpenCover, PictureTypes
    <3>2. w \in VisitRow /\ w.pc = "save" /\ w.path = visit[v].path /\ w.of = picture[visit[v].path]
      BY <1>3, <3>1 DEF VisitRow
    <3>3. visit' = [visit EXCEPT ![v] = NoVisit] \/ visit' = [visit EXCEPT ![v] = w]
      BY <2>4 DEF OpenCover
    <3> HIDE DEF w
    <3> QED
      BY <2>1, <3>1, <3>2, <3>3
  <2>5. CASE SaveThumbnail(v)
    BY <2>1, <2>5 DEF SaveThumbnail
  <2> QED
    BY <1>1, <2>2, <2>3, <2>4, <2>5
<1>5. scene.visits # 0
  <2>1. scene.visits = 0 => FALSE
    <3>1. clock < scene.visits \/ visit[v].pc # "idle"
      BY <1>1 DEF FindCover, ResolveCover, OpenCover, SaveThumbnail
    <3>2. ~(clock < 0)
      BY <1>3 DEF PictureTypes
    <3>3. scene.visits = 0 => visit[v].pc = "idle"
      BY DEF PictureInv, NoPictures, Quiet
    <3> QED
      BY <3>1, <3>2, <3>3
  <2> QED
    BY <2>1
<1>6. CASE UNCHANGED <<clock, thumb>>
  <2>1. PictureTypes'
    BY <1>2, <1>3, <1>4, <1>6 DEF PictureTypes
  <2>2. ASSUME scene.exact, Dated PROVE PicturesKept'
    <3>1. PicturesKept /\ Calm /\ Calm'
      BY <1>1, <1>2, <1>5, <2>2
         DEF PictureInv, PicturesKept, Quiet, Calm, FindCover, ResolveCover, OpenCover, SaveThumbnail
    <3>2. \A u \in Visitor : visit'[u].pc = "save" => visit'[u].of = picture'[visit'[u].path]
      BY <1>2, <1>3, <1>4, <3>1 DEF PicturesKept, PictureTypes
    <3> QED
      BY <1>2, <1>6, <3>1, <3>2 DEF PicturesKept, UpToDate
  <2> QED
    BY <1>2, <1>5, <2>1, <2>2 DEF PictureInv, Dated, HasCover
<1>7. CASE SaveThumbnail(v)
  <2> DEFINE p == visit[v].path
             made == [of |-> visit[v].of, at |-> clock + 1]
  <2>1. p \in Path /\ clock' = clock + 1 /\ thumb' = [thumb EXCEPT ![p] = made] /\ visit[v].pc = "save"
    BY <1>3, <1>7 DEF SaveThumbnail, PictureTypes
  <2>2. made \in [of : Int, at : Int] /\ made.of = visit[v].of /\ made.at = clock + 1
    BY <1>3 DEF VisitRow, PictureTypes
  <2> HIDE DEF made, p
  <2>3. thumb'[p] = made /\ \A q \in Path \ {p} : thumb'[q] = thumb[q]
    BY <1>3, <2>1 DEF PictureTypes
  <2>4. PictureTypes'
    BY <1>2, <1>3, <1>4, <2>1, <2>2 DEF PictureTypes
  <2>5. ASSUME scene.exact, Dated PROVE PicturesKept'
    <3>1. PicturesKept /\ Calm /\ Calm'
      BY <1>2, <1>5, <2>1, <2>5 DEF PictureInv, PicturesKept, Quiet, Calm
    <3>2. \A u \in Visitor : visit'[u].pc = "save" => visit'[u].of = picture'[visit'[u].path]
      BY <1>2, <1>3, <1>4, <3>1 DEF PicturesKept, PictureTypes
    <3>3. \A q \in Path : thumb'[q] # None => thumb'[q].at <= clock'
      BY <1>3, <2>1, <2>2, <2>3, <3>1 DEF PicturesKept, PictureTypes
    <3>4. \A q \in Path : UpToDate(q)' => thumb'[q].of = picture'[q]
      BY <1>2, <2>1, <2>2, <2>3, <3>1 DEF PicturesKept, UpToDate, p
    <3> QED
      BY <3>1, <3>2, <3>3, <3>4 DEF PicturesKept, Calm
  <2> QED
    BY <1>2, <1>5, <2>4, <2>5 DEF PictureInv, Dated, HasCover
<1> QED
  BY <1>1, <1>6, <1>7 DEF FindCover, ResolveCover, OpenCover

LEMMA PicturesStep == TypeInv /\ PictureInv /\ [LNext]_<<vars, pvars, lvars>> => PictureInv'
<1> SUFFICES ASSUME TypeInv, PictureInv, [LNext]_<<vars, pvars, lvars>> PROVE PictureInv'
  OBVIOUS
<1>1. CASE UNCHANGED <<scene, books, kids, files, lock, at, pvars>>
  BY <1>1 DEF PictureInv, PictureTypes, NoPictures, PicturesKept, Quiet, Calm, UpToDate, Dated, HasCover, pvars
<1>2. CASE Files
  <2>1. [Next]_rows
    BY <1>2 DEF Files
  <2> QED
    BY <1>2, <2>1, TypesStep, SceneStays, RequestPictures
<1>3. CASE Visits /\ UNCHANGED vars
  BY <1>3, VisitPictures
<1>4. CASE SetLevel \/ SetStatus
  BY <1>1, <1>4 DEF SetLevel, SetStatus
<1>5. CASE UNCHANGED <<vars, pvars>>
  BY <1>1, <1>5 DEF vars
<1> QED
  BY <1>2, <1>3, <1>4, <1>5 DEF LNext, TNext

\* A thumbnail that would be answered shows the cover that is there, where no file brings a time
\* of its own: covers are replaced, removed, downloaded, and their names come back.
THEOREM ThumbnailFollowsCoverHolds == LSpec => [](Dated => ThumbnailFollowsCover)
<1>1. LInit => PictureInv
  BY PicturesStart DEF LInit
<1>2. PictureInv => (Dated => ThumbnailFollowsCover)
  BY DEF PictureInv, NoPictures, PicturesKept, ThumbnailFollowsCover, ThumbnailIsOfCover, UpToDate
<1> QED
  BY <1>1, <1>2, PicturesStep, OneBookPerIsbnHolds, PTL DEF LSpec

-----------------------------------------------------------------------------
(* The members' list.  One request of the last number is under way at most,  *)
(* and none while more can be asked for; what is shown is of the filter      *)
(* unless the first page of it is still to come.                             *)
ListFields == {"filter", "items", "size", "next", "held", "lost", "id", "status", "busy", "more", "count"}
CallFields == {"id", "first", "filter", "offset", "total", "rows", "more"}
Fields(l, F) == l = [f \in F |-> l[f]]

AllOf(items, f) == \A x \in items : x.of = f

HouseInv ==
    /\ Fields(list, ListFields) /\ list.id \in Nat /\ list.busy \in BOOLEAN
    /\ \A c \in calls : Fields(c, CallFields) /\ c.id \in Nat /\ c.id <= list.id
    /\ \A c \in calls : c.rows # None => AllOf(c.rows, c.filter)
    /\ \A c \in calls : Current(c) => list.busy = TRUE /\ c.filter = list.filter
    /\ \A c, d \in calls : Current(c) /\ Current(d) => c = d
    /\ (\E c \in calls : Current(c) /\ c.first) \/ AllOf(list.items, list.filter)
    /\ \A x, y \in list.items : x.of = y.of

House == scene.reader = "house" /\ ~scene.fails

\* Requests for pages come and go; the list stays.
LEMMA CallsMove ==
    ASSUME HouseInv, UNCHANGED list, NEW c \in calls, NEW d, calls' = (calls \ {c}) \cup {d},
           Fields(d, CallFields), d.id = c.id, d.first = c.first, d.filter = c.filter,
           d.rows # None => AllOf(d.rows, d.filter)
    PROVE  HouseInv'
<1>1. (Fields(list, ListFields) /\ list.id \in Nat /\ list.busy \in BOOLEAN)'
  BY DEF HouseInv, Fields
<1>2. (\A e \in calls : Fields(e, CallFields) /\ e.id \in Nat /\ e.id <= list.id)'
  BY DEF HouseInv, Fields
<1>3. (\A e \in calls : e.rows # None => AllOf(e.rows, e.filter))'
  BY DEF HouseInv, AllOf
<1>4. (\A e \in calls : Current(e) => list.busy = TRUE /\ e.filter = list.filter)'
  BY DEF HouseInv, Current
<1>5. (\A e, g \in calls : Current(e) /\ Current(g) => e = g)'
  BY DEF HouseInv, Current
<1>6. ((\E e \in calls : Current(e) /\ e.first) \/ AllOf(list.items, list.filter))'
  <2>1. CASE AllOf(list.items, list.filter)
    BY <2>1 DEF AllOf
  <2>2. ASSUME NEW e \in calls, Current(e), e.first PROVE \E g \in calls' : g.id = list.id /\ g.first
    <3>1. CASE e = c
      BY <2>2, <3>1 DEF Current
    <3>2. CASE e # c
      BY <2>2, <3>2 DEF Current
    <3> QED
      BY <3>1, <3>2
  <2> QED
    BY <2>1, <2>2 DEF HouseInv, Current
<1>7. (\A x, y \in list.items : x.of = y.of)'
  BY DEF HouseInv
<1> QED
  BY <1>1, <1>2, <1>3, <1>4, <1>5, <1>6, <1>7 DEF HouseInv

LEMMA ItemsOf == \A f, o, n : AllOf(Items(f, o, n), f)
  BY DEF Items, AllOf

LEMMA SetFilterHouse ==
    ASSUME HouseInv, SetFilter
    PROVE  HouseInv'
<1>1. PICK f \in Filter :
        /\ list' = [list EXCEPT !.filter = f, !.id = @ + 1, !.busy = TRUE]
        /\ calls' = calls \cup {[Call(list.id + 1, TRUE, 0) EXCEPT !.filter = f]}
  BY DEF SetFilter
<1> DEFINE d == [Call(list.id + 1, TRUE, 0) EXCEPT !.filter = f]
<1>2. /\ Fields(list', ListFields) /\ list'.filter = f /\ list'.id = list.id + 1 /\ list'.busy = TRUE
      /\ list'.items = list.items
  BY <1>1 DEF HouseInv, Fields, ListFields
<1>3. /\ Fields(d, CallFields) /\ d.id = list.id + 1 /\ d.first = TRUE /\ d.filter = f /\ d.rows = None
  BY DEF Call, Fields, CallFields
<1> HIDE DEF d
<1>4. list.id \in Nat /\ \A c \in calls : c.id \in Nat /\ c.id <= list.id
  BY DEF HouseInv
<1>5. \A c \in calls : c.id # list'.id /\ c.id <= list'.id
  BY <1>2, <1>4
<1>6. calls' = calls \cup {d}
  BY <1>1 DEF d
<1>7. \A c \in calls' : c.id = list'.id <=> c = d
  BY <1>2, <1>3, <1>5, <1>6
<1>8. list'.id \in Nat /\ \A c \in calls' : Fields(c, CallFields) /\ c.id \in Nat /\ c.id <= list'.id
  BY <1>2, <1>3, <1>4, <1>6 DEF HouseInv
<1>9. \A c \in calls' : c.rows # None => AllOf(c.rows, c.filter)
  BY <1>3, <1>6 DEF HouseInv
<1>10. (\E c \in calls : Current(c) /\ c.first)'
  BY <1>2, <1>3, <1>6 DEF Current
<1>11. \A x, y \in list'.items : x.of = y.of
  BY <1>2 DEF HouseInv
<1>12. (\A c \in calls : Current(c) => list.busy = TRUE /\ c.filter = list.filter)'
  BY <1>2, <1>3, <1>7 DEF Current
<1>13. (\A c, e \in calls : Current(c) /\ Current(e) => c = e)'
  BY <1>7 DEF Current
<1>14. (Fields(list, ListFields) /\ list.id \in Nat /\ list.busy \in BOOLEAN)'
  BY <1>2, <1>8 DEF Fields
<1>15. (\A c \in calls : Fields(c, CallFields) /\ c.id \in Nat /\ c.id <= list.id)'
  BY <1>8 DEF Fields
<1>16. (\A c \in calls : c.rows # None => AllOf(c.rows, c.filter))'
  BY <1>9 DEF AllOf
<1>17. (\A x, y \in list.items : x.of = y.of)'
  BY <1>11
<1> QED
  BY <1>10, <1>12, <1>13, <1>14, <1>15, <1>16, <1>17 DEF HouseInv

LEMMA LoadMoreHouse ==
    ASSUME HouseInv, House, LoadMore
    PROVE  HouseInv'
<1> DEFINE d == Call(list.id, FALSE, list.count)
<1>1. list' = [list EXCEPT !.busy = TRUE] /\ calls' = calls \cup {d} /\ list.busy # TRUE
  BY DEF LoadMore, House, Put
<1>2. /\ Fields(list', ListFields) /\ list'.filter = list.filter /\ list'.id = list.id /\ list'.busy = TRUE
      /\ list'.items = list.items
  BY <1>1 DEF HouseInv, Fields, ListFields
<1>3. /\ Fields(d, CallFields) /\ d.id = list.id /\ d.first = FALSE /\ d.filter = list.filter /\ d.rows = None
  BY DEF Call, Fields, CallFields
<1> HIDE DEF d
<1>4. \A c \in calls : ~Current(c)
  BY <1>1 DEF HouseInv
<1>5. AllOf(list.items, list.filter)
  BY <1>4 DEF HouseInv
<1>6. \A c \in calls' : c.id = list'.id <=> c = d
  BY <1>1, <1>2, <1>3, <1>4 DEF Current
<1>7. list'.id \in Nat /\ \A c \in calls' : Fields(c, CallFields) /\ c.id \in Nat /\ c.id <= list'.id
  BY <1>1, <1>2, <1>3 DEF HouseInv
<1>8. \A c \in calls' : c.rows # None => AllOf(c.rows, c.filter)
  BY <1>1, <1>3 DEF HouseInv
<1>9. AllOf(list'.items, list'.filter) /\ \A x, y \in list'.items : x.of = y.of
  BY <1>2, <1>5 DEF HouseInv
<1> QED
  BY <1>2, <1>3, <1>6, <1>7, <1>8, <1>9 DEF HouseInv, Current, Fields, AllOf, ListFields, CallFields

LEMMA PagesHouse ==
    ASSUME HouseInv, CountBooks \/ ReadPage
    PROVE  HouseInv'
<1>1. CASE CountBooks
  <2>1. PICK c \in calls :
          calls' = (calls \ {c}) \cup {[c EXCEPT !.total = Cardinality(Matching(c.filter))]}
    BY <1>1 DEF CountBooks
  <2> DEFINE n == Cardinality(Matching(c.filter))
             d == [c EXCEPT !.total = n]
  <2> HIDE DEF n
  <2>2. /\ Fields(d, CallFields) /\ d.id = c.id /\ d.first = c.first /\ d.filter = c.filter /\ d.rows = c.rows
    BY DEF HouseInv, Fields, CallFields
  <2>3. calls' = (calls \ {c}) \cup {d} /\ UNCHANGED list
    BY <1>1, <2>1 DEF CountBooks, n
  <2> HIDE DEF d
  <2>4. d.rows # None => AllOf(d.rows, d.filter)
    BY <2>2 DEF HouseInv
  <2> QED
    BY <2>2, <2>3, <2>4, CallsMove
<1>2. CASE ReadPage
  <2>1. PICK c \in calls :
          calls' = (calls \ {c}) \cup
                {[c EXCEPT !.rows = Items(c.filter, c.offset, scene.limit),
                           !.more = HasMore(c.filter, c.offset, scene.limit)]}
    BY <1>2 DEF ReadPage
  <2> DEFINE rs == Items(c.filter, c.offset, scene.limit)
             m == HasMore(c.filter, c.offset, scene.limit)
             d == [c EXCEPT !.rows = rs, !.more = m]
  <2>2. AllOf(rs, c.filter)
    BY ItemsOf
  <2> HIDE DEF rs, m
  <2>3. /\ Fields(d, CallFields) /\ d.id = c.id /\ d.first = c.first /\ d.filter = c.filter /\ d.rows = rs
    BY DEF HouseInv, Fields, CallFields
  <2>4. calls' = (calls \ {c}) \cup {d} /\ UNCHANGED list
    BY <1>2, <2>1 DEF ReadPage, rs, m
  <2> HIDE DEF d
  <2> QED
    BY <2>2, <2>3, <2>4, CallsMove
<1> QED
  BY <1>1, <1>2

LEMMA ReceiveHouse ==
    ASSUME HouseInv, House, Receive
    PROVE  HouseInv'
<1>1. PICK c \in calls : /\ c.rows # None /\ calls' = calls \ {c}
                         /\ list' = IF Current(c) THEN ShownBy(c) ELSE [list EXCEPT !.busy = BusyAfter(c)]
  BY DEF Receive
<1>2. CASE Current(c)
  <2> DEFINE n == (IF c.first THEN 0 ELSE list.count) + Cardinality(c.rows)
             m == IF scene.reader = "house" THEN n < c.total ELSE c.more
             shown == IF c.first THEN c.rows ELSE list.items \cup c.rows
  <2>1. BusyAfter(c) = FALSE
    BY <1>2 DEF BusyAfter, House
  <2>2. list' = [list EXCEPT !.items = shown, !.count = n, !.status = "ok", !.busy = FALSE, !.more = m]
    BY <1>1, <1>2, <2>1 DEF ShownBy
  <2> HIDE DEF n, m, shown
  <2>3. /\ Fields(list', ListFields) /\ list'.filter = list.filter /\ list'.id = list.id /\ list'.busy = FALSE
        /\ list'.items = shown
    BY <2>2 DEF HouseInv, Fields, ListFields
  <2>4. c.filter = list.filter /\ AllOf(c.rows, c.filter) /\ \A d \in calls \ {c} : ~Current(d)
    BY <1>1, <1>2 DEF HouseInv
  <2>5. AllOf(shown, list.filter)
    BY <2>4 DEF HouseInv, AllOf, shown
  <2> QED
    BY <1>1, <2>3, <2>4, <2>5 DEF HouseInv, Current, AllOf
<1>3. CASE ~Current(c)
  <2>1. BusyAfter(c) = list.busy
    BY <1>3 DEF BusyAfter, House
  <2>2. list' = list
    BY <1>1, <1>3, <2>1 DEF HouseInv, Fields, ListFields
  <2> QED
    BY <1>1, <1>3, <2>2 DEF HouseInv, Current
<1> QED
  BY <1>2, <1>3

LEMMA HouseStep ==
    TypeInv /\ (House => HouseInv) /\ [LNext]_<<vars, pvars, lvars>> => (House => HouseInv)'
<1> SUFFICES ASSUME TypeInv, House => HouseInv, [LNext]_<<vars, pvars, lvars>>, House' PROVE HouseInv'
  OBVIOUS
<1>1. scene' = scene
  <2>1. CASE UNCHANGED vars
    BY <2>1 DEF vars
  <2>2. CASE Next
    BY <2>2, SceneStays
  <2> QED
    BY <2>1, <2>2 DEF LNext, TNext, Files, SetLevel, SetStatus
<1>2. House /\ HouseInv /\ ~Walks /\ scene.reader = "house"
  BY <1>1 DEF House, Walks
<1>3. CASE UNCHANGED <<list, calls>>
  BY <1>2, <1>3 DEF HouseInv, Current
<1>4. CASE (TNext /\ Follow) \/ SetLevel \/ SetStatus
  <2>1. list' = list /\ calls' = calls
    BY <1>2, <1>4 DEF Follow, SetLevel, SetStatus, Watched
  <2> QED
    BY <1>3, <2>1
<1>5. CASE Reads
  BY <1>2, <1>5, SetFilterHouse, LoadMoreHouse, PagesHouse, ReceiveHouse
     DEF Reads, SearchBooks, SearchOn, Type, Search, Fail, House
<1> QED
  BY <1>3, <1>4, <1>5 DEF LNext, lvars

\* The members' list never holds the books of two searches, in whatever order answers come; where
\* a page fails it may (the old list stays under the new filter), and the visitors' list may anyway.
THEOREM ListIsOfOneSearchHolds ==
    LSpec => [](scene.reader # "shared" /\ ~scene.fails => ListIsOfOneSearch)
<1>1. LInit => (House => HouseInv)
  <2> SUFFICES ASSUME LInit PROVE HouseInv
    OBVIOUS
  <2>1. list = NoList /\ calls = {}
    BY DEF LInit
  <2>2. /\ Fields(NoList, ListFields) /\ NoList.id \in Nat /\ NoList.busy \in BOOLEAN /\ NoList.items = {}
    BY DEF NoList, Fields, ListFields
  <2> QED
    BY <2>1, <2>2 DEF HouseInv, AllOf
<1>2. (House => HouseInv) => (scene.reader # "shared" /\ ~scene.fails => ListIsOfOneSearch)
  BY DEF House, HouseInv, ListIsOfOneSearch, Views
<1> QED
  BY <1>1, <1>2, HouseStep, OneBookPerIsbnHolds, PTL DEF LSpec

-----------------------------------------------------------------------------
(* Walks.  The books stand in one order; of the books a walk may count on,   *)
(* no more are missing among the rows before the next page than ceased to    *)
(* match: a book comes forward, into the pages read, by as many places.      *)

\* One row comes before the other, whatever was changed.
Ordered ==
    /\ order \subseteq Live \X Live
    /\ \A b \in Live : <<b, b>> \notin order
    /\ \A b, c \in Live : b # c => <<b, c>> \in order \/ <<c, b>> \in order
    /\ \A b, c, d \in Live : <<b, c>> \in order /\ <<c, d>> \in order => <<b, d>> \in order

Missed    == list.held \ {x.book : x \in list.items}
Behind(k) == {b \in Missed : Position(list.filter, b) < k}

\* Where the next page begins, and what was missed before it.
NextPage ==
    /\ list.filter \in Filter /\ list.size \in Size
    /\ list.next.page \in Nat /\ list.next.page > 1
    /\ list.next.digest = Digest(list.filter, list.size)
    /\ Cardinality(Behind((list.next.page - 1) * list.size)) <= list.lost

WalkInv ==
    /\ Ordered
    /\ Fields(list, ListFields) /\ list.lost \in Nat
    /\ list.held \subseteq Matching(list.filter)
    /\ IF list.next = None THEN Cardinality(Missed) <= list.lost ELSE NextPage

LEMMA BookNumbers == IsFiniteSet(Book) /\ Book \subseteq Nat
<1>1. Cardinality(Book) \in Nat
  BY BookAssumption, FS_CardinalityType
<1> QED
  BY <1>1, BookAssumption

LEMMA MatchingFinite ==
    \A f : /\ Matching(f) \subseteq Live /\ IsFiniteSet(Matching(f))
           /\ Cardinality(Matching(f)) \in Nat
<1> SUFFICES ASSUME NEW f
             PROVE  /\ Matching(f) \subseteq Live /\ IsFiniteSet(Matching(f))
                    /\ Cardinality(Matching(f)) \in Nat
  OBVIOUS
<1>1. Matching(f) \subseteq Live /\ Matching(f) \in SUBSET Book
  BY DEF Matching, Hitting, Live
<1> HIDE DEF Matching
<1>2. IsFiniteSet(Matching(f))
  BY <1>1, BookNumbers, FS_Subset
<1> QED
  BY <1>1, <1>2, FS_CardinalityType

\* A book stands behind fewer books than match, and no two stand in one place.
LEMMA Places ==
    ASSUME Ordered, NEW f, NEW b \in Matching(f)
    PROVE  /\ Position(f, b) \in Nat
           /\ Position(f, b) < Cardinality(Matching(f))
           /\ \A c \in Matching(f) : Position(f, c) = Position(f, b) => c = b
<1> DEFINE M == Matching(f)
           P(c) == {d \in M : <<d, c>> \in order}
<1>1. M \subseteq Live /\ IsFiniteSet(M) /\ Cardinality(M) \in Nat
  BY MatchingFinite
<1> HIDE DEF M
<1>2. ASSUME NEW c \in M
      PROVE  /\ IsFiniteSet(P(c)) /\ Cardinality(P(c)) \in Nat
             /\ Cardinality(P(c)) < Cardinality(M)
  <2> DEFINE S == P(c)
  <2>1. S \in SUBSET M /\ S # M
    BY <1>1, <1>2 DEF Ordered
  <2> HIDE DEF S
  <2>2. IsFiniteSet(S) /\ Cardinality(S) <= Cardinality(M) /\ Cardinality(S) # Cardinality(M)
    BY <1>1, <2>1, FS_Subset
  <2>3. Cardinality(S) \in Nat
    BY <2>2, FS_CardinalityType
  <2>4. IsFiniteSet(S) /\ Cardinality(S) \in Nat /\ Cardinality(S) < Cardinality(M)
    BY <1>1, <2>2, <2>3
  <2> QED
    BY <2>4 DEF S
<1>3. ASSUME NEW c \in M, NEW d \in M, <<c, d>> \in order
      PROVE  Cardinality(P(c)) # Cardinality(P(d))
  <2> DEFINE S == P(c)
             T == P(d)
  <2>1. S \in SUBSET T /\ c \in T /\ c \notin S
    BY <1>1, <1>3 DEF Ordered
  <2>2. IsFiniteSet(T)
    BY <1>2
  <2> HIDE DEF S, T
  <2>3. Cardinality(S) # Cardinality(T)
    BY <2>1, <2>2, FS_Subset
  <2> QED
    BY <2>3 DEF S, T
<1>4. \A c \in M : Position(f, c) = Cardinality(P(c))
  BY DEF Position, M
<1> HIDE DEF P
<1>5. b \in M
  BY DEF M
<1>6. ASSUME NEW c \in M, c # b PROVE Position(f, c) # Position(f, b)
  BY <1>1, <1>3, <1>4, <1>5, <1>6 DEF Ordered
<1>7. \A c \in Matching(f) : Position(f, c) = Position(f, b) => c = b
  BY <1>6 DEF M
<1>8. Position(f, b) = Cardinality(P(b))
  BY <1>4, <1>5
<1> QED
  BY <1>2, <1>5, <1>7, <1>8 DEF M

LEMMA RestampOrdered ==
    ASSUME Ordered, NEW S, order' = Restamp(S, Live'),
           \A b \in Live' : b \notin S => b \in Live
    PROVE  Ordered'
<1> DEFINE L == Live'
           o == order'
<1>1. L \subseteq Nat
  BY BookNumbers DEF Live
<1>2. o \subseteq L \X L
  BY DEF Restamp
<1>3. \A b, c \in L : <<b, c>> \in o <=> IF b \in S THEN c \in S => b > c ELSE c \notin S /\ <<b, c>> \in order
  BY DEF Restamp
<1> HIDE DEF L, o
<1>4. \A b \in L : b \notin S => b \in Live
  BY DEF L
<1>5. /\ \A b \in L \ S : <<b, b>> \notin order
      /\ \A b, c \in L \ S : b # c => <<b, c>> \in order \/ <<c, b>> \in order
      /\ \A b, c, d \in L \ S : <<b, c>> \in order /\ <<c, d>> \in order => <<b, d>> \in order
  BY <1>4 DEF Ordered
<1>6. ASSUME NEW b \in L PROVE <<b, b>> \notin o
  <2>1. ~(b > b)
    BY <1>1
  <2>2. CASE b \in S
    BY <1>3, <2>1, <2>2
  <2>3. CASE b \notin S
    BY <1>3, <1>5, <2>3
  <2> QED
    BY <2>2, <2>3
<1>7. \A b, c \in L : b # c => <<b, c>> \in o \/ <<c, b>> \in o
  <2> TAKE b, c \in L
  <2>1. CASE b \in S /\ c \in S
    <3>1. b # c => b > c \/ c > b
      BY <1>1
    <3> QED
      BY <1>3, <2>1, <3>1
  <2>2. CASE b \in S /\ c \notin S
    BY <1>3, <2>2
  <2>3. CASE b \notin S /\ c \in S
    BY <1>3, <2>3
  <2>4. CASE b \notin S /\ c \notin S
    BY <1>3, <1>5, <2>4
  <2> QED
    BY <2>1, <2>2, <2>3, <2>4
<1>8. \A b, c, d \in L : <<b, c>> \in o /\ <<c, d>> \in o => <<b, d>> \in o
  <2> SUFFICES ASSUME NEW b \in L, NEW c \in L, NEW d \in L, <<b, c>> \in o, <<c, d>> \in o
               PROVE  <<b, d>> \in o
    OBVIOUS
  <2>1. CASE b \in S /\ d \in S
    <3>1. b > c /\ c > d
      BY <1>3, <2>1
    <3>2. b > d
      BY <1>1, <3>1
    <3> QED
      BY <1>3, <2>1, <3>2
  <2>2. CASE b \in S /\ d \notin S
    BY <1>3, <2>2
  <2>3. CASE b \notin S
    <3>1. /\ c \notin S /\ d \notin S
          /\ <<b, c>> \in order /\ <<c, d>> \in order
      BY <1>3, <2>3
    <3> QED
      BY <1>3, <1>5, <2>3, <3>1
  <2> QED
    BY <2>1, <2>2, <2>3
<1> QED
  BY <1>2, <1>6, <1>7, <1>8 DEF Ordered, L, o

\* No more books lie between two bounds than there are places between them.
LEMMA FewBetween ==
    ASSUME Ordered, NEW f, NEW T \in SUBSET Matching(f), NEW o \in Nat, NEW k \in Nat,
           \A b \in T : o <= Position(f, b) /\ Position(f, b) < o + k
    PROVE  IsFiniteSet(T) /\ Cardinality(T) \in Nat /\ Cardinality(T) <= k
<1> DEFINE p == [b \in T |-> Position(f, b)]
           I == o .. o + k - 1
<1>1. \A b \in T : Position(f, b) \in Nat
  BY Places
<1>2. \A b, c \in T : Position(f, c) = Position(f, b) => c = b
  BY Places
<1>3. p \in Injection(T, I)
  <2>1. p \in [T -> I]
    <3> SUFFICES ASSUME NEW b \in T PROVE Position(f, b) \in I
      OBVIOUS
    <3> QED
      BY <1>1
  <2>2. \A b, c \in T : p[b] = p[c] => b = c
    BY <1>2
  <2> QED
    BY <2>1, <2>2, Zenon DEF Injection, IsInjective
<1>4. IsFiniteSet(I) /\ Cardinality(I) = k
  <2> DEFINE e == o + k - 1
  <2>1. o \in Int /\ e \in Int /\ (o > e => k = 0) /\ e - o + 1 = k
    OBVIOUS
  <2> HIDE DEF e
  <2>2. IsFiniteSet(o .. e) /\ Cardinality(o .. e) = IF o > e THEN 0 ELSE e - o + 1
    BY <2>1, FS_Interval
  <2> QED
    BY <2>1, <2>2 DEF e
<1> HIDE DEF p, I
<1>5. IsFiniteSet(T) /\ Cardinality(T) <= k
  BY <1>3, <1>4, FS_Injection
<1> QED
  BY <1>5, FS_CardinalityType

\* Where those that stood before a book stay before it, the book comes forward by no more places
\* than books ceased to match.
LEMMA ComesForward ==
    ASSUME NEW f, NEW b,
           \A c \in Matching(f)' : <<c, b>> \in order => <<c, b>> \in order'
    PROVE  Position(f, b) <= Position(f, b)' + Cardinality(Matching(f) \ Matching(f)')
<1> DEFINE P == {c \in Matching(f) : <<c, b>> \in order}
           Q == {c \in Matching(f)' : <<c, b>> \in order'}
           K == Matching(f) \ Matching(f)'
<1>1. P \subseteq Q \cup K
  OBVIOUS
<1>2. IsFiniteSet(Matching(f)) /\ IsFiniteSet(Matching(f)')
  <2>1. Matching(f)' \in SUBSET Book
    BY DEF Matching, Hitting
  <2> HIDE DEF Matching
  <2> QED
    BY <2>1, MatchingFinite, BookNumbers, FS_Subset
<1>3. P \in SUBSET Matching(f) /\ Q \in SUBSET Matching(f)' /\ K \in SUBSET Matching(f)
  OBVIOUS
<1> HIDE DEF P, Q, K
<1>4. IsFiniteSet(P) /\ IsFiniteSet(Q) /\ IsFiniteSet(K)
  BY <1>2, <1>3, FS_Subset
<1>5. /\ Cardinality(P) \in Nat /\ Cardinality(Q) \in Nat /\ Cardinality(K) \in Nat
      /\ Cardinality(Q \cap K) \in Nat
  BY <1>4, FS_CardinalityType, FS_Intersection
<1>6. IsFiniteSet(Q \cup K) /\ Cardinality(Q \cup K) = Cardinality(Q) + Cardinality(K) - Cardinality(Q \cap K)
  BY <1>4, FS_Union
<1>7. Cardinality(P) <= Cardinality(Q \cup K)
  BY <1>1, <1>6, FS_Subset
<1>8. Cardinality(P) <= Cardinality(Q) + Cardinality(K)
  BY <1>5, <1>6, <1>7
<1>9. Position(f, b) = Cardinality(P) /\ Position(f, b)' = Cardinality(Q)
  BY DEF Position, P, Q
<1> QED
  BY <1>8, <1>9 DEF K

LEMMA PageStarts ==
    ASSUME NEW p \in Nat, p > 0, NEW n \in Size
    PROVE  /\ n \in Nat /\ n > 0 /\ (p - 1) * n \in Nat
           /\ (p + 1 - 1) * n = (p - 1) * n + n
<1>1. n \in Nat /\ n > 0
  BY SizeAssumption
<1>2. PICK q \in Nat : q = p - 1
  OBVIOUS
<1>3. q * n \in Nat /\ (q + 1) * n = q * n + n
  BY <1>1, <1>2
<1>4. p + 1 - 1 = q + 1
  BY <1>2
<1> QED
  BY <1>1, <1>2, <1>3, <1>4

LEMMA Counted == ASSUME IsFiniteSet(Book), NEW T \in SUBSET Book PROVE IsFiniteSet(T) /\ Cardinality(T) \in Nat
  BY FS_Subset, FS_CardinalityType

LEMMA Fewer ==
    ASSUME IsFiniteSet(Book), NEW T \in SUBSET Book, NEW U \in SUBSET T
    PROVE  Cardinality(U) <= Cardinality(T)
  BY Counted, FS_Subset

\* Books change while a walk is under way.
LEMMA WalkWatches ==
    ASSUME WalkInv, Walks, UNCHANGED scene, NEW S, order' = Restamp(S, Live'),
           \A b \in Live' : b \notin S => b \in Live,
           list' = Watched(S, Hitting(books', level', shelved', list.filter))
    PROVE  WalkInv'
<1>1. PICK f : f = list.filter
  OBVIOUS
<1>2. PICK T : T = Matching(f)'
  OBVIOUS
<1>3. T = Hitting(books', level', shelved', f)
  BY <1>2 DEF Matching, Hitting, Matches, MayRead, VisibleSet
<1>4. PICK k : k = Cardinality(Matching(f) \ T)
  OBVIOUS
<1>5. /\ Matching(f) \subseteq Live /\ Matching(f) \in SUBSET Book
      /\ T \subseteq Live' /\ T \in SUBSET Book
      /\ k \in Nat
  <2>1. Matching(f) \subseteq Live /\ T \subseteq Live' /\ Matching(f) \in SUBSET Book /\ T \in SUBSET Book
    BY <1>2 DEF Matching, Hitting, Live
  <2> QED
    BY <1>4, <2>1, BookNumbers, Counted
<1>6. list' = [list EXCEPT !.held = (@ \cap T) \ S, !.lost = @ + k]
  BY <1>1, <1>3, <1>4 DEF Watched
<1>7. /\ Fields(list', ListFields)
      /\ list'.filter = f /\ list'.size = list.size /\ list'.next = list.next /\ list'.items = list.items
      /\ list'.held = (list.held \cap T) \ S /\ list'.lost = list.lost + k
  BY <1>1, <1>6 DEF WalkInv, Fields, ListFields
<1>8. Ordered'
  BY RestampOrdered DEF WalkInv
<1>9. list.held \subseteq Matching(f) /\ list.lost \in Nat /\ list'.lost \in Nat
  BY <1>1, <1>5, <1>7 DEF WalkInv
<1>10. Missed' = (Missed \cap T) \ S /\ Missed \subseteq Matching(f)
  BY <1>7, <1>9 DEF Missed
<1>11. \A b \in T \ S : \A c \in T : <<c, b>> \in order => <<c, b>> \in order'
  BY <1>5 DEF Restamp
<1>12. (list.held \subseteq Matching(list.filter))'
  <2>1. (list.filter = f => Matching(list.filter) = Matching(f))'
    BY DEF Matching, Hitting
  <2> QED
    BY <1>2, <1>7, <2>1
<1>13. CASE list.next = None
  <2>1. Cardinality(Missed') <= Cardinality(Missed) /\ Cardinality(Missed) \in Nat /\ Cardinality(Missed') \in Nat
    BY <1>5, <1>10, BookNumbers, Counted, Fewer
  <2>2. Cardinality(Missed') <= list'.lost
    BY <1>5, <1>7, <1>9, <1>13, <2>1 DEF WalkInv
  <2>3. (IF list.next = None THEN Cardinality(Missed) <= list.lost ELSE NextPage)'
    BY <1>7, <1>13, <2>2
  <2> QED
    BY <1>7, <1>8, <1>9, <1>12, <2>3 DEF WalkInv
<1>14. CASE list.next # None
  <2>1. NextPage
    BY <1>14 DEF WalkInv
  <2>2. PICK n : n = (list.next.page - 1) * list.size
    OBVIOUS
  <2>3. n \in Nat
    BY <2>1, <2>2, PageStarts DEF NextPage
  <2>4. PICK A : A = {b \in Missed : Position(f, b) < n}
    OBVIOUS
  <2>5. PICK B : B = {b \in Missed' : Position(f, b)' < n}
    OBVIOUS
  <2>6. ASSUME NEW b \in B \ A PROVE n <= Position(f, b) /\ Position(f, b) < n + k
    <3>1. b \in Missed /\ b \in Matching(f) /\ b \in T \ S /\ Position(f, b)' < n /\ ~(Position(f, b) < n)
      BY <1>10, <2>4, <2>5, <2>6
    <3>2. Position(f, b) <= Position(f, b)' + k
      BY <1>2, <1>4, <1>11, <3>1, ComesForward
    <3>3. Position(f, b) \in Nat
      BY <3>1, Places DEF WalkInv
    <3>4. Position(f, b)' \in Nat
      <4>1. PICK P : P = {c \in T : <<c, b>> \in order'}
        OBVIOUS
      <4>2. P \in SUBSET Book
        BY <1>5, <4>1
      <4>3. Position(f, b)' = Cardinality(P)
        BY <1>2, <4>1 DEF Position
      <4> QED
        BY <4>2, <4>3, BookNumbers, Counted
    <3> QED
      BY <1>5, <2>3, <3>1, <3>2, <3>3, <3>4
  <2>7. A \in SUBSET Book /\ B \in SUBSET Book /\ B \ A \in SUBSET Matching(f)
    BY <1>5, <1>10, <2>4, <2>5
  <2>8. Cardinality(B \ A) \in Nat /\ Cardinality(B \ A) <= k
    BY <1>5, <2>3, <2>6, <2>7, FewBetween DEF WalkInv
  <2>9. Cardinality(A) <= list.lost
    BY <1>1, <2>1, <2>2, <2>4 DEF NextPage, Behind
  <2>10. /\ IsFiniteSet(A) /\ IsFiniteSet(B \ A) /\ Cardinality(A) \in Nat /\ Cardinality(B) \in Nat
         /\ Cardinality(A \cap (B \ A)) \in Nat
    BY <2>7, BookNumbers, Counted
  <2>11. Cardinality(A \cup (B \ A)) = Cardinality(A) + Cardinality(B \ A) - Cardinality(A \cap (B \ A))
    BY <2>10, FS_Union
  <2>12. Cardinality(B) <= Cardinality(A \cup (B \ A))
    <3>1. A \cup (B \ A) \in SUBSET Book /\ B \in SUBSET (A \cup (B \ A))
      BY <2>7
    <3> QED
      BY <3>1, BookNumbers, Fewer
  <2>13. Cardinality(B) <= list'.lost
    BY <1>5, <1>7, <1>9, <2>8, <2>9, <2>10, <2>11, <2>12
  <2>14. (Cardinality(Behind((list.next.page - 1) * list.size)) <= list.lost)'
    <3>1. (list.filter = f => Behind(n) = {b \in Missed : Position(f, b) < n})'
      BY DEF Behind, Position, Matching, Hitting
    <3>2. Behind(n)' = B
      BY <1>7, <2>5, <3>1
    <3>3. ((list.next.page - 1) * list.size)' = n
      BY <1>7, <2>2
    <3>4. ((list.next.page - 1) * list.size = n => Behind((list.next.page - 1) * list.size) = Behind(n))'
      BY DEF Behind
    <3> QED
      BY <2>13, <3>2, <3>3, <3>4
  <2>15. NextPage'
    BY <1>1, <1>7, <2>1, <2>14 DEF NextPage, Digest
  <2>16. (IF list.next = None THEN Cardinality(Missed) <= list.lost ELSE NextPage)'
    BY <1>7, <1>14, <2>15
  <2> QED
    BY <1>7, <1>8, <1>9, <1>12, <2>16 DEF WalkInv
<1> QED
  BY <1>13, <1>14

\* A page is read: of the rows before its end none is missed that was not missed before its begin.
LEMMA PageRead ==
    ASSUME Ordered, UNCHANGED <<scene, books, order, level, shelved>>,
           NEW f \in Filter, NEW n \in Size, NEW p \in Nat, p > 0, NEW H \in SUBSET Matching(f),
           NEW seen, NEW l \in Nat,
           Fields(list', ListFields), list'.filter = f, list'.size = n, list'.held = H, list'.lost = l,
           {x.book : x \in list'.items} = seen \cup PageRows(f, (p - 1) * n, n),
           list'.next = NextCursor(f, n, p),
           Cardinality({b \in H \ seen : Position(f, b) < (p - 1) * n}) <= l
    PROVE  WalkInv'
<1>1. PICK o : o = (p - 1) * n
  OBVIOUS
<1>2. n \in Nat /\ n > 0 /\ o \in Nat /\ (p + 1 - 1) * n = o + n
  BY <1>1, PageStarts
<1>3. /\ Matching(f)' = Matching(f)
      /\ \A b : Position(f, b)' = Position(f, b)
  BY DEF Matching, Hitting, Matches, MayRead, VisibleSet, Position
<1>4. Ordered'
  BY DEF Ordered, Live
<1>5. (list.filter = f => Matching(list.filter) = Matching(f))'
  BY DEF Matching, Hitting
<1>6. (list.held \subseteq Matching(list.filter))'
  BY <1>3, <1>5
<1>7. PICK A : A = {b \in H \ seen : Position(f, b) < o}
  OBVIOUS
<1>8. Missed' = H \ (seen \cup PageRows(f, o, n))
  BY <1>1 DEF Missed
<1>9. ASSUME NEW b \in Missed', Position(f, b) < o + n PROVE b \in A
  <2>1. b \in H \ seen /\ b \in Matching(f) /\ b \notin PageRows(f, o, n)
    BY <1>8, <1>9
  <2>2. Position(f, b) \in Nat
    BY <2>1, Places
  <2>3. Position(f, b) \notin o .. o + n - 1
    BY <2>1 DEF PageRows
  <2>4. Position(f, b) < o
    BY <1>2, <1>9, <2>2, <2>3
  <2> QED
    BY <1>7, <2>1, <2>4
<1>10. A \in SUBSET Book
  BY <1>7 DEF Matching, Hitting
<1>11. \A T \in SUBSET A : Cardinality(T) <= l
  <2> SUFFICES ASSUME NEW T \in SUBSET A PROVE Cardinality(T) <= l
    OBVIOUS
  <2>1. Cardinality(T) <= Cardinality(A) /\ Cardinality(A) \in Nat /\ Cardinality(T) \in Nat
    BY <1>10, BookNumbers, Fewer, Counted
  <2>2. Cardinality(A) <= l
    BY <1>1, <1>7
  <2> QED
    BY <2>1, <2>2
<1>12. NextCursor(f, n, p) = IF HasMore(f, o, n) THEN [page |-> p + 1, digest |-> Digest(f, n)] ELSE None
  BY <1>1 DEF NextCursor
<1>13. CASE HasMore(f, o, n)
  <2>1. /\ list'.next = [page |-> p + 1, digest |-> Digest(f, n)]
        /\ list'.next # None
    BY <1>12, <1>13, SizeAssumption DEF Digest
  <2>2. PICK B : B = {b \in Missed' : Position(f, b)' < o + n}
    OBVIOUS
  <2>3. B \in SUBSET A
    BY <1>3, <1>9, <2>2
  <2>4. (list.filter = f => Behind(o + n) = {b \in Missed : Position(f, b) < o + n})'
    BY DEF Behind, Position, Matching, Hitting
  <2>5. Behind(o + n)' = B
    BY <2>2, <2>4
  <2>6. ((list.next.page - 1) * list.size)' = o + n
    BY <1>2, <2>1
  <2>7. ((list.next.page - 1) * list.size = o + n
          => Behind((list.next.page - 1) * list.size) = Behind(o + n))'
    BY DEF Behind
  <2>8. (Cardinality(Behind((list.next.page - 1) * list.size)) <= list.lost)'
    BY <1>11, <2>3, <2>5, <2>6, <2>7
  <2>9. NextPage'
    BY <2>1, <2>8 DEF NextPage, Digest
  <2>10. (IF list.next = None THEN Cardinality(Missed) <= list.lost ELSE NextPage)'
    BY <2>1, <2>9
  <2> QED
    BY <1>4, <1>6, <2>10 DEF WalkInv, Fields
<1>14. CASE ~HasMore(f, o, n)
  <2>1. list'.next = None
    BY <1>12, <1>14
  <2>2. Cardinality(Matching(f)) \in Nat /\ Cardinality(Matching(f)) <= o + n
    BY <1>2, <1>14, MatchingFinite DEF HasMore
  <2>3. ASSUME NEW b \in Missed' PROVE Position(f, b) < o + n
    <3>1. Position(f, b) \in Nat /\ Position(f, b) < Cardinality(Matching(f))
      BY <1>8, Places
    <3> QED
      BY <1>2, <2>2, <3>1
  <2>4. Missed' \in SUBSET A
    BY <1>9, <2>3
  <2>5. (IF list.next = None THEN Cardinality(Missed) <= list.lost ELSE NextPage)'
    BY <1>11, <2>1, <2>4
  <2> QED
    BY <1>4, <1>6, <2>5 DEF WalkInv, Fields
<1> QED
  BY <1>13, <1>14

LEMMA ItemBooks == \A f, o, n : {x.book : x \in Items(f, o, n)} = PageRows(f, o, n)
<1> SUFFICES ASSUME NEW f, NEW o, NEW n PROVE {x.book : x \in Items(f, o, n)} = PageRows(f, o, n)
  OBVIOUS
<1>1. PICK P : P = PageRows(f, o, n)
  OBVIOUS
<1>2. Items(f, o, n) = {[book |-> b, of |-> f] : b \in P}
  BY <1>1 DEF Items
<1>3. ASSUME NEW b \in P PROVE \E x \in Items(f, o, n) : x.book = b
  <2>1. [book |-> b, of |-> f] \in Items(f, o, n)
    BY <1>2
  <2> QED
    BY <2>1
<1>4. ASSUME NEW x \in Items(f, o, n) PROVE x.book \in P
  BY <1>2
<1> QED
  BY <1>1, <1>3, <1>4

\* The first page.
LEMMA SearchWalk ==
    ASSUME WalkInv, SearchBooks, UNCHANGED <<scene, books, order, level, shelved>>
    PROVE  WalkInv'
<1>1. PICK f \in Filter, n \in Size :
        list' = [NoList EXCEPT !.filter = f, !.size = n, !.held = Matching(f),
                     !.items = Items(f, 0, n), !.next = NextCursor(f, n, 1)]
  BY Zenon DEF SearchBooks
<1>2. PICK H : H = Matching(f)
  OBVIOUS
<1>3. PICK I : I = Items(f, 0, n)
  OBVIOUS
<1>4. PICK c : c = NextCursor(f, n, 1)
  OBVIOUS
<1>5. list' = [NoList EXCEPT !.filter = f, !.size = n, !.held = H, !.items = I, !.next = c]
  BY <1>1, <1>2, <1>3, <1>4
<1>6. /\ Fields(list', ListFields) /\ list'.filter = f /\ list'.size = n /\ list'.held = H
      /\ list'.items = I /\ list'.next = c /\ list'.lost = 0
  BY <1>5 DEF NoList, Fields, ListFields
<1>7. n \in Nat /\ (1 - 1) * n = 0
  BY PageStarts, SizeAssumption
<1>8. {x.book : x \in I} = PageRows(f, 0, n)
  BY <1>3, ItemBooks
<1>9. \A b \in H : Position(f, b) \in Nat
  BY <1>2, Places DEF WalkInv
<1>10. PICK seen : seen = {}
  OBVIOUS
<1>11. PICK p : p = 1
  OBVIOUS
<1>12. p \in Nat /\ p > 0 /\ (p - 1) * n = 0
  BY <1>7, <1>11
<1>13. {b \in H \ seen : Position(f, b) < (p - 1) * n} = {}
  BY <1>9, <1>12
<1>14. Cardinality({b \in H \ seen : Position(f, b) < (p - 1) * n}) <= 0
  BY <1>13, FS_EmptySet
<1>15. {x.book : x \in list'.items} = seen \cup PageRows(f, (p - 1) * n, n)
  BY <1>6, <1>8, <1>10, <1>12
<1>16. list'.next = NextCursor(f, n, p)
  BY <1>4, <1>6, <1>11
<1>17. H \in SUBSET Matching(f) /\ 0 \in Nat
  BY <1>2
<1> QED
  BY <1>6, <1>12, <1>14, <1>15, <1>16, <1>17, PageRead DEF WalkInv

\* The pages after it.
LEMMA SearchOnWalk ==
    ASSUME WalkInv, SearchOn, UNCHANGED <<scene, books, order, level, shelved>>
    PROVE  WalkInv'
<1>1. PICK f \in Filter, n \in Size :
        /\ IF scene.reader = "agent" THEN Digest(f, n) = list.next.digest
           ELSE f = list.filter /\ n = list.size
        /\ list' = [list EXCEPT !.items = @ \cup Items(f, (list.next.page - 1) * n, n),
                                !.next = NextCursor(f, n, list.next.page)]
  BY Zenon DEF SearchOn
<1>2. list.next # None /\ NextPage
  BY DEF SearchOn, WalkInv
<1>3. PICK p \in Nat : p = list.next.page /\ p > 0
  BY <1>2 DEF NextPage
<1>4. f = list.filter /\ n = list.size
  BY <1>1, <1>2 DEF NextPage, Digest
<1>5. PICK I : I = Items(f, (p - 1) * n, n)
  OBVIOUS
<1>6. PICK c : c = NextCursor(f, n, p)
  OBVIOUS
<1>7. list' = [list EXCEPT !.items = @ \cup I, !.next = c]
  BY <1>1, <1>3, <1>5, <1>6
<1>8. /\ Fields(list', ListFields) /\ list'.filter = f /\ list'.size = n /\ list'.held = list.held
      /\ list'.items = list.items \cup I /\ list'.next = c /\ list'.lost = list.lost
  BY <1>4, <1>7 DEF WalkInv, Fields, ListFields
<1>9. PICK seen : seen = {x.book : x \in list.items}
  OBVIOUS
<1>10. {x.book : x \in I} = PageRows(f, (p - 1) * n, n)
  BY <1>5, ItemBooks
<1>11. {x.book : x \in list'.items} = seen \cup PageRows(f, (p - 1) * n, n)
  BY <1>8, <1>9, <1>10
<1>12. Cardinality({b \in list.held \ seen : Position(f, b) < (p - 1) * n}) <= list.lost
  BY <1>2, <1>3, <1>4, <1>9 DEF NextPage, Behind, Missed
<1>13. list.held \in SUBSET Matching(f) /\ list.lost \in Nat
  BY <1>4 DEF WalkInv
<1> QED
  BY <1>3, <1>6, <1>8, <1>11, <1>12, <1>13, PageRead DEF WalkInv

LEMMA WalkStays ==
    ASSUME WalkInv, UNCHANGED <<scene, books, order, level, shelved, list>>
    PROVE  WalkInv'
<1>1. Matching(list.filter)' = Matching(list.filter)
  BY DEF Matching, Hitting, Matches, MayRead, VisibleSet
<1>2. \A n : Behind(n)' = Behind(n)
  BY DEF Behind, Missed, Position, Matching, Hitting, Matches, MayRead, VisibleSet
<1>3. Ordered' /\ Missed' = Missed
  BY DEF WalkInv, Ordered, Live, Missed
<1>4. NextPage' = NextPage
  BY <1>2 DEF NextPage, Digest
<1> QED
  BY <1>1, <1>3, <1>4 DEF WalkInv, Fields

LEMMA FollowWalk ==
    ASSUME WalkInv, Walks, UNCHANGED scene, Follow
    PROVE  WalkInv'
<1> DEFINE S == {b \in Live' : books'[b] # books[b]}
<1>1. {b \in Book : books'[b] # None} = Live'
  BY DEF Live
<1>2. order' = Restamp(S, Live') /\ list' = Watched(S, Hitting(books', level', shelved', list.filter))
  BY <1>1 DEF Follow, Walks
<1>3. \A b \in Live' : b \notin S => b \in Live
  BY DEF Live
<1> HIDE DEF S
<1> QED
  BY <1>2, <1>3, WalkWatches

LEMMA StatusWalk ==
    ASSUME WalkInv, Walks, SetLevel \/ SetStatus
    PROVE  WalkInv'
<1>1. Live' = Live /\ UNCHANGED scene /\ books' = books
  BY DEF SetLevel, SetStatus, Live
<1>2. CASE SetLevel
  <2>1. PICK b \in Live : /\ order' = Restamp({b}, Live) /\ shelved' = shelved
                          /\ list' = Watched({b}, Hitting(books, level', shelved, list.filter))
    BY <1>2 DEF SetLevel
  <2> QED
    BY <1>1, <2>1, WalkWatches
<1>3. CASE SetStatus
  <2>1. order' = order /\ list' = Watched({}, Hitting(books, level', shelved', list.filter))
    BY <1>3 DEF SetStatus
  <2>2. order = Restamp({}, Live)
    BY DEF WalkInv, Ordered, Restamp
  <2> QED
    BY <1>1, <2>1, <2>2, WalkWatches
<1> QED
  BY <1>2, <1>3

LEMMA WalkStep ==
    TypeInv /\ (Walks => WalkInv /\ calls = {}) /\ [LNext]_<<vars, pvars, lvars>>
        => (Walks => WalkInv /\ calls = {})'
<1> SUFFICES ASSUME TypeInv, Walks => WalkInv /\ calls = {}, [LNext]_<<vars, pvars, lvars>>, Walks'
             PROVE  WalkInv' /\ calls' = {}
  OBVIOUS
<1>1. scene' = scene
  <2>1. CASE UNCHANGED vars
    BY <2>1 DEF vars
  <2>2. CASE Next
    BY <2>2, SceneStays
  <2> QED
    BY <2>1, <2>2 DEF LNext, TNext, Files, SetLevel, SetStatus
<1>2. Walks /\ WalkInv /\ calls = {} /\ ~Views
  BY <1>1 DEF Walks, Views
<1>3. CASE UNCHANGED <<vars, pvars, lvars>>
  BY <1>2, <1>3, WalkStays DEF vars, lvars
<1>4. CASE TNext /\ Follow
  BY <1>1, <1>2, <1>4, FollowWalk DEF Follow, Walks
<1>5. CASE SetLevel \/ SetStatus
  BY <1>2, <1>5, StatusWalk DEF SetLevel, SetStatus
<1>6. CASE Reads /\ UNCHANGED <<vars, pvars>>
  <2>1. UNCHANGED <<scene, books>>
    BY <1>6 DEF vars
  <2>2. SearchBooks \/ SearchOn => UNCHANGED <<order, level, shelved, calls>>
    BY Zenon DEF SearchBooks, SearchOn
  <2>3. SearchBooks \/ SearchOn => WalkInv' /\ calls' = {}
    BY <1>2, <2>1, <2>2, SearchWalk, SearchOnWalk
  <2>4. /\ SetFilter => scene.reader = "house"
        /\ Type \/ Search => scene.reader = "shared"
        /\ LoadMore => Views
    BY Zenon DEF SetFilter, Type, Search, LoadMore
  <2>5. CountBooks \/ ReadPage \/ Receive \/ Fail => \E c \in calls : TRUE
    BY Zenon DEF CountBooks, ReadPage, Receive, Fail
  <2>6. SearchBooks \/ SearchOn
    BY <1>2, <1>6, <2>4, <2>5 DEF Reads, Views
  <2> QED
    BY <2>3, <2>6
<1> QED
  BY <1>3, <1>4, <1>5, <1>6 DEF LNext

\* A reader who follows the cursors to the end misses no more of the books that matched and did not
\* change than others ceased to match meanwhile, however many books there are, however long the
\* pages, and whatever is changed between two of them.
THEOREM WalkMissesNothingHolds == LSpec => []WalkMissesNothing
<1>1. LInit => (Walks => WalkInv /\ calls = {})
  <2> SUFFICES ASSUME LInit PROVE WalkInv /\ calls = {}
    OBVIOUS
  <2>1. list = NoList /\ calls = {} /\ order = {p \in Live \X Live : p[1] > p[2]}
    BY DEF LInit
  <2>2. Fields(list, ListFields) /\ list.lost = 0 /\ list.held = {} /\ list.next = None
    BY <2>1 DEF NoList, Fields, ListFields
  <2>3. Live \subseteq Nat
    BY BookNumbers DEF Live
  <2>4. /\ order \subseteq Live \X Live
        /\ \A b, c \in Live : <<b, c>> \in order <=> b > c
    BY <2>1
  <2>5. Ordered
    BY <2>3, <2>4 DEF Ordered
  <2>6. Cardinality(Missed) = 0
    BY <2>2, FS_EmptySet DEF Missed
  <2> QED
    BY <2>1, <2>2, <2>5, <2>6 DEF WalkInv
<1>2. (Walks => WalkInv /\ calls = {}) => WalkMissesNothing
  BY DEF WalkMissesNothing, WalkInv, Missed
<1> QED
  BY <1>1, <1>2, WalkStep, OneBookPerIsbnHolds, PTL DEF LSpec

=============================================================================

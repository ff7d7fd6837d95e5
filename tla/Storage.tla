------------------------------- MODULE Storage -------------------------------
(***************************************************************************)
(* The writers of the location domain: storage_locations (rooms, shelves,  *)
(* layouts), storage_placement (one copy, batch move) and storage_intake   *)
(* (existing and new copies), each a transaction of storage_tx: the        *)
(* resources are collected from what is committed, locked one by one in    *)
(* the frozen order room > shelf > layer > cell > copy, the request is     *)
(* checked under the locks, and its writes are committed later, in one     *)
(* step, while other transactions go on.  Row locks are PostgreSQL's; on   *)
(* SQLite the first one locks the database, which only takes interleavings *)
(* away.                                                                   *)
(*                                                                         *)
(* Ids are numbers allocated so that the frozen order is <.  The parent of *)
(* an id is fixed when its row is created and never changes, so it is a    *)
(* constant.  Versions a client quotes are those it read when it formed    *)
(* the request, and go stale as others commit.                             *)
(***************************************************************************)
EXTENDS Integers, FiniteSets

CONSTANTS
    Room, Shelf, Layer, Cell, Copy,     \* ids that may ever be allocated
    RoomOf, ShelfOf, LayerOf,           \* parents of shelves, layers, cells
    Request,                            \* one write request each
    Kinds,                              \* the operations clients ask for
    Flags,                              \* what layouts say of a listed row
    Born,                               \* rows that exist at the start
    None

ASSUME TreeAssumption ==
    /\ RoomOf \in [Shelf -> Room]
    /\ ShelfOf \in [Layer -> Shelf]
    /\ LayerOf \in [Cell -> Layer]

\* Ids of one kind come before those of the kinds below it.
Before(A, B) == \A a \in A, b \in B : a < b

ASSUME IdAssumption ==
    /\ Room \cup Shelf \cup Layer \cup Cell \cup Copy \subseteq Int
    /\ Before(Room, Shelf \cup Layer \cup Cell \cup Copy)
    /\ Before(Shelf, Layer \cup Cell \cup Copy)
    /\ Before(Layer, Cell \cup Copy)
    /\ Before(Cell, Copy)

ASSUME NoneAssumption ==
    None \notin Request \cup Room \cup Shelf \cup Layer \cup Cell \cup Copy
                    \cup [shelf : Shelf, cell : Cell \cup {None}]

VARIABLES
    life,       \* which rows exist, are archived, or are gone
    place,      \* (placement_shelf_id, placement_cell_id) of each copy
    version,    \* version / placement_version of each row
    lock,       \* the transaction that holds each row's write lock
    pc,         \* where each request is
    op,         \* what it asks for
    need,       \* the rows collect_ancestors found for it
    draft       \* its uncommitted writes, with the versions they rely on

Map == INSTANCE ShelfMap

Node     == Map!Node
Resource == Map!Resource
Place    == Map!Place

vars == <<life, place, version, lock, pc, op, need, draft>>

\* Drafts that change the tree, and that put copies somewhere.
Reshaping(archive, restore, create, bump, expect) ==
    [archive |-> archive, restore |-> restore, create |-> create,
     put |-> [c \in {} |-> None], bump |-> bump, expect |-> expect]

Shelving(put, create, bump, expect) ==
    [archive |-> {}, restore |-> {}, create |-> create,
     put |-> put, bump |-> bump, expect |-> expect]

NoSeen  == [x \in {} |-> 0]
NoDraft == Reshaping({}, {}, {}, {}, NoSeen)

Init ==
    /\ life = [x \in Resource |-> IF x \in Born THEN "active" ELSE "unborn"]
    /\ place \in [Copy -> Place \cup {None}]
    /\ \A c \in Copy : place[c] # None => c \in Born /\ Map!Open(place[c])
    /\ version = [x \in Resource |-> 1]
    /\ lock = [x \in Resource |-> None]
    /\ pc = [r \in Request |-> "idle"]
    /\ op = [r \in Request |-> None]
    /\ need = [r \in Request |-> {}]
    /\ draft = [r \in Request |-> NoDraft]

Exists(x) == life[x] \in {"active", "archived"}
Held(r)   == {x \in Resource : lock[x] = r}
InFlight  == {"collect", "lock", "write"}

LayersOf(s) == {l \in Layer : ShelfOf[l] = s /\ Exists(l)}
CellsOf(l)  == {c \in Cell : LayerOf[c] = l /\ Exists(c)}
Unders(s)   == LayersOf(s) \cup UNION {CellsOf(l) : l \in LayersOf(s)}

\* A partial function that holds at one point.
One(x, v) == [y \in {x} |-> v]

-----------------------------------------------------------------------------
(* What clients ask.  The versions they quote are those just read.          *)

Copies  == {c \in Copy : life[c] = "active"}
Seen(S) == [x \in S |-> version[x]]

\* The rows a place names, and the rows of its chain.
TargetRows(p) == {p.shelf} \cup ({p.cell} \ {None})

Ask(r, o) ==
    /\ o.kind \in Kinds
    /\ pc' = [pc EXCEPT ![r] = "collect"]
    /\ op' = [op EXCEPT ![r] = o]
    /\ UNCHANGED <<life, place, version, lock, need, draft>>

\* PATCH copies/{id}/placement: put one copy somewhere, or clear its place.
AskSet(r) ==
    \E c \in Copies, p \in Place \cup {None} :
        Ask(r, [kind |-> "set", put |-> One(c, p), seen |-> Seen({c})])

\* POST storage/placements: copies to one target, all quoted as previewed.
AskMove(r) ==
    \E S \in (SUBSET Copies) \ {{}}, p \in {q \in Place : Map!Open(q)} :
        Ask(r, [kind |-> "move", put |-> [c \in S |-> p],
                target |-> p, seen |-> Seen(S \cup TargetRows(p))])

\* POST storage/copies: known copies to a place, and count new ones to another.
AskIntake(r) ==
    \E S \in SUBSET Copies, p, q \in Place, n \in 0 .. 1 :
        Ask(r, [kind |-> "intake", put |-> [c \in S |-> p], seen |-> Seen(S),
                count |-> n, at |-> q])

\* PATCH storage/rooms/{id} and storage/shelves/{id}: "restore" is archived=false.
AskUpdate(r, kind, S) ==
    \E n \in {m \in S : Exists(m)}, f \in {"edit", "archive", "restore"} :
        Ask(r, [kind |-> kind, node |-> n, flag |-> f, seen |-> Seen({n})])

\* POST storage/rooms and storage/shelves.
AskCreate(r) ==
    \/ Ask(r, [kind |-> "createRoom"])
    \/ \E n \in Room : Ask(r, [kind |-> "createShelf", room |-> n])

\* PUT storage/shelves/{id}/layout: flags of the layers and cells it lists, the listed
\* layers whose cells it gives, and what is new: a cell of one of those, or a layer
\* (bound: one new layer or one new cell of a known layer).
AskLayout(r) ==
    \E s \in {t \in Shelf : Exists(t)} :
    \E L \in SUBSET LayersOf(s) : \E given \in SUBSET L, extra \in 0 .. 1 :
    \E C \in SUBSET UNION {CellsOf(l) : l \in given}, grow \in SUBSET given :
    \E f \in [L \cup C -> Flags] :
        /\ Cardinality(grow) + extra <= 1
        /\ Ask(r, [kind |-> "layout", shelf |-> s, flags |-> f, given |-> given,
                   grow |-> grow, extra |-> extra, seen |-> Seen({s} \cup L \cup C)])

-----------------------------------------------------------------------------
(* Collecting and locking.                                                  *)

\* collect_ancestors of one place.
Chain(p) ==
    {p.shelf, RoomOf[p.shelf]} \cup
    IF p.cell = None THEN {}
    ELSE LET l == LayerOf[p.cell]
         IN  {p.cell, l, ShelfOf[l], RoomOf[ShelfOf[l]]}

\* The chains copies are put into and, for set, move and intake, those they leave.
Targets(o) ==
    {o.put[c] : c \in DOMAIN o.put} \cup
    (IF o.kind = "intake" /\ o.count > 0 THEN {o.at} ELSE {})
Sources(o) == {place[c] : c \in DOMAIN o.put}

\* Mutant: only the rows the request names.
NamedRows(o) ==
    CASE o.kind \in {"set", "move", "intake"} ->
            DOMAIN o.put \cup UNION {TargetRows(p) : p \in Targets(o) \ {None}}
      [] o.kind \in {"room", "shelf"} -> {o.node}
      [] o.kind = "createRoom" -> {}
      [] o.kind = "createShelf" -> {o.room}
      [] o.kind = "layout" -> {o.shelf}

\* collect_ancestors: every row the operation will lock.
LockSet(o) ==
    CASE o.kind \in {"set", "move", "intake"} ->
            DOMAIN o.put \cup UNION {Chain(p) : p \in (Targets(o) \cup Sources(o)) \ {None}}
      [] o.kind = "room" -> {o.node}
      [] o.kind = "shelf" -> {o.node, RoomOf[o.node]}
      [] o.kind = "createRoom" -> {}
      [] o.kind = "createShelf" -> {o.room}
      [] o.kind = "layout" -> {o.shelf, RoomOf[o.shelf]} \cup Unders(o.shelf)

\* The rows are collected from committed data, before anything is locked.
Collect(r) ==
    /\ pc[r] = "collect"
    /\ need' = [need EXCEPT ![r] = LockSet(op[r])]
    /\ pc' = [pc EXCEPT ![r] = "lock"]
    /\ UNCHANGED <<life, place, version, lock, op, draft>>

Missing(r) == need[r] \ Held(r)

\* Mutant: a batch locks its copies first and their places after them.
NextCopiesFirst(r, x) ==
    /\ x \in Missing(r)
    /\ \A y \in Missing(r) : IF op[r].kind \in {"set", "move", "intake"} THEN y <= x ELSE x <= y

\* _LOCK_ORDER, ascending id within a kind: the row lock_resources asks for next.
IsNext(r, x) ==
    /\ x \in Missing(r)
    /\ \A y \in Missing(r) : x <= y

\* lock_resources, one row.
Acquire(r) ==
    /\ pc[r] = "lock"
    /\ \E x \in Missing(r) :
          /\ IsNext(r, x)
          /\ Exists(x)
          /\ lock[x] = None
          /\ lock' = [lock EXCEPT ![x] = r]
    /\ UNCHANGED <<life, place, version, pc, op, need, draft>>

\* The transaction ends: its locks are free and nothing of it is left.
Close(r) ==
    /\ pc' = [pc EXCEPT ![r] = "ended"]
    /\ lock' = [x \in Resource |-> IF lock[x] = r THEN None ELSE lock[x]]
    /\ op' = [op EXCEPT ![r] = None]
    /\ need' = [need EXCEPT ![r] = {}]
    /\ draft' = [draft EXCEPT ![r] = NoDraft]

RollBack(r) == Close(r) /\ UNCHANGED <<life, place, version>>

\* NotFound: a row to be locked is not there (any more).
NotFound(r) ==
    /\ pc[r] = "lock"
    /\ \E x \in Missing(r) : IsNext(r, x) /\ ~Exists(x)
    /\ RollBack(r)

\* A check under the locks fails: one of those below, or one on data the model leaves
\* out (codes, copy types, the path's book).
Refuse(r) ==
    /\ pc[r] = "lock"
    /\ Missing(r) = {}
    /\ RollBack(r)

\* A lost process or an OperationalError; the retry of run_in_txn is a new request here.
Abort(r) ==
    /\ pc[r] \in InFlight
    /\ RollBack(r)

-----------------------------------------------------------------------------
(* The handlers: read under the locks, check, and form the writes.          *)

Locked(r, kind) ==
    /\ pc[r] = "lock"
    /\ Missing(r) = {}
    /\ op[r].kind = kind

Write(r, d) ==
    /\ pc' = [pc EXCEPT ![r] = "write"]
    /\ draft' = [draft EXCEPT ![r] = d]
    /\ UNCHANGED <<life, place, version, lock, op, need>>

\* Every version the client quoted is still the row's version.  Mutant: not compared.
Unchecked(o) == TRUE
Current(o) == \A x \in DOMAIN o.seen : version[x] = o.seen[x]

\* Ids no row and no uncommitted insert has.
Fresh(S) ==
    /\ \A x \in S : life[x] = "unborn"
    /\ \A s \in Request : draft[s].create \cap S = {}

\* set_placement
SetPlacement(r) ==
    LET o == op[r] IN
    /\ Locked(r, "set")
    /\ \A c \in DOMAIN o.put : o.put[c] # None => Map!Open(o.put[c])
    /\ Current(o)
    /\ Write(r, Shelving(o.put, {}, DOMAIN o.put, o.seen))

\* execute_move: the target must be as previewed, not only open.
ExecuteMove(r) ==
    LET o == op[r] IN
    /\ Locked(r, "move")
    /\ Map!Open(o.target)
    /\ Current(o)
    /\ Write(r, Shelving(o.put, {}, DOMAIN o.put, o.seen))

\* commit_intake
CommitIntake(r) ==
    LET o == op[r] IN
    /\ Locked(r, "intake")
    /\ \A p \in Targets(o) : Map!Open(p)
    /\ Current(o)
    /\ \E new \in SUBSET Copy :
          /\ IsFiniteSet(new) /\ Cardinality(new) = o.count
          /\ Fresh(new)
          /\ Write(r, Shelving([c \in DOMAIN o.put \cup new |->
                                   IF c \in new THEN o.at ELSE o.put[c]],
                               new, DOMAIN o.put, o.seen))

\* What PATCH does to a room or shelf once its checks have passed.
UpdateNode(r) ==
    LET o == op[r]
        N == {o.node}
    IN  Write(r, Reshaping(IF o.flag = "archive" THEN N ELSE {},
                           IF o.flag = "restore" /\ life[o.node] = "archived" THEN N ELSE {},
                           {}, N, o.seen))

\* update_room
UpdateRoom(r) ==
    LET o == op[r] IN
    /\ Locked(r, "room")
    /\ o.flag = "edit" => life[o.node] = "active"
    /\ o.flag = "archive" => life[o.node] = "active" /\ ~Map!Occupied(o.node)
    /\ Current(o)
    /\ UpdateNode(r)

\* update_shelf: under an archived room a shelf is read-only.  Mutant: it may be restored
\* there.
AnyRestore(o) == TRUE
RestoreCheck(o) ==
    o.flag = "restore" /\ life[o.node] = "archived" => life[RoomOf[o.node]] = "active"

UpdateShelf(r) ==
    LET o == op[r] IN
    /\ Locked(r, "shelf")
    /\ o.flag \in {"edit", "archive"} =>
          life[o.node] = "active" /\ life[RoomOf[o.node]] = "active"
    /\ o.flag = "archive" => ~Map!Occupied(o.node)
    /\ RestoreCheck(o)
    /\ Current(o)
    /\ UpdateNode(r)

\* create_room
CreateRoom(r) ==
    /\ Locked(r, "createRoom")
    /\ \E n \in Room : Fresh({n}) /\ Write(r, Reshaping({}, {}, {n}, {}, NoSeen))

\* create_shelf: in a room in use, with its first layers and at least a cell in each.
CreateShelf(r) ==
    /\ Locked(r, "createShelf")
    /\ life[op[r].room] = "active"
    /\ \E s \in Shelf, L \in (SUBSET Layer) \ {{}}, C \in SUBSET Cell :
          /\ RoomOf[s] = op[r].room
          /\ \A l \in L : ShelfOf[l] = s
          /\ {LayerOf[c] : c \in C} = L
          /\ Fresh({s} \cup L \cup C)
          /\ Write(r, Reshaping({}, {}, {s} \cup L \cup C, {}, NoSeen))

\* put_layout: full replacement.  A listed row takes its flag; an existing active row
\* that is left out is archived; rows of a layer whose cells are not given stay.
Flagged(o, f) == {n \in DOMAIN o.flags : o.flags[n] = f}
Listed(o) ==
    LayersOf(o.shelf) \cup UNION {CellsOf(l) : l \in o.given}
Archived(o) ==
    Flagged(o, "archive") \cup {n \in Listed(o) \ DOMAIN o.flags : life[n] = "active"}
Restored(o) == {n \in Flagged(o, "restore") : life[n] = "archived"}

InUse(o, n) == n \notin Archived(o) /\ (life[n] = "active" \/ n \in Restored(o))

\* Copies keep what they stand in from being archived, listed or not.  Mutant: rows that
\* are left out are archived unseen.
ListedUnoccupied(o) == \A n \in Flagged(o, "archive") : ~Map!Occupied(n)
Unoccupied(o)       == \A n \in Archived(o) : ~Map!Occupied(n)

\* Cells can be given only for a layer that is in use.  Mutant: for any layer.
GivenAnyLayer(o) == TRUE
GivenInUse(o)    == \A l \in o.given : InUse(o, l)

PutLayout(r) ==
    LET o == op[r] IN
    /\ Locked(r, "layout")
    /\ life[o.shelf] = "active" /\ life[RoomOf[o.shelf]] = "active"
    /\ Current(o)
    /\ \A n \in Flagged(o, "edit") : life[n] = "active"
    /\ Unoccupied(o)
    /\ GivenInUse(o)
    /\ \E L \in SUBSET Layer, C \in SUBSET Cell :
          /\ Cardinality(L) = o.extra
          /\ \A l \in L : ShelfOf[l] = o.shelf
          /\ o.grow \subseteq {LayerOf[c] : c \in C}
          /\ {LayerOf[c] : c \in C} \subseteq o.grow \cup L
          /\ Fresh(L \cup C)
          /\ Write(r, Reshaping(Archived(o), Restored(o), L \cup C,
                                {o.shelf} \cup Archived(o) \cup Restored(o)
                                   \cup Flagged(o, "edit"),
                                o.seen))

Handle(r) ==
    \/ SetPlacement(r) \/ ExecuteMove(r) \/ CommitIntake(r)
    \/ UpdateRoom(r) \/ UpdateShelf(r) \/ CreateRoom(r) \/ CreateShelf(r)
    \/ PutLayout(r)

\* db.commit(): the draft becomes visible in one step and the locks are free.
Commit(r) ==
    LET d == draft[r] IN
    /\ pc[r] = "write"
    /\ life' = [x \in Resource |-> IF x \in d.create \cup d.restore THEN "active"
                                   ELSE IF x \in d.archive THEN "archived"
                                   ELSE life[x]]
    /\ place' = [c \in Copy |-> IF c \in DOMAIN d.put THEN d.put[c] ELSE place[c]]
    /\ version' = [x \in Resource |-> version[x] + IF x \in d.bump THEN 1 ELSE 0]
    /\ Close(r)

-----------------------------------------------------------------------------
(* The catalogue's own writes to copies.                                    *)

\* create_copy (services/copies): a copy without a place, its own commit.
CreateCopy ==
    /\ "createCopy" \in Kinds
    /\ \E c \in Copy : Fresh({c}) /\ life' = [life EXCEPT ![c] = "active"]
    /\ UNCHANGED <<place, version, lock, pc, op, need, draft>>

\* delete_book (services/books): a copy goes with its book once nobody has it locked.
DeleteCopy ==
    /\ "deleteCopy" \in Kinds
    /\ \E c \in Copies :
          /\ lock[c] = None
          /\ life' = [life EXCEPT ![c] = "deleted"]
          /\ place' = [place EXCEPT ![c] = None]
    /\ UNCHANGED <<version, lock, pc, op, need, draft>>

Issue(r) ==
    /\ pc[r] = "idle"
    /\ \/ AskSet(r) \/ AskMove(r) \/ AskIntake(r) \/ AskCreate(r) \/ AskLayout(r)
       \/ AskUpdate(r, "room", Room) \/ AskUpdate(r, "shelf", Shelf)

Step(r) == Collect(r) \/ Acquire(r) \/ NotFound(r) \/ Handle(r) \/ Refuse(r) \/ Commit(r)

Next ==
    \/ \E r \in Request : Issue(r) \/ Step(r) \/ Abort(r)
    \/ CreateCopy
    \/ DeleteCopy

Spec == Init /\ [][Next]_vars

\* A process that is not killed goes on.
FairSpec == Spec /\ \A r \in Request : WF_vars(Step(r))

-----------------------------------------------------------------------------
(* Properties.                                                              *)

IsDraft(d) ==
    /\ DOMAIN d = DOMAIN NoDraft
    /\ d.archive \cup d.restore \subseteq Node
    /\ d.create \cup d.bump \cup DOMAIN d.expect \subseteq Resource
    /\ DOMAIN d.put \subseteq Copy
    /\ \A c \in DOMAIN d.put : d.put[c] \in Place \cup {None}
    /\ \A x \in DOMAIN d.expect : d.expect[x] \in Nat

\* Every variable keeps its type, and a request holds only rows it set out to lock.
TypeOK ==
    /\ life \in [Resource -> {"unborn", "active", "archived", "deleted"}]
    /\ place \in [Copy -> Place \cup {None}]
    /\ version \in [Resource -> Nat]
    /\ lock \in [Resource -> Request \cup {None}]
    /\ pc \in [Request -> InFlight \cup {"idle", "ended"}]
    /\ need \in [Request -> SUBSET Resource]
    /\ DOMAIN draft = Request /\ \A r \in Request : IsDraft(draft[r])
    /\ \A r \in Request : Held(r) \subseteq need[r]

\* Wherever a copy stands, its whole chain is in use, although archiving and placing are
\* checked in different transactions that write different rows.
PlacementSound == Map!Placed

\* Between the version checks of an operation and its commit nobody changes a row whose
\* version it relied on (no lost update, no move into a place other than the previewed).
ExpectationsHold ==
    \A r \in Request : pc[r] = "write" =>
        \A x \in DOMAIN draft[r].expect : version[x] = draft[r].expect[x]

\* A layout replaces the whole shelf it was made for: no layer or cell has come to the
\* shelf between the collection of the rows to lock and the commit.
LayoutIsWhole ==
    \A r \in Request : pc[r] = "write" /\ op[r].kind = "layout" =>
        Unders(op[r].shelf) \subseteq Held(r)

\* What an operation relied on before it had its locks is still so when it writes.
RelianceHolds == ExpectationsHold /\ LayoutIsWhole

\* No set of transactions in which each waits for a row another of them has locked.
NoCircularWait ==
    ~ \E S \in (SUBSET Request) \ {{}} : \A r \in S :
         /\ pc[r] = "lock"
         /\ \E x \in Missing(r) : IsNext(r, x) /\ lock[x] \in S

\* A comment in put_layout says archiving a layer or cell skips one that is archived: an
\* archived row would then keep its version for as long as it stays archived.
ArchivedUntouched ==
    [][\A n \in Layer \cup Cell :
          life[n] = "archived" /\ life'[n] = "archived" => version'[n] = version[n]]_vars

\* Every request is answered: no wait for a lock is endless.
EveryRequestEnds == \A r \in Request : pc[r] \in InFlight ~> pc[r] = "ended"

\* Seen from outside, operations are single steps of the shelf map.
ImplementsShelfMap == Map!Spec
=============================================================================

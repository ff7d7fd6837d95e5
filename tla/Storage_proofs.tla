---------------------------- MODULE Storage_proofs ----------------------------
(***************************************************************************)
(* Proofs about Storage for every house, every set of requests and copies. *)
(*                                                                         *)
(* PlacementSound is not inductive: a transaction that has passed its      *)
(* checks has not written yet, and what it checked must stay true until it *)
(* commits.  WriteInv says so of every draft, and the locks keep it: who   *)
(* archives a node holds its guard, who places a copy holds the shelf and  *)
(* the room, and the guard of every node of an open chain is one of these. *)
(***************************************************************************)
EXTENDS Storage, FiniteSetTheorems, TLAPS

\* The row whose lock protects the use of a node.
Guard(n) ==
    IF n \in Layer THEN ShelfOf[n]
    ELSE IF n \in Cell THEN ShelfOf[LayerOf[n]]
    ELSE n

\* The layers and cells of a shelf, committed or not.
Below(s) == {l \in Layer : ShelfOf[l] = s} \cup {c \in Cell : ShelfOf[LayerOf[c]] = s}

Moving   == {"set", "move", "intake"}
AllKinds == Moving \cup {"room", "shelf", "createRoom", "createShelf", "layout"}

\* What a request in flight asks for.
OpOK(o) ==
    /\ o.kind \in AllKinds
    /\ o.kind \in Moving =>
          /\ DOMAIN o.put \subseteq Copy
          /\ \A c \in DOMAIN o.put : o.put[c] \in Place \cup {None}
    /\ o.kind = "move" =>
          /\ o.target \in Place
          /\ \A c \in DOMAIN o.put : o.put[c] = o.target
    /\ o.kind = "intake" => o.at \in Place
    /\ o.kind = "room" => o.node \in Room
    /\ o.kind = "shelf" => o.node \in Shelf
    /\ o.kind = "createShelf" => o.room \in Room
    /\ o.kind = "layout" =>
          /\ o.shelf \in Shelf
          /\ DOMAIN o.flags \subseteq Below(o.shelf)
          /\ o.given \subseteq {l \in Layer : ShelfOf[l] = o.shelf}
          /\ o.grow \subseteq o.given
    /\ o.kind \in Moving \cup {"room", "shelf", "layout"} =>
          /\ DOMAIN o.seen \subseteq Resource
          /\ \A x \in DOMAIN o.seen : o.seen[x] \in Nat

\* The locks the argument needs are among those an operation sets out to take.
NeedOK(o, N) ==
    /\ o.kind \in Moving =>
          /\ DOMAIN o.put \subseteq N
          /\ \A p \in Targets(o) \ {None} : {p.shelf, RoomOf[p.shelf]} \subseteq N
    /\ o.kind \in {"room", "shelf"} => o.node \in N
    /\ o.kind = "layout" => o.shelf \in N

TypeInv ==
    /\ TypeOK
    /\ DOMAIN op = Request
    /\ \A c \in Copy : life[c] # "archived"
    /\ \A x \in Resource : lock[x] # None => Exists(x)
    /\ \A r \in Request :
          /\ pc[r] \in InFlight => OpOK(op[r])
          /\ pc[r] = "lock" => NeedOK(op[r], need[r])
          /\ pc[r] \in {"idle", "collect", "ended"} => Held(r) = {}

\* What an uncommitted draft of r relies on.
DraftOK(r, d) ==
    /\ \A c \in DOMAIN d.put :
          /\ c \in d.create \/ (life[c] = "active" /\ lock[c] = r)
          /\ d.put[c] # None =>
                /\ Map!Open(d.put[c])
                /\ lock[d.put[c].shelf] = r
                /\ lock[RoomOf[d.put[c].shelf]] = r
                /\ d.archive = {}
    /\ \A n \in d.archive : lock[Guard(n)] = r /\ ~Map!Occupied(n)

WriteInv(r) == DraftOK(r, draft[r])

IInv ==
    /\ TypeInv
    /\ PlacementSound
    /\ \A r \in Request : pc[r] = "write" => WriteInv(r)

-----------------------------------------------------------------------------
\* No id is of two kinds, None is no id and no place, and parents are ids.
LEMMA Ids ==
    /\ Room \cap Shelf = {} /\ Room \cap Layer = {} /\ Room \cap Cell = {}
    /\ Shelf \cap Layer = {} /\ Shelf \cap Cell = {} /\ Layer \cap Cell = {}
    /\ Node \cap Copy = {}
    /\ None \notin Resource /\ None \notin Place /\ None \notin Request
    /\ \A p \in Place : p.shelf \in Shelf /\ p.cell \in Cell \cup {None}
    /\ \A s \in Shelf : RoomOf[s] \in Room
    /\ \A l \in Layer : ShelfOf[l] \in Shelf
    /\ \A c \in Cell : LayerOf[c] \in Layer
  BY TreeAssumption, IdAssumption, NoneAssumption
     DEF Before, Node, Resource, Place, Map!Node, Map!Resource, Map!Place

\* Every node of an open chain is guarded by the shelf of the place or its room.
LEMMA GuardOfChain ==
    ASSUME NEW p \in Place, NEW n, Map!Open(p), Map!Within(p, n)
    PROVE  n \in Node /\ Guard(n) \in {p.shelf, RoomOf[p.shelf]}
<1>1. CASE n = p.shelf \/ n = RoomOf[p.shelf]
  BY <1>1, Ids DEF Guard, Node, Map!Node
<1>2. CASE p.cell # None /\ (n = p.cell \/ n = LayerOf[p.cell])
  <2>1. p.cell \in Cell /\ LayerOf[p.cell] \in Layer /\ ShelfOf[LayerOf[p.cell]] = p.shelf
    BY <1>2, Ids DEF Map!Open
  <2>2. QED
    BY <1>2, <2>1, Ids DEF Guard, Node, Map!Node
<1>3. QED
  BY <1>1, <1>2 DEF Map!Within

-----------------------------------------------------------------------------
\* What a client asks for is well formed, and asking disturbs nothing.
LEMMA AskPreserves ==
    ASSUME IInv, NEW r \in Request, NEW o, pc[r] = "idle", Ask(r, o), OpOK(o)
    PROVE  IInv'
<1> USE DEF Ask, InFlight
<1>1. \A q \in Request : pc'[q] = (IF q = r THEN "collect" ELSE pc[q])
  BY DEF IInv, TypeInv, TypeOK
<1>2. \A q \in Request : op'[q] = (IF q = r THEN o ELSE op[q])
  BY DEF IInv, TypeInv
<1>3. TypeOK'
  BY DEF IInv, TypeInv, TypeOK, Held
<1>4. \A q \in Request :
         /\ pc'[q] \in InFlight => OpOK(op'[q])
         /\ pc'[q] = "lock" => NeedOK(op'[q], need'[q])
         /\ pc'[q] \in {"idle", "collect", "ended"} => Held(q)' = {}
  BY <1>1, <1>2 DEF IInv, TypeInv, Held
<1>5. TypeInv'
  <2>1. DOMAIN op' = Request
    BY DEF IInv, TypeInv
  <2>2. \A q \in Request :
         /\ pc'[q] \in InFlight => OpOK(op[q])'
         /\ pc'[q] = "lock" => NeedOK(op[q], need[q])'
    BY <1>4 DEF OpOK, NeedOK, Targets
  <2>3. QED
    BY <1>3, <1>4, <2>1, <2>2 DEF IInv, TypeInv, Exists
<1>6. PlacementSound'
  BY DEF IInv, PlacementSound, Map!Placed, Map!Open
<1>7. \A q \in Request : pc'[q] = "write" => WriteInv(q)'
  BY <1>1 DEF IInv, WriteInv, DraftOK, Map!Open, Map!Occupied, Map!Within
<1>8. QED
  BY <1>5, <1>6, <1>7 DEF IInv

\* A request that is made leaves the invariant as it was, whatever it asks for.
LEMMA IssuePreserves ==
    ASSUME IInv, NEW r \in Request, Issue(r)
    PROVE  IInv'
<1>0. pc[r] = "idle"
  BY DEF Issue
<1>a. \A S : S \subseteq Resource =>
         DOMAIN Seen(S) \subseteq Resource /\ \A x \in DOMAIN Seen(S) : Seen(S)[x] \in Nat
  BY DEF Seen, IInv, TypeInv, TypeOK
<1>b. Copies \subseteq Copy /\ Copy \subseteq Resource /\ Node \subseteq Resource
  BY DEF Copies, Resource, Map!Resource, Node, Map!Node
<1>1. CASE AskSet(r)
  <2>1. PICK c \in Copies, p \in Place \cup {None} :
           Ask(r, [kind |-> "set", put |-> One(c, p), seen |-> Seen({c})])
    BY <1>1 DEF AskSet
  <2>2. OpOK([kind |-> "set", put |-> One(c, p), seen |-> Seen({c})])
    BY <1>a, <1>b DEF OpOK, One, Moving, AllKinds
  <2>3. QED
    BY <1>0, <2>1, <2>2, AskPreserves
<1>2. CASE AskMove(r)
  <2>1. PICK S \in SUBSET Copies, p \in Place :
           Ask(r, [kind |-> "move", put |-> [c \in S |-> p],
                   target |-> p, seen |-> Seen(S \cup TargetRows(p))])
    BY <1>2 DEF AskMove
  <2>2. TargetRows(p) \subseteq Resource
    BY Ids DEF TargetRows, Resource, Map!Resource, Map!Node
  <2>3. OpOK([kind |-> "move", put |-> [c \in S |-> p],
              target |-> p, seen |-> Seen(S \cup TargetRows(p))])
    BY <1>a, <1>b, <2>2 DEF OpOK, Moving, AllKinds
  <2>4. QED
    BY <1>0, <2>1, <2>3, AskPreserves
<1>3. CASE AskIntake(r)
  <2>1. PICK S \in SUBSET Copies, p \in Place, q \in Place, n \in 0 .. 1 :
           Ask(r, [kind |-> "intake", put |-> [c \in S |-> p], seen |-> Seen(S),
                   count |-> n, at |-> q])
    BY <1>3 DEF AskIntake
  <2>2. OpOK([kind |-> "intake", put |-> [c \in S |-> p], seen |-> Seen(S),
              count |-> n, at |-> q])
    BY <1>a, <1>b DEF OpOK, Moving, AllKinds
  <2>3. QED
    BY <1>0, <2>1, <2>2, AskPreserves
<1>4. CASE AskCreate(r)
  <2>1. OpOK([kind |-> "createRoom"])
    BY DEF OpOK, Moving, AllKinds
  <2>2. \A n \in Room : OpOK([kind |-> "createShelf", room |-> n])
    BY DEF OpOK, Moving, AllKinds
  <2>3. QED
    BY <1>0, <1>4, <2>1, <2>2, AskPreserves DEF AskCreate
<1>5. CASE AskLayout(r)
  <2> DEFINE Req(s, L, C, f, given, grow, extra) ==
               [kind |-> "layout", shelf |-> s, flags |-> f, given |-> given,
                grow |-> grow, extra |-> extra, seen |-> Seen({s} \cup L \cup C)]
  <2>0. PICK s \in Shelf : \E L \in SUBSET LayersOf(s) :
        \E given \in SUBSET L, extra \in 0 .. 1 :
        \E C \in SUBSET UNION {CellsOf(l) : l \in given}, grow \in SUBSET given :
        \E f \in [L \cup C -> Flags] : Ask(r, Req(s, L, C, f, given, grow, extra))
    BY <1>5 DEF AskLayout
  <2>1. PICK L \in SUBSET LayersOf(s) : \E given \in SUBSET L, extra \in 0 .. 1 :
        \E C \in SUBSET UNION {CellsOf(l) : l \in given}, grow \in SUBSET given :
        \E f \in [L \cup C -> Flags] : Ask(r, Req(s, L, C, f, given, grow, extra))
    BY <2>0
  <2>2a. PICK given \in SUBSET L, extra \in 0 .. 1 :
        \E C \in SUBSET UNION {CellsOf(l) : l \in given}, grow \in SUBSET given :
        \E f \in [L \cup C -> Flags] : Ask(r, Req(s, L, C, f, given, grow, extra))
    BY <2>1
  <2>2b. PICK C \in SUBSET UNION {CellsOf(l) : l \in given}, grow \in SUBSET given :
        \E f \in [L \cup C -> Flags] : Ask(r, Req(s, L, C, f, given, grow, extra))
    BY <2>2a
  <2>2. PICK f \in [L \cup C -> Flags] : Ask(r, Req(s, L, C, f, given, grow, extra))
    BY <2>2b
  <2>3. L \subseteq {l \in Layer : ShelfOf[l] = s}
    BY DEF LayersOf
  <2>4. \A c \in C : c \in Cell /\ LayerOf[c] \in given
    BY DEF CellsOf
  <2>5. L \cup C \subseteq Below(s)
    BY <2>3, <2>4 DEF Below
  <2>6. {s} \cup L \cup C \subseteq Resource
    BY <2>3, <2>4 DEF Resource, Map!Resource, Map!Node
  <2>7. OpOK(Req(s, L, C, f, given, grow, extra))
    BY <1>a, <2>3, <2>5, <2>6 DEF OpOK, Moving, AllKinds
  <2>8. QED
    BY <1>0, <2>2, <2>7, AskPreserves
<1>6. CASE AskUpdate(r, "room", Room)
  <2>1. PICK n \in Room, f \in {"edit", "archive", "restore"} :
           Ask(r, [kind |-> "room", node |-> n, flag |-> f, seen |-> Seen({n})])
    BY <1>6 DEF AskUpdate
  <2>2. OpOK([kind |-> "room", node |-> n, flag |-> f, seen |-> Seen({n})])
    BY <1>a DEF OpOK, Moving, AllKinds, Resource, Map!Resource, Map!Node
  <2>3. QED
    BY <1>0, <2>1, <2>2, AskPreserves
<1>7. CASE AskUpdate(r, "shelf", Shelf)
  <2>1. PICK n \in Shelf, f \in {"edit", "archive", "restore"} :
           Ask(r, [kind |-> "shelf", node |-> n, flag |-> f, seen |-> Seen({n})])
    BY <1>7 DEF AskUpdate
  <2>2. OpOK([kind |-> "shelf", node |-> n, flag |-> f, seen |-> Seen({n})])
    BY <1>a DEF OpOK, Moving, AllKinds, Resource, Map!Resource, Map!Node
  <2>3. QED
    BY <1>0, <2>1, <2>2, AskPreserves
<1>8. QED
  BY <1>1, <1>2, <1>3, <1>4, <1>5, <1>6, <1>7 DEF Issue

-----------------------------------------------------------------------------
\* A draft stays good while its transaction keeps its locks and the map is the same.
LEMMA DraftStable ==
    ASSUME IInv, NEW q \in Request, pc[q] = "write", UNCHANGED <<life, place>>,
           draft'[q] = draft[q],
           \A x \in Resource : lock[x] = q => lock'[x] = q
    PROVE  WriteInv(q)'
<1>1. IsDraft(draft[q]) /\ WriteInv(q)
  BY DEF IInv, TypeInv, TypeOK
<1>2. \A n \in Node : Guard(n) \in Resource
  BY Ids DEF Guard, Node, Resource, Map!Node, Map!Resource
<1>3. \A p \in Place : p.shelf \in Resource /\ RoomOf[p.shelf] \in Resource
  BY Ids DEF Resource, Map!Node, Map!Resource
<1>4. \A c \in Copy : c \in Resource
  BY DEF Resource, Map!Resource
<1>5. \A c \in DOMAIN draft[q].put :
         /\ c \in draft[q].create \/ (life'[c] = "active" /\ lock'[c] = q)
         /\ draft[q].put[c] # None =>
               /\ Map!Open(draft[q].put[c])
               /\ lock'[draft[q].put[c].shelf] = q
               /\ lock'[RoomOf[draft[q].put[c].shelf]] = q
               /\ draft[q].archive = {}
  BY <1>1, <1>3, <1>4 DEF IsDraft, WriteInv, DraftOK
<1>6. \A n \in draft[q].archive : lock'[Guard(n)] = q /\ ~Map!Occupied(n)
  BY <1>1, <1>2 DEF IsDraft, WriteInv, DraftOK
<1>7. QED
  BY <1>5, <1>6 DEF WriteInv, DraftOK, Map!Open, Map!Occupied, Map!Within

\* The rows of a place's chain are rows, its shelf and its room among them.
LEMMA ChainRows ==
    ASSUME NEW p \in Place
    PROVE  Chain(p) \subseteq Resource /\ {p.shelf, RoomOf[p.shelf]} \subseteq Chain(p)
  BY Ids DEF Chain, Resource, Map!Node, Map!Resource

\* collect_ancestors finds at least the rows the argument needs locked.
LEMMA CollectPreserves ==
    ASSUME IInv, NEW r \in Request, Collect(r)
    PROVE  IInv'
<1> USE DEF InFlight
<1> DEFINE o == op[r]
<1>1. OpOK(o) /\ pc[r] = "collect" /\ Held(r) = {}
  BY DEF Collect, IInv, TypeInv
<1>2. \A q \in Request : /\ pc'[q] = (IF q = r THEN "lock" ELSE pc[q])
                         /\ need'[q] = (IF q = r THEN LockSet(o) ELSE need[q])
  BY DEF Collect, IInv, TypeInv, TypeOK
<1>3. \A c \in Copy : place[c] # None => place[c] \in Place
  BY DEF IInv, TypeInv, TypeOK
<1>4. o.kind \in Moving => \A p \in (Targets(o) \cup Sources(o)) \ {None} : p \in Place
  BY <1>1, <1>3 DEF OpOK, Targets, Sources, Moving
<1>5. LockSet(o) \subseteq Resource /\ NeedOK(o, LockSet(o))
  <2>1. CASE o.kind \in Moving
    <3>1. LockSet(o) = DOMAIN o.put
                         \cup UNION {Chain(p) : p \in (Targets(o) \cup Sources(o)) \ {None}}
      BY <2>1 DEF LockSet, Moving
    <3>2. LockSet(o) \subseteq Resource
      BY <1>1, <1>4, <2>1, <3>1, ChainRows DEF OpOK, Resource, Map!Resource
    <3>3. \A p \in Targets(o) \ {None} : {p.shelf, RoomOf[p.shelf]} \subseteq LockSet(o)
      BY <1>4, <2>1, <3>1, ChainRows
    <3>4. QED
      BY <2>1, <3>1, <3>2, <3>3 DEF NeedOK, Moving
  <2>2. CASE o.kind = "room"
    BY <1>1, <2>2 DEF OpOK, NeedOK, LockSet, Moving, Resource, Map!Resource, Map!Node
  <2>3. CASE o.kind = "shelf"
    BY <1>1, <2>3, Ids DEF OpOK, NeedOK, LockSet, Moving, Resource, Map!Resource, Map!Node
  <2>4. CASE o.kind = "createRoom"
    BY <2>4 DEF NeedOK, LockSet, Moving
  <2>5. CASE o.kind = "createShelf"
    BY <1>1, <2>5 DEF OpOK, NeedOK, LockSet, Moving, Resource, Map!Resource, Map!Node
  <2>6. CASE o.kind = "layout"
    <3>1. Unders(o.shelf) \subseteq Resource
      BY DEF Unders, LayersOf, CellsOf, Resource, Map!Resource, Map!Node
    <3>2. LockSet(o) = {o.shelf, RoomOf[o.shelf]} \cup Unders(o.shelf)
      BY <2>6 DEF LockSet
    <3>3. QED
      BY <1>1, <2>6, <3>1, <3>2, Ids DEF OpOK, NeedOK, Moving, Resource, Map!Resource, Map!Node
  <2>7. o.kind \in {"set", "move", "intake", "room", "shelf", "createRoom", "createShelf", "layout"}
    BY <1>1 DEF OpOK, AllKinds, Moving
  <2>8. QED
    BY <2>1, <2>2, <2>3, <2>4, <2>5, <2>6, <2>7 DEF Moving
<1>6. TypeOK'
  BY <1>1, <1>2, <1>5 DEF Collect, IInv, TypeInv, TypeOK, Held
<1>7. TypeInv'
  <2>1. \A q \in Request :
         /\ pc'[q] \in InFlight => OpOK(op[q])'
         /\ pc'[q] = "lock" => NeedOK(op[q], need[q])'
         /\ pc'[q] \in {"idle", "collect", "ended"} => Held(q)' = {}
    BY <1>2, <1>5 DEF Collect, IInv, TypeInv, Held, OpOK, NeedOK, Targets
  <2>2. QED
    BY <1>6, <2>1 DEF Collect, IInv, TypeInv, Exists
<1>8. PlacementSound'
  BY DEF Collect, IInv, PlacementSound, Map!Placed, Map!Open
<1>9. \A q \in Request : pc'[q] = "write" => WriteInv(q)'
  BY <1>2, DraftStable DEF Collect
<1>10. QED
  BY <1>7, <1>8, <1>9 DEF IInv

\* A lock that is taken is taken from nobody: the drafts of others keep theirs.
LEMMA AcquirePreserves ==
    ASSUME IInv, NEW r \in Request, Acquire(r)
    PROVE  IInv'
<1>1. PICK x \in Missing(r) : Exists(x) /\ lock[x] = None /\ lock' = [lock EXCEPT ![x] = r]
  BY DEF Acquire
<1>2. x \in need[r] /\ x \in Resource
  BY DEF Missing, IInv, TypeInv, TypeOK
<1>3. \A y \in Resource : lock'[y] = (IF y = x THEN r ELSE lock[y])
  BY <1>1, <1>2 DEF IInv, TypeInv, TypeOK
<1>4. TypeOK'
  <2>1. lock' \in [Resource -> Request \cup {None}]
    BY <1>1, <1>2 DEF IInv, TypeInv, TypeOK
  <2>2. \A q \in Request : Held(q)' \subseteq need[q]
    BY <1>2, <1>3 DEF IInv, TypeInv, TypeOK, Held
  <2>3. QED
    BY <2>1, <2>2 DEF Acquire, IInv, TypeInv, TypeOK
<1>5. TypeInv'
  <2>1. \A y \in Resource : lock'[y] # None => Exists(y)'
    BY <1>1, <1>3 DEF Acquire, IInv, TypeInv, Exists
  <2>2. \A q \in Request :
         /\ pc'[q] \in InFlight => OpOK(op[q])'
         /\ pc'[q] = "lock" => NeedOK(op[q], need[q])'
    BY DEF Acquire, IInv, TypeInv, OpOK, NeedOK, Targets
  <2>3. \A q \in Request : pc'[q] \in {"idle", "collect", "ended"} => Held(q)' = {}
    BY <1>3, Ids DEF Acquire, IInv, TypeInv, Held
  <2>4. QED
    BY <1>4, <2>1, <2>2, <2>3 DEF Acquire, IInv, TypeInv
<1>6. PlacementSound'
  BY DEF Acquire, IInv, PlacementSound, Map!Placed, Map!Open
<1>7. \A q \in Request : pc'[q] = "write" => WriteInv(q)'
  BY <1>1, <1>3, DraftStable, Ids DEF Acquire
<1>8. QED
  BY <1>5, <1>6, <1>7 DEF IInv

\* A transaction that ends without a commit takes nothing from the others.
LEMMA RollBackPreserves ==
    ASSUME IInv, NEW r \in Request, RollBack(r)
    PROVE  IInv'
<1> USE DEF RollBack, Close, InFlight
<1>1. \A q \in Request : /\ pc'[q] = (IF q = r THEN "ended" ELSE pc[q])
                         /\ op'[q] = (IF q = r THEN None ELSE op[q])
                         /\ need'[q] = (IF q = r THEN {} ELSE need[q])
                         /\ draft'[q] = (IF q = r THEN NoDraft ELSE draft[q])
  BY DEF IInv, TypeInv, TypeOK
<1>2. \A y \in Resource : lock'[y] = (IF lock[y] = r THEN None ELSE lock[y])
  OBVIOUS
<1>3. IsDraft(NoDraft)
  BY DEF IsDraft, NoDraft, Reshaping, NoSeen
<1>4. TypeOK'
  <2>1. DOMAIN draft' = Request /\ \A q \in Request : IsDraft(draft'[q])
    BY <1>1, <1>3 DEF IInv, TypeInv, TypeOK
  <2>2. (\A q \in Request : IsDraft(draft[q]))'
    BY <2>1 DEF IsDraft
  <2>3. \A q \in Request : Held(q)' \subseteq need'[q]
    BY <1>1, <1>2, Ids DEF IInv, TypeInv, TypeOK, Held
  <2>4. QED
    BY <1>1, <2>1, <2>2, <2>3 DEF IInv, TypeInv, TypeOK
<1>5. TypeInv'
  <2>1. \A q \in Request :
         /\ pc'[q] \in InFlight => OpOK(op[q])'
         /\ pc'[q] = "lock" => NeedOK(op[q], need[q])'
    BY <1>1 DEF IInv, TypeInv, OpOK, NeedOK, Targets
  <2>2. \A q \in Request : pc'[q] \in {"idle", "collect", "ended"} => Held(q)' = {}
    BY <1>1, <1>2, Ids DEF IInv, TypeInv, Held
  <2>3. DOMAIN op' = Request
    BY DEF IInv, TypeInv
  <2>4. QED
    BY <1>2, <1>4, <2>1, <2>2, <2>3 DEF IInv, TypeInv, Exists
<1>6. PlacementSound'
  BY DEF IInv, PlacementSound, Map!Placed, Map!Open
<1>7. \A q \in Request : pc'[q] = "write" => WriteInv(q)'
  BY <1>1, <1>2, DraftStable
<1>8. QED
  BY <1>5, <1>6, <1>7 DEF IInv

-----------------------------------------------------------------------------
(* The handlers leave a good draft.                                         *)

\* A draft that is sound when it is formed joins the others without disturbing them.
LEMMA WritePreserves ==
    ASSUME IInv, NEW r \in Request, NEW d, pc[r] = "lock", Write(r, d),
           IsDraft(d), DraftOK(r, d)
    PROVE  IInv'
<1> USE DEF Write, InFlight
<1>1. \A q \in Request : /\ pc'[q] = (IF q = r THEN "write" ELSE pc[q])
                         /\ draft'[q] = (IF q = r THEN d ELSE draft[q])
  BY DEF IInv, TypeInv, TypeOK
<1>2. TypeOK'
  <2>1. DOMAIN draft' = Request /\ \A q \in Request : IsDraft(draft'[q])
    BY <1>1 DEF IInv, TypeInv, TypeOK
  <2>2. (\A q \in Request : IsDraft(draft[q]))'
    BY <2>1 DEF IsDraft
  <2>3. QED
    BY <2>1, <2>2 DEF IInv, TypeInv, TypeOK, Held
<1>3. TypeInv'
  <2>1. \A q \in Request :
         /\ pc'[q] \in InFlight => OpOK(op[q])'
         /\ pc'[q] = "lock" => NeedOK(op[q], need[q])'
         /\ pc'[q] \in {"idle", "collect", "ended"} => Held(q)' = {}
    BY <1>1 DEF IInv, TypeInv, OpOK, NeedOK, Targets, Held
  <2>2. QED
    BY <1>2, <2>1 DEF IInv, TypeInv, Exists
<1>4. PlacementSound'
  BY DEF IInv, PlacementSound, Map!Placed, Map!Open
<1>5. \A q \in Request \ {r} : pc'[q] = "write" => WriteInv(q)'
  BY <1>1, DraftStable
<1>6. WriteInv(r)'
  BY <1>1 DEF WriteInv, DraftOK, Map!Open, Map!Occupied, Map!Within
<1>7. QED
  BY <1>3, <1>4, <1>5, <1>6 DEF IInv

\* Under all its locks a request holds what NeedOK names, and the copies it moves are there.
LEMMA AtWork ==
    ASSUME IInv, NEW r \in Request, NEW kind, Locked(r, kind)
    PROVE  /\ OpOK(op[r]) /\ op[r].kind = kind /\ pc[r] = "lock"
           /\ NeedOK(op[r], {x \in Resource : lock[x] = r})
           /\ \A c \in Copy : lock[c] = r => life[c] = "active"
<1>1. need[r] \subseteq {x \in Resource : lock[x] = r}
  BY DEF Locked, Missing, Held, IInv, TypeInv, TypeOK
<1>2. OpOK(op[r]) /\ NeedOK(op[r], need[r])
  BY DEF Locked, IInv, TypeInv, InFlight
<1>3. NeedOK(op[r], {x \in Resource : lock[x] = r})
  BY <1>1, <1>2 DEF NeedOK
<1>4. \A c \in Copy : lock[c] = r => life[c] = "active"
  BY Ids DEF IInv, TypeInv, Exists, Resource, Map!Resource
<1>5. QED
  BY <1>2, <1>3, <1>4 DEF Locked

\* The draft of an operation on copies, known ones and new.
LEMMA ShelvingOK ==
    ASSUME IInv, NEW r \in Request, NEW put, NEW new \in SUBSET Copy, NEW bump, NEW expect,
           DOMAIN put \subseteq Copy,
           \A c \in DOMAIN put :
              /\ put[c] \in Place \cup {None}
              /\ c \in new \/ (life[c] = "active" /\ lock[c] = r)
              /\ put[c] # None => /\ Map!Open(put[c])
                                  /\ lock[put[c].shelf] = r
                                  /\ lock[RoomOf[put[c].shelf]] = r,
           bump \subseteq Resource, DOMAIN expect \subseteq Resource,
           \A x \in DOMAIN expect : expect[x] \in Nat
    PROVE  /\ IsDraft(Shelving(put, new, bump, expect))
           /\ DraftOK(r, Shelving(put, new, bump, expect))
<1>1. IsDraft(Shelving(put, new, bump, expect))
  BY DEF IsDraft, Shelving, NoDraft, Reshaping, Resource, Map!Resource
<1>2. DraftOK(r, Shelving(put, new, bump, expect))
  BY DEF DraftOK, Shelving
<1>3. QED
  BY <1>1, <1>2

\* set_placement forms a sound draft.
LEMMA SetPlacementPreserves ==
    ASSUME IInv, NEW r \in Request, SetPlacement(r) PROVE IInv'
<1> DEFINE o == op[r]
           d == Shelving(o.put, {}, DOMAIN o.put, o.seen)
<1>1. Locked(r, "set") /\ \A c \in DOMAIN o.put : o.put[c] # None => Map!Open(o.put[c])
  BY DEF SetPlacement
<1>2. /\ OpOK(o) /\ o.kind = "set" /\ pc[r] = "lock"
      /\ NeedOK(o, {x \in Resource : lock[x] = r})
      /\ \A c \in Copy : lock[c] = r => life[c] = "active"
  BY <1>1, AtWork
<1>3. Write(r, d)
  BY DEF SetPlacement
<1>4. \A c \in DOMAIN o.put : o.put[c] # None => o.put[c] \in Targets(o) \ {None}
  BY <1>2 DEF Targets
<1>5. IsDraft(d) /\ DraftOK(r, d)
  <2>1. /\ DOMAIN o.put \subseteq Copy /\ DOMAIN o.seen \subseteq Resource
        /\ \A x \in DOMAIN o.seen : o.seen[x] \in Nat
        /\ \A c \in DOMAIN o.put : o.put[c] \in Place \cup {None}
    BY <1>2 DEF OpOK, Moving
  <2>2. \A c \in DOMAIN o.put : lock[c] = r
    BY <1>2 DEF NeedOK, Moving
  <2>3. \A c \in DOMAIN o.put : o.put[c] # None =>
           lock[o.put[c].shelf] = r /\ lock[RoomOf[o.put[c].shelf]] = r
    BY <1>2, <1>4 DEF NeedOK, Moving
  <2>4. DOMAIN o.put \subseteq Resource
    BY <2>1 DEF Resource, Map!Resource
  <2>5. QED
    BY <1>1, <1>2, <2>1, <2>2, <2>3, <2>4, ShelvingOK
<1>6. QED
  BY <1>2, <1>3, <1>5, WritePreserves

\* execute_move forms a sound draft.
LEMMA ExecuteMovePreserves ==
    ASSUME IInv, NEW r \in Request, ExecuteMove(r) PROVE IInv'
<1> DEFINE o == op[r]
           d == Shelving(o.put, {}, DOMAIN o.put, o.seen)
<1>1. Locked(r, "move") /\ Map!Open(o.target)
  BY DEF ExecuteMove
<1>2. /\ OpOK(o) /\ o.kind = "move" /\ pc[r] = "lock"
      /\ NeedOK(o, {x \in Resource : lock[x] = r})
      /\ \A c \in Copy : lock[c] = r => life[c] = "active"
  BY <1>1, AtWork
<1>3. Write(r, d)
  BY DEF ExecuteMove
<1>4. \A c \in DOMAIN o.put : o.put[c] # None => o.put[c] \in Targets(o) \ {None}
  BY <1>2 DEF Targets
<1>5. IsDraft(d) /\ DraftOK(r, d)
  <2>1. /\ DOMAIN o.put \subseteq Copy /\ DOMAIN o.seen \subseteq Resource
        /\ \A x \in DOMAIN o.seen : o.seen[x] \in Nat
        /\ \A c \in DOMAIN o.put : o.put[c] \in Place \cup {None} /\ o.put[c] = o.target
    BY <1>2 DEF OpOK, Moving
  <2>2. \A c \in DOMAIN o.put : lock[c] = r
    BY <1>2 DEF NeedOK, Moving
  <2>3. \A c \in DOMAIN o.put : o.put[c] # None =>
           lock[o.put[c].shelf] = r /\ lock[RoomOf[o.put[c].shelf]] = r
    BY <1>2, <1>4 DEF NeedOK, Moving
  <2>4. DOMAIN o.put \subseteq Resource
    BY <2>1 DEF Resource, Map!Resource
  <2>5. QED
    BY <1>1, <1>2, <2>1, <2>2, <2>3, <2>4, ShelvingOK
<1>6. QED
  BY <1>2, <1>3, <1>5, WritePreserves

\* commit_intake forms a sound draft, the new copies included.
LEMMA CommitIntakePreserves ==
    ASSUME IInv, NEW r \in Request, CommitIntake(r) PROVE IInv'
<1> DEFINE o == op[r]
           Put(new) == [c \in DOMAIN o.put \cup new |-> IF c \in new THEN o.at ELSE o.put[c]]
           d(new) == Shelving(Put(new), new, DOMAIN o.put, o.seen)
<1>1. /\ Locked(r, "intake")
      /\ \A p \in Targets(o) : Map!Open(p)
      /\ \E new \in SUBSET Copy :
            IsFiniteSet(new) /\ Cardinality(new) = o.count /\ Write(r, d(new))
  BY DEF CommitIntake
<1>2. PICK new \in SUBSET Copy : IsFiniteSet(new) /\ Cardinality(new) = o.count /\ Write(r, d(new))
  BY <1>1
<1>3. /\ OpOK(o) /\ o.kind = "intake" /\ pc[r] = "lock"
      /\ NeedOK(o, {x \in Resource : lock[x] = r})
      /\ \A c \in Copy : lock[c] = r => life[c] = "active"
  BY <1>1, AtWork
<1>4. /\ DOMAIN o.put \subseteq Copy /\ DOMAIN o.seen \subseteq Resource
      /\ \A x \in DOMAIN o.seen : o.seen[x] \in Nat
      /\ \A c \in DOMAIN o.put : o.put[c] \in Place \cup {None}
      /\ o.at \in Place
  BY <1>3 DEF OpOK, Moving
<1>5. \A c \in DOMAIN Put(new) :
         /\ Put(new)[c] \in Place \cup {None}
         /\ c \in new \/ (c \in DOMAIN o.put /\ lock[c] = r)
         /\ Put(new)[c] # None => Put(new)[c] \in Targets(o) \ {None}
  <2>1. new # {} => o.at \in Targets(o) \ {None}
    <3>1. Cardinality(new) \in Nat /\ (new # {} => Cardinality(new) # 0)
      BY <1>2, FS_EmptySet, FS_CardinalityType
    <3>2. new # {} => o.count > 0
      BY <1>2, <3>1
    <3>3. QED
      BY <1>3, <1>4, <3>2, Ids DEF Targets
  <2>2. \A c \in DOMAIN o.put : o.put[c] \in Targets(o) /\ lock[c] = r
    BY <1>3 DEF Targets, NeedOK, Moving
  <2>3. QED
    BY <1>4, <2>1, <2>2
<1>6. IsDraft(d(new)) /\ DraftOK(r, d(new))
  <2>1. \A p \in Targets(o) \ {None} : lock[p.shelf] = r /\ lock[RoomOf[p.shelf]] = r
    BY <1>3 DEF NeedOK, Moving
  <2>2. \A c \in DOMAIN Put(new) :
         /\ Put(new)[c] \in Place \cup {None}
         /\ c \in new \/ (life[c] = "active" /\ lock[c] = r)
         /\ Put(new)[c] # None => /\ Map!Open(Put(new)[c])
                                  /\ lock[Put(new)[c].shelf] = r
                                  /\ lock[RoomOf[Put(new)[c].shelf]] = r
    BY <1>1, <1>3, <1>4, <1>5, <2>1
  <2>3. DOMAIN Put(new) \subseteq Copy /\ DOMAIN o.put \subseteq Resource
    BY <1>4 DEF Resource, Map!Resource
  <2> HIDE DEF Put
  <2>4. QED
    BY <1>4, <2>2, <2>3, ShelvingOK
<1>7. QED
  BY <1>2, <1>3, <1>6, WritePreserves

\* The draft of an operation on the tree.
LEMMA ReshapingOK ==
    ASSUME IInv, NEW r \in Request, NEW archive \in SUBSET Node, NEW restore \in SUBSET Node,
           NEW create \in SUBSET Resource, NEW bump \in SUBSET Resource, NEW expect,
           \A n \in archive : lock[Guard(n)] = r /\ ~Map!Occupied(n),
           DOMAIN expect \subseteq Resource,
           \A x \in DOMAIN expect : expect[x] \in Nat
    PROVE  /\ IsDraft(Reshaping(archive, restore, create, bump, expect))
           /\ DraftOK(r, Reshaping(archive, restore, create, bump, expect))
<1>1. IsDraft(Reshaping(archive, restore, create, bump, expect))
  BY DEF IsDraft, NoDraft, Reshaping
<1>2. DraftOK(r, Reshaping(archive, restore, create, bump, expect))
  BY DEF DraftOK, Reshaping
<1>3. QED
  BY <1>1, <1>2

\* update_room and update_shelf archive only what they hold and nobody stands in.
LEMMA UpdatePreserves ==
    ASSUME IInv, NEW r \in Request, UpdateRoom(r) \/ UpdateShelf(r) PROVE IInv'
<1> DEFINE o == op[r]
           N == {o.node}
           archive == IF o.flag = "archive" THEN N ELSE {}
           restore == IF o.flag = "restore" /\ life[o.node] = "archived" THEN N ELSE {}
           d == Reshaping(archive, restore, {}, N, o.seen)
<1>1. /\ Locked(r, "room") \/ Locked(r, "shelf")
      /\ o.flag = "archive" => ~Map!Occupied(o.node)
      /\ Write(r, d)
  BY DEF UpdateRoom, UpdateShelf, UpdateNode
<1>2. /\ OpOK(o) /\ pc[r] = "lock" /\ o.kind \in {"room", "shelf"}
      /\ NeedOK(o, {x \in Resource : lock[x] = r})
  BY <1>1, AtWork
<1>3. /\ o.node \in Room \cup Shelf /\ lock[o.node] = r
      /\ DOMAIN o.seen \subseteq Resource /\ \A x \in DOMAIN o.seen : o.seen[x] \in Nat
  BY <1>2 DEF OpOK, NeedOK
<1>4. Guard(o.node) = o.node
  BY <1>3, Ids DEF Guard
<1>5. N \subseteq Node /\ N \subseteq Resource
  BY <1>3 DEF Node, Resource, Map!Node, Map!Resource
<1>6. /\ archive \in SUBSET Node /\ restore \in SUBSET Node
      /\ \A n \in archive : lock[Guard(n)] = r /\ ~Map!Occupied(n)
  BY <1>1, <1>3, <1>4, <1>5
<1>7. IsDraft(d) /\ DraftOK(r, d)
  <2> HIDE DEF archive, restore
  <2>1. QED
    BY <1>3, <1>5, <1>6, ReshapingOK
<1>8. QED
  BY <1>1, <1>2, <1>7, WritePreserves

\* create_room and create_shelf archive nothing and place nothing.
LEMMA CreatePreserves ==
    ASSUME IInv, NEW r \in Request, CreateRoom(r) \/ CreateShelf(r) PROVE IInv'
<1>1. PICK S \in SUBSET Node : Write(r, Reshaping({}, {}, S, {}, NoSeen))
  <2>1. CASE CreateRoom(r)
    BY <2>1 DEF CreateRoom, Node, Map!Node
  <2>2. CASE CreateShelf(r)
    <3>1. PICK s \in Shelf, L \in (SUBSET Layer) \ {{}}, C \in SUBSET Cell :
             Write(r, Reshaping({}, {}, {s} \cup L \cup C, {}, NoSeen))
      BY <2>2 DEF CreateShelf
    <3>2. {s} \cup L \cup C \in SUBSET Node
      BY DEF Node, Map!Node
    <3>3. QED
      BY <3>1, <3>2
  <2>3. QED
    BY <2>1, <2>2
<1>2. pc[r] = "lock"
  BY DEF CreateRoom, CreateShelf, Locked
<1>3. S \in SUBSET Resource
  BY DEF Node, Resource, Map!Node, Map!Resource
<1>4. IsDraft(Reshaping({}, {}, S, {}, NoSeen)) /\ DraftOK(r, Reshaping({}, {}, S, {}, NoSeen))
  <2>1. DOMAIN NoSeen = {}
    BY DEF NoSeen
  <2>2. QED
    BY <1>3, <2>1, ReshapingOK
<1>5. QED
  BY <1>1, <1>2, <1>4, WritePreserves

\* put_layout archives only below its shelf and only what nobody stands in.
LEMMA PutLayoutPreserves ==
    ASSUME IInv, NEW r \in Request, PutLayout(r) PROVE IInv'
<1> DEFINE o == op[r]
           bump == {o.shelf} \cup Archived(o) \cup Restored(o) \cup Flagged(o, "edit")
           d(L, C) == Reshaping(Archived(o), Restored(o), L \cup C, bump, o.seen)
<1>1. Locked(r, "layout") /\ Unoccupied(o)
  BY DEF PutLayout
<1>2. PICK L \in SUBSET Layer, C \in SUBSET Cell : Write(r, d(L, C))
  BY DEF PutLayout
<1>3. /\ OpOK(o) /\ pc[r] = "lock" /\ o.kind = "layout"
      /\ NeedOK(o, {x \in Resource : lock[x] = r})
  BY <1>1, AtWork
<1>4. /\ o.shelf \in Shelf /\ lock[o.shelf] = r
      /\ DOMAIN o.flags \subseteq Below(o.shelf)
      /\ o.given \subseteq {l \in Layer : ShelfOf[l] = o.shelf}
      /\ DOMAIN o.seen \subseteq Resource /\ \A x \in DOMAIN o.seen : o.seen[x] \in Nat
  BY <1>3 DEF OpOK, NeedOK
<1>5. \A f : Flagged(o, f) \subseteq Below(o.shelf)
  BY <1>4 DEF Flagged
<1>6. Listed(o) \subseteq Below(o.shelf)
  BY <1>4 DEF Listed, LayersOf, CellsOf, Below
<1>7. Archived(o) \subseteq Below(o.shelf) /\ Restored(o) \subseteq Below(o.shelf)
  BY <1>5, <1>6 DEF Archived, Restored
<1>8. \A n \in Below(o.shelf) : n \in Node /\ n \in Resource /\ Guard(n) = o.shelf
  BY Ids DEF Below, Guard, Node, Resource, Map!Node, Map!Resource
<1>9. \A n \in Archived(o) : lock[Guard(n)] = r /\ ~Map!Occupied(n)
  BY <1>1, <1>4, <1>7, <1>8 DEF Unoccupied
<1>10. /\ Archived(o) \in SUBSET Node /\ Restored(o) \in SUBSET Node
       /\ bump \in SUBSET Resource /\ L \cup C \in SUBSET Resource
  BY <1>4, <1>5, <1>7, <1>8 DEF Resource, Map!Resource, Map!Node
<1>11. IsDraft(d(L, C)) /\ DraftOK(r, d(L, C))
  <2> HIDE DEF bump
  <2>1. QED
    BY <1>4, <1>9, <1>10, ReshapingOK
<1>12. QED
  BY <1>2, <1>3, <1>11, WritePreserves

-----------------------------------------------------------------------------
(* Commits, and what the catalogue does to copies.                          *)

\* A commit keeps every placement sound and breaks nothing other drafts rely on: two
\* drafts that touch one chain would both hold its shelf or its room.
LEMMA CommitPreserves ==
    ASSUME IInv, NEW r \in Request, Commit(r) PROVE IInv'
<1> USE DEF InFlight
<1> DEFINE d == draft[r]
<1>1. pc[r] = "write" /\ IsDraft(d) /\ DraftOK(r, d)
  BY DEF Commit, IInv, TypeInv, TypeOK, WriteInv
<1>2. \A q \in Request : /\ pc'[q] = (IF q = r THEN "ended" ELSE pc[q])
                         /\ op'[q] = (IF q = r THEN None ELSE op[q])
                         /\ need'[q] = (IF q = r THEN {} ELSE need[q])
                         /\ draft'[q] = (IF q = r THEN NoDraft ELSE draft[q])
  BY DEF Commit, Close, IInv, TypeInv, TypeOK
<1>3. \A y \in Resource : lock'[y] = (IF lock[y] = r THEN None ELSE lock[y])
  BY DEF Commit, Close
<1>4. \A x \in Resource : life'[x] = (IF x \in d.create \cup d.restore THEN "active"
                                      ELSE IF x \in d.archive THEN "archived" ELSE life[x])
  BY DEF Commit
<1>5. \A c \in Copy : place'[c] = (IF c \in DOMAIN d.put THEN d.put[c] ELSE place[c])
  BY DEF Commit
<1>6. \A x \in Resource : life[x] = "active" /\ x \notin d.archive => life'[x] = "active"
  BY <1>4
<1>7. \A c \in Copy : c \in Resource /\ c \notin d.archive /\ c \notin d.restore
  BY <1>1, Ids DEF IsDraft, Resource, Map!Resource
<1>8. IsDraft(NoDraft)
  BY DEF IsDraft, NoDraft, Reshaping, NoSeen
<1>9. TypeOK'
  <2>1. DOMAIN draft' = Request /\ \A q \in Request : IsDraft(draft'[q])
    BY <1>2, <1>8 DEF Commit, Close, IInv, TypeInv, TypeOK
  <2>2. (\A q \in Request : IsDraft(draft[q]))'
    BY <2>1 DEF IsDraft
  <2>3. \A q \in Request : Held(q)' \subseteq need'[q]
    BY <1>2, <1>3, Ids DEF IInv, TypeInv, TypeOK, Held
  <2>4. life' \in [Resource -> {"unborn", "active", "archived", "deleted"}]
    BY DEF Commit, IInv, TypeInv, TypeOK
  <2>5. place' \in [Copy -> Place \cup {None}]
    BY <1>1, <1>5 DEF Commit, IInv, TypeInv, TypeOK, IsDraft
  <2>6. version' \in [Resource -> Nat]
    BY DEF Commit, IInv, TypeInv, TypeOK
  <2>7. lock' \in [Resource -> Request \cup {None}]
    BY DEF Commit, Close, IInv, TypeInv, TypeOK
  <2>8. /\ pc' \in [Request -> InFlight \cup {"idle", "ended"}]
        /\ need' \in [Request -> SUBSET Resource]
    BY DEF Commit, Close, IInv, TypeInv, TypeOK
  <2>9. QED
    BY <2>1, <2>2, <2>3, <2>4, <2>5, <2>6, <2>7, <2>8 DEF TypeOK
<1>10. TypeInv'
  <2>1. \A q \in Request :
         /\ pc'[q] \in InFlight => OpOK(op[q])'
         /\ pc'[q] = "lock" => NeedOK(op[q], need[q])'
    BY <1>2 DEF IInv, TypeInv, OpOK, NeedOK, Targets
  <2>2. \A q \in Request : pc'[q] \in {"idle", "collect", "ended"} => Held(q)' = {}
    BY <1>2, <1>3, Ids DEF IInv, TypeInv, Held
  <2>3. DOMAIN op' = Request
    BY DEF Commit, Close, IInv, TypeInv
  <2>4. \A c \in Copy : life'[c] # "archived"
    BY <1>4, <1>7 DEF IInv, TypeInv
  <2>5. \A x \in Resource : lock'[x] # None => Exists(x)'
    BY <1>3, <1>4 DEF IInv, TypeInv, Exists
  <2>6. QED
    BY <1>9, <2>1, <2>2, <2>3, <2>4, <2>5 DEF TypeInv
<1>11. \A p \in Place : Map!Open(p) /\ (\A n \in d.archive : ~Map!Within(p, n)) => Map!Open(p)'
  <2> SUFFICES ASSUME NEW p \in Place, Map!Open(p), \A n \in d.archive : ~Map!Within(p, n)
               PROVE  Map!Open(p)'
    OBVIOUS
  <2>1. p.shelf \in Resource /\ RoomOf[p.shelf] \in Resource
    BY Ids DEF Resource, Map!Resource, Map!Node
  <2>2. p.cell # None => p.cell \in Resource /\ LayerOf[p.cell] \in Resource
    BY Ids DEF Resource, Map!Resource, Map!Node
  <2>3. QED
    BY <1>6, <2>1, <2>2 DEF Map!Open, Map!Within
<1>12. PlacementSound'
  <2> SUFFICES ASSUME NEW c \in Copy, place'[c] # None
               PROVE  life'[c] = "active" /\ Map!Open(place[c])'
    BY DEF PlacementSound, Map!Placed
  <2>1. CASE c \in DOMAIN d.put
    <3>1. PICK p \in Place : place'[c] = p /\ d.put[c] = p /\ p # None
      BY <1>1, <1>5, <2>1 DEF IsDraft
    <3>2. life'[c] = "active"
      BY <1>1, <1>4, <1>7, <2>1 DEF DraftOK
    <3>3. Map!Open(p) /\ d.archive = {}
      BY <1>1, <2>1, <3>1 DEF DraftOK
    <3>4. Map!Open(p)'
      BY <1>11, <3>3
    <3>5. QED
      BY <3>1, <3>2, <3>4 DEF Map!Open
  <2>2. CASE c \notin DOMAIN d.put
    <3>1. place'[c] = place[c] /\ place[c] \in Place
      BY <1>5, <2>2 DEF IInv, TypeInv, TypeOK
    <3>2. life[c] = "active" /\ Map!Open(place[c])
      BY <3>1 DEF IInv, PlacementSound, Map!Placed
    <3>3. life'[c] = "active"
      BY <1>6, <1>7, <3>2
    <3>4. \A n \in d.archive : ~Map!Within(place[c], n)
      BY <1>1, <3>1 DEF DraftOK, Map!Occupied
    <3>5. QED
      BY <1>11, <3>1, <3>2, <3>3, <3>4 DEF Map!Open
  <2>3. QED
    BY <2>1, <2>2
<1>13. ASSUME NEW q \in Request, pc'[q] = "write" PROVE WriteInv(q)'
  <2> DEFINE e == draft[q]
  <2>1. /\ q # r /\ pc[q] = "write" /\ draft'[q] = e
        /\ IsDraft(e) /\ DraftOK(q, e)
    BY <1>2, <1>13 DEF IInv, TypeInv, TypeOK, WriteInv
  <2>2. \A x \in Resource : lock[x] = q => lock'[x] = q
    BY <1>3, <2>1
  <2>3. ASSUME NEW p \in Place, Map!Open(p), lock[p.shelf] = q, lock[RoomOf[p.shelf]] = q
        PROVE  Map!Open(p)'
    <3>1. \A n \in d.archive : ~Map!Within(p, n)
      BY <1>1, <2>1, <2>3, GuardOfChain DEF DraftOK
    <3>2. QED
      BY <1>11, <2>3, <3>1
  <2>4. ASSUME NEW c \in DOMAIN e.put
        PROVE  /\ c \in e.create \/ (life'[c] = "active" /\ lock'[c] = q)
               /\ e.put[c] # None =>
                     /\ Map!Open(e.put[c])'
                     /\ lock'[e.put[c].shelf] = q
                     /\ lock'[RoomOf[e.put[c].shelf]] = q
                     /\ e.archive = {}
    <3>1. c \in Copy /\ e.put[c] \in Place \cup {None}
      BY <2>1 DEF IsDraft
    <3>2. c \in e.create \/ (life'[c] = "active" /\ lock'[c] = q)
      BY <1>6, <1>7, <2>1, <2>2, <3>1 DEF DraftOK
    <3>3. CASE e.put[c] # None
      <4>1. e.put[c] \in Place
        BY <3>1, <3>3
      <4>2. /\ Map!Open(e.put[c]) /\ e.archive = {}
            /\ lock[e.put[c].shelf] = q /\ lock[RoomOf[e.put[c].shelf]] = q
        BY <2>1, <3>3 DEF DraftOK
      <4>3. Map!Open(e.put[c])'
        BY <2>1, <2>3, <4>1, <4>2 DEF Map!Open
      <4>4. lock'[e.put[c].shelf] = q /\ lock'[RoomOf[e.put[c].shelf]] = q
        BY <2>2, <4>1, <4>2, Ids DEF Resource, Map!Resource, Map!Node
      <4>5. QED
        BY <3>2, <4>2, <4>3, <4>4
    <3>4. QED
      BY <3>2, <3>3
  <2>5. ASSUME NEW n \in e.archive
        PROVE  lock'[Guard(n)] = q /\ ~Map!Occupied(n)'
    <3>1. n \in Node /\ lock[Guard(n)] = q /\ ~Map!Occupied(n)
      BY <2>1 DEF IsDraft, DraftOK
    <3>2. Guard(n) \in Resource
      BY <3>1, Ids DEF Guard, Node, Resource, Map!Node, Map!Resource
    <3>3. ASSUME NEW c \in Copy, place'[c] # None, Map!Within(place'[c], n)
          PROVE  FALSE
      <4>1. CASE c \notin DOMAIN d.put
        BY <1>5, <3>1, <3>3, <4>1 DEF Map!Occupied
      <4>2. CASE c \in DOMAIN d.put
        <5>1. place'[c] = d.put[c] /\ d.put[c] \in Place
          BY <1>1, <1>5, <3>3, <4>2 DEF IsDraft
        <5>2. /\ Map!Open(d.put[c])
              /\ lock[d.put[c].shelf] = r /\ lock[RoomOf[d.put[c].shelf]] = r
          BY <1>1, <4>2, <3>3, <5>1 DEF DraftOK
        <5>3. Map!Within(d.put[c], n)
          BY <3>3, <5>1
        <5>4. Guard(n) \in {d.put[c].shelf, RoomOf[d.put[c].shelf]}
          BY <5>1, <5>2, <5>3, GuardOfChain
        <5>5. QED
          BY <2>1, <3>1, <5>2, <5>4
      <4>3. QED
        BY <4>1, <4>2
    <3>4. QED
      BY <2>2, <3>1, <3>2, <3>3 DEF Map!Occupied, Map!Within
  <2>6. QED
    BY <2>1, <2>4, <2>5 DEF WriteInv, DraftOK, Map!Open, Map!Occupied, Map!Within
<1>14. QED
  BY <1>10, <1>12, <1>13 DEF IInv

\* The catalogue changes no node, and no copy that a transaction has locked or placed.
LEMMA CataloguePreserves ==
    ASSUME IInv, CreateCopy \/ DeleteCopy PROVE IInv'
<1> USE DEF InFlight
<1>1. /\ UNCHANGED <<version, lock, pc, op, need, draft>>
      /\ \E c \in Copy :
            \/ /\ life[c] = "unborn" /\ life' = [life EXCEPT ![c] = "active"]
               /\ UNCHANGED place
            \/ /\ lock[c] = None /\ life' = [life EXCEPT ![c] = "deleted"]
               /\ place' = [place EXCEPT ![c] = None]
  BY DEF CreateCopy, DeleteCopy, Fresh, Copies
<1>2. PICK c \in Copy :
         /\ \/ life[c] = "unborn" /\ life' = [life EXCEPT ![c] = "active"]
            \/ lock[c] = None /\ life' = [life EXCEPT ![c] = "deleted"]
         /\ \/ UNCHANGED place /\ life'[c] = "active"
            \/ place' = [place EXCEPT ![c] = None]
  <2>1. Copy \subseteq Resource
    BY DEF Resource, Map!Resource
  <2>2. QED
    BY <1>1, <2>1 DEF IInv, TypeInv, TypeOK
<1>3. /\ \A n \in Node : n \in Resource /\ life'[n] = life[n]
      /\ c \in Resource /\ \A x \in Resource \ {c} : life'[x] = life[x]
      /\ life'[c] \in {"active", "deleted"}
      /\ lock[c] # None => life'[c] = "active"
      /\ place'[c] # None => life'[c] = "active"
      /\ \A y \in Copy : place'[y] # None => place'[y] = place[y]
  BY <1>2, Ids DEF IInv, TypeInv, TypeOK, Resource, Map!Resource, Node, Map!Node
<1>4. \A p \in Place : Map!Open(p)' <=> Map!Open(p)
  BY <1>3, Ids DEF Map!Open, Node, Map!Node
<1>5. TypeInv'
  <2>1. TypeOK'
    <3>1. (\A q \in Request : IsDraft(draft[q]))'
      BY <1>1 DEF IInv, TypeInv, TypeOK, IsDraft
    <3>2. QED
      BY <1>1, <1>2, <1>3, <3>1 DEF IInv, TypeInv, TypeOK, Held
  <2>2. \A q \in Request :
         /\ pc'[q] \in InFlight => OpOK(op[q])'
         /\ pc'[q] = "lock" => NeedOK(op[q], need[q])'
         /\ pc'[q] \in {"idle", "collect", "ended"} => Held(q)' = {}
    BY <1>1 DEF IInv, TypeInv, OpOK, NeedOK, Targets, Held
  <2>3. (\A y \in Copy : life[y] # "archived")' /\ (\A x \in Resource : lock[x] # None => Exists(x))'
    BY <1>1, <1>3 DEF IInv, TypeInv, Exists, Resource, Map!Resource
  <2>4. QED
    BY <1>1, <2>1, <2>2, <2>3 DEF IInv, TypeInv
<1>6. PlacementSound'
  <2> SUFFICES ASSUME NEW y \in Copy, place'[y] # None
               PROVE  life'[y] = "active" /\ Map!Open(place[y])'
    BY DEF PlacementSound, Map!Placed
  <2>1. PICK p \in Place : place'[y] = p /\ place[y] = p
    BY <1>3 DEF IInv, TypeInv, TypeOK
  <2>2. life[y] = "active" /\ Map!Open(p)
    BY <2>1, <1>3 DEF IInv, PlacementSound, Map!Placed
  <2>3. life'[y] = "active"
    BY <1>3, <2>2 DEF Resource, Map!Resource
  <2>4. QED
    BY <1>4, <2>1, <2>2, <2>3 DEF Map!Open
<1>7. ASSUME NEW q \in Request, pc'[q] = "write" PROVE WriteInv(q)'
  <2> DEFINE e == draft[q]
  <2>1. pc[q] = "write" /\ draft'[q] = e /\ IsDraft(e) /\ DraftOK(q, e)
    BY <1>1, <1>7 DEF IInv, TypeInv, TypeOK, WriteInv
  <2>2. \A y \in DOMAIN e.put :
           /\ y \in e.create \/ (life'[y] = "active" /\ lock'[y] = q)
           /\ e.put[y] # None =>
                 /\ Map!Open(e.put[y])'
                 /\ lock'[e.put[y].shelf] = q
                 /\ lock'[RoomOf[e.put[y].shelf]] = q
                 /\ e.archive = {}
    <3> SUFFICES ASSUME NEW y \in DOMAIN e.put
                 PROVE  /\ y \in e.create \/ (life'[y] = "active" /\ lock'[y] = q)
                        /\ e.put[y] # None =>
                              /\ Map!Open(e.put[y])'
                              /\ lock'[e.put[y].shelf] = q
                              /\ lock'[RoomOf[e.put[y].shelf]] = q
                              /\ e.archive = {}
      OBVIOUS
    <3>1. y \in Copy /\ e.put[y] \in Place \cup {None}
      BY <2>1 DEF IsDraft
    <3>2. y \in e.create \/ (life'[y] = "active" /\ lock'[y] = q)
      BY <1>1, <1>3, <2>1, <3>1, Ids DEF DraftOK, Resource, Map!Resource
    <3>3. e.put[y] # None => Map!Open(e.put[y])'
      BY <1>4, <2>1, <3>1 DEF DraftOK, Map!Open
    <3>4. QED
      BY <1>1, <2>1, <3>2, <3>3 DEF DraftOK
  <2>3. \A n \in e.archive : lock'[Guard(n)] = q /\ ~Map!Occupied(n)'
    BY <1>1, <1>3, <2>1 DEF DraftOK, Map!Occupied, Map!Within
  <2>4. QED
    BY <2>1, <2>2, <2>3 DEF WriteInv, DraftOK, Map!Open, Map!Occupied, Map!Within
<1>8. QED
  BY <1>5, <1>6, <1>7 DEF IInv

-----------------------------------------------------------------------------
\* The invariant holds at the start and every step keeps it.
LEMMA InductiveInvariant == Spec => []IInv
<1>1. Init => IInv
  <2> SUFFICES ASSUME Init PROVE IInv
    OBVIOUS
  <2>1. IsDraft(NoDraft)
    BY DEF IsDraft, NoDraft, Reshaping, NoSeen
  <2>2. \A r \in Request : Held(r) = {}
    BY Ids DEF Init, Held
  <2>3. TypeOK
    <3>1. /\ life \in [Resource -> {"unborn", "active", "archived", "deleted"}]
          /\ version \in [Resource -> Nat]
          /\ lock \in [Resource -> Request \cup {None}]
          /\ need \in [Request -> SUBSET Resource]
      BY DEF Init
    <3>2. pc \in [Request -> InFlight \cup {"idle", "ended"}]
      BY DEF Init
    <3>3. DOMAIN draft = Request /\ \A r \in Request : IsDraft(draft[r])
      BY <2>1 DEF Init
    <3>4. place \in [Copy -> Place \cup {None}]
      BY DEF Init
    <3>5. QED
      BY <2>2, <3>1, <3>2, <3>3, <3>4 DEF TypeOK
  <2>4. \A c \in Copy : life[c] # "archived"
    BY DEF Init, Resource, Map!Resource
  <2>5. \A r \in Request : pc[r] = "idle"
    BY DEF Init
  <2>6. TypeInv
    BY <2>2, <2>3, <2>4, <2>5 DEF Init, TypeInv, InFlight
  <2>7. PlacementSound
    BY DEF Init, PlacementSound, Map!Placed, Resource, Map!Resource
  <2>8. QED
    BY <2>5, <2>6, <2>7 DEF IInv
<1>2. IInv /\ [Next]_vars => IInv'
  <2> SUFFICES ASSUME IInv, [Next]_vars PROVE IInv'
    OBVIOUS
  <2>1. ASSUME NEW r \in Request, Handle(r) PROVE IInv'
    BY <2>1, SetPlacementPreserves, ExecuteMovePreserves, CommitIntakePreserves,
       UpdatePreserves, CreatePreserves, PutLayoutPreserves DEF Handle
  <2>2. ASSUME NEW r \in Request, Issue(r) \/ Step(r) \/ Abort(r) PROVE IInv'
    BY <2>1, <2>2, IssuePreserves, CollectPreserves, AcquirePreserves, RollBackPreserves,
       CommitPreserves DEF Step, Abort, NotFound, Refuse
  <2>3. CASE UNCHANGED vars
    <3>1. TypeInv'
      BY <2>3 DEF vars, IInv, TypeInv, TypeOK, IsDraft, OpOK, NeedOK, Targets, Held, Exists
    <3>2. PlacementSound'
      BY <2>3 DEF vars, IInv, PlacementSound, Map!Placed, Map!Open
    <3>3. \A r \in Request : pc'[r] = "write" => WriteInv(r)'
      BY <2>3, DraftStable DEF vars
    <3>4. QED
      BY <3>1, <3>2, <3>3 DEF IInv
  <2>4. QED
    BY <2>2, <2>3, CataloguePreserves DEF Next
<1>3. QED
  BY <1>1, <1>2, PTL DEF Spec

\* Every variable keeps its type, for any house and any number of requests.
THEOREM TypeCorrect == Spec => []TypeOK
<1>1. IInv => TypeOK
  BY DEF IInv, TypeInv
<1>2. QED
  BY <1>1, InductiveInvariant, PTL

\* Wherever a copy stands its whole chain is in use: archiving and placing never cross,
\* whatever transactions run at once.
THEOREM PlacementsAreSound == Spec => []PlacementSound
<1>1. IInv => PlacementSound
  BY DEF IInv
<1>2. QED
  BY <1>1, InductiveInvariant, PTL
=============================================================================

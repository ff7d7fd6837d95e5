----------------------- MODULE StorageRefinement_proofs -----------------------
(***************************************************************************)
(* What Storage owes to its locks, for every house and every set of        *)
(* requests: an operation writes what it checked (RelianceHolds), seen     *)
(* from outside it is one step of ShelfMap, no transactions wait for each  *)
(* other in a circle, and in a finite house somebody can always go on and  *)
(* nobody does for ever.                                                   *)
(*                                                                         *)
(* On top of IInv of Storage_proofs, Reliance follows one request from the *)
(* moment it is formed: what it names exists and goes on existing, the     *)
(* rows it collects hold every row it quotes (a layout whose shelf has not *)
(* changed collected the whole shelf), it locks them in ascending order,   *)
(* and a draft touches only rows it has locked or that it creates.         *)
(***************************************************************************)
EXTENDS Storage_proofs, WellFoundedInduction

\* The rows whose versions a client quotes.
Quoted(o) == IF o.kind \in {"createRoom", "createShelf"} THEN {} ELSE DOMAIN o.seen

\* What a request names was there when it was formed.
AskedOK(o) ==
    /\ o.kind \in {"set", "intake"} => DOMAIN o.seen \subseteq DOMAIN o.put
    /\ o.kind = "move" =>
          /\ DOMAIN o.put # {}
          /\ DOMAIN o.seen \subseteq DOMAIN o.put \cup TargetRows(o.target)
    /\ o.kind \in {"room", "shelf"} => DOMAIN o.seen \subseteq {o.node}
    /\ o.kind = "layout" =>
          /\ Exists(o.shelf)
          /\ DOMAIN o.flags \cup o.given \subseteq Unders(o.shelf)
          /\ \A c \in Cell \cap DOMAIN o.flags : LayerOf[c] \in o.given
          /\ o.shelf \in DOMAIN o.seen
          /\ DOMAIN o.seen \subseteq {o.shelf} \cup DOMAIN o.flags
          /\ o.seen[o.shelf] <= version[o.shelf]

\* The rows N that were collected are enough.
ReadyOK(o, N) ==
    /\ Quoted(o) \subseteq N
    /\ o.kind = "shelf" => RoomOf[o.node] \in N
    /\ o.kind = "createShelf" => o.room \in N
    /\ o.kind = "layout" /\ version[o.shelf] = o.seen[o.shelf] => Unders(o.shelf) \subseteq N

\* A draft of r changes rows r holds, creates rows nobody can see, and gives every node
\* that comes into use a parent in use.
KeptOK(r, d) ==
    /\ DOMAIN d.expect \cup d.bump \subseteq Held(r)
    /\ \A x \in DOMAIN d.expect : version[x] = d.expect[x]
    /\ d.archive \cup d.restore \subseteq d.bump
    /\ \A x \in d.create : life[x] = "unborn"
    /\ \A s \in Shelf : d.create \cap Below(s) # {} => s \in d.bump \cup d.create
    /\ \A n \in (d.create \cup d.restore) \cap (Node \ Room) :
          \/ Map!Parent(n) \in d.create \cup d.restore
          \/ Map!Parent(n) \in Held(r) \ d.archive /\ life[Map!Parent(n)] = "active"
    /\ \/ DOMAIN d.put = {} /\ d.create \subseteq Node
       \/ d.archive = {} /\ d.restore = {} /\ d.create \subseteq Copy

Reliance(r) ==
    /\ pc[r] \in InFlight => AskedOK(op[r])
    /\ pc[r] = "lock" => /\ ReadyOK(op[r], need[r])
                         /\ \A x \in Held(r), y \in Missing(r) : x < y
    /\ pc[r] = "write" => KeptOK(r, draft[r])
    /\ pc[r] = "write" /\ op[r].kind = "layout" =>
          {op[r].shelf} \cup Unders(op[r].shelf) \subseteq Held(r)

RInv ==
    /\ \A r \in Request : Reliance(r)
    /\ \A q, r \in Request : q # r => draft[q].create \cap draft[r].create = {}

-----------------------------------------------------------------------------
\* Rows under a shelf are layers and cells of it, and stay there while they exist.
LEMMA UndersBelow == \A s : Unders(s) \subseteq Below(s)
  BY Ids DEF Unders, LayersOf, CellsOf, Below

LEMMA UndersGrow ==
    ASSUME NEW s, \A n \in Node : Exists(n) => Exists(n)'
    PROVE  Unders(s) \subseteq Unders(s)'
<1>1. Layer \subseteq Node /\ Cell \subseteq Node
  BY DEF Node, Map!Node
<1>2. LayersOf(s) \subseteq LayersOf(s)' /\ \A l : CellsOf(l) \subseteq CellsOf(l)'
  BY <1>1 DEF LayersOf, CellsOf
<1>3. QED
  BY <1>2 DEF Unders

\* What a step of others has to leave alone for the request q to go on as it was.
Undisturbed(q) ==
    /\ pc'[q] = pc[q] /\ op'[q] = op[q] /\ need'[q] = need[q] /\ draft'[q] = draft[q]
    /\ Held(q)' = Held(q)
    /\ \A n \in Node : Exists(n) => Exists(n)'
    /\ \A x \in Resource : version[x] <= version'[x]
    /\ \A x \in Held(q) : version'[x] = version[x] /\ life'[x] = life[x]
    /\ pc[q] = "write" => \A x \in draft[q].create : life'[x] = life[x]
    /\ \A s \in Shelf : Exists(s) /\ version'[s] = version[s] => Unders(s)' \subseteq Unders(s)

LEMMA UndisturbedKeeps ==
    ASSUME IInv, IInv', NEW q \in Request, Reliance(q), Undisturbed(q)
    PROVE  Reliance(q)'
<1> USE DEF InFlight
<1> DEFINE o == op[q]
<1>1. version \in [Resource -> Nat] /\ version' \in [Resource -> Nat]
  BY DEF IInv, TypeInv, TypeOK
<1>2. pc[q] \in InFlight => OpOK(o) /\ AskedOK(o)
  BY DEF IInv, TypeInv, Reliance
<1>3. Shelf \subseteq Resource /\ Shelf \subseteq Node
  BY DEF Resource, Node, Map!Resource, Map!Node
<1>4. ASSUME pc[q] \in InFlight PROVE AskedOK(op[q])'
  <2>1. CASE o.kind = "layout"
    <3>1. o.shelf \in Shelf /\ Exists(o.shelf)
      BY <1>2, <1>4, <2>1 DEF OpOK, AskedOK
    <3>2. Exists(o.shelf)' /\ Unders(o.shelf) \subseteq Unders(o.shelf)'
      BY <1>3, <3>1, UndersGrow DEF Undisturbed
    <3>3. o.shelf \in DOMAIN o.seen /\ o.seen[o.shelf] \in Nat
      BY <1>2, <1>4, <2>1 DEF OpOK, AskedOK
    <3>4. o.seen[o.shelf] <= version'[o.shelf]
      <4>1. /\ o.seen[o.shelf] <= version[o.shelf] /\ version[o.shelf] <= version'[o.shelf]
            /\ version[o.shelf] \in Nat /\ version'[o.shelf] \in Nat
        BY <1>1, <1>2, <1>3, <1>4, <2>1, <3>1 DEF AskedOK, Undisturbed
      <4>2. QED
        BY <3>3, <4>1
    <3>5. /\ DOMAIN o.flags \cup o.given \subseteq Unders(o.shelf)
          /\ \A c \in Cell \cap DOMAIN o.flags : LayerOf[c] \in o.given
          /\ DOMAIN o.seen \subseteq {o.shelf} \cup DOMAIN o.flags
      BY <1>2, <1>4, <2>1 DEF AskedOK
    <3>6. DOMAIN o.flags \cup o.given \subseteq Unders(o.shelf)'
      BY <3>2, <3>5
    <3>7. op'[q] = o
      BY DEF Undisturbed
    <3>8. QED
      BY <2>1, <3>2, <3>3, <3>4, <3>5, <3>6, <3>7 DEF AskedOK, Exists, Unders, LayersOf, CellsOf
  <2>2. CASE o.kind # "layout"
    BY <1>2, <1>4, <2>2 DEF AskedOK, Undisturbed, TargetRows
  <2>3. QED
    BY <2>1, <2>2
<1>5. ASSUME pc[q] = "lock"
      PROVE  ReadyOK(op[q], need[q])' /\ (\A x \in Held(q), y \in Missing(q) : x < y)'
  <2>1. ReadyOK(o, need[q]) /\ \A x \in Held(q), y \in Missing(q) : x < y
    BY <1>5 DEF Reliance
  <2>2. ASSUME o.kind = "layout", version'[o.shelf] = o.seen[o.shelf]
        PROVE  Unders(o.shelf)' \subseteq need[q]
    <3>1. /\ o.shelf \in Shelf /\ o.shelf \in Resource /\ Exists(o.shelf)
          /\ o.seen[o.shelf] \in Nat /\ o.seen[o.shelf] <= version[o.shelf]
      BY <1>2, <1>3, <1>5, <2>2 DEF OpOK, AskedOK
    <3>2. version[o.shelf] <= version'[o.shelf]
      BY <3>1 DEF Undisturbed
    <3>3. version[o.shelf] \in Nat /\ version'[o.shelf] \in Nat
      BY <1>1, <3>1
    <3>4. version[o.shelf] = o.seen[o.shelf]
      BY <2>2, <3>1, <3>2, <3>3
    <3>5. Unders(o.shelf) \subseteq need[q]
      BY <2>1, <2>2, <3>4 DEF ReadyOK
    <3>6. Unders(o.shelf)' \subseteq Unders(o.shelf)
      BY <2>2, <3>1, <3>4 DEF Undisturbed
    <3>7. QED
      BY <3>5, <3>6
  <2>3. /\ Quoted(o) \subseteq need[q]
        /\ o.kind = "shelf" => RoomOf[o.node] \in need[q]
        /\ o.kind = "createShelf" => o.room \in need[q]
    BY <2>1 DEF ReadyOK
  <2>4. op'[q] = o /\ need'[q] = need[q] /\ Missing(q)' = Missing(q) /\ Held(q)' = Held(q)
    BY DEF Undisturbed, Missing
  <2>5. ReadyOK(op[q], need[q])'
    BY <2>2, <2>3, <2>4 DEF ReadyOK, Quoted, Unders, LayersOf, CellsOf, Exists
  <2>6. QED
    BY <2>1, <2>4, <2>5
<1>6. ASSUME pc[q] = "write" PROVE KeptOK(q, draft[q])'
  <2> DEFINE d == draft[q]
  <2>1. KeptOK(q, d) /\ draft'[q] = d
    BY <1>6 DEF Reliance, Undisturbed
  <2>2. /\ DOMAIN d.expect \cup d.bump \subseteq Held(q)'
        /\ \A x \in DOMAIN d.expect : version'[x] = d.expect[x]
        /\ \A x \in d.create : life'[x] = "unborn"
        /\ \A n \in (d.create \cup d.restore) \cap (Node \ Room) :
              \/ Map!Parent(n) \in d.create \cup d.restore
              \/ Map!Parent(n) \in Held(q)' \ d.archive /\ life'[Map!Parent(n)] = "active"
    BY <1>6, <2>1 DEF KeptOK, Undisturbed
  <2>3. /\ d.archive \cup d.restore \subseteq d.bump
        /\ \A s \in Shelf : d.create \cap Below(s) # {} => s \in d.bump \cup d.create
        /\ \/ DOMAIN d.put = {} /\ d.create \subseteq Node
           \/ d.archive = {} /\ d.restore = {} /\ d.create \subseteq Copy
    BY <2>1 DEF KeptOK
  <2>4. QED
    BY <2>1, <2>2, <2>3 DEF KeptOK
<1>7. ASSUME pc[q] = "write", o.kind = "layout"
      PROVE  {o.shelf} \cup Unders(o.shelf)' \subseteq Held(q)'
  <2>1. {o.shelf} \cup Unders(o.shelf) \subseteq Held(q) /\ o.shelf \in Shelf /\ Exists(o.shelf)
    BY <1>2, <1>7 DEF Reliance, OpOK, AskedOK
  <2>2. version'[o.shelf] = version[o.shelf]
    BY <2>1 DEF Undisturbed
  <2>3. Unders(o.shelf)' \subseteq Unders(o.shelf)
    BY <2>1, <2>2 DEF Undisturbed
  <2>4. QED
    BY <2>1, <2>3 DEF Undisturbed
<1>8. pc'[q] = pc[q] /\ op'[q] = o
  BY DEF Undisturbed
<1>9. QED
  BY <1>4, <1>5, <1>6, <1>7, <1>8 DEF Reliance, Unders, LayersOf, CellsOf, Exists

\* A step that changes no row, and nothing of q's, leaves q undisturbed.
LEMMA QuietStep ==
    ASSUME IInv, NEW q \in Request, UNCHANGED <<life, version>>,
           pc'[q] = pc[q], op'[q] = op[q], need'[q] = need[q], draft'[q] = draft[q],
           Held(q)' = Held(q)
    PROVE  Undisturbed(q)
<1>1. \A x \in Resource : version[x] <= version'[x]
  BY DEF IInv, TypeInv, TypeOK
<1>2. \A s \in Shelf : Unders(s)' = Unders(s)
  BY DEF Unders, LayersOf, CellsOf, Exists
<1>3. \A n \in Node : Exists(n) => Exists(n)'
  BY DEF Exists
<1>4. QED
  BY <1>1, <1>2, <1>3 DEF Undisturbed

\* When a step of r leaves the others undisturbed, only r itself is left to look at.
LEMMA StepOfOne ==
    ASSUME IInv, IInv', RInv, NEW r \in Request,
           \A q \in Request \ {r} : Undisturbed(q),
           Reliance(r)',
           \A q \in Request \ {r} : draft'[r].create \cap draft[q].create = {}
    PROVE  RInv'
<1>1. \A q \in Request : Reliance(q)'
  BY UndisturbedKeeps DEF RInv
<1>2. ASSUME NEW p \in Request, NEW q \in Request, p # q
      PROVE  draft'[p].create \cap draft'[q].create = {}
  <2>1. p # r => draft'[p] = draft[p]
    BY DEF Undisturbed
  <2>2. q # r => draft'[q] = draft[q]
    BY DEF Undisturbed
  <2>3. QED
    BY <1>2, <2>1, <2>2 DEF RInv
<1>3. QED
  BY <1>1, <1>2 DEF RInv

-----------------------------------------------------------------------------
\* What a client asks for names what is there.
LEMMA AskedIsThere ==
    ASSUME IInv, NEW r \in Request, Issue(r)
    PROVE  \E o : Ask(r, o) /\ AskedOK(o)
<1>a. \A S : DOMAIN Seen(S) = S /\ \A x \in S : Seen(S)[x] = version[x]
  BY DEF Seen
<1>1. CASE AskSet(r)
  <2>1. PICK c \in Copies, p \in Place \cup {None} :
           Ask(r, [kind |-> "set", put |-> One(c, p), seen |-> Seen({c})])
    BY <1>1 DEF AskSet
  <2>2. AskedOK([kind |-> "set", put |-> One(c, p), seen |-> Seen({c})])
    BY <1>a DEF AskedOK, One
  <2>3. QED
    BY <2>1, <2>2
<1>2. CASE AskMove(r)
  <2>1. PICK S \in (SUBSET Copies) \ {{}}, p \in Place :
           Ask(r, [kind |-> "move", put |-> [c \in S |-> p],
                   target |-> p, seen |-> Seen(S \cup TargetRows(p))])
    BY <1>2 DEF AskMove
  <2>2. AskedOK([kind |-> "move", put |-> [c \in S |-> p],
                 target |-> p, seen |-> Seen(S \cup TargetRows(p))])
    BY <1>a DEF AskedOK
  <2>3. QED
    BY <2>1, <2>2
<1>3. CASE AskIntake(r)
  <2>1. PICK S \in SUBSET Copies, p \in Place, q \in Place, n \in 0 .. 1 :
           Ask(r, [kind |-> "intake", put |-> [c \in S |-> p], seen |-> Seen(S),
                   count |-> n, at |-> q])
    BY <1>3 DEF AskIntake
  <2>2. AskedOK([kind |-> "intake", put |-> [c \in S |-> p], seen |-> Seen(S),
                 count |-> n, at |-> q])
    BY <1>a DEF AskedOK
  <2>3. QED
    BY <2>1, <2>2
<1>4. CASE AskCreate(r)
  <2>1. AskedOK([kind |-> "createRoom"])
    BY DEF AskedOK
  <2>2. \A n \in Room : AskedOK([kind |-> "createShelf", room |-> n])
    BY DEF AskedOK
  <2>3. QED
    BY <1>4, <2>1, <2>2 DEF AskCreate
<1>5. CASE AskLayout(r)
  <2> DEFINE Req(s, L, C, f, given, grow, extra) ==
               [kind |-> "layout", shelf |-> s, flags |-> f, given |-> given,
                grow |-> grow, extra |-> extra, seen |-> Seen({s} \cup L \cup C)]
  <2>0. PICK s \in Shelf : Exists(s) /\ \E L \in SUBSET LayersOf(s) :
        \E given \in SUBSET L, extra \in 0 .. 1 :
        \E C \in SUBSET UNION {CellsOf(l) : l \in given}, grow \in SUBSET given :
        \E f \in [L \cup C -> Flags] : Ask(r, Req(s, L, C, f, given, grow, extra))
    BY <1>5 DEF AskLayout
  <2>1. PICK L \in SUBSET LayersOf(s) : \E given \in SUBSET L, extra \in 0 .. 1 :
        \E C \in SUBSET UNION {CellsOf(l) : l \in given}, grow \in SUBSET given :
        \E f \in [L \cup C -> Flags] : Ask(r, Req(s, L, C, f, given, grow, extra))
    BY <2>0
  <2>2a. PICK given \in SUBSET L, extra \in 0 .. 1 :
        \E C \in SUBSET UNION {CellsOf(l) : l \in given}, grow \in SUBSET given :
        \E f \in [L \cup C -> Flags] : Ask(r, Req(s, L, C, f, given, grow, extra))
    BY <2>1
  <2>2b. PICK C \in SUBSET UNION {CellsOf(l) : l \in given}, grow \in SUBSET given :
        \E f \in [L \cup C -> Flags] : Ask(r, Req(s, L, C, f, given, grow, extra))
    BY <2>2a
  <2>2. PICK f \in [L \cup C -> Flags] : Ask(r, Req(s, L, C, f, given, grow, extra))
    BY <2>2b
  <2>3. L \cup C \cup given \subseteq Unders(s)
    BY DEF Unders
  <2>4. \A c \in Cell \cap (L \cup C) : LayerOf[c] \in given
    BY Ids DEF LayersOf, CellsOf
  <2>5. s \in Resource /\ version[s] \in Nat
    BY DEF Resource, Map!Resource, Map!Node, IInv, TypeInv, TypeOK
  <2>6. Seen({s} \cup L \cup C)[s] <= version[s]
    BY <1>a, <2>5
  <2>7. DOMAIN Seen({s} \cup L \cup C) = {s} \cup L \cup C
    BY <1>a
  <2>8. DOMAIN f = L \cup C
    OBVIOUS
  <2>9. AskedOK(Req(s, L, C, f, given, grow, extra))
    BY <2>0, <2>3, <2>4, <2>6, <2>7, <2>8 DEF AskedOK
  <2>10. QED
    BY <2>2, <2>9
<1>6. CASE AskUpdate(r, "room", Room)
  <2>1. PICK n \in Room, f \in {"edit", "archive", "restore"} :
           Ask(r, [kind |-> "room", node |-> n, flag |-> f, seen |-> Seen({n})])
    BY <1>6 DEF AskUpdate
  <2>2. AskedOK([kind |-> "room", node |-> n, flag |-> f, seen |-> Seen({n})])
    BY <1>a DEF AskedOK
  <2>3. QED
    BY <2>1, <2>2
<1>7. CASE AskUpdate(r, "shelf", Shelf)
  <2>1. PICK n \in Shelf, f \in {"edit", "archive", "restore"} :
           Ask(r, [kind |-> "shelf", node |-> n, flag |-> f, seen |-> Seen({n})])
    BY <1>7 DEF AskUpdate
  <2>2. AskedOK([kind |-> "shelf", node |-> n, flag |-> f, seen |-> Seen({n})])
    BY <1>a DEF AskedOK
  <2>3. QED
    BY <2>1, <2>2
<1>8. QED
  BY <1>1, <1>2, <1>3, <1>4, <1>5, <1>6, <1>7 DEF Issue

\* A request that is formed disturbs nobody.
LEMMA IssueRelies ==
    ASSUME IInv, IInv', RInv, NEW r \in Request, Issue(r)
    PROVE  RInv'
<1>1. PICK o : Ask(r, o) /\ AskedOK(o)
  BY AskedIsThere
<1>2. \A q \in Request : /\ pc'[q] = (IF q = r THEN "collect" ELSE pc[q])
                         /\ op'[q] = (IF q = r THEN o ELSE op[q])
                         /\ draft'[q] = draft[q] /\ need'[q] = need[q] /\ Held(q)' = Held(q)
  BY <1>1 DEF Ask, Held, IInv, TypeInv, TypeOK
<1>3. \A q \in Request \ {r} : Undisturbed(q)
  BY <1>1, <1>2, QuietStep DEF Ask
<1>4. Reliance(r)'
  <2>1. AskedOK(op[r])'
    BY <1>1, <1>2 DEF Ask, AskedOK, Exists, Unders, LayersOf, CellsOf, TargetRows
  <2>2. QED
    BY <1>2, <2>1 DEF Reliance
<1>5. QED
  BY <1>2, <1>3, <1>4, StepOfOne DEF RInv

\* collect_ancestors finds every row the request quotes.
LEMMA CollectRelies ==
    ASSUME IInv, IInv', RInv, NEW r \in Request, Collect(r)
    PROVE  RInv'
<1> DEFINE o == op[r]
<1>1. OpOK(o) /\ AskedOK(o) /\ Held(r) = {}
  BY DEF Collect, IInv, TypeInv, RInv, Reliance, InFlight
<1>2. \A q \in Request : /\ pc'[q] = (IF q = r THEN "lock" ELSE pc[q])
                         /\ need'[q] = (IF q = r THEN LockSet(o) ELSE need[q])
                         /\ draft'[q] = draft[q] /\ op'[q] = op[q] /\ Held(q)' = Held(q)
  BY DEF Collect, Held, IInv, TypeInv, TypeOK
<1>3. \A q \in Request \ {r} : Undisturbed(q)
  BY <1>2, QuietStep DEF Collect
<1>4. ReadyOK(o, LockSet(o))
  <2>1. CASE o.kind \in Moving
    <3>1. DOMAIN o.put \cup UNION {Chain(p) : p \in Targets(o) \ {None}} \subseteq LockSet(o)
      BY <2>1 DEF LockSet, Moving
    <3>2. ASSUME o.kind = "move" PROVE TargetRows(o.target) \subseteq LockSet(o)
      <4>1. o.target \in Place /\ o.target \in Targets(o) \ {None}
        BY <1>1, <3>2, Ids DEF OpOK, AskedOK, Targets
      <4>2. TargetRows(o.target) \subseteq Chain(o.target)
        BY DEF TargetRows, Chain
      <4>3. QED
        BY <3>1, <4>1, <4>2
    <3>3. DOMAIN o.seen \subseteq LockSet(o)
      BY <1>1, <2>1, <3>1, <3>2 DEF AskedOK, Moving
    <3>4. QED
      BY <2>1, <3>3 DEF ReadyOK, Quoted, Moving
  <2>2. CASE o.kind = "room"
    BY <1>1, <2>2 DEF ReadyOK, Quoted, AskedOK, LockSet
  <2>3. CASE o.kind = "shelf"
    BY <1>1, <2>3 DEF ReadyOK, Quoted, AskedOK, LockSet
  <2>4. CASE o.kind \in {"createRoom", "createShelf"}
    BY <2>4 DEF ReadyOK, Quoted, LockSet
  <2>5. CASE o.kind = "layout"
    <3>1. LockSet(o) = {o.shelf, RoomOf[o.shelf]} \cup Unders(o.shelf)
      BY <2>5 DEF LockSet
    <3>2. DOMAIN o.seen \subseteq {o.shelf} \cup Unders(o.shelf)
      BY <1>1, <2>5 DEF AskedOK
    <3>3. QED
      BY <2>5, <3>1, <3>2 DEF ReadyOK, Quoted
  <2>6. QED
    BY <1>1, <2>1, <2>2, <2>3, <2>4, <2>5 DEF OpOK, AllKinds, Moving
<1>5. Reliance(r)'
  <2>1. AskedOK(op[r])'
    BY <1>1, <1>2 DEF Collect, AskedOK, Exists, Unders, LayersOf, CellsOf, TargetRows
  <2>2. ReadyOK(op[r], need[r])'
    BY <1>2, <1>4 DEF Collect, ReadyOK, Quoted, Exists, Unders, LayersOf, CellsOf
  <2>3. QED
    BY <1>1, <1>2, <2>1, <2>2 DEF Reliance
<1>6. QED
  BY <1>2, <1>3, <1>5, StepOfOne DEF RInv

\* The rows are locked in ascending order, each by one transaction.
LEMMA AcquireRelies ==
    ASSUME IInv, IInv', RInv, NEW r \in Request, Acquire(r)
    PROVE  RInv'
<1>1. PICK x \in Missing(r) : IsNext(r, x) /\ lock[x] = None /\ lock' = [lock EXCEPT ![x] = r]
  BY DEF Acquire
<1>2. need[r] \subseteq Resource /\ x \in Resource /\ Resource \subseteq Int
  BY IdAssumption DEF Missing, IInv, TypeInv, TypeOK, Resource, Map!Resource, Map!Node
<1>3. \A y \in Resource : lock'[y] = (IF y = x THEN r ELSE lock[y])
  BY <1>1, <1>2 DEF IInv, TypeInv, TypeOK
<1>4. \A q \in Request : Held(q)' = (IF q = r THEN Held(q) \cup {x} ELSE Held(q))
  BY <1>1, <1>2, <1>3, Ids DEF Held
<1>5. \A q \in Request \ {r} : Undisturbed(q)
  BY <1>4, QuietStep DEF Acquire
<1>6. Reliance(r)'
  <2>1. pc[r] = "lock" /\ Reliance(r) /\ UNCHANGED <<life, version, pc, op, need, draft>>
    BY DEF Acquire, RInv
  <2>2. AskedOK(op[r])'
    BY <2>1 DEF Reliance, InFlight, AskedOK, Exists, Unders, LayersOf, CellsOf, TargetRows
  <2>3. ReadyOK(op[r], need[r])'
    BY <2>1 DEF Reliance, ReadyOK, Quoted, Exists, Unders, LayersOf, CellsOf
  <2>4. (\A y \in Held(r), z \in Missing(r) : y < z)'
    <3>1. Missing(r)' = Missing(r) \ {x}
      BY <1>4, <2>1 DEF Missing
    <3>2. \A z \in Missing(r) \ {x} : x < z
      <4>1. \A z \in Missing(r) : x <= z /\ z \in Int
        BY <1>1, <1>2 DEF IsNext, Missing
      <4>2. QED
        BY <1>2, <4>1
    <3>3. \A y \in Held(r), z \in Missing(r) : y < z
      BY <2>1 DEF Reliance
    <3>4. QED
      BY <1>4, <3>1, <3>2, <3>3
  <2>5. QED
    BY <2>1, <2>2, <2>3, <2>4 DEF Reliance
<1>7. QED
  BY <1>5, <1>6, StepOfOne DEF Acquire, RInv

\* A transaction that ends leaves nothing that has to be kept.
LEMMA RollBackRelies ==
    ASSUME IInv, IInv', RInv, NEW r \in Request, RollBack(r)
    PROVE  RInv'
<1>1. \A q \in Request : /\ pc'[q] = (IF q = r THEN "ended" ELSE pc[q])
                         /\ op'[q] = (IF q = r THEN None ELSE op[q])
                         /\ need'[q] = (IF q = r THEN {} ELSE need[q])
                         /\ draft'[q] = (IF q = r THEN NoDraft ELSE draft[q])
  BY DEF RollBack, Close, IInv, TypeInv, TypeOK
<1>2. \A q \in Request \ {r} : Held(q)' = Held(q)
  BY Ids DEF RollBack, Close, Held
<1>3. \A q \in Request \ {r} : Undisturbed(q)
  BY <1>1, <1>2, QuietStep DEF RollBack
<1>4. Reliance(r)'
  BY <1>1 DEF Reliance, InFlight
<1>5. NoDraft.create = {}
  BY DEF NoDraft, Reshaping
<1>6. QED
  BY <1>1, <1>3, <1>4, <1>5, StepOfOne

-----------------------------------------------------------------------------
(* The handlers form drafts that can be kept.                               *)

\* Under all its locks a request holds whatever it collected.
LEMMA AtReady ==
    ASSUME IInv, RInv, NEW r \in Request, NEW kind, Locked(r, kind)
    PROVE  /\ OpOK(op[r]) /\ AskedOK(op[r]) /\ op[r].kind = kind /\ pc[r] = "lock"
           /\ NeedOK(op[r], Held(r)) /\ ReadyOK(op[r], Held(r))
           /\ \A x \in Held(r) : x \in Resource /\ Exists(x)
<1>1. need[r] \subseteq Held(r)
  BY DEF Locked, Missing
<1>2. OpOK(op[r]) /\ NeedOK(op[r], need[r])
  BY DEF Locked, IInv, TypeInv, InFlight
<1>3. AskedOK(op[r]) /\ ReadyOK(op[r], need[r])
  BY DEF Locked, RInv, Reliance, InFlight
<1>4. NeedOK(op[r], Held(r)) /\ ReadyOK(op[r], Held(r))
  BY <1>1, <1>2, <1>3 DEF NeedOK, ReadyOK
<1>5. \A x \in Held(r) : x \in Resource /\ Exists(x)
  BY Ids DEF Held, IInv, TypeInv
<1>6. QED
  BY <1>2, <1>3, <1>4, <1>5 DEF Locked

\* A draft that can be kept when it is formed, with new rows of its own, joins the others.
LEMMA WriteRelies ==
    ASSUME IInv, IInv', RInv, NEW r \in Request, NEW d, pc[r] = "lock", Write(r, d),
           KeptOK(r, d), Fresh(d.create),
           op[r].kind = "layout" => {op[r].shelf} \cup Unders(op[r].shelf) \subseteq Held(r)
    PROVE  RInv'
<1>1. \A q \in Request : /\ pc'[q] = (IF q = r THEN "write" ELSE pc[q])
                         /\ draft'[q] = (IF q = r THEN d ELSE draft[q])
                         /\ op'[q] = op[q] /\ need'[q] = need[q] /\ Held(q)' = Held(q)
  BY DEF Write, Held, IInv, TypeInv, TypeOK
<1>2. \A q \in Request \ {r} : Undisturbed(q)
  BY <1>1, QuietStep DEF Write
<1>3. Reliance(r)'
  <2>1. AskedOK(op[r])'
    <3>1. AskedOK(op[r])
      BY DEF RInv, Reliance, InFlight
    <3>2. QED
      BY <3>1 DEF Write, AskedOK, Exists, Unders, LayersOf, CellsOf, TargetRows
  <2>2. KeptOK(r, draft[r])'
    BY <1>1 DEF Write, KeptOK
  <2>3. op'[r].kind = "layout" => {op'[r].shelf} \cup Unders(op[r].shelf)' \subseteq Held(r)'
    BY <1>1 DEF Write, Unders, LayersOf, CellsOf, Exists
  <2>4. QED
    BY <1>1, <2>1, <2>2, <2>3 DEF Reliance
<1>4. \A q \in Request \ {r} : draft'[r].create \cap draft[q].create = {}
  BY <1>1 DEF Fresh
<1>5. QED
  BY <1>2, <1>3, <1>4, StepOfOne

\* The draft of an operation on copies.
LEMMA ShelvingKept ==
    ASSUME NEW r \in Request, NEW put, NEW new \in SUBSET Copy, NEW bump, NEW expect,
           \A x \in new : life[x] = "unborn",
           DOMAIN expect \cup bump \subseteq Held(r),
           \A x \in DOMAIN expect : version[x] = expect[x]
    PROVE  KeptOK(r, Shelving(put, new, bump, expect))
<1>1. \A s \in Shelf : new \cap Below(s) = {}
  BY Ids DEF Below, Node, Map!Node
<1>2. new \cap (Node \ Room) = {}
  BY Ids
<1>3. QED
  BY <1>1, <1>2 DEF KeptOK, Shelving

\* set_placement writes under the version it compared.
LEMMA SetPlacementRelies ==
    ASSUME IInv, IInv', RInv, NEW r \in Request, SetPlacement(r) PROVE RInv'
<1> DEFINE o == op[r]
           d == Shelving(o.put, {}, DOMAIN o.put, o.seen)
<1>1. Locked(r, "set") /\ Current(o) /\ Write(r, d)
  BY DEF SetPlacement
<1>2. o.kind = "set" /\ pc[r] = "lock" /\ NeedOK(o, Held(r)) /\ ReadyOK(o, Held(r))
  BY <1>1, AtReady
<1>3. DOMAIN o.seen \cup DOMAIN o.put \subseteq Held(r)
  BY <1>2 DEF NeedOK, ReadyOK, Quoted, Moving
<1>4. KeptOK(r, d)
  BY <1>1, <1>3, ShelvingKept DEF Current
<1>5. Fresh(d.create)
  BY DEF Fresh, Shelving
<1>6. QED
  BY <1>1, <1>2, <1>4, <1>5, WriteRelies

\* execute_move writes under the versions of the copies and of the target it previewed.
LEMMA ExecuteMoveRelies ==
    ASSUME IInv, IInv', RInv, NEW r \in Request, ExecuteMove(r) PROVE RInv'
<1> DEFINE o == op[r]
           d == Shelving(o.put, {}, DOMAIN o.put, o.seen)
<1>1. Locked(r, "move") /\ Current(o) /\ Write(r, d)
  BY DEF ExecuteMove
<1>2. o.kind = "move" /\ pc[r] = "lock" /\ NeedOK(o, Held(r)) /\ ReadyOK(o, Held(r))
  BY <1>1, AtReady
<1>3. DOMAIN o.seen \cup DOMAIN o.put \subseteq Held(r)
  BY <1>2 DEF NeedOK, ReadyOK, Quoted, Moving
<1>4. KeptOK(r, d)
  BY <1>1, <1>3, ShelvingKept DEF Current
<1>5. Fresh(d.create)
  BY DEF Fresh, Shelving
<1>6. QED
  BY <1>1, <1>2, <1>4, <1>5, WriteRelies

\* commit_intake writes under the versions of the known copies, and new copies are its own.
LEMMA CommitIntakeRelies ==
    ASSUME IInv, IInv', RInv, NEW r \in Request, CommitIntake(r) PROVE RInv'
<1> DEFINE o == op[r]
           Put(new) == [c \in DOMAIN o.put \cup new |-> IF c \in new THEN o.at ELSE o.put[c]]
           d(new) == Shelving(Put(new), new, DOMAIN o.put, o.seen)
<1>1. Locked(r, "intake") /\ Current(o)
  BY DEF CommitIntake
<1>2. PICK new \in SUBSET Copy : Fresh(new) /\ Write(r, d(new))
  BY DEF CommitIntake
<1>3. o.kind = "intake" /\ pc[r] = "lock" /\ NeedOK(o, Held(r)) /\ ReadyOK(o, Held(r))
  BY <1>1, AtReady
<1>4. DOMAIN o.seen \cup DOMAIN o.put \subseteq Held(r)
  BY <1>3 DEF NeedOK, ReadyOK, Quoted, Moving
<1> HIDE DEF Put
<1>5. KeptOK(r, d(new))
  BY <1>1, <1>2, <1>4, ShelvingKept DEF Current, Fresh
<1>6. Fresh(d(new).create)
  BY <1>2 DEF Shelving
<1>7. QED
  BY <1>2, <1>3, <1>5, <1>6, WriteRelies

\* update_room and update_shelf bump what they change; a shelf comes back only into a
\* room in use, and that room is locked.
LEMMA UpdateRelies ==
    ASSUME IInv, IInv', RInv, NEW r \in Request, UpdateRoom(r) \/ UpdateShelf(r) PROVE RInv'
<1> DEFINE o == op[r]
           N == {o.node}
           archive == IF o.flag = "archive" THEN N ELSE {}
           restore == IF o.flag = "restore" /\ life[o.node] = "archived" THEN N ELSE {}
           d == Reshaping(archive, restore, {}, N, o.seen)
<1>1. /\ \/ Locked(r, "room")
         \/ Locked(r, "shelf") /\ RestoreCheck(o)
      /\ Current(o) /\ Write(r, d)
  BY DEF UpdateRoom, UpdateShelf, UpdateNode
<1>2. /\ OpOK(o) /\ pc[r] = "lock" /\ o.kind \in {"room", "shelf"}
      /\ NeedOK(o, Held(r)) /\ ReadyOK(o, Held(r))
      /\ o.kind = "shelf" => RestoreCheck(o)
  BY <1>1, AtReady
<1>3. o.node \in Held(r) /\ DOMAIN o.seen \subseteq Held(r)
  BY <1>2 DEF NeedOK, ReadyOK, Quoted
<1>4. \A n \in restore \ Room :
         Map!Parent(n) \in Held(r) \ archive /\ life[Map!Parent(n)] = "active"
  <2> SUFFICES ASSUME o.node \in restore \ Room
               PROVE  Map!Parent(o.node) \in Held(r) \ archive /\ life[Map!Parent(o.node)] = "active"
    OBVIOUS
  <2>1. o.flag = "restore" /\ life[o.node] = "archived" /\ o.kind = "shelf" /\ o.node \in Shelf
    BY <1>2 DEF OpOK
  <2>2. Map!Parent(o.node) = RoomOf[o.node] /\ RoomOf[o.node] \in Held(r)
    BY <1>2, <2>1 DEF Map!Parent, ReadyOK
  <2>3. life[RoomOf[o.node]] = "active"
    BY <1>2, <2>1 DEF RestoreCheck
  <2>4. QED
    BY <2>1, <2>2, <2>3
<1>5. KeptOK(r, d)
  <2>1. archive \cup restore \subseteq N
    OBVIOUS
  <2> HIDE DEF archive, restore
  <2>2. QED
    BY <1>1, <1>3, <1>4, <2>1 DEF KeptOK, Reshaping, Current, NoSeen
<1>6. Fresh(d.create)
  BY DEF Fresh, Reshaping
<1>7. QED
  BY <1>1, <1>2, <1>5, <1>6, WriteRelies

\* create_room and create_shelf change nothing that is there; a shelf is born complete.
LEMMA CreateRelies ==
    ASSUME IInv, IInv', RInv, NEW r \in Request, CreateRoom(r) \/ CreateShelf(r) PROVE RInv'
<1> DEFINE d(S) == Reshaping({}, {}, S, {}, NoSeen)
<1>1. CASE CreateRoom(r)
  <2>1. PICK n \in Room : Fresh({n}) /\ Write(r, d({n}))
    BY <1>1 DEF CreateRoom
  <2>2. pc[r] = "lock" /\ op[r].kind = "createRoom"
    BY <1>1 DEF CreateRoom, Locked
  <2>3. KeptOK(r, d({n}))
    <3>1. n \in Node /\ \A s \in Shelf : n \notin Below(s)
      BY Ids DEF Below, Node, Map!Node
    <3>2. QED
      BY <2>1, <3>1 DEF KeptOK, Reshaping, NoSeen, Fresh
  <2>4. Fresh(d({n}).create)
    BY <2>1 DEF Reshaping
  <2>5. QED
    BY <2>1, <2>2, <2>3, <2>4, WriteRelies
<1>2. CASE CreateShelf(r)
  <2>1. PICK s \in Shelf, L \in (SUBSET Layer) \ {{}}, C \in SUBSET Cell :
           /\ RoomOf[s] = op[r].room
           /\ \A l \in L : ShelfOf[l] = s
           /\ {LayerOf[c] : c \in C} = L
           /\ Fresh({s} \cup L \cup C)
           /\ Write(r, d({s} \cup L \cup C))
    BY <1>2 DEF CreateShelf
  <2> DEFINE S == {s} \cup L \cup C
  <2>2. Locked(r, "createShelf") /\ life[op[r].room] = "active"
    BY <1>2 DEF CreateShelf
  <2>3. pc[r] = "lock" /\ op[r].kind = "createShelf" /\ op[r].room \in Held(r)
    BY <2>2, AtReady DEF ReadyOK
  <2>4. \A t \in Shelf : S \cap Below(t) # {} => t \in S
    <3>1. \A c \in C : ShelfOf[LayerOf[c]] = s
      BY <2>1
    <3>2. QED
      BY <2>1, <3>1, Ids DEF Below
  <2>5. \A n \in S : \/ n \notin Room /\ Map!Parent(n) \in S
                     \/ Map!Parent(n) \in Held(r) /\ life[Map!Parent(n)] = "active"
    <3>1. Map!Parent(s) = op[r].room
      BY <2>1 DEF Map!Parent
    <3>2. \A l \in L : Map!Parent(l) = s
      BY <2>1, Ids DEF Map!Parent
    <3>3. \A c \in C : Map!Parent(c) \in L
      BY <2>1, Ids DEF Map!Parent
    <3>4. QED
      BY <2>2, <2>3, <3>1, <3>2, <3>3, Ids
  <2>6. S \subseteq Node
    BY DEF Node, Map!Node
  <2> HIDE DEF S
  <2>7. KeptOK(r, d(S))
    BY <2>1, <2>4, <2>5, <2>6 DEF KeptOK, Reshaping, NoSeen, Fresh, S
  <2>8. Fresh(d(S).create)
    BY <2>1 DEF Reshaping, S
  <2>9. QED
    BY <2>1, <2>3, <2>7, <2>8, WriteRelies DEF S
<1>3. QED
  BY <1>1, <1>2

\* put_layout has the whole shelf locked, bumps every row it changes, and leaves no row in
\* use under a layer that is not.
LEMMA PutLayoutRelies ==
    ASSUME IInv, IInv', RInv, NEW r \in Request, PutLayout(r) PROVE RInv'
<1> DEFINE o == op[r]
           A == Archived(o)
           R == Restored(o)
           E == Flagged(o, "edit")
           d(S) == Reshaping(A, R, S, {o.shelf} \cup A \cup R \cup E, o.seen)
<1>1. /\ Locked(r, "layout") /\ life[o.shelf] = "active" /\ Current(o)
      /\ GivenInUse(o)
  BY DEF PutLayout
<1>2. PICK L \in SUBSET Layer, C \in SUBSET Cell :
         /\ \A l \in L : ShelfOf[l] = o.shelf
         /\ {LayerOf[c] : c \in C} \subseteq o.grow \cup L
         /\ Fresh(L \cup C)
         /\ Write(r, d(L \cup C))
  BY DEF PutLayout
<1>3. /\ OpOK(o) /\ AskedOK(o) /\ o.kind = "layout" /\ pc[r] = "lock"
      /\ NeedOK(o, Held(r)) /\ ReadyOK(o, Held(r))
  BY <1>1, AtReady
<1>4. /\ o.shelf \in Shelf /\ o.shelf \in Held(r)
      /\ o.given \subseteq {l \in Layer : ShelfOf[l] = o.shelf} /\ o.grow \subseteq o.given
      /\ DOMAIN o.flags \cup o.given \subseteq Unders(o.shelf)
      /\ \A c \in Cell \cap DOMAIN o.flags : LayerOf[c] \in o.given
      /\ o.shelf \in DOMAIN o.seen
      /\ DOMAIN o.seen \subseteq Held(r)
  BY <1>3 DEF OpOK, AskedOK, NeedOK, ReadyOK, Quoted
<1>5. Unders(o.shelf) \subseteq Held(r)
  BY <1>1, <1>3, <1>4 DEF ReadyOK, Current
<1>6. A \cup R \cup E \subseteq Unders(o.shelf)
  <2>1. \A f : Flagged(o, f) \subseteq DOMAIN o.flags
    BY DEF Flagged
  <2>2. Listed(o) \subseteq Unders(o.shelf)
    <3>1. o.given \subseteq LayersOf(o.shelf)
      BY <1>4, Ids DEF Unders, LayersOf, CellsOf
    <3>2. QED
      BY <3>1 DEF Listed, Unders
  <2>3. QED
    BY <1>4, <2>1, <2>2 DEF Archived, Restored
<1>7. \A n \in Unders(o.shelf) : n \in Below(o.shelf) /\ n \in Node /\ n \notin Room
  BY UndersBelow, Ids DEF Below, Node, Map!Node
<1>8. \A l \in o.given : l \in Held(r) /\ l \notin A /\ (life[l] = "active" \/ l \in R)
  BY <1>1, <1>4, <1>5 DEF GivenInUse, InUse
<1>9. o.shelf \notin A
  BY <1>4, <1>6, <1>7, Ids DEF Below
<1>10. \A n \in R : \/ Map!Parent(n) \in R
                    \/ Map!Parent(n) \in Held(r) \ A /\ life[Map!Parent(n)] = "active"
  <2> SUFFICES ASSUME NEW n \in R
               PROVE  \/ Map!Parent(n) \in R
                      \/ Map!Parent(n) \in Held(r) \ A /\ life[Map!Parent(n)] = "active"
    OBVIOUS
  <2>1. n \in DOMAIN o.flags /\ n \in Below(o.shelf)
    BY <1>6, <1>7 DEF Restored, Flagged
  <2>2. CASE n \in Layer
    <3>1. Map!Parent(n) = o.shelf
      BY <2>1, <2>2, Ids DEF Map!Parent, Below
    <3>2. QED
      BY <1>1, <1>4, <1>9, <3>1
  <2>3. CASE n \in Cell
    <3>1. Map!Parent(n) = LayerOf[n] /\ LayerOf[n] \in o.given
      BY <1>4, <2>1, <2>3, Ids DEF Map!Parent
    <3>2. QED
      BY <1>8, <3>1
  <2>4. QED
    BY <2>1, <2>2, <2>3 DEF Below
<1>11. \A n \in L \cup C : \/ Map!Parent(n) \in L \cup R
                           \/ Map!Parent(n) \in Held(r) \ A /\ life[Map!Parent(n)] = "active"
  <2>1. \A l \in L : Map!Parent(l) = o.shelf
    BY <1>2, Ids DEF Map!Parent
  <2>2. \A c \in C : Map!Parent(c) \in o.given \cup L
    BY <1>2, <1>4, Ids DEF Map!Parent
  <2>3. QED
    BY <1>1, <1>4, <1>8, <1>9, <2>1, <2>2
<1>12. \A s \in Shelf : (L \cup C) \cap Below(s) # {} => s = o.shelf
  <2>1. \A c \in C : ShelfOf[LayerOf[c]] = o.shelf
    BY <1>2, <1>4
  <2>2. QED
    BY <1>2, <2>1, Ids DEF Below
<1>13. L \cup C \subseteq Node
  BY DEF Node, Map!Node
<1> HIDE DEF A, R, E
<1>14. KeptOK(r, d(L \cup C))
  <2> DEFINE S == L \cup C
             bump == {o.shelf} \cup A \cup R \cup E
  <2>1. DOMAIN o.seen \cup bump \subseteq Held(r) /\ A \cup R \subseteq bump /\ o.shelf \in bump
    BY <1>4, <1>5, <1>6
  <2>2. \A x \in DOMAIN o.seen : version[x] = o.seen[x]
    BY <1>1 DEF Current
  <2>3. \A x \in S : life[x] = "unborn"
    BY <1>2 DEF Fresh
  <2>4. \A n \in (S \cup R) \cap (Node \ Room) :
           \/ Map!Parent(n) \in S \cup R
           \/ Map!Parent(n) \in Held(r) \ A /\ life[Map!Parent(n)] = "active"
    BY <1>10, <1>11
  <2>5. \A s \in Shelf : S \cap Below(s) # {} => s \in bump
    BY <1>12, <2>1
  <2> HIDE DEF S, bump
  <2>6. KeptOK(r, Reshaping(A, R, S, bump, o.seen))
    BY <1>13, <2>1, <2>2, <2>3, <2>4, <2>5 DEF KeptOK, Reshaping, S
  <2>7. QED
    BY <2>6 DEF S, bump
<1>15. Fresh(d(L \cup C).create)
  BY <1>2 DEF Reshaping
<1>16. QED
  BY <1>2, <1>3, <1>4, <1>5, <1>14, <1>15, WriteRelies

-----------------------------------------------------------------------------
(* Commits, and the catalogue's own writes.                                 *)

\* What a commit changes: rows its transaction has locked, whose versions go up, and rows
\* that it creates.
LEMMA CommitTouches ==
    ASSUME IInv, RInv, NEW r \in Request, Commit(r)
    PROVE  /\ pc[r] = "write" /\ IsDraft(draft[r]) /\ KeptOK(r, draft[r])
           /\ \A x \in Resource :
                 /\ life'[x] = (IF x \in draft[r].create \cup draft[r].restore THEN "active"
                                ELSE IF x \in draft[r].archive THEN "archived"
                                ELSE life[x])
                 /\ version'[x] = version[x] + (IF x \in draft[r].bump THEN 1 ELSE 0)
           /\ \A x \in Held(r) : Exists(x)
<1>1. pc[r] = "write" /\ IsDraft(draft[r]) /\ KeptOK(r, draft[r])
  BY DEF Commit, IInv, TypeInv, TypeOK, RInv, Reliance
<1>2. \A x \in Held(r) : Exists(x)
  BY Ids DEF Held, IInv, TypeInv
<1>3. QED
  BY <1>1, <1>2 DEF Commit

\* A commit disturbs nobody else: the others' rows are not its own, and who counts on a
\* shelf being as it was sees the version of the shelf go up.
LEMMA CommitRelies ==
    ASSUME IInv, IInv', RInv, NEW r \in Request, Commit(r)
    PROVE  RInv'
<1> DEFINE d == draft[r]
<1>1. /\ pc[r] = "write" /\ IsDraft(d) /\ KeptOK(r, d)
      /\ \A x \in Resource :
            /\ life'[x] = (IF x \in d.create \cup d.restore THEN "active"
                           ELSE IF x \in d.archive THEN "archived"
                           ELSE life[x])
            /\ version'[x] = version[x] + (IF x \in d.bump THEN 1 ELSE 0)
      /\ \A x \in Held(r) : Exists(x)
  BY CommitTouches
<1>2. \A q \in Request : /\ pc'[q] = (IF q = r THEN "ended" ELSE pc[q])
                         /\ op'[q] = (IF q = r THEN None ELSE op[q])
                         /\ need'[q] = (IF q = r THEN {} ELSE need[q])
                         /\ draft'[q] = (IF q = r THEN NoDraft ELSE draft[q])
  BY DEF Commit, Close, IInv, TypeInv, TypeOK
<1>3. \A q \in Request \ {r} : Held(q)' = Held(q)
  BY Ids DEF Commit, Close, Held
<1>4. /\ Node \subseteq Resource /\ Shelf \subseteq Node /\ Layer \subseteq Node
      /\ Cell \subseteq Node
  BY DEF Node, Resource, Map!Node, Map!Resource
<1>5. version \in [Resource -> Nat]
  BY DEF IInv, TypeInv, TypeOK
<1>6. \A x \in Resource : Exists(x)' <=> Exists(x) \/ x \in d.create
  <2>1. d.archive \cup d.restore \subseteq Held(r)
    BY <1>1 DEF KeptOK
  <2>2. QED
    BY <1>1, <2>1 DEF Exists
<1>7. ASSUME NEW s \in Shelf, Exists(s), version'[s] = version[s]
      PROVE  Unders(s)' \subseteq Unders(s)
  <2>1. s \notin d.bump
    BY <1>1, <1>4, <1>5, <1>7
  <2>2. s \notin d.create
    BY <1>1, <1>7 DEF KeptOK, Exists
  <2>3. d.create \cap Below(s) = {}
    BY <1>1, <2>1, <2>2 DEF KeptOK
  <2>4. LayersOf(s)' = LayersOf(s)
    BY <1>4, <1>6, <2>3 DEF LayersOf, Below
  <2>5. \A l \in LayersOf(s) : CellsOf(l)' = CellsOf(l)
    BY <1>4, <1>6, <2>3 DEF LayersOf, CellsOf, Below
  <2>6. QED
    BY <2>4, <2>5 DEF Unders
<1>8. ASSUME NEW q \in Request \ {r} PROVE Undisturbed(q)
  <2>1. \A x \in Held(q) : x \in Resource /\ x \notin Held(r) /\ Exists(x)
    BY Ids DEF Held, IInv, TypeInv
  <2>2. \A x \in Held(q) : version'[x] = version[x] /\ life'[x] = life[x]
    <3>1. d.bump \cup d.archive \cup d.restore \subseteq Held(r)
      BY <1>1 DEF KeptOK
    <3>2. \A x \in d.create : ~Exists(x)
      BY <1>1 DEF KeptOK, Exists
    <3>3. QED
      BY <1>1, <1>5, <2>1, <3>1, <3>2
  <2>3. ASSUME pc[q] = "write", NEW x \in draft[q].create PROVE life'[x] = life[x]
    <3>1. IsDraft(draft[q]) /\ draft[q].create \cap d.create = {}
      BY DEF IInv, TypeInv, TypeOK, RInv
    <3>2. d.archive \cup d.restore \subseteq Held(r)
      BY <1>1 DEF KeptOK
    <3>3. x \in Resource /\ ~Exists(x)
      BY <2>3, <3>1 DEF RInv, Reliance, KeptOK, Exists, IsDraft
    <3>4. QED
      BY <1>1, <2>3, <3>1, <3>2, <3>3
  <2>4. \A x \in Resource : version[x] <= version'[x]
    BY <1>1, <1>5
  <2>5. \A n \in Node : Exists(n) => Exists(n)'
    BY <1>4, <1>6
  <2>6. QED
    BY <1>2, <1>3, <1>7, <2>2, <2>3, <2>4, <2>5 DEF Undisturbed
<1>9. Reliance(r)'
  BY <1>2 DEF Reliance, InFlight
<1>10. NoDraft.create = {}
  BY DEF NoDraft, Reshaping
<1>11. QED
  BY <1>2, <1>8, <1>9, <1>10, StepOfOne

\* The catalogue changes no node, and no copy that is locked or about to be created.
LEMMA CatalogueTouches ==
    ASSUME IInv, CreateCopy \/ DeleteCopy
    PROVE  /\ UNCHANGED <<version, lock, pc, op, need, draft>>
           /\ \E c \in Copy :
                 /\ life[c] \in {"unborn", "active"} /\ lock[c] = None
                 /\ \A q \in Request : c \in draft[q].create => life[c] = "active"
                 /\ life' = [life EXCEPT ![c] = life'[c]]
                 /\ \/ life[c] = "unborn" /\ life'[c] = "active" /\ UNCHANGED place
                    \/ life'[c] = "deleted" /\ place' = [place EXCEPT ![c] = None]
<1>1. Copy \subseteq Resource /\ life \in [Resource -> {"unborn", "active", "archived", "deleted"}]
  BY DEF Resource, Map!Resource, IInv, TypeInv, TypeOK
<1>2. CASE CreateCopy
  <2>1. PICK c \in Copy : Fresh({c}) /\ life' = [life EXCEPT ![c] = "active"]
    BY <1>2 DEF CreateCopy
  <2>2. lock[c] = None
    BY <1>1, <2>1 DEF Fresh, IInv, TypeInv, Exists
  <2>3. QED
    BY <1>1, <1>2, <2>1, <2>2 DEF CreateCopy, Fresh
<1>3. CASE DeleteCopy
  <2>1. PICK c \in Copies : /\ lock[c] = None /\ life' = [life EXCEPT ![c] = "deleted"]
                            /\ place' = [place EXCEPT ![c] = None]
    BY <1>3 DEF DeleteCopy
  <2>2. QED
    BY <1>1, <1>3, <2>1 DEF DeleteCopy, Copies
<1>4. QED
  BY <1>2, <1>3

LEMMA CatalogueRelies ==
    ASSUME IInv, IInv', RInv, CreateCopy \/ DeleteCopy
    PROVE  RInv'
<1>1. UNCHANGED <<version, lock, pc, op, need, draft>>
  BY CatalogueTouches
<1>2. PICK c \in Copy : /\ lock[c] = None
                        /\ \A q \in Request : c \in draft[q].create => life[c] = "active"
                        /\ life' = [life EXCEPT ![c] = life'[c]]
  BY CatalogueTouches
<1>3. \A x \in Resource : x # c => life'[x] = life[x]
  BY <1>2 DEF IInv, TypeInv, TypeOK
<1>4. \A n \in Node : n # c /\ n \in Resource
  BY Ids DEF Resource, Map!Resource, Node
<1>5. ASSUME NEW q \in Request PROVE Undisturbed(q)
  <2>1. Held(q)' = Held(q) /\ c \notin Held(q)
    BY <1>1, <1>2, Ids DEF Held
  <2>2. \A s \in Shelf : Unders(s)' = Unders(s)
    <3>1. Layer \subseteq Node /\ Cell \subseteq Node
      BY DEF Node, Map!Node
    <3>2. \A s \in Shelf : LayersOf(s)' = LayersOf(s) /\ \A l \in Layer : CellsOf(l)' = CellsOf(l)
      BY <1>3, <1>4, <3>1 DEF LayersOf, CellsOf, Exists
    <3>3. \A s \in Shelf : LayersOf(s) \subseteq Layer
      BY DEF LayersOf
    <3>4. QED
      BY <3>2, <3>3 DEF Unders
  <2>3. ASSUME pc[q] = "write", NEW x \in draft[q].create PROVE life'[x] = life[x]
    <3>1. life[x] = "unborn" /\ x \in Resource
      BY <2>3 DEF RInv, Reliance, KeptOK, IInv, TypeInv, TypeOK, IsDraft
    <3>2. QED
      BY <1>2, <1>3, <2>3, <3>1
  <2>4. /\ \A x \in Resource : version[x] <= version'[x]
        /\ \A n \in Node : Exists(n) => Exists(n)'
    BY <1>1, <1>3, <1>4 DEF Exists, IInv, TypeInv, TypeOK
  <2>5. \A x \in Held(q) : version'[x] = version[x] /\ life'[x] = life[x]
    BY <1>1, <1>3, <2>1 DEF Held
  <2>6. QED
    BY <1>1, <2>1, <2>2, <2>3, <2>4, <2>5 DEF Undisturbed
<1>6. QED
  BY <1>1, <1>5, UndisturbedKeeps DEF RInv

-----------------------------------------------------------------------------
\* Reliance holds at the start and every step keeps it.
LEMMA StepRelies ==
    ASSUME IInv, IInv', RInv, [Next]_vars
    PROVE  RInv'
<1>1. ASSUME NEW r \in Request, Handle(r) PROVE RInv'
  BY <1>1, SetPlacementRelies, ExecuteMoveRelies, CommitIntakeRelies, UpdateRelies,
     CreateRelies, PutLayoutRelies DEF Handle
<1>2. ASSUME NEW r \in Request, Issue(r) \/ Step(r) \/ Abort(r) PROVE RInv'
  BY <1>1, <1>2, IssueRelies, CollectRelies, AcquireRelies, RollBackRelies, CommitRelies
     DEF Step, Abort, NotFound, Refuse
<1>3. CASE UNCHANGED vars
  <2>1. \A q \in Request : Undisturbed(q)
    BY <1>3, QuietStep DEF vars, Held
  <2>2. QED
    BY <1>3, <2>1, UndisturbedKeeps DEF RInv, vars
<1>4. QED
  BY <1>2, <1>3, CatalogueRelies DEF Next

LEMMA RelianceInvariant == Spec => [](IInv /\ RInv)
<1>1. Init => RInv
  BY DEF Init, RInv, Reliance, InFlight, NoDraft, Reshaping
<1>2. RInv /\ IInv /\ IInv' /\ [Next]_vars => RInv'
  BY StepRelies
<1>3. QED
  BY <1>1, <1>2, InductiveInvariant, PTL DEF Spec

\* What an operation relied on before it had its locks is still so when it writes: the
\* versions it compared are the rows' versions, and a layout replaces the whole shelf.
THEOREM RelianceIsKept == Spec => []RelianceHolds
<1>1. RInv => RelianceHolds
  <2>1. RInv => ExpectationsHold
    BY DEF RInv, Reliance, KeptOK, ExpectationsHold
  <2>2. RInv => LayoutIsWhole
    BY DEF RInv, Reliance, LayoutIsWhole
  <2>3. QED
    BY <2>1, <2>2 DEF RelianceHolds
<1>2. QED
  BY <1>1, RelianceInvariant, PTL

-----------------------------------------------------------------------------
(* Every operation is one step of the shelf map.                            *)

\* A commit reshapes the tree, or it shelves copies.
LEMMA CommitIsMapStep ==
    ASSUME IInv, RInv, NEW r \in Request, Commit(r)
    PROVE  Map!Next
<1> DEFINE d == draft[r]
<1>1. /\ pc[r] = "write" /\ IsDraft(d) /\ KeptOK(r, d)
      /\ \A x \in Resource :
            life'[x] = (IF x \in d.create \cup d.restore THEN "active"
                        ELSE IF x \in d.archive THEN "archived" ELSE life[x])
      /\ \A x \in Held(r) : Exists(x)
  BY CommitTouches
<1>2. DraftOK(r, d) /\ PlacementSound
  BY <1>1 DEF IInv, WriteInv
<1>3. /\ \A c \in Copy : place'[c] = (IF c \in DOMAIN d.put THEN d.put[c] ELSE place[c])
      /\ place' = [c \in Copy |-> IF c \in DOMAIN d.put THEN d.put[c] ELSE place[c]]
      /\ place \in [Copy -> Place \cup {None}]
  BY DEF Commit, IInv, TypeInv, TypeOK
<1>4. /\ \A n \in Node : n \in Resource /\ n \notin Copy
      /\ \A c \in Copy : c \in Resource /\ c \notin Node
  BY Ids DEF Resource, Node, Map!Resource
<1>5. d.archive \cup d.restore \subseteq Held(r) /\ d.archive \cup d.restore \subseteq Node
  BY <1>1 DEF KeptOK, IsDraft
<1>6. CASE DOMAIN d.put = {} /\ d.create \subseteq Node
  <2>1. place' = place
    BY <1>3, <1>6
  <2>2. \A c \in Copy : life'[c] = life[c]
    BY <1>1, <1>4, <1>5, <1>6
  <2>3. ASSUME NEW n \in Node, life'[n] # life[n] PROVE Map!NodeStep(n)
    <3>1. CASE n \in d.create \cup d.restore
      <4>1. life'[n] = "active"
        BY <1>1, <1>4, <3>1
      <4>2. life[n] \in {"unborn", "archived"}
        <5>1. n \in d.create => life[n] = "unborn"
          BY <1>1 DEF KeptOK
        <5>2. n \in d.restore => Exists(n)
          BY <1>1, <1>5
        <5>3. QED
          BY <2>3, <3>1, <4>1, <5>1, <5>2 DEF Exists
      <4>3. ASSUME n \notin Room PROVE life'[Map!Parent(n)] = "active"
        <5>1. Map!Parent(n) \in Resource
          BY <4>3, Ids DEF Map!Parent, Node, Map!Node, Resource, Map!Resource
        <5>2. \/ Map!Parent(n) \in d.create \cup d.restore
              \/ Map!Parent(n) \notin d.archive /\ life[Map!Parent(n)] = "active"
          BY <1>1, <3>1, <4>3 DEF KeptOK
        <5>3. QED
          BY <1>1, <5>1, <5>2
      <4>4. QED
        BY <4>1, <4>2, <4>3, Ids DEF Map!NodeStep
    <3>2. CASE n \notin d.create \cup d.restore
      <4>1. n \in d.archive /\ life'[n] = "archived"
        BY <1>1, <1>4, <2>3, <3>2
      <4>2. life[n] = "active"
        BY <1>1, <1>5, <2>3, <4>1 DEF Exists
      <4>3. ~Map!Occupied(n)
        BY <1>2, <4>1 DEF DraftOK
      <4>4. QED
        BY <4>1, <4>2, <4>3 DEF Map!NodeStep
    <3>3. QED
      BY <3>1, <3>2
  <2>4. \A n \in Node : Map!NodeStep(n)
    BY <2>3 DEF Map!NodeStep
  <2>5. QED
    BY <2>1, <2>2, <2>4 DEF Map!Next, Map!Reshape, Node
<1>7. CASE d.archive = {} /\ d.restore = {} /\ d.create \subseteq Copy
  <2>1. \A n \in Node : life'[n] = life[n]
    BY <1>1, <1>4, <1>7
  <2>2. ASSUME NEW c \in Copy PROVE Map!CopyStep(c)
    <3>1. life'[c] = (IF c \in d.create THEN "active" ELSE life[c])
      BY <1>1, <1>4, <1>7
    <3>2. c \in d.create => life[c] = "unborn"
      BY <1>1 DEF KeptOK
    <3>3. CASE c \in DOMAIN d.put
      <4>1. place'[c] = d.put[c]
        BY <1>3, <3>3
      <4>2. c \in d.create \/ life[c] = "active"
        BY <1>2, <3>3 DEF DraftOK
      <4>3. d.put[c] # None => Map!Open(d.put[c])
        BY <1>2, <3>3 DEF DraftOK
      <4>4. QED
        BY <3>1, <3>2, <4>1, <4>2, <4>3 DEF Map!CopyStep, Map!Open
    <3>4. CASE c \notin DOMAIN d.put
      <4>1. place'[c] = place[c]
        BY <1>3, <3>4
      <4>2. place[c] # None => life[c] = "active" /\ Map!Open(place[c])
        BY <1>2 DEF PlacementSound, Map!Placed
      <4>3. QED
        BY <3>1, <3>2, <4>1, <4>2 DEF Map!CopyStep
    <3>5. QED
      BY <3>3, <3>4
  <2>3. QED
    BY <2>1, <2>2 DEF Map!Next, Map!Shelve, Node
<1>8. QED
  BY <1>1, <1>6, <1>7 DEF KeptOK

\* So does what the catalogue does to copies: they come without a place and go with it.
LEMMA CatalogueIsMapStep ==
    ASSUME IInv, CreateCopy \/ DeleteCopy
    PROVE  Map!Next
<1>1. PICK c \in Copy :
         /\ life[c] \in {"unborn", "active"}
         /\ life' = [life EXCEPT ![c] = life'[c]]
         /\ \/ life[c] = "unborn" /\ life'[c] = "active" /\ UNCHANGED place
            \/ life'[c] = "deleted" /\ place' = [place EXCEPT ![c] = None]
  BY CatalogueTouches
<1>2. /\ \A x \in Resource : x # c => life'[x] = life[x]
      /\ \A y \in Copy : y # c => place'[y] = place[y]
      /\ place' = [place EXCEPT ![c] = None] => place'[c] = None
  BY <1>1 DEF IInv, TypeInv, TypeOK
<1>3. life[c] = "unborn" => place[c] = None
  BY DEF IInv, PlacementSound, Map!Placed
<1>4. \A n \in Node : life'[n] = life[n]
  BY <1>2, Ids DEF Node, Resource, Map!Resource
<1>5. \A y \in Copy : y # c => Map!CopyStep(y)
  BY <1>2 DEF Map!CopyStep, Resource, Map!Resource
<1>6. Map!CopyStep(c)
  BY <1>1, <1>2, <1>3 DEF Map!CopyStep
<1>7. QED
  BY <1>4, <1>5, <1>6 DEF Map!Next, Map!Shelve, Node

\* Seen from outside, the transactions are single steps of the shelf map: a node leaves
\* use only when nobody stands in it and comes into use only under one that is in use,
\* and copies are put only where the whole chain is in use, whatever runs at once.
THEOREM ImplementsTheShelfMap == Spec => ImplementsShelfMap
<1>1. Init => Map!Init
  <2> SUFFICES ASSUME Init PROVE Map!Init
    OBVIOUS
  <2>1. life \in [Resource -> {"unborn", "active"}]
    BY DEF Init
  <2>2. Map!Placed
    BY DEF Init, Map!Placed, Resource, Map!Resource
  <2>3. QED
    BY <2>1, <2>2 DEF Init, Map!Init, Resource, Place
<1>2. IInv /\ RInv /\ [Next]_vars => [Map!Next]_(Map!svars)
  <2> SUFFICES ASSUME IInv, RInv, [Next]_vars, ~ UNCHANGED <<life, place>>
               PROVE  Map!Next
    BY DEF Map!svars
  <2>1. ASSUME NEW r \in Request, Issue(r) \/ Step(r) \/ Abort(r) PROVE Commit(r)
    <3>1. ~Issue(r)
      BY AskedIsThere DEF Ask
    <3>2. ~Handle(r)
      BY DEF Handle, SetPlacement, ExecuteMove, CommitIntake, UpdateRoom, UpdateShelf,
             UpdateNode, CreateRoom, CreateShelf, PutLayout, Write
    <3>3. ~(Collect(r) \/ Acquire(r) \/ NotFound(r) \/ Refuse(r) \/ Abort(r))
      BY DEF Collect, Acquire, NotFound, Refuse, Abort, RollBack
    <3>4. QED
      BY <2>1, <3>1, <3>2, <3>3 DEF Step
  <2>2. ~ UNCHANGED vars
    BY DEF vars
  <2>3. QED
    BY <2>1, <2>2, CommitIsMapStep, CatalogueIsMapStep DEF Next
<1>3. QED
  BY <1>1, <1>2, RelianceInvariant, PTL DEF Spec, ImplementsShelfMap, Map!Spec

-----------------------------------------------------------------------------
(* No circular wait.                                                        *)

\* Only so many requests are under way at a time.
Underway == {r \in Request : pc[r] # "idle"}

LEMMA FinitelyMany == Spec => []IsFiniteSet(Underway)
<1>1. Init => IsFiniteSet(Underway)
  <2> SUFFICES ASSUME Init PROVE IsFiniteSet(Underway)
    OBVIOUS
  <2>1. Underway = {}
    BY DEF Init, Underway
  <2>2. QED
    BY <2>1, FS_EmptySet
<1>2. IInv /\ IsFiniteSet(Underway) /\ [Next]_vars => IsFiniteSet(Underway)'
  <2> SUFFICES ASSUME IInv, IsFiniteSet(Underway), [Next]_vars PROVE IsFiniteSet(Underway')
    OBVIOUS
  <2>1. ASSUME NEW r \in Request, Issue(r) \/ Step(r) \/ Abort(r)
        PROVE  \A q \in Request : q # r => pc'[q] = pc[q]
    <3>1. pc \in [Request -> InFlight \cup {"idle", "ended"}]
      BY DEF IInv, TypeInv, TypeOK
    <3>2. CASE Issue(r)
      BY <3>1, <3>2, AskedIsThere DEF Ask
    <3>3. CASE Handle(r)
      BY <3>1, <3>3 DEF Handle, SetPlacement, ExecuteMove, CommitIntake, UpdateRoom, UpdateShelf,
             UpdateNode, CreateRoom, CreateShelf, PutLayout, Write
    <3>4. CASE Collect(r) \/ Acquire(r) \/ NotFound(r) \/ Refuse(r) \/ Commit(r) \/ Abort(r)
      BY <3>1, <3>4 DEF Collect, Acquire, NotFound, Refuse, Commit, Abort, RollBack, Close
    <3>5. QED
      BY <2>1, <3>2, <3>3, <3>4 DEF Step
  <2>2. CASE \E r \in Request : Issue(r) \/ Step(r) \/ Abort(r)
    <3>1. PICK r \in Request : \A q \in Request : q # r => pc'[q] = pc[q]
      BY <2>1, <2>2
    <3>2. Underway' \subseteq Underway \cup {r}
      BY <3>1 DEF Underway
    <3>3. IsFiniteSet(Underway \cup {r})
      BY FS_AddElement
    <3>4. QED
      BY <3>2, <3>3, FS_Subset
  <2>3. CASE UNCHANGED pc
    BY <2>3 DEF Underway
  <2>4. QED
    BY <2>2, <2>3 DEF Next, vars, CreateCopy, DeleteCopy
<1>3. QED
  BY <1>1, <1>2, InductiveInvariant, PTL DEF Spec

\* Of finitely many numbered things one has nothing above it.
LEMMA Greatest ==
    ASSUME NEW S, S # {}, IsFiniteSet(S), NEW f \in [S -> Int]
    PROVE  \E x \in S : \A y \in S : f[y] <= f[x]
<1> DEFINE Above(x) == {y \in S : f[x] < f[y]}
           height == [x \in S |-> Cardinality(Above(x))]
           Heights == {height[x] : x \in S}
<1>1. ASSUME NEW x \in S PROVE IsFiniteSet(Above(x)) /\ height[x] \in Nat
  <2>1. Above(x) \in SUBSET S
    OBVIOUS
  <2>2. IsFiniteSet(Above(x))
    BY <2>1, FS_Subset
  <2>3. QED
    BY <2>2, FS_CardinalityType
<1>2. PICK n \in Heights : \A m \in Heights : ~ (m < n)
  <2>1. Heights \subseteq Nat /\ Heights # {}
    BY <1>1
  <2>2. \E n \in Heights : \A m \in Heights : ~ (<<m, n>> \in OpToRel(<, Nat))
    <3> HIDE DEF Heights
    <3>1. QED
      BY <2>1, NatLessThanWellFounded, WFMin
  <2>3. \A m, n \in Nat : <<m, n>> \in OpToRel(<, Nat) <=> m < n
    BY DEF OpToRel
  <2>4. QED
    BY <2>1, <2>2, <2>3
<1>3. PICK x \in S : n = height[x]
  OBVIOUS
<1>4. ASSUME NEW y \in S, f[x] < f[y] PROVE FALSE
  <2>1. Above(y) \in SUBSET Above(x) /\ y \in Above(x) /\ y \notin Above(y)
    BY <1>4
  <2>2. Cardinality(Above(y)) <= Cardinality(Above(x))
        /\ Cardinality(Above(y)) # Cardinality(Above(x))
    <3> HIDE DEF Above
    <3>1. QED
      BY <1>1, <2>1, FS_Subset
  <2>3. height[y] < height[x]
    <3>1. height[y] = Cardinality(Above(y)) /\ height[x] = Cardinality(Above(x))
      OBVIOUS
    <3>2. height[y] \in Nat /\ height[x] \in Nat
      BY <1>1
    <3> HIDE DEF Above, height
    <3>3. QED
      BY <2>2, <3>1, <3>2
  <2>4. QED
    BY <1>2, <1>3, <2>3
<1>5. QED
  BY <1>4

\* Transactions lock in one order, so among those that wait the one that waits for the
\* greatest row waits for nobody who waits.
THEOREM NoDeadlock == Spec => []NoCircularWait
<1>1. IInv /\ RInv /\ IsFiniteSet(Underway) => NoCircularWait
  <2> SUFFICES ASSUME IInv, RInv, IsFiniteSet(Underway),
                      NEW S \in (SUBSET Request) \ {{}},
                      \A r \in S : /\ pc[r] = "lock"
                                   /\ \E x \in Missing(r) : IsNext(r, x) /\ lock[x] \in S
               PROVE  FALSE
    BY DEF NoCircularWait
  <2> DEFINE awaited == [r \in S |-> CHOOSE x \in Missing(r) : IsNext(r, x) /\ lock[x] \in S]
  <2>1. \A r \in S : awaited[r] \in Missing(r) /\ lock[awaited[r]] \in S
    OBVIOUS
  <2>2. S # {} /\ IsFiniteSet(S)
    <3>1. S \in SUBSET Underway
      BY DEF Underway
    <3>2. QED
      BY <3>1, FS_Subset
  <2>3. \A r \in S : awaited[r] \in Int /\ awaited[r] \in Resource
    <3>1. \A r \in S : need[r] \subseteq Resource /\ Resource \subseteq Int
      BY IdAssumption DEF IInv, TypeInv, TypeOK, Resource, Map!Resource, Map!Node
    <3>2. QED
      BY <2>1, <3>1 DEF Missing
  <2> HIDE DEF awaited
  <2>4. awaited \in [S -> Int]
    BY <2>3 DEF awaited
  <2>5. PICK r \in S : \A q \in S : awaited[q] <= awaited[r]
    BY <2>2, <2>4, Greatest
  <2>6. PICK q \in S : lock[awaited[r]] = q
    BY <2>1
  <2>7. awaited[r] \in Held(q)
    BY <2>3, <2>6 DEF Held
  <2>8. awaited[r] < awaited[q]
    BY <2>1, <2>7 DEF RInv, Reliance
  <2>9. QED
    BY <2>3, <2>5, <2>8
<1>2. QED
  BY <1>1, RelianceInvariant, FinitelyMany, PTL

-----------------------------------------------------------------------------
(* What EveryRequestEnds rests on: in a finite house no request locks for     *)
(* ever, and as long as one is in flight there is one that does not wait.     *)

\* How far a request is from its end: the stages left, and the rows it still has to lock.
Rank(r) ==
    IF pc[r] = "collect" THEN Cardinality(Resource) + 3
    ELSE IF pc[r] = "lock" THEN Cardinality(Missing(r)) + 2
    ELSE IF pc[r] = "write" THEN 1 ELSE 0

\* Every step of a request in flight brings it nearer to its end, and nobody takes a lock from it.
Nearer ==
    [][\A r \in Request : pc[r] \in InFlight =>
          /\ Step(r) => Rank(r)' < Rank(r)
          /\ Rank(r)' < Rank(r) \/ UNCHANGED <<pc[r], need[r], Held(r)>>]_vars

LEMMA RowsOfHouse ==
    ASSUME IsFiniteSet(Resource), NEW M \in SUBSET Resource
    PROVE  /\ IsFiniteSet(M) /\ Cardinality(M) \in Nat
           /\ Cardinality(Resource) \in Nat /\ Cardinality(M) <= Cardinality(Resource)
  BY FS_Subset, FS_CardinalityType

LEMMA MissingRows ==
    ASSUME IInv, IsFiniteSet(Resource), NEW r \in Request
    PROVE  /\ IsFiniteSet(Missing(r)) /\ Cardinality(Missing(r)) \in Nat
           /\ Cardinality(Resource) \in Nat /\ Cardinality(Missing(r)) <= Cardinality(Resource)
<1>1. Missing(r) \in SUBSET Resource
  BY DEF IInv, TypeInv, TypeOK, Missing
<1> QED
  BY <1>1, RowsOfHouse

LEMMA StepIsNearer ==
    ASSUME IInv, IInv', IsFiniteSet(Resource), NEW r \in Request, pc[r] \in InFlight, Step(r) \/ Abort(r)
    PROVE  Rank(r)' < Rank(r)
<1>1. /\ IsFiniteSet(Missing(r)) /\ Cardinality(Missing(r)) \in Nat
      /\ Cardinality(Resource) \in Nat /\ Cardinality(Missing(r)) <= Cardinality(Resource)
  BY MissingRows
<1>2. Cardinality(Missing(r)') <= Cardinality(Resource) /\ Cardinality(Missing(r)') \in Nat
  <2>1. Missing(r)' \in SUBSET Resource
    BY DEF IInv, TypeInv, TypeOK, Missing
  <2> QED
    BY <2>1, RowsOfHouse
<1>3. pc \in [Request -> InFlight \cup {"idle", "ended"}] /\ lock \in [Resource -> Request \cup {None}]
  BY DEF IInv, TypeInv, TypeOK
<1>4. CASE Collect(r)
  <2>1. pc[r] = "collect" /\ pc'[r] = "lock"
    BY <1>3, <1>4 DEF Collect
  <2> QED
    BY <1>1, <1>2, <2>1 DEF Rank
<1>5. CASE Acquire(r)
  <2>1. PICK x \in Missing(r) : lock[x] = None /\ lock' = [lock EXCEPT ![x] = r]
    BY <1>5 DEF Acquire
  <2>2. x \in Resource /\ pc' = pc /\ need' = need /\ pc[r] = "lock"
    BY <1>5, <2>1 DEF Acquire, Missing, IInv, TypeInv, TypeOK
  <2>3. Missing(r)' = Missing(r) \ {x}
    BY <1>3, <2>1, <2>2 DEF Missing, Held
  <2>4. Cardinality(Missing(r) \ {x}) = Cardinality(Missing(r)) - 1
    BY <1>1, <2>1, FS_RemoveElement
  <2>5. Rank(r)' = Cardinality(Missing(r)') + 2
    BY <2>2 DEF Rank
  <2> QED
    BY <1>1, <2>2, <2>3, <2>4, <2>5 DEF Rank
<1>6. CASE Handle(r)
  <2>1. pc[r] = "lock" /\ pc'[r] = "write"
    BY <1>3, <1>6 DEF Handle, SetPlacement, ExecuteMove, CommitIntake, UpdateRoom, UpdateShelf,
           UpdateNode, CreateRoom, CreateShelf, PutLayout, Write, Locked
  <2> QED
    BY <1>1, <2>1 DEF Rank
<1>7. CASE NotFound(r) \/ Refuse(r) \/ Commit(r) \/ Abort(r)
  <2>1. pc'[r] = "ended"
    BY <1>3, <1>7 DEF NotFound, Refuse, Commit, Abort, RollBack, Close
  <2>2. Rank(r) \in Nat \ {0}
    BY <1>1 DEF Rank, InFlight
  <2> QED
    BY <2>1, <2>2 DEF Rank
<1> QED
  BY <1>4, <1>5, <1>6, <1>7 DEF Step

LEMMA OthersKeepRank ==
    ASSUME IInv, NEW q \in Request, NEW r \in Request, q # r, pc[r] \in InFlight,
           Issue(q) \/ Step(q) \/ Abort(q)
    PROVE  UNCHANGED <<pc[r], need[r], Held(r)>>
<1>1. /\ pc \in [Request -> InFlight \cup {"idle", "ended"}] /\ need \in [Request -> SUBSET Resource]
      /\ lock \in [Resource -> Request \cup {None}]
  BY DEF IInv, TypeInv, TypeOK
<1>2. CASE Issue(q)
  BY <1>1, <1>2, AskedIsThere DEF Ask, Held
<1>3. CASE Handle(q)
  <2>1. /\ pc' = [pc EXCEPT ![q] = "write"]
        /\ need' = need /\ lock' = lock
    BY <1>3 DEF Handle, SetPlacement, ExecuteMove, CommitIntake, UpdateRoom, UpdateShelf,
           UpdateNode, CreateRoom, CreateShelf, PutLayout, Write
  <2> QED
    BY <1>1, <2>1 DEF Held
<1>4. CASE Collect(q)
  BY <1>1, <1>4 DEF Collect, Held
<1>5. CASE Acquire(q)
  <2>1. PICK x \in Missing(q) : lock[x] = None /\ lock' = [lock EXCEPT ![x] = q]
    BY <1>5 DEF Acquire
  <2>2. pc' = pc /\ need' = need
    BY <1>5 DEF Acquire
  <2>3. None # r
    BY NoneAssumption
  <2> QED
    BY <1>1, <2>1, <2>2, <2>3 DEF Held
<1>6. CASE NotFound(q) \/ Refuse(q) \/ Commit(q) \/ Abort(q)
  <2>1. Close(q)
    BY <1>6 DEF NotFound, Refuse, Commit, Abort, RollBack
  <2>2. None # r
    BY NoneAssumption
  <2> QED
    BY <1>1, <2>1, <2>2 DEF Close, Held
<1> QED
  BY <1>2, <1>3, <1>4, <1>5, <1>6 DEF Step

\* In a finite house a request takes at most Cardinality(Resource) + 3 steps, whatever the
\* others do meanwhile: each step brings it nearer to its end, and no other moves it away.
THEOREM RowsRunOut ==
    ASSUME IsFiniteSet(Resource)
    PROVE  Spec => [](\A r \in Request : pc[r] \in InFlight => Rank(r) \in 1 .. Cardinality(Resource) + 3)
                   /\ Nearer
<1>1. IInv => \A r \in Request : pc[r] \in InFlight => Rank(r) \in 1 .. Cardinality(Resource) + 3
  <2> SUFFICES ASSUME IInv, NEW r \in Request, pc[r] \in InFlight
               PROVE  Rank(r) \in 1 .. Cardinality(Resource) + 3
    OBVIOUS
  <2> QED
    BY MissingRows DEF Rank, InFlight
<1>2. IInv /\ IInv' /\ [Next]_vars =>
        [\A r \in Request : pc[r] \in InFlight =>
            /\ Step(r) => Rank(r)' < Rank(r)
            /\ Rank(r)' < Rank(r) \/ UNCHANGED <<pc[r], need[r], Held(r)>>]_vars
  <2> SUFFICES ASSUME IInv, IInv', Next, NEW r \in Request, pc[r] \in InFlight
               PROVE  /\ Step(r) => Rank(r)' < Rank(r)
                      /\ Rank(r)' < Rank(r) \/ UNCHANGED <<pc[r], need[r], Held(r)>>
    OBVIOUS
  <2>1. Step(r) \/ Abort(r) => Rank(r)' < Rank(r)
    BY StepIsNearer
  <2>2. ~ Issue(r)
    BY AskedIsThere DEF Issue, InFlight
  <2>3. CASE CreateCopy \/ DeleteCopy
    BY <2>3, <2>1 DEF CreateCopy, DeleteCopy, Held
  <2> QED
    BY <2>1, <2>2, <2>3, OthersKeepRank DEF Next
<1> QED
  BY <1>1, <1>2, InductiveInvariant, PTL DEF Spec, Nearer

\* The guard of a step of r holds: to collect, to commit, to lock the next row or to find it
\* missing, or, with all rows locked, to go on or refuse.
CanGo(r) ==
    \/ pc[r] \in {"collect", "write"}
    \/ /\ pc[r] = "lock"
       /\ Missing(r) = {} \/ \E x \in Missing(r) : IsNext(r, x) /\ (Exists(x) => lock[x] = None)

\* A row is locked by a request that is in flight.
LEMMA HoldersAreInFlight ==
    ASSUME IInv, NEW x \in Resource, lock[x] # None
    PROVE  lock[x] \in Request /\ pc[lock[x]] \in InFlight
  BY DEF IInv, TypeInv, TypeOK, Held, InFlight

\* Of the rows a request still has to lock, one comes next.
LEMMA NextRow ==
    ASSUME IInv, IsFiniteSet(Resource), NEW r \in Request, Missing(r) # {}
    PROVE  \E x \in Missing(r) : IsNext(r, x)
<1>1. IsFiniteSet(Missing(r))
  BY MissingRows
<1>2. Missing(r) \subseteq Int
  BY IdAssumption DEF IInv, TypeInv, TypeOK, Missing, Resource, Map!Resource, Map!Node
<1> DEFINE down == [x \in Missing(r) |-> -x]
<1>3. down \in [Missing(r) -> Int]
  BY <1>2
<1>4. PICK x \in Missing(r) : \A y \in Missing(r) : down[y] <= down[x]
  <2> HIDE DEF down
  <2> QED
    BY <1>1, <1>3, Greatest
<1>5. \A y \in Missing(r) : x <= y
  <2> SUFFICES ASSUME NEW y \in Missing(r) PROVE x <= y
    OBVIOUS
  <2>1. -y <= -x
    BY <1>4
  <2> QED
    BY <1>2, <2>1
<1> QED
  BY <1>5 DEF IsNext

\* The writers never all wait, for each other, for a row that is gone or for a transaction
\* that has ended: as long as a request is in flight, one can take its next step.
THEOREM SomeoneGoesOn ==
    ASSUME IsFiniteSet(Resource)
    PROVE  Spec => []((\E r \in Request : pc[r] \in InFlight) => \E r \in Request : CanGo(r))
<1>1. IInv /\ NoCircularWait =>
        ((\E r \in Request : pc[r] \in InFlight) => \E r \in Request : CanGo(r))
  <2> SUFFICES ASSUME IInv, NoCircularWait, NEW s \in Request, pc[s] \in InFlight,
                      \A r \in Request : ~ CanGo(r)
               PROVE  FALSE
    OBVIOUS
  <2> DEFINE S == {r \in Request : pc[r] \in InFlight}
  <2>1. ASSUME NEW r \in S
        PROVE  pc[r] = "lock" /\ \E x \in Missing(r) : IsNext(r, x) /\ lock[x] \in S
    <3>1. pc[r] = "lock" /\ Missing(r) # {}
      BY DEF CanGo, InFlight
    <3>2. PICK x \in Missing(r) : IsNext(r, x)
      BY <3>1, NextRow
    <3>3. x \in Resource /\ lock[x] # None
      BY <3>1, <3>2 DEF CanGo, Missing, IInv, TypeInv, TypeOK
    <3> QED
      BY <3>1, <3>2, <3>3, HoldersAreInFlight
  <2>2. S \in (SUBSET Request) \ {{}}
    OBVIOUS
  <2> HIDE DEF S
  <2> QED
    BY <2>1, <2>2 DEF NoCircularWait
<1> QED
  BY <1>1, InductiveInvariant, NoDeadlock, PTL

=============================================================================

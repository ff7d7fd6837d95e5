------------------------ MODULE BatchReconcile_proofs ------------------------
(***************************************************************************)
(* Proofs about BatchImport and BatchReconcile for every set of photos,    *)
(* pairing, library and scene: what holds of the manifest holds of the     *)
(* file and of the copy that a run works on, its Views.                    *)
(***************************************************************************)
EXTENDS BatchReconcile, FiniteSetTheorems, TLAPS

Status == {"pending", "recognized", "confirmed", "skip", "imported", "failed",
           "outcome_unknown"}

\* The book of a group: what its requests said of it, or a twin and what it took over.
Book == (SUBSET Field) \cup {{t} \cup X : t \in Twin, X \in SUBSET Field}

Request == {q \in Sent : q.root \in Main}
Answer  == [outcome : {"imported", "failed", "outcome_unknown"}, book : Link \cup {None}]
Plans   == UNION {[T -> SUBSET Photo] : T \in SUBSET Main}

Running == [pc : {"plan", "links", "loop", "wait", "answered"}, mem : [Photo -> Entry],
            late : SUBSET (Photo \ Main), todo : SUBSET Main, plan : Plans,
            request : Request \cup {None}, answer : Answer \cup {None}]

Group(g) == {m \in Photo \ {g} : Root[m] = g}

Asking == At("wait") \/ At("answered")

\* The groups a run has still to send for, and the one it waits for.
Taken == run.todo \cup IF Asking THEN {run.request.root} ELSE {}

RunOK ==
    /\ run = NoRun \/ run \in Running
    /\ run.pc \notin {"idle", "plan"} => run.mem = disk
    /\ Asking => run.request \in Request
    /\ run.pc \notin {"wait", "answered"} => run.request = None
    /\ At("answered") => /\ run.answer \in Answer
                         /\ run.answer.outcome = "imported" <=> run.answer.book # None
    /\ run # NoRun => /\ Taken \subseteq DOMAIN run.plan
                      /\ \A g \in DOMAIN run.plan : run.plan[g] \subseteq Group(g)
    /\ Asking => run.request.root \notin run.todo

Told3 == {"unknown", "gone"} \cup Alive

Recording ==
    [pc : {"map", "report", "save", "exit", "verify", "verified"}, mem : [Photo -> Entry],
     map : [group : Main, from : Link, to : Link, isbn : BOOLEAN] \cup {None}, apply : BOOLEAN,
     remapped : BOOLEAN, seen : [Main \X Link -> Told3 \cup {None}], entered : SUBSET Main,
     there : SUBSET (Main \X Link)]

RecOK ==
    /\ rec = NoRec \/ rec \in Recording
    /\ ~Stage("idle") => run = NoRun
    /\ Stage("map") => rec.map # None
    /\ rec.pc \in {"map", "verify", "verified"} => rec.mem = disk

TypeInv ==
    /\ scene \in Scenes
    /\ disk \in [Photo -> Entry]
    /\ RunOK
    /\ late \subseteq Request
    /\ library \in [Main -> SUBSET Book]
    /\ copies \in [Main -> 0 .. 2]
    /\ approved \subseteq Photo
    /\ vouched \in [Photo -> (SUBSET Field) \cup {None}]
    /\ asked \subseteq Main /\ died \subseteq Main
    /\ changes \in Nat /\ changes <= scene.changes
    /\ RecOK

-----------------------------------------------------------------------------
\* Entries that differ from others in some fields.
Without(e, S) == [e EXCEPT !.tried = e.tried \ S]
Reread(e, K, r) == [e EXCEPT !.status = "recognized", !.fields = e.fields \cup K, !.review = r]
Moved(e, l) == [e EXCEPT !.final = l]

\* The manifest on disk and, during a run, in its memory.
Views == {disk} \cup IF run = NoRun THEN {} ELSE {run.mem}

\* Whatever was attempted, or is to be, was let pass.
Passed(E, S) ==
    \A p \in Photo : /\ E[p].status \in {"confirmed", "failed", "outcome_unknown"} => p \in S
                     /\ E[p].tried \subseteq S

PassInv ==
    /\ \A E \in Views : Passed(E, approved)
    /\ \A g \in Taken : {g} \cup run.plan[g] \subseteq approved

\* What the owner confirmed of main photos stays in them, and is recorded as such unless it
\* still shows.
Vouched(E, V) ==
    \A p \in Photo :
        /\ E[p].status = "confirmed" \/ E[p].sure # {} => V[p] # None
        /\ p \in Main /\ V[p] # None =>
              /\ V[p] \subseteq E[p].fields
              /\ \/ V[p] \subseteq E[p].sure
                 \/ E[p].sure = {} /\ E[p].status \in {"confirmed", "skip"}

\* A group that is taken on has all that is known of it, and says what is confirmed.
Ready(g) ==
    /\ vouched[g] # None => vouched[g] \subseteq run.mem[g].sure
    /\ run.mem[g].fields # {}
    /\ \A m \in Group(g) : \/ run.mem[m].status \in {"pending", "skip", "imported"}
                           \/ run.mem[m].fields \subseteq run.mem[g].fields

\* Requests that are or may be carried out.
Open == late \cup IF At("wait") THEN {run.request} ELSE {}

SentInv ==
    /\ \A E \in Views : Vouched(E, vouched)
    /\ \A g \in Taken : Ready(g)
    /\ \A q \in Open : q.checked \subseteq q.confirmed
    /\ At("wait") => LET e == run.mem[run.request.root] IN
                     run.request.fields = e.fields /\ run.request.confirmed = e.sure
    /\ spoiled = {}

\* Of groups that nobody asked for again, and over which no run died.
Once == Main \ (asked \cup died)

Mine(S, g) == {q \in S : q.root = g}

\* Such a group has one request or one copy, and its entry tells, or is going to tell.
Sealed(e) == e.status \in {"imported", "outcome_unknown"}

CopyAt(g) ==
    /\ copies[g] <= 1
    /\ copies[g] = 1 => Mine(Open, g) = {}
    /\ \A q, r \in Mine(Open, g) : q = r
    /\ At("wait") /\ run.request.root = g => Mine(late, g) = {}
    /\ copies[g] # 0 \/ Mine(late, g) # {} =>
          /\ g \notin run.todo
          /\ IF At("answered") /\ run.request.root = g
             THEN run.answer.outcome # "failed"
             ELSE \A E \in Views : Sealed(E[g])

CopyInv == \A g \in Once : CopyAt(g)

\* A book that was made of requests is found by every request there may be, and by the next.
Meets(g, K) == \A b \in library[g] : b \subseteq Field => b \cap K # {}
BookInv ==
    /\ \A g \in Main : \A b, c \in library[g] : b \subseteq Field /\ c \subseteq Field => b = c
    /\ \A E \in Views, g \in Main : Meets(g, E[g].fields)
    /\ \A q \in Open : /\ Meets(q.root, q.fields) /\ q.fields # {}
                       /\ \A E \in Views : q.fields \subseteq E[q.root].fields
    /\ \A q, r \in Open : q.root = r.root => q.fields \subseteq r.fields \/ r.fields \subseteq q.fields

\* Imported photos are linked, those of a group alike; a link that was redirected leads to
\* a book that is there, as every link does while nothing has been merged or deleted.
LinkedAt(E, p) ==
    /\ E[p].status = "imported" <=> E[p].book # None
    /\ E[p].final # None => E[p].book # None /\ changes > 0
    /\ scene.changes <= 1 =>
          /\ E[p].status = "imported" =>
                E[Root[p]].status = "imported" /\ LinkOf(E[p]) = LinkOf(E[Root[p]])
          /\ E[p].final # None => <<Root[p], E[p].final>> \in There
    /\ changes = 0 /\ E[p].book # None => <<Root[p], E[p].book>> \in There

Linked(E) == \A p \in Photo : LinkedAt(E, p)

\* Every copy of the manifest that there is.
Manifests == Views \cup IF Stage("idle") THEN {} ELSE {rec.mem}

LinkInv ==
    /\ \A E \in Manifests : Linked(E)
    /\ At("answered") /\ run.answer.book # None /\ changes = 0 =>
          <<run.request.root, run.answer.book>> \in There
    /\ \A g \in Taken : run.mem[g].status # "imported"
    /\ run # NoRun => \A p \in run.late : run.mem[Root[p]].status = "imported"
    /\ changes = 0 => \A g \in Main : \A b \in library[g] : b = Id(b)

\* What a reconciliation or a verification has in its copy of the manifest, and was told.
SeenInv ==
    ~Stage("idle") =>
        /\ There \subseteq rec.there
        /\ \A l \in Main \X Link : rec.seen[l] \in Alive => l \in rec.there
        /\ \A p \in Photo :
             \/ rec.mem[p] = disk[p]
             \/ /\ disk[p].final = None /\ <<Root[p], rec.mem[p].final>> \in rec.there
                /\ rec.mem[p] = Moved(disk[p], rec.mem[p].final)

\* A group the server has entered shows it; a redirection leads away from where it starts.
RecInv ==
    ~Stage("idle") =>
        /\ \A g \in rec.entered : Sealed(rec.mem[g]) \/ g \in asked \cup died
        /\ Stage("map") =>
             /\ changes > 0
             /\ scene.changes <= 1 => \A p \in Group(rec.map.group) \cup {rec.map.group} :
                   rec.mem[p].final # rec.map.from

IInv == /\ TypeInv /\ SeenInv /\ PassInv /\ SentInv /\ CopyInv /\ BookInv /\ LinkInv
        /\ RecInv

-----------------------------------------------------------------------------
(* What the steps do to the manifest and to the run.                        *)

LEMMA BooksFit ==
    /\ None \notin Link /\ None \notin Sent
    /\ \A b \in Book : Id(b) \in Link
    /\ \A b \in SUBSET Field : b \in Book /\ Id(b) = b
    /\ \A t \in Twin, X \in SUBSET Field : /\ Id({t} \cup X) = {t}
                                           /\ ~({t} \cup X \subseteq Field)
                                           /\ {t} \cup X \in Book
<1>1. None \notin Link /\ None \notin Sent
  BY NoneAssumption
<1>2. ASSUME NEW t \in Twin, NEW X \in SUBSET Field
      PROVE  Id({t} \cup X) = {t} /\ ~({t} \cup X \subseteq Field) /\ {t} \cup X \in Book
  <2>1. t \notin Field
    BY TwinAssumption
  <2>2. ({t} \cup X) \ Field = {t}
    BY <2>1
  <2> QED BY <2>1, <2>2 DEF Id, Book
<1>3. ASSUME NEW b \in SUBSET Field PROVE b \in Book /\ Id(b) = b
  BY DEF Book, Id
<1>4. ASSUME NEW b \in Book PROVE Id(b) \in Link
  BY <1>2, <1>3 DEF Book, Link
<1> QED BY <1>1, <1>2, <1>3, <1>4

LEMMA InitialTypes == RInit => TypeInv
<1> SUFFICES ASSUME RInit PROVE TypeInv
  OBVIOUS
<1>1. disk \in [Photo -> Entry]
  BY DEF RInit, Init, Scanned, Entry
<1>2. library \in [Main -> SUBSET Book]
  <2>1. scene.twins \subseteq Twin
    BY SceneAssumption DEF RInit, Init
  <2>2. \A t \in Twin : {t} \in Book
    <3>1. ASSUME NEW t \in Twin PROVE {t} \in Book
      <4>1. {t} = {t} \cup {}
        OBVIOUS
      <4>2. {t} \cup {} \in Book
        BY BooksFit
      <4> QED BY <4>1, <4>2
    <3> QED BY <3>1
  <2> QED BY <2>1, <2>2 DEF RInit, Init
<1>3. RunOK /\ RecOK
  BY DEF RInit, Init, NoRun, NoRec, RunOK, RecOK, At, Asking, Stage
<1>4. changes \in Nat /\ changes <= scene.changes /\ scene \in Scenes
  BY SceneAssumption DEF RInit, Init
<1>5. copies \in [Main -> 0 .. 2] /\ vouched \in [Photo -> (SUBSET Field) \cup {None}]
  BY DEF RInit, Init
<1> QED BY <1>1, <1>2, <1>3, <1>4, <1>5 DEF RInit, Init, TypeInv

LEMMA RunCases ==
    ASSUME TypeInv
    PROVE  /\ run = NoRun <=> At("idle")
           /\ run # NoRun => run \in Running /\ run.mem \in [Photo -> Entry]
           /\ run.late \subseteq Photo \ Main /\ run.todo \subseteq Main
           /\ Asking => run.request.root \in Main
           /\ Taken \subseteq Main
           /\ rec = NoRec <=> Stage("idle")
           /\ rec # NoRec => rec \in Recording
<1>1. run.late \subseteq Photo \ Main /\ run.todo \subseteq Main /\ (run = NoRun <=> At("idle"))
  BY DEF TypeInv, RunOK, Running, NoRun, At
<1>2. Asking => run.request.root \in Main
  BY DEF TypeInv, RunOK, Request
<1>3. rec = NoRec <=> Stage("idle")
  BY DEF TypeInv, RecOK, Recording, NoRec, Stage
<1>4. run # NoRun => run \in Running /\ run.mem \in [Photo -> Entry]
  BY DEF TypeInv, RunOK, Running
<1>5. rec # NoRec => rec \in Recording
  BY DEF TypeInv, RecOK
<1> QED BY <1>1, <1>2, <1>3, <1>4, <1>5 DEF Taken

LEMMA EntryWithout ==
    ASSUME NEW e \in Entry, NEW S
    PROVE  LET n == Without(e, S) IN
           /\ n \in Entry /\ n = [e EXCEPT !.tried = n.tried] /\ n.tried \subseteq e.tried
           /\ n.fields = e.fields /\ n.sure = e.sure /\ n.book = e.book /\ n.final = e.final
           /\ n.status = e.status
  BY DEF Entry, Without

LEMMA EntryReread ==
    ASSUME NEW e \in Entry, NEW K \in SUBSET Field, NEW r \in BOOLEAN
    PROVE  /\ Reread(e, K, r) \in Entry /\ Reread(e, K, r).status = "recognized"
           /\ Reread(e, K, r).fields = e.fields \cup K /\ Reread(e, K, r).sure = e.sure
           /\ Reread(e, K, r).book = e.book /\ Reread(e, K, r).final = e.final
           /\ Reread(e, K, r).tried = e.tried
  BY DEF Entry, Reread

LEMMA EntryMoved ==
    ASSUME NEW e \in Entry, NEW l \in Link
    PROVE  LET n == Moved(e, l) IN
           /\ n \in Entry /\ n.final = l /\ n.book = e.book /\ n.status = e.status
           /\ n.fields = e.fields /\ n.sure = e.sure /\ n.tried = e.tried
  BY DEF Entry, Moved

\* One entry changes between runs, by hand.
LEMMA EditShape ==
    ASSUME TypeInv, NEW p \in Photo, Recognize(p) \/ Confirm(p) \/ Skip(p)
    PROVE  /\ run = NoRun /\ run' = NoRun /\ disk' \in [Photo -> Entry]
           /\ \A q \in Photo \ {p} : disk'[q] = [disk[q] EXCEPT !.tried = disk'[q].tried]
           /\ \A q \in Photo : disk'[q].tried \subseteq disk[q].tried
           /\ disk[p].fields \subseteq disk'[p].fields /\ disk'[p].sure = disk[p].sure
           /\ disk'[p].book = disk[p].book /\ disk'[p].final = disk[p].final
           /\ disk[p].status \in {"pending", "recognized", "confirmed", "failed"}
           /\ disk'[p].status \in {"recognized", "confirmed", "skip"}
           /\ vouched' \in [Photo -> (SUBSET Field) \cup {None}] /\ approved' \subseteq Photo
           /\ UNCHANGED <<late, library, copies, asked, died, spoiled>>
<1>1. disk[p] \in Entry /\ Shows[p] \subseteq Field /\ \A q \in Photo : disk[q] \in Entry
  BY PairingAssumption DEF TypeInv
<1>5. /\ disk = [q \in Photo |-> disk[q]] /\ approved \subseteq Photo /\ scene \in Scenes
      /\ vouched \in [Photo -> (SUBSET Field) \cup {None}]
  BY DEF TypeInv
<1>2. CASE Recognize(p)
  <2>1. PICK K \in {disk[p].fields, Shows[p]}, r \in scene.doubts :
           disk' = [Changed(disk, p) EXCEPT ![p].status = "recognized", ![p].fields = @ \cup K,
                                            ![p].review = r]
    BY <1>2 DEF Recognize
  <2>2. K \in SUBSET Field /\ r \in BOOLEAN
    BY <1>1, <1>5, SceneAssumption DEF Entry
  <2> DEFINE C == Changed(disk, p)
  <2>3. C = [q \in Photo |-> C[q]]
    BY DEF Changed
  <2>4. ASSUME NEW q \in Photo
        PROVE  C[q] = Without(disk[q], {p})
    BY DEF Changed, Without
  <2>5. ASSUME NEW q \in Photo
        PROVE  /\ C[q] \in Entry /\ C[q].tried \subseteq disk[q].tried
               /\ C[q] = [disk[q] EXCEPT !.tried = C[q].tried]
               /\ C[q].fields = disk[q].fields /\ C[q].sure = disk[q].sure
               /\ C[q].book = disk[q].book /\ C[q].final = disk[q].final
    <3> HIDE DEF C
    <3>1. disk[q] \in Entry
      BY <1>1
    <3> QED BY <2>4, <3>1, EntryWithout
  <2> HIDE DEF C
  <2>6. ASSUME NEW q \in Photo \ {p}
        PROVE  /\ disk'[q] = [disk[q] EXCEPT !.tried = disk'[q].tried] /\ disk'[q] \in Entry
               /\ disk'[q].tried \subseteq disk[q].tried
    <3>1. disk'[q] = C[q]
      BY <2>1, <2>3 DEF C
    <3> QED BY <3>1, <2>5
  <2>8. disk'[p] = Reread(C[p], K, r)
    BY <2>1, <2>3 DEF C, Reread
  <2>9. disk'[p] \in Entry
    <3>1. C[p] \in Entry
      BY <2>5
    <3>2. Reread(C[p], K, r) \in Entry
      BY <2>2, <3>1, EntryReread
    <3> QED BY <2>8, <3>2
  <2>10. disk' \in [Photo -> Entry]
    <3>1. disk' = [q \in Photo |-> disk'[q]]
      BY <2>1, <2>3 DEF C
    <3> QED BY <3>1, <2>6, <2>9
  <2>7. /\ disk'[p].tried \subseteq disk[p].tried /\ disk[p].fields \subseteq disk'[p].fields
        /\ disk'[p].sure = disk[p].sure /\ disk'[p].book = disk[p].book
        /\ disk'[p].final = disk[p].final /\ disk'[p].status = "recognized"
    <3>1. C[p] \in Entry
      BY <2>5
    <3>2. LET n == disk'[p] IN
             /\ n.status = "recognized" /\ n.fields = C[p].fields \cup K
             /\ n.sure = C[p].sure /\ n.book = C[p].book /\ n.final = C[p].final
             /\ n.tried = C[p].tried
      BY <2>8, <2>2, <3>1, EntryReread
    <3> QED BY <3>2, <2>5
  <2> QED BY <2>6, <2>7, <2>10, <1>2, <1>5 DEF Recognize
<1>3. CASE Confirm(p)
  <2>1. PICK K \in {disk[p].fields, disk[p].fields \cup Shows[p]} :
          /\ disk' = [disk EXCEPT ![p].status = "confirmed", ![p].fields = K]
          /\ vouched' = [vouched EXCEPT ![p] = IF @ = None THEN K ELSE @]
    BY <1>3 DEF Confirm
  <2>2. K \subseteq Field /\ disk[p].fields \subseteq K
    BY <1>1 DEF Entry
  <2>3. disk'[p] = [disk[p] EXCEPT !.status = "confirmed", !.fields = K]
    BY <2>1, <1>5
  <2>4. \A q \in Photo \ {p} : disk'[q] = disk[q]
    BY <2>1, <1>5
  <2>5. disk'[p] \in Entry
    BY <2>3, <2>2, <1>1 DEF Entry
  <2>6. \A q \in Photo \ {p} : disk'[q] = [disk[q] EXCEPT !.tried = disk'[q].tried]
    BY <2>4, <1>1 DEF Entry
  <2>7. vouched' \in [Photo -> (SUBSET Field) \cup {None}]
    BY <2>1, <2>2, <1>5
  <2>8. disk' \in [Photo -> Entry]
    BY <2>1, <2>4, <2>5, <1>1, <1>5
  <2>9. /\ disk'[p].tried = disk[p].tried /\ disk[p].fields \subseteq disk'[p].fields
        /\ disk'[p].sure = disk[p].sure /\ disk'[p].book = disk[p].book
        /\ disk'[p].final = disk[p].final /\ disk'[p].status = "confirmed"
    BY <2>3, <2>2, <1>1 DEF Entry
  <2> QED BY <2>4, <2>6, <2>7, <2>8, <2>9, <1>3, <1>5 DEF Confirm
<1>4. CASE Skip(p)
  <2>1. disk'[p] = [disk[p] EXCEPT !.status = "skip"] /\ disk' = [disk EXCEPT ![p] = disk'[p]]
    BY <1>4, <1>5 DEF Skip
  <2>2. \A q \in Photo \ {p} : disk'[q] = disk[q] /\ disk'[q] = [disk[q] EXCEPT !.tried = disk'[q].tried]
    BY <2>1, <1>1, <1>5 DEF Entry
  <2>3. disk' \in [Photo -> Entry]
    BY <2>1, <2>2, <1>1, <1>5 DEF Entry
  <2>4. /\ disk'[p].tried = disk[p].tried /\ disk[p].fields = disk'[p].fields
        /\ disk'[p].sure = disk[p].sure /\ disk'[p].book = disk[p].book
        /\ disk'[p].final = disk[p].final /\ disk'[p].status = "skip"
    BY <2>1, <1>1 DEF Entry
  <2> QED BY <2>2, <2>3, <2>4, <1>4, <1>5 DEF Skip
<1> QED BY <1>2, <1>3, <1>4

\* What a run takes on, and how it leaves the entries.
LEMMA BeginShape ==
    ASSUME TypeInv, NEW o \in Option, Begin(o)
    PROVE  LET T == Todo(disk, o) IN
           /\ run = NoRun /\ run' \in Running /\ run'.pc = "plan" /\ run'.request = None
           /\ T \subseteq Main /\ run'.todo \subseteq T /\ T = DOMAIN run'.plan
           /\ run'.late = LateLinks(disk, o) /\ run'.mem \in [Photo -> Entry]
           /\ \A g \in T : run'.plan[g] = Plan(disk, o, g)
           /\ \A p \in Photo \ T : run'.mem[p] = disk[p]
           /\ \A g \in T :
                 /\ run'.mem[g].fields = Merged(disk, Plan(disk, o, g), g)
                 /\ run'.mem[g].sure = SureNow(disk[g], run'.mem[g].fields)
                 /\ \/ /\ run'.mem[g].status = disk[g].status /\ run'.mem[g].book = disk[g].book
                       /\ run'.mem[g].final = disk[g].final /\ run'.mem[g].tried = disk[g].tried
                    \/ /\ run'.mem[g].status = "failed" /\ run'.mem[g].book = None
                       /\ run'.mem[g].final = None /\ run'.mem[g].tried = {}
           /\ \A g \in run'.todo : run'.mem[g].fields # {}
           /\ disk' = disk /\ vouched' = vouched /\ approved \subseteq approved'
           /\ approved' \subseteq Photo
           /\ UNCHANGED <<late, library, copies, died, spoiled>>
<1> DEFINE T == Todo(disk, o)
           L == LateLinks(disk, o)
           P == [g \in T |-> Plan(disk, o, g)]
<1>1. T \subseteq Main /\ L \subseteq Photo \ Main
  BY DEF Todo, Senders, LateLinks
<1>2. PICK X \in SUBSET T :
         run' = [NoRun EXCEPT !.pc = "plan", !.late = L, !.plan = P,
             !.todo = {g \in T \ X : Merged(disk, P[g], g) # {}},
             !.mem = [p \in Photo |-> IF p \in T THEN Prepared(disk, o, p, p \in X)
                                                ELSE disk[p]]]
  BY DEF Begin
<1> DEFINE mem == [p \in Photo |-> IF p \in T THEN Prepared(disk, o, p, p \in X) ELSE disk[p]]
           todo == {g \in T \ X : Merged(disk, P[g], g) # {}}
<1>3. /\ run' = [pc |-> "plan", mem |-> mem, late |-> L, todo |-> todo, plan |-> P,
                request |-> None, answer |-> None]
  BY <1>2 DEF NoRun
<1>4. \A g \in T : Plan(disk, o, g) \subseteq Photo /\ P[g] = Plan(disk, o, g)
  BY DEF Plan, Members
<1>5. P \in Plans
  <2>1. P \in [T -> SUBSET Photo]
    BY <1>4
  <2> QED BY <2>1, <1>1 DEF Plans
<1>6. ASSUME NEW g \in T
      PROVE  /\ mem[g] \in Entry
             /\ mem[g].fields = Merged(disk, Plan(disk, o, g), g)
             /\ mem[g].sure = SureNow(disk[g], mem[g].fields)
             /\ \/ /\ mem[g].status = disk[g].status /\ mem[g].book = disk[g].book
                   /\ mem[g].final = disk[g].final /\ mem[g].tried = disk[g].tried
                \/ /\ mem[g].status = "failed" /\ mem[g].book = None
                   /\ mem[g].final = None /\ mem[g].tried = {}
  <2> DEFINE K == Merged(disk, Plan(disk, o, g), g)
             s == SureNow(disk[g], K)
  <2>1. \A p \in Photo : disk[p] \in Entry
    BY DEF TypeInv
  <2>2. disk[g] \in Entry /\ g \in Photo
    BY <2>1, <1>1 DEF Main
  <2>3. K \in SUBSET Field
    <3>1. \A p \in Photo : disk[p].fields \subseteq Field
      BY <2>1 DEF Entry
    <3> QED BY <3>1, <2>2, <1>4 DEF Merged
  <2>4. s \in SUBSET Field
    BY <2>2, <2>3 DEF SureNow, Entry
  <2>5. mem[g] = Prepared(disk, o, g, g \in X)
    BY <2>2
  <2> HIDE DEF K, s
  <2> QED
    BY <2>2, <2>3, <2>4, <2>5
    DEF Prepared, Entry, K, s
<1>7. mem \in [Photo -> Entry]
  <2>1. \A p \in Photo : mem[p] \in Entry
    BY <1>6 DEF TypeInv
  <2> QED BY <2>1
<1>8. \A p \in Photo \ T : mem[p] = disk[p]
  OBVIOUS
<1>9. \A g \in todo : g \in T /\ mem[g].fields # {}
  BY <1>4, <1>6
<1> HIDE DEF T, L, P, mem
<1>10. /\ disk' = disk /\ vouched' = vouched /\ run = NoRun
       /\ UNCHANGED <<late, library, copies, died, spoiled>>
  BY DEF Begin
<1>11. approved \subseteq approved' /\ approved' \subseteq Photo
  BY <1>1, <1>4 DEF Begin, TypeInv, T, L, Main
<1>12. todo \subseteq T /\ DOMAIN P = T
  BY DEF P
<1> HIDE DEF todo
<1>13. /\ run'.pc = "plan" /\ run'.mem = mem /\ run'.late = L /\ run'.todo = todo
       /\ run'.plan = P /\ run'.request = None /\ run' \in Running
  BY <1>1, <1>3, <1>5, <1>7, <1>12 DEF Running
<1>14. \A g \in T : run'.plan[g] = Plan(disk, o, g)
  BY <1>4, <1>13
<1> QED
  BY <1>1, <1>6, <1>7, <1>8, <1>9, <1>10, <1>11, <1>12, <1>13, <1>14 DEF T, L

\* Photos that come late take the link of their main photo.
LEMMA LinksShape ==
    ASSUME TypeInv, SaveLinks
    PROVE  /\ run # NoRun /\ run' \in Running /\ run'.pc = "loop" /\ run'.mem = disk'
           /\ run'.todo = run.todo /\ run'.plan = run.plan /\ run'.late = run.late
           /\ run'.request = run.request /\ disk' \in [Photo -> Entry]
           /\ \A p \in Photo \ run.late : disk'[p] = run.mem[p]
           /\ \A p \in run.late :
                 /\ disk'[p].status = "imported" /\ disk'[p].tried = {} /\ disk'[p].final = None
                 /\ disk'[p].book = LinkOf(run.mem[Root[p]])
                 /\ disk'[p].fields = run.mem[p].fields /\ disk'[p].sure = run.mem[p].sure
           /\ UNCHANGED <<late, library, copies, approved, vouched, asked, died, spoiled>>
<1> DEFINE mem == [p \in Photo |-> IF p \in run.late
                     THEN [run.mem[p] EXCEPT !.status = "imported", !.tried = {}, !.final = None,
                                             !.book = LateLink(run.mem[Root[p]])]
                     ELSE run.mem[p]]
<1>1. disk' = mem /\ run' = [run EXCEPT !.pc = "loop", !.mem = mem] /\ run.pc = "links"
  BY DEF SaveLinks, At
<1>2. run # NoRun /\ run \in Running /\ run.mem \in [Photo -> Entry] /\ run.late \subseteq Photo
  BY <1>1, RunCases DEF NoRun, At
<1>3. ASSUME NEW p \in Photo
      PROVE  /\ mem[p] \in Entry
             /\ p \in run.late =>
                  /\ mem[p].status = "imported" /\ mem[p].tried = {} /\ mem[p].final = None
                  /\ mem[p].book = LinkOf(run.mem[Root[p]])
                  /\ mem[p].fields = run.mem[p].fields /\ mem[p].sure = run.mem[p].sure
  <2>1. run.mem[p] \in Entry /\ run.mem[Root[p]] \in Entry
    BY <1>2, PairingAssumption
  <2> DEFINE l == LateLink(run.mem[Root[p]])
  <2>2. l \in Link \cup {None} /\ l = LinkOf(run.mem[Root[p]])
    BY <2>1 DEF LateLink, LinkOf, Entry
  <2>3. CASE p \in run.late
    <3>1. mem[p] = [run.mem[p] EXCEPT !.status = "imported", !.tried = {}, !.final = None, !.book = l]
      BY <2>3
    <3> HIDE DEF l, mem
    <3> QED BY <3>1, <2>1, <2>2 DEF Entry
  <2> QED BY <2>1, <2>3
<1>4. \A p \in Photo \ run.late : mem[p] = run.mem[p]
  OBVIOUS
<1>5. mem \in [Photo -> Entry]
  <2>1. \A p \in Photo : mem[p] \in Entry
    BY <1>3
  <2> QED BY <2>1
<1> HIDE DEF mem
<1>6. /\ run'.pc = "loop" /\ run'.mem = mem /\ run'.todo = run.todo /\ run'.plan = run.plan
      /\ run'.late = run.late /\ run'.request = run.request /\ run' \in Running
  BY <1>1, <1>2, <1>5 DEF Running
<1>7. UNCHANGED <<late, library, copies, approved, vouched, asked, died, spoiled>>
  BY DEF SaveLinks
<1>8. \A p \in run.late : p \in Photo
  BY <1>2
<1> QED
  BY <1>1, <1>2, <1>3, <1>4, <1>5, <1>6, <1>7, <1>8

\* The outcome of a request is recorded for the group.
LEMMA RecordShape ==
    ASSUME TypeInv, Record
    PROVE  LET g == run.request.root
               a == run.answer
           IN
           /\ At("answered") /\ run # NoRun /\ run' \in Running /\ run'.pc = "loop" /\ run'.mem = disk'
           /\ run'.todo = run.todo /\ run'.plan = run.plan /\ run'.late = run.late
           /\ run'.request = None /\ disk' \in [Photo -> Entry] /\ g \in Main
           /\ a \in Answer /\ (a.outcome = "imported" <=> a.book # None)
           /\ g \in DOMAIN run.plan /\ run.plan[g] \subseteq Group(g)
           /\ \A p \in Photo : disk'[p].fields = disk[p].fields /\ disk'[p].sure = disk[p].sure
           /\ disk'[g].status = a.outcome /\ disk'[g].book = a.book /\ disk'[g].final = None
           /\ disk'[g].tried = run.plan[g]
           /\ \A p \in run.plan[g] : a.outcome = "imported" =>
                 /\ disk'[p].status = "imported" /\ disk'[p].book = a.book
                 /\ disk'[p].final = None /\ disk'[p].tried = {}
           /\ \A p \in Photo \ {g} : p \notin run.plan[g] \/ a.outcome # "imported" =>
                 disk'[p] = disk[p]
           /\ UNCHANGED <<late, library, copies, approved, vouched, asked, died, spoiled>>
<1> DEFINE g == run.request.root
           a == run.answer
           mem == [p \in Photo |->
              IF p = g
              THEN [run.mem[p] EXCEPT !.status = a.outcome, !.book = a.book, !.final = None,
                                     !.tried = run.plan[g]]
              ELSE IF p \in run.plan[g] /\ a.outcome = "imported"
              THEN [run.mem[p] EXCEPT !.status = "imported", !.book = a.book, !.final = None,
                                     !.tried = {}]
              ELSE run.mem[p]]
<1>1. /\ disk' = mem /\ run.pc = "answered"
      /\ run' = [run EXCEPT !.pc = "loop", !.mem = mem, !.request = None, !.answer = None]
  BY DEF Record, At
<1>2. /\ run # NoRun /\ run \in Running /\ run.mem \in [Photo -> Entry] /\ Asking
  BY <1>1, RunCases DEF NoRun, Asking, At
<1>3. /\ run.mem = disk /\ g \in Main /\ g \in DOMAIN run.plan /\ run.plan[g] \subseteq Group(g)
      /\ a \in Answer /\ (a.outcome = "imported" <=> a.book # None)
  BY <1>1, <1>2 DEF TypeInv, RunOK, Taken, Request, Asking, At
<1>4. /\ g \in Photo /\ run.plan[g] \subseteq Photo /\ g \notin run.plan[g]
      /\ a.outcome \in {"imported", "failed", "outcome_unknown"} /\ a.book \in Link \cup {None}
  BY <1>3 DEF Main, Group, Answer
<1> HIDE DEF a, g
<1>5. ASSUME NEW p \in Photo
      PROVE  /\ mem[p] \in Entry /\ mem[p].fields = run.mem[p].fields /\ mem[p].sure = run.mem[p].sure
             /\ p = g => /\ mem[p].status = a.outcome /\ mem[p].book = a.book
                         /\ mem[p].final = None /\ mem[p].tried = run.plan[g]
             /\ p \in run.plan[g] /\ a.outcome = "imported" =>
                         /\ mem[p].status = "imported" /\ mem[p].book = a.book
                         /\ mem[p].final = None /\ mem[p].tried = {}
             /\ p # g /\ (p \notin run.plan[g] \/ a.outcome # "imported") => mem[p] = run.mem[p]
  <2> DEFINE e == run.mem[p]
             n == mem[p]
  <2>1. e \in Entry
    BY <1>2
  <2>2. CASE p = g
    <3>1. n = [e EXCEPT !.status = a.outcome, !.book = a.book, !.final = None, !.tried = run.plan[g]]
      BY <2>2
    <3> HIDE DEF e, n
    <3>2. /\ n \in Entry /\ n.fields = e.fields /\ n.sure = e.sure
          /\ n.status = a.outcome /\ n.book = a.book /\ n.final = None /\ n.tried = run.plan[g]
      BY <3>1, <2>1, <1>4 DEF Entry
    <3> QED BY <3>2, <2>2, <1>4 DEF e, n
  <2>3. CASE p # g /\ p \in run.plan[g] /\ a.outcome = "imported"
    <3>1. n = [e EXCEPT !.status = "imported", !.book = a.book, !.final = None, !.tried = {}]
      BY <2>3
    <3> HIDE DEF e, n
    <3>2. /\ n \in Entry /\ n.fields = e.fields /\ n.sure = e.sure
          /\ n.status = "imported" /\ n.book = a.book /\ n.final = None /\ n.tried = {}
      BY <3>1, <2>1, <1>4 DEF Entry
    <3> QED BY <3>2, <2>3 DEF e, n
  <2>4. CASE p # g /\ ~(p \in run.plan[g] /\ a.outcome = "imported")
    <3>1. n = e
      BY <2>4
    <3> QED BY <3>1, <2>1, <2>4
  <2> QED BY <2>2, <2>3, <2>4
<1>6. mem \in [Photo -> Entry]
  <2>1. \A p \in Photo : mem[p] \in Entry
    BY <1>5
  <2> QED BY <2>1
<1> HIDE DEF mem
<1>7. /\ run'.pc = "loop" /\ run'.mem = mem /\ run'.todo = run.todo /\ run'.plan = run.plan
      /\ run'.late = run.late /\ run'.request = None /\ run' \in Running
  BY <1>1, <1>2, <1>6 DEF Running
<1>8. UNCHANGED <<late, library, copies, approved, vouched, asked, died, spoiled>>
  BY DEF Record
<1>9. At("answered")
  BY <1>1 DEF At
<1> QED
  BY <1>1, <1>2, <1>3, <1>4, <1>5, <1>6, <1>7, <1>8, <1>9 DEF g, a

LEMMA WhatIsThere ==
    ASSUME NEW L \in [Main -> SUBSET Book]
    PROVE  UNION {{<<g, Id(b)>> : b \in L[g]} : g \in Main} \subseteq Main \X Link
<1> SUFFICES ASSUME NEW g \in Main, NEW b \in L[g] PROVE <<g, Id(b)>> \in Main \X Link
  OBVIOUS
<1>1. b \in Book
  OBVIOUS
<1> QED BY <1>1, BooksFit

\* A request that is carried out enters a book, or finds one.
LEMMA EnterShape ==
    ASSUME TypeInv, NEW q \in Request, NEW K, NEW answered, Enter(q, K, answered)
    PROVE  /\ K \in SUBSET Field /\ q.fields \subseteq K /\ q.root \in Main
           /\ library' \in [Main -> SUBSET Book] /\ copies' \in [Main -> 0 .. 2]
           /\ \A g \in Main : /\ library[g] \subseteq library'[g]
                              /\ g # q.root => library'[g] = library[g] /\ copies'[g] = copies[g]
           /\ \A b \in library'[q.root] \ library[q.root] :
                 b = K /\ \A c \in library[q.root] : c \cap K = {}
           /\ copies[q.root] = 0 => copies'[q.root] = 1
           /\ There \subseteq There'
           /\ Found(q, K) = {} => K \in library'[q.root]
           /\ q.checked \subseteq q.confirmed => spoiled' = spoiled
<1>1. q.root \in Main /\ Root[q.root] = q.root /\ q \in Sent
  BY DEF Request, Main
<1>2. K \in SUBSET Field /\ q.fields \subseteq K
  BY DEF Enter, Gathered
<1>3. K \in Book
  BY <1>2, BooksFit
<1>4. /\ library \in [Main -> SUBSET Book] /\ copies \in [Main -> 0 .. 2]
  BY DEF TypeInv
<1>5. /\ library' = [library EXCEPT ![q.root] = IF Found(q, K) # {} THEN @ ELSE @ \cup {K}]
      /\ copies' = [copies EXCEPT ![q.root] = IF @ < 2 THEN @ + 1 ELSE @]
  BY <1>1 DEF Enter
<1>6. copies' \in [Main -> 0 .. 2] /\ (copies[q.root] = 0 => copies'[q.root] = 1)
  <2>1. copies[q.root] \in 0 .. 2
    BY <1>1, <1>4
  <2>2. (IF copies[q.root] < 2 THEN copies[q.root] + 1 ELSE copies[q.root]) \in 0 .. 2
    BY <2>1
  <2> QED BY <1>1, <1>4, <1>5, <2>1, <2>2
<1>7. Found(q, K) = {b \in library[q.root] : b \cap K # {}}
  BY <1>1 DEF Found
<1>8. library' \in [Main -> SUBSET Book]
  BY <1>1, <1>3, <1>4, <1>5
<1>9. \A g \in Main : /\ library[g] \subseteq library'[g]
                      /\ g # q.root => library'[g] = library[g] /\ copies'[g] = copies[g]
  BY <1>1, <1>4, <1>5
<1>10. \A b \in library'[q.root] \ library[q.root] :
          b = K /\ \A c \in library[q.root] : c \cap K = {}
  BY <1>1, <1>4, <1>5, <1>7
<1>11. There \subseteq There'
  <2> SUFFICES ASSUME NEW g \in Main, NEW b \in library[g] PROVE <<g, Id(b)>> \in There'
    BY DEF There
  <2>1. library[g] \subseteq library'[g]
    BY <1>9
  <2>2. b \in library'[g]
    BY <2>1
  <2> QED BY <2>2 DEF There
<1>12. q.checked \subseteq q.confirmed => spoiled' = spoiled
  BY DEF Enter, Replaced, Protected
<1>13. Found(q, K) = {} => K \in library'[q.root]
  BY <1>1, <1>4, <1>5
<1> QED BY <1>1, <1>2, <1>6, <1>8, <1>9, <1>10, <1>11, <1>12, <1>13

\* Upkeep takes books away, or makes them a twin's that was there.
LEMMA UpkeepShape ==
    ASSUME TypeInv, Upkeep
    PROVE  /\ library' \in [Main -> SUBSET Book]
           /\ \A g \in Main : \A b \in library'[g] : b \in library[g] \/ ~(b \subseteq Field)
           /\ There' \subseteq There
           /\ changes' = changes + 1 /\ changes' <= scene.changes /\ changes' \in Nat
           /\ UNCHANGED <<disk, run, late, copies, approved, vouched, asked, died, spoiled, rec>>
<1>1. library \in [Main -> SUBSET Book] /\ changes \in Nat /\ scene.changes \in Nat
  BY SceneAssumption DEF TypeInv
<1> DEFINE Kept(g, b) ==
          \/ library' = [library EXCEPT ![g] = @ \ {b}]
          \/ /\ b \subseteq Field
             /\ \E t \in {s \in Twin : {s} \in library[g]} :
                   library' = [library EXCEPT ![g] = (@ \ {b, {t}}) \cup {Heir(t, b)}]
<1>6. PICK g \in Main : \E b \in library[g] : Kept(g, b)
  BY DEF Upkeep
<1>2. PICK b \in library[g] : Kept(g, b)
  BY <1>6
<1>3. changes' = changes + 1 /\ changes' <= scene.changes /\ changes' \in Nat
  BY <1>1 DEF Upkeep
<1>4. CASE library' = [library EXCEPT ![g] = @ \ {b}]
  <2>1. \A h \in Main : library'[h] \subseteq library[h]
    BY <1>1, <1>4
  <2>2. There' \subseteq There
    BY <2>1 DEF There
  <2>3. library' \in [Main -> SUBSET Book]
    BY <1>1, <1>4
  <2> QED BY <1>3, <2>1, <2>2, <2>3 DEF Upkeep
<1>5. ASSUME NEW t \in Twin, {t} \in library[g], b \subseteq Field,
             library' = [library EXCEPT ![g] = (@ \ {b, {t}}) \cup {Heir(t, b)}]
      PROVE  /\ library' \in [Main -> SUBSET Book]
             /\ \A h \in Main : \A c \in library'[h] : c \in library[h] \/ ~(c \subseteq Field)
             /\ There' \subseteq There
  <2>1. PICK X \in SUBSET Field : Heir(t, b) = {t} \cup X
    <3>1. CASE t \in Odd
      BY <3>1 DEF Heir
    <3>2. CASE t \notin Odd
      <4>1. Heir(t, b) = {t} \cup (b \cap {"isbn"})
        BY <3>2 DEF Heir
      <4> QED BY <4>1, <1>5
    <3> QED BY <3>1, <3>2
  <2>2. Heir(t, b) \in Book /\ ~(Heir(t, b) \subseteq Field) /\ Id(Heir(t, b)) = {t}
    <3>1. LET h == {t} \cup X IN h \in Book /\ ~(h \subseteq Field) /\ Id(h) = {t}
      BY BooksFit
    <3> QED BY <2>1, <3>1
  <2>3. Id({t}) = {t}
    <3>1. {t} = {t} \cup {} /\ {} \in SUBSET Field
      OBVIOUS
    <3>2. Id({t} \cup {}) = {t}
      BY <3>1, BooksFit
    <3> QED BY <3>1, <3>2
  <2>4. \A h \in Main : \A c \in library'[h] :
           c \in library[h] \/ (h = g /\ c = Heir(t, b))
    BY <1>1, <1>5
  <2>5. There' \subseteq There
    <3> SUFFICES ASSUME NEW h \in Main, NEW c \in library'[h] PROVE <<h, Id(c)>> \in There
      BY DEF There
    <3>1. CASE c \in library[h]
      BY <3>1 DEF There
    <3>2. CASE h = g /\ c = Heir(t, b)
      <4>1. Id(c) = Id({t})
        BY <3>2, <2>2, <2>3
      <4> QED BY <4>1, <3>2, <1>5 DEF There
    <3> QED BY <3>1, <3>2, <2>4
  <2>6. library' \in [Main -> SUBSET Book]
    BY <1>1, <1>5, <2>2
  <2> QED BY <2>2, <2>4, <2>5, <2>6
<1> QED BY <1>2, <1>3, <1>4, <1>5 DEF Upkeep

\* Sending a request and learning of it leave the manifest alone.
LEMMA SendShape ==
    ASSUME TypeInv, Send
    PROVE  \E g \in run.todo :
             /\ g \in Main /\ run # NoRun /\ At("loop") /\ run' \in Running
             /\ run'.pc = "wait" /\ run'.mem = run.mem /\ run'.plan = run.plan
             /\ run'.late = run.late /\ run'.todo = run.todo \ {g}
             /\ run'.request \in Request /\ run'.request.root = g
             /\ run'.request.fields = run.mem[g].fields
             /\ run'.request.confirmed = run.mem[g].sure
             /\ vouched[g] # None => run'.request.checked = vouched[g]
             /\ vouched[g] = None => run'.request.checked = {}
             /\ UNCHANGED <<disk, late, library, copies, approved, vouched, asked, died, spoiled>>
<1>1. /\ run # NoRun /\ run \in Running /\ run.mem \in [Photo -> Entry] /\ run.todo \subseteq Main
      /\ vouched \in [Photo -> (SUBSET Field) \cup {None}]
  BY RunCases DEF Send, At, NoRun, TypeInv
<1>2. PICK g \in run.todo :
          run' = [run EXCEPT !.pc = "wait", !.todo = @ \ {g},
             !.request = [root |-> g, fields |-> run.mem[g].fields, confirmed |-> run.mem[g].sure,
                          checked |-> IF vouched[g] = None THEN {} ELSE vouched[g]]]
  BY DEF Send
<1>3. g \in Main /\ g \in Photo /\ run.mem[g] \in Entry
  BY <1>1 DEF Main
<1> DEFINE q == [root |-> g, fields |-> run.mem[g].fields, confirmed |-> run.mem[g].sure,
                 checked |-> IF vouched[g] = None THEN {} ELSE vouched[g]]
<1>4. q \in Request
  BY <1>1, <1>3 DEF Request, Sent, Entry
<1>5. /\ q.root = g /\ q.fields = run.mem[g].fields /\ q.confirmed = run.mem[g].sure
      /\ vouched[g] # None => q.checked = vouched[g]
      /\ vouched[g] = None => q.checked = {}
  OBVIOUS
<1>6. run' = [run EXCEPT !.pc = "wait", !.todo = run.todo \ {g}, !.request = q]
  BY <1>1, <1>2 DEF Running
<1> HIDE DEF q
<1>7. /\ run' \in Running /\ run'.pc = "wait" /\ run'.mem = run.mem /\ run'.plan = run.plan
      /\ run'.late = run.late /\ run'.todo = run.todo \ {g} /\ run'.request = q
  BY <1>1, <1>4, <1>6 DEF Running
<1> QED BY <1>1, <1>3, <1>4, <1>5, <1>7 DEF Send

LEMMA AnswerShape ==
    ASSUME TypeInv, Serve \/ Refuse \/ Lose
    PROVE  /\ run # NoRun /\ Asking /\ run' \in Running /\ run'.pc = "answered"
           /\ run'.mem = run.mem /\ run'.plan = run.plan /\ run'.late = run.late
           /\ run'.todo = run.todo /\ run'.request = run.request /\ run.request \in Request
           /\ run'.answer \in Answer /\ (run'.answer.outcome = "imported" <=> run'.answer.book # None)
           /\ \/ /\ Serve /\ At("wait") /\ run'.answer.outcome = "imported" /\ late' = late
                 /\ <<run.request.root, run'.answer.book>> \in There'
              \/ /\ At("wait") /\ run'.answer.outcome = "failed" /\ late' = late
                 /\ UNCHANGED <<library, copies, spoiled>>
              \/ /\ run'.answer.outcome = "outcome_unknown"
                 /\ late' = late \cup (IF At("wait") THEN {run.request} ELSE {})
                 /\ At("wait") \/ (At("answered") /\ run.answer.outcome = "imported")
                 /\ UNCHANGED <<library, copies, spoiled>>
           /\ UNCHANGED <<disk, approved, vouched, asked, died>>
<1>1. /\ run # NoRun /\ run \in Running /\ run.mem \in [Photo -> Entry] /\ Asking
      /\ run.request \in Request /\ run.request.root \in Main /\ library \in [Main -> SUBSET Book]
      /\ Root[run.request.root] = run.request.root
  <2>1. Asking
    BY DEF Serve, Refuse, Lose, Asking
  <2>2. run # NoRun
    BY <2>1 DEF Asking, At, NoRun
  <2> QED BY <2>1, <2>2, RunCases DEF TypeInv, RunOK, Request, Main
<1>2. ASSUME NEW a \in Answer, run' = [run EXCEPT !.pc = "answered", !.answer = a]
      PROVE  /\ run' \in Running /\ run'.pc = "answered" /\ run'.answer = a
             /\ run'.mem = run.mem /\ run'.plan = run.plan /\ run'.late = run.late
             /\ run'.todo = run.todo /\ run'.request = run.request
  BY <1>1, <1>2 DEF Running
<1>3. CASE Serve
  <2>1. PICK K \in SUBSET Field, answered \in BOOLEAN :
          /\ Enter(run.request, K, answered)
          /\ \E b \in IF Found(run.request, K) # {} THEN Found(run.request, K) ELSE {K} :
                run' = [run EXCEPT !.pc = "answered", !.answer = Imported(b)]
    BY <1>3 DEF Serve
  <2>2. PICK b \in IF Found(run.request, K) # {} THEN Found(run.request, K) ELSE {K} :
                run' = [run EXCEPT !.pc = "answered", !.answer = Imported(b)]
    BY <2>1
  <2>3. /\ K \in SUBSET Field /\ library' \in [Main -> SUBSET Book]
        /\ library[run.request.root] \subseteq library'[run.request.root]
        /\ Found(run.request, K) = {} => K \in library'[run.request.root]
    BY <1>1, <2>1, EnterShape
  <2>4. b \in library'[run.request.root]
    BY <1>1, <2>2, <2>3 DEF Found
  <2>5. b \in Book
    BY <1>1, <2>3, <2>4
  <2>6. Id(b) \in Link /\ Id(b) # None
    BY <2>5, BooksFit
  <2>7. <<run.request.root, Id(b)>> \in There'
    BY <1>1, <2>4 DEF There
  <2>8. Imported(b) \in Answer /\ Imported(b).outcome = "imported" /\ Imported(b).book = Id(b)
    BY <2>6 DEF Imported, Answer
  <2>9. UNCHANGED <<disk, late, approved, vouched, asked, died>> /\ At("wait")
    BY <1>3 DEF Serve
  <2> QED BY <1>1, <1>2, <1>3, <2>2, <2>6, <2>7, <2>8, <2>9
<1>4. CASE Refuse
  <2> DEFINE a == [outcome |-> "failed", book |-> None]
  <2>1. a \in Answer /\ a.outcome = "failed" /\ a.book = None
    BY DEF Answer
  <2>2. run' = [run EXCEPT !.pc = "answered", !.answer = a]
    BY <1>4 DEF Refuse
  <2> HIDE DEF a
  <2> QED BY <1>1, <1>2, <1>4, <2>1, <2>2 DEF Refuse
<1>5. CASE Lose
  <2> DEFINE a == [outcome |-> LostOutcome, book |-> None]
  <2>1. a \in Answer /\ a.outcome = "outcome_unknown" /\ a.book = None
    BY DEF Answer, LostOutcome
  <2>2. run' = [run EXCEPT !.pc = "answered", !.answer = a]
    BY <1>5 DEF Lose
  <2> HIDE DEF a
  <2>3. late' = late \cup (IF At("wait") THEN {run.request} ELSE {})
    BY <1>5 DEF Lose, Abandoned
  <2> QED BY <1>1, <1>2, <1>5, <2>1, <2>2, <2>3 DEF Lose
<1> QED BY <1>3, <1>4, <1>5

LEMMA PlanShape ==
    ASSUME TypeInv, SavePlan
    PROVE  /\ run # NoRun /\ At("plan") /\ run' \in Running /\ run'.pc = "links"
           /\ run'.mem = run.mem /\ run'.plan = run.plan /\ run'.late = run.late
           /\ run'.todo = run.todo /\ run'.request = run.request
           /\ disk' = run.mem /\ disk' \in [Photo -> Entry]
           /\ UNCHANGED <<late, library, copies, approved, vouched, asked, died, spoiled>>
<1>1. /\ run # NoRun /\ run \in Running /\ run.mem \in [Photo -> Entry] /\ At("plan")
  BY RunCases DEF SavePlan, At, NoRun
<1>2. run' = [run EXCEPT !.pc = "links"]
  BY DEF SavePlan
<1> QED BY <1>1, <1>2 DEF SavePlan, Running

LEMMA EndShape ==
    ASSUME TypeInv, End \/ Die
    PROVE  /\ run # NoRun /\ run' = NoRun
           /\ late' = late \cup (IF At("wait") THEN {run.request} ELSE {})
           /\ died' = died \cup (IF Asking THEN {run.request.root} ELSE {}) /\ died' \subseteq Main
           /\ UNCHANGED <<disk, library, copies, approved, vouched, asked, spoiled>>
<1>1. run # NoRun
  BY DEF End, Die, At, NoRun
<1>2. Asking <=> run.request # None
  BY NoneAssumption DEF TypeInv, RunOK, Request, Asking, At
<1>3. Asking => run.request.root \in Main /\ Root[run.request.root] = run.request.root
  BY RunCases DEF Main
<1>4. died \subseteq Main
  BY DEF TypeInv
<1>5. CASE End
  BY <1>1, <1>4, <1>5 DEF End, At, Asking
<1>6. CASE Die
  BY <1>1, <1>2, <1>3, <1>4, <1>6 DEF Die, Abandoned
<1> QED BY <1>5, <1>6

-----------------------------------------------------------------------------
(* Types.                                                                   *)

LEMMA BatchTypes ==
    ASSUME TypeInv, Stage("idle"), Next, UNCHANGED rvars, UNCHANGED scene
    PROVE  TypeInv'
<1>1. RecOK /\ rec = NoRec /\ rec' = NoRec /\ RecOK'
  <2>1. rec = NoRec /\ rec' = NoRec
    BY RunCases DEF rvars
  <2> QED BY <2>1 DEF TypeInv, RecOK, NoRec, Stage
<1>2. changes' = changes /\ scene' = scene
  BY DEF rvars
<1>3. ASSUME /\ disk' \in [Photo -> Entry] /\ RunOK' /\ late' \subseteq Request
             /\ library' \in [Main -> SUBSET Book] /\ copies' \in [Main -> 0 .. 2]
             /\ approved' \subseteq Photo /\ vouched' \in [Photo -> (SUBSET Field) \cup {None}]
             /\ asked' \subseteq Main /\ died' \subseteq Main
      PROVE  TypeInv'
  BY <1>1, <1>2, <1>3 DEF TypeInv
<1>4. ASSUME NEW p \in Photo, Recognize(p) \/ Confirm(p) \/ Skip(p) PROVE TypeInv'
  <2>1. RunOK'
    BY <1>4, EditShape DEF RunOK, NoRun, At, Asking
  <2> QED BY <1>3, <1>4, <2>1, EditShape DEF TypeInv
<1>5. ASSUME NEW o \in scene.options, Begin(o) PROVE TypeInv'
  <2>1. o \in Option
    BY SceneAssumption DEF TypeInv
  <2> DEFINE T == Todo(disk, o)
  <2>2. /\ run' \in Running /\ run'.pc = "plan" /\ run'.request = None
        /\ T \subseteq Main /\ run'.todo \subseteq T /\ T = DOMAIN run'.plan
        /\ \A g \in T : run'.plan[g] = Plan(disk, o, g)
        /\ disk' = disk /\ vouched' = vouched /\ approved' \subseteq Photo
        /\ UNCHANGED <<late, library, copies, died, spoiled>>
    BY <1>5, <2>1, BeginShape
  <2>3. \A g \in T : run'.plan[g] \subseteq Group(g)
    BY <2>2 DEF Plan, Members, Group
  <2>4. asked' \subseteq Main
    BY <1>5, <2>2 DEF Begin, TypeInv
  <2> HIDE DEF T
  <2>5. RunOK'
    BY <2>2, <2>3 DEF RunOK, Asking, At, Taken, NoRun
  <2> QED BY <1>3, <2>2, <2>4, <2>5 DEF TypeInv
<1>6. CASE SavePlan
  <2>1. RunOK'
    BY <1>6, PlanShape DEF TypeInv, RunOK, Asking, At, Taken
  <2> QED BY <1>3, <1>6, <2>1, PlanShape DEF TypeInv
<1>7. CASE SaveLinks
  <2>1. At("links")
    BY <1>7 DEF SaveLinks
  <2>2. RunOK'
    BY <1>7, <2>1, LinksShape DEF TypeInv, RunOK, Asking, At, Taken
  <2> QED BY <1>3, <1>7, <2>2, LinksShape DEF TypeInv
<1>8. CASE Send
  <2>1. RunOK'
    BY <1>8, SendShape DEF TypeInv, RunOK, Asking, At, Taken
  <2> QED BY <1>3, <1>8, <2>1, SendShape DEF TypeInv
<1>9. CASE Serve \/ Refuse \/ Lose
  <2>1. RunOK'
    BY <1>9, AnswerShape DEF TypeInv, RunOK, Asking, At, Taken
  <2>2. late' \subseteq Request
    BY <1>9, AnswerShape DEF TypeInv
  <2>3. library' \in [Main -> SUBSET Book] /\ copies' \in [Main -> 0 .. 2]
    <3>1. CASE Serve
      <4>1. PICK K, answered : Enter(run.request, K, answered)
        BY <3>1 DEF Serve
      <4>2. run.request \in Request
        BY <1>9, AnswerShape
      <4> QED BY <4>1, <4>2, EnterShape
    <3>2. CASE Refuse \/ Lose
      BY <3>2 DEF Refuse, Lose, TypeInv
    <3> QED BY <3>1, <3>2, <1>9
  <2> QED BY <1>3, <1>9, <2>1, <2>2, <2>3, AnswerShape DEF TypeInv
<1>10. CASE LateServe
  <2>1. PICK q \in late, K \in SUBSET Field, answered \in BOOLEAN :
          /\ Enter(q, K, answered)
          /\ late' = late \ {q}
          /\ UNCHANGED <<disk, run, approved, vouched, asked, died>>
    BY <1>10 DEF LateServe
  <2>2. q \in Request
    BY DEF TypeInv
  <2>3. library' \in [Main -> SUBSET Book] /\ copies' \in [Main -> 0 .. 2]
    BY <2>1, <2>2, EnterShape
  <2>4. RunOK'
    BY <2>1 DEF TypeInv, RunOK, Asking, At, Taken
  <2> QED BY <1>3, <2>1, <2>3, <2>4 DEF TypeInv
<1>11. CASE Record
  <2>1. RunOK'
    BY <1>11, RecordShape DEF TypeInv, RunOK, Asking, At, Taken
  <2> QED BY <1>3, <1>11, <2>1, RecordShape DEF TypeInv
<1>12. CASE End \/ Die
  <2>1. RunOK'
    BY <1>12, EndShape DEF RunOK, Asking, At, NoRun
  <2>2. late' \subseteq Request
    BY <1>12, EndShape DEF TypeInv, RunOK, Asking
  <2> QED BY <1>3, <1>12, <2>1, <2>2, EndShape DEF TypeInv
<1> QED BY <1>4, <1>5, <1>6, <1>7, <1>8, <1>9, <1>10, <1>11, <1>12 DEF Next

\* Only a book that is there is told of as one.
LEMMA ToldShape ==
    ASSUME NEW l, NEW told \in Told(l)
    PROVE  told \in Told3 /\ (told \in Alive => l \in There)
  BY DEF Told, Told3, Alive

LEMMA BeginRecShape ==
    ASSUME TypeInv, BeginReconcile \/ BeginVerify
    PROVE  /\ rec = NoRec /\ run = NoRun /\ rec' \in Recording
           /\ rec'.pc \in {"map", "report", "verify"} /\ rec'.mem = disk /\ rec'.there = There
           /\ \A l \in Main \X Link : rec'.seen[l] = None
           /\ rec'.entered \subseteq {g \in Main : copies[g] > 0}
           /\ rec'.pc = "map" =>
                 /\ rec'.map # None /\ rec'.map.group \in Main
                 /\ <<rec'.map.group, rec'.map.from>> \notin There
                 /\ \E p \in Photo : /\ Root[p] = rec'.map.group /\ disk[p].book = rec'.map.from
                                     /\ disk[p].book # None
           /\ UNCHANGED <<bvars, changes>>
<1>1. rec = NoRec /\ run = NoRun
  BY RunCases DEF BeginReconcile, BeginVerify
<1>2. /\ disk \in [Photo -> Entry] /\ There \subseteq Main \X Link /\ copies \in [Main -> 0 .. 2]
  BY WhatIsThere DEF TypeInv, There
<1>3. [l \in Main \X Link |-> None] \in [Main \X Link -> Told3 \cup {None}]
  OBVIOUS
<1>4. CASE BeginReconcile
  <2>1. PICK mp \in Map, apply \in BOOLEAN :
          /\ mp # None => /\ mp.from # mp.to /\ <<mp.group, mp.from>> \notin There
                          /\ \E p \in Photo : Root[p] = mp.group /\ disk[p].book = mp.from
          /\ rec' = [NoRec EXCEPT !.pc = IF mp = None THEN "report" ELSE "map", !.mem = disk,
                        !.map = mp, !.apply = apply,
                        !.seen = [l \in Main \X Link |-> None],
                        !.entered = {g \in Main : copies[g] > 0}, !.there = There]
    BY <1>4 DEF BeginReconcile
  <2>2. mp # None => /\ mp \in [group : Main, from : Link, to : Link, isbn : BOOLEAN]
                     /\ mp.from # None
    <3> SUFFICES ASSUME mp # None
                 PROVE  /\ mp \in [group : Main, from : Link, to : Link, isbn : BOOLEAN]
                        /\ mp.from # None
      OBVIOUS
    <3>1. mp \in [group : Main, from : {disk[p].book : p \in Photo} \ {None}, to : Link, isbn : BOOLEAN]
      BY DEF Map
    <3>2. {disk[p].book : p \in Photo} \ {None} \subseteq Link
      BY <1>2 DEF Entry
    <3> QED BY <3>1, <3>2
  <2>3. mp \in [group : Main, from : Link, to : Link, isbn : BOOLEAN] \cup {None}
    BY <2>2
  <2>4. rec' = [pc |-> IF mp = None THEN "report" ELSE "map", mem |-> disk, map |-> mp,
                apply |-> apply, remapped |-> FALSE, seen |-> [l \in Main \X Link |-> None],
                entered |-> {g \in Main : copies[g] > 0}, there |-> There]
    BY <2>1 DEF NoRec
  <2>5. rec' \in Recording
    BY <1>2, <1>3, <2>3, <2>4 DEF Recording
  <2>6. /\ rec'.pc = (IF mp = None THEN "report" ELSE "map") /\ rec'.mem = disk /\ rec'.map = mp
        /\ rec'.seen = [l \in Main \X Link |-> None] /\ rec'.there = There
        /\ rec'.entered = {g \in Main : copies[g] > 0}
    BY <2>4
  <2>7. rec'.pc = "map" => mp # None
    BY <2>6
  <2>8. UNCHANGED <<bvars, changes>>
    BY <1>4 DEF BeginReconcile
  <2> QED BY <1>1, <2>1, <2>2, <2>5, <2>6, <2>7, <2>8
<1>5. CASE BeginVerify
  <2>1. rec' = [pc |-> "verify", mem |-> disk, map |-> None,
                apply |-> FALSE, remapped |-> FALSE, seen |-> [l \in Main \X Link |-> None],
                entered |-> {}, there |-> There]
    BY <1>5 DEF NoRec, BeginVerify
  <2>2. rec' \in Recording
    BY <1>2, <1>3, <2>1 DEF Recording
  <2>3. /\ rec'.pc = "verify" /\ rec'.mem = disk /\ rec'.there = There /\ rec'.entered = {}
        /\ rec'.seen = [l \in Main \X Link |-> None]
    BY <2>1
  <2>4. UNCHANGED <<bvars, changes>>
    BY <1>5 DEF BeginVerify
  <2> QED BY <1>1, <2>2, <2>3, <2>4
<1> QED BY <1>4, <1>5

\* Either all photos that were to be are redirected to a book that is there, or none.
LEMMA RedirectShape ==
    ASSUME TypeInv, Redirect
    PROVE  LET mp == rec.map
               l == <<mp.group, mp.to>>
               Hit(p) == /\ Root[p] = mp.group /\ rec.mem[p].book = mp.from
                         /\ rec.mem[p].final = None
           IN
           /\ rec # NoRec /\ rec \in Recording /\ Stage("map") /\ rec' \in Recording
           /\ rec'.pc = "report" /\ rec'.there = rec.there /\ rec'.entered = rec.entered
           /\ l \in Main \X Link
           /\ \A k \in Main \X Link : rec'.seen[k] = rec.seen[k] \/ (rec'.seen[k] \in Alive => k \in There)
           /\ \/ rec'.mem = rec.mem
              \/ /\ l \in There
                 /\ \A p \in Photo : rec'.mem[p] = IF Hit(p) THEN Moved(rec.mem[p], mp.to)
                                                   ELSE rec.mem[p]
           /\ UNCHANGED <<bvars, changes>>
<1>1. rec # NoRec /\ rec \in Recording /\ Stage("map") /\ rec.map # None
  BY RunCases DEF Redirect, Stage, NoRec, TypeInv, RecOK
<1> DEFINE mp == rec.map
           l == <<mp.group, mp.to>>
           affected == {p \in Photo : /\ Root[p] = mp.group /\ rec.mem[p].book = mp.from
                                      /\ rec.mem[p].final = None}
<1>2. mp \in [group : Main, from : Link, to : Link, isbn : BOOLEAN] /\ l \in Main \X Link
  BY <1>1 DEF Recording
<1>3. PICK told \in Told(l) :
            rec' = [rec EXCEPT
                !.pc = "report",
                !.seen[l] = told,
                !.remapped = Good(told, mp.isbn) /\ affected # {},
                !.mem = IF Good(told, mp.isbn) /\ rec.apply
                        THEN [p \in Photo |-> IF p \in affected
                                THEN [rec.mem[p] EXCEPT !.final = mp.to] ELSE rec.mem[p]]
                        ELSE @]
  BY DEF Redirect
<1> DEFINE good == Good(told, mp.isbn)
           mem == IF good /\ rec.apply
                  THEN [p \in Photo |-> IF p \in affected
                                THEN Moved(rec.mem[p], mp.to) ELSE rec.mem[p]]
                  ELSE rec.mem
           seen == [rec.seen EXCEPT ![l] = told]
           remapped == good /\ affected # {}
<1>4. rec' = [rec EXCEPT !.pc = "report", !.seen = seen, !.remapped = remapped, !.mem = mem]
  BY <1>1, <1>3 DEF Recording, Moved
<1>5. told \in Told3 /\ (told \in Alive => l \in There)
  BY ToldShape
<1>6. seen \in [Main \X Link -> Told3 \cup {None}]
  BY <1>1, <1>2, <1>5 DEF Recording
<1>7. ASSUME NEW p \in Photo
      PROVE  rec.mem[p] \in Entry /\ Moved(rec.mem[p], mp.to) \in Entry
  BY <1>1, <1>2, EntryMoved DEF Recording
<1>8. mem \in [Photo -> Entry]
  BY <1>1, <1>7 DEF Recording
<1>9. good => l \in There
  BY <1>5 DEF Good, Alive
<1>10. remapped \in BOOLEAN
  OBVIOUS
<1>11. \/ mem = rec.mem
       \/ /\ l \in There
          /\ \A p \in Photo : mem[p] = IF p \in affected THEN Moved(rec.mem[p], mp.to)
                                       ELSE rec.mem[p]
  BY <1>9
<1>12. \A k \in Main \X Link : seen[k] = rec.seen[k] \/ (seen[k] \in Alive => k \in There)
  BY <1>1, <1>2, <1>5 DEF Recording
<1> HIDE DEF mem, seen, remapped, good
<1>13. /\ rec' \in Recording /\ rec'.pc = "report" /\ rec'.there = rec.there
       /\ rec'.entered = rec.entered /\ rec'.seen = seen /\ rec'.mem = mem
  BY <1>1, <1>4, <1>6, <1>8, <1>10 DEF Recording
<1> QED BY <1>1, <1>2, <1>11, <1>12, <1>13 DEF Redirect

LEMMA LookUpShape ==
    ASSUME TypeInv, LookUp
    PROVE  /\ rec # NoRec /\ rec \in Recording /\ rec' \in Recording
           /\ rec.pc \in {"report", "verify"} /\ rec'.pc = rec.pc /\ rec'.mem = rec.mem
           /\ rec'.there = rec.there /\ rec'.entered = rec.entered
           /\ \A k \in Main \X Link : rec'.seen[k] = rec.seen[k] \/ (rec'.seen[k] \in Alive => k \in There)
           /\ UNCHANGED <<bvars, changes>>
<1>1. rec # NoRec /\ rec \in Recording /\ rec.pc \in {"report", "verify"}
  BY RunCases DEF LookUp, Stage, NoRec
<1>2. PICK l \in Books : \E told \in Told(l) : rec' = [rec EXCEPT !.seen[l] = told]
  BY DEF LookUp
<1>3. PICK told \in Told(l) : rec' = [rec EXCEPT !.seen[l] = told]
  BY <1>2
<1>4. told \in Told3 /\ (told \in Alive => l \in There)
  BY ToldShape
<1>5. l \in Main \X Link
  <2>1. PICK p \in Photo : LinkOf(rec.mem[p]) # None /\ l = <<Root[p], LinkOf(rec.mem[p])>>
    BY <1>2 DEF Books
  <2>2. rec.mem[p] \in Entry /\ Root[p] \in Main
    BY <1>1, PairingAssumption DEF Recording, Main
  <2> QED BY <2>1, <2>2 DEF LinkOf, Entry
<1> DEFINE seen == [rec.seen EXCEPT ![l] = told]
<1>6. rec' = [rec EXCEPT !.seen = seen]
  BY <1>1, <1>3 DEF Recording
<1>7. seen \in [Main \X Link -> Told3 \cup {None}]
  BY <1>1, <1>4, <1>5 DEF Recording
<1>8. \A k \in Main \X Link : seen[k] = rec.seen[k] \/ (seen[k] \in Alive => k \in There)
  BY <1>1, <1>4, <1>5 DEF Recording
<1> HIDE DEF seen
<1> QED BY <1>1, <1>6, <1>7, <1>8 DEF LookUp, Recording

LEMMA ReportShape ==
    ASSUME TypeInv, Report \/ SaveMap \/ ReportIssues
    PROVE  /\ rec # NoRec /\ rec \in Recording /\ rec' \in Recording /\ run = NoRun
           /\ rec'.mem = rec.mem /\ rec'.there = rec.there /\ rec'.entered = rec.entered
           /\ rec'.seen = rec.seen
           /\ \/ rec.pc = "report" /\ rec'.pc \in {"save", "exit"} /\ disk' = disk
              \/ rec.pc = "save" /\ rec'.pc = "exit" /\ disk' = rec.mem
              \/ rec.pc = "verify" /\ rec'.pc = "verified" /\ disk' = disk
           /\ UNCHANGED <<run, late, library, copies, approved, vouched, asked, died, spoiled, changes>>
<1>1. rec # NoRec /\ rec \in Recording /\ run = NoRun
  BY RunCases DEF Report, SaveMap, ReportIssues, Stage, NoRec, TypeInv, RecOK
<1>2. CASE Report
  BY <1>1, <1>2 DEF Report, Stage, Recording, bvars
<1>3. CASE SaveMap
  BY <1>1, <1>3 DEF SaveMap, Stage, Recording
<1>4. CASE ReportIssues
  BY <1>1, <1>4 DEF ReportIssues, Stage, Recording, bvars
<1> QED BY <1>2, <1>3, <1>4

\* While a script looks at the manifest, requests may still be carried out late.
LEMMA WitnessShape ==
    ASSUME TypeInv, ~Stage("idle"), rec' = Witness(rec), library' \in [Main -> SUBSET Book]
    PROVE  /\ rec # NoRec /\ rec \in Recording /\ rec' \in Recording /\ run = NoRun
           /\ rec'.pc = rec.pc /\ rec'.mem = rec.mem /\ rec'.seen = rec.seen
           /\ rec'.entered = rec.entered /\ rec'.map = rec.map
           /\ rec'.there = rec.there \cup There'
<1>1. rec # NoRec /\ rec \in Recording /\ run = NoRun
  BY RunCases DEF TypeInv, RecOK
<1>2. There' \subseteq Main \X Link
  BY WhatIsThere DEF There
<1>3. rec' = [rec EXCEPT !.there = rec.there \cup There']
  BY DEF Witness, Stage
<1> QED BY <1>1, <1>2, <1>3 DEF Recording

LEMMA LateShape ==
    ASSUME TypeInv, LateServe
    PROVE  \E q \in late, K \in SUBSET Field :
             /\ q \in Request /\ late' = late \ {q} /\ (\E answered : Enter(q, K, answered))
             /\ UNCHANGED <<disk, run, approved, vouched, asked, died>>
  BY DEF LateServe, TypeInv

LEMMA TypeStep == TypeInv /\ [RNext]_vars => TypeInv'
<1> SUFFICES ASSUME TypeInv, [RNext]_vars PROVE TypeInv'
  OBVIOUS
<1>1. ASSUME rec' = NoRec \/ rec' \in Recording,
             UNCHANGED <<scene, run, approved, vouched, asked, died>>,
             disk' \in [Photo -> Entry], late' \subseteq late, library' \in [Main -> SUBSET Book],
             copies' \in [Main -> 0 .. 2], changes' \in Nat, changes' <= scene.changes,
             run = NoRun \/ disk' = disk,
             ~Stage("idle")' => run = NoRun, Stage("map")' => rec'.map # None,
             rec'.pc \in {"map", "verify", "verified"} => rec'.mem = disk'
      PROVE  TypeInv'
  <2>1. RunOK'
    <3>1. CASE run = NoRun
      BY <1>1, <3>1 DEF RunOK, NoRun, At, Asking
    <3>2. CASE disk' = disk
      BY <1>1, <3>2 DEF TypeInv, RunOK, At, Asking, Taken
    <3> QED BY <1>1, <3>1, <3>2
  <2>2. RecOK'
    BY <1>1 DEF RecOK, Stage
  <2>3. late' \subseteq Request
    BY <1>1 DEF TypeInv
  <2> QED BY <1>1, <2>1, <2>2, <2>3 DEF TypeInv
<1>2. /\ disk \in [Photo -> Entry] /\ library \in [Main -> SUBSET Book]
      /\ copies \in [Main -> 0 .. 2] /\ changes \in Nat /\ changes <= scene.changes
      /\ rec = NoRec \/ rec \in Recording
      /\ ~Stage("idle") => run = NoRun
      /\ Stage("map") => rec.map # None
      /\ rec.pc \in {"map", "verify", "verified"} => rec.mem = disk
  BY DEF TypeInv, RecOK
<1>3. CASE UNCHANGED vars
  BY <1>1, <1>2, <1>3 DEF vars, bvars, rvars, Stage
<1>4. CASE Stage("idle") /\ Next /\ UNCHANGED rvars /\ UNCHANGED scene
  BY <1>4, BatchTypes
<1>5. CASE ~Stage("idle") /\ LateServe /\ rec' = Witness(rec) /\ UNCHANGED changes /\ UNCHANGED scene
  <2>1. PICK q \in late, K \in SUBSET Field :
             /\ q \in Request /\ late' = late \ {q} /\ (\E answered : Enter(q, K, answered))
             /\ UNCHANGED <<disk, run, approved, vouched, asked, died>>
    BY <1>5, LateShape
  <2>2. library' \in [Main -> SUBSET Book] /\ copies' \in [Main -> 0 .. 2]
    BY <2>1, EnterShape
  <2>3. /\ rec' \in Recording /\ run = NoRun /\ rec'.pc = rec.pc /\ rec'.mem = rec.mem
        /\ rec'.map = rec.map
    BY <1>5, <2>2, WitnessShape
  <2> QED BY <1>1, <1>2, <1>5, <2>1, <2>2, <2>3 DEF Stage
<1>6. CASE Upkeep /\ UNCHANGED scene
  BY <1>1, <1>2, <1>6, UpkeepShape DEF Stage
<1>7. CASE (BeginReconcile \/ BeginVerify) /\ UNCHANGED scene
  BY <1>1, <1>2, <1>7, BeginRecShape DEF Stage, bvars
<1>8. CASE Redirect /\ UNCHANGED scene
  <2>1. /\ rec' \in Recording /\ rec'.pc = "report" /\ UNCHANGED <<bvars, changes>> /\ Stage("map")
    BY <1>8, RedirectShape
  <2> QED BY <1>1, <1>2, <1>8, <2>1 DEF Stage, bvars
<1>9. CASE LookUp /\ UNCHANGED scene
  BY <1>1, <1>2, <1>9, LookUpShape DEF Stage, bvars
<1>10. CASE (Report \/ SaveMap \/ ReportIssues) /\ UNCHANGED scene
  <2>1. /\ rec' \in Recording /\ run = NoRun /\ rec'.mem = rec.mem /\ rec \in Recording
        /\ \/ rec.pc = "report" /\ rec'.pc \in {"save", "exit"} /\ disk' = disk
           \/ rec.pc = "save" /\ rec'.pc = "exit" /\ disk' = rec.mem
           \/ rec.pc = "verify" /\ rec'.pc = "verified" /\ disk' = disk
        /\ UNCHANGED <<run, late, library, copies, approved, vouched, asked, died, spoiled, changes>>
    BY <1>10, ReportShape
  <2>2. disk' \in [Photo -> Entry]
    BY <1>2, <2>1 DEF Recording
  <2> QED BY <1>1, <1>2, <1>10, <2>1, <2>2 DEF Stage
<1>11. CASE Stop /\ UNCHANGED scene
  BY <1>1, <1>2, <1>11 DEF Stop, NoRec, Stage, bvars
<1> QED BY <1>3, <1>4, <1>5, <1>6, <1>7, <1>8, <1>9, <1>10, <1>11 DEF RNext

LEMMA TypesHold == Spec => []TypeInv
<1>1. TypeInv /\ [RNext]_vars => TypeInv'
  BY TypeStep
<1> QED BY <1>1, InitialTypes, PTL DEF Spec

-----------------------------------------------------------------------------
(* Steps that make no manifest anew, and the others.                        *)

Edit(p) == Recognize(p) \/ Confirm(p) \/ Skip(p)

Calm == \/ SavePlan \/ Send \/ Serve \/ Refuse \/ Lose \/ LateServe \/ End \/ Die
        \/ Upkeep \/ UNCHANGED bvars

LEMMA Steps ==
    ASSUME TypeInv, [RNext]_vars
    PROVE  /\ scene' = scene
           /\ \/ /\ rec = NoRec /\ rec' = NoRec /\ changes' = changes
                 /\ \/ \E p \in Photo : Edit(p)
                    \/ \E o \in Option : Begin(o)
                    \/ SaveLinks \/ Record
              \/ SaveMap
              \/ Calm
<1>1. CASE Stage("idle") /\ Next /\ UNCHANGED rvars /\ UNCHANGED scene
  <2>1. rec = NoRec /\ rec' = NoRec /\ changes' = changes /\ scene' = scene
    BY <1>1, RunCases DEF rvars
  <2>2. scene.options \subseteq Option
    BY SceneAssumption DEF TypeInv
  <2> QED BY <1>1, <2>1, <2>2 DEF Next, Edit, Calm
<1>2. CASE ~(Stage("idle") /\ Next /\ UNCHANGED rvars /\ UNCHANGED scene)
  <2>1. CASE UNCHANGED vars
    BY <2>1 DEF vars, Calm
  <2>2. CASE RNext
    <3>1. scene' = scene
      BY <2>2 DEF RNext
    <3>2. UNCHANGED bvars \/ SaveMap \/ Upkeep \/ LateServe
      BY <1>2, <2>2
      DEF RNext, BeginReconcile, Redirect, LookUp, Report, Stop, BeginVerify, ReportIssues
    <3> QED BY <3>1, <3>2 DEF Calm
  <2> QED BY <2>1, <2>2
<1> QED BY <1>1, <1>2

LEMMA CalmShape ==
    ASSUME TypeInv, Calm
    PROVE  /\ Views' \subseteq Views /\ Taken' \subseteq Taken
           /\ \/ run' = NoRun
              \/ /\ run # NoRun /\ run' \in Running /\ run'.plan = run.plan /\ run'.mem = run.mem
                 /\ run'.late = run.late
           /\ Open' \subseteq Open \/ Send
           /\ UNCHANGED <<approved, vouched, asked>> /\ died \subseteq died'
<1>1. run = NoRun \/ run \in Running
  BY RunCases
<1>2. CASE SavePlan
  BY <1>2, PlanShape DEF Views, Taken, Open, Asking, At
<1>3. CASE Send
  BY <1>3, SendShape DEF Views, Taken, Asking, At
<1>4. CASE Serve \/ Refuse \/ Lose
  <2>1. /\ run # NoRun /\ Asking /\ run' \in Running /\ run'.pc = "answered"
        /\ run'.mem = run.mem /\ run'.plan = run.plan /\ run'.late = run.late
        /\ run'.todo = run.todo /\ run'.request = run.request
        /\ late' = late \/ late' = late \cup (IF At("wait") THEN {run.request} ELSE {})
        /\ UNCHANGED <<disk, approved, vouched, asked, died>>
    BY <1>4, AnswerShape
  <2>2. Open' \subseteq Open
    BY <2>1 DEF Open, At
  <2>3. Taken' = Taken /\ Views' \subseteq Views
    BY <2>1 DEF Taken, Views, Asking, At, Running, NoRun
  <2> QED BY <2>1, <2>2, <2>3
<1>5. CASE LateServe
  <2>1. PICK q \in late, K \in SUBSET Field :
             /\ q \in Request /\ late' = late \ {q} /\ (\E answered : Enter(q, K, answered))
             /\ UNCHANGED <<disk, run, approved, vouched, asked, died>>
    BY <1>5, LateShape
  <2> QED BY <1>1, <2>1 DEF Views, Taken, Open, Asking, At
<1>6. CASE End \/ Die
  <2>1. /\ run # NoRun /\ run' = NoRun
        /\ late' = late \cup (IF At("wait") THEN {run.request} ELSE {})
        /\ died \subseteq died'
        /\ UNCHANGED <<disk, approved, vouched, asked>>
    BY <1>6, EndShape
  <2> QED BY <2>1 DEF Views, Taken, Open, Asking, At, NoRun
<1>7. CASE Upkeep \/ UNCHANGED bvars
  <2>1. UNCHANGED <<disk, run, late, approved, vouched, asked, died>>
    BY <1>7, UpkeepShape DEF bvars
  <2> QED BY <1>1, <2>1 DEF Views, Taken, Open, Asking, At
<1> QED BY <1>2, <1>3, <1>4, <1>5, <1>6, <1>7 DEF Calm

\* Where a manifest is made anew, and what there is of it then.
LEMMA NewViews ==
    ASSUME TypeInv
    PROVE  /\ \A p \in Photo : Edit(p) => Views = {disk} /\ Views' = {disk'} /\ Taken' = {} /\ Open' = Open
           /\ \A o \in Option : Begin(o) =>
                 Views = {disk} /\ Views' = {disk, run'.mem} /\ Taken' = run'.todo /\ Open' = Open
           /\ SaveLinks => /\ Views' = {disk'} /\ Taken' = Taken /\ Open' = Open
                           /\ run.mem \in Views /\ disk \in Views
           /\ Record => /\ Views' = {disk'} /\ Taken' = run.todo /\ Open' = Open /\ Views = {disk}
                        /\ run.mem = disk /\ Taken = run.todo \cup {run.request.root}
                        /\ run.request.root \notin run.todo
           /\ SaveMap => Views' = {rec.mem} /\ Taken' = {} /\ Open' = Open /\ Views = {disk}
           /\ \A E \in Views : E \in [Photo -> Entry]
<1>1. ASSUME NEW p \in Photo, Edit(p)
      PROVE  Views = {disk} /\ Views' = {disk'} /\ Taken' = {} /\ Open' = Open
  BY <1>1, EditShape DEF Edit, Views, Taken, Open, Asking, At, NoRun
<1>2. ASSUME NEW o \in Option, Begin(o)
      PROVE  /\ Views = {disk} /\ Views' = {disk, run'.mem} /\ Taken' = run'.todo /\ Open' = Open
  <2>1. /\ run = NoRun /\ run' \in Running /\ run'.pc = "plan" /\ disk' = disk /\ late' = late
    BY <1>2, BeginShape
  <2> QED BY <2>1 DEF Views, Taken, Open, Asking, At, NoRun
<1>3. ASSUME SaveLinks
      PROVE  /\ Views' = {disk'} /\ Taken' = Taken /\ Open' = Open
             /\ run.mem \in Views /\ disk \in Views
  <2>1. /\ run # NoRun /\ run' \in Running /\ run'.pc = "loop" /\ run'.mem = disk'
        /\ run'.todo = run.todo /\ late' = late /\ run.pc = "links"
    BY <1>3, LinksShape DEF SaveLinks, At
  <2> QED BY <2>1 DEF Views, Taken, Open, Asking, At, NoRun
<1>4. ASSUME Record
      PROVE  /\ Views' = {disk'} /\ Taken' = run.todo /\ Open' = Open /\ Views = {disk}
             /\ run.mem = disk /\ Taken = run.todo \cup {run.request.root}
             /\ run.request.root \notin run.todo
  <2>1. /\ run # NoRun /\ run' \in Running /\ run'.pc = "loop" /\ run'.mem = disk'
        /\ run'.todo = run.todo /\ late' = late /\ run.pc = "answered"
    BY <1>4, RecordShape DEF At
  <2> QED BY <2>1 DEF Views, Taken, Open, Asking, At, NoRun, TypeInv, RunOK
<1>5. ASSUME SaveMap
      PROVE  Views' = {rec.mem} /\ Taken' = {} /\ Open' = Open /\ Views = {disk}
  <2>1. run = NoRun /\ disk' = rec.mem /\ run' = NoRun /\ late' = late
    BY <1>5, ReportShape DEF SaveMap
  <2> QED BY <2>1 DEF Views, Taken, Open, Asking, At, NoRun
<1>6. \A E \in Views : E \in [Photo -> Entry]
  BY RunCases DEF Views, TypeInv
<1> QED BY <1>1, <1>2, <1>3, <1>4, <1>5, <1>6
-----------------------------------------------------------------------------
(* What a reconciliation or a verification has seen.                        *)

LEMMA RecSteps ==
    ASSUME TypeInv, [RNext]_vars
    PROVE  \/ rec' = NoRec
           \/ /\ rec # NoRec
              /\ \/ LateServe /\ rec' = Witness(rec) /\ changes' = changes
                 \/ Upkeep \/ Redirect \/ LookUp \/ Report \/ SaveMap \/ ReportIssues
                 \/ UNCHANGED <<bvars, rvars>>
           \/ BeginReconcile \/ BeginVerify
<1>1. rec = NoRec <=> Stage("idle")
  BY RunCases
<1>2. CASE UNCHANGED vars
  BY <1>2 DEF vars, rvars
<1>3. CASE Stage("idle") /\ Next /\ UNCHANGED rvars
  BY <1>1, <1>3 DEF rvars
<1>4. CASE ~Stage("idle") /\ LateServe /\ rec' = Witness(rec) /\ UNCHANGED changes
  BY <1>1, <1>4
<1>5. CASE Redirect \/ LookUp \/ Report \/ SaveMap \/ ReportIssues
  BY <1>1, <1>5 DEF Redirect, LookUp, Report, SaveMap, ReportIssues, Stage
<1>6. CASE Upkeep
  <2>1. rec' = rec
    BY <1>6 DEF Upkeep
  <2> QED BY <1>6, <2>1
<1>7. CASE Stop
  BY <1>7 DEF Stop
<1> QED BY <1>2, <1>3, <1>4, <1>5, <1>6, <1>7 DEF RNext

LEMMA SeenStep == TypeInv /\ SeenInv /\ [RNext]_vars => SeenInv'
<1> SUFFICES ASSUME TypeInv, SeenInv, [RNext]_vars, rec' # NoRec
             PROVE  SeenInv'
  BY DEF SeenInv, Stage, NoRec
<1>1. CASE BeginReconcile \/ BeginVerify
  <2>1. /\ rec'.mem = disk /\ rec'.there = There /\ UNCHANGED bvars
        /\ \A l \in Main \X Link : rec'.seen[l] = None
    BY <1>1, BeginRecShape
  <2>2. There' = There /\ disk' = disk
    BY <2>1 DEF bvars, There
  <2> QED BY <2>1, <2>2, AliveAssumption DEF SeenInv
<1>2. ASSUME rec # NoRec PROVE ~Stage("idle")
  BY <1>2, RunCases
<1>3. CASE rec # NoRec /\ LateServe /\ rec' = Witness(rec)
  <2>1. PICK q \in late, K \in SUBSET Field :
             /\ q \in Request /\ (\E answered : Enter(q, K, answered)) /\ disk' = disk
    BY <1>3, LateShape
  <2>2. library' \in [Main -> SUBSET Book]
    BY <2>1, EnterShape
  <2>3. rec'.mem = rec.mem /\ rec'.seen = rec.seen /\ rec'.there = rec.there \cup There'
    BY <1>2, <1>3, <2>2, WitnessShape
  <2> QED BY <1>2, <1>3, <2>1, <2>3 DEF SeenInv
<1>4. CASE rec # NoRec /\ Upkeep
  <2>1. There' \subseteq There /\ disk' = disk /\ rec' = rec
    BY <1>4, UpkeepShape
  <2> QED BY <1>2, <1>4, <2>1 DEF SeenInv
<1>5. CASE rec # NoRec /\ Redirect
  <2>1. PICK l \in Main \X Link :
             /\ rec'.there = rec.there
             /\ \A k \in Main \X Link : rec'.seen[k] = rec.seen[k] \/ (rec'.seen[k] \in Alive => k \in There)
             /\ \/ rec'.mem = rec.mem
                \/ /\ l \in There
                   /\ \A p \in Photo : \/ rec'.mem[p] = rec.mem[p]
                                       \/ /\ Root[p] = l[1] /\ rec.mem[p].final = None
                                          /\ rec'.mem[p] = Moved(rec.mem[p], l[2])
             /\ UNCHANGED <<bvars, changes>> /\ rec.mem = disk
    <3>1. rec.mem = disk
      <4>1. Stage("map")
        BY <1>5 DEF Redirect
      <4> QED BY <4>1 DEF TypeInv, RecOK, Stage
    <3> DEFINE l == <<rec.map.group, rec.map.to>>
    <3>2. l \in Main \X Link /\ l[1] = rec.map.group /\ l[2] = rec.map.to
      BY <1>5, RedirectShape
    <3>3. /\ rec'.there = rec.there
          /\ \A k \in Main \X Link : rec'.seen[k] = rec.seen[k] \/ (rec'.seen[k] \in Alive => k \in There)
          /\ UNCHANGED <<bvars, changes>>
      BY <1>5, RedirectShape
    <3>4. \/ rec'.mem = rec.mem
          \/ /\ l \in There
             /\ \A p \in Photo : \/ rec'.mem[p] = rec.mem[p]
                                 \/ /\ Root[p] = rec.map.group /\ rec.mem[p].final = None
                                    /\ rec'.mem[p] = Moved(rec.mem[p], rec.map.to)
      BY <1>5, RedirectShape
    <3> HIDE DEF l
    <3> QED BY <3>1, <3>2, <3>3, <3>4
  <2>2. There' = There /\ disk' = disk
    BY <2>1 DEF bvars, There
  <2>3. There \subseteq rec.there /\ \A k \in Main \X Link : rec.seen[k] \in Alive => k \in rec.there
    BY <1>2, <1>5 DEF SeenInv
  <2>4. ASSUME NEW p \in Photo
        PROVE  \/ rec'.mem[p] = disk'[p]
               \/ /\ disk'[p].final = None /\ <<Root[p], rec'.mem[p].final>> \in rec'.there
                  /\ rec'.mem[p] = Moved(disk'[p], rec'.mem[p].final)
    <3>1. disk[p] \in Entry /\ l[2] \in Link /\ l = <<l[1], l[2]>>
      BY <2>1 DEF TypeInv
    <3>2. Moved(disk[p], l[2]).final = l[2]
      BY <3>1, EntryMoved
    <3> QED BY <2>1, <2>2, <2>3, <3>1, <3>2
  <2> QED BY <2>1, <2>2, <2>3, <2>4 DEF SeenInv
<1>6. CASE rec # NoRec /\ LookUp
  <2>1. /\ rec'.mem = rec.mem /\ rec'.there = rec.there
        /\ \A k \in Main \X Link : rec'.seen[k] = rec.seen[k] \/ (rec'.seen[k] \in Alive => k \in There)
        /\ UNCHANGED <<bvars, changes>>
    BY <1>6, LookUpShape
  <2>2. There' = There /\ disk' = disk
    BY <2>1 DEF bvars, There
  <2> QED BY <1>2, <1>6, <2>1, <2>2 DEF SeenInv
<1>7. CASE rec # NoRec /\ (Report \/ SaveMap \/ ReportIssues)
  <2>1. /\ rec'.mem = rec.mem /\ rec'.there = rec.there /\ rec'.seen = rec.seen
        /\ library' = library
        /\ disk' = disk \/ disk' = rec.mem
    BY <1>7, ReportShape
  <2>2. There' = There
    BY <2>1 DEF There
  <2> QED BY <1>2, <1>7, <2>1, <2>2 DEF SeenInv
<1>8. CASE rec # NoRec /\ UNCHANGED <<bvars, rvars>>
  <2>1. There' = There /\ disk' = disk /\ rec' = rec
    BY <1>8 DEF bvars, rvars, There
  <2> QED BY <1>2, <1>8, <2>1 DEF SeenInv
<1> QED BY <1>1, <1>3, <1>4, <1>5, <1>6, <1>7, <1>8, RecSteps

LEMMA SeenHolds == Spec => []SeenInv
<1>1. RInit => SeenInv
  BY DEF RInit, SeenInv, Stage, NoRec
<1>2. TypeInv /\ SeenInv /\ [RNext]_vars => SeenInv'
  BY SeenStep
<1> QED BY <1>1, <1>2, TypesHold, PTL DEF Spec

-----------------------------------------------------------------------------
(* What is sent was let pass.                                               *)

\* What may go along with --yes or as it is: it is let pass by now.
LEMMA TakenOn ==
    ASSUME TypeInv, PassInv, NEW o \in Option, NEW p \in Photo, ~Held(disk[p])
    PROVE  /\ disk[p].status \in Target(o) =>
                 p \in approved \/ (o.yes /\ disk[p].status = "recognized" /\ ~disk[p].review)
           /\ \A g \in Main : p \in Plan(disk, o, g) =>
                 p \in approved \/ (o.yes /\ disk[p].status = "recognized" /\ ~disk[p].review)
<1>1. Passed(disk, approved)
  BY DEF PassInv, Views
<1>2. ASSUME disk[p].status \in Target(o)
      PROVE  p \in approved \/ (o.yes /\ disk[p].status = "recognized" /\ ~disk[p].review)
  BY <1>1, <1>2 DEF Passed, Target, Held
<1>3. ASSUME NEW g \in Main, p \in Plan(disk, o, g)
      PROVE  p \in approved \/ (o.yes /\ disk[p].status = "recognized" /\ ~disk[p].review)
  <2>1. g \in Photo /\ Root[p] = g /\ Joins(disk, o, p)
    BY <1>3 DEF Plan, Members, Main
  <2>2. p \in disk[g].tried \/ disk[p].status \in Target(o)
    BY <2>1 DEF Joins, AsTried
  <2> QED BY <1>1, <1>2, <2>1, <2>2 DEF Passed
<1> QED BY <1>2, <1>3

\* A photo that is read again does not count as attempted any more.
LEMMA RereadForgets ==
    ASSUME TypeInv, NEW p \in Photo, Recognize(p), NEW q \in Photo
    PROVE  p \notin disk'[q].tried
<1>1. PICK K \in {disk[p].fields, Shows[p]}, r \in scene.doubts :
         disk' = [Changed(disk, p) EXCEPT ![p].status = "recognized", ![p].fields = @ \cup K,
                                          ![p].review = r]
  BY DEF Recognize
<1> DEFINE C == Changed(disk, p)
<1>2. C = [x \in Photo |-> C[x]] /\ C[q] = Without(disk[q], {p})
  BY DEF Changed, Without
<1> HIDE DEF C
<1>3. disk' = [C EXCEPT ![p] = Reread(C[p], K, r)]
  BY <1>1, <1>2 DEF C, Reread
<1>4. disk[q] \in Entry
  BY DEF TypeInv
<1>5. p \notin C[q].tried /\ C[q] \in Entry
  BY <1>2, <1>4 DEF Without, Entry
<1>6. CASE q = p
  <2>1. disk'[q] = Reread(C[p], K, r)
    BY <1>2, <1>3, <1>6
  <2> QED BY <1>5, <1>6, <2>1 DEF Reread, Entry
<1>7. CASE q # p
  <2>1. disk'[q] = C[q]
    BY <1>2, <1>3, <1>7
  <2> QED BY <1>5, <2>1
<1> QED BY <1>6, <1>7

LEMMA PassStep == TypeInv /\ SeenInv /\ PassInv /\ [RNext]_vars => PassInv'
<1> SUFFICES ASSUME TypeInv, SeenInv, PassInv, [RNext]_vars PROVE PassInv'
  OBVIOUS
<1>1. ASSUME NEW p \in Photo, Edit(p) PROVE PassInv'
  <2>1. Views = {disk} /\ Views' = {disk'} /\ Taken' = {}
    BY <1>1, NewViews
  <2>2. Passed(disk, approved)
    BY <2>1 DEF PassInv
  <2>3. /\ \A q \in Photo \ {p} : disk'[q] = [disk[q] EXCEPT !.tried = disk'[q].tried]
        /\ \A q \in Photo : disk'[q].tried \subseteq disk[q].tried
        /\ disk'[p].status \in {"recognized", "confirmed", "skip"}
    BY <1>1, EditShape DEF Edit
  <2>4. ASSUME NEW q \in Photo \ {p} PROVE disk'[q].status = disk[q].status
    <3>1. disk[q] \in Entry
      BY DEF TypeInv
    <3> QED BY <2>3, <3>1 DEF Entry
  <2>5. CASE Recognize(p)
    <3>1. approved' = approved \ {p} /\ \A q \in Photo : p \notin disk'[q].tried
      BY <2>5, RereadForgets DEF Recognize
    <3>2. disk'[p].status = "recognized"
      <4>1. disk[p] \in Entry /\ Changed(disk, p)[p] = Without(disk[p], {p})
        BY DEF TypeInv, Changed, Without
      <4> QED BY <2>3, <2>5 DEF Recognize, Changed
    <3> QED BY <2>1, <2>2, <2>3, <2>4, <3>1, <3>2 DEF PassInv, Passed
  <2>6. CASE Confirm(p)
    <3>1. approved' = approved \cup {p}
      BY <2>6 DEF Confirm
    <3> QED BY <2>1, <2>2, <2>3, <2>4, <3>1 DEF PassInv, Passed
  <2>7. CASE Skip(p)
    <3>1. approved' = approved /\ disk'[p].status = "skip"
      BY <2>7 DEF Skip, TypeInv
    <3> QED BY <2>1, <2>2, <2>3, <2>4, <3>1 DEF PassInv, Passed
  <2> QED BY <1>1, <2>5, <2>6, <2>7 DEF Edit
<1>2. ASSUME NEW o \in Option, Begin(o) PROVE PassInv'
  <2> DEFINE T == Todo(disk, o)
  <2>1. Views = {disk} /\ Views' = {disk, run'.mem} /\ Taken' = run'.todo
    BY <1>2, NewViews
  <2>2. Passed(disk, approved) /\ approved \subseteq approved'
    BY <1>2, <2>1, BeginShape DEF PassInv
  <2>3. /\ T \subseteq Main /\ run'.todo \subseteq T
        /\ \A g \in T : run'.plan[g] = Plan(disk, o, g)
        /\ \A p \in Photo \ T : run'.mem[p] = disk[p]
        /\ \A g \in T : \/ run'.mem[g].status = disk[g].status /\ run'.mem[g].tried = disk[g].tried
                        \/ run'.mem[g].status = "failed" /\ run'.mem[g].tried = {}
    BY <1>2, BeginShape
  <2>4. ASSUME NEW g \in T
        PROVE  /\ g \in Photo /\ ~Held(disk[g]) /\ disk[g].status \in Target(o)
               /\ \A m \in Plan(disk, o, g) : m \in Photo /\ ~Held(disk[m])
    BY DEF Todo, Senders, Plan, Members, Joins
  <2>5. ASSUME NEW g \in T, NEW p \in {g} \cup Plan(disk, o, g), o.yes,
               disk[p].status = "recognized", ~disk[p].review
        PROVE  p \in approved'
    BY <1>2, <2>4, <2>5 DEF Begin
  <2>6. ASSUME NEW g \in T PROVE {g} \cup Plan(disk, o, g) \subseteq approved'
    <3>1. g \in approved'
      BY <2>2, <2>4, <2>5, TakenOn
    <3>2. ASSUME NEW m \in Plan(disk, o, g) PROVE m \in approved'
      BY <2>2, <2>3, <2>4, <2>5, TakenOn
    <3> QED BY <3>1, <3>2
  <2> HIDE DEF T
  <2>7. Passed(disk, approved') /\ Passed(run'.mem, approved')
    BY <2>2, <2>3, <2>6 DEF Passed, Main
  <2> QED BY <2>1, <2>3, <2>6, <2>7 DEF PassInv
<1>3. CASE SaveLinks
  <2>1. /\ Views' = {disk'} /\ Taken' = Taken /\ run.mem \in Views
    BY <1>3, NewViews
  <2>2. /\ run'.plan = run.plan /\ approved' = approved
        /\ \A p \in Photo \ run.late : disk'[p] = run.mem[p]
        /\ \A p \in run.late : disk'[p].status = "imported" /\ disk'[p].tried = {}
    BY <1>3, LinksShape
  <2> QED BY <2>1, <2>2 DEF PassInv, Passed
<1>4. CASE Record
  <2> DEFINE g == run.request.root
  <2>1. /\ Views' = {disk'} /\ Taken' = run.todo /\ Views = {disk} /\ Taken = run.todo \cup {g}
    BY <1>4, NewViews
  <2>2. /\ run'.plan = run.plan /\ approved' = approved /\ g \in Main
        /\ disk'[g].tried = run.plan[g]
        /\ \A p \in run.plan[g] : run.answer.outcome = "imported" =>
              disk'[p].status = "imported" /\ disk'[p].tried = {}
        /\ \A p \in Photo \ {g} : p \notin run.plan[g] \/ run.answer.outcome # "imported" =>
              disk'[p] = disk[p]
    BY <1>4, RecordShape
  <2> HIDE DEF g
  <2> QED BY <2>1, <2>2 DEF PassInv, Passed
<1>5. CASE SaveMap
  <2>1. Views' = {rec.mem} /\ Taken' = {} /\ Views = {disk} /\ approved' = approved
    BY <1>5, NewViews DEF SaveMap
  <2>2. ASSUME NEW p \in Photo
        PROVE  rec.mem[p].status = disk[p].status /\ rec.mem[p].tried = disk[p].tried
    <3>1. rec.mem[p] = disk[p] \/ rec.mem[p] = Moved(disk[p], rec.mem[p].final)
      BY <1>5 DEF SeenInv, SaveMap, Stage
    <3>2. disk[p] \in Entry
      BY DEF TypeInv
    <3> QED BY <3>1, <3>2 DEF Moved, Entry
  <2> QED BY <2>1, <2>2 DEF PassInv, Passed
<1>6. CASE Calm
  <2>1. /\ Views' \subseteq Views /\ Taken' \subseteq Taken /\ approved' = approved
        /\ run' = NoRun \/ run'.plan = run.plan
    BY <1>6, CalmShape
  <2>2. run' = NoRun => Taken' = {}
    BY DEF Taken, NoRun, Asking, At
  <2> QED BY <2>1, <2>2 DEF PassInv
<1> QED BY <1>1, <1>2, <1>3, <1>4, <1>5, <1>6, Steps

LEMMA PassHolds == Spec => []PassInv
<1>1. RInit => PassInv
  BY DEF RInit, Init, NoRun, Scanned, PassInv, Passed, Views, Taken, Asking, At
<1>2. TypeInv /\ SeenInv /\ PassInv /\ [RNext]_vars => PassInv'
  BY PassStep
<1> QED BY <1>1, <1>2, TypesHold, SeenHolds, PTL DEF Spec

\* OnlyApproved of BatchImport (_member_joins, _held_by_review): with the fields it has now,
\* each photo that is sent was confirmed, or free of doubt and taken on with --yes.
THEOREM OnlyApprovedHolds == Spec => []OnlyApproved
<1>1. PassInv => OnlyApproved
  BY DEF PassInv, OnlyApproved, Taken, Asking
<1> QED BY <1>1, PassHolds, PTL

-----------------------------------------------------------------------------
(* What was confirmed stays, and is sent as confirmed.                      *)

\* What a run that changes no entry comes to wait for, or was told.
LEMMA CalmRun ==
    ASSUME TypeInv, Calm
    PROVE  /\ run'.pc = "wait" => Send \/ run' = run
           /\ run'.pc = "answered" => Serve \/ Refuse \/ Lose \/ run' = run
           /\ Send => Views' = Views
<1>1. CASE SavePlan
  BY <1>1, PlanShape, RunCases DEF Send, At
<1>2. CASE Send
  <2>1. run'.pc = "wait" /\ Views' = Views
    BY <1>2, SendShape DEF Views, NoRun
  <2> QED BY <1>2, <2>1
<1>3. CASE Serve \/ Refuse \/ Lose
  <2>1. run'.pc = "answered"
    BY <1>3, AnswerShape
  <2>2. ~Send
    BY <1>3 DEF Serve, Refuse, Lose, Send, At
  <2> QED BY <1>3, <2>1, <2>2
<1>4. CASE LateServe \/ Upkeep \/ UNCHANGED bvars
  <2>1. run' = run /\ disk' = disk
    BY <1>4, UpkeepShape, LateShape DEF bvars
  <2> QED BY <2>1 DEF Views
<1>5. CASE End \/ Die
  <2>1. run' = NoRun
    BY <1>5, EndShape
  <2>2. ~Send
    BY <1>5, <2>1, SendShape DEF NoRun
  <2> QED BY <2>1, <2>2 DEF NoRun
<1> QED BY <1>1, <1>2, <1>3, <1>4, <1>5 DEF Calm

\* Only a request that does not say what is confirmed can spoil it.
LEMMA SpoiledStays ==
    ASSUME TypeInv, Calm, \A q \in Open : q.checked \subseteq q.confirmed
    PROVE  spoiled' = spoiled
<1>1. CASE Serve
  <2>1. PICK K \in SUBSET Field, answered \in BOOLEAN : Enter(run.request, K, answered)
    BY <1>1 DEF Serve
  <2>2. run.request \in Open /\ run.request \in Request
    BY <1>1, AnswerShape DEF Open, Serve
  <2> QED BY <2>1, <2>2, EnterShape
<1>2. CASE LateServe
  <2>1. PICK q \in late, K \in SUBSET Field : q \in Request /\ (\E answered : Enter(q, K, answered))
    BY <1>2, LateShape
  <2>2. q \in Open
    BY DEF Open
  <2> QED BY <2>1, <2>2, EnterShape
<1>3. CASE SavePlan \/ Send \/ Refuse \/ Lose \/ End \/ Die \/ Upkeep \/ UNCHANGED bvars
  BY <1>3 DEF SavePlan, Send, Refuse, Lose, End, Die, Upkeep, bvars
<1> QED BY <1>1, <1>2, <1>3 DEF Calm

LEMMA EditVouched ==
    ASSUME TypeInv, NEW p \in Photo, Edit(p), Vouched(disk, vouched)
    PROVE  Vouched(disk', vouched')
<1>1. /\ \A q \in Photo \ {p} : disk'[q] = [disk[q] EXCEPT !.tried = disk'[q].tried]
      /\ disk[p].fields \subseteq disk'[p].fields /\ disk'[p].sure = disk[p].sure
      /\ vouched' \in [Photo -> (SUBSET Field) \cup {None}]
  BY EditShape DEF Edit
<1>2. disk \in [Photo -> Entry] /\ vouched \in [Photo -> (SUBSET Field) \cup {None}]
  BY DEF TypeInv
<1>3. ASSUME NEW q \in Photo \ {p}
      PROVE  /\ disk'[q].status = disk[q].status /\ disk'[q].fields = disk[q].fields
             /\ disk'[q].sure = disk[q].sure
  BY <1>1, <1>2 DEF Entry
<1>4. CASE Recognize(p)
  <2>1. vouched' = vouched /\ disk[p].status \in {"pending", "recognized"}
    BY <1>4 DEF Recognize
  <2>2. disk'[p].status # "confirmed"
    <3>1. Changed(disk, p) = [x \in Photo |-> Changed(disk, p)[x]]
      BY DEF Changed
    <3>2. Changed(disk, p)[p] = Without(disk[p], {p})
      BY DEF Changed, Without
    <3>3. Without(disk[p], {p}) \in Entry
      BY <1>2, EntryWithout
    <3>4. PICK K \in SUBSET Field, r \in BOOLEAN : disk'[p] = Reread(Changed(disk, p)[p], K, r)
      <4>1. PICK K \in {disk[p].fields, Shows[p]}, r \in scene.doubts :
               disk' = [Changed(disk, p) EXCEPT ![p].status = "recognized", ![p].fields = @ \cup K,
                                                ![p].review = r]
        BY <1>4 DEF Recognize
      <4>2. K \in SUBSET Field /\ r \in BOOLEAN
        BY <1>2, SceneAssumption, PairingAssumption DEF Entry, TypeInv
      <4> DEFINE C == Changed(disk, p)
      <4>3. C = [x \in Photo |-> C[x]]
        BY <3>1
      <4> HIDE DEF C
      <4>4. disk'[p] = Reread(C[p], K, r)
        BY <4>1, <4>3 DEF C, Reread
      <4> QED BY <4>2, <4>4 DEF C
    <3>5. Reread(Changed(disk, p)[p], K, r).status = "recognized"
      BY <3>2, <3>3, EntryReread
    <3> QED BY <3>4, <3>5
  <2> QED BY <1>1, <1>3, <2>1, <2>2 DEF Vouched
<1>5. CASE Confirm(p)
  <2>1. PICK K : /\ disk' = [disk EXCEPT ![p].status = "confirmed", ![p].fields = K]
                 /\ vouched' = [vouched EXCEPT ![p] = IF @ = None THEN K ELSE @]
                 /\ K \in {disk[p].fields, disk[p].fields \cup Shows[p]}
    BY <1>5 DEF Confirm
  <2>2. /\ disk'[p].status = "confirmed" /\ disk'[p].fields = K
        /\ \A q \in Photo \ {p} : vouched'[q] = vouched[q]
        /\ vouched'[p] = IF vouched[p] = None THEN K ELSE vouched[p]
    BY <1>2, <2>1 DEF Entry
  <2>3. K # None
    <3>1. K \in SUBSET Field
      BY <1>2, <2>1, PairingAssumption DEF Entry
    <3> QED BY <3>1, BooksFit DEF Link
  <2>4. /\ vouched'[p] # None
        /\ p \in Main => vouched'[p] \subseteq disk'[p].fields
        /\ p \in Main => vouched'[p] \subseteq disk[p].sure \/ disk[p].sure = {}
    <3>1. CASE vouched[p] = None
      BY <2>2, <2>3, <3>1 DEF Vouched
    <3>2. CASE vouched[p] # None
      <4>1. vouched[p] \subseteq disk[p].fields \/ p \notin Main
        BY <3>2 DEF Vouched
      <4> QED BY <1>1, <2>2, <3>2, <4>1 DEF Vouched
    <3> QED BY <3>1, <3>2
  <2> QED BY <1>1, <1>3, <2>2, <2>4 DEF Vouched
<1>6. CASE Skip(p)
  <2>1. vouched' = vouched /\ disk'[p].status = "skip"
    BY <1>2, <1>6 DEF Skip
  <2> QED BY <1>1, <1>3, <1>6, <2>1 DEF Vouched, Skip
<1> QED BY <1>4, <1>5, <1>6 DEF Edit

\* A run leaves the groups it takes on with all there is of them.
LEMMA BeginReady ==
    ASSUME TypeInv, NEW o \in Option, Begin(o), Vouched(disk, vouched)
    PROVE  /\ Vouched(run'.mem, vouched)
           /\ \A g \in run'.todo : Ready(g)'
<1> DEFINE T == Todo(disk, o)
<1>1. /\ T \subseteq Main /\ run'.todo \subseteq T
      /\ \A p \in Photo \ T : run'.mem[p] = disk[p]
      /\ \A g \in T :
            /\ run'.mem[g].fields = Merged(disk, Plan(disk, o, g), g)
            /\ run'.mem[g].sure = SureNow(disk[g], run'.mem[g].fields)
            /\ run'.mem[g].status \in {disk[g].status, "failed"}
      /\ \A g \in run'.todo : run'.mem[g].fields # {}
      /\ vouched' = vouched
  BY BeginShape
<1>2. ASSUME NEW g \in T
      PROVE  /\ disk[g].status \in Target(o)
             /\ \A m \in Members(disk, g) : ~Blocks(disk, o, m)
  BY DEF Todo, Senders
<1> HIDE DEF T
<1>3. ASSUME NEW g \in T
      PROVE  /\ vouched[g] # None => vouched[g] \subseteq run'.mem[g].sure
             /\ vouched[g] # None => vouched[g] \subseteq run'.mem[g].fields
             /\ run'.mem[g].status = "confirmed" \/ run'.mem[g].sure # {} => vouched[g] # None
  <2> DEFINE K == run'.mem[g].fields
  <2>1. disk[g].fields \subseteq K /\ run'.mem[g].sure = SureNow(disk[g], K) /\ g \in Photo /\ g \in Main
    BY <1>1 DEF Merged, Main
  <2>2. disk[g].status # "skip"
    BY <1>2 DEF Target
  <2>3. ASSUME vouched[g] # None PROVE vouched[g] \subseteq run'.mem[g].sure
    <3> HIDE DEF K
    <3>1. vouched[g] \subseteq disk[g].fields
      BY <2>1, <2>3 DEF Vouched
    <3>2. vouched[g] \subseteq disk[g].sure \/ (disk[g].sure = {} /\ disk[g].status = "confirmed")
      BY <2>1, <2>2, <2>3 DEF Vouched
    <3>3. vouched[g] \subseteq SureNow(disk[g], K)
      BY <2>1, <3>1, <3>2 DEF SureNow
    <3> QED BY <2>1, <3>3
  <2>4. run'.mem[g].status = "confirmed" => disk[g].status = "confirmed"
    BY <1>1
  <2>5. run'.mem[g].sure # {} => disk[g].sure # {} \/ disk[g].status = "confirmed"
    BY <2>1 DEF SureNow
  <2> QED BY <2>1, <2>3, <2>4, <2>5 DEF Vouched
<1>4. Vouched(run'.mem, vouched)
  BY <1>1, <1>3 DEF Vouched
<1>5. ASSUME NEW g \in run'.todo, NEW m \in Group(g)
      PROVE  \/ run'.mem[m].status \in {"pending", "skip", "imported"}
             \/ run'.mem[m].fields \subseteq run'.mem[g].fields
  <2>1. m \in Photo /\ Root[m] = g /\ m # g /\ g \in T /\ run'.mem[m] = disk[m]
    BY <1>1 DEF Group, Main
  <2>2. CASE disk[m].status = "pending"
    BY <2>1, <2>2
  <2>3. CASE disk[m].status # "pending"
    <3>1. m \in Members(disk, g) /\ ~Blocks(disk, o, m)
      BY <1>2, <2>1, <2>3 DEF Members
    <3>2. m \notin LateLinks(disk, o)
      BY <1>2, <2>1 DEF LateLinks, Target
    <3>3. disk[m].status \in {"skip", "imported"} \/ Joins(disk, o, m)
      BY <3>1, <3>2 DEF Blocks
    <3>4. Joins(disk, o, m) => disk[m].fields \subseteq Merged(disk, Plan(disk, o, g), g)
      BY <3>1 DEF Plan, Merged
    <3> QED BY <1>1, <2>1, <3>3, <3>4
  <2> QED BY <2>2, <2>3
<1> QED BY <1>1, <1>3, <1>4, <1>5 DEF Ready

LEMMA SentStep == TypeInv /\ SeenInv /\ SentInv /\ [RNext]_vars => SentInv'
<1> SUFFICES ASSUME TypeInv, SeenInv, SentInv, [RNext]_vars PROVE SentInv'
  OBVIOUS
<1>1. ASSUME NEW p \in Photo, Edit(p) PROVE SentInv'
  <2>1. Views = {disk} /\ Views' = {disk'} /\ Taken' = {} /\ Open' = Open
    BY <1>1, NewViews
  <2>2. Vouched(disk', vouched')
    BY <1>1, <2>1, EditVouched DEF SentInv
  <2>3. run' = NoRun /\ spoiled' = spoiled
    BY <1>1, EditShape DEF Edit
  <2> QED BY <2>1, <2>2, <2>3 DEF SentInv, At, NoRun
<1>2. ASSUME NEW o \in Option, Begin(o) PROVE SentInv'
  <2>1. /\ Views = {disk} /\ Views' = {disk, run'.mem} /\ Taken' = run'.todo /\ Open' = Open
    BY <1>2, NewViews
  <2>2. Vouched(disk, vouched)
    BY <2>1 DEF SentInv
  <2>3. Vouched(run'.mem, vouched) /\ \A g \in run'.todo : Ready(g)'
    BY <1>2, <2>2, BeginReady
  <2>4. run'.pc = "plan" /\ spoiled' = spoiled /\ vouched' = vouched
    BY <1>2, BeginShape
  <2> QED BY <2>1, <2>2, <2>3, <2>4 DEF SentInv, At
<1>3. CASE SaveLinks
  <2>1. Views' = {disk'} /\ Taken' = Taken /\ Open' = Open /\ run.mem \in Views
    BY <1>3, NewViews
  <2>2. /\ run'.pc = "loop" /\ run'.mem = disk' /\ vouched' = vouched /\ spoiled' = spoiled
        /\ \A p \in Photo \ run.late : disk'[p] = run.mem[p]
        /\ \A p \in run.late :
              /\ disk'[p].status = "imported"
              /\ disk'[p].fields = run.mem[p].fields /\ disk'[p].sure = run.mem[p].sure
    BY <1>3, LinksShape
  <2>3. run.late \subseteq Photo \ Main /\ Taken \subseteq Main
    BY RunCases
  <2>4. Vouched(disk', vouched')
    BY <2>1, <2>2, <2>3 DEF SentInv, Vouched
  <2>5. ASSUME NEW g \in Taken PROVE Ready(g)'
    <3>1. Ready(g) /\ disk'[g] = run.mem[g]
      BY <2>2, <2>3 DEF SentInv, Main
    <3> QED BY <2>2, <3>1 DEF Ready, Group
  <2> QED BY <2>1, <2>2, <2>4, <2>5 DEF SentInv, At
<1>4. CASE Record
  <2> DEFINE g == run.request.root
  <2>1. /\ Views' = {disk'} /\ Taken' = run.todo /\ Open' = Open /\ Views = {disk}
        /\ run.mem = disk /\ Taken = run.todo \cup {g}
    BY <1>4, NewViews
  <2>2. /\ run'.pc = "loop" /\ run'.mem = disk' /\ vouched' = vouched /\ spoiled' = spoiled
        /\ g \in Main /\ run.plan[g] \subseteq Group(g) /\ disk'[g].status = run.answer.outcome
        /\ \A p \in Photo : disk'[p].fields = disk[p].fields /\ disk'[p].sure = disk[p].sure
        /\ \A p \in run.plan[g] : run.answer.outcome = "imported" => disk'[p].status = "imported"
        /\ \A p \in Photo \ {g} : p \notin run.plan[g] \/ run.answer.outcome # "imported" =>
              disk'[p] = disk[p]
        /\ run.answer \in Answer
    BY <1>4, RecordShape
  <2> HIDE DEF g
  <2>3. Ready(g) /\ Vouched(disk, vouched)
    BY <2>1 DEF SentInv
  <2>4. ASSUME NEW p \in Photo \ {g} PROVE disk'[p].status \in {disk[p].status, "imported"}
    BY <2>2
  <2>5. run.answer.outcome # "confirmed"
    BY <2>2 DEF Answer
  <2>6. ASSUME NEW p \in Photo \ {g}, p \in Main PROVE disk'[p] = disk[p]
    BY <2>2, <2>6 DEF Group, Main
  <2>7. ASSUME NEW p \in Photo
        PROVE  /\ disk'[p].status = "confirmed" \/ disk'[p].sure # {} => vouched'[p] # None
               /\ p \in Main /\ vouched'[p] # None =>
                     /\ vouched'[p] \subseteq disk'[p].fields
                     /\ \/ vouched'[p] \subseteq disk'[p].sure
                        \/ disk'[p].sure = {} /\ disk'[p].status \in {"confirmed", "skip"}
    <3>1. CASE p = g
      BY <2>1, <2>2, <2>3, <2>5, <3>1 DEF Vouched, Ready
    <3>2. CASE p # g
      BY <2>2, <2>3, <2>4, <2>6, <3>2 DEF Vouched
    <3> QED BY <3>1, <3>2
  <2>8. Vouched(disk', vouched')
    BY <2>7 DEF Vouched
  <2>9. ASSUME NEW h \in run.todo PROVE Ready(h)'
    <3>1. Ready(h) /\ h \in Photo
      BY <2>1, RunCases DEF SentInv, Main
    <3>2. ASSUME NEW m \in Group(h)
          PROVE  \/ disk'[m].status \in {"pending", "skip", "imported"}
                 \/ disk'[m].fields \subseteq disk'[h].fields
      <4>1. m \in Photo /\ m # g
        BY <2>2 DEF Group, Main
      <4> QED BY <2>1, <2>2, <2>4, <3>1, <4>1 DEF Ready
    <3> QED BY <2>1, <2>2, <3>1, <3>2 DEF Ready
  <2> QED BY <2>1, <2>2, <2>8, <2>9 DEF SentInv, At
<1>5. CASE SaveMap
  <2>1. /\ Views' = {rec.mem} /\ Taken' = {} /\ Views = {disk} /\ Open' = Open
        /\ vouched' = vouched /\ spoiled' = spoiled /\ run' = run /\ run = NoRun
    BY <1>5, NewViews, ReportShape DEF SaveMap
  <2>2. ASSUME NEW p \in Photo
        PROVE  /\ rec.mem[p].status = disk[p].status /\ rec.mem[p].fields = disk[p].fields
               /\ rec.mem[p].sure = disk[p].sure
    <3>1. rec.mem[p] = disk[p] \/ rec.mem[p] = Moved(disk[p], rec.mem[p].final)
      BY <1>5 DEF SeenInv, SaveMap, Stage
    <3>2. disk[p] \in Entry
      BY DEF TypeInv
    <3> QED BY <3>1, <3>2 DEF Moved, Entry
  <2> QED BY <2>1, <2>2 DEF SentInv, Vouched, At, NoRun
<1>6. CASE Calm
  <2>1. /\ Views' \subseteq Views /\ Taken' \subseteq Taken /\ vouched' = vouched
        /\ run' = NoRun \/ run'.mem = run.mem
        /\ Open' \subseteq Open \/ Send
    BY <1>6, CalmShape
  <2>2. spoiled' = spoiled
    BY <1>6, SpoiledStays DEF SentInv
  <2>3. run' = NoRun => Taken' = {}
    BY DEF Taken, NoRun, Asking, At
  <2>4. \A g \in Taken' : Ready(g)'
    BY <2>1, <2>3 DEF SentInv, Ready
  <2>5. CASE Send
    <3>1. PICK g \in run.todo :
             /\ run'.pc = "wait" /\ run'.mem = run.mem /\ run'.request.root = g
             /\ run'.request.fields = run.mem[g].fields /\ run'.request.confirmed = run.mem[g].sure
             /\ vouched[g] # None => run'.request.checked = vouched[g]
             /\ vouched[g] = None => run'.request.checked = {}
             /\ late' = late
      BY <2>5, SendShape
    <3>2. Ready(g)
      BY DEF SentInv, Taken
    <3>3. run'.request.checked \subseteq run'.request.confirmed
      BY <3>1, <3>2 DEF Ready
    <3>4. Open' = late \cup {run'.request}
      BY <3>1 DEF Open, At
    <3>5. \A q \in Open' : q.checked \subseteq q.confirmed
      BY <3>3, <3>4 DEF SentInv, Open
    <3> QED BY <2>1, <2>2, <2>4, <3>1, <3>5 DEF SentInv
  <2>6. CASE ~Send
    <3>1. run'.pc = "wait" => run' = run
      BY <1>6, <2>6, CalmRun
    <3> QED BY <2>1, <2>2, <2>4, <2>6, <3>1 DEF SentInv, At
  <2> QED BY <2>5, <2>6
<1> QED BY <1>1, <1>2, <1>3, <1>4, <1>5, <1>6, Steps

LEMMA SentHolds == Spec => []SentInv
<1>1. RInit => SentInv
  BY DEF RInit, Init, NoRun, Scanned, SentInv, Vouched, Views, Taken, Open, Asking, At
<1>2. TypeInv /\ SeenInv /\ SentInv /\ [RNext]_vars => SentInv'
  BY SentStep
<1> QED BY <1>1, <1>2, TypesHold, SeenHolds, PTL DEF Spec

\* SentAsConfirmed of BatchImport (_confirmed_field_names, _blocks_group, intake_book): a
\* request is about the whole group and says what the owner had confirmed of its main photo,
\* and no book is made, then or late, without that.
THEOREM SentAsConfirmedHolds == Spec => []SentAsConfirmed
<1>1. ASSUME TypeInv, SentInv PROVE SentAsConfirmed
  <2>1. spoiled = {}
    BY <1>1 DEF SentInv
  <2>2. ASSUME At("wait")
        PROVE  /\ ProtectedIn(run.request, run.request.root)
               /\ \A m \in Members(disk, run.request.root) :
                     disk[m].status \notin {"skip", "imported"} =>
                         disk[m].fields \subseteq run.request.fields
    <3> DEFINE g == run.request.root
    <3>1. /\ run.request.fields = run.mem[g].fields /\ run.request.confirmed = run.mem[g].sure
          /\ Ready(g)
      BY <1>1, <2>2 DEF SentInv, Taken, Asking
    <3>2. run.mem = disk
      BY <1>1, <2>2 DEF TypeInv, RunOK, At
    <3>3. ProtectedIn(run.request, g)
      BY <3>1 DEF Ready, ProtectedIn
    <3>4. ASSUME NEW m \in Members(disk, g), disk[m].status \notin {"skip", "imported"}
          PROVE  disk[m].fields \subseteq run.request.fields
      <4>1. m \in Group(g) /\ disk[m].status # "pending"
        BY DEF Members, Group
      <4> QED BY <3>1, <3>2, <3>4, <4>1 DEF Ready
    <3> QED BY <3>3, <3>4
  <2> QED BY <2>1, <2>2 DEF SentAsConfirmed, SentWhole, ConfirmedProtected, ConfirmedStands
<1> QED BY <1>1, TypesHold, SentHolds, PTL

-----------------------------------------------------------------------------
(* One request, one copy.                                                   *)

LEMMA CopyCalm ==
    ASSUME TypeInv, CopyInv, Calm, NEW g \in Once'
    PROVE  CopyAt(g)'
<1>1. g \in Once /\ g \in Main /\ CopyAt(g)
  <2>1. asked' = asked /\ died \subseteq died'
    BY CalmShape
  <2> QED BY <2>1 DEF Once, CopyInv
<1>2. copies[g] \in 0 .. 2 /\ Views' \subseteq Views
  BY <1>1, CalmShape DEF TypeInv
<1>3. CASE SavePlan
  <2>1. /\ run.pc = "plan" /\ run'.pc = "links" /\ run'.todo = run.todo
        /\ late' = late /\ copies' = copies
    BY <1>3, PlanShape DEF At
  <2> QED BY <1>1, <1>2, <2>1 DEF CopyAt, Open, Mine, At
<1>4. CASE Send
  <2>1. PICK h \in run.todo :
           /\ run.pc = "loop" /\ run'.pc = "wait" /\ run'.todo = run.todo \ {h}
           /\ run'.request.root = h /\ late' = late /\ copies' = copies
    BY <1>4, SendShape DEF At
  <2>2. Open = late /\ Open' = late \cup {run'.request}
    BY <2>1 DEF Open, At
  <2>3. CASE h = g
    <3>1. copies[g] = 0 /\ Mine(late, g) = {}
      BY <1>1, <2>1, <2>3 DEF CopyAt
    <3>2. Mine(Open', g) = {run'.request}
      BY <2>1, <2>2, <2>3, <3>1 DEF Mine
    <3>3. copies'[g] = 0 /\ Mine(late', g) = {}
      BY <2>1, <3>1
    <3> QED BY <3>2, <3>3 DEF CopyAt
  <2>4. CASE h # g
    <3>1. Mine(Open', g) = Mine(Open, g) /\ Mine(late', g) = Mine(late, g)
      BY <2>1, <2>2, <2>4 DEF Mine
    <3>2. ~(run'.pc = "wait" /\ run'.request.root = g) /\ run'.pc # "answered" /\ run.pc # "answered"
      BY <2>1, <2>4
    <3>3. copies' = copies /\ run'.todo \subseteq run.todo
      BY <2>1
    <3> QED BY <1>1, <1>2, <3>1, <3>2, <3>3 DEF CopyAt, At
  <2> QED BY <2>3, <2>4
<1>5. CASE Serve \/ Refuse \/ Lose
  <2>1. /\ run.pc \in {"wait", "answered"} /\ run'.pc = "answered" /\ run'.todo = run.todo
        /\ run'.request = run.request /\ run.request \in Request /\ run.request.root \notin run.todo
    BY <1>5, AnswerShape DEF TypeInv, RunOK, Asking, At
  <2>2. Open' = late'
    BY <2>1 DEF Open, At
  <2>3. CASE Serve
    <3>1. /\ run.pc = "wait" /\ run'.answer.outcome = "imported" /\ late' = late
      <4>1. At("wait")
        BY <2>3 DEF Serve
      <4>2. run'.answer.outcome = "imported" /\ late' = late
        BY <2>3 DEF Serve, Imported, TypeInv, RunOK, Running, NoRun, At
      <4> QED BY <4>1, <4>2 DEF At
    <3>2. Open = late \cup {run.request}
      BY <3>1 DEF Open, At
    <3>3. PICK K \in SUBSET Field, answered \in BOOLEAN : Enter(run.request, K, answered)
      BY <2>3 DEF Serve
    <3>4. /\ g # run.request.root => copies'[g] = copies[g]
          /\ copies[run.request.root] = 0 => copies'[run.request.root] = 1
      BY <1>1, <2>1, <3>3, EnterShape
    <3>5. CASE g = run.request.root
      <4>1. run.request \in Mine(Open, g) /\ Mine(late, g) = {}
        BY <1>1, <3>1, <3>2, <3>5 DEF CopyAt, Mine, At
      <4>2. copies[g] = 0
        BY <1>1, <1>2, <4>1 DEF CopyAt
      <4>3. copies'[g] = 1 /\ Mine(Open', g) = {} /\ Mine(late', g) = {}
        BY <2>2, <3>1, <3>4, <3>5, <4>1, <4>2
      <4> QED BY <2>1, <3>1, <3>5, <4>3 DEF CopyAt, At
    <3>6. CASE g # run.request.root
      <4>1. Mine(Open', g) = Mine(Open, g) /\ Mine(late', g) = Mine(late, g)
        BY <2>2, <3>1, <3>2, <3>6 DEF Mine
      <4> QED BY <1>1, <1>2, <2>1, <3>4, <3>6, <4>1 DEF CopyAt, At
    <3> QED BY <3>5, <3>6
  <2>4. CASE Refuse
    <3>1. run.pc = "wait" /\ late' = late /\ copies' = copies
      BY <2>4 DEF Refuse, At
    <3>2. Open = late \cup {run.request}
      BY <3>1 DEF Open, At
    <3>3. CASE g = run.request.root
      <4>1. run.request \in Mine(Open, g) /\ Mine(late, g) = {}
        BY <1>1, <3>1, <3>2, <3>3 DEF CopyAt, Mine, At
      <4>2. copies[g] = 0
        BY <1>1, <1>2, <4>1 DEF CopyAt
      <4>3. copies'[g] = 0 /\ Mine(Open', g) = {} /\ Mine(late', g) = {}
        BY <2>2, <3>1, <4>1, <4>2
      <4> QED BY <2>1, <4>3 DEF CopyAt, At
    <3>4. CASE g # run.request.root
      <4>1. Mine(Open', g) = Mine(Open, g) /\ Mine(late', g) = Mine(late, g)
        BY <2>2, <3>1, <3>2, <3>4 DEF Mine
      <4> QED BY <1>1, <1>2, <2>1, <3>1, <3>4, <4>1 DEF CopyAt, At
    <3> QED BY <3>3, <3>4
  <2>5. CASE Lose
    <3>1. /\ copies' = copies /\ run'.answer.outcome = "outcome_unknown"
          /\ \/ run.pc = "wait" /\ late' = late \cup {run.request}
             \/ run.pc = "answered" /\ run.answer.outcome = "imported" /\ late' = late
      BY <2>5 DEF Lose, LostOutcome, Abandoned, At, TypeInv, RunOK, Running, NoRun
    <3>2. Open = late' /\ Mine(Open', g) = Mine(Open, g)
      BY <2>2, <3>1 DEF Open, At
    <3>3. CASE g = run.request.root
      <4>1. run'.answer.outcome # "failed" /\ run'.pc = "answered" /\ run'.request.root = g
        BY <2>1, <3>1, <3>3
      <4>2. g \notin run'.todo
        BY <2>1, <3>3
      <4> QED BY <1>1, <3>1, <3>2, <4>1, <4>2 DEF CopyAt, At
    <3>4. CASE g # run.request.root
      <4>1. Mine(late', g) = Mine(late, g)
        BY <3>1, <3>4 DEF Mine
      <4> QED BY <1>1, <1>2, <2>1, <3>1, <3>2, <3>4, <4>1 DEF CopyAt, At
    <3> QED BY <3>3, <3>4
  <2> QED BY <1>5, <2>3, <2>4, <2>5
<1>6. CASE LateServe
  <2>1. PICK q \in late, K \in SUBSET Field :
             /\ q \in Request /\ late' = late \ {q} /\ (\E answered : Enter(q, K, answered))
             /\ UNCHANGED <<disk, run, approved, vouched, asked, died>>
    BY <1>6, LateShape
  <2>2. /\ g # q.root => copies'[g] = copies[g]
        /\ copies[q.root] = 0 => copies'[q.root] = 1
    BY <1>1, <2>1, EnterShape
  <2>3. CASE g = q.root
    <3>1. q \in Mine(late, g) /\ q \in Mine(Open, g)
      BY <2>3 DEF Mine, Open
    <3>2. copies[g] = 0 /\ ~(At("wait") /\ run.request.root = g)
      BY <1>1, <1>2, <3>1 DEF CopyAt
    <3>3. Mine(Open', g) = {}
      <4>1. \A r \in Mine(Open, g) : r = q
        BY <1>1, <3>1 DEF CopyAt
      <4>2. Open' \subseteq Open
        BY <2>1 DEF Open, At
      <4>3. q \notin Mine(Open', g)
        BY <2>1, <2>3, <3>2 DEF Open, Mine, At
      <4> QED BY <4>1, <4>2, <4>3 DEF Mine
    <3>4. copies'[g] = 1 /\ Mine(late', g) \subseteq Mine(Open', g)
      BY <2>2, <2>3, <3>2 DEF Mine, Open
    <3>5. g \notin run.todo /\ IF At("answered") /\ run.request.root = g
                               THEN run.answer.outcome # "failed"
                               ELSE \A E \in Views : Sealed(E[g])
      BY <1>1, <3>1 DEF CopyAt
    <3>6. Mine(late', g) = {} /\ Mine(Open', g) = {}
      BY <3>3, <3>4
    <3>7. Views' \subseteq Views /\ run' = run
      BY <1>2, <2>1
    <3>8. g \notin run'.todo /\ IF At("answered")' /\ run'.request.root = g
                                THEN run'.answer.outcome # "failed"
                                ELSE \A E \in Views' : Sealed(E[g])
      BY <3>5, <3>7 DEF At
    <3> QED BY <3>4, <3>6, <3>8 DEF CopyAt
  <2>4. CASE g # q.root
    <3>1. Mine(Open', g) = Mine(Open, g) /\ Mine(late', g) = Mine(late, g)
      BY <2>1, <2>4 DEF Mine, Open, At
    <3> QED BY <1>1, <1>2, <2>1, <2>2, <2>4, <3>1 DEF CopyAt, At
  <2> QED BY <2>3, <2>4
<1>7. CASE End \/ Die
  <2>1. /\ run # NoRun /\ run' = NoRun /\ copies' = copies
        /\ late' = late \cup (IF At("wait") THEN {run.request} ELSE {})
        /\ died' = died \cup (IF Asking THEN {run.request.root} ELSE {})
    BY <1>7, EndShape
  <2>2. Asking => run.request.root # g
    BY <2>1 DEF Once
  <2>3. Open = late' /\ Open' = late'
    BY <2>1 DEF Open, At, NoRun
  <2>4. Mine(late', g) = Mine(late, g)
    BY <2>1, <2>2 DEF Mine, Asking
  <2> QED BY <1>1, <1>2, <2>1, <2>2, <2>3, <2>4 DEF CopyAt, Asking, At, NoRun
<1>8. CASE Upkeep \/ UNCHANGED bvars
  <2>1. UNCHANGED <<run, late, copies>>
    BY <1>8, UpkeepShape DEF bvars
  <2> QED BY <1>1, <1>2, <2>1 DEF CopyAt, Open, Mine, At
<1> QED BY <1>3, <1>4, <1>5, <1>6, <1>7, <1>8 DEF Calm

LEMMA CopyStep == TypeInv /\ SeenInv /\ CopyInv /\ [RNext]_vars => CopyInv'
<1> SUFFICES ASSUME TypeInv, SeenInv, CopyInv, [RNext]_vars PROVE CopyInv'
  OBVIOUS
<1>1. ASSUME NEW p \in Photo, Edit(p) PROVE CopyInv'
  <2>1. Views = {disk} /\ Views' = {disk'} /\ Open' = Open
    BY <1>1, NewViews
  <2>2. /\ run = NoRun /\ run' = NoRun /\ copies' = copies /\ late' = late /\ Once' = Once
        /\ \A q \in Photo \ {p} : disk'[q] = [disk[q] EXCEPT !.tried = disk'[q].tried]
        /\ ~Sealed(disk[p])
    BY <1>1, EditShape DEF Edit, Sealed, Once
  <2>3. ASSUME NEW q \in Photo, Sealed(disk[q]) PROVE Sealed(disk'[q])
    <3>1. disk[q] \in Entry /\ q # p
      BY <2>2, <2>3 DEF TypeInv
    <3> QED BY <2>2, <2>3, <3>1 DEF Entry, Sealed
  <2>4. ASSUME NEW g \in Once PROVE CopyAt(g)'
    <3>1. CopyAt(g) /\ g \in Photo
      BY DEF CopyInv, Once, Main
    <3> QED BY <2>1, <2>2, <2>3, <3>1 DEF CopyAt, At, NoRun
  <2> QED BY <2>2, <2>4 DEF CopyInv
<1>2. ASSUME NEW o \in Option, Begin(o) PROVE CopyInv'
  <2> DEFINE T == Todo(disk, o)
  <2>1. Views = {disk} /\ Views' = {disk, run'.mem} /\ Open' = Open
    BY <1>2, NewViews
  <2>2. /\ run = NoRun /\ run'.pc = "plan" /\ run'.todo \subseteq T
        /\ \A p \in Photo \ T : run'.mem[p] = disk[p]
        /\ copies' = copies /\ late' = late /\ died' = died
    BY <1>2, BeginShape
  <2>3. asked' = asked \cup {g \in T : disk[g].status = "outcome_unknown"}
    BY <1>2 DEF Begin
  <2>4. ASSUME NEW g \in T PROVE disk[g].status # "imported"
    BY DEF Todo, Senders, Target
  <2> HIDE DEF T
  <2>5. ASSUME NEW g \in Once' PROVE CopyAt(g)'
    <3>1. CopyAt(g) /\ g \in Photo
      BY <2>2, <2>3 DEF CopyInv, Once, Main
    <3>2. Sealed(disk[g]) => g \notin T
      BY <2>3, <2>4 DEF Sealed, Once
    <3>3. copies[g] # 0 \/ Mine(late, g) # {} => Sealed(disk[g])
      BY <2>1, <2>2, <3>1 DEF CopyAt, At, NoRun
    <3> QED BY <2>1, <2>2, <3>1, <3>2, <3>3 DEF CopyAt, At
  <2> QED BY <2>5 DEF CopyInv
<1>3. CASE SaveLinks
  <2>1. Views' = {disk'} /\ Open' = Open /\ run.mem \in Views
    BY <1>3, NewViews
  <2>2. /\ run.pc = "links" /\ run'.pc = "loop" /\ run'.todo = run.todo
        /\ \A p \in Photo \ run.late : disk'[p] = run.mem[p]
        /\ late' = late /\ copies' = copies /\ Once' = Once
    BY <1>3, LinksShape DEF SaveLinks, At, Once
  <2>3. ASSUME NEW g \in Once PROVE CopyAt(g)'
    <3>1. CopyAt(g) /\ disk'[g] = run.mem[g]
      BY <2>2, RunCases DEF CopyInv, Once, Main
    <3> QED BY <2>1, <2>2, <3>1 DEF CopyAt, At
  <2> QED BY <2>2, <2>3 DEF CopyInv
<1>4. CASE Record
  <2> DEFINE h == run.request.root
  <2>1. Views' = {disk'} /\ Open' = Open /\ Views = {disk} /\ h \notin run.todo
    BY <1>4, NewViews
  <2>2. /\ run.pc = "answered" /\ run'.pc = "loop" /\ run'.todo = run.todo
        /\ run.answer \in Answer /\ run.plan[h] \subseteq Group(h) /\ h \in Main
        /\ disk'[h].status = run.answer.outcome
        /\ \A p \in Photo \ {h} : p \notin run.plan[h] \/ run.answer.outcome # "imported" =>
              disk'[p] = disk[p]
        /\ late' = late /\ copies' = copies /\ Once' = Once
    BY <1>4, RecordShape DEF At, Once
  <2> HIDE DEF h
  <2>3. ASSUME NEW g \in Once PROVE CopyAt(g)'
    <3>1. CopyAt(g) /\ g \in Main
      BY DEF CopyInv, Once
    <3>2. g # h => disk'[g] = disk[g]
      BY <2>2, <3>1 DEF Group, Main
    <3>3. run.answer.outcome # "failed" => Sealed(disk'[h])
      BY <2>2 DEF Answer, Sealed
    <3> QED BY <2>1, <2>2, <3>1, <3>2, <3>3 DEF CopyAt, At, h
  <2> QED BY <2>2, <2>3 DEF CopyInv
<1>5. CASE SaveMap
  <2>1. /\ Views' = {rec.mem} /\ Views = {disk} /\ Open' = Open
        /\ run' = run /\ late' = late /\ copies' = copies /\ Once' = Once
    BY <1>5, NewViews DEF SaveMap, Once
  <2>2. ASSUME NEW p \in Photo PROVE rec.mem[p].status = disk[p].status
    <3>1. rec.mem[p] = disk[p] \/ rec.mem[p] = Moved(disk[p], rec.mem[p].final)
      BY <1>5 DEF SeenInv, SaveMap, Stage
    <3>2. disk[p] \in Entry
      BY DEF TypeInv
    <3> QED BY <3>1, <3>2 DEF Moved, Entry
  <2> QED BY <2>1, <2>2 DEF CopyInv, CopyAt, At, Once, Main, Sealed
<1>6. CASE Calm
  BY <1>6, CopyCalm DEF CopyInv
<1> QED BY <1>1, <1>2, <1>3, <1>4, <1>5, <1>6, Steps

LEMMA CopyHolds == Spec => []CopyInv
<1>1. RInit => CopyInv
  BY DEF RInit, Init, NoRun, CopyInv, CopyAt, Once, Mine, Open, At
<1>2. TypeInv /\ SeenInv /\ CopyInv /\ [RNext]_vars => CopyInv'
  BY CopyStep
<1> QED BY <1>1, <1>2, TypesHold, SeenHolds, PTL DEF Spec

\* CopiedOnce of BatchImport (--retry-unknown, is_outcome_unknown_error): a book gets a second
\* copy only if its group was sent again on request, or a run died over it.
THEOREM CopiedOnceHolds == Spec => []CopiedOnce
<1>1. ASSUME TypeInv, CopyInv PROVE CopiedOnce
  <2>1. \A g \in Main : copies[g] \in 0 .. 2
    BY <1>1 DEF TypeInv
  <2> QED BY <1>1, <2>1 DEF CopyInv, CopyAt, Once, CopiedOnce
<1> QED BY <1>1, TypesHold, CopyHolds, PTL

-----------------------------------------------------------------------------
(* One book per group.                                                      *)

LEMMA BookCalm ==
    ASSUME TypeInv, SentInv, BookInv, Calm
    PROVE  BookInv'
<1>1. Views' \subseteq Views
  BY CalmShape
<1>2. ASSUME NEW q \in Open, q \in Request, NEW K \in SUBSET Field, Open' \subseteq Open,
             \E answered : Enter(q, K, answered)
      PROVE  BookInv'
  <2> DEFINE h == q.root
  <2>1. /\ q.fields \subseteq K /\ h \in Main
        /\ \A g \in Main : /\ library[g] \subseteq library'[g]
                           /\ g # h => library'[g] = library[g]
        /\ \A b \in library'[h] \ library[h] : b = K /\ \A c \in library[h] : c \cap K = {}
    BY <1>2, EnterShape
  <2>2. Meets(h, q.fields) /\ q.fields # {} /\ \A E \in Views : q.fields \subseteq E[h].fields
    BY DEF BookInv
  <2> HIDE DEF h
  <2>3. ASSUME NEW b \in library'[h] \ library[h]
        PROVE  b = K /\ \A c \in library[h] : ~(c \subseteq Field)
    BY <2>1, <2>2 DEF Meets
  <2>4. ASSUME NEW g \in Main, NEW b \in library'[g], NEW c \in library'[g],
               b \subseteq Field, c \subseteq Field
        PROVE  b = c
    BY <2>1, <2>3, <2>4 DEF BookInv
  <2>5. ASSUME NEW g \in Main, NEW F, Meets(g, F), g = h => F \cap K # {}
        PROVE  Meets(g, F)'
    BY <2>1, <2>3, <2>5 DEF Meets
  <2>6. ASSUME NEW E \in Views', NEW g \in Main PROVE Meets(g, E[g].fields)'
    <3>1. Meets(g, E[g].fields)
      BY <1>1 DEF BookInv
    <3>2. g = h => E[g].fields \cap K # {}
      BY <1>1, <2>1, <2>2
    <3> QED BY <2>5, <3>1, <3>2
  <2>7. ASSUME NEW r \in Open'
        PROVE  /\ Meets(r.root, r.fields)' /\ r.fields # {}
               /\ \A E \in Views' : r.fields \subseteq E[r.root].fields
    <3>1. r \in Open /\ r.root \in Main
      <4>1. r \in Open
        BY <1>2
      <4>2. r \in Request
        BY <4>1 DEF Open, TypeInv, RunOK, Asking
      <4> QED BY <4>1, <4>2 DEF Request
    <3>2. /\ Meets(r.root, r.fields) /\ r.fields # {}
          /\ \A E \in Views : r.fields \subseteq E[r.root].fields
      BY <3>1 DEF BookInv
    <3>3. r.root = h => q.fields \subseteq r.fields \/ r.fields \subseteq q.fields
      BY <3>1 DEF BookInv, h
    <3>4. r.root = h => r.fields \cap K # {}
      BY <2>1, <2>2, <3>2, <3>3
    <3> QED BY <1>1, <2>5, <3>1, <3>2, <3>4
  <2> QED BY <1>2, <2>4, <2>6, <2>7 DEF BookInv
<1>3. CASE Serve
  <2>1. PICK K \in SUBSET Field, answered \in BOOLEAN : Enter(run.request, K, answered)
    BY <1>3 DEF Serve
  <2>2. run.request \in Open /\ run.request \in Request /\ Open' \subseteq Open
    <3>1. At("wait") /\ late' = late
      BY <1>3 DEF Serve
    <3>2. run.request \in Request /\ run'.pc = "answered"
      BY <1>3, AnswerShape
    <3> QED BY <3>1, <3>2 DEF Open, At
  <2> QED BY <1>2, <2>1, <2>2
<1>4. CASE LateServe
  <2>1. PICK q \in late, K \in SUBSET Field :
           q \in Request /\ late' = late \ {q} /\ (\E answered : Enter(q, K, answered)) /\ run' = run
    BY <1>4, LateShape
  <2>2. q \in Open /\ Open' \subseteq Open
    BY <2>1 DEF Open, At
  <2> QED BY <1>2, <2>1, <2>2
<1>5. CASE Send
  <2>1. PICK g \in run.todo :
           /\ g \in Main /\ run.pc = "loop" /\ run # NoRun /\ run'.pc = "wait"
           /\ run'.request.root = g /\ run'.request.fields = run.mem[g].fields
           /\ late' = late /\ library' = library
    BY <1>5, SendShape DEF At
  <2>2. run.mem = disk /\ Views = {disk} /\ Open = late /\ Open' = late \cup {run'.request}
    BY <2>1 DEF TypeInv, RunOK, Views, Open, At, NoRun
  <2>3. Ready(g)
    BY DEF SentInv, Taken
  <2>4. /\ run'.request.fields = disk[g].fields /\ disk[g].fields # {}
        /\ Meets(g, disk[g].fields)
    BY <2>1, <2>2, <2>3 DEF Ready, BookInv
  <2>5. ASSUME NEW q \in late
        PROVE  /\ Meets(q.root, q.fields) /\ q.fields # {}
               /\ q.fields \subseteq disk[q.root].fields
    BY <2>2 DEF BookInv
  <2>6. ASSUME NEW g_1 \in Main, NEW F PROVE Meets(g_1, F)' <=> Meets(g_1, F)
    BY <2>1 DEF Meets
  <2>7. \A q \in late : q.root \in Main
    BY DEF TypeInv, Request
  <2>8. ASSUME NEW q \in Open'
        PROVE  /\ Meets(q.root, q.fields)' /\ q.fields # {}
               /\ \A E \in Views' : q.fields \subseteq E[q.root].fields
    BY <1>1, <2>1, <2>2, <2>4, <2>5, <2>6, <2>7
  <2>9. ASSUME NEW q \in Open', NEW r \in Open', q.root = r.root
        PROVE  q.fields \subseteq r.fields \/ r.fields \subseteq q.fields
    BY <2>1, <2>2, <2>4, <2>5, <2>9 DEF BookInv
  <2> QED BY <1>1, <2>1, <2>6, <2>8, <2>9 DEF BookInv
<1>6. CASE /\ Open' \subseteq Open
           /\ \A g \in Main : \A b \in library'[g] : b \in library[g] \/ ~(b \subseteq Field)
  <2>1. ASSUME NEW g \in Main, NEW F, Meets(g, F) PROVE Meets(g, F)'
    BY <1>6, <2>1 DEF Meets
  <2>2. \A q \in Open : q.root \in Main
    BY DEF Open, TypeInv, Request, RunOK, Asking
  <2> QED BY <1>1, <1>6, <2>1, <2>2 DEF BookInv
<1>7. CASE Upkeep
  <2>1. Open' = Open
    BY <1>7, UpkeepShape DEF Open, At
  <2> QED BY <1>6, <1>7, <2>1, UpkeepShape
<1>8. CASE ~Send /\ (SavePlan \/ Refuse \/ Lose \/ End \/ Die \/ UNCHANGED bvars)
  <2>1. library' = library /\ ~Send
    BY <1>8 DEF SavePlan, Refuse, Lose, End, Die, bvars
  <2> QED BY <1>6, <2>1, CalmShape
<1> QED BY <1>3, <1>4, <1>5, <1>7, <1>8 DEF Calm

\* Fields that are there stay there.
LEMMA FieldsGrow ==
    ASSUME TypeInv, SeenInv, BookInv, UNCHANGED library, Open' = Open,
           \A E \in Views' : \E D \in Views : \A p \in Photo : D[p].fields \subseteq E[p].fields
    PROVE  BookInv'
<1>1. ASSUME NEW g, NEW F, NEW G, Meets(g, F), F \subseteq G PROVE Meets(g, G)'
  BY <1>1 DEF Meets
<1>2. ASSUME NEW E \in Views', NEW g \in Main PROVE Meets(g, E[g].fields)'
  <2>1. PICK D \in Views : \A p \in Photo : D[p].fields \subseteq E[p].fields
    OBVIOUS
  <2>2. Meets(g, D[g].fields) /\ D[g].fields \subseteq E[g].fields
    BY <2>1 DEF BookInv, Main
  <2> QED BY <1>1, <2>2
<1>3. ASSUME NEW q \in Open'
      PROVE  /\ Meets(q.root, q.fields)' /\ q.fields # {}
             /\ \A E \in Views' : q.fields \subseteq E[q.root].fields
  <2>1. /\ Meets(q.root, q.fields) /\ q.fields # {}
        /\ \A D \in Views : q.fields \subseteq D[q.root].fields
    BY DEF BookInv
  <2>2. q.root \in Photo
    BY DEF Open, TypeInv, Request, RunOK, Asking, Main
  <2> QED BY <1>1, <2>1, <2>2
<1> QED BY <1>2, <1>3 DEF BookInv

LEMMA BookStep == TypeInv /\ SeenInv /\ SentInv /\ BookInv /\ [RNext]_vars => BookInv'
<1> SUFFICES ASSUME TypeInv, SeenInv, SentInv, BookInv, [RNext]_vars PROVE BookInv'
  OBVIOUS
<1>1. ASSUME NEW p \in Photo, Edit(p) PROVE BookInv'
  <2>1. Views = {disk} /\ Views' = {disk'} /\ Open' = Open
    BY <1>1, NewViews
  <2>2. /\ library' = library /\ disk[p].fields \subseteq disk'[p].fields
        /\ \A q \in Photo \ {p} : disk'[q] = [disk[q] EXCEPT !.tried = disk'[q].tried]
    BY <1>1, EditShape DEF Edit
  <2>3. ASSUME NEW q \in Photo PROVE disk[q].fields \subseteq disk'[q].fields
    <3>1. disk[q] \in Entry
      BY DEF TypeInv
    <3> QED BY <2>2, <3>1 DEF Entry
  <2> QED BY <2>1, <2>2, <2>3, FieldsGrow
<1>2. ASSUME NEW o \in Option, Begin(o) PROVE BookInv'
  <2> DEFINE T == Todo(disk, o)
  <2>1. Views = {disk} /\ Views' = {disk, run'.mem} /\ Open' = Open
    BY <1>2, NewViews
  <2>2. /\ library' = library
        /\ \A p \in Photo \ T : run'.mem[p] = disk[p]
        /\ \A g \in T : run'.mem[g].fields = Merged(disk, Plan(disk, o, g), g)
    BY <1>2, BeginShape
  <2> HIDE DEF T
  <2>3. ASSUME NEW p \in Photo PROVE disk[p].fields \subseteq run'.mem[p].fields
    BY <2>2 DEF Merged
  <2> QED BY <2>1, <2>2, <2>3, FieldsGrow
<1>3. CASE SaveLinks
  <2>1. Views' = {disk'} /\ Open' = Open /\ run.mem \in Views
    BY <1>3, NewViews
  <2>2. /\ library' = library
        /\ \A p \in Photo : disk'[p].fields = run.mem[p].fields
    BY <1>3, LinksShape
  <2> QED BY <2>1, <2>2, FieldsGrow
<1>4. CASE Record
  <2>1. Views' = {disk'} /\ Open' = Open /\ Views = {disk}
    BY <1>4, NewViews
  <2>2. library' = library /\ \A p \in Photo : disk'[p].fields = disk[p].fields
    BY <1>4, RecordShape
  <2> QED BY <2>1, <2>2, FieldsGrow
<1>5. CASE SaveMap
  <2>1. Views' = {rec.mem} /\ Views = {disk} /\ Open' = Open /\ library' = library
    BY <1>5, NewViews DEF SaveMap
  <2>2. ASSUME NEW p \in Photo PROVE rec.mem[p].fields = disk[p].fields
    <3>1. rec.mem[p] = disk[p] \/ rec.mem[p] = Moved(disk[p], rec.mem[p].final)
      BY <1>5 DEF SeenInv, SaveMap, Stage
    <3>2. disk[p] \in Entry
      BY DEF TypeInv
    <3> QED BY <3>1, <3>2 DEF Moved, Entry
  <2> QED BY <2>1, <2>2, FieldsGrow
<1>6. CASE Calm
  BY <1>6, BookCalm
<1> QED BY <1>1, <1>2, <1>3, <1>4, <1>5, <1>6, Steps

LEMMA BooksHold == Spec => []BookInv
<1>1. RInit => BookInv
  <2> SUFFICES ASSUME RInit PROVE BookInv
    OBVIOUS
  <2>1. \A g \in Main : \A b \in library[g] : ~(b \subseteq Field)
    BY SceneAssumption, TwinAssumption DEF RInit, Init
  <2>2. Open = {}
    BY DEF RInit, Init, Open, At, NoRun
  <2> QED BY <2>1, <2>2 DEF BookInv, Meets
<1>2. TypeInv /\ SeenInv /\ SentInv /\ BookInv /\ [RNext]_vars => BookInv'
  BY BookStep
<1> QED BY <1>1, <1>2, TypesHold, SeenHolds, SentHolds, PTL DEF Spec

LEMMA AtMostOne ==
    ASSUME NEW S, \A b, c \in S : b = c
    PROVE  Cardinality(S) <= 1
<1>1. CASE S = {}
  BY <1>1, FS_EmptySet
<1>2. CASE S # {}
  <2>1. PICK b \in S : TRUE
    BY <1>2
  <2>2. S = {b}
    BY <2>1
  <2> QED BY <2>2, FS_Singleton
<1> QED BY <1>1, <1>2

\* OneBookPerGroup of BatchImport (_merge_group, intake_book): photos of one book make one,
\* whatever is interrupted, lost, repeated or carried out late.
THEOREM OneBookHolds == Spec => []OneBookPerGroup
<1>1. ASSUME BookInv PROVE OneBookPerGroup
  <2>1. ASSUME NEW g \in Main PROVE Cardinality({b \in library[g] : b \subseteq Field}) <= 1
    BY <1>1, AtMostOne DEF BookInv
  <2> QED BY <2>1 DEF OneBookPerGroup
<1> QED BY <1>1, BooksHold, PTL

-----------------------------------------------------------------------------
(* Where imported photos are linked to.                                     *)

\* Nothing leaves the library but in its upkeep.
LEMMA LibraryGrows ==
    ASSUME TypeInv, [RNext]_vars, ~Upkeep
    PROVE  /\ There \subseteq There' /\ changes' = changes /\ scene' = scene
           /\ \A g \in Main : \A b \in library'[g] : b \in library[g] \/ b \subseteq Field
<1>1. changes' = changes /\ scene' = scene
  BY DEF RNext, vars, rvars, BeginReconcile, Redirect, LookUp, Report, SaveMap, Stop, BeginVerify,
         ReportIssues
<1>2. ASSUME NEW q \in Request, NEW K \in SUBSET Field, \E answered : Enter(q, K, answered)
      PROVE  /\ There \subseteq There'
             /\ \A g \in Main : \A b \in library'[g] : b \in library[g] \/ b \subseteq Field
  BY <1>2, EnterShape
<1>3. CASE Serve
  <2>1. PICK K \in SUBSET Field, answered \in BOOLEAN : Enter(run.request, K, answered)
    BY <1>3 DEF Serve
  <2>2. run.request \in Request
    BY <1>3, AnswerShape
  <2> QED BY <1>1, <1>2, <2>1, <2>2
<1>4. CASE LateServe
  BY <1>1, <1>2, <1>4, LateShape
<1>5. CASE library' = library
  BY <1>1, <1>5 DEF There
<1>6. Serve \/ LateServe \/ library' = library
  <2>1. CASE Next
    BY <2>1 DEF Next, Recognize, Confirm, Skip, Begin, SavePlan, SaveLinks, Send, Refuse, Lose,
                Record, End, Die
  <2>2. CASE ~Next
    BY <2>2 DEF RNext, vars, bvars, BeginReconcile, Redirect, LookUp, Report, SaveMap, Stop,
                BeginVerify, ReportIssues
  <2> QED BY <2>1, <2>2
<1> QED BY <1>3, <1>4, <1>5, <1>6

\* What is linked stays so while the library changes.
LEMMA Onward ==
    ASSUME TypeInv, [RNext]_vars, NEW E, Linked(E)
    PROVE  Linked(E)'
<1>1. CASE ~Upkeep
  <2>1. There \subseteq There' /\ changes' = changes /\ scene' = scene
    BY <1>1, LibraryGrows
  <2> QED BY <2>1 DEF Linked, LinkedAt
<1>2. CASE Upkeep
  <2>1. changes \in Nat /\ changes' = changes + 1 /\ changes' <= scene.changes /\ scene' = scene
    <3>1. scene' = scene
      BY Steps
    <3> QED BY <1>2, <3>1, UpkeepShape DEF TypeInv
  <2>2. scene.changes \in Nat
    BY SceneAssumption DEF TypeInv
  <2>3. changes' > 0 /\ (scene'.changes <= 1 => changes = 0)
    BY <2>1, <2>2
  <2>4. ASSUME scene'.changes <= 1, NEW p \in Photo PROVE E[p].final = None
    <3>1. ~(changes > 0)
      BY <2>3, <2>4
    <3>2. LinkedAt(E, p)
      BY DEF Linked
    <3> QED BY <3>1, <3>2 DEF LinkedAt
  <2> HIDE DEF LinkOf
  <2> QED BY <2>1, <2>3, <2>4 DEF Linked, LinkedAt
<1> QED BY <1>1, <1>2

\* Entries with the same links as others.
LEMMA AsLinked ==
    ASSUME TypeInv, [RNext]_vars, NEW D, NEW E, Linked(D),
           \A p \in Photo : /\ D[p].status = "imported" <=> E[p].status = "imported"
                            /\ D[p].book = E[p].book /\ D[p].final = E[p].final
    PROVE  Linked(E)'
<1>1. Linked(E)
  <2>1. \A p \in Photo : Root[p] \in Photo
    BY PairingAssumption
  <2> QED BY <2>1 DEF Linked, LinkedAt, LinkOf
<1> QED BY <1>1, Onward

LEMMA LateLinked ==
    ASSUME TypeInv, [RNext]_vars, LinkInv, SaveLinks
    PROVE  /\ \A E \in Views' : Linked(E)'
           /\ \A g \in Taken' : run'.mem[g].status # "imported"
           /\ \A p \in run'.late : run'.mem[Root[p]].status = "imported"
<1> DEFINE D == run.mem
<1>1. /\ Views' = {disk'} /\ Taken' = Taken /\ run.mem \in Views
      /\ run.late \subseteq Photo \ Main /\ Taken \subseteq Main
  BY NewViews, RunCases
<1>2. /\ run # NoRun /\ run'.mem = disk' /\ run'.late = run.late
      /\ \A p \in Photo \ run.late : disk'[p] = D[p]
      /\ \A p \in run.late :
            /\ disk'[p].status = "imported" /\ disk'[p].final = None
            /\ disk'[p].book = LinkOf(D[Root[p]])
  BY LinksShape
<1>3. Linked(D) /\ \A p \in run.late : D[Root[p]].status = "imported"
  BY <1>1, <1>2 DEF LinkInv, Manifests
<1> HIDE DEF D
<1>4. ASSUME NEW p \in Photo PROVE Root[p] \in Main /\ Root[p] \in Photo /\ disk'[Root[p]] = D[Root[p]]
  BY <1>1, <1>2, PairingAssumption DEF Main
<1>5. ASSUME NEW E, E = disk' PROVE Linked(E)
  <2>1. ASSUME NEW p \in run.late
        PROVE  /\ E[p].book # None /\ E[p].final = None /\ E[p].status = "imported"
               /\ LinkOf(E[p]) = LinkOf(E[Root[p]]) /\ E[Root[p]].status = "imported"
               /\ changes = 0 => <<Root[p], E[p].book>> \in There
    <3>1. /\ p \in Photo /\ Root[p] \in Photo /\ E[Root[p]] = D[Root[p]]
          /\ D[Root[p]].status = "imported" /\ D[Root[p]].book # None
          /\ Root[Root[p]] = Root[p]
      BY <1>1, <1>3, <1>4, <1>5, PairingAssumption DEF Linked, LinkedAt
    <3>2. LinkOf(D[Root[p]]) # None
      BY <3>1 DEF LinkOf
    <3>3. changes = 0 => LinkOf(D[Root[p]]) = D[Root[p]].book /\ <<Root[p], D[Root[p]].book>> \in There
      <4>1. changes = 0 => ~(changes > 0)
        OBVIOUS
      <4> QED BY <1>3, <3>1, <4>1 DEF Linked, LinkedAt, LinkOf
    <3>4. E[p].book = LinkOf(D[Root[p]]) /\ E[p].final = None /\ E[p].status = "imported"
      BY <1>2, <1>5
    <3>5. LinkOf(E[p]) = E[p].book
      BY <3>4 DEF LinkOf
    <3> QED BY <3>1, <3>2, <3>3, <3>4, <3>5
  <2>2. ASSUME NEW p \in Photo \ run.late PROVE E[p] = D[p] /\ E[Root[p]] = D[Root[p]]
    BY <1>2, <1>4, <1>5
  <2> QED BY <1>3, <2>1, <2>2 DEF Linked, LinkedAt
<1>6. \A E \in Views' : Linked(E)'
  BY <1>1, <1>5, Onward
<1>7. ASSUME NEW g \in Taken' PROVE run'.mem[g].status # "imported"
  <2>1. g \in Photo \ run.late /\ D[g].status # "imported"
    BY <1>1 DEF LinkInv, Main, D
  <2> QED BY <1>2, <2>1
<1> QED BY <1>1, <1>2, <1>3, <1>4, <1>6, <1>7

LEMMA AnswerLinked ==
    ASSUME TypeInv, [RNext]_vars, LinkInv, Record
    PROVE  /\ \A E \in Views' : Linked(E)'
           /\ \A g \in Taken' : run'.mem[g].status # "imported"
           /\ \A p \in run'.late : run'.mem[Root[p]].status = "imported"
<1> DEFINE h == run.request.root
           a == run.answer
           S == {h} \cup IF a.outcome = "imported" THEN run.plan[h] ELSE {}
<1>1. /\ Views' = {disk'} /\ Taken' = run.todo /\ Views = {disk} /\ run.mem = disk
      /\ Taken = run.todo \cup {h} /\ h \notin run.todo
  BY NewViews
<1>2. /\ run # NoRun /\ run'.mem = disk' /\ run'.late = run.late /\ h \in Main
      /\ run.plan[h] \subseteq Group(h) /\ (a.outcome = "imported" <=> a.book # None)
      /\ \A p \in S : /\ disk'[p].status = a.outcome /\ disk'[p].book = a.book
                      /\ disk'[p].final = None
      /\ \A p \in Photo \ S : disk'[p] = disk[p]
  BY RecordShape
<1>3. /\ Linked(disk) /\ \A p \in run.late : disk[Root[p]].status = "imported"
      /\ \A g \in Taken : disk[g].status # "imported"
      /\ a.book # None /\ changes = 0 => <<h, a.book>> \in There
  BY <1>1, <1>2 DEF LinkInv, Manifests, Record
<1>4. S \subseteq Photo /\ \A p \in S : Root[p] = h
  BY <1>2 DEF Group, Main
<1>5. \A g \in Main : g # h => g \notin S
  BY <1>4 DEF Main
<1>6. h \in S /\ (a.outcome # "imported" => S = {h})
  OBVIOUS
<1> HIDE DEF h, a, S
<1>7. ASSUME NEW p \in Photo PROVE Root[p] \in Main /\ Root[p] \in Photo
  BY PairingAssumption DEF Main
<1>8. ASSUME NEW E, E = disk' PROVE Linked(E)
  <2>1. ASSUME NEW p \in S
        PROVE  /\ E[p].status = a.outcome /\ E[p].book = a.book /\ E[p].final = None
               /\ E[Root[p]].status = a.outcome /\ LinkOf(E[p]) = LinkOf(E[Root[p]])
               /\ changes = 0 /\ E[p].book # None => <<Root[p], E[p].book>> \in There
    <3>1. /\ E[p].status = a.outcome /\ E[p].book = a.book /\ E[p].final = None /\ Root[p] = h
          /\ E[h].status = a.outcome /\ E[h].book = a.book /\ E[h].final = None
      BY <1>2, <1>4, <1>6, <1>8
    <3> QED BY <1>3, <3>1 DEF LinkOf
  <2>2. ASSUME NEW p \in Photo \ S, Root[p] = h, scene.changes <= 1
        PROVE  disk[p].status # "imported"
    <3>1. disk[h].status # "imported"
      BY <1>1, <1>3
    <3> QED BY <1>3, <2>2, <3>1 DEF Linked, LinkedAt
  <2>3. ASSUME NEW p \in Photo \ S
        PROVE  E[p] = disk[p] /\ (Root[p] # h => E[Root[p]] = disk[Root[p]])
    BY <1>2, <1>5, <1>7, <1>8
  <2>4. ASSUME NEW p \in Photo PROVE LinkedAt(E, p)
    <3>1. CASE p \in S
      BY <1>2, <2>1, <3>1 DEF LinkedAt
    <3>2. CASE p \notin S
      <4>1. LinkedAt(disk, p) /\ E[p] = disk[p]
        BY <1>3, <2>3, <3>2 DEF Linked
      <4>2. CASE Root[p] = h
        BY <2>2, <3>2, <4>1, <4>2 DEF LinkedAt
      <4>3. CASE Root[p] # h
        BY <2>3, <3>2, <4>1, <4>3 DEF LinkedAt
      <4> QED BY <4>2, <4>3
    <3> QED BY <3>1, <3>2
  <2> QED BY <2>4 DEF Linked
<1>9. \A E \in Views' : Linked(E)'
  BY <1>1, <1>8, Onward
<1>10. ASSUME NEW g \in Taken' PROVE run'.mem[g].status # "imported"
  <2>1. g \in Main /\ g # h /\ g \in Taken
    BY <1>1, RunCases
  <2>2. g \in Photo \ S
    BY <1>5, <2>1 DEF Main
  <2> QED BY <1>2, <1>3, <2>1, <2>2
<1>11. ASSUME NEW p \in run'.late PROVE run'.mem[Root[p]].status = "imported"
  <2>1. p \in Photo /\ p \in run.late
    BY <1>2, RunCases
  <2>2. disk[Root[p]].status = "imported" /\ Root[p] # h
    BY <1>1, <1>3, <2>1
  <2>3. Root[p] \in Photo \ S
    BY <1>5, <1>7, <2>1, <2>2
  <2> QED BY <1>2, <2>2, <2>3
<1> QED BY <1>9, <1>10, <1>11

LEMMA CalmLinked ==
    ASSUME TypeInv, [RNext]_vars, LinkInv, Calm
    PROVE  /\ \A E \in Views' : Linked(E)'
           /\ \A g \in Taken' : run'.mem[g].status # "imported"
           /\ run' # NoRun => \A p \in run'.late : run'.mem[Root[p]].status = "imported"
<1>1. /\ Views' \subseteq Views /\ Taken' \subseteq Taken
      /\ run' = NoRun \/ (run # NoRun /\ run'.mem = run.mem /\ run'.late = run.late)
  BY CalmShape
<1>2. \A E \in Views' : Linked(E)'
  BY <1>1, Onward DEF LinkInv, Manifests
<1>3. run' = NoRun => Taken' = {}
  BY DEF Taken, NoRun, Asking, At
<1> QED BY <1>1, <1>2, <1>3 DEF LinkInv

\* What a run was told is there, as long as nothing leaves the library.
LEMMA AnswerIsThere ==
    ASSUME TypeInv, [RNext]_vars, LinkInv, changes' = 0
    PROVE  /\ At("answered")' /\ run'.answer.book # None =>
                 <<run'.request.root, run'.answer.book>> \in There'
           /\ \A g \in Main : \A b \in library'[g] : b = Id(b)
<1>1. ~Upkeep
  BY UpkeepShape DEF TypeInv
<1>2. /\ There \subseteq There' /\ changes = 0
      /\ \A g \in Main : \A b \in library'[g] : b \in library[g] \/ b \subseteq Field
  BY <1>1, LibraryGrows
<1>3. \A g \in Main : \A b \in library'[g] : b = Id(b)
  BY <1>2 DEF LinkInv, Id
<1>4. ASSUME At("answered")', run'.answer.book # None
      PROVE  <<run'.request.root, run'.answer.book>> \in There'
  <2>1. CASE run' = run
    BY <1>2, <1>4, <2>1 DEF LinkInv, At
  <2>2. CASE Serve \/ Refuse \/ Lose
    <3>1. run'.answer.outcome = "imported" /\ run'.request = run.request
      BY <1>4, <2>2, AnswerShape
    <3>2. <<run.request.root, run'.answer.book>> \in There'
      BY <2>2, <3>1, AnswerShape
    <3> QED BY <3>1, <3>2
  <2>3. run' = run \/ Serve \/ Refuse \/ Lose
    <3>1. run'.pc = "answered"
      BY <1>4 DEF At
    <3>2. CASE Calm
      <4>1. ~Send
        BY <3>1, SendShape
      <4> QED BY <3>1, <3>2, CalmRun
    <3>3. CASE \E p \in Photo : Edit(p)
      BY <3>1, <3>3, EditShape DEF Edit, NoRun
    <3>4. CASE \E o \in Option : Begin(o)
      BY <3>1, <3>4, BeginShape
    <3>5. CASE SaveLinks \/ Record
      BY <3>1, <3>5, LinksShape, RecordShape
    <3>6. CASE SaveMap
      BY <3>6 DEF SaveMap
    <3> QED BY <3>2, <3>3, <3>4, <3>5, <3>6, Steps
  <2> QED BY <2>1, <2>2, <2>3
<1> QED BY <1>3, <1>4

\* A redirection takes a group to where it was told that a book is, and all of the group.
LEMMA RedirectLinked ==
    ASSUME TypeInv, [RNext]_vars, LinkInv, RecInv, Redirect
    PROVE  \A E \in {rec'.mem} : Linked(E)'
<1> DEFINE h == rec.map.group
           from == rec.map.from
           to == rec.map.to
           Hit(p) == Root[p] = h /\ disk[p].book = from /\ disk[p].final = None
<1>1. /\ rec # NoRec /\ rec \in Recording /\ Stage("map") /\ <<h, to>> \in Main \X Link
      /\ \/ rec'.mem = rec.mem
         \/ /\ <<h, to>> \in There
            /\ \A p \in Photo : rec'.mem[p] = IF /\ Root[p] = h /\ rec.mem[p].book = from
                                                 /\ rec.mem[p].final = None
                                              THEN Moved(rec.mem[p], to) ELSE rec.mem[p]
  BY RedirectShape
<1>2. rec.mem = disk /\ rec.map # None /\ from \in Link
  BY <1>1 DEF TypeInv, RecOK, Recording, Stage
<1>3. Linked(disk)
  BY DEF LinkInv, Manifests, Views
<1>4. /\ changes > 0
      /\ scene.changes <= 1 => \A p \in Group(h) \cup {h} : disk[p].final # from
  BY <1>1, <1>2 DEF RecInv, Stage
<1>5. h \in Main /\ to \in Link /\ to # None /\ from # None
  BY <1>1, <1>2, BooksFit
<1>6. CASE rec'.mem = rec.mem
  BY <1>2, <1>3, <1>6, Onward
<1>7. CASE /\ <<h, to>> \in There
           /\ \A p \in Photo : rec'.mem[p] = IF Hit(p) THEN Moved(disk[p], to) ELSE disk[p]
  <2>1. ASSUME NEW E, E = rec'.mem PROVE Linked(E)
    <3>1. ASSUME NEW p \in Photo, Hit(p)
          PROVE  /\ E[p].status = disk[p].status /\ E[p].book = from /\ E[p].final = to
                 /\ LinkOf(E[p]) = to
      <4>1. disk[p] \in Entry /\ E[p] = Moved(disk[p], to)
        BY <1>7, <2>1, <3>1 DEF TypeInv
      <4> QED BY <1>5, <3>1, <4>1, EntryMoved DEF LinkOf
    <3>2. ASSUME NEW p \in Photo, ~Hit(p) PROVE E[p] = disk[p]
      BY <1>7, <2>1, <3>2
    <3>3. ASSUME NEW p \in Photo, Root[p] = h, disk[p].status = "imported", scene.changes <= 1
          PROVE  Hit(p) <=> Hit(h)
      <4>1. LinkOf(disk[p]) = LinkOf(disk[h]) /\ disk[p].book # None
        BY <1>3, <3>3 DEF Linked, LinkedAt
      <4>2. disk[p].final # from /\ disk[h].final # from /\ Root[h] = h /\ h \in Photo
        BY <1>4, <1>5, <3>3 DEF Group, Main
      <4>3. Hit(p) <=> LinkOf(disk[p]) = from
        BY <1>5, <3>3, <4>2 DEF LinkOf
      <4>4. Hit(h) <=> LinkOf(disk[h]) = from
        BY <1>5, <4>2 DEF LinkOf
      <4> QED BY <4>1, <4>3, <4>4
    <3>4. ASSUME NEW p \in Photo PROVE LinkedAt(E, p)
      <4>1. LinkedAt(disk, p) /\ Root[p] \in Photo /\ Root[Root[p]] = Root[p]
        BY <1>3, PairingAssumption DEF Linked
      <4>2. ~(changes = 0)
        BY <1>4
      <4>3. E[Root[p]].status = disk[Root[p]].status
        BY <3>1, <3>2, <4>1
      <4>4. CASE Hit(p)
        <5>1. /\ E[p].status = disk[p].status /\ E[p].book = from /\ E[p].final = to
              /\ LinkOf(E[p]) = to /\ Root[p] = h
          BY <3>1, <4>4
        <5>2. scene.changes <= 1 /\ disk[p].status = "imported" => LinkOf(E[Root[p]]) = to
          BY <3>1, <3>3, <4>1, <4>4, <5>1
        <5> QED BY <1>4, <1>5, <1>7, <4>1, <4>2, <4>3, <4>4, <5>1, <5>2 DEF LinkedAt
      <4>5. CASE ~Hit(p)
        <5>1. E[p] = disk[p]
          BY <3>2, <4>5
        <5>2. scene.changes <= 1 /\ disk[p].status = "imported" => E[Root[p]] = disk[Root[p]]
          <6>1. CASE Root[p] = h
            BY <3>2, <3>3, <4>1, <4>5, <6>1
          <6>2. CASE Root[p] # h
            BY <3>2, <4>1, <6>2
          <6> QED BY <6>1, <6>2
        <5> QED BY <4>1, <4>2, <4>3, <5>1, <5>2 DEF LinkedAt
      <4> QED BY <4>4, <4>5
    <3> QED BY <3>4 DEF Linked
  <2> QED BY <2>1, Onward
<1> QED BY <1>1, <1>2, <1>6, <1>7

\* The copy that a reconciliation or a verification has.
LEMMA RecLinked ==
    ASSUME TypeInv, [RNext]_vars, LinkInv, RecInv, rec' # NoRec
    PROVE  \A E \in {rec'.mem} : Linked(E)'
<1>1. ASSUME rec # NoRec, rec'.mem = rec.mem PROVE \A E \in {rec'.mem} : Linked(E)'
  <2>1. rec.mem \in Manifests
    BY <1>1, RunCases DEF Manifests
  <2> QED BY <1>1, <2>1, Onward DEF LinkInv
<1>2. CASE BeginReconcile \/ BeginVerify
  <2>1. rec'.mem = disk
    BY <1>2, BeginRecShape
  <2> QED BY <2>1, Onward DEF LinkInv, Manifests, Views
<1>3. CASE Redirect
  BY <1>3, RedirectLinked
<1>4. CASE rec # NoRec /\ LateServe /\ rec' = Witness(rec)
  <2>1. rec'.mem = rec.mem
    BY <1>4, RunCases DEF Witness, Recording, Stage
  <2> QED BY <1>1, <1>4, <2>1
<1>5. CASE rec # NoRec /\ (Upkeep \/ LookUp \/ Report \/ SaveMap \/ ReportIssues)
  <2>1. rec'.mem = rec.mem
    BY <1>5, UpkeepShape, LookUpShape, ReportShape
  <2> QED BY <1>1, <1>5, <2>1
<1>6. CASE rec # NoRec /\ UNCHANGED <<bvars, rvars>>
  BY <1>1, <1>6 DEF rvars
<1> QED BY <1>2, <1>3, <1>4, <1>5, <1>6, RecSteps

LEMMA LinkStep == TypeInv /\ SeenInv /\ LinkInv /\ RecInv /\ [RNext]_vars => LinkInv'
<1> SUFFICES ASSUME TypeInv, SeenInv, LinkInv, RecInv, [RNext]_vars PROVE LinkInv'
  OBVIOUS
<1>1. /\ \A E \in Views' : Linked(E)'
      /\ \A g \in Taken' : run'.mem[g].status # "imported"
      /\ run' # NoRun => \A p \in run'.late : run'.mem[Root[p]].status = "imported"
  <2>1. ASSUME NEW p \in Photo, Edit(p)
        PROVE (\A E \in Views' : Linked(E)') /\ Taken' = {} /\ run' = NoRun
    <3>1. Views = {disk} /\ Views' = {disk'} /\ Taken' = {}
      BY <2>1, NewViews
    <3>2. /\ run' = NoRun
          /\ \A q \in Photo \ {p} : disk'[q] = [disk[q] EXCEPT !.tried = disk'[q].tried]
          /\ disk'[p].book = disk[p].book /\ disk'[p].final = disk[p].final
          /\ disk[p].status # "imported" /\ disk'[p].status # "imported"
      BY <2>1, EditShape DEF Edit
    <3>3. ASSUME NEW q \in Photo
          PROVE  /\ disk[q].status = "imported" <=> disk'[q].status = "imported"
                 /\ disk[q].book = disk'[q].book /\ disk[q].final = disk'[q].final
      <4>1. disk[q] \in Entry
        BY DEF TypeInv
      <4> QED BY <3>2, <4>1 DEF Entry
    <3>4. Linked(disk)
      BY <3>1 DEF LinkInv, Manifests
    <3>5. ASSUME NEW E, E = disk' PROVE Linked(E)'
      BY <3>3, <3>4, <3>5, AsLinked
    <3> QED BY <3>1, <3>2, <3>5
  <2>2. ASSUME NEW o \in Option, Begin(o)
        PROVE  /\ \A E \in Views' : Linked(E)'
               /\ \A g \in Taken' : run'.mem[g].status # "imported"
               /\ \A p \in run'.late : run'.mem[Root[p]].status = "imported"
    <3> DEFINE T == Todo(disk, o)
    <3>1. Views = {disk} /\ Views' = {disk, run'.mem} /\ Taken' = run'.todo
      BY <2>2, NewViews
    <3>2. /\ T \subseteq Main /\ run'.todo \subseteq T /\ run'.late = LateLinks(disk, o)
          /\ \A p \in Photo \ T : run'.mem[p] = disk[p]
          /\ \A g \in T :
                \/ /\ run'.mem[g].status = disk[g].status /\ run'.mem[g].book = disk[g].book
                   /\ run'.mem[g].final = disk[g].final
                \/ /\ run'.mem[g].status = "failed" /\ run'.mem[g].book = None
                   /\ run'.mem[g].final = None
      BY <2>2, BeginShape
    <3>3. ASSUME NEW g \in T PROVE disk[g].status # "imported"
      BY DEF Todo, Senders, Target
    <3>4. Linked(disk)
      BY <3>1 DEF LinkInv, Manifests
    <3>5. \A p \in LateLinks(disk, o) : p \in Photo /\ disk[Root[p]].status = "imported"
      BY DEF LateLinks
    <3> HIDE DEF T
    <3>6. ASSUME NEW p \in Photo
          PROVE  /\ disk[p].status = "imported" <=> run'.mem[p].status = "imported"
                 /\ disk[p].book = run'.mem[p].book /\ disk[p].final = run'.mem[p].final
      <4>1. CASE p \in T
        <5>1. disk[p].status # "imported" /\ disk[p].book = None /\ disk[p].final = None
          BY <3>3, <3>4, <4>1 DEF Linked, LinkedAt
        <5> QED BY <3>2, <4>1, <5>1
      <4>2. CASE p \notin T
        BY <3>2, <4>2
      <4> QED BY <4>1, <4>2
    <3>7. ASSUME NEW E \in {disk, run'.mem} PROVE Linked(E)'
      BY <3>4, <3>6, <3>7, AsLinked, Onward
    <3>8. ASSUME NEW p \in run'.late PROVE run'.mem[Root[p]].status = "imported"
      <4>1. Root[p] \in Photo /\ disk[Root[p]].status = "imported"
        BY <3>2, <3>5, PairingAssumption
      <4> QED BY <3>6, <4>1
    <3>9. ASSUME NEW g \in Taken' PROVE run'.mem[g].status # "imported"
      BY <3>1, <3>2, <3>3, <3>6 DEF Main
    <3> QED BY <3>1, <3>7, <3>8, <3>9
  <2>3. CASE SaveMap
    <3>1. Views' = {rec.mem} /\ Taken' = {} /\ run' = NoRun
      BY <2>3, NewViews, ReportShape DEF SaveMap
    <3>2. rec.mem \in Manifests
      BY <2>3 DEF Manifests, SaveMap, Stage
    <3> QED BY <3>1, <3>2, Onward DEF LinkInv
  <2>4. CASE Calm
    BY <2>4, CalmLinked
  <2>5. CASE SaveLinks
    BY <2>5, LateLinked
  <2>6. CASE Record
    BY <2>6, AnswerLinked
  <2> QED BY <2>1, <2>2, <2>3, <2>4, <2>5, <2>6, Steps
<1>2. rec' # NoRec => \A E \in {rec'.mem} : Linked(E)'
  BY RecLinked
<1>3. \A E \in Manifests' : Linked(E)'
  <2>1. Manifests' \subseteq Views' \cup {rec'.mem} /\ (rec' = NoRec => Manifests' = Views')
    BY DEF Manifests, Stage, NoRec
  <2> QED BY <1>1, <1>2, <2>1
<1>4. changes' = 0 =>
         /\ At("answered")' /\ run'.answer.book # None =>
               <<run'.request.root, run'.answer.book>> \in There'
         /\ \A g \in Main : \A b \in library'[g] : b = Id(b)
  BY AnswerIsThere
<1> QED BY <1>1, <1>3, <1>4 DEF LinkInv

LEMMA RecStep == TypeInv /\ CopyInv /\ LinkInv /\ RecInv /\ [RNext]_vars => RecInv'
<1> SUFFICES ASSUME TypeInv, CopyInv, LinkInv, RecInv, [RNext]_vars, rec' # NoRec
             PROVE  RecInv'
  BY DEF RecInv, Stage, NoRec
<1>1. ASSUME rec # NoRec, rec'.entered = rec.entered, asked' = asked, died' = died,
             \A p \in Photo : rec'.mem[p].status = rec.mem[p].status,
             rec'.pc = "map" => /\ rec.pc = "map" /\ changes' \in {changes, changes + 1}
                                /\ rec'.map = rec.map /\ rec'.mem = rec.mem
      PROVE  RecInv'
  <2>1. /\ \A g \in rec.entered : Sealed(rec.mem[g]) \/ g \in asked \cup died
        /\ rec.pc = "map" =>
             /\ changes > 0
             /\ scene.changes <= 1 => \A p \in Group(rec.map.group) \cup {rec.map.group} :
                   rec.mem[p].final # rec.map.from
    BY <1>1, RunCases DEF RecInv, Stage
  <2>2. rec.entered \subseteq Photo /\ changes \in Nat
    BY <1>1, RunCases DEF Recording, Main, TypeInv
  <2>3. \A g \in rec'.entered : Sealed(rec'.mem[g]) \/ g \in asked' \cup died'
    BY <1>1, <2>1, <2>2 DEF Sealed
  <2>4. scene' = scene
    BY Steps
  <2>5. CASE rec'.pc = "map"
    <3>1. changes' > 0
      BY <1>1, <2>1, <2>2, <2>5
    <3> QED BY <1>1, <2>1, <2>3, <2>4, <2>5, <3>1 DEF RecInv, Stage
  <2>6. CASE rec'.pc # "map"
    BY <2>3, <2>6 DEF RecInv, Stage
  <2> QED BY <2>5, <2>6
<1>2. CASE BeginReconcile \/ BeginVerify
  <2>1. /\ run = NoRun /\ rec'.mem = disk /\ rec'.entered \subseteq {g \in Main : copies[g] > 0}
        /\ rec'.pc = "map" =>
              /\ rec'.map # None /\ rec'.map.group \in Main
              /\ <<rec'.map.group, rec'.map.from>> \notin There
              /\ \E p \in Photo : /\ Root[p] = rec'.map.group /\ disk[p].book = rec'.map.from
                                  /\ disk[p].book # None
        /\ UNCHANGED <<bvars, changes>>
    BY <1>2, BeginRecShape
  <2>2. Linked(disk)
    BY DEF LinkInv, Manifests, Views
  <2>3. ASSUME NEW g \in rec'.entered PROVE Sealed(rec'.mem[g]) \/ g \in (asked \cup died)'
    <3>1. g \in Main /\ copies[g] # 0
      BY <2>1 DEF TypeInv
    <3>2. CASE g \in Once
      <4>1. CopyAt(g) /\ ~At("answered")
        BY <2>1, <3>2 DEF CopyInv, At, NoRun
      <4>2. Sealed(disk[g])
        BY <3>1, <4>1 DEF CopyAt, Views
      <4> QED BY <2>1, <4>2
    <3>3. CASE g \notin Once
      BY <2>1, <3>1, <3>3 DEF Once, bvars
    <3> QED BY <3>2, <3>3
  <2>4. ASSUME rec'.pc = "map"
        PROVE  /\ changes > 0
               /\ scene.changes <= 1 => \A p \in Group(rec'.map.group) \cup {rec'.map.group} :
                     disk[p].final # rec'.map.from
    <3> DEFINE h == rec'.map.group
               from == rec'.map.from
    <3>1. PICK p \in Photo : Root[p] = h /\ disk[p].book = from /\ from # None
      BY <2>1, <2>4
    <3>2. <<h, from>> \notin There /\ h \in Main
      BY <2>1, <2>4
    <3>3. changes # 0
      BY <2>2, <3>1, <3>2 DEF Linked, LinkedAt
    <3>4. ASSUME scene.changes <= 1, NEW q \in Group(h) \cup {h} PROVE disk[q].final # from
      <4>1. q \in Photo /\ Root[q] = h
        BY <3>2 DEF Group, Main
      <4> QED BY <2>2, <3>1, <3>2, <3>4, <4>1 DEF Linked, LinkedAt
    <3>5. changes > 0
      BY <3>3 DEF TypeInv
    <3> QED BY <3>4, <3>5
  <2>5. scene' = scene /\ changes' = changes
    BY <2>1, Steps
  <2> QED BY <2>1, <2>3, <2>4, <2>5 DEF RecInv, Stage
<1>3. CASE rec # NoRec /\ LateServe /\ rec' = Witness(rec) /\ changes' = changes
  <2>1. rec'.mem = rec.mem /\ rec'.pc = rec.pc /\ rec'.map = rec.map /\ rec'.entered = rec.entered
    BY <1>3, RunCases DEF Witness, Recording, Stage
  <2>2. asked' = asked /\ died' = died
    BY <1>3, LateShape
  <2> QED BY <1>1, <1>3, <2>1, <2>2
<1>4. CASE rec # NoRec /\ Upkeep
  <2>1. rec' = rec /\ asked' = asked /\ died' = died /\ changes' = changes + 1
    BY <1>4, UpkeepShape
  <2> QED BY <1>1, <1>4, <2>1
<1>5. CASE rec # NoRec /\ Redirect
  <2>1. /\ rec \in Recording /\ rec'.pc = "report" /\ rec'.entered = rec.entered
        /\ UNCHANGED <<bvars, changes>>
        /\ \/ rec'.mem = rec.mem
           \/ \A p \in Photo : rec'.mem[p] \in {Moved(rec.mem[p], rec.map.to), rec.mem[p]}
    BY <1>5, RedirectShape
  <2>2. rec.map.to \in Link
    BY <1>5, RedirectShape
  <2>3. ASSUME NEW p \in Photo PROVE rec'.mem[p].status = rec.mem[p].status
    <3>1. rec.mem[p] \in Entry
      BY <2>1 DEF Recording
    <3> QED BY <2>1, <2>2, <3>1, EntryMoved
  <2> QED BY <1>1, <1>5, <2>1, <2>3 DEF bvars
<1>6. CASE rec # NoRec /\ LookUp
  <2>1. /\ rec'.mem = rec.mem /\ rec'.pc \in {"report", "verify"} /\ rec'.entered = rec.entered
        /\ UNCHANGED bvars
    BY <1>6, LookUpShape
  <2> QED BY <1>1, <1>6, <2>1 DEF bvars
<1>7. CASE rec # NoRec /\ (Report \/ SaveMap \/ ReportIssues)
  <2>1. /\ rec'.mem = rec.mem /\ rec'.pc # "map" /\ rec'.entered = rec.entered
        /\ asked' = asked /\ died' = died
    BY <1>7, ReportShape
  <2> QED BY <1>1, <1>7, <2>1
<1>8. CASE rec # NoRec /\ UNCHANGED <<bvars, rvars>>
  BY <1>1, <1>8 DEF bvars, rvars
<1> QED BY <1>2, <1>3, <1>4, <1>5, <1>6, <1>7, <1>8, RecSteps

LEMMA LinksHold == Spec => [](LinkInv /\ RecInv)
<1>1. RInit => LinkInv /\ RecInv
  <2> SUFFICES ASSUME RInit PROVE LinkInv /\ RecInv
    OBVIOUS
  <2>1. /\ Manifests = {disk} /\ Taken = {} /\ ~At("answered") /\ run = NoRun /\ Stage("idle")
    BY DEF RInit, Init, NoRun, NoRec, Manifests, Views, Taken, Asking, At, Stage
  <2>2. Linked(disk)
    BY DEF RInit, Init, Scanned, Linked, LinkedAt
  <2>3. \A g \in Main : \A b \in library[g] : b = Id(b)
    <3>1. ASSUME NEW t \in Twin PROVE {t} = Id({t})
      <4>1. {t} = {t} \cup {}
        OBVIOUS
      <4> QED BY <4>1, BooksFit
    <3> QED BY <3>1, SceneAssumption DEF RInit, Init
  <2> QED BY <2>1, <2>2, <2>3 DEF LinkInv, RecInv
<1>2. TypeInv /\ SeenInv /\ CopyInv /\ (LinkInv /\ RecInv) /\ [RNext]_vars => (LinkInv /\ RecInv)'
  BY LinkStep, RecStep
<1> QED BY <1>1, <1>2, TypesHold, SeenHolds, CopyHolds, PTL DEF Spec

LEMMA InvariantHolds == Spec => []IInv
  BY TypesHold, SeenHolds, PassHolds, SentHolds, CopyHolds, BooksHold, LinksHold, PTL DEF IInv

\* GroupsConsistent of BatchImport (cmd_run, _merge_group, late_links, reconcile --map): the
\* manifest keeps its types, a group makes one book, and its imported photos are on one.
THEOREM GroupsConsistentHolds == Spec => []GroupsConsistent
<1>1. ASSUME TypeInv PROVE TypeOK
  <2>1. run.pc \in {"idle", "plan", "links", "loop", "wait", "answered"}
    BY <1>1, RunCases DEF Running, NoRun
  <2>2. run.mem # None => run.mem \in [Photo -> Entry]
    BY <1>1, RunCases DEF NoRun
  <2>3. run.pc \in {"wait", "answered"} <=> run.request # None
    <3>1. run.request \in Request => run.request # None
      BY BooksFit DEF Request
    <3> QED BY <1>1, <3>1 DEF TypeInv, RunOK, Asking, At
  <2>4. library \in [Main -> SUBSET (SUBSET (Field \cup Twin))]
    <3>1. Book \subseteq SUBSET (Field \cup Twin)
      BY DEF Book
    <3>2. SUBSET Book \subseteq SUBSET (SUBSET (Field \cup Twin))
      BY <3>1
    <3>3. library \in [Main -> SUBSET Book]
      BY <1>1 DEF TypeInv
    <3> QED BY <3>2, <3>3
  <2>5. late \subseteq Sent
    BY <1>1 DEF TypeInv, Request
  <2> QED BY <1>1, <2>1, <2>2, <2>3, <2>4, <2>5 DEF TypeInv, TypeOK
<1>2. ASSUME TypeInv, LinkInv PROVE GroupTogether
  <2>1. Linked(disk)
    BY <1>2 DEF LinkInv, Manifests, Views
  <2>2. scene.changes = 0 => changes = 0
    BY <1>2 DEF TypeInv
  <2>3. ASSUME NEW p \in Photo, disk[p].status = "imported", scene.changes = 0
        PROVE  disk[p].book \in library[Root[p]]
    <3>1. <<Root[p], disk[p].book>> \in There
      BY <2>1, <2>2, <2>3 DEF Linked, LinkedAt
    <3>2. PICK b \in library[Root[p]] : Id(b) = disk[p].book
      BY <3>1 DEF There
    <3>3. Root[p] \in Main
      BY PairingAssumption DEF Main
    <3> QED BY <1>2, <2>2, <2>3, <3>2, <3>3 DEF LinkInv
  <2>4. ASSUME NEW p \in Photo, disk[p].status = "imported", scene.changes <= 1
        PROVE  LinkOf(disk[p]) = LinkOf(disk[Root[p]])
    BY <2>1, <2>4 DEF Linked, LinkedAt
  <2> QED BY <2>3, <2>4 DEF GroupTogether
<1>3. TypeOK /\ OneBookPerGroup /\ GroupTogether => GroupsConsistent
  BY DEF GroupsConsistent
<1> QED BY <1>1, <1>2, <1>3, TypesHold, OneBookHolds, LinksHold, PTL

\* ReconcileSound of BatchReconcile (cmd_reconcile, cmd_verify): what is noted was looked at,
\* a clean report misses no book the server had entered, and a clean verification vouches
\* for the books of the imported photos.
THEOREM ReconcileSoundHolds == Spec => []ReconcileSound
<1>1. ASSUME TypeInv, SeenInv, LinkInv, RecInv PROVE ReconcileSound
  <2> USE <1>1
  <2>1. RedirectsVerified
    BY DEF SeenInv, RedirectsVerified, Stage, Moved
  <2>2. CleanReportIsWhole
    <3> SUFFICES ASSUME rec.pc \in {"save", "exit"}, Resolved, NEW g \in rec.entered
                 PROVE  rec.mem[g].status = "imported" \/ g \in asked \cup died
      BY DEF CleanReportIsWhole
    <3>1. rec # NoRec /\ rec \in Recording /\ ~Stage("idle")
      BY RunCases DEF Stage, NoRec
    <3>2. g \in Photo /\ Linked(rec.mem)
      BY <3>1 DEF Recording, Main, LinkInv, Manifests
    <3>3. Sealed(rec.mem[g]) \/ g \in asked \cup died
      BY <3>1 DEF RecInv
    <3>4. ~Unlinked(rec.mem[g])
      BY <3>2 DEF Resolved
    <3>5. LinkOf(rec.mem[g]) # None => rec.mem[g].status = "imported"
      BY <3>2 DEF Linked, LinkedAt, LinkOf
    <3> QED BY <3>3, <3>4, <3>5 DEF Sealed, Unlinked
  <2>3. CleanVerifyIsThere
    <3> SUFFICES ASSUME Stage("verified"), NoIssues, NEW p \in Photo, disk[p].status = "imported"
                 PROVE  /\ <<Root[p], LinkOf(disk[p])>> \in rec.there
                        /\ LinkOf(disk[Root[p]]) \in {None, LinkOf(disk[p])}
      BY DEF CleanVerifyIsThere
    <3>1. rec.mem = disk /\ ~Stage("idle")
      BY DEF TypeInv, RecOK, Stage
    <3>2. disk[p] \in Entry /\ disk[p].book # None /\ Root[p] \in Main
      BY PairingAssumption DEF LinkInv, Manifests, Views, Linked, LinkedAt, TypeInv, Main
    <3>3. LinkOf(disk[p]) # None /\ LinkOf(disk[p]) \in Link
      BY <3>2 DEF LinkOf, Entry
    <3>4. Compared(p) = LinkOf(disk[p])
      BY <3>1, <3>3 DEF Compared
    <3>5. /\ Good(rec.seen[<<Root[p], LinkOf(disk[p])>>], "isbn" \in disk[p].fields)
          /\ LinkOf(disk[Root[p]]) \in {None, LinkOf(disk[p])}
      BY <3>1, <3>3, <3>4 DEF NoIssues
    <3>6. rec.seen[<<Root[p], LinkOf(disk[p])>>] \in Alive
      BY <3>5 DEF Good, Alive
    <3>7. <<Root[p], LinkOf(disk[p])>> \in Main \X Link
      BY <3>2, <3>3
    <3> QED BY <3>1, <3>5, <3>6, <3>7 DEF SeenInv
  <2> QED BY <2>1, <2>2, <2>3 DEF ReconcileSound
<1> QED BY <1>1, TypesHold, SeenHolds, LinksHold, PTL

=============================================================================

---------------------------- MODULE BatchReconcile ----------------------------
(***************************************************************************)
(* The reconciliation and the verification of a batch                      *)
(* (scripts/batch_import_covers, reconcile and verify).  Books the batch   *)
(* has entered are merged and deleted in the library.  Either script reads *)
(* the manifest and asks the server for one linked book after the other.   *)
(* The first may be told that the photos of one book belong to another one *)
(* now, and then notes that beside their receipts (--map, --apply); its    *)
(* report tells what is unresolved.  The second compares each photo with   *)
(* the book that was found and changes nothing.  Both exit with 0 if there *)
(* is nothing to report.                                                   *)
(*                                                                         *)
(* No run of the batch and no edit of the manifest is made meanwhile: like *)
(* run, they take no lock on the file.  They may stop anywhere.  A book    *)
(* that is entered again gets the id of the one that is gone.              *)
(* The properties are about one merge or deletion (bound): after a second, *)
(* a redirected main photo and one linked late may be on two books.        *)
(***************************************************************************)
EXTENDS BatchImport

CONSTANT Odd        \* twins with an ISBN of their own

ASSUME OddAssumption == Odd \subseteq Twin

VARIABLES
    rec,        \* the reconciliation or verification under way
    changes     \* history: how many books were merged or deleted (bound in the scene)

rvars == <<rec, changes>>
vars  == <<scene, bvars, rvars>>

NoRec == [pc |-> "idle", mem |-> None, map |-> None, apply |-> FALSE, remapped |-> FALSE,
          seen |-> None,        \* what it was told of each book, or None
          entered |-> {},       \* history: groups the server had entered at the start
          there |-> {}]         \* history: books that were there since the start

RInit == Init /\ rec = NoRec /\ changes = 0

\* Books are told apart by their group and their id.
Books == {<<Root[p], LinkOf(rec.mem[p])>> : p \in {q \in Photo : LinkOf(rec.mem[q]) # None}}

There == UNION {{<<g, Id(b)>> : b \in library[g]} : g \in Main}

Stage(label) == rec.pc = label

-----------------------------------------------------------------------------
(* The library.                                                             *)

\* merge_books: the target takes over the ISBN if it has none.
Heir(t, b) == {t} \cup IF t \in Odd THEN {} ELSE b \cap {"isbn"}

Upkeep ==
    /\ changes < scene.changes
    /\ \E g \in Main : \E b \in library[g] :
          \/ library' = [library EXCEPT ![g] = @ \ {b}]
          \/ /\ b \subseteq Field
             /\ \E t \in {s \in Twin : {s} \in library[g]} :
                   library' = [library EXCEPT ![g] = (@ \ {b, {t}}) \cup {Heir(t, b)}]
    /\ changes' = changes + 1
    /\ UNCHANGED <<disk, run, late, copies, approved, vouched, asked, died, spoiled, rec>>

-----------------------------------------------------------------------------
(* cmd_reconcile.                                                           *)

\* --map from=to, with or without the ISBN of the group, for photos of a group whose book
\* is gone.
Map == {None} \cup
    [group : Main, from : {disk[p].book : p \in Photo} \ {None}, to : Link, isbn : BOOLEAN]

BeginReconcile ==
    /\ run = NoRun /\ Stage("idle")
    /\ scene.changes > 0
    /\ \E mp \in Map, apply \in BOOLEAN :
          /\ mp # None => /\ mp.from # mp.to /\ <<mp.group, mp.from>> \notin There
                          /\ \E p \in Photo : Root[p] = mp.group /\ disk[p].book = mp.from
          /\ rec' = [NoRec EXCEPT !.pc = IF mp = None THEN "report" ELSE "map", !.mem = disk,
                        !.map = mp, !.apply = apply,
                        !.seen = [l \in Main \X Link |-> None],
                        !.entered = {g \in Main : copies[g] > 0}, !.there = There]
    /\ UNCHANGED <<bvars, changes>>

\* check: a book is there, with the ISBN of its group, another or none; it is not there; or
\* the server could not be asked.
Told(l) ==
    {"unknown"} \cup
    IF l \notin There THEN {"gone"}
    ELSE {CASE Id(b) \cap Odd # {}  -> "other"
            [] "isbn" \in b -> "same"
            [] OTHER -> "none" : b \in {c \in library[l[1]] : Id(c) = l[2]}}

Alive == {"other", "same", "none"}

ASSUME AliveAssumption == None \notin Alive

\* Mutant: a book that could not be asked for counts as there.
GoodUnlessGone(told, isbn) == told # "gone"

\* The target is there and has the ISBN that was given.
Good(told, isbn) == IF isbn THEN told = "same" ELSE told \in Alive

\* The target is looked up first; the receipts stay as they are, and an entry that has been
\* redirected is not redirected again.
Redirect ==
    /\ Stage("map")
    /\ LET mp == rec.map
           affected == {p \in Photo : /\ Root[p] = mp.group /\ rec.mem[p].book = mp.from
                                      /\ rec.mem[p].final = None}
       IN \E told \in Told(<<mp.group, mp.to>>) :
            rec' = [rec EXCEPT
                !.pc = "report",
                !.seen[<<mp.group, mp.to>>] = told,
                !.remapped = Good(told, mp.isbn) /\ affected # {},
                !.mem = IF Good(told, mp.isbn) /\ rec.apply
                        THEN [p \in Photo |-> IF p \in affected
                                THEN [rec.mem[p] EXCEPT !.final = mp.to] ELSE rec.mem[p]]
                        ELSE @]
    /\ UNCHANGED <<bvars, changes>>

\* The books of all entries, each asked for once.
LookUp ==
    /\ Stage("report") \/ Stage("verify")
    /\ \E l \in Books :
          /\ rec.seen[l] = None
          /\ \E told \in Told(l) : rec' = [rec EXCEPT !.seen[l] = told]
    /\ UNCHANGED <<bvars, changes>>

\* Mutant: an unknown outcome without a book is nothing to resolve.
LinkedOnly(e) == FALSE

\* outcome_unknown_unlinked
Unlinked(e) == LinkOf(e) = None /\ e.status = "outcome_unknown"

Mismatch(e, told) == "isbn" \in e.fields /\ told = "other"

Resolved ==
    \A p \in Photo :
        LET e == rec.mem[p] IN
        /\ ~Unlinked(e)
        /\ LinkOf(e) # None => LET told == rec.seen[<<Root[p], LinkOf(e)>>] IN
                               told \in Alive /\ ~Mismatch(e, told)

\* The report is written and then, with --apply, what was redirected.
Report ==
    /\ Stage("report")
    /\ \A l \in Books : rec.seen[l] # None
    /\ rec' = [rec EXCEPT !.pc = IF rec.apply /\ rec.remapped THEN "save" ELSE "exit"]
    /\ UNCHANGED <<bvars, changes>>

SaveMap ==
    /\ Stage("save")
    /\ disk' = rec.mem
    /\ rec' = [rec EXCEPT !.pc = "exit"]
    /\ UNCHANGED <<run, late, library, copies, approved, vouched, asked, died, spoiled, changes>>

-----------------------------------------------------------------------------
(* cmd_verify.                                                              *)

BeginVerify ==
    /\ run = NoRun /\ Stage("idle")
    /\ scene.changes > 0
    /\ rec' = [NoRec EXCEPT !.pc = "verify", !.mem = disk, !.there = There,
                            !.seen = [l \in Main \X Link |-> None]]
    /\ UNCHANGED <<bvars, changes>>

\* A photo without a link is compared with the book of its main photo, once it was read.
Compared(p) ==
    IF LinkOf(rec.mem[p]) = None /\ rec.mem[p].status # "pending"
    THEN LinkOf(rec.mem[Root[p]]) ELSE LinkOf(rec.mem[p])

\* No issue: the book is there, has the ISBN of the photo, and is that of the main photo.
\* Titles, authors and books of one title are compared too, and can only add issues.
NoIssues ==
    \A p \in Photo : Compared(p) # None =>
        /\ Good(rec.seen[<<Root[p], Compared(p)>>], "isbn" \in rec.mem[p].fields)
        /\ LinkOf(rec.mem[Root[p]]) \in {None, Compared(p)}

ReportIssues ==
    /\ Stage("verify")
    /\ \A l \in Books : rec.seen[l] # None
    /\ rec' = [rec EXCEPT !.pc = "verified"]
    /\ UNCHANGED <<bvars, changes>>

\* It is done, or was stopped.
Stop ==
    /\ ~Stage("idle")
    /\ rec' = NoRec
    /\ UNCHANGED <<bvars, changes>>

\* What the library has had since.
Witness(r) == IF r.pc = "idle" THEN r ELSE [r EXCEPT !.there = @ \cup There']

RNext ==
    /\ \/ Stage("idle") /\ Next /\ UNCHANGED rvars
       \/ ~Stage("idle") /\ LateServe /\ rec' = Witness(rec) /\ UNCHANGED changes
       \/ Upkeep
       \/ BeginReconcile \/ Redirect \/ LookUp \/ Report \/ SaveMap \/ Stop
       \/ BeginVerify \/ ReportIssues
    /\ UNCHANGED scene

Spec == RInit /\ [][RNext]_vars

-----------------------------------------------------------------------------
(* Properties.                                                              *)

\* What is about to be noted was looked at: photos are redirected once, to a book that was
\* there meanwhile, and their receipts are those on disk (BUG-263).
RedirectsVerified ==
    Stage("save") => \A p \in Photo :
        \/ rec.mem[p] = disk[p]
        \/ /\ disk[p].final = None /\ <<Root[p], rec.mem[p].final>> \in rec.there
           /\ rec.mem[p] = [disk[p] EXCEPT !.final = rec.mem[p].final]

\* A report without anything unresolved misses nothing: whatever the server had entered of
\* the batch is linked, unless a run died over it or its fate was left to another attempt.
CleanReportIsWhole ==
    rec.pc \in {"save", "exit"} /\ Resolved =>
        \A g \in rec.entered : rec.mem[g].status = "imported" \/ g \in asked \cup died

\* A verification without issues vouches for the photos that count as imported: the book of
\* each, as the manifest still has it, was there meanwhile, and a group has only one.
CleanVerifyIsThere ==
    Stage("verified") /\ NoIssues =>
        \A p \in Photo : disk[p].status = "imported" =>
            /\ <<Root[p], LinkOf(disk[p])>> \in rec.there
            /\ LinkOf(disk[Root[p]]) \in {None, LinkOf(disk[p])}

\* Neither script says or notes more than it was told.
ReconcileSound == RedirectsVerified /\ CleanReportIsWhole /\ CleanVerifyIsThere
=============================================================================

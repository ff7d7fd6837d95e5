------------------------------ MODULE BatchImport ------------------------------
(***************************************************************************)
(* The batch import of cover photos (scripts/batch_import_covers, run, and *)
(* batch_manifest).  A manifest on disk has an entry per photo; photos of  *)
(* one book are paired with a main photo (same_as), whose entry is sent    *)
(* for all of them in one POST /books/intake.  A run reads the manifest,   *)
(* decides what to send, merges the fields of each group into its main     *)
(* entry, and saves the manifest after every answer.  It may die anywhere, *)
(* an answer may be lost, and a request nobody waits for any more may      *)
(* still be carried out.  The manifest is read and confirmed by hand       *)
(* between runs, and one run is made at a time.                            *)
(*                                                                         *)
(* Of a photo's fields only is kept which of them are filled in, a title   *)
(* being one with its authors.  Pairs are right: the refusal of a group    *)
(* with two ISBNs is left out, and so is the server's of an ISBN that      *)
(* belongs to another book.  Runs are made with --location.                *)
(***************************************************************************)
EXTENDS Naturals, FiniteSets

CONSTANTS
    Photo,
    Root,       \* the main photo of each photo's group
    Shows,      \* what can be read off each photo: "isbn", "title"
    Twin,       \* books somebody entered by hand for a group, found by nothing on its photos
    Scenes,     \* bound: the options of runs, the twins, and what may happen
    None

Main       == {p \in Photo : Root[p] = p}
Field      == {"isbn", "title"}

ASSUME PairingAssumption ==
    /\ \A p \in Photo : Root[p] \in Photo /\ Root[Root[p]] = Root[p]
    /\ \A p \in Photo : Shows[p] \subseteq Field

Option == [yes : BOOLEAN, failed : BOOLEAN, unknown : BOOLEAN]

ASSUME SceneAssumption ==
    \A sc \in Scenes : /\ sc.options \subseteq Option /\ sc.doubts \subseteq BOOLEAN
                       /\ sc.twins \subseteq Twin /\ sc.late \in BOOLEAN
                       /\ sc.changes \in Nat

VARIABLES
    scene,      \* the scene that is played
    disk,       \* the manifest file
    run,        \* the run under way
    late,       \* requests at the server whose client is gone (equal ones counted once)
    library,    \* books of each group, each as what it is found by: fields, its own name
    copies,     \* copies registered for each group (counted to 2, bound)
    approved,   \* photos whose fields a person let pass, or --yes when not in doubt
    vouched,    \* the fields of each photo when a person confirmed it first
    asked,      \* groups of unknown outcome taken up with --retry-unknown
    died,       \* groups a run died over with the request sent
    spoiled     \* groups whose book was made without what the owner had confirmed

bvars == <<disk, run, late, library, copies, approved, vouched, asked, died, spoiled>>

\* What a book's id stands for: the fields it was entered with, or a twin.
Link == (SUBSET Field) \cup {{t} : t \in Twin}
Id(b) == IF b \subseteq Field THEN b ELSE b \ Field

\* A request: whose entry it is sent for, with which fields, of which it calls confirmed; and
\* which the owner had confirmed (history).
Sent == [root : Photo, fields : SUBSET Field, confirmed : SUBSET Field, checked : SUBSET Field]

ASSUME NoneAssumption == \A x \in Link \cup Sent : x # None
ASSUME TwinAssumption == Twin \cap Field = {}

Entry == [status : {"pending", "recognized", "confirmed", "skip", "imported", "failed",
                    "outcome_unknown"},
          fields : SUBSET Field,            \* those filled in
          sure : SUBSET Field,              \* confirmed_fields
          review : BOOLEAN,                 \* needs_review, or a low confidence
          book : Link \cup {None},          \* result.book_id
          final : Link \cup {None},         \* result.final_book_id
          tried : SUBSET Photo]             \* attempted_members not changed since

Scanned == [status |-> "pending", fields |-> {}, sure |-> {}, review |-> FALSE,
            book |-> None, final |-> None, tried |-> {}]

\* Where the photo of entry e is linked to.
LinkOf(e) == IF e.final # None THEN e.final ELSE e.book

NoRun == [pc |-> "idle", mem |-> None, late |-> {}, todo |-> {}, plan |-> None,
          request |-> None, answer |-> None]

\* same_as is written when a photo is read: until then its main photo does not know of it.
Members(E, g) == {m \in Photo \ {g} : Root[m] = g /\ E[m].status # "pending"}

\* cmd_scan
Init ==
    /\ scene \in Scenes
    /\ disk = [p \in Photo |-> Scanned]
    /\ run = NoRun
    /\ late = {}
    /\ library = [g \in Main |-> {{t} : t \in scene.twins}]
    /\ copies = [g \in Main |-> 0]
    /\ approved = {} /\ asked = {} /\ died = {} /\ spoiled = {}
    /\ vouched = [p \in Photo |-> None]

-----------------------------------------------------------------------------
(* Between runs.                                                            *)

\* The manifest without p among the members of an attempt: its snapshot has changed.
Changed(E, p) == [q \in Photo |-> [E[q] EXCEPT !.tried = @ \ {p}]]

\* An agent reads a photo, or reads it again and differently; a field once filled in is not
\* emptied.
Recognize(p) ==
    /\ run = NoRun
    /\ disk[p].status \in {"pending", "recognized"}
    /\ \E K \in {disk[p].fields, Shows[p]}, r \in scene.doubts :
          disk' = [Changed(disk, p) EXCEPT ![p].status = "recognized", ![p].fields = @ \cup K,
                                           ![p].review = r]
    /\ approved' = approved \ {p}
    /\ UNCHANGED <<run, late, library, copies, vouched, asked, died, spoiled>>

\* The owner looks at what was read, completes it, and confirms it.
Confirm(p) ==
    /\ run = NoRun
    /\ disk[p].status \in {"recognized", "failed"}
    /\ \E K \in {disk[p].fields, disk[p].fields \cup Shows[p]} :
          /\ disk' = [disk EXCEPT ![p].status = "confirmed", ![p].fields = K]
          /\ vouched' = [vouched EXCEPT ![p] = IF @ = None THEN K ELSE @]
    /\ approved' = approved \cup {p}
    /\ UNCHANGED <<run, late, library, copies, asked, died, spoiled>>

Skip(p) ==
    /\ run = NoRun
    /\ disk[p].status \in {"recognized", "confirmed", "failed"}
    /\ disk' = [disk EXCEPT ![p].status = "skip"]
    /\ UNCHANGED <<run, late, library, copies, approved, vouched, asked, died, spoiled>>

-----------------------------------------------------------------------------
(* What a run takes on.                                                     *)

\* target_status
Target(o) ==
    {"confirmed"} \cup (IF o.yes THEN {"recognized"} ELSE {})
                  \cup (IF o.failed THEN {"failed"} ELSE {})
                  \cup (IF o.unknown THEN {"outcome_unknown"} ELSE {})

\* _held_by_review.  Mutant: nothing is held.
HeldNever(e) == FALSE
Held(e) == e.status = "recognized" /\ e.review

\* Mutant: whatever a failed attempt of the group has now goes with the next one.
TriedOnce(main, m) == TRUE
AsTried(main, m) == m \in main.tried

\* _member_joins: m goes with the request of its main photo.
Joins(E, o, m) ==
    LET main == E[Root[m]] IN
    /\ ~Held(E[m])
    /\ IF main.status \in {"failed", "outcome_unknown"} /\ E[m].status = "recognized" /\ ~o.yes
       THEN AsTried(main, m)
       ELSE /\ E[m].status \in Target(o)
            /\ main.status = "confirmed" \/ main.sure # {} =>
                  E[m].status = "confirmed" \/ (o.yes /\ E[m].status = "recognized")

\* late_links: photos confirmed after their book was entered.
LateLinks(E, o) ==
    {m \in Photo \ Main : /\ E[Root[m]].status = "imported"
                          /\ ~Held(E[m])
                          /\ \/ E[m].status = "confirmed"
                             \/ o.yes /\ E[m].status = "recognized"}

\* _blocks_group: a photo that is still open keeps its group from being sent in part.
Blocks(E, o, m) ==
    E[m].status \notin {"skip", "imported"} /\ m \notin LateLinks(E, o) /\ ~Joins(E, o, m)

\* The photos a request is sent for.  Mutant: members have requests of their own.
Everyone(S) == S
Senders(S) == S \cap Main

Todo(E, o) ==
    Senders({p \in Photo : /\ E[p].status \in Target(o)
                           /\ ~Held(E[p])
                           /\ \A m \in Members(E, p) : ~Blocks(E, o, m)})

Plan(E, o, g) == {m \in Members(E, g) : Joins(E, o, m)}

Merged(E, M, g) == E[g].fields \cup UNION {E[m].fields : m \in M}

\* confirmed_fields: inferred once for a confirmed entry, and then with every merged field.
\* Mutant: they are not recorded.
SureUnchanged(e, K) == e.sure
SureNow(e, K) ==
    IF e.sure # {} THEN e.sure \cup (K \ e.fields)
    ELSE IF e.status = "confirmed" THEN K ELSE {}

\* The main entry g as a run that takes it on leaves it before anything is sent; stuck if
\* its file is missing or it has no field to be found by.
Prepared(E, o, g, missing) ==
    LET K == Merged(E, Plan(E, o, g), g)
        e == [E[g] EXCEPT !.fields = K, !.sure = SureNow(E[g], K)]
    IN  IF missing \/ K = {}
        THEN [e EXCEPT !.status = "failed", !.book = None, !.final = None, !.tried = {}]
        ELSE e

\* cmd_run up to the first save.
Begin(o) ==
    LET T == Todo(disk, o)
        L == LateLinks(disk, o)
        P == [g \in T |-> Plan(disk, o, g)]
    IN
    /\ run = NoRun
    /\ T \cup L # {}
    /\ \E X \in SUBSET T :
          run' = [NoRun EXCEPT !.pc = "plan", !.late = L, !.plan = P,
             !.todo = {g \in T \ X : Merged(disk, P[g], g) # {}},
             !.mem = [p \in Photo |-> IF p \in T THEN Prepared(disk, o, p, p \in X)
                                                ELSE disk[p]]]
    /\ approved' = approved \cup
          (IF o.yes THEN {p \in T \cup L \cup UNION {P[g] : g \in T} :
                             disk[p].status = "recognized" /\ ~disk[p].review} ELSE {})
    /\ asked' = asked \cup {g \in T : disk[g].status = "outcome_unknown"}
    /\ UNCHANGED <<disk, late, library, copies, vouched, died, spoiled>>

-----------------------------------------------------------------------------
(* Requests.                                                                *)

At(label) == run.pc = label

\* What was merged, confirmed or found wanting is saved before the first request.
SavePlan ==
    /\ At("plan")
    /\ disk' = run.mem
    /\ run' = [run EXCEPT !.pc = "links"]
    /\ UNCHANGED <<late, library, copies, approved, vouched, asked, died, spoiled>>

\* Mutant: they take the book that was entered, wherever it has gone.
Receipt(e) == e.book

\* Late photos take the book that their main photo is linked to.
LateLink(e) == LinkOf(e)

SaveLinks ==
    /\ At("links")
    /\ LET mem == [p \in Photo |-> IF p \in run.late
                     THEN [run.mem[p] EXCEPT !.status = "imported", !.tried = {}, !.final = None,
                                             !.book = LateLink(run.mem[Root[p]])]
                     ELSE run.mem[p]]
       IN  /\ disk' = mem
           /\ run' = [run EXCEPT !.pc = "loop", !.mem = mem]
    /\ UNCHANGED <<late, library, copies, approved, vouched, asked, died, spoiled>>

Send ==
    /\ At("loop")
    /\ \E g \in run.todo :
          run' = [run EXCEPT !.pc = "wait", !.todo = @ \ {g},
             !.request = [root |-> g, fields |-> run.mem[g].fields, confirmed |-> run.mem[g].sure,
                          checked |-> IF vouched[g] = None THEN {} ELSE vouched[g]]]
    /\ UNCHANGED <<disk, late, library, copies, approved, vouched, asked, died, spoiled>>

\* intake_book, as far as it decides between a new book and one that is there, and whose
\* fields the new one has.  It goes on without what no barcode and no provider tells.
Gathered(q) == {K \in SUBSET Field : q.fields \subseteq K}

Found(q, K) == {b \in library[Root[q.root]] : b \cap K # {}}

\* Mutant: the fields that were confirmed are not looked at.
NothingProtected(q) == {}

\* _confirmed_field_names
Protected(q) == q.confirmed

\* The metadata replace the title of a new book unless it is protected; they never replace
\* an ISBN that the request has.
Replaced(q, answered) == IF answered THEN (q.fields \cap {"title"}) \ Protected(q) ELSE {}

Enter(q, K, answered) ==
    /\ K \in Gathered(q)
    /\ library' = [library EXCEPT ![Root[q.root]] = IF Found(q, K) # {} THEN @ ELSE @ \cup {K}]
    /\ copies' = [copies EXCEPT ![Root[q.root]] = IF @ < 2 THEN @ + 1 ELSE @]
    /\ spoiled' = IF Found(q, K) = {} /\ Replaced(q, answered) \cap q.checked # {}
                  THEN spoiled \cup {Root[q.root]} ELSE spoiled

\* _classify_response
Imported(b) == [outcome |-> "imported", book |-> Id(b)]

\* POST /books/intake: the book, and then a line in the operation log, whose failure is no
\* failure of the request.  Its temporary file goes whatever happens.
Serve ==
    /\ At("wait")
    /\ \E K \in SUBSET Field, answered \in BOOLEAN :
          /\ Enter(run.request, K, answered)
          /\ \E b \in IF Found(run.request, K) # {} THEN Found(run.request, K) ELSE {K} :
                run' = [run EXCEPT !.pc = "answered", !.answer = Imported(b)]
    /\ UNCHANGED <<disk, late, approved, vouched, asked, died>>

\* The request is refused, or no connection was made: nothing was written.
Refuse ==
    /\ At("wait")
    /\ run' = [run EXCEPT !.pc = "answered", !.answer = [outcome |-> "failed", book |-> None]]
    /\ UNCHANGED <<disk, late, library, copies, approved, vouched, asked, died, spoiled>>

\* Mutant: a timeout counts as a failure.
TimeoutFails == "failed"

\* is_outcome_unknown_error, ApiOutcomeUnknownError
LostOutcome == "outcome_unknown"

\* The answer is lost, or the request is and may still be carried out.
Abandoned == IF At("wait") THEN {run.request} ELSE {}

Lose ==
    /\ \/ At("wait")
       \/ At("answered") /\ run.answer.outcome = "imported"
    /\ run' = [run EXCEPT !.pc = "answered", !.answer = [outcome |-> LostOutcome, book |-> None]]
    /\ late' = late \cup Abandoned
    /\ UNCHANGED <<disk, library, copies, approved, vouched, asked, died, spoiled>>

LateServe ==
    /\ scene.late
    /\ \E q \in late, K \in SUBSET Field, answered \in BOOLEAN :
          /\ Enter(q, K, answered)
          /\ late' = late \ {q}
          /\ UNCHANGED <<disk, run, approved, vouched, asked, died>>

\* The entry and, of a group that was entered, its members take the outcome; the manifest
\* is replaced in one step.
Record ==
    /\ At("answered")
    /\ LET g == run.request.root
           a == run.answer
           mem == [p \in Photo |->
              IF p = g
              THEN [run.mem[p] EXCEPT !.status = a.outcome, !.book = a.book, !.final = None,
                                     !.tried = run.plan[g]]
              ELSE IF p \in run.plan[g] /\ a.outcome = "imported"
              THEN [run.mem[p] EXCEPT !.status = "imported", !.book = a.book, !.final = None,
                                     !.tried = {}]
              ELSE run.mem[p]]
       IN  /\ disk' = mem
           /\ run' = [run EXCEPT !.pc = "loop", !.mem = mem, !.request = None, !.answer = None]
    /\ UNCHANGED <<late, library, copies, approved, vouched, asked, died, spoiled>>

End ==
    /\ At("loop")
    /\ run.todo = {}
    /\ run' = NoRun
    /\ UNCHANGED <<disk, late, library, copies, approved, vouched, asked, died, spoiled>>

\* The script is stopped, or gives up before its first request.
Die ==
    /\ ~At("idle")
    /\ run' = NoRun
    /\ late' = late \cup Abandoned
    /\ died' = IF run.request # None THEN died \cup {Root[run.request.root]} ELSE died
    /\ UNCHANGED <<disk, library, copies, approved, vouched, asked, spoiled>>

Next ==
    \/ \E p \in Photo : Recognize(p) \/ Confirm(p) \/ Skip(p)
    \/ \E o \in scene.options : Begin(o)
    \/ SavePlan \/ SaveLinks \/ Send \/ Serve \/ Refuse \/ Lose \/ LateServe \/ Record \/ End \/ Die

-----------------------------------------------------------------------------
(* Properties.                                                              *)

TypeOK ==
    /\ disk \in [Photo -> Entry]
    /\ run.pc \in {"idle", "plan", "links", "loop", "wait", "answered"}
    /\ run.mem # None => run.mem \in [Photo -> Entry]
    /\ run.pc \in {"wait", "answered"} <=> run.request # None
    /\ late \subseteq Sent
    /\ library \in [Main -> SUBSET (SUBSET (Field \cup Twin))]
    /\ copies \in [Main -> 0 .. 2]

\* Photos of one book make one book, although the ISBN may be on one and the title on the
\* other, and whatever is interrupted, lost, repeated or carried out late.
OneBookPerGroup == \A g \in Main : Cardinality({b \in library[g] : b \subseteq Field}) <= 1

\* Photos of one group that count as imported are linked to one and the same book, wherever
\* one merge or deletion has moved it, and it exists if nobody deletes or merges books.
GroupTogether ==
    \A p \in Photo : disk[p].status = "imported" =>
        /\ scene.changes = 0 => disk[p].book \in library[Root[p]]
        /\ scene.changes <= 1 /\ disk[Root[p]].status = "imported" =>
              LinkOf(disk[p]) = LinkOf(disk[Root[p]])

\* What is sent was let pass: with the fields it has now, each photo was confirmed by the
\* owner, or was free of doubt and taken on by a run with --yes, whatever failed before.
OnlyApproved ==
    At("wait") => {run.request.root} \cup run.plan[run.request.root] \subseteq approved

\* A group is sent whole: no open photo of it has a field that is missing in the request.
SentWhole ==
    At("wait") => \A m \in Members(disk, run.request.root) :
        disk[m].status \notin {"skip", "imported"} => disk[m].fields \subseteq run.request.fields

\* What the owner confirmed of a main photo is sent as confirmed, in the first attempt and
\* in every other.
ProtectedIn(q, p) == vouched[p] = None \/ vouched[p] \subseteq q.confirmed
ConfirmedProtected == At("wait") => ProtectedIn(run.request, run.request.root)

\* A book that is made for a group has the fields of the main photo that the owner had
\* confirmed when the request was sent, whatever the metadata say and however late it is
\* made (intake_book, field_policy).
ConfirmedStands == spoiled = {}

\* A second copy of a book is registered only after --retry-unknown, or after a run that
\* died with the request sent.
CopiedOnce == \A g \in Main : copies[g] > 1 => g \in asked \cup died

\* Rows and manifest keep their types, and a group is one book.
GroupsConsistent == TypeOK /\ OneBookPerGroup /\ GroupTogether

\* A request is about the whole group and keeps what the owner confirmed, and so does the
\* book that is made of it.
SentAsConfirmed == SentWhole /\ ConfirmedProtected /\ ConfirmedStands

\* What docs/batch-import.md:368 says: fields that were checked are not overwritten by the
\* metadata; so those of every photo in the request are sent as confirmed.
CheckedFieldsProtected ==
    At("wait") => \A p \in {run.request.root} \cup run.plan[run.request.root] :
        ProtectedIn(run.request, p)
=============================================================================

--------------------------- MODULE IntakeCandidates ---------------------------
(***************************************************************************)
(* One work item of the photo intake workbench (services/intake_workflow): *)
(* photos are uploaded and grouped into candidates, candidates are edited, *)
(* split, matched with the library and confirmed, and a confirmation makes *)
(* an idempotent command bound to the candidate's version and content.     *)
(*                                                                         *)
(* The database is SQLite: reads before the first write of a request are   *)
(* outside its transaction, everything from the first write to the commit  *)
(* is one step.  Rebuilding and confirming write first (_lock_work_item)   *)
(* and are single steps; editing, splitting, matching and uploading read   *)
(* first and write what they changed in a second step, column by column.   *)
(* A tab waits for its answer before it sends the next of these requests.  *)
(*                                                                         *)
(* What a candidate says of its book (title, authors, ISBN) is one value   *)
(* of Content; two candidates of one Content are of one book.  Conflicts   *)
(* of ISBN ownership are left out: they only refuse.                       *)
(***************************************************************************)
EXTENDS Naturals, FiniteSets

CONSTANTS
    Candidate,      \* candidate ids, 1 .. n (bound)
    Photo, Content,
    Tab,            \* browser tabs of the owner
    Scenes,         \* bound: what there is and which requests are made
    None

ASSUME CandidateAssumption == Candidate \subseteq Nat /\ IsFiniteSet(Candidate)
ASSUME NoneAssumption == None \notin Content
ASSUME SceneAssumption ==
    \A sc \in Scenes :
        sc.candidates \subseteq Candidate /\ sc.photos \subseteq Photo
        /\ sc.contents \subseteq Content /\ sc.owned \subseteq Content
        /\ sc.tabs \subseteq Tab
        /\ sc.versions \in Nat \ {0}      \* a bound

VARIABLES
    scene,      \* candidates, photos, contents, books the library may have, tabs and workers
                \* there are; kinds of requests; versions a candidate may have
    item,       \* status of the work item
    photos,     \* photos uploaded
    cand,       \* the candidate rows
    cmd,        \* the command rows, under the key that is their parameters' digest
    library,    \* how many books there are of each content
    tab         \* what each tab's request has read and not written yet

cvars == <<item, photos, cand, cmd, library, tab>>

NoCandidate == [status |-> "none", version |-> 0, content |-> None, photos |-> {},
                match |-> None, byUser |-> FALSE]

Init ==
    /\ scene \in Scenes
    /\ item = "draft"
    /\ photos = {}
    /\ cand = [c \in Candidate |-> NoCandidate]
    /\ cmd = [k \in {} |-> None]
    /\ library \in [Content -> 0 .. 1] /\ \A x \in Content \ scene.owned : library[x] = 0
    /\ tab = [t \in Tab |-> None]

In(status) == {c \in Candidate : cand[c].status = status}

\* The parameters of the command that confirming c makes now.
Key(c) == [cand |-> c, version |-> cand[c].version, content |-> cand[c].content,
           photos |-> cand[c].photos, match |-> cand[c].match]

\* _confirmation_snapshot: the candidate still is what the command was made for.
Current(k) == Key(k.cand) = k

Referenced(c) == \E k \in DOMAIN cmd : k.cand = c

\* Ids are given in order above those of all rows there are; an id whose row was deleted is
\* given again when no row above it is left.
Above == {c \in scene.candidates : \A d \in Candidate \ In("none") : d < c}
FreshIds(n) == {c \in Above : Cardinality({d \in Above : d < c}) < n}

\* Commands that were not executed leave the process when their candidate moves on.
Supersede(K) ==
    [k \in DOMAIN cmd |->
        IF k \in K /\ cmd[k].status \in {"pending", "failed"}
        THEN [cmd[k] EXCEPT !.status = "superseded"] ELSE cmd[k]]

Asked(t, kind) == tab[t] # None /\ tab[t].kind = kind

\* A request that fails, or whose process dies, has written nothing.
Drop(t) ==
    /\ tab[t] # None
    /\ tab' = [tab EXCEPT ![t] = None]
    /\ UNCHANGED <<item, photos, cand, cmd, library>>

-----------------------------------------------------------------------------
(* Uploading.                                                               *)

UploadRead(t) ==
    /\ "upload" \in scene.kinds
    /\ tab[t] = None
    /\ \E P \in (SUBSET (scene.photos \ photos)) \ {{}} :
          tab' = [tab EXCEPT ![t] = [kind |-> "upload", add |-> P, draft |-> item = "draft"]]
    /\ UNCHANGED <<item, photos, cand, cmd, library>>

\* add_photos, the commit: the ids must still be new (a unique constraint).
UploadWrite(t) ==
    /\ Asked(t, "upload")
    /\ tab[t].add \cap photos = {}
    /\ photos' = photos \cup tab[t].add
    /\ item' = IF tab[t].draft THEN "in_review" ELSE item
    /\ tab' = [tab EXCEPT ![t] = None]
    /\ UNCHANGED <<cand, cmd, library>>

-----------------------------------------------------------------------------
(* Grouping photos into candidates.                                         *)

\* Photos of candidates that are confirmed or executed.
Claimed(C) == UNION {cand[c].photos : c \in C \cap (In("confirmed") \cup In("executed"))}

\* build_candidates excludes what confirmed and executed candidates hold.
KeptPhotos == Claimed(Candidate)

\* _is_user_authored: candidates with the hand of a user in them.
Authored == {c \in In("pending_review") : cand[c].byUser}

\* build_candidates: pending candidates are replaced by a new grouping of the photos
\* nobody keeps; recognize_photos (protect) also keeps the candidates a user has edited.
\* How photos are grouped is a matter of their content.
Build(t, protect, byUser) ==
    LET edited == IF protect THEN Authored ELSE {}
        stale  == In("pending_review") \ edited
        free   == photos \ (KeptPhotos \cup UNION {cand[c].photos : c \in edited})
    IN
    /\ tab[t] = None
    /\ photos # {}
    /\ \E n \in 0 .. Cardinality(free) :
       \E group \in [free -> FreshIds(n)], x \in [FreshIds(n) -> scene.contents] :
          /\ Cardinality(FreshIds(n)) = n
          /\ {group[p] : p \in free} = FreshIds(n)
          /\ cand' = [c \in Candidate |->
                CASE c \in FreshIds(n) ->
                        [status |-> "pending_review", version |-> 1, content |-> x[c],
                         photos |-> {p \in free : group[p] = c}, match |-> None,
                         byUser |-> byUser]
                  [] c \in stale /\ Referenced(c) -> [cand[c] EXCEPT !.status = "rejected"]
                  [] c \in stale /\ ~Referenced(c) -> NoCandidate
                  [] OTHER -> cand[c]]
    /\ cmd' = Supersede({k \in DOMAIN cmd : k.cand \in stale})
    /\ item' = IF item = "draft" THEN "in_review" ELSE item
    /\ UNCHANGED <<photos, library, tab>>

\* recognize_photos: photos that could not be read become candidates to be completed; if
\* the model is out of order for all of them, it is an error and nothing is touched.
Recognize(t) ==
    /\ "recognize" \in scene.kinds
    /\ Build(t, TRUE, FALSE)

-----------------------------------------------------------------------------
(* Editing, splitting and matching: read, then write what changed.          *)

Open(t, kind, c) == tab' = [tab EXCEPT ![t] = [kind |-> kind, c |-> c, old |-> cand[c]]]

\* update_candidate and split_candidate read the candidate and check its status.
EditRead(t) ==
    /\ tab[t] = None
    /\ \E c \in Candidate :
          \/ /\ "update" \in scene.kinds
             /\ cand[c].status \in {"pending_review", "confirmed"}
             /\ Open(t, "update", c)
          \/ /\ "split" \in scene.kinds
             /\ cand[c].status = "pending_review"
             /\ Open(t, "split", c)
    /\ UNCHANGED <<item, photos, cand, cmd, library>>

\* A column is written when the new value differs from the one that was read.
Column(read, new, now) == IF new = read THEN now ELSE new

\* Mutant: an edited candidate stays confirmed.
StaysConfirmed(status) == status

\* What an edit makes of the status and the version that were read.
Reviewed(status) == IF status = "confirmed" THEN "pending_review" ELSE status
Edited(version) == version + 1

\* update_candidate, the commit: a content, a set of photos, or both; a confirmed
\* candidate goes back to review and a new content loses its match.
UpdateTo(t, given, x, P) ==
    LET c == tab[t].c
        old == tab[t].old
    IN
    /\ Asked(t, "update")
    /\ cand[c].status # "none"
    /\ old.version < scene.versions
    /\ cand' = [cand EXCEPT ![c] =
          [status  |-> Column(old.status, Reviewed(old.status), @.status),
           version |-> Edited(old.version),
           content |-> Column(old.content, x, @.content),
           photos  |-> Column(old.photos, P, @.photos),
           match   |-> IF given THEN Column(old.match, None, @.match) ELSE @.match,
           byUser  |-> TRUE]]
    /\ tab' = [tab EXCEPT ![t] = None]
    /\ UNCHANGED <<item, photos, cmd, library>>

UpdateWrite(t) ==
    /\ Asked(t, "update")
    /\ \E given \in BOOLEAN, P \in (SUBSET photos) \ {{}} :
       \E x \in IF given THEN scene.contents ELSE {tab[t].old.content} : UpdateTo(t, given, x, P)

\* split_candidate, the commit: some photos, never all, go to a new candidate.
SplitWrite(t) ==
    /\ Asked(t, "split")
    /\ LET c == tab[t].c
           old == tab[t].old
       IN  /\ cand[c].status # "none"
           /\ old.version < scene.versions
           /\ \E P \in (SUBSET old.photos) \ {{}, old.photos}, d \in FreshIds(1) :
                 cand' = [cand EXCEPT
                     ![d] = [old EXCEPT !.version = 1, !.photos = P, !.match = None],
                     ![c] = [@ EXCEPT !.version = old.version + 1,
                                      !.photos = old.photos \ P]]
    /\ tab' = [tab EXCEPT ![t] = None]
    /\ UNCHANGED <<item, photos, cmd, library>>

\* preview_matches reads the pending candidates and looks each up in the library.
PreviewRead(t) ==
    /\ "preview" \in scene.kinds
    /\ tab[t] = None
    /\ tab' = [tab EXCEPT ![t] =
          [kind |-> "preview", seen |-> [c \in In("pending_review") |-> cand[c].match],
           found |-> [c \in In("pending_review") |->
                         IF library[cand[c].content] > 0 THEN cand[c].content ELSE None]]]
    /\ UNCHANGED <<item, photos, cand, cmd, library>>

PreviewWrite(t) ==
    /\ Asked(t, "preview")
    /\ LET changed == {c \in DOMAIN tab[t].found : tab[t].found[c] # tab[t].seen[c]}
       IN  /\ \A c \in changed : cand[c].status # "none"
           /\ cand' = [c \in Candidate |->
                 IF c \in changed THEN [cand[c] EXCEPT !.match = tab[t].found[c]]
                 ELSE cand[c]]
    /\ tab' = [tab EXCEPT ![t] = None]
    /\ UNCHANGED <<item, photos, cmd, library>>

-----------------------------------------------------------------------------
(* Confirming.                                                              *)

\* Mutant: photos of other candidates are not looked at.
AnyPhotos(S) == TRUE

\* confirm_candidates: the photos of the chosen candidates are nobody else's.
PhotosFree(S) ==
    \A c \in S : \A p \in cand[c].photos :
        /\ p \notin Claimed(Candidate \ {c})
        /\ \A d \in S \ {c} : p \notin cand[d].photos

\* confirm_candidates: candidates already confirmed or executed are passed over, the
\* others get a command each; commands of their older versions are superseded.
Confirmable == In("pending_review") \cup In("confirmed") \cup In("executed")

ConfirmThese(t, S) ==
    LET new == S \cap In("pending_review")
        made == {Key(c) : c \in new} \ DOMAIN cmd
        older == {k \in DOMAIN cmd : k.cand \in new /\ k.version < cand[k.cand].version}
    IN
    /\ tab[t] = None
    /\ item \notin {"executing", "completed"}
    /\ S # {} /\ S \subseteq Confirmable
    /\ PhotosFree(new)
    /\ cand' = [c \in Candidate |->
          IF c \in new THEN [cand[c] EXCEPT !.status = "confirmed"] ELSE cand[c]]
    /\ cmd' = [k \in DOMAIN cmd \cup made |->
          IF k \in made THEN [status |-> "pending", epoch |-> 0, expired |-> FALSE]
          ELSE Supersede(older)[k]]
    /\ item' = "confirmed"
    /\ UNCHANGED <<photos, library, tab>>

Confirm(t) == \E S \in SUBSET Confirmable : ConfirmThese(t, S)

Desk(t) ==
    \/ UploadRead(t) \/ UploadWrite(t)
    \/ "build" \in scene.kinds /\ \E b \in BOOLEAN : Build(t, FALSE, b)
    \/ Recognize(t)
    \/ EditRead(t) \/ UpdateWrite(t) \/ SplitWrite(t)
    \/ PreviewRead(t) \/ PreviewWrite(t)
    \/ Drop(t) \/ Confirm(t)

-----------------------------------------------------------------------------
(* Properties.                                                              *)

\* The owner works in one tab.  Else the write of an edit may follow what another tab
\* confirmed after the edit's read: the candidate stays confirmed with what it now has.
OneTab == \E t \in Tab : scene.tabs = {t}

\* A photo belongs to at most one candidate that is confirmed or executed, as long as
\* nothing is carried out meanwhile: a receipt marks as executed the candidate it finds,
\* which an edit may have given other photos since the command looked at it last.
PhotoClaimedOnce ==
    OneTab /\ scene.workers = {} =>
        \A c, d \in In("confirmed") \cup In("executed") :
            c # d => cand[c].photos \cap cand[d].photos = {}

\* What the docstring of update_candidate says of an edit: it loses the confirmation.
\* A confirmed candidate then is exactly what was confirmed.
ConfirmedAsDecided == \A c \in In("confirmed") : Key(c) \in DOMAIN cmd

\* A command that would be carried out, since its confirmation would be found to stand,
\* is of a confirmed candidate: what was edited, split or replaced by another grouping
\* since is never entered.
ExecutableIsConfirmed ==
    \A k \in DOMAIN cmd :
        cmd[k].status \in {"pending", "failed"} /\ Current(k) => k.cand \in In("confirmed")

\* What is confirmed and what would be entered are the same, as long as nothing is carried
\* out: an execution between the read and the write of an edit has the same effect.
ConfirmationStands ==
    OneTab /\ scene.workers = {} => ConfirmedAsDecided /\ ExecutableIsConfirmed

\* What _recompute_work_item_status says of a completed work item: no candidate is left
\* to review, since none could be confirmed any more.
CompletedLeavesNothing == item = "completed" => In("pending_review") = {}
=============================================================================

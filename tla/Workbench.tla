------------------------------- MODULE Workbench -------------------------------
(***************************************************************************)
(* The page of the photo intake workbench (views/BatchIntakeView) before   *)
(* the work item of IntakeCandidates.  The page shows a copy of the        *)
(* candidates and keeps what the owner types over them; it sends one       *)
(* request at a time and reads the item again after every answer, not      *)
(* after an error.  Its fields and checkboxes stay open while it waits,    *)
(* and so do the way back to the list and, there, every item: he may leave *)
(* the item and open it or another one while an answer is outstanding.     *)
(* What the item was when it was read is displayed later, and two readings *)
(* may be displayed in any order.  An answer may be lost, and its request  *)
(* still be carried out.  Other tabs work on the same item.                *)
(*                                                                         *)
(* The page confirms candidates by their ids alone; whatever was typed is  *)
(* saved first, one candidate after the other.                             *)
(***************************************************************************)
EXTENDS IntakeExecution

CONSTANT Page       \* the tab with this page, in the scenes that have it

ASSUME PageAssumption == Page \in Tab

VARIABLES
    page,       \* the page
    touched,    \* history: candidates that are not any more what the page has read of them
    saved,      \* history: candidates that were saved by a confirmation that went no further
    away        \* history: the owner left, or opened an item, while an answer was outstanding

hvars == <<touched, saved, away>>
wvars == <<allvars, page, hvars>>

NoRows == [c \in Candidate |-> None]

\* The item is opened by the handler that ends, or by a click.
Way == {"own", "click"}

NoPage == [pc |-> "idle",                       \* where its handler is
           at |-> "list",                       \* what is shown: the list, this or another item
           shown |-> NoRows,                    \* status and content it was last sent
           edit  |-> NoRows,                    \* text, and the content it was typed over
           chosen |-> {}, left |-> {}, ids |-> {},  \* selected; at the click; still to save
           now |-> None,                        \* the candidate that is being saved
           said |-> NoRows,                     \* what was displayed when it was passed
           asked  |-> [own |-> "no", click |-> "no"],  \* `open' by the handler, by a click
           answer |-> [own |-> NoRows, click |-> NoRows]]  \* what the server has read for it

WInit ==
    /\ EInit
    /\ page = NoPage
    /\ touched = {} /\ saved = {} /\ away = FALSE

Shown == {c \in Candidate : page.shown[c] # None}

\* Its fields and its checkbox are enabled.
Editable(c) == c \in Shown /\ page.shown[c].status \notin {"executed", "rejected"}

Handler(label) == page.pc = label

\* `busy' is empty: the handler has ended, and so has its reading of the item.
AtRest == Handler("idle") /\ page.asked["own"] = "no"

Fresh(x) == [text |-> x, print |-> x]

\* Mutant: what was typed is kept whatever the server says.
KeptAlways(c, x) == IF page.edit[c] # None THEN page.edit[c] ELSE Fresh(x)

\* syncEdits: what was typed is kept while the server's content is the one it was typed over.
Kept(c, x) ==
    IF page.edit[c] # None /\ page.edit[c].print = x THEN page.edit[c] ELSE Fresh(x)

\* hasUnsavedEdit
Unsaved(c) == page.edit[c].text # page.shown[c].content

\* open(id) begins: nothing is shown or selected any more.
Opening(p, w, what) ==
    [p EXCEPT !.at = "list", !.shown = NoRows, !.chosen = {}, !.asked[w] = what]

\* The handler ends, on an error or an answer; after an answer it reads the item that is
\* displayed, and fails if none is.
Quit == [page EXCEPT !.pc = "idle", !.now = None, !.said = NoRows, !.ids = {}, !.left = {}]
Reopen(what) == Opening(Quit, "own", what)
Ended == IF page.at = "list" THEN Quit ELSE Reopen(page.at)

-----------------------------------------------------------------------------
(* Reading the item.                                                        *)

\* A click in the list of items, on this one or another.
Enter ==
    /\ page.at = "list"
    /\ page.asked["click"] = "no"
    /\ \E what \in {"item", "other"} : page' = Opening(page, "click", what)
    /\ away' = (away \/ ~AtRest)
    /\ UNCHANGED <<allvars, touched, saved>>

Stored ==
    [c \in Candidate |-> IF cand[c].status = "none" THEN None
                         ELSE [status |-> cand[c].status, content |-> cand[c].content]]

\* The server reads the item.
Read(w) ==
    /\ page.asked[w] = "item"
    /\ page' = [page EXCEPT !.asked[w] = "read", !.answer[w] = Stored]
    /\ UNCHANGED <<allvars, hvars>>

\* Nothing else is under way, and nothing selected.
Alone(w) ==
    /\ Handler("idle")
    /\ \A v \in Way \ {w} : page.asked[v] = "no"
    /\ page.chosen = {}

\* The answer is displayed; of another item none of these candidates.
Display(w) ==
    LET rows == page.answer[w] IN
    /\ page.asked[w] \in {"read", "other"}
    /\ page' = [page EXCEPT
          !.asked[w] = "no", !.answer[w] = NoRows,
          !.at = IF page.asked[w] = "other" THEN "other" ELSE "item",
          !.shown = rows,
          !.edit  = [c \in Candidate |-> IF rows[c] = None THEN None
                                         ELSE Kept(c, rows[c].content)]]
    /\ touched' = {c \in Candidate : rows[c] \notin {None, Stored[c]}}
    /\ saved' = {}
    /\ away' = (away /\ ~Alone(w))
    /\ UNCHANGED allvars

\* The item cannot be read: what is shown stays, what was typed stays in memory.
OpenFails(w) ==
    /\ page.asked[w] # "no"
    /\ page' = [page EXCEPT !.asked[w] = "no", !.answer[w] = NoRows]
    /\ UNCHANGED <<allvars, hvars>>

\* The way back to the list is open at any time.
Leave ==
    /\ page.at # "list"
    /\ page' = [page EXCEPT !.at = "list", !.shown = NoRows]
    /\ away' = (away \/ ~AtRest)
    /\ UNCHANGED <<allvars, touched, saved>>

-----------------------------------------------------------------------------
(* The owner's hands.                                                       *)

Type ==
    /\ \E c \in Candidate, x \in scene.contents :
          /\ Editable(c)
          /\ page' = [page EXCEPT !.edit[c].text = x]
    /\ UNCHANGED <<allvars, hvars>>

\* toggle
Toggle ==
    /\ \E c \in Candidate :
          /\ Editable(c)
          /\ page' = [page EXCEPT !.chosen = IF c \in @ THEN @ \ {c} ELSE @ \cup {c}]
    /\ UNCHANGED <<allvars, hvars>>

-----------------------------------------------------------------------------
(* Requests.                                                                *)

\* uploadPhotos, recognize, previewMatches, splitCandidate; recognition is one step at the
\* server.
Request ==
    /\ AtRest
    /\ page.at = "item"
    /\ \/ /\ UploadRead(Page) \/ PreviewRead(Page) \/ EditRead(Page)
          /\ tab'[Page].kind # "update"
       \/ /\ "recognize" \in scene.kinds /\ photos # {}
          /\ UNCHANGED cvars
    /\ page' = [page EXCEPT !.pc = "wait"]
    /\ UNCHANGED <<run, hvars>>

Answered ==
    /\ Handler("wait")
    /\ UploadWrite(Page) \/ Recognize(Page) \/ PreviewWrite(Page) \/ SplitWrite(Page)
    /\ page' = Ended
    /\ UNCHANGED <<run, hvars>>

\* The PATCH of one candidate carries the text of this moment.
Patch(c) ==
    /\ EditRead(Page) /\ tab'[Page].kind = "update" /\ tab'[Page].c = c
    /\ page' = [page EXCEPT !.now = [c |-> c, text |-> page.edit[c].text,
                                     over |-> page.edit[c].print, confirm |-> Handler("pass")],
                            !.pc = "patch", !.left = @ \ {c},
                            !.said[c] = page.edit[c].text]

\* saveCandidate
Save ==
    /\ AtRest
    /\ \E c \in Candidate : Editable(c) /\ Patch(c)
    /\ UNCHANGED <<run, hvars>>

Patched ==
    /\ Handler("patch")
    /\ UpdateTo(Page, TRUE, page.now.text, tab[Page].old.photos)
    /\ page' = IF page.now.confirm THEN [page EXCEPT !.pc = "pass", !.now = None] ELSE Ended
    /\ UNCHANGED <<run, hvars>>

-----------------------------------------------------------------------------
(* confirmSelected.                                                         *)

ClickConfirm ==
    /\ AtRest
    /\ page.at = "item"
    /\ page.chosen # {}
    /\ page' = [page EXCEPT !.pc = "pass", !.ids = page.chosen, !.left = page.chosen]
    /\ UNCHANGED <<allvars, hvars>>

\* Mutant: what was typed is not saved.
PassAny(c) == TRUE

\* Nothing to save.
Passable(c) == page.shown[c].status = "rejected" \/ ~Unsaved(c)

\* The loop looks candidates up in the item that is displayed, and passes over those it does
\* not find there; with no item there is an error.
Pass ==
    /\ Handler("pass")
    /\ page.at # "list"
    /\ \E c \in page.left :
          \/ /\ c \notin Shown
             /\ page' = [page EXCEPT !.left = @ \ {c}]
          \/ /\ c \in Shown /\ Passable(c)
             /\ page' = [page EXCEPT !.left = @ \ {c}, !.said[c] = page.edit[c].text]
    /\ UNCHANGED <<allvars, hvars>>

PassSaving ==
    /\ Handler("pass")
    /\ \E c \in page.left \cap Shown : ~Passable(c) /\ Patch(c)
    /\ UNCHANGED <<run, hvars>>

\* The ids are confirmed, whatever is displayed by now.
Confirmed ==
    /\ Handler("pass")
    /\ page.left = {}
    /\ ConfirmThese(Page, page.ids)
    /\ page' = Reopen("item")
    /\ UNCHANGED <<run, hvars>>

-----------------------------------------------------------------------------
(* Errors, and the others.                                                  *)

\* What a confirmation has saved before it fails.
SavedInVain ==
    {c \in (page.ids \ page.left) \cap Shown : page.said[c] # page.shown[c].content}

\* The server refuses, or the request is lost; the page goes on with what it has.
Refused ==
    /\ page.pc \in {"wait", "patch", "pass"}
    /\ tab' = [tab EXCEPT ![Page] = None]
    /\ page' = Quit
    /\ saved' = saved \cup SavedInVain
    /\ UNCHANGED <<item, photos, cand, cmd, library, run, touched, away>>

\* The answer is lost and the request is not: another tab may as well have sent it.
Lost ==
    /\ page.pc \in {"wait", "patch"}
    /\ \E t \in scene.tabs \ {Page} :
          /\ tab[t] = None
          /\ tab' = [tab EXCEPT ![t] = tab[Page], ![Page] = None]
    /\ page' = Quit
    /\ saved' = saved \cup SavedInVain
    /\ UNCHANGED <<item, photos, cand, cmd, library, run, touched, away>>

Elsewhere ==
    /\ \E t \in scene.tabs \ {Page} : Desk(t)
    /\ touched' = touched \cup {c \in Candidate : cand'[c] # cand[c]}
    /\ UNCHANGED <<run, page, saved, away>>

PageStep ==
    \/ Enter \/ Leave \/ Type \/ Toggle
    \/ \E w \in Way : Read(w) \/ Display(w) \/ OpenFails(w)
    \/ Request \/ Answered \/ Save \/ Patched
    \/ ClickConfirm \/ Pass \/ PassSaving \/ Confirmed \/ Refused \/ Lost \/ Elsewhere

WNext ==
    \/ Page \notin scene.tabs /\ ENext /\ UNCHANGED <<page, hvars>>
    \/ Page \in scene.tabs /\ PageStep /\ UNCHANGED scene

WSpec == WInit /\ [][WNext]_wvars

-----------------------------------------------------------------------------
(* Properties.                                                              *)

\* A click on confirm that gets through.
Confirming(c) == /\ page.pc = "pass" /\ page'.pc = "idle"
                 /\ c \in page.ids \cap In("pending_review") /\ cand'[c].status = "confirmed"

Saving(c) == /\ page.pc = "patch" /\ page'.pc # "patch"
             /\ page.now.c = c /\ cand'[c] # cand[c]

\* What a click on confirm confirms is what the page displayed of it, typed or not, and
\* what a save replaces is what its text was typed over, not what a candidate with the same
\* id was or has become (confirmSelected, syncEdits).  Somebody else's changes since the
\* page was read are an exception, and so is what a confirmation has saved that then failed,
\* and an owner who leaves or opens an item before the page has its answer.
SeenIsDone ==
    [][\A c \in Candidate :
          /\ Confirming(c) => cand[c].content = page.said[c] \/ c \in touched \cup saved \/ away
          /\ Saving(c) => cand[c].content = page.now.over \/ c \in touched \cup saved \/ away]_wvars

\* What the comment in confirmSelected says: what is seen is what is stored, unless somebody
\* else changed it.
SeenIsStored ==
    [][\A c \in Candidate :
          Confirming(c) => cand[c].content = page.said[c] \/ c \in touched \/ away]_wvars

\* The same of an owner who looks elsewhere while his confirmation is under way.
SeenThoughAway ==
    [][\A c \in Candidate :
          Confirming(c) => cand[c].content = page.said[c] \/ c \in touched \cup saved]_wvars
=============================================================================

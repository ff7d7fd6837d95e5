-------------------------- MODULE CoverThumbnails --------------------------
(***************************************************************************)
(* The pictures of covers as the public catalogue and the cover resource   *)
(* of MCP hand them out (api/v1/public_catalog.py, read_cover_resource):   *)
(* the row names the cover's file, the thumbnail kept beside it is answered*)
(* unless the cover is newer, else it is made anew.  None of it is under a *)
(* lock, and the requests of the catalogue replace and remove the files    *)
(* meanwhile.                                                              *)
(*                                                                         *)
(* Time passes when a thumbnail is made: a file written after the n-th and *)
(* before the next one has the time n, and no two times are equal.         *)
(***************************************************************************)
EXTENDS Catalogue

CONSTANTS Visitor

VARIABLES
    clock,      \* thumbnails made so far (bound: scene.visits)
    sent,       \* when the picture of each request was uploaded
    picture,    \* how often each path was written: which picture is there
    mtime,      \* the time of the file at each path
    thumb,      \* the thumbnail of each path: the picture it shows, its time
    visit       \* where each visitor is

pvars == <<clock, sent, picture, mtime, thumb, visit>>

NoVisit == [pc |-> "idle", path |-> None, of |-> 0]

TInit ==
    /\ Init
    /\ clock = 0
    /\ sent = [r \in Request |-> 0]
    /\ picture = [p \in Path |-> 0]
    /\ mtime = [p \in Path |-> 0]
    /\ thumb = [p \in Path |-> None]
    /\ visit = [v \in Visitor |-> NoVisit]

-----------------------------------------------------------------------------
(* What the requests of the catalogue do to the pictures.                    *)

Sends(r)  == at[r].pc = "idle" /\ at'[r].pc = "start"
Writes(r) == at[r].pc = "save" /\ at'[r].path = at[r].path /\ at'[r].path # None

HasCover(a) == "cover" \in DOMAIN a

\* The photo of a work item is older than the request that makes it a cover.
SentAt(a) == IF HasCover(a) /\ a.cover \in {"upload", "photo"} THEN 0 .. clock ELSE {clock}

\* copy2 keeps the time of the file uploaded; a download is written now.
TimeOf(r) == IF HasCover(at[r].ask) /\ at[r].ask.cover = "url" THEN clock ELSE sent[r]

FilesFollow ==
    IF scene.visits = 0 THEN UNCHANGED pvars
    ELSE /\ \/ /\ \A r \in Request : ~Sends(r)
               /\ UNCHANGED sent
            \/ \E r \in Request : Sends(r) /\ \E t \in SentAt(at'[r].ask) : sent' = [sent EXCEPT ![r] = t]
         /\ \/ /\ \A r \in Request : ~Writes(r)
               /\ UNCHANGED <<picture, mtime>>
            \/ \E r \in Request :
                  /\ Writes(r)
                  /\ picture' = [picture EXCEPT ![at[r].path] = @ + 1]
                  /\ mtime' = [mtime EXCEPT ![at[r].path] = TimeOf(r)]
         /\ UNCHANGED <<clock, thumb, visit>>

-----------------------------------------------------------------------------
(* GET /public-catalog/covers/{id} and bookshelf://covers/{id}.              *)

Calm == \A r \in Request : at[r].pc = "idle"
Quiet == \A v \in Visitor : visit[v].pc = "idle"

FindCover(v) ==
    /\ visit[v].pc = "idle" /\ clock < scene.visits
    /\ scene.exact => Calm
    /\ \E b \in Live :
          /\ books[b].cover # None
          /\ visit' = [visit EXCEPT ![v] = [NoVisit EXCEPT !.pc = "file", !.path = books[b].cover]]
    /\ UNCHANGED <<clock, sent, picture, mtime, thumb>>

AnyThumbnail(p) == thumb[p] # None

\* st_mtime of the thumbnail is not before that of the cover.
UpToDate(p) == thumb[p] # None /\ thumb[p].at > mtime[p]

\* No file: 404; a thumbnail that is up to date is the answer.
ResolveCover(v) ==
    /\ visit[v].pc = "file"
    /\ visit' = [visit EXCEPT ![v] =
                    IF visit[v].path \notin files \/ UpToDate(visit[v].path)
                    THEN NoVisit ELSE [@ EXCEPT !.pc = "open"]]
    /\ UNCHANGED <<clock, sent, picture, mtime, thumb>>

OpenCover(v) ==
    LET p == visit[v].path IN
    /\ visit[v].pc = "open"
    /\ visit' = [visit EXCEPT ![v] =
                    IF p \in files THEN [@ EXCEPT !.pc = "save", !.of = picture[p]] ELSE NoVisit]
    /\ UNCHANGED <<clock, sent, picture, mtime, thumb>>

SaveThumbnail(v) ==
    /\ visit[v].pc = "save"
    /\ clock' = clock + 1
    /\ thumb' = [thumb EXCEPT ![visit[v].path] = [of |-> visit[v].of, at |-> clock + 1]]
    /\ visit' = [visit EXCEPT ![v] = NoVisit]
    /\ UNCHANGED <<sent, picture, mtime>>

Visits ==
    \E v \in Visitor : FindCover(v) \/ ResolveCover(v) \/ OpenCover(v) \/ SaveThumbnail(v)

\* One after the other, where the scene says so.
Files == Next /\ (scene.exact /\ Calm => Quiet) /\ FilesFollow

TNext == Files \/ (Visits /\ UNCHANGED vars)

TSpec == TInit /\ [][TNext]_<<vars, pvars>>

-----------------------------------------------------------------------------
(* A thumbnail that would be answered shows the picture that is in the       *)
(* cover's file.                                                             *)
ThumbnailIsOfCover ==
    \A p \in files \cap Path : UpToDate(p) => thumb[p].of = picture[p]

(* It does where covers are uploaded, downloaded, replaced and removed, and  *)
(* their names come back, one request after the other.                       *)
ThumbnailFollowsCover == scene.exact => ThumbnailIsOfCover

=============================================================================

------------------------------ MODULE ShelfPhotos ------------------------------
(***************************************************************************)
(* The photos of one shelf (services/storage_photos): files and rows that  *)
(* no common transaction covers.  An upload writes its file as staged,     *)
(* commits row and receipt, and renames the file to its final path; a      *)
(* deletion commits the removal of the row with a collection job; what a   *)
(* dead process left behind is found again by a retry under the same key,  *)
(* by the recovery at a start of the server, and by the jobs' leases.      *)
(*                                                                         *)
(* A path is made for one upload and stands for that upload, its row and   *)
(* its job.  A transaction under the shelf's lock is one step; StorageTx   *)
(* and Storage have its inside.  Versions of photos, captions and image    *)
(* checks only refuse and are part of Refuse.                              *)
(***************************************************************************)
EXTENDS Naturals, FiniteSets

CONSTANTS
    Path,           \* uploads, each with the path of its own
    Key,            \* idempotency keys
    Worker,         \* runs of process_gc_jobs
    MaxPhotos,      \* MAX_PHOTOS_PER_SHELF
    MaxAttempts,    \* _GC_MAX_ATTEMPTS; attempts are counted up to it
    None

ASSUME LimitAssumption == MaxPhotos \in Nat /\ MaxAttempts \in Nat \ {0}
ASSUME NoneAssumption == None \notin Path \cup Key

VARIABLES
    open,       \* neither the shelf nor its room is archived
    rows,       \* paths that have a shelf_photos row
    primary,    \* those marked as the shelf's primary photo
    receipt,    \* the upload committed under each key
    staged,     \* paths whose staged file exists
    final,      \* paths whose final file exists
    job,        \* the collection job of each path
    up,         \* where each upload is
    gc,         \* where each collector is
    rec         \* the recovery of a starting server

files   == <<staged, final>>
album   == <<open, rows, primary, receipt>>
workers == <<gc, rec>>
vars    == <<album, files, job, up, workers>>

NoJob    == [status |-> "none", leased |-> "no", attempts |-> 0]
NoUpload == [pc |-> "idle", key |-> None, target |-> None]
NoGc     == [pc |-> "idle", todo |-> {}, path |-> None]
NoRec    == [pc |-> "idle", seen |-> {}, visited |-> {}, path |-> None]

Init ==
    /\ open = TRUE
    /\ rows = {} /\ primary = {}
    /\ receipt = [k \in Key |-> None]
    /\ staged = {} /\ final = {}
    /\ job = [p \in Path |-> NoJob]
    /\ up = [u \in Path |-> NoUpload]
    /\ gc = [w \in Worker |-> NoGc]
    /\ rec = NoRec

\* _promote_staged, and the rename at the end of an upload: the staged file becomes the
\* final one if it is there.  The file system may also refuse.
Promote(p) ==
    \/ /\ staged' = staged \ {p}
       /\ final' = IF p \in staged THEN final \cup {p} ELSE final
    \/ UNCHANGED files

-----------------------------------------------------------------------------
(* Uploads.                                                                 *)

At(u, label)   == up[u].pc = label
Goto(u, label) == up' = [up EXCEPT ![u].pc = label]

\* The file is decoded, written anew and staged before the transaction.
Stage(u) ==
    /\ At(u, "idle")
    /\ \E k \in Key : up' = [up EXCEPT ![u] = [pc |-> "record", key |-> k, target |-> u]]
    /\ staged' = staged \cup {u}
    /\ UNCHANGED <<album, final, job, workers>>

\* Mutant: the primary photo there is stays one.
PrimaryToo(p, wish) == IF wish \/ rows = {} THEN primary \cup {p} ELSE primary

\* A first photo is primary whatever was asked; a primary photo replaces the one there is.
PrimaryWith(p, wish) == IF wish \/ rows = {} THEN {p} ELSE primary

Insert(u) ==
    /\ open
    /\ receipt[up[u].key] = None
    /\ Cardinality(rows) < MaxPhotos
    /\ rows' = rows \cup {u}
    /\ \E wish \in BOOLEAN : primary' = PrimaryWith(u, wish)
    /\ receipt' = [receipt EXCEPT ![up[u].key] = u]

\* The transaction of upload_photo commits row and receipt.
Record(u) ==
    /\ At(u, "record")
    /\ Insert(u)
    /\ Goto(u, "promote")
    /\ UNCHANGED <<open, files, job, workers>>

\* It commits, but neither the answer nor that of any retry arrives (PostgreSQL): the
\* upload knows of no photo and goes on as if it had failed.
RecordUnacknowledged(u) ==
    /\ At(u, "record")
    /\ Insert(u)
    /\ up' = [up EXCEPT ![u] = [pc |-> "cleanup", key |-> @.key, target |-> None]]
    /\ UNCHANGED <<open, files, job, workers>>

\* The key was used before: the receipt's photo is looked up to promote its file.
Replay(u) ==
    /\ At(u, "record")
    /\ receipt[up[u].key] # None
    /\ up' = [up EXCEPT ![u] = [pc |-> "lookup", key |-> @.key, target |-> receipt[@.key]]]
    /\ UNCHANGED <<album, files, job, workers>>

LookUp(u) ==
    /\ At(u, "lookup")
    /\ Goto(u, IF up[u].target \in rows THEN "promote" ELSE "cleanup")
    /\ UNCHANGED <<album, files, job, workers>>

PromoteFile(u) ==
    /\ At(u, "promote")
    /\ Promote(up[u].target)
    /\ Goto(u, IF up[u].target = u THEN "done" ELSE "cleanup")
    /\ UNCHANGED <<album, job, workers>>

\* Any refusal or failure of the transaction.
Refuse(u) ==
    /\ At(u, "record")
    /\ Goto(u, "cleanup")
    /\ UNCHANGED <<album, files, job, workers>>

\* Mutant: only a failed upload removes its staged file, a replayed one does not.
CleanedAfterFailure(u) == IF up[u].target \in {u, None} THEN staged \ {u} ELSE staged

Cleaned(u) == staged \ {u}

\* The staged file of this very upload is removed.
CleanUp(u) ==
    /\ At(u, "cleanup")
    /\ staged' = Cleaned(u)
    /\ Goto(u, "done")
    /\ UNCHANGED <<album, final, job, workers>>

Die(u) ==
    /\ up[u].pc \notin {"idle", "done", "dead"}
    /\ Goto(u, "dead")
    /\ UNCHANGED <<album, files, job, workers>>

-----------------------------------------------------------------------------
(* Other requests.                                                          *)

\* update_shelf and update_room archive and restore: shelves with photos too.
Archive ==
    /\ open' = ~open
    /\ UNCHANGED <<rows, primary, receipt, files, job, up, workers>>

Update(p) ==
    /\ open
    /\ p \in rows
    /\ primary' \in {{p}, primary \ {p}}
    /\ UNCHANGED <<open, rows, receipt, files, job, up, workers>>

\* delete_photo: the row goes and the job comes in one transaction.
Delete(p) ==
    /\ open
    /\ p \in rows
    /\ rows' = rows \ {p}
    /\ primary' = primary \ {p}
    /\ job' = [job EXCEPT ![p] = [@ EXCEPT !.status = "pending"]]
    /\ UNCHANGED <<open, receipt, files, up, workers>>

-----------------------------------------------------------------------------
(* Collection: after a deletion and at a start of the server.               *)

GcAt(w, label) == gc[w].pc = label

\* The next job of the list, or the end of the run.
GcNext(w) == gc' = [gc EXCEPT ![w] = [pc |-> IF @.todo = {} THEN "idle" ELSE "take",
                                      todo |-> @.todo, path |-> None]]

Takeable(p) == job[p].status \in {"pending", "processing"} /\ job[p].leased # "yes"

\* The jobs that are due; a job that failed before is due some time later.
List(w) ==
    /\ GcAt(w, "idle")
    /\ \E T \in SUBSET {p \in Path : Takeable(p)} \ {{}} :
          gc' = [gc EXCEPT ![w] = [pc |-> "take", todo |-> T, path |-> None]]
    /\ UNCHANGED <<album, files, job, up, rec>>

\* A conditional update takes the lease of five minutes.
Take(w) ==
    /\ GcAt(w, "take")
    /\ \E p \in gc[w].todo :
          IF Takeable(p)
          THEN /\ job' = [job EXCEPT ![p] = [status |-> "processing", leased |-> "yes",
                     attempts |-> IF @.attempts < MaxAttempts THEN @.attempts + 1 ELSE @.attempts]]
               /\ gc' = [gc EXCEPT ![w] = [pc |-> "check", todo |-> @.todo \ {p}, path |-> p]]
          ELSE /\ gc' = [gc EXCEPT ![w] = [pc |-> IF @.todo = {p} THEN "idle" ELSE "take",
                                           todo |-> @.todo \ {p}, path |-> None]]
               /\ UNCHANGED job
    /\ UNCHANGED <<album, files, up, rec>>

\* A file a photo still refers to is not touched.
Check(w) ==
    LET p == gc[w].path IN
    /\ GcAt(w, "check")
    /\ IF p \in rows
       THEN /\ job' = [job EXCEPT ![p] = [@ EXCEPT !.status = "failed", !.leased = "no"]]
            /\ GcNext(w)
       ELSE gc' = [gc EXCEPT ![w].pc = "unlink"] /\ UNCHANGED job
    /\ UNCHANGED <<album, files, up, rec>>

\* unlink(missing_ok): a file that is not there counts as removed.
Unlink(w) ==
    /\ GcAt(w, "unlink")
    /\ final' = final \ {gc[w].path}
    /\ gc' = [gc EXCEPT ![w].pc = "finish"]
    /\ UNCHANGED <<album, staged, job, up, rec>>

Finish(w) ==
    /\ GcAt(w, "finish")
    /\ job' = [job EXCEPT ![gc[w].path] = [@ EXCEPT !.status = "done", !.leased = "no"]]
    /\ GcNext(w)
    /\ UNCHANGED <<album, files, up, rec>>

\* _gc_fail: back off, or give up for good.
Trouble(w) ==
    LET p == gc[w].path IN
    /\ gc[w].pc \in {"check", "unlink", "finish"}
    /\ job' = [job EXCEPT ![p] = [@ EXCEPT !.leased = "no",
                 !.status = IF job[p].attempts >= MaxAttempts THEN "failed" ELSE "pending"]]
    /\ GcNext(w)
    /\ UNCHANGED <<album, files, up, rec>>

GcDie(w) ==
    /\ ~GcAt(w, "idle")
    /\ gc' = [gc EXCEPT ![w] = NoGc]
    /\ UNCHANGED <<album, files, job, up, rec>>

Expire(p) ==
    /\ job[p].leased = "yes"
    /\ job' = [job EXCEPT ![p].leased = "over"]
    /\ UNCHANGED <<album, files, up, workers>>

-----------------------------------------------------------------------------
(* promote_staged_uploads, at the start of a server.                        *)

RecStart ==
    /\ rec.pc = "idle"
    /\ rec' = [NoRec EXCEPT !.pc = "scan", !.seen = rows]
    /\ UNCHANGED <<album, files, job, up, gc>>

\* Mutant: no day of grace for uploads of other instances.
AnyAge(p) == TRUE

\* A file can be a day old only if its upload is not under way any more.
OverGrace(p) == up[p].pc \in {"done", "dead"}

\* A staged file: promoted if a row refers to it, removed if it is old, kept otherwise.
RecSee ==
    /\ rec.pc = "scan"
    /\ \E p \in staged \ rec.visited :
          \/ /\ p \in rec.seen \cup rows
             /\ rec' = [rec EXCEPT !.pc = "promote", !.visited = @ \cup {p}, !.path = p]
             /\ UNCHANGED staged
          \/ /\ p \notin rec.seen \cup rows
             /\ rec' = [rec EXCEPT !.visited = @ \cup {p}]
             /\ staged' = staged \/ (OverGrace(p) /\ staged' = staged \ {p})
    /\ UNCHANGED <<album, final, job, up, gc>>

RecPromote ==
    /\ rec.pc = "promote"
    /\ Promote(rec.path)
    /\ rec' = [rec EXCEPT !.pc = "scan", !.path = None]
    /\ UNCHANGED <<album, job, up, gc>>

\* All are seen, or the server dies once more.
RecEnd ==
    /\ rec.pc # "idle"
    /\ rec' = NoRec
    /\ UNCHANGED <<album, files, job, up, gc>>

Upload(u) ==
    \/ Stage(u) \/ Record(u) \/ RecordUnacknowledged(u) \/ Replay(u) \/ LookUp(u)
    \/ PromoteFile(u) \/ Refuse(u) \/ CleanUp(u) \/ Die(u)

Collect(w) ==
    \/ List(w) \/ Take(w) \/ Check(w) \/ Unlink(w) \/ Finish(w) \/ Trouble(w) \/ GcDie(w)

Next ==
    \/ \E p \in Path : Upload(p) \/ Update(p) \/ Delete(p) \/ Expire(p)
    \/ \E w \in Worker : Collect(w)
    \/ Archive
    \/ RecStart \/ RecSee \/ RecPromote \/ RecEnd

Spec == Init /\ [][Next]_vars

-----------------------------------------------------------------------------
(* Properties.                                                              *)

TypeOK ==
    /\ open \in BOOLEAN
    /\ rows \subseteq Path /\ primary \subseteq rows
    /\ receipt \in [Key -> Path \cup {None}]
    /\ staged \cup final \subseteq Path /\ staged \cap final = {}
    /\ job \in [Path -> [status : {"none", "pending", "processing", "done", "failed"},
                         leased : {"no", "yes", "over"}, attempts : 0 .. MaxAttempts]]
    /\ up \in [Path -> [pc : {"idle", "record", "lookup", "promote", "cleanup", "done", "dead"},
                        key : Key \cup {None}, target : Path \cup {None}]]
    /\ gc \in [Worker -> [pc : {"idle", "take", "check", "unlink", "finish"},
                          todo : SUBSET Path, path : Path \cup {None}]]
    /\ rec \in [pc : {"idle", "scan", "promote"}, seen : SUBSET Path,
                visited : SUBSET Path, path : Path \cup {None}]

\* The uploads that committed a photo without learning it.
Unacknowledged(u) == u \in rows /\ up[u].target = None

\* No crash, retry, recovery or collection loses a photo that is still shown: its file is
\* there, or its staged file, which a retry or the next start promotes.  Excepted are the
\* photos of unacknowledged commits, whose staged file the upload itself removes.
ContentKept == \A p \in rows : p \in staged \cup final \/ Unacknowledged(p)

\* However uploads and updates interleave, the album has at most one primary photo and no
\* more photos than the limit.
AlbumSound == Cardinality(primary) <= 1 /\ Cardinality(rows) <= MaxPhotos

\* An upload that was answered without making a photo has left no file behind.
NothingLeftBehind ==
    \A u \in Path : At(u, "done") /\ u \notin rows /\ job[u].status = "none"
        => u \notin staged \cup final

\* What the design says of collection jobs: when one is done the file is gone.
DoneMeansGone == \A p \in Path : job[p].status = "done" => p \notin final
=============================================================================

-------------------------- MODULE ShelfPhotos_proofs --------------------------
(***************************************************************************)
(* Theorems about ShelfPhotos, for any number of uploads, keys and         *)
(* collectors.  What makes the invariants inductive is that a path is used *)
(* once: a photo that was ever recorded stays so, as a row or as a job,    *)
(* and whoever renames or collects a file does it for a recorded photo.    *)
(***************************************************************************)
EXTENDS ShelfPhotos, FiniteSetTheorems, TLAPS

Recorded(p) == p \in rows \/ job[p].status # "none"

UploadInv(u) ==
    /\ up[u].pc \in {"record", "lookup", "promote"} => up[u].key \in Key /\ up[u].target \in Path
    /\ up[u].pc = "idle" => u \notin staged \cup final
    /\ up[u].pc = "record" => u \in staged /\ up[u].target = u
    /\ up[u].pc \in {"idle", "record", "lookup"} => ~Recorded(u)
    /\ up[u].pc \in {"lookup", "promote"} => Recorded(up[u].target)
    /\ up[u].pc = "promote" /\ up[u].target # u => ~Recorded(u)
    /\ up[u].pc = "cleanup" => up[u].target = None \/ ~Recorded(u)
    /\ up[u].pc = "done" /\ u \in staged => Recorded(u)

GcInv(w) ==
    gc[w].pc \in {"check", "unlink", "finish"} => gc[w].path \in Path /\ job[gc[w].path].status # "none"

RecInv ==
    /\ rec.pc = "promote" => rec.path \in Path /\ Recorded(rec.path)
    /\ \A p \in rec.seen : Recorded(p)

Deleted   == \A p \in Path : job[p].status # "none" => p \notin rows
Receipts  == \A k \in Key : receipt[k] # None => Recorded(receipt[k])
Finals    == \A p \in final : Recorded(p)

IInv ==
    /\ TypeOK
    /\ \A u \in Path : UploadInv(u)
    /\ \A w \in Worker : GcInv(w)
    /\ RecInv
    /\ Deleted
    /\ Receipts
    /\ Finals
    /\ ContentKept

-----------------------------------------------------------------------------
JobType ==
    [status : {"none", "pending", "processing", "done", "failed"},
     leased : {"no", "yes", "over"}, attempts : 0 .. MaxAttempts]

\* A job changes its status and lease and takes an attempt more, and is still a job.
LEMMA JobStaysJob ==
    ASSUME NEW j \in JobType, LimitAssumption,
           NEW s \in {"none", "pending", "processing", "done", "failed"},
           NEW l \in {"no", "yes", "over"}
    PROVE  /\ [j EXCEPT !.status = s] \in JobType
           /\ [j EXCEPT !.status = s, !.leased = l] \in JobType
           /\ [j EXCEPT !.leased = l, !.status = s] \in JobType
           /\ [status |-> s, leased |-> l,
               attempts |-> IF j.attempts < MaxAttempts THEN j.attempts + 1 ELSE j.attempts] \in JobType
<1>1. j.attempts \in 0 .. MaxAttempts
  BY DEF JobType
<1>2. (IF j.attempts < MaxAttempts THEN j.attempts + 1 ELSE j.attempts) \in 0 .. MaxAttempts
  BY <1>1, LimitAssumption
<1> QED
  BY <1>1, <1>2 DEF JobType

\* Staging a file of a path never used before.
LEMMA StageKeeps == ASSUME NoneAssumption, LimitAssumption, IInv, NEW u \in Path, Stage(u) PROVE IInv'
<1> USE NoneAssumption, LimitAssumption DEF Stage, At, album, files, workers
<1>1. TypeOK'
  BY DEF IInv, TypeOK, UploadInv, GcInv, RecInv
<1>2. \A x \in Path : Recorded(x) => Recorded(x)'
  BY DEF IInv, TypeOK, Recorded, GcInv
<1>3. \A x \in Path : UploadInv(x)'
  BY <1>2 DEF IInv, TypeOK, Recorded, UploadInv, GcInv, RecInv, Receipts
<1>4. (\A x \in Worker : GcInv(x))' /\ Deleted' /\ ContentKept'
  BY DEF IInv, TypeOK, GcInv, Deleted, UploadInv, Recorded, ContentKept, Unacknowledged, RecInv
<1>5. RecInv' /\ Receipts' /\ Finals'
  BY <1>2 DEF IInv, TypeOK, RecInv, Receipts, Finals, UploadInv, Recorded
<1> QED
  BY <1>1, <1>3, <1>4, <1>5 DEF IInv

\* The recorded photo has its staged file: an upload that records still owns one.
LEMMA RecordKeeps == ASSUME NoneAssumption, LimitAssumption, IInv, NEW u \in Path, Record(u) PROVE IInv'
<1> USE NoneAssumption, LimitAssumption DEF Record, Insert, PrimaryWith, Goto, At, album, files, workers
<1>1. TypeOK'
  BY DEF IInv, TypeOK, UploadInv, GcInv, RecInv
<1>2. \A x \in Path : Recorded(x) => Recorded(x)'
  BY DEF IInv, TypeOK, Recorded, GcInv
<1>3. \A x \in Path : UploadInv(x)'
  BY <1>2 DEF IInv, TypeOK, Recorded, UploadInv, GcInv, RecInv, Receipts
<1>4. (\A x \in Worker : GcInv(x))' /\ Deleted' /\ ContentKept'
  BY DEF IInv, TypeOK, GcInv, Deleted, UploadInv, Recorded, ContentKept, Unacknowledged, RecInv
<1>5. RecInv' /\ Receipts' /\ Finals'
  BY <1>2 DEF IInv, TypeOK, RecInv, Receipts, Finals, UploadInv, Recorded
<1> QED
  BY <1>1, <1>3, <1>4, <1>5 DEF IInv

\* As above, but the uploader goes on as if it had failed: ContentKept makes an exception.
LEMMA RecordUnacknowledgedKeeps == ASSUME NoneAssumption, LimitAssumption, IInv, NEW u \in Path, RecordUnacknowledged(u) PROVE IInv'
<1> USE NoneAssumption, LimitAssumption DEF RecordUnacknowledged, Insert, PrimaryWith, Goto, At, album, files, workers
<1>1. TypeOK'
  BY DEF IInv, TypeOK, UploadInv, GcInv, RecInv
<1>2. \A x \in Path : Recorded(x) => Recorded(x)'
  BY DEF IInv, TypeOK, Recorded, GcInv
<1>3. \A x \in Path : UploadInv(x)'
  BY <1>2 DEF IInv, TypeOK, Recorded, UploadInv, GcInv, RecInv, Receipts
<1>4. (\A x \in Worker : GcInv(x))' /\ Deleted' /\ ContentKept'
  BY DEF IInv, TypeOK, GcInv, Deleted, UploadInv, Recorded, ContentKept, Unacknowledged, RecInv
<1>5. RecInv' /\ Receipts' /\ Finals'
  BY <1>2 DEF IInv, TypeOK, RecInv, Receipts, Finals, UploadInv, Recorded
<1> QED
  BY <1>1, <1>3, <1>4, <1>5 DEF IInv

\* A replay goes on with the receipt's photo, which was recorded.
LEMMA ReplayKeeps == ASSUME NoneAssumption, LimitAssumption, IInv, NEW u \in Path, Replay(u) PROVE IInv'
<1> USE NoneAssumption, LimitAssumption DEF Replay, At, album, files, workers
<1>1. TypeOK'
  <2>1. receipt[up[u].key] \in Path
    BY DEF IInv, TypeOK, UploadInv
  <2>2. [pc |-> "lookup", key |-> up[u].key, target |-> receipt[up[u].key]]
           \in [pc : {"idle", "record", "lookup", "promote", "cleanup", "done", "dead"},
                key : Key \cup {None}, target : Path \cup {None}]
    BY <2>1 DEF IInv, TypeOK
  <2> QED
    BY <2>2 DEF IInv, TypeOK
<1>2. \A x \in Path : Recorded(x) => Recorded(x)'
  BY DEF IInv, TypeOK, Recorded, GcInv
<1>3. \A x \in Path : UploadInv(x)'
  BY <1>2 DEF IInv, TypeOK, Recorded, UploadInv, GcInv, RecInv, Receipts
<1>4. (\A x \in Worker : GcInv(x))' /\ Deleted' /\ ContentKept'
  BY DEF IInv, TypeOK, GcInv, Deleted, UploadInv, Recorded, ContentKept, Unacknowledged, RecInv
<1>5. RecInv' /\ Receipts' /\ Finals'
  BY <1>2 DEF IInv, TypeOK, RecInv, Receipts, Finals, UploadInv, Recorded
<1> QED
  BY <1>1, <1>3, <1>4, <1>5 DEF IInv

\* Whether the photo is still there decides only what the upload does next.
LEMMA LookUpKeeps == ASSUME NoneAssumption, LimitAssumption, IInv, NEW u \in Path, LookUp(u) PROVE IInv'
<1> USE NoneAssumption, LimitAssumption DEF LookUp, Goto, At, album, files, workers
<1>1. TypeOK'
  BY DEF IInv, TypeOK, UploadInv, GcInv, RecInv
<1>2. \A x \in Path : Recorded(x) => Recorded(x)'
  BY DEF IInv, TypeOK, Recorded, GcInv
<1>3. \A x \in Path : UploadInv(x)'
  BY <1>2 DEF IInv, TypeOK, Recorded, UploadInv, GcInv, RecInv, Receipts
<1>4. (\A x \in Worker : GcInv(x))' /\ Deleted' /\ ContentKept'
  BY DEF IInv, TypeOK, GcInv, Deleted, UploadInv, Recorded, ContentKept, Unacknowledged, RecInv
<1>5. RecInv' /\ Receipts' /\ Finals'
  BY <1>2 DEF IInv, TypeOK, RecInv, Receipts, Finals, UploadInv, Recorded
<1> QED
  BY <1>1, <1>3, <1>4, <1>5 DEF IInv

\* Whoever promotes does it for a recorded photo.
LEMMA PromoteFileKeeps == ASSUME NoneAssumption, LimitAssumption, IInv, NEW u \in Path, PromoteFile(u) PROVE IInv'
<1> USE NoneAssumption, LimitAssumption DEF PromoteFile, Promote, Goto, At, album, files, workers
<1>1. TypeOK'
  BY DEF IInv, TypeOK, UploadInv, GcInv, RecInv
<1>2. \A x \in Path : Recorded(x) => Recorded(x)'
  BY DEF IInv, TypeOK, Recorded, GcInv
<1>3. \A x \in Path : UploadInv(x)'
  BY <1>2 DEF IInv, TypeOK, Recorded, UploadInv, GcInv, RecInv, Receipts
<1>4. (\A x \in Worker : GcInv(x))' /\ Deleted' /\ ContentKept'
  BY DEF IInv, TypeOK, GcInv, Deleted, UploadInv, Recorded, ContentKept, Unacknowledged, RecInv
<1>5. RecInv' /\ Receipts' /\ Finals'
  BY <1>2 DEF IInv, TypeOK, RecInv, Receipts, Finals, UploadInv, Recorded
<1> QED
  BY <1>1, <1>3, <1>4, <1>5 DEF IInv

\* A refused upload has not recorded its photo.
LEMMA RefuseKeeps == ASSUME NoneAssumption, LimitAssumption, IInv, NEW u \in Path, Refuse(u) PROVE IInv'
<1> USE NoneAssumption, LimitAssumption DEF Refuse, Goto, At, album, files, workers
<1>1. TypeOK'
  BY DEF IInv, TypeOK, UploadInv, GcInv, RecInv
<1>2. \A x \in Path : Recorded(x) => Recorded(x)'
  BY DEF IInv, TypeOK, Recorded, GcInv
<1>3. \A x \in Path : UploadInv(x)'
  BY <1>2 DEF IInv, TypeOK, Recorded, UploadInv, GcInv, RecInv, Receipts
<1>4. (\A x \in Worker : GcInv(x))' /\ Deleted' /\ ContentKept'
  BY DEF IInv, TypeOK, GcInv, Deleted, UploadInv, Recorded, ContentKept, Unacknowledged, RecInv
<1>5. RecInv' /\ Receipts' /\ Finals'
  BY <1>2 DEF IInv, TypeOK, RecInv, Receipts, Finals, UploadInv, Recorded
<1> QED
  BY <1>1, <1>3, <1>4, <1>5 DEF IInv

\* The staged file removed is that of an upload that was not recorded.
LEMMA CleanUpKeeps == ASSUME NoneAssumption, LimitAssumption, IInv, NEW u \in Path, CleanUp(u) PROVE IInv'
<1> USE NoneAssumption, LimitAssumption DEF CleanUp, Cleaned, Goto, At, album, files, workers
<1>1. TypeOK'
  BY DEF IInv, TypeOK, UploadInv, GcInv, RecInv
<1>2. \A x \in Path : Recorded(x) => Recorded(x)'
  BY DEF IInv, TypeOK, Recorded, GcInv
<1>3. \A x \in Path : UploadInv(x)'
  BY <1>2 DEF IInv, TypeOK, Recorded, UploadInv, GcInv, RecInv, Receipts
<1>4. (\A x \in Worker : GcInv(x))' /\ Deleted' /\ ContentKept'
  BY DEF IInv, TypeOK, GcInv, Deleted, UploadInv, Recorded, ContentKept, Unacknowledged, RecInv
<1>5. RecInv' /\ Receipts' /\ Finals'
  BY <1>2 DEF IInv, TypeOK, RecInv, Receipts, Finals, UploadInv, Recorded
<1> QED
  BY <1>1, <1>3, <1>4, <1>5 DEF IInv

\* A dead upload leaves everything as it is.
LEMMA DieKeeps == ASSUME NoneAssumption, LimitAssumption, IInv, NEW u \in Path, Die(u) PROVE IInv'
<1> USE NoneAssumption, LimitAssumption DEF Die, Goto, album, files, workers
<1>1. TypeOK'
  BY DEF IInv, TypeOK
<1>2. \A x \in Path : Recorded(x) => Recorded(x)'
  BY DEF IInv, TypeOK, Recorded, GcInv
<1>3. \A x \in Path : UploadInv(x)'
  BY <1>2 DEF IInv, TypeOK, Recorded, UploadInv, GcInv, RecInv, Receipts
<1>4. (\A x \in Worker : GcInv(x))' /\ Deleted' /\ ContentKept'
  BY DEF IInv, TypeOK, GcInv, Deleted, UploadInv, Recorded, ContentKept, Unacknowledged, RecInv
<1>5. RecInv' /\ Receipts' /\ Finals'
  BY <1>2 DEF IInv, TypeOK, RecInv, Receipts, Finals, UploadInv, Recorded
<1> QED
  BY <1>1, <1>3, <1>4, <1>5 DEF IInv

\* Updates concern the primary photo alone.
LEMMA UpdateKeeps == ASSUME NoneAssumption, LimitAssumption, IInv, NEW p \in Path, Update(p) PROVE IInv'
<1> USE NoneAssumption, LimitAssumption DEF Update, album, files, workers
<1>1. TypeOK'
  BY DEF IInv, TypeOK, UploadInv, GcInv, RecInv
<1>2. \A x \in Path : Recorded(x) => Recorded(x)'
  BY DEF IInv, TypeOK, Recorded, GcInv
<1>3. \A x \in Path : UploadInv(x)'
  BY <1>2 DEF IInv, TypeOK, Recorded, UploadInv, GcInv, RecInv, Receipts
<1>4. (\A x \in Worker : GcInv(x))' /\ Deleted' /\ ContentKept'
  BY DEF IInv, TypeOK, GcInv, Deleted, UploadInv, Recorded, ContentKept, Unacknowledged, RecInv
<1>5. RecInv' /\ Receipts' /\ Finals'
  BY <1>2 DEF IInv, TypeOK, RecInv, Receipts, Finals, UploadInv, Recorded
<1> QED
  BY <1>1, <1>3, <1>4, <1>5 DEF IInv

\* The row becomes a job: the photo stays recorded.
LEMMA DeleteKeeps == ASSUME NoneAssumption, LimitAssumption, IInv, NEW p \in Path, Delete(p) PROVE IInv'
<1> USE NoneAssumption, LimitAssumption DEF Delete, album, files, workers
<1>1. TypeOK'
  <2>1. job[p] \in JobType
    BY DEF IInv, TypeOK, JobType
  <2>2. [job[p] EXCEPT !.status = "pending"] \in JobType
    BY <2>1, JobStaysJob
  <2>3. job' \in [Path -> JobType]
    BY <2>2 DEF IInv, TypeOK, JobType
  <2> QED
    BY <2>3 DEF IInv, TypeOK, JobType
<1>2. \A x \in Path : Recorded(x) => Recorded(x)'
  BY DEF IInv, TypeOK, Recorded, GcInv
<1>3. \A x \in Path : UploadInv(x)'
  BY <1>2 DEF IInv, TypeOK, Recorded, UploadInv, GcInv, RecInv, Receipts
<1>4. (\A x \in Worker : GcInv(x))' /\ Deleted' /\ ContentKept'
  BY DEF IInv, TypeOK, GcInv, Deleted, UploadInv, Recorded, ContentKept, Unacknowledged, RecInv
<1>5. RecInv' /\ Receipts' /\ Finals'
  BY <1>2 DEF IInv, TypeOK, RecInv, Receipts, Finals, UploadInv, Recorded
<1> QED
  BY <1>1, <1>3, <1>4, <1>5 DEF IInv

\* A lease that runs out changes no status.
LEMMA ExpireKeeps == ASSUME NoneAssumption, LimitAssumption, IInv, NEW p \in Path, Expire(p) PROVE IInv'
<1> USE NoneAssumption, LimitAssumption DEF Expire, album, files, workers
<1>1. TypeOK'
  BY DEF IInv, TypeOK, UploadInv, GcInv, RecInv
<1>2. \A x \in Path : Recorded(x) => Recorded(x)'
  BY DEF IInv, TypeOK, Recorded, GcInv
<1>3. \A x \in Path : UploadInv(x)'
  BY <1>2 DEF IInv, TypeOK, Recorded, UploadInv, GcInv, RecInv, Receipts
<1>4. (\A x \in Worker : GcInv(x))' /\ Deleted' /\ ContentKept'
  BY DEF IInv, TypeOK, GcInv, Deleted, UploadInv, Recorded, ContentKept, Unacknowledged, RecInv
<1>5. RecInv' /\ Receipts' /\ Finals'
  BY <1>2 DEF IInv, TypeOK, RecInv, Receipts, Finals, UploadInv, Recorded
<1> QED
  BY <1>1, <1>3, <1>4, <1>5 DEF IInv

\* Listing changes nothing.
LEMMA ListKeeps == ASSUME NoneAssumption, LimitAssumption, IInv, NEW w \in Worker, List(w) PROVE IInv'
<1> USE NoneAssumption, LimitAssumption DEF List, GcAt, Takeable, album, files, workers
<1>1. TypeOK'
  BY DEF IInv, TypeOK, UploadInv, GcInv, RecInv
<1>2. \A x \in Path : Recorded(x) => Recorded(x)'
  BY DEF IInv, TypeOK, Recorded, GcInv
<1>3. \A x \in Path : UploadInv(x)'
  BY <1>2 DEF IInv, TypeOK, Recorded, UploadInv, GcInv, RecInv, Receipts
<1>4. (\A x \in Worker : GcInv(x))' /\ Deleted' /\ ContentKept'
  BY DEF IInv, TypeOK, GcInv, Deleted, UploadInv, Recorded, ContentKept, Unacknowledged, RecInv
<1>5. RecInv' /\ Receipts' /\ Finals'
  BY <1>2 DEF IInv, TypeOK, RecInv, Receipts, Finals, UploadInv, Recorded
<1> QED
  BY <1>1, <1>3, <1>4, <1>5 DEF IInv

\* Only a job that was registered is taken.
LEMMA TakeKeeps == ASSUME NoneAssumption, LimitAssumption, IInv, NEW w \in Worker, Take(w) PROVE IInv'
<1> USE NoneAssumption, LimitAssumption DEF Take, GcAt, Takeable, album, files, workers
<1>1. TypeOK'
  <2>1. PICK p \in gc[w].todo :
           IF Takeable(p)
           THEN /\ job' = [job EXCEPT ![p] = [status |-> "processing", leased |-> "yes",
                      attempts |-> IF @.attempts < MaxAttempts THEN @.attempts + 1 ELSE @.attempts]]
                /\ gc' = [gc EXCEPT ![w] = [pc |-> "check", todo |-> @.todo \ {p}, path |-> p]]
           ELSE /\ gc' = [gc EXCEPT ![w] = [pc |-> IF @.todo = {p} THEN "idle" ELSE "take",
                                            todo |-> @.todo \ {p}, path |-> None]]
                /\ UNCHANGED job
    OBVIOUS
  <2>2. p \in Path /\ job \in [Path -> JobType]
    BY DEF IInv, TypeOK, JobType
  <2>3. job' \in [Path -> JobType]
    <3> DEFINE taken == [status |-> "processing", leased |-> "yes", attempts |->
                  IF job[p].attempts < MaxAttempts THEN job[p].attempts + 1 ELSE job[p].attempts]
    <3>1. taken \in JobType
      BY <2>2, JobStaysJob
    <3>2. job' = job \/ job' = [job EXCEPT ![p] = taken]
      BY <2>1
    <3> QED
      BY <2>2, <3>1, <3>2
  <2>4. gc' \in [Worker -> [pc : {"idle", "take", "check", "unlink", "finish"},
                          todo : SUBSET Path, path : Path \cup {None}]]
    BY <2>1, <2>2 DEF IInv, TypeOK
  <2> QED
    BY <2>3, <2>4 DEF IInv, TypeOK, JobType
<1>2. \A x \in Path : Recorded(x) => Recorded(x)'
  BY DEF IInv, TypeOK, Recorded, GcInv
<1>3. \A x \in Path : UploadInv(x)'
  <2>1. \A x \in Path : Recorded(x) <=> Recorded(x)'
    BY DEF IInv, TypeOK, Recorded
  <2>2. up' = up /\ staged' = staged /\ final' = final
    OBVIOUS
  <2> QED
    BY <2>1, <2>2 DEF IInv, UploadInv
<1>4. (\A x \in Worker : GcInv(x))' /\ Deleted' /\ ContentKept'
  <2>1. \A x \in Path : job'[x].status = "none" <=> job[x].status = "none"
    BY DEF IInv, TypeOK, GcInv
  <2>2. Deleted' /\ ContentKept'
    BY <2>1 DEF IInv, TypeOK, Deleted, ContentKept, Unacknowledged
  <2>3. (\A x \in Worker : GcInv(x))'
    BY <2>1 DEF IInv, TypeOK, GcInv
  <2> QED
    BY <2>2, <2>3
<1>5. RecInv' /\ Receipts' /\ Finals'
  BY <1>2 DEF IInv, TypeOK, RecInv, Receipts, Finals, UploadInv, Recorded
<1> QED
  BY <1>1, <1>3, <1>4, <1>5 DEF IInv

\* A job that is checked is registered and stays so.
LEMMA CheckKeeps == ASSUME NoneAssumption, LimitAssumption, IInv, NEW w \in Worker, Check(w) PROVE IInv'
<1> USE NoneAssumption, LimitAssumption DEF Check, GcAt, GcNext, album, files, workers
<1> DEFINE p == gc[w].path
<1>0. /\ p \in Path /\ job \in [Path -> JobType] /\ job[p].status # "none"
      /\ \/ p \in rows /\ job' = [job EXCEPT ![p] = [@ EXCEPT !.status = "failed", !.leased = "no"]]
            /\ GcNext(w)
         \/ p \notin rows /\ job' = job /\ gc' = [gc EXCEPT ![w].pc = "unlink"]
  BY DEF IInv, TypeOK, GcInv, JobType
<1>1. TypeOK'
  <2>1. [job[p] EXCEPT !.status = "failed", !.leased = "no"] \in JobType
    BY <1>0, JobStaysJob
  <2>2. job' \in [Path -> JobType]
    BY <1>0, <2>1
  <2>3. gc' \in [Worker -> [pc : {"idle", "take", "check", "unlink", "finish"},
                          todo : SUBSET Path, path : Path \cup {None}]]
    BY <1>0 DEF IInv, TypeOK
  <2> QED
    BY <2>2, <2>3 DEF IInv, TypeOK, JobType
<1>2. \A x \in Path : Recorded(x) => Recorded(x)'
  BY DEF IInv, TypeOK, Recorded, GcInv
<1>3. \A x \in Path : UploadInv(x)'
  BY <1>2 DEF IInv, TypeOK, Recorded, UploadInv, GcInv, RecInv, Receipts
<1>4. (\A x \in Worker : GcInv(x))' /\ Deleted' /\ ContentKept'
  <2>1. \A x \in Path : job'[x].status = "none" <=> job[x].status = "none"
    BY <1>0 DEF JobType
  <2>2. Deleted' /\ ContentKept'
    BY <2>1 DEF IInv, TypeOK, Deleted, ContentKept, Unacknowledged
  <2>3. (\A x \in Worker : GcInv(x))'
    BY <2>1 DEF IInv, TypeOK, GcInv
  <2> QED
    BY <2>2, <2>3
<1>5. RecInv' /\ Receipts' /\ Finals'
  BY <1>2 DEF IInv, TypeOK, RecInv, Receipts, Finals, UploadInv, Recorded
<1> QED
  BY <1>1, <1>3, <1>4, <1>5 DEF IInv

\* The file removed belongs to a deleted photo, which has no row.
LEMMA UnlinkKeeps == ASSUME NoneAssumption, LimitAssumption, IInv, NEW w \in Worker, Unlink(w) PROVE IInv'
<1> USE NoneAssumption, LimitAssumption DEF Unlink, GcAt, album, files, workers
<1>1. TypeOK'
  BY DEF IInv, TypeOK, UploadInv, GcInv, RecInv
<1>2. \A x \in Path : Recorded(x) => Recorded(x)'
  BY DEF IInv, TypeOK, Recorded, GcInv
<1>3. \A x \in Path : UploadInv(x)'
  BY <1>2 DEF IInv, TypeOK, Recorded, UploadInv, GcInv, RecInv, Receipts
<1>4. (\A x \in Worker : GcInv(x))' /\ Deleted' /\ ContentKept'
  BY DEF IInv, TypeOK, GcInv, Deleted, UploadInv, Recorded, ContentKept, Unacknowledged, RecInv
<1>5. RecInv' /\ Receipts' /\ Finals'
  BY <1>2 DEF IInv, TypeOK, RecInv, Receipts, Finals, UploadInv, Recorded
<1> QED
  BY <1>1, <1>3, <1>4, <1>5 DEF IInv

\* The job that ends was registered.
LEMMA FinishKeeps == ASSUME NoneAssumption, LimitAssumption, IInv, NEW w \in Worker, Finish(w) PROVE IInv'
<1> USE NoneAssumption, LimitAssumption DEF Finish, GcAt, GcNext, album, files, workers
<1>1. TypeOK'
  <2>1. job' \in [Path -> JobType]
    <3>1. job \in [Path -> JobType] /\ (gc[w].pc \in {"check", "unlink", "finish"} => gc[w].path \in Path)
      BY DEF IInv, TypeOK, JobType, GcInv
    <3> QED
      BY <3>1, JobStaysJob
  <2>2. gc' \in [Worker -> [pc : {"idle", "take", "check", "unlink", "finish"},
                          todo : SUBSET Path, path : Path \cup {None}]]
    BY DEF IInv, TypeOK
  <2> QED
    BY <2>1, <2>2 DEF IInv, TypeOK, JobType
<1>2. \A x \in Path : Recorded(x) => Recorded(x)'
  BY DEF IInv, TypeOK, Recorded, GcInv
<1>3. \A x \in Path : UploadInv(x)'
  BY <1>2 DEF IInv, TypeOK, Recorded, UploadInv, GcInv, RecInv, Receipts
<1>4. (\A x \in Worker : GcInv(x))' /\ Deleted' /\ ContentKept'
  BY DEF IInv, TypeOK, GcInv, Deleted, UploadInv, Recorded, ContentKept, Unacknowledged, RecInv
<1>5. RecInv' /\ Receipts' /\ Finals'
  BY <1>2 DEF IInv, TypeOK, RecInv, Receipts, Finals, UploadInv, Recorded
<1> QED
  BY <1>1, <1>3, <1>4, <1>5 DEF IInv

\* The job that fails was registered.
LEMMA TroubleKeeps == ASSUME NoneAssumption, LimitAssumption, IInv, NEW w \in Worker, Trouble(w) PROVE IInv'
<1> USE NoneAssumption, LimitAssumption DEF Trouble, GcNext, album, files, workers
<1>1. TypeOK'
  <2>1. job' \in [Path -> JobType]
    <3>1. job \in [Path -> JobType] /\ (gc[w].pc \in {"check", "unlink", "finish"} => gc[w].path \in Path)
      BY DEF IInv, TypeOK, JobType, GcInv
    <3> QED
      BY <3>1, JobStaysJob
  <2>2. gc' \in [Worker -> [pc : {"idle", "take", "check", "unlink", "finish"},
                          todo : SUBSET Path, path : Path \cup {None}]]
    BY DEF IInv, TypeOK
  <2> QED
    BY <2>1, <2>2 DEF IInv, TypeOK, JobType
<1>2. \A x \in Path : Recorded(x) => Recorded(x)'
  BY DEF IInv, TypeOK, Recorded, GcInv
<1>3. \A x \in Path : UploadInv(x)'
  BY <1>2 DEF IInv, TypeOK, Recorded, UploadInv, GcInv, RecInv, Receipts
<1>4. (\A x \in Worker : GcInv(x))' /\ Deleted' /\ ContentKept'
  BY DEF IInv, TypeOK, GcInv, Deleted, UploadInv, Recorded, ContentKept, Unacknowledged, RecInv
<1>5. RecInv' /\ Receipts' /\ Finals'
  BY <1>2 DEF IInv, TypeOK, RecInv, Receipts, Finals, UploadInv, Recorded
<1> QED
  BY <1>1, <1>3, <1>4, <1>5 DEF IInv

\* A dead collector leaves everything as it is.
LEMMA GcDieKeeps == ASSUME NoneAssumption, LimitAssumption, IInv, NEW w \in Worker, GcDie(w) PROVE IInv'
<1> USE NoneAssumption, LimitAssumption DEF GcDie, GcAt, NoGc, album, files, workers
<1>1. TypeOK'
  BY DEF IInv, TypeOK, UploadInv, GcInv, RecInv
<1>2. \A x \in Path : Recorded(x) => Recorded(x)'
  BY DEF IInv, TypeOK, Recorded, GcInv
<1>3. \A x \in Path : UploadInv(x)'
  BY <1>2 DEF IInv, TypeOK, Recorded, UploadInv, GcInv, RecInv, Receipts
<1>4. (\A x \in Worker : GcInv(x))' /\ Deleted' /\ ContentKept'
  BY DEF IInv, TypeOK, GcInv, Deleted, UploadInv, Recorded, ContentKept, Unacknowledged, RecInv
<1>5. RecInv' /\ Receipts' /\ Finals'
  BY <1>2 DEF IInv, TypeOK, RecInv, Receipts, Finals, UploadInv, Recorded
<1> QED
  BY <1>1, <1>3, <1>4, <1>5 DEF IInv

\* Archiving concerns neither photos nor files.
LEMMA ArchiveKeeps == ASSUME NoneAssumption, LimitAssumption, IInv, Archive PROVE IInv'
<1> USE NoneAssumption, LimitAssumption DEF Archive, album, files, workers
<1>1. TypeOK'
  BY DEF IInv, TypeOK, UploadInv, GcInv, RecInv
<1>2. \A x \in Path : Recorded(x) => Recorded(x)'
  BY DEF IInv, TypeOK, Recorded, GcInv
<1>3. \A x \in Path : UploadInv(x)'
  BY <1>2 DEF IInv, TypeOK, Recorded, UploadInv, GcInv, RecInv, Receipts
<1>4. (\A x \in Worker : GcInv(x))' /\ Deleted' /\ ContentKept'
  BY DEF IInv, TypeOK, GcInv, Deleted, UploadInv, Recorded, ContentKept, Unacknowledged, RecInv
<1>5. RecInv' /\ Receipts' /\ Finals'
  BY <1>2 DEF IInv, TypeOK, RecInv, Receipts, Finals, UploadInv, Recorded
<1> QED
  BY <1>1, <1>3, <1>4, <1>5 DEF IInv

\* The rows seen at the start are recorded photos and stay so.
LEMMA RecStartKeeps == ASSUME NoneAssumption, LimitAssumption, IInv, RecStart PROVE IInv'
<1> USE NoneAssumption, LimitAssumption DEF RecStart, NoRec, album, files, workers
<1>1. TypeOK'
  BY DEF IInv, TypeOK, UploadInv, GcInv, RecInv
<1>2. \A x \in Path : Recorded(x) => Recorded(x)'
  BY DEF IInv, TypeOK, Recorded, GcInv
<1>3. \A x \in Path : UploadInv(x)'
  BY <1>2 DEF IInv, TypeOK, Recorded, UploadInv, GcInv, RecInv, Receipts
<1>4. (\A x \in Worker : GcInv(x))' /\ Deleted' /\ ContentKept'
  BY DEF IInv, TypeOK, GcInv, Deleted, UploadInv, Recorded, ContentKept, Unacknowledged, RecInv
<1>5. RecInv' /\ Receipts' /\ Finals'
  BY <1>2 DEF IInv, TypeOK, RecInv, Receipts, Finals, UploadInv, Recorded
<1> QED
  BY <1>1, <1>3, <1>4, <1>5 DEF IInv

\* Only a file without a row is removed, and only one whose upload is over.
LEMMA RecSeeKeeps == ASSUME NoneAssumption, LimitAssumption, IInv, RecSee PROVE IInv'
<1> USE NoneAssumption, LimitAssumption DEF RecSee, OverGrace, album, files, workers
<1>1. TypeOK'
  <2>1. rec' \in [pc : {"idle", "scan", "promote"}, seen : SUBSET Path,
                visited : SUBSET Path, path : Path \cup {None}]
    <3>1. PICK p \in staged \ rec.visited :
             rec' = [rec EXCEPT !.pc = "promote", !.visited = @ \cup {p}, !.path = p]
             \/ rec' = [rec EXCEPT !.visited = @ \cup {p}]
      OBVIOUS
    <3>2. p \in Path
      BY DEF IInv, TypeOK
    <3>3. CASE rec' = [rec EXCEPT !.pc = "promote", !.visited = @ \cup {p}, !.path = p]
      BY <3>2, <3>3 DEF IInv, TypeOK
    <3>4. CASE rec' = [rec EXCEPT !.visited = @ \cup {p}]
      BY <3>2, <3>4 DEF IInv, TypeOK
    <3> QED
      BY <3>1, <3>3, <3>4
  <2>2. staged' \cup final' \subseteq Path /\ staged' \cap final' = {}
    BY DEF IInv, TypeOK, RecInv
  <2> QED
    BY <2>1, <2>2 DEF IInv, TypeOK
<1>2. \A x \in Path : Recorded(x) => Recorded(x)'
  BY DEF IInv, TypeOK, Recorded, GcInv
<1>3. \A x \in Path : UploadInv(x)'
  BY <1>2 DEF IInv, TypeOK, Recorded, UploadInv, GcInv, RecInv, Receipts
<1>4. (\A x \in Worker : GcInv(x))' /\ Deleted' /\ ContentKept'
  BY DEF IInv, TypeOK, GcInv, Deleted, UploadInv, Recorded, ContentKept, Unacknowledged, RecInv
<1>5. RecInv' /\ Receipts' /\ Finals'
  <2>1. RecInv'
    BY DEF IInv, TypeOK, RecInv, Recorded
  <2> QED
    BY <2>1, <1>2 DEF IInv, TypeOK, Receipts, Finals
<1> QED
  BY <1>1, <1>3, <1>4, <1>5 DEF IInv

\* The recovery promotes recorded photos.
LEMMA RecPromoteKeeps == ASSUME NoneAssumption, LimitAssumption, IInv, RecPromote PROVE IInv'
<1> USE NoneAssumption, LimitAssumption DEF RecPromote, Promote, album, files, workers
<1>1. TypeOK'
  <2>1. rec' \in [pc : {"idle", "scan", "promote"}, seen : SUBSET Path,
                visited : SUBSET Path, path : Path \cup {None}]
    BY DEF IInv, TypeOK
  <2>2. staged' \cup final' \subseteq Path /\ staged' \cap final' = {}
    BY DEF IInv, TypeOK, RecInv
  <2> QED
    BY <2>1, <2>2 DEF IInv, TypeOK
<1>2. \A x \in Path : Recorded(x) => Recorded(x)'
  BY DEF IInv, TypeOK, Recorded, GcInv
<1>3. \A x \in Path : UploadInv(x)'
  BY <1>2 DEF IInv, TypeOK, Recorded, UploadInv, GcInv, RecInv, Receipts
<1>4. (\A x \in Worker : GcInv(x))' /\ Deleted' /\ ContentKept'
  BY DEF IInv, TypeOK, GcInv, Deleted, UploadInv, Recorded, ContentKept, Unacknowledged, RecInv
<1>5. RecInv' /\ Receipts' /\ Finals'
  BY <1>2 DEF IInv, TypeOK, RecInv, Receipts, Finals, UploadInv, Recorded
<1> QED
  BY <1>1, <1>3, <1>4, <1>5 DEF IInv

\* The end of the recovery changes nothing.
LEMMA RecEndKeeps == ASSUME NoneAssumption, LimitAssumption, IInv, RecEnd PROVE IInv'
<1> USE NoneAssumption, LimitAssumption DEF RecEnd, NoRec, album, files, workers
<1>1. TypeOK'
  BY DEF IInv, TypeOK, UploadInv, GcInv, RecInv
<1>2. \A x \in Path : Recorded(x) => Recorded(x)'
  BY DEF IInv, TypeOK, Recorded, GcInv
<1>3. \A x \in Path : UploadInv(x)'
  BY <1>2 DEF IInv, TypeOK, Recorded, UploadInv, GcInv, RecInv, Receipts
<1>4. (\A x \in Worker : GcInv(x))' /\ Deleted' /\ ContentKept'
  BY DEF IInv, TypeOK, GcInv, Deleted, UploadInv, Recorded, ContentKept, Unacknowledged, RecInv
<1>5. RecInv' /\ Receipts' /\ Finals'
  BY <1>2 DEF IInv, TypeOK, RecInv, Receipts, Finals, UploadInv, Recorded
<1> QED
  BY <1>1, <1>3, <1>4, <1>5 DEF IInv

-----------------------------------------------------------------------------
\* Nothing is there at the start.
LEMMA InitHolds == ASSUME NoneAssumption, LimitAssumption, Init PROVE IInv
<1> USE NoneAssumption, LimitAssumption DEF Init, NoJob, NoUpload, NoGc, NoRec
<1>1. TypeOK
  BY DEF TypeOK
<1>2. (\A u \in Path : UploadInv(u)) /\ (\A w \in Worker : GcInv(w)) /\ RecInv
  BY DEF UploadInv, GcInv, RecInv, Recorded
<1>3. Deleted /\ Receipts /\ Finals /\ ContentKept
  BY DEF Deleted, Receipts, Finals, ContentKept, Unacknowledged
<1> QED
  BY <1>1, <1>2, <1>3 DEF IInv

\* Every step of every upload, request, collector and recovery keeps the invariant.
LEMMA StepKeeps == ASSUME NoneAssumption, LimitAssumption, IInv, [Next]_vars PROVE IInv'
<1> USE NoneAssumption, LimitAssumption
<1>1. ASSUME NEW p \in Path, Upload(p) PROVE IInv'
  BY <1>1, StageKeeps, RecordKeeps, RecordUnacknowledgedKeeps, ReplayKeeps, LookUpKeeps, PromoteFileKeeps, RefuseKeeps, CleanUpKeeps, DieKeeps DEF Upload
<1>2. ASSUME NEW p \in Path, Update(p) \/ Delete(p) \/ Expire(p) PROVE IInv'
  BY <1>2, UpdateKeeps, DeleteKeeps, ExpireKeeps
<1>3. ASSUME NEW w \in Worker, Collect(w) PROVE IInv'
  BY <1>3, ListKeeps, TakeKeeps, CheckKeeps, UnlinkKeeps, FinishKeeps, TroubleKeeps, GcDieKeeps DEF Collect
<1>4. CASE Archive \/ RecStart \/ RecSee \/ RecPromote \/ RecEnd
  BY <1>4, ArchiveKeeps, RecStartKeeps, RecSeeKeeps, RecPromoteKeeps, RecEndKeeps
<1>5. CASE UNCHANGED vars
  BY <1>5 DEF vars, album, files, workers, IInv, TypeOK, UploadInv, GcInv, RecInv,
              Deleted, Receipts, Finals, ContentKept, Unacknowledged, Recorded
<1> QED
  BY <1>1, <1>2, <1>3, <1>4, <1>5 DEF Next

\* IInv is an invariant.
LEMMA Invariance == Spec => []IInv
<1>1. Init => IInv
  BY InitHolds, NoneAssumption, LimitAssumption
<1>2. IInv /\ [Next]_vars => IInv'
  BY StepKeeps, NoneAssumption, LimitAssumption
<1> QED
  BY <1>1, <1>2, PTL DEF Spec

\* Type correctness, which here includes that no photo has a staged and a final file at
\* once and that only a photo of the album is its primary photo.
THEOREM TypeCorrect == Spec => []TypeOK
<1>1. IInv => TypeOK
  BY DEF IInv
<1> QED
  BY <1>1, Invariance, PTL

\* No crash, replay, recovery or collection of storage_photos loses the file of a photo
\* that is shown, unless its commit was never acknowledged.
THEOREM ContentIsKept == Spec => []ContentKept
<1>1. IInv => ContentKept
  BY DEF IInv
<1> QED
  BY <1>1, Invariance, PTL

\* An upload that was answered without making a photo has left no file, whatever commits
\* were not acknowledged.
THEOREM NothingIsLeftBehind == Spec => []NothingLeftBehind
<1>1. IInv => NothingLeftBehind
  BY DEF IInv, TypeOK, NothingLeftBehind, UploadInv, Finals, Recorded, At
<1> QED
  BY <1>1, Invariance, PTL

\* A job never meets a file that a photo refers to, whatever collectors and uploads do:
\* the check for references in process_gc_jobs guards against no run of this code.
THEOREM JobsAreOfDeletedPhotos ==
    Spec => [](\A p \in Path : job[p].status # "none" => p \notin rows)
<1>1. IInv => \A p \in Path : job[p].status # "none" => p \notin rows
  BY DEF IInv, Deleted
<1> QED
  BY <1>1, Invariance, PTL

-----------------------------------------------------------------------------
\* The album: a set of photos within the limit, of which at most one is primary.
AlbumInv ==
    /\ IsFiniteSet(rows) /\ Cardinality(rows) <= MaxPhotos
    /\ \E S \in SUBSET Path : primary = S /\ (S = {} \/ \E p \in Path : S = {p})

\* A photo is inserted only below the limit and takes the place of the primary photo.
LEMMA InsertKeepsAlbum ==
    ASSUME LimitAssumption, TypeOK, AlbumInv, NEW u \in Path, Insert(u) PROVE AlbumInv'
<1> USE LimitAssumption DEF Insert, PrimaryWith
<1>1. Cardinality(rows) \in Nat
  BY FS_CardinalityType DEF AlbumInv
<1>2. IsFiniteSet(rows') /\ Cardinality(rows') <= Cardinality(rows) + 1
  <2>1. /\ IsFiniteSet(rows \cup {u})
        /\ Cardinality(rows \cup {u}) = IF u \in rows THEN Cardinality(rows) ELSE Cardinality(rows) + 1
    BY FS_AddElement DEF AlbumInv
  <2> QED
    BY <1>1, <2>1
<1>3. Cardinality(rows') \in Nat
  BY <1>2, FS_CardinalityType
<1>4. Cardinality(rows') <= MaxPhotos
  BY <1>1, <1>2, <1>3 DEF AlbumInv
<1> QED
  BY <1>2, <1>4 DEF AlbumInv

\* Removing one keeps the rest of the album as it is.
LEMMA DeleteKeepsAlbum ==
    ASSUME LimitAssumption, TypeOK, AlbumInv, NEW p \in Path, Delete(p) PROVE AlbumInv'
<1> USE LimitAssumption DEF Delete
<1>1. Cardinality(rows) \in Nat
  BY FS_CardinalityType DEF AlbumInv
<1>2. IsFiniteSet(rows') /\ Cardinality(rows') <= Cardinality(rows)
  BY FS_Subset DEF AlbumInv
<1>3. Cardinality(rows') \in Nat
  BY <1>2, FS_CardinalityType
<1>4. Cardinality(rows') <= MaxPhotos
  BY <1>1, <1>2, <1>3 DEF AlbumInv
<1> QED
  BY <1>2, <1>4 DEF AlbumInv

\* However uploads, updates and deletions interleave, a shelf never has more photos than
\* MAX_PHOTOS_PER_SHELF, whatever that is, and never two primary ones.
THEOREM AlbumIsSound == Spec => []AlbumSound
<1>1. Init => AlbumInv
  BY LimitAssumption, FS_EmptySet DEF Init, AlbumInv
<1>2. TypeOK /\ AlbumInv /\ [Next]_vars => AlbumInv'
  <2> SUFFICES ASSUME TypeOK, AlbumInv, [Next]_vars PROVE AlbumInv'
    OBVIOUS
  <2>1. ASSUME NEW u \in Path, Record(u) \/ RecordUnacknowledged(u) PROVE AlbumInv'
    BY <2>1, InsertKeepsAlbum, LimitAssumption DEF Record, RecordUnacknowledged
  <2>2. ASSUME NEW p \in Path, Update(p) PROVE AlbumInv'
    BY <2>2 DEF Update, AlbumInv
  <2>3. ASSUME NEW p \in Path, Delete(p) PROVE AlbumInv'
    BY <2>3, DeleteKeepsAlbum, LimitAssumption
  <2>4. CASE UNCHANGED <<rows, primary>>
    BY <2>4 DEF AlbumInv
  <2>5. ASSUME NEW w \in Worker, Collect(w) PROVE UNCHANGED <<rows, primary>>
    BY <2>5 DEF Collect, List, Take, Check, Unlink, Finish, Trouble, GcDie, album
  <2>6. ASSUME NEW p \in Path,
               \/ Stage(p) \/ Replay(p) \/ LookUp(p) \/ PromoteFile(p)
               \/ Refuse(p) \/ CleanUp(p) \/ Die(p) \/ Expire(p)
        PROVE  UNCHANGED <<rows, primary>>
    BY <2>6 DEF Stage, Replay, LookUp, PromoteFile, Refuse, CleanUp, Die, Expire, album
  <2>7. CASE Archive \/ RecStart \/ RecSee \/ RecPromote \/ RecEnd \/ UNCHANGED vars
    BY <2>4, <2>7 DEF Archive, RecStart, RecSee, RecPromote, RecEnd, vars, album
  <2> QED
    BY <2>1, <2>2, <2>3, <2>4, <2>5, <2>6, <2>7 DEF Next, Upload
<1>3. AlbumInv => AlbumSound
  <2>1. ASSUME NEW p \in Path PROVE Cardinality({p}) = 1
    BY FS_Singleton
  <2> QED
    BY <2>1, FS_EmptySet DEF AlbumInv, AlbumSound
<1> QED
  BY <1>1, <1>2, <1>3, TypeCorrect, PTL DEF Spec
=============================================================================

--------------------------- MODULE IntakeExecution ---------------------------
(***************************************************************************)
(* Executing the commands of a work item (services/intake_workflow:        *)
(* execute_work_item, retry_execution, run_command_execution) while the    *)
(* desk of IntakeCandidates goes on.  A worker is one such request: it     *)
(* takes a lease on a command by a conditional update, checks that the     *)
(* confirmation still stands, writes book and receipt in one transaction   *)
(* and loses everything to whoever took the lease over in between.  Leases *)
(* run out at any moment (a slow lookup, a dead process), workers die at   *)
(* any moment, and the requester may be disabled.                          *)
(*                                                                         *)
(* A lease owner is a fresh identifier per claim and so is its epoch: the  *)
(* epoch stands for both.  A book is one of the library's per content, as  *)
(* intake_book's duplicate check (ISBN, title and author) has it.          *)
(***************************************************************************)
EXTENDS IntakeCandidates

CONSTANTS
    Worker,     \* execute and retry requests; a scene has some of them
    MaxEpoch    \* bound on the claims of one command

ASSUME WorkersAssumption ==
    (\A sc \in Scenes : sc.workers \subseteq Worker) /\ IsFiniteSet(Worker) /\ MaxEpoch \in Nat

VARIABLE run    \* where each worker is

allvars == <<scene, cvars, run>>

Idle == [pc |-> "idle", todo |-> {}, key |-> None, epoch |-> 0, batch |-> FALSE,
         result |-> None]

EInit == Init /\ run = [w \in Worker |-> Idle]

Goto(w, label) == run' = [run EXCEPT ![w].pc = label]
At(w, label)   == run[w].pc = label

Set(k, row) == cmd' = [cmd EXCEPT ![k] = row]

\* The row without a lease, in its next status.
Released(k, status) == [cmd[k] EXCEPT !.status = status, !.expired = FALSE]

Executed(c) == cand' = [cand EXCEPT ![c].status = "executed"]

\* A status is written when it differs from the one that was read.
Changed(status) == IF status = item THEN None ELSE status
WriteItem(w) == item' = IF run[w].result = None THEN item ELSE run[w].result

-----------------------------------------------------------------------------
(* A request and its batch.                                                 *)

\* The bound on claims: every request in progress may still claim the command once.
Bounded(K) ==
    \A k \in K : cmd[k].epoch + Cardinality({w \in Worker : ~At(w, "idle")}) < MaxEpoch

\* execute_work_item reads the commands of the item, then marks the item.
Start(w) ==
    /\ "execute" \in scene.kinds
    /\ At(w, "idle")
    /\ DOMAIN cmd # {} /\ Bounded(DOMAIN cmd)
    /\ run' = [run EXCEPT ![w] = [Idle EXCEPT !.pc = "mark", !.todo = DOMAIN cmd,
                                 !.batch = TRUE, !.result = Changed("executing")]]
    /\ UNCHANGED cvars

Mark(w) ==
    /\ At(w, "mark")
    /\ WriteItem(w)
    /\ Goto(w, "next")
    /\ UNCHANGED <<photos, cand, cmd, library, tab>>

\* retry_execution: one command, whatever the status of the item.
Retry(w) ==
    /\ "retry" \in scene.kinds
    /\ At(w, "idle")
    /\ \E k \in DOMAIN cmd :
          /\ cmd[k].status \notin {"completed", "superseded"} /\ Bounded({k})
          /\ run' = [run EXCEPT ![w] = [Idle EXCEPT !.pc = "next", !.todo = {k}]]
    /\ UNCHANGED cvars

\* run_command_execution begins: what the command's row says decides.
Take(w) ==
    /\ At(w, "next")
    /\ \E k \in run[w].todo :
       LET row == cmd[k]
           go  == CASE row.status \in {"completed", "superseded"} -> "next"
                    [] row.status = "executing" /\ ~row.expired -> "next"
                    [] row.status = "executing" /\ row.expired -> "recover"
                    [] OTHER -> "claim"
       IN  run' = [run EXCEPT ![w].pc = go, ![w].todo = @ \ {k},
                              ![w].key = k, ![w].epoch = row.epoch]
    /\ UNCHANGED cvars

-----------------------------------------------------------------------------
(* Leases.                                                                  *)

\* _lease_conditions: the lease of epoch e still is the command's.
OwnLease(k, e) == cmd[k].status = "executing" /\ cmd[k].epoch = e

\* Sixty seconds have passed since the claim.
Expire ==
    /\ \E k \in DOMAIN cmd :
          /\ cmd[k].status = "executing" /\ ~cmd[k].expired
          /\ Set(k, [cmd[k] EXCEPT !.expired = TRUE])
    /\ UNCHANGED <<item, photos, cand, library, tab, run>>

\* Mutant: a lease in force can be taken over.
AlwaysClaimable(k) == cmd[k].status \in {"pending", "failed", "executing"}

Claimable(k) ==
    \/ cmd[k].status \in {"pending", "failed"}
    \/ cmd[k].status = "executing" /\ cmd[k].expired

\* _claim_execution_lease: one conditional update; whoever comes second goes on with the
\* next command.
Claim(w) ==
    LET k == run[w].key IN
    /\ At(w, "claim")
    /\ IF Claimable(k)
       THEN /\ Set(k, [status |-> "executing", epoch |-> cmd[k].epoch + 1, expired |-> FALSE])
            /\ run' = [run EXCEPT ![w].pc = "bind", ![w].epoch = cmd[k].epoch + 1]
       ELSE Goto(w, "next") /\ UNCHANGED cmd
    /\ UNCHANGED <<item, photos, cand, library, tab>>

\* _fail_execution, if the lease still is the worker's own.
Fail(w) ==
    LET k == run[w].key IN
    /\ At(w, "fail")
    /\ IF OwnLease(k, run[w].epoch) THEN Set(k, Released(k, "failed")) ELSE UNCHANGED cmd
    /\ Goto(w, "next")
    /\ UNCHANGED <<item, photos, cand, library, tab>>

-----------------------------------------------------------------------------
(* The work of one command.                                                 *)

\* _bind_snapshot_or_fail, and what the command does: link photos to the book that was
\* matched, or create a book unless the library has it.
Bind(w) ==
    LET k == run[w].key IN
    /\ At(w, "bind")
    /\ Goto(w, CASE ~OwnLease(k, run[w].epoch) -> "next"
                 [] OwnLease(k, run[w].epoch) /\ ~Current(k) -> "fail"
                 [] OTHER -> IF k.match # None \/ library[k.content] > 0
                             THEN "check" ELSE "insert")
    /\ UNCHANGED cvars

\* The domain service refuses or fails (metadata, covers, conflicts).
WorkFails(w) ==
    /\ run[w].pc \in {"check", "insert"}
    /\ Goto(w, "fail")
    /\ UNCHANGED cvars

\* Nothing to insert: _store_owned_receipt checks the confirmation, then writes.
Check(w) ==
    /\ At(w, "check")
    /\ Goto(w, IF Current(run[w].key) THEN "receipt" ELSE "fail")
    /\ UNCHANGED cvars

Receipt(w) ==
    LET k == run[w].key IN
    /\ At(w, "receipt")
    /\ IF OwnLease(k, run[w].epoch)
       THEN Set(k, Released(k, "completed")) /\ Executed(k.cand)
       ELSE UNCHANGED <<cmd, cand>>
    /\ Goto(w, "next")
    /\ UNCHANGED <<item, photos, library, tab>>

\* Mutant: no second look under the lock.
NoSecondLook(x) == TRUE

\* intake_book looks again under its lock.
StillMissing(x) == library[x] = 0

\* intake_book under its lock: the book, the receipt and the candidate in one transaction,
\* whose first write is the book; unless the library has it by now.
Insert(w) ==
    LET k == run[w].key IN
    /\ At(w, "insert")
    /\ IF ~StillMissing(k.content)
       THEN Goto(w, "check") /\ UNCHANGED <<cand, cmd, library>>
       ELSE IF ~Current(k)
       THEN Goto(w, "fail") /\ UNCHANGED <<cand, cmd, library>>
       ELSE IF ~OwnLease(k, run[w].epoch)
       THEN Goto(w, "next") /\ UNCHANGED <<cand, cmd, library>>
       ELSE /\ library' = [library EXCEPT ![k.content] = @ + 1]
            /\ Set(k, Released(k, "completed"))
            /\ Executed(k.cand)
            /\ Goto(w, "next")
    /\ UNCHANGED <<item, photos, tab>>

-----------------------------------------------------------------------------
(* Recovery of a command whose lease has run out.                           *)

Overdue(k, e) == OwnLease(k, e) /\ cmd[k].expired

\* Mutant: whoever let the lease run out is taken to have created the book.
AlreadyCreated(k) == TRUE

\* _find_existing_book: the book was committed before the crash, or by another way.
BookFound(k) == library[k.content] > 0

\* _recover_if_lease_expired reads: a stale confirmation fails, a book that is there
\* already becomes the receipt, a link command is handed back, all else is claimed.
RecoverRead(w) ==
    LET k == run[w].key IN
    /\ At(w, "recover")
    /\ run' = [run EXCEPT
          ![w].epoch = cmd[k].epoch,
          ![w].pc = CASE cmd[k].status \in {"completed", "failed"} -> "next"
                      [] cmd[k].status = "executing" /\ ~cmd[k].expired -> "next"
                      [] Overdue(k, cmd[k].epoch) /\ ~Current(k) -> "recoverFail"
                      [] Overdue(k, cmd[k].epoch) /\ Current(k) /\ k.match # None ->
                            "handBack"
                      [] Overdue(k, cmd[k].epoch) /\ Current(k) /\ k.match = None
                            /\ BookFound(k) -> "recovered"
                      [] OTHER -> "claim"]
    /\ UNCHANGED cvars

\* Its write, conditional on the lease it saw and on its being overdue still.
RecoverWrite(w) ==
    LET k == run[w].key
        won == Overdue(k, run[w].epoch) IN
    /\ run[w].pc \in {"recoverFail", "recovered", "handBack"}
    /\ cmd' = IF ~won THEN cmd
              ELSE [cmd EXCEPT ![k] =
                      Released(k, CASE At(w, "recoverFail") -> "failed"
                                    [] At(w, "recovered") -> "completed"
                                    [] At(w, "handBack") -> "pending")]
    /\ IF won /\ At(w, "recovered") THEN Executed(k.cand) ELSE UNCHANGED cand
    /\ Goto(w, IF At(w, "handBack") THEN "claim" ELSE "next")
    /\ UNCHANGED <<item, photos, library, tab>>

-----------------------------------------------------------------------------
(* The end of a request.                                                    *)

\* Commands of the version their candidate has now.
Valid == {k \in DOMAIN cmd : k.version = cand[k.cand].version}

AllDone == Valid # {} /\ (\A k \in Valid : cmd[k].status = "completed")
                      /\ In("pending_review") = {}

SomeRunning == \E k \in Valid : cmd[k].status = "executing"

Summary ==
    CASE SomeRunning -> "executing"
      [] ~SomeRunning /\ AllDone -> "completed"
      [] ~SomeRunning /\ ~AllDone /\ ~(\E k \in Valid : cmd[k].status = "completed") -> "failed"
      [] OTHER -> "partial"

\* _recompute_work_item_status reads, then writes the status if it is another one.
SumUp(w) ==
    /\ At(w, "next")
    /\ run[w].todo = {}
    /\ run' = [run EXCEPT ![w].pc = "sum",
                          ![w].result = Changed(Summary)]
    /\ UNCHANGED cvars

WriteStatus(w) ==
    /\ At(w, "sum")
    /\ WriteItem(w)
    /\ run' = [run EXCEPT ![w] = Idle]
    /\ UNCHANGED <<photos, cand, cmd, library, tab>>

\* The requester is no longer an owner: the worker's own lease is handed back.
Unauthorized(w) ==
    LET k == run[w].key IN
    /\ run[w].pc \in {"next", "recover", "claim", "check", "insert"}
    /\ IF run[w].pc \in {"check", "insert"} /\ OwnLease(k, run[w].epoch)
       THEN Set(k, Released(k, "pending")) ELSE UNCHANGED cmd
    /\ Goto(w, "abort")
    /\ UNCHANGED <<item, photos, cand, library, tab>>

\* A batch reads the item, and puts it back to confirmed if it is being executed.
Abort(w) ==
    /\ At(w, "abort")
    /\ run' = [run EXCEPT ![w].pc = "sum",
          ![w].result = IF run[w].batch /\ item = "executing" THEN "confirmed" ELSE None]
    /\ UNCHANGED cvars

\* The process dies: what was not committed is lost, the lease stays.
Die(w) ==
    /\ ~At(w, "idle")
    /\ run' = [run EXCEPT ![w] = Idle]
    /\ UNCHANGED cvars

\* A book comes into the library by the other ways of intake_book.
OtherIntake ==
    /\ "intake" \in scene.kinds
    /\ \E x \in scene.contents : library[x] = 0 /\ library' = [library EXCEPT ![x] = 1]
    /\ UNCHANGED <<item, photos, cand, cmd, tab, run>>

Work(w) ==
    \/ Mark(w) \/ Take(w) \/ Claim(w) \/ Bind(w) \/ Check(w) \/ Receipt(w) \/ Insert(w)
    \/ WorkFails(w) \/ Fail(w) \/ RecoverRead(w) \/ RecoverWrite(w)
    \/ SumUp(w) \/ WriteStatus(w) \/ Abort(w)

\* The endpoints of the owner that carry commands out.
Served(w) == Start(w) \/ Retry(w)

ENext ==
    /\ \/ \E t \in scene.tabs : Desk(t) /\ UNCHANGED run
       \/ \E w \in scene.workers : Served(w) \/ Work(w) \/ Unauthorized(w) \/ Die(w)
       \/ Expire
       \/ OtherIntake
    /\ UNCHANGED scene

ESpec == EInit /\ [][ENext]_allvars

-----------------------------------------------------------------------------
(* Properties.                                                              *)

ETypeOK ==
    /\ item \in {"draft", "in_review", "confirmed", "executing", "completed", "partial", "failed"}
    /\ \A c \in Candidate :
          /\ cand[c].version \in 0 .. scene.versions
          /\ cand[c].photos \subseteq photos
          /\ cand[c].status # "none" => cand[c].photos # {}
    /\ \A k \in DOMAIN cmd :
          /\ cmd[k].epoch \in 0 .. MaxEpoch
          /\ cmd[k].expired => cmd[k].status = "executing"
          /\ cmd[k].status = "executing" => cmd[k].epoch > 0
    /\ library \in [Content -> Nat]

\* However many workers, desks and other intakes race for it, a book is created once; and
\* every variable keeps its type.
BookedOnce == \A x \in Content : library[x] <= 1
OneBookPerContent == ETypeOK /\ BookedOnce

\* The workers that hold a claim of the command, by what they believe.
Holding == {"bind", "check", "insert", "receipt", "fail"}
Holders(k) == {w \in Worker : run[w].pc \in Holding /\ run[w].key = k /\ run[w].epoch = cmd[k].epoch}

\* A lease in force has one holder, who alone completes, fails or hands back the command;
\* and a receipt is for good.
LeasesKept ==
    \A k \in DOMAIN cmd :
        /\ cmd[k].status = "completed" => cmd'[k] = cmd[k]
        /\ cmd[k].status = "executing" /\ ~cmd[k].expired =>
              \/ cmd'[k] = cmd[k]
              \/ cmd'[k] = [cmd[k] EXCEPT !.expired = TRUE]
              \/ \E w \in Worker : Holders(k) = {w} /\ run'[w] # run[w]
LeaseRespected == [][LeasesKept]_allvars

\* What crashes, takeovers and late writes leave fits together: a receipt has its book,
\* recovered ones included, and a candidate counts as executed only with a receipt.
ReceiptsHaveBooks ==
    /\ \A k \in DOMAIN cmd :
          cmd[k].status = "completed" /\ k.match = None => library[k.content] > 0
    /\ \A c \in In("executed") :
          \E k \in DOMAIN cmd : k.cand = c /\ cmd[k].status = "completed"

\* What the docstring of _store_owned_receipt says: no receipt without a confirmation that
\* still stands, whether or not there was a book to write.
ReceiptAsConfirmed ==
    [][\A k \in DOMAIN cmd :
          cmd'[k].status = "completed" /\ cmd[k].status # "completed" => Current(k)]_allvars

\* A command that is being executed without a worker can be resumed: the workbench offers
\* it for a confirmed or executing item, and for a failed one with a running command.
ResumeOffered ==
    \A k \in Valid :
        cmd[k].status = "executing" /\ (\A w \in Worker : At(w, "idle"))
            => item \in {"confirmed", "executing", "failed"}

\* Messages of update_candidate and split_candidate: an executed candidate is not edited.
ExecutedIsFinal ==
    [][\A c \in In("executed") : cand'[c] = cand[c]]_allvars
=============================================================================

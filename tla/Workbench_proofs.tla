--------------------------- MODULE Workbench_proofs ---------------------------
(***************************************************************************)
(* Proofs about the workbench, for any number of candidates, photos,       *)
(* commands, tabs and workers, with the page and the other tabs at work.   *)
(*                                                                         *)
(* Execution: claims are numbered upwards, so that a lease has one holder. *)
(* Claims: every request may claim a command once more at most.            *)
(* The desk: in one tab no request is overtaken, so that what an edit read *)
(* is what it writes over (Decided); versions only go up, and no command   *)
(* has the version of a candidate in review.                               *)
(* The page: what it shows is what is stored, but for what somebody else   *)
(* touched and what the confirmation in progress has saved.                *)
(***************************************************************************)
EXTENDS Workbench, FiniteSetTheorems, TLAPS

CommandRow ==
    {row \in [status : {"pending", "executing", "completed", "failed", "superseded"},
              epoch : Nat, expired : BOOLEAN] :
        /\ row.expired => row.status = "executing"
        /\ row.status = "executing" => row.epoch > 0}

Labels ==
    {"idle", "mark", "next", "sum", "abort", "claim", "recover", "recoverFail", "recovered",
     "handBack"} \cup Holding

\* A worker at one of these is about the command it took.
AtCommand == {"claim", "recover", "recoverFail", "recovered", "handBack"} \cup Holding

RunRow ==
    [pc : Labels, todo : SUBSET DOMAIN cmd, key : DOMAIN cmd \cup {None}, epoch : Nat,
     batch : BOOLEAN, result : {"executing", "completed", "failed", "partial", "confirmed", None}]

ExecTypes ==
    /\ scene \in Scenes
    /\ \A k \in DOMAIN cmd : cmd[k] \in CommandRow
    /\ run \in [Worker -> RunRow]
    /\ \A w \in Worker : run[w].pc \in AtCommand => run[w].key \in DOMAIN cmd
    /\ library \in [Content -> Nat]

\* Claims of a command are numbered upwards, so that no two workers have the same.
ClaimsNumbered ==
    \A w \in Worker : run[w].pc \in Holding =>
        /\ run[w].epoch <= cmd[run[w].key].epoch
        /\ \A v \in Worker \ {w} :
              run[v].pc \in Holding /\ run[v].key = run[w].key => run[v].epoch # run[w].epoch

ExecInv == ExecTypes /\ ClaimsNumbered /\ BookedOnce

-----------------------------------------------------------------------------
\* What the desk does to the commands: new ones, and some that are not executed any more.
DeskEffect ==
    /\ UNCHANGED <<scene, run, library>>
    /\ DOMAIN cmd \subseteq DOMAIN cmd'
    /\ \A k \in DOMAIN cmd :
          \/ cmd'[k] = cmd[k]
          \/ /\ cmd[k].status \in {"pending", "failed"}
             /\ cmd'[k] = [cmd[k] EXCEPT !.status = "superseded"]
    /\ \A k \in DOMAIN cmd' \ DOMAIN cmd :
          cmd'[k] = [status |-> "pending", epoch |-> 0, expired |-> FALSE]

LEMMA SupersedeEffect ==
    ASSUME NEW K, cmd' = Supersede(K), UNCHANGED <<scene, run, library>>
    PROVE  DeskEffect
BY DEF Supersede, DeskEffect

LEMMA ConfirmEffect ==
    ASSUME NEW t, NEW S, ConfirmThese(t, S), UNCHANGED <<scene, run>>
    PROVE  DeskEffect
<1> DEFINE new == S \cap In("pending_review")
           made == {Key(c) : c \in new} \ DOMAIN cmd
           older == {k \in DOMAIN cmd : k.cand \in new /\ k.version < cand[k.cand].version}
<1>1. cmd' = [k \in DOMAIN cmd \cup made |->
          IF k \in made THEN [status |-> "pending", epoch |-> 0, expired |-> FALSE]
          ELSE Supersede(older)[k]]
  BY DEF ConfirmThese
<1>2. UNCHANGED library
  BY DEF ConfirmThese
<1> HIDE DEF made, older
<1>3. made \cap DOMAIN cmd = {}
  BY DEF made
<1>4. \A k \in DOMAIN cmd : cmd'[k] = Supersede(older)[k]
  BY <1>1, <1>3
<1>5. QED
  BY <1>1, <1>2, <1>4 DEF Supersede, DeskEffect

LEMMA BuildEffect ==
    ASSUME NEW t, NEW p, NEW b, Build(t, p, b), UNCHANGED <<scene, run>>
    PROVE  DeskEffect
<1>1. \E K : cmd' = Supersede(K)
  BY DEF Build
<1>2. UNCHANGED library
  BY DEF Build
<1>3. QED
  BY <1>1, <1>2, SupersedeEffect

LEMMA NoEffect ==
    ASSUME UNCHANGED <<scene, cmd, run, library>>
    PROVE  DeskEffect
BY DEF DeskEffect

\* Every request of a tab.
LEMMA TabEffect ==
    ASSUME NEW t, Desk(t), UNCHANGED <<scene, run>>
    PROVE  DeskEffect
BY BuildEffect, ConfirmEffect, NoEffect
   DEF Desk, UploadRead, UploadWrite, Recognize, EditRead, UpdateWrite, UpdateTo, SplitWrite,
       PreviewRead, PreviewWrite, Drop, Confirm

\* Every step of the page.
LEMMA PageEffect ==
    ASSUME PageStep, UNCHANGED scene
    PROVE  DeskEffect
<1>1. ASSUME NEW c, Patch(c), UNCHANGED run PROVE DeskEffect
  BY <1>1, NoEffect DEF Patch, EditRead
<1>2. CASE Request
  BY <1>2, NoEffect DEF Request, UploadRead, PreviewRead, EditRead, cvars
<1>3. CASE Answered
  BY <1>3, BuildEffect, NoEffect DEF Answered, Recognize, UploadWrite, PreviewWrite, SplitWrite
<1>4. CASE Save \/ PassSaving
  BY <1>1, <1>4 DEF Save, PassSaving
<1>5. CASE Patched
  BY <1>5, NoEffect DEF Patched, UpdateTo
<1>6. CASE Confirmed
  BY <1>6, ConfirmEffect DEF Confirmed
<1>7. CASE Elsewhere
  BY <1>7, TabEffect DEF Elsewhere
<1>8. CASE \/ Enter \/ Leave \/ Type \/ Toggle \/ ClickConfirm \/ Pass
           \/ \E w \in Way : Read(w) \/ Display(w) \/ OpenFails(w)
  BY <1>8, NoEffect DEF Enter, Read, Display, OpenFails, Leave, Type, Toggle, ClickConfirm, Pass,
                        allvars, cvars
<1>9. CASE Refused \/ Lost
  BY <1>9, NoEffect DEF Refused, Lost
<1>10. QED
  BY <1>2, <1>3, <1>4, <1>5, <1>6, <1>7, <1>8, <1>9 DEF PageStep

LEMMA DeskKeepsInv ==
    ASSUME ExecInv, DeskEffect
    PROVE  ExecInv'
<1>1. \A k \in DOMAIN cmd' : cmd'[k] \in CommandRow
  <2>1. ASSUME NEW k \in DOMAIN cmd PROVE cmd'[k] \in CommandRow
    <3>1. cmd[k] \in CommandRow
      BY DEF ExecInv, ExecTypes
    <3>2. cmd[k].status \in {"pending", "failed"} =>
            [cmd[k] EXCEPT !.status = "superseded"] \in CommandRow
      BY <3>1 DEF CommandRow
    <3>3. QED
      BY <3>1, <3>2 DEF DeskEffect
  <2>2. ASSUME NEW k \in DOMAIN cmd' \ DOMAIN cmd PROVE cmd'[k] \in CommandRow
    <3>1. cmd'[k] = [status |-> "pending", epoch |-> 0, expired |-> FALSE]
      BY <2>2 DEF DeskEffect
    <3>2. QED
      BY <3>1 DEF CommandRow
  <2>3. QED
    BY <2>1, <2>2
<1>2. \A k \in DOMAIN cmd : cmd'[k].epoch = cmd[k].epoch
  BY DEF ExecInv, ExecTypes, CommandRow, DeskEffect
<1>3. run' \in [Worker -> RunRow']
  <2>1. ASSUME NEW row \in RunRow PROVE row \in RunRow'
    BY <2>1 DEF RunRow, DeskEffect
  <2>2. QED
    BY <2>1 DEF ExecInv, ExecTypes, DeskEffect
<1>4. ExecTypes'
  BY <1>1, <1>3 DEF ExecInv, ExecTypes, DeskEffect
<1>5. ClaimsNumbered'
  BY <1>2 DEF ExecInv, ExecTypes, ClaimsNumbered, DeskEffect, AtCommand
<1>6. QED
  BY <1>4, <1>5 DEF ExecInv, BookedOnce, DeskEffect

LEMMA DeskKeepsLeases ==
    ASSUME ExecInv, DeskEffect
    PROVE  LeasesKept
BY DEF ExecInv, ExecTypes, CommandRow, DeskEffect, LeasesKept

-----------------------------------------------------------------------------
\* A worker goes on, and at most changes the row of its command without claiming it.
GoesOn(w) ==
    /\ \E label \in Labels :
          /\ Goto(w, label)
          /\ label \in Holding => run[w].pc \in Holding
          /\ label \in AtCommand => run[w].pc \in AtCommand
    /\ \/ UNCHANGED cmd
       \/ /\ run[w].pc \in AtCommand
          /\ \E row \in CommandRow : row.epoch = cmd[run[w].key].epoch /\ Set(run[w].key, row)

LEMMA GoingOnKeepsInv ==
    ASSUME ExecInv, NEW w \in Worker, GoesOn(w), UNCHANGED scene, library' \in [Content -> Nat], BookedOnce'
    PROVE  ExecInv'
<1> USE DEF ExecInv, ExecTypes
<1>1. /\ DOMAIN cmd' = DOMAIN cmd
      /\ \A k \in DOMAIN cmd : cmd'[k] \in CommandRow /\ cmd'[k].epoch = cmd[k].epoch
  BY DEF GoesOn, Set
<1>2. PICK label \in Labels :
          /\ run' = [run EXCEPT ![w].pc = label]
          /\ label \in Holding => run[w].pc \in Holding
          /\ label \in AtCommand => run[w].pc \in AtCommand
  BY DEF GoesOn, Goto
<1>3. run' \in [Worker -> RunRow']
  BY <1>1, <1>2 DEF RunRow
<1>4. \A v \in Worker : /\ run'[v].key = run[v].key /\ run'[v].epoch = run[v].epoch
                        /\ run'[v].pc \in Holding => run[v].pc \in Holding
                        /\ run'[v].pc \in AtCommand => run[v].pc \in AtCommand
  BY <1>2 DEF RunRow
<1>5. ExecTypes'
  BY <1>1, <1>3, <1>4
<1>6. ClaimsNumbered'
  BY <1>1, <1>4 DEF ClaimsNumbered, AtCommand
<1>7. QED
  BY <1>5, <1>6

LEMMA WorkerKeepsInv ==
    ASSUME ExecInv, NEW w \in Worker, Start(w) \/ Retry(w) \/ Work(w) \/ Unauthorized(w) \/ Die(w),
           UNCHANGED scene
    PROVE  ExecInv'
<1> DEFINE k == run[w].key
<1> USE DEF ExecInv, ExecTypes, At
<1>0. /\ run[w] \in RunRow
      /\ run[w].pc \in AtCommand => k \in DOMAIN cmd /\ cmd[k] \in CommandRow
      /\ \A s \in {"pending", "completed", "failed"} :
            run[w].pc \in AtCommand =>
                Released(k, s) \in CommandRow /\ Released(k, s).epoch = cmd[k].epoch
  BY DEF Released, CommandRow
<1>1. ASSUME NEW row \in RunRow, run' = [run EXCEPT ![w] = row], UNCHANGED <<cmd, library>>,
             row.pc \notin Holding, row.pc \in AtCommand => row.key \in DOMAIN cmd
      PROVE  ExecInv'
  <2>1. \A v \in Worker \ {w} : run'[v] = run[v]
    BY <1>1
  <2>2. run'[w] = row
    BY <1>1
  <2>3. ExecTypes'
    BY <1>1, <2>1, <2>2 DEF RunRow
  <2>4. ClaimsNumbered'
    BY <1>1, <2>1, <2>2 DEF ClaimsNumbered
  <2>5. QED
    BY <1>1, <2>3, <2>4 DEF BookedOnce
<1>2. Idle \in RunRow /\ Idle.pc \notin Holding \cup AtCommand
  BY DEF Idle, RunRow, Labels, Holding, AtCommand
<1>3. CASE Start(w)
  <2>1. Changed("executing") \in {"executing", None}
    BY DEF Changed
  <2>2. [Idle EXCEPT !.pc = "mark", !.todo = DOMAIN cmd, !.batch = TRUE,
                     !.result = Changed("executing")] \in RunRow
    BY <2>1 DEF Idle, RunRow, Labels
  <2>3. QED
    BY <1>1, <1>3, <2>2 DEF Start, Idle, Holding, AtCommand, cvars
<1>4. CASE Retry(w)
  <2>1. PICK j \in DOMAIN cmd : run' = [run EXCEPT ![w] = [Idle EXCEPT !.pc = "next", !.todo = {j}]]
    BY <1>4 DEF Retry
  <2>2. [Idle EXCEPT !.pc = "next", !.todo = {j}] \in RunRow
    BY DEF Idle, RunRow, Labels
  <2>3. QED
    BY <1>1, <1>4, <2>1, <2>2 DEF Retry, Idle, Holding, AtCommand, cvars
<1>5. CASE Take(w)
  <2>1. PICK j \in run[w].todo, go \in {"next", "recover", "claim"} :
            run' = [run EXCEPT ![w].pc = go, ![w].todo = @ \ {j}, ![w].key = j,
                               ![w].epoch = cmd[j].epoch]
    BY <1>5 DEF Take
  <2>2. j \in DOMAIN cmd /\ cmd[j].epoch \in Nat
    BY <1>0 DEF RunRow, CommandRow
  <2> DEFINE row == [run[w] EXCEPT !.pc = go, !.todo = @ \ {j}, !.key = j, !.epoch = cmd[j].epoch]
  <2>3. row \in RunRow /\ row.pc = go /\ row.key = j
    BY <1>0, <2>2 DEF RunRow, Labels
  <2>4. run' = [run EXCEPT ![w] = row]
    BY <2>1
  <2>5. row.pc \notin Holding /\ UNCHANGED <<cmd, library>>
    BY <1>5, <2>3 DEF Take, Holding, cvars
  <2> HIDE DEF row
  <2>6. QED
    BY <1>1, <2>2, <2>3, <2>4, <2>5
<1>6. CASE RecoverRead(w)
  <2>1. PICK go \in {"next", "recoverFail", "handBack", "recovered", "claim"} :
            run' = [run EXCEPT ![w].epoch = cmd[k].epoch, ![w].pc = go]
    BY <1>6 DEF RecoverRead, Overdue, OwnLease, Current
  <2> DEFINE row == [run[w] EXCEPT !.epoch = cmd[k].epoch, !.pc = go]
  <2>2. k \in DOMAIN cmd /\ cmd[k].epoch \in Nat
    BY <1>0, <1>6 DEF RecoverRead, AtCommand, CommandRow
  <2>3. row \in RunRow /\ row.pc = go /\ row.key = k
    BY <1>0, <2>2 DEF RunRow, Labels
  <2>4. run' = [run EXCEPT ![w] = row]
    BY <2>1
  <2>5. row.pc \notin Holding /\ UNCHANGED <<cmd, library>>
    BY <1>6, <2>3 DEF RecoverRead, Holding, cvars
  <2> HIDE DEF row
  <2>6. QED
    BY <1>1, <2>2, <2>3, <2>4, <2>5
<1>7. CASE SumUp(w)
  <2>1. Changed(Summary) \in {"executing", "completed", "failed", "partial", None}
    BY DEF Changed, Summary
  <2> DEFINE row == [run[w] EXCEPT !.pc = "sum", !.result = Changed(Summary)]
  <2>2. row \in RunRow /\ row.pc = "sum"
    BY <1>0, <2>1 DEF RunRow, Labels
  <2>3. run' = [run EXCEPT ![w] = row]
    BY <1>7 DEF SumUp
  <2>4. QED
    BY <1>1, <1>7, <2>2, <2>3 DEF SumUp, Holding, AtCommand, cvars
<1>8. CASE Abort(w)
  <2>1. PICK result \in {"confirmed", None} :
            run' = [run EXCEPT ![w].pc = "sum", ![w].result = result]
    BY <1>8 DEF Abort
  <2> DEFINE row == [run[w] EXCEPT !.pc = "sum", !.result = result]
  <2>2. row \in RunRow /\ row.pc = "sum"
    BY <1>0 DEF RunRow, Labels
  <2>3. run' = [run EXCEPT ![w] = row]
    BY <2>1
  <2>4. QED
    BY <1>1, <1>8, <2>2, <2>3 DEF Abort, Holding, AtCommand, cvars
<1>9. CASE WriteStatus(w) \/ Die(w)
  BY <1>1, <1>2, <1>9 DEF WriteStatus, Die, cvars
<1>10. CASE Claim(w) /\ Claimable(k)
  <2>1. k \in DOMAIN cmd /\ cmd[k].epoch \in Nat
    BY <1>0, <1>10 DEF Claim, AtCommand, CommandRow
  <2> DEFINE n == cmd[k].epoch + 1
  <2>2. cmd' = [cmd EXCEPT ![k] = [status |-> "executing", epoch |-> n, expired |-> FALSE]]
    BY <1>10 DEF Claim, Set
  <2>3. run' = [run EXCEPT ![w].pc = "bind", ![w].epoch = n]
    BY <1>10 DEF Claim
  <2>4. n \in Nat /\ DOMAIN cmd' = DOMAIN cmd /\ UNCHANGED library
    BY <1>10, <2>1, <2>2 DEF Claim
  <2>5. run'[w] \in RunRow /\ run'[w].pc = "bind" /\ run'[w].epoch = n /\ run'[w].key = k
    BY <1>0, <2>3, <2>4 DEF RunRow, Labels, Holding
  <2>6. \A v \in Worker \ {w} : run'[v] = run[v]
    BY <2>3
  <2>7. \A j \in DOMAIN cmd : cmd'[j] = IF j = k THEN [status |-> "executing", epoch |-> n,
                                                       expired |-> FALSE] ELSE cmd[j]
    BY <2>2
  <2>8. ExecTypes'
    <3>1. \A j \in DOMAIN cmd' : cmd'[j] \in CommandRow
      <4>1. [status |-> "executing", epoch |-> n, expired |-> FALSE] \in CommandRow
        BY <2>1, <2>4 DEF CommandRow
      <4>2. QED
        BY <2>4, <2>7, <4>1
    <3>2. run' \in [Worker -> RunRow']
      BY <2>3, <2>4, <2>5, <2>6 DEF RunRow
    <3>3. QED
      BY <2>1, <2>4, <2>5, <2>6, <3>1, <3>2
  <2>9. ClaimsNumbered'
    <3>1. ASSUME NEW v \in Worker \ {w}, run[v].pc \in Holding, run[v].key = k
          PROVE  run[v].epoch < n
      BY <2>1, <3>1 DEF ClaimsNumbered, RunRow
    <3>2. \A v \in Worker \ {w} : run'[v].pc \in Holding /\ run'[v].key = k => run'[v].epoch < n
      BY <2>6, <3>1
    <3>3. \A v \in Worker : run[v].epoch \in Nat
      BY DEF RunRow
    <3>4. \A j \in DOMAIN cmd : cmd[j].epoch \in Nat
      BY DEF CommandRow
    <3>5. \A v \in Worker : run[v].pc \in Holding => run[v].key \in DOMAIN cmd
      BY DEF AtCommand
    <3>6. ASSUME NEW v \in Worker, run'[v].pc \in Holding
          PROVE  run'[v].epoch <= cmd'[run'[v].key].epoch
      <4>1. CASE v = w
        BY <2>1, <2>4, <2>5, <2>7, <4>1
      <4>2. CASE v # w
        <5>1. run'[v] = run[v] /\ run[v].key \in DOMAIN cmd /\ run[v].epoch <= cmd[run[v].key].epoch
          BY <2>6, <3>5, <3>6, <4>2 DEF ClaimsNumbered
        <5>2. run[v].key = k => run[v].epoch < n
          BY <2>6, <3>1, <3>6, <4>2
        <5>3. run[v].key = k => cmd'[run[v].key].epoch = n
          BY <2>1, <2>7
        <5>4. run[v].key # k => cmd'[run[v].key] = cmd[run[v].key]
          BY <2>7, <5>1
        <5> HIDE DEF n
        <5>5. QED
          BY <2>4, <3>3, <5>1, <5>2, <5>3, <5>4
      <4>3. QED
        BY <4>1, <4>2
    <3>7. ASSUME NEW v \in Worker, run'[v].pc \in Holding,
                 NEW u \in Worker \ {v}, run'[u].pc \in Holding, run'[u].key = run'[v].key
          PROVE  run'[u].epoch # run'[v].epoch
      BY <2>4, <2>5, <2>6, <3>1, <3>3, <3>7 DEF ClaimsNumbered
    <3>8. QED
      BY <3>6, <3>7 DEF ClaimsNumbered
  <2>10. QED
    BY <2>4, <2>8, <2>9 DEF BookedOnce
<1>11. ASSUME GoesOn(w), UNCHANGED library PROVE ExecInv'
  BY <1>11, GoingOnKeepsInv DEF BookedOnce
<1>12. CASE Claim(w) /\ ~Claimable(k)
  <2>1. GoesOn(w)
    BY <1>12 DEF Claim, GoesOn, Labels, Holding, AtCommand
  <2>2. QED
    BY <1>11, <1>12, <2>1 DEF Claim
<1>13. CASE Mark(w) \/ Bind(w) \/ WorkFails(w) \/ Check(w)
  <2>1. GoesOn(w)
    BY <1>13 DEF Mark, Bind, WorkFails, Check, GoesOn, Goto, Labels, Holding, AtCommand, cvars
  <2>2. QED
    BY <1>11, <1>13, <2>1 DEF Mark, Bind, WorkFails, Check, cvars
<1>14. CASE Fail(w) \/ Receipt(w) \/ Unauthorized(w)
  <2>1. GoesOn(w)
    BY <1>0, <1>14 DEF Fail, Receipt, Unauthorized, GoesOn, Labels, Holding, AtCommand
  <2>2. QED
    BY <1>11, <1>14, <2>1 DEF Fail, Receipt, Unauthorized
<1>15. CASE RecoverWrite(w)
  <2>1. GoesOn(w)
    BY <1>0, <1>15 DEF RecoverWrite, GoesOn, Set, Labels, Holding, AtCommand
  <2>2. QED
    BY <1>11, <1>15, <2>1 DEF RecoverWrite
<1>16. CASE Insert(w)
  <2>1. GoesOn(w)
    BY <1>0, <1>16 DEF Insert, GoesOn, Labels, Holding, AtCommand
  <2>2. library' \in [Content -> Nat] /\ BookedOnce'
    BY <1>16 DEF Insert, StillMissing, BookedOnce
  <2>3. QED
    BY <2>1, <2>2, GoingOnKeepsInv
<1>17. QED
  BY <1>3, <1>4, <1>5, <1>6, <1>7, <1>8, <1>9, <1>10, <1>12, <1>13, <1>14, <1>15, <1>16 DEF Work

\* A lease in force is only touched by its one holder.
LEMMA WorkerKeepsLeases ==
    ASSUME ExecInv, NEW w \in Worker, Start(w) \/ Retry(w) \/ Work(w) \/ Unauthorized(w) \/ Die(w),
           UNCHANGED scene
    PROVE  LeasesKept
<1> DEFINE k == run[w].key
<1> USE DEF ExecInv, ExecTypes, At
<1>1. ASSUME UNCHANGED cmd PROVE LeasesKept
  BY <1>1 DEF LeasesKept, CommandRow
<1>2. ASSUME k \in DOMAIN cmd, NEW row, Set(k, row),
             cmd[k].status # "completed", cmd[k].status = "executing" => cmd[k].expired
      PROVE  LeasesKept
  BY <1>2 DEF LeasesKept, Set, CommandRow
<1>3. ASSUME run[w].pc \in Holding, OwnLease(k, run[w].epoch), NEW row, Set(k, row),
             run'[w] # run[w]
      PROVE  LeasesKept
  <2>1. k \in DOMAIN cmd /\ cmd[k].status = "executing" /\ cmd[k].epoch = run[w].epoch
    BY <1>3 DEF AtCommand, OwnLease
  <2>2. Holders(k) = {w}
    BY <1>3, <2>1 DEF Holders, ClaimsNumbered
  <2>3. QED
    BY <1>3, <2>1, <2>2 DEF LeasesKept, Set, CommandRow
<1>4. run[w].pc \in Labels /\ \A label \in Labels : Goto(w, label) => run'[w].pc = label
  BY DEF RunRow, Goto
<1>5. CASE Claim(w)
  <2>1. CASE Claimable(k)
    BY <1>2, <1>5, <2>1 DEF Claim, Claimable, AtCommand, CommandRow
  <2>2. CASE ~Claimable(k)
    BY <1>1, <1>5, <2>2 DEF Claim
  <2>3. QED
    BY <2>1, <2>2
<1>6. CASE RecoverWrite(w)
  <2>1. k \in DOMAIN cmd
    BY <1>6 DEF RecoverWrite, AtCommand
  <2>2. CASE Overdue(k, run[w].epoch)
    <3>1. \E row : Set(k, row)
      BY <1>6, <2>2 DEF RecoverWrite, Set
    <3>2. QED
      BY <1>2, <1>6, <2>1, <2>2, <3>1 DEF RecoverWrite, Overdue, OwnLease
  <2>3. CASE ~Overdue(k, run[w].epoch)
    BY <1>1, <1>6, <2>3 DEF RecoverWrite
  <2>4. QED
    BY <2>2, <2>3
<1>7. CASE Fail(w) \/ Receipt(w) \/ Unauthorized(w)
  <2>1. CASE UNCHANGED cmd
    BY <1>1, <2>1
  <2>2. CASE ~UNCHANGED cmd
    <3>1. /\ run[w].pc \in Holding
          /\ OwnLease(k, run[w].epoch)
          /\ \E row : Set(k, row)
          /\ run'[w] # run[w]
      BY <1>4, <1>7, <2>2 DEF Fail, Receipt, Unauthorized, Holding, Labels
    <3>2. QED
      BY <1>3, <3>1
  <2>3. QED
    BY <2>1, <2>2
<1>8. CASE Insert(w)
  <2>1. CASE UNCHANGED cmd
    BY <1>1, <2>1
  <2>2. CASE ~UNCHANGED cmd
    <3>1. /\ run[w].pc \in Holding
          /\ OwnLease(k, run[w].epoch)
          /\ \E row : Set(k, row)
          /\ run'[w] # run[w]
      BY <1>4, <1>8, <2>2 DEF Insert, Holding, Labels
    <3>2. QED
      BY <1>3, <3>1
  <2>3. QED
    BY <2>1, <2>2
<1>9. CASE ~(Claim(w) \/ RecoverWrite(w) \/ Fail(w) \/ Receipt(w) \/ Unauthorized(w) \/ Insert(w))
  <2>1. UNCHANGED cmd
    BY <1>9 DEF Start, Retry, Work, Mark, Take, Bind, WorkFails, Check, RecoverRead, SumUp,
                WriteStatus, Abort, Die, cvars
  <2>2. QED
    BY <1>1, <2>1
<1>10. QED
  BY <1>5, <1>6, <1>7, <1>8, <1>9

\* The time of a lease runs out; a book comes in another way.
LEMMA SurroundingsKeep ==
    ASSUME ExecInv, Expire \/ OtherIntake, UNCHANGED scene
    PROVE  ExecInv' /\ LeasesKept
<1> USE DEF ExecInv, ExecTypes
<1>1. CASE Expire
  <2>1. PICK k \in DOMAIN cmd : /\ cmd[k].status = "executing" /\ ~cmd[k].expired
                                /\ cmd' = [cmd EXCEPT ![k] = [cmd[k] EXCEPT !.expired = TRUE]]
    BY <1>1 DEF Expire, Set
  <2>2. /\ DOMAIN cmd' = DOMAIN cmd
        /\ \A j \in DOMAIN cmd : cmd'[j] \in CommandRow /\ cmd'[j].epoch = cmd[j].epoch
    BY <2>1 DEF CommandRow
  <2>3. UNCHANGED <<run, library>>
    BY <1>1 DEF Expire
  <2>4. ExecTypes' /\ ClaimsNumbered'
    BY <2>2, <2>3 DEF ClaimsNumbered, RunRow, AtCommand
  <2>5. LeasesKept
    BY <2>1 DEF LeasesKept
  <2>6. QED
    BY <2>3, <2>4, <2>5 DEF BookedOnce
<1>2. CASE OtherIntake
  <2>1. UNCHANGED <<run, cmd>>
    BY <1>2 DEF OtherIntake
  <2>2. library' \in [Content -> Nat] /\ BookedOnce'
    <3>1. PICK x \in scene.contents : library[x] = 0 /\ library' = [library EXCEPT ![x] = 1]
      BY <1>2 DEF OtherIntake
    <3>2. x \in Content
      BY <3>1, SceneAssumption
    <3>3. /\ library \in [Content -> Nat]
          /\ \A y \in Content : library'[y] = IF y = x THEN 1 ELSE library[y]
          /\ library' \in [Content -> Nat]
      BY <3>1, <3>2
    <3>4. \A y \in Content : library[y] <= 1
      BY DEF BookedOnce
    <3>5. QED
      BY <3>3, <3>4 DEF BookedOnce
  <2>3. ExecTypes' /\ ClaimsNumbered'
    BY <2>1, <2>2 DEF ClaimsNumbered, RunRow
  <2>4. LeasesKept
    BY <2>1 DEF LeasesKept
  <2>5. QED
    BY <2>2, <2>3, <2>4
<1>3. QED
  BY <1>1, <1>2

\* One step of the workbench.
LEMMA StepKeeps ==
    ASSUME ExecInv, [WNext]_wvars
    PROVE  ExecInv' /\ LeasesKept
<1>1. CASE UNCHANGED wvars
  BY <1>1, NoEffect, DeskKeepsInv, DeskKeepsLeases DEF wvars, allvars, cvars
<1>2. CASE WNext
  <2>1. CASE PageStep /\ UNCHANGED scene
    BY <2>1, PageEffect, DeskKeepsInv, DeskKeepsLeases
  <2>2. CASE ENext
    <3>1. ASSUME NEW t, Desk(t), UNCHANGED <<scene, run>> PROVE ExecInv' /\ LeasesKept
      BY <3>1, TabEffect, DeskKeepsInv, DeskKeepsLeases
    <3>2. ASSUME NEW w \in scene.workers, UNCHANGED scene,
                 Start(w) \/ Retry(w) \/ Work(w) \/ Unauthorized(w) \/ Die(w)
          PROVE  ExecInv' /\ LeasesKept
      BY <3>2, WorkersAssumption, WorkerKeepsInv, WorkerKeepsLeases DEF ExecInv, ExecTypes
    <3>3. QED
      BY <2>2, <3>1, <3>2, SurroundingsKeep DEF ENext, Served
  <2>3. QED
    BY <1>2, <2>1, <2>2 DEF WNext
<1>3. QED
  BY <1>1, <1>2

\* The execution of commands, whatever the desk, the page and the other workers do.
LEMMA ExecInvariant == WSpec => []ExecInv
<1>1. WInit => ExecInv
  BY DEF WInit, EInit, Init, ExecInv, ExecTypes, ClaimsNumbered, BookedOnce, Idle, RunRow, Labels,
         Holding, AtCommand
<1>2. ExecInv /\ [WNext]_wvars => ExecInv'
  BY StepKeeps
<1>3. QED
  BY <1>1, <1>2, PTL DEF WSpec

-----------------------------------------------------------------------------
(* Claims.                                                                  *)

\* The requests that may still claim a command, each of them once.
MayClaim(k) ==
    {w \in Worker : /\ ~At(w, "idle")
                    /\ \/ k \in run[w].todo
                       \/ run[w].pc \in {"claim", "recover", "handBack"} /\ run[w].key = k}

ClaimsBounded ==
    /\ \A w \in Worker : run[w].pc \in AtCommand => run[w].key \notin run[w].todo
    /\ \A k \in DOMAIN cmd : cmd[k].epoch + Cardinality(MayClaim(k)) <= MaxEpoch

LEMMA WorkersAreCounted ==
    ASSUME NEW S, NEW T, S \subseteq T, T \subseteq Worker
    PROVE  /\ IsFiniteSet(S) /\ IsFiniteSet(T)
           /\ Cardinality(S) \in Nat /\ Cardinality(T) \in Nat /\ Cardinality(S) <= Cardinality(T)
BY WorkersAssumption, FS_Subset, FS_CardinalityType

\* Nobody more may claim anything, and no epoch has changed.
LEMMA FewerMayClaim ==
    ASSUME ExecTypes, ClaimsBounded, DOMAIN cmd' = DOMAIN cmd,
           \A k \in DOMAIN cmd : cmd'[k].epoch = cmd[k].epoch /\ MayClaim(k)' \subseteq MayClaim(k)
    PROVE  \A k \in DOMAIN cmd' : cmd'[k].epoch + Cardinality(MayClaim(k)') <= MaxEpoch
<1>1. TAKE k \in DOMAIN cmd'
<1>2. MayClaim(k) \subseteq Worker /\ cmd[k].epoch \in Nat
  BY DEF MayClaim, ExecTypes, CommandRow
<1>3. /\ Cardinality(MayClaim(k)') \in Nat /\ Cardinality(MayClaim(k)) \in Nat
      /\ Cardinality(MayClaim(k)') <= Cardinality(MayClaim(k))
  BY <1>2, WorkersAreCounted
<1>4. cmd[k].epoch + Cardinality(MayClaim(k)) <= MaxEpoch
  BY DEF ClaimsBounded
<1>5. QED
  BY <1>2, <1>3, <1>4, WorkersAssumption

LEMMA DeskKeepsClaims ==
    ASSUME ExecInv, ClaimsBounded, DeskEffect
    PROVE  ClaimsBounded'
<1> USE DEF ExecInv, ExecTypes
<1>1. ASSUME NEW k \in DOMAIN cmd' PROVE cmd'[k].epoch + Cardinality(MayClaim(k)') <= MaxEpoch
  <2>1. MayClaim(k)' = MayClaim(k)
    BY DEF DeskEffect, MayClaim, At
  <2>2. CASE k \in DOMAIN cmd
    <3>1. cmd'[k].epoch = cmd[k].epoch
      BY <2>2 DEF DeskEffect, CommandRow
    <3>2. QED
      BY <2>1, <2>2, <3>1 DEF ClaimsBounded
  <2>3. CASE k \notin DOMAIN cmd
    <3>1. MayClaim(k) = {}
      BY <2>3 DEF MayClaim, RunRow, AtCommand
    <3>2. cmd'[k].epoch = 0
      BY <1>1, <2>3 DEF DeskEffect
    <3>3. QED
      BY <2>1, <3>1, <3>2, FS_EmptySet, WorkersAssumption
  <2>4. QED
    BY <2>2, <2>3
<1>2. QED
  BY <1>1 DEF ClaimsBounded, DeskEffect

LEMMA WorkerKeepsClaims ==
    ASSUME ExecInv, ClaimsBounded, NEW w \in Worker,
           Start(w) \/ Retry(w) \/ Work(w) \/ Unauthorized(w) \/ Die(w)
    PROVE  ClaimsBounded'
<1> DEFINE k == run[w].key
<1> USE DEF ExecInv, ExecTypes, At
<1>0. /\ run[w] \in RunRow
      /\ run[w].pc \in AtCommand => k \in DOMAIN cmd /\ cmd[k] \in CommandRow
  OBVIOUS
\* It goes on without a claim.
<1>1. ASSUME DOMAIN cmd' = DOMAIN cmd, \A j \in DOMAIN cmd : cmd'[j].epoch = cmd[j].epoch,
             NEW row \in RunRow, run' = [run EXCEPT ![w] = row],
             \A j \in DOMAIN cmd :
                 /\ row.pc # "idle"
                 /\ j \in row.todo \/ (row.pc \in {"claim", "recover", "handBack"} /\ row.key = j)
                 => w \in MayClaim(j),
             row.pc \in AtCommand => row.key \notin row.todo
      PROVE  ClaimsBounded'
  <2>1. \A v \in Worker : run'[v] = IF v = w THEN row ELSE run[v]
    BY <1>1
  <2>2. \A j \in DOMAIN cmd : MayClaim(j)' \subseteq MayClaim(j)
    BY <1>1, <2>1 DEF MayClaim
  <2>3. QED
    BY <1>1, <2>1, <2>2, FewerMayClaim DEF ClaimsBounded
<1>2. ASSUME NEW row \in RunRow, run' = [run EXCEPT ![w] = row], UNCHANGED cmd,
             row.pc \notin AtCommand, run[w].pc = "idle",
             Bounded(row.todo)
      PROVE  ClaimsBounded'
  <2> DEFINE busy == {v \in Worker : run[v].pc # "idle"}
  <2>1. \A v \in Worker : run'[v] = IF v = w THEN row ELSE run[v]
    BY <1>2
  <2>2. ASSUME NEW j \in DOMAIN cmd PROVE cmd[j].epoch + Cardinality(MayClaim(j)') <= MaxEpoch
    <3>1. CASE j \notin row.todo
      <4>1. MayClaim(j)' \subseteq MayClaim(j)
        BY <1>2, <2>1, <3>1 DEF MayClaim, AtCommand
      <4>2. /\ Cardinality(MayClaim(j)') \in Nat /\ Cardinality(MayClaim(j)) \in Nat
            /\ Cardinality(MayClaim(j)') <= Cardinality(MayClaim(j))
        BY <4>1, WorkersAreCounted DEF MayClaim
      <4>3. cmd[j].epoch \in Nat /\ cmd[j].epoch + Cardinality(MayClaim(j)) <= MaxEpoch
        BY DEF ClaimsBounded, CommandRow
      <4>4. QED
        BY <4>2, <4>3, WorkersAssumption
    <3>2. CASE j \in row.todo
      <4>1. MayClaim(j)' \subseteq busy \cup {w}
        BY <2>1 DEF MayClaim
      <4>2. /\ IsFiniteSet(busy) /\ Cardinality(busy) \in Nat
        BY WorkersAreCounted
      <4>3. w \notin busy
        BY <1>2
      <4>4. IsFiniteSet(busy \cup {w}) /\ Cardinality(busy \cup {w}) = Cardinality(busy) + 1
        BY <4>2, <4>3, FS_AddElement
      <4>5. Cardinality(MayClaim(j)') \in Nat /\ Cardinality(MayClaim(j)') <= Cardinality(busy) + 1
        BY <4>1, <4>4, WorkersAreCounted
      <4>6. cmd[j].epoch \in Nat /\ cmd[j].epoch + Cardinality(busy) < MaxEpoch
        BY <1>2, <3>2 DEF Bounded, CommandRow
      <4> HIDE DEF busy
      <4>7. QED
        BY <4>2, <4>5, <4>6, WorkersAssumption
    <3>3. QED
      BY <3>1, <3>2
  <2>3. QED
    BY <1>2, <2>1, <2>2 DEF ClaimsBounded
<1>3. CASE Start(w)
  <2>1. Changed("executing") \in {"executing", None}
    BY DEF Changed
  <2> DEFINE row == [Idle EXCEPT !.pc = "mark", !.todo = DOMAIN cmd, !.batch = TRUE,
                                 !.result = Changed("executing")]
  <2>2. row \in RunRow /\ row.pc = "mark" /\ row.todo = DOMAIN cmd
    BY <2>1 DEF Idle, RunRow, Labels
  <2>3. run' = [run EXCEPT ![w] = row] /\ UNCHANGED cmd /\ run[w].pc = "idle" /\ Bounded(row.todo)
    BY <1>3, <2>2 DEF Start, cvars
  <2> HIDE DEF row
  <2>4. QED
    BY <1>2, <2>2, <2>3 DEF AtCommand, Holding
<1>4. CASE Retry(w)
  <2>1. PICK j \in DOMAIN cmd :
            Bounded({j}) /\ run' = [run EXCEPT ![w] = [Idle EXCEPT !.pc = "next", !.todo = {j}]]
    BY <1>4 DEF Retry
  <2> DEFINE row == [Idle EXCEPT !.pc = "next", !.todo = {j}]
  <2>2. row \in RunRow /\ row.pc = "next" /\ row.todo = {j}
    BY DEF Idle, RunRow, Labels
  <2>3. run' = [run EXCEPT ![w] = row] /\ UNCHANGED cmd /\ run[w].pc = "idle" /\ Bounded(row.todo)
    BY <1>4, <2>1, <2>2 DEF Retry, cvars
  <2> HIDE DEF row
  <2>4. QED
    BY <1>2, <2>2, <2>3 DEF AtCommand, Holding
<1>5. CASE Take(w)
  <2>1. PICK j \in run[w].todo, go \in {"next", "recover", "claim"} :
            run' = [run EXCEPT ![w].pc = go, ![w].todo = @ \ {j}, ![w].key = j,
                               ![w].epoch = cmd[j].epoch]
    BY <1>5 DEF Take
  <2>2. j \in DOMAIN cmd /\ cmd[j].epoch \in Nat /\ run[w].pc = "next"
    BY <1>0, <1>5 DEF RunRow, CommandRow, Take
  <2> DEFINE row == [run[w] EXCEPT !.pc = go, !.todo = @ \ {j}, !.key = j, !.epoch = cmd[j].epoch]
  <2>3. row \in RunRow /\ row.pc = go /\ row.key = j /\ row.todo = run[w].todo \ {j}
    BY <1>0, <2>2 DEF RunRow, Labels
  <2>4. run' = [run EXCEPT ![w] = row] /\ UNCHANGED cmd
    BY <1>5, <2>1 DEF Take, cvars
  <2> HIDE DEF row
  <2>5. \A i \in DOMAIN cmd :
            i \in row.todo \/ (row.pc \in {"claim", "recover", "handBack"} /\ row.key = i)
            => w \in MayClaim(i)
    BY <2>2, <2>3 DEF MayClaim
  <2>6. QED
    BY <1>1, <2>2, <2>3, <2>4, <2>5
<1>6. CASE Claim(w) /\ Claimable(k)
  <2>1. k \in DOMAIN cmd /\ cmd[k].epoch \in Nat /\ run[w].pc = "claim" /\ k \notin run[w].todo
    BY <1>0, <1>6 DEF Claim, AtCommand, CommandRow, ClaimsBounded
  <2>2. cmd' = [cmd EXCEPT ![k] = [status |-> "executing", epoch |-> cmd[k].epoch + 1,
                                   expired |-> FALSE]]
    BY <1>6 DEF Claim, Set
  <2>3. /\ \A v \in Worker \ {w} : run'[v] = run[v]
        /\ run'[w].pc = "bind" /\ run'[w].todo = run[w].todo /\ run'[w].key = k
    BY <1>0, <1>6 DEF Claim, RunRow
  <2>4. ASSUME NEW j \in DOMAIN cmd PROVE cmd'[j].epoch + Cardinality(MayClaim(j)') <= MaxEpoch
    <3>1. MayClaim(j)' \subseteq MayClaim(j)
      BY <2>1, <2>3 DEF MayClaim
    <3>2. cmd[j].epoch \in Nat /\ cmd[j].epoch + Cardinality(MayClaim(j)) <= MaxEpoch
      BY DEF ClaimsBounded, CommandRow
    <3>3. CASE j = k
      <4>1. w \in MayClaim(j) /\ MayClaim(j)' \subseteq MayClaim(j) \ {w}
        BY <2>1, <2>3, <3>1, <3>3 DEF MayClaim
      <4>2. IsFiniteSet(MayClaim(j)) /\ Cardinality(MayClaim(j)) \in Nat
        BY WorkersAreCounted DEF MayClaim
      <4>3. Cardinality(MayClaim(j) \ {w}) = Cardinality(MayClaim(j)) - 1
        BY <4>1, <4>2, FS_RemoveElement
      <4>4. /\ Cardinality(MayClaim(j)') \in Nat
            /\ Cardinality(MayClaim(j)') <= Cardinality(MayClaim(j) \ {w})
        BY <4>1, WorkersAreCounted DEF MayClaim
      <4>5. cmd'[j].epoch = cmd[j].epoch + 1
        BY <2>1, <2>2, <3>3
      <4>6. QED
        BY <3>2, <4>2, <4>3, <4>4, <4>5, WorkersAssumption
    <3>4. CASE j # k
      <4>1. cmd'[j] = cmd[j]
        BY <2>2, <3>4
      <4>2. /\ Cardinality(MayClaim(j)') \in Nat /\ Cardinality(MayClaim(j)) \in Nat
            /\ Cardinality(MayClaim(j)') <= Cardinality(MayClaim(j))
        BY <3>1, WorkersAreCounted DEF MayClaim
      <4>3. QED
        BY <3>2, <4>1, <4>2, WorkersAssumption
    <3>5. QED
      BY <3>3, <3>4
  <2>5. DOMAIN cmd' = DOMAIN cmd
    BY <2>2
  <2>6. QED
    BY <2>1, <2>3, <2>4, <2>5 DEF ClaimsBounded
<1>7. CASE RecoverRead(w)
  <2>1. PICK go \in {"next", "recoverFail", "handBack", "recovered", "claim"} :
            run' = [run EXCEPT ![w].epoch = cmd[k].epoch, ![w].pc = go]
    BY <1>7 DEF RecoverRead, Overdue, OwnLease, Current
  <2> DEFINE row == [run[w] EXCEPT !.epoch = cmd[k].epoch, !.pc = go]
  <2>2. k \in DOMAIN cmd /\ cmd[k].epoch \in Nat /\ run[w].pc = "recover" /\ k \notin run[w].todo
    BY <1>0, <1>7 DEF RecoverRead, AtCommand, CommandRow, ClaimsBounded
  <2>3. row \in RunRow /\ row.pc = go /\ row.key = k /\ row.todo = run[w].todo
    BY <1>0, <2>2 DEF RunRow, Labels
  <2>4. run' = [run EXCEPT ![w] = row] /\ UNCHANGED cmd
    BY <1>7, <2>1 DEF RecoverRead, cvars
  <2> HIDE DEF row
  <2>5. \A i \in DOMAIN cmd :
            i \in row.todo \/ (row.pc \in {"claim", "recover", "handBack"} /\ row.key = i)
            => w \in MayClaim(i)
    BY <2>2, <2>3 DEF MayClaim
  <2>6. QED
    BY <1>1, <2>2, <2>3, <2>4, <2>5
<1>8. CASE WriteStatus(w) \/ Die(w)
  <2>1. Idle \in RunRow /\ Idle.pc = "idle" /\ Idle.pc \notin AtCommand
    BY DEF Idle, RunRow, Labels, AtCommand, Holding
  <2>2. run' = [run EXCEPT ![w] = Idle] /\ UNCHANGED cmd
    BY <1>8 DEF WriteStatus, Die, cvars
  <2>3. QED
    BY <1>1, <2>1, <2>2
<1>9. CASE SumUp(w) \/ Abort(w)
  <2>1. Changed(Summary) \in {"executing", "completed", "failed", "partial", None}
    BY DEF Changed, Summary
  <2>2. PICK result \in {"executing", "completed", "failed", "partial", "confirmed", None} :
            run' = [run EXCEPT ![w].pc = "sum", ![w].result = result]
    BY <1>9, <2>1 DEF SumUp, Abort
  <2> DEFINE row == [run[w] EXCEPT !.pc = "sum", !.result = result]
  <2>3. row \in RunRow /\ row.pc = "sum" /\ row.todo = run[w].todo
    BY <1>0 DEF RunRow, Labels
  <2>4. run' = [run EXCEPT ![w] = row] /\ UNCHANGED cmd /\ run[w].pc \in {"next", "abort"}
    BY <1>9, <2>2 DEF SumUp, Abort, cvars
  <2> HIDE DEF row
  <2>5. \A i \in DOMAIN cmd : i \in row.todo => w \in MayClaim(i)
    BY <2>3, <2>4 DEF MayClaim
  <2>6. QED
    BY <1>1, <2>3, <2>4, <2>5 DEF AtCommand, Holding
\* The other steps change where it is, and perhaps the row of its command.
<1>10. ASSUME GoesOn(w), ~At(w, "idle"),
              run'[w].pc \in {"claim", "recover", "handBack"} =>
                  run[w].pc \in {"claim", "recover", "handBack"}
       PROVE  ClaimsBounded'
  <2>1. PICK label \in Labels : /\ Goto(w, label)
                                /\ label \in AtCommand => run[w].pc \in AtCommand
    BY <1>10 DEF GoesOn
  <2> DEFINE row == [run[w] EXCEPT !.pc = label]
  <2>2. /\ row \in RunRow /\ row.pc = label /\ row.todo = run[w].todo /\ row.key = k
        /\ run' = [run EXCEPT ![w] = row] /\ run'[w] = row
    BY <1>0, <2>1 DEF RunRow, Goto
  <2> HIDE DEF row
  <2>3. DOMAIN cmd' = DOMAIN cmd /\ \A j \in DOMAIN cmd : cmd'[j].epoch = cmd[j].epoch
    BY <1>0, <1>10 DEF GoesOn, Set
  <2>4. \A j \in DOMAIN cmd :
            j \in row.todo \/ (row.pc \in {"claim", "recover", "handBack"} /\ row.key = j)
            => w \in MayClaim(j)
    BY <1>10, <2>2 DEF MayClaim
  <2>5. QED
    BY <1>1, <2>1, <2>2, <2>3, <2>4 DEF ClaimsBounded
<1>11. run[w].pc \in Labels /\ \A label \in Labels : Goto(w, label) => run'[w].pc = label
  BY <1>0 DEF RunRow, Goto
<1>12. CASE Claim(w) /\ ~Claimable(k)
  <2>1. GoesOn(w)
    BY <1>12 DEF Claim, GoesOn, Labels, Holding, AtCommand
  <2>2. QED
    BY <1>10, <1>12, <2>1 DEF Claim
<1>13. CASE Mark(w) \/ Bind(w) \/ WorkFails(w) \/ Check(w)
  <2>1. GoesOn(w)
    BY <1>13 DEF Mark, Bind, WorkFails, Check, GoesOn, Goto, Labels, Holding, AtCommand, cvars
  <2>2. \E label \in {"next", "check", "insert", "fail", "receipt"} : Goto(w, label)
    BY <1>13 DEF Mark, Bind, WorkFails, Check, Goto
  <2>3. QED
    BY <1>10, <1>11, <1>13, <2>1, <2>2 DEF Mark, Bind, WorkFails, Check, Labels, Holding
<1>14. CASE Fail(w) \/ Receipt(w) \/ Unauthorized(w) \/ Insert(w)
  <2>0. \A s \in {"pending", "completed", "failed"} :
            run[w].pc \in AtCommand =>
                Released(k, s) \in CommandRow /\ Released(k, s).epoch = cmd[k].epoch
    BY <1>0 DEF Released, CommandRow
  <2>1. GoesOn(w)
    BY <1>0, <1>14, <2>0 DEF Fail, Receipt, Unauthorized, Insert, GoesOn, Labels, Holding, AtCommand
  <2>2. \E label \in {"next", "abort", "check", "fail"} : Goto(w, label)
    BY <1>14 DEF Fail, Receipt, Unauthorized, Insert
  <2>3. QED
    BY <1>10, <1>11, <1>14, <2>1, <2>2 DEF Fail, Receipt, Unauthorized, Insert, Labels, Holding
<1>15. CASE RecoverWrite(w)
  <2>0. \A s \in {"pending", "completed", "failed"} :
            run[w].pc \in AtCommand =>
                Released(k, s) \in CommandRow /\ Released(k, s).epoch = cmd[k].epoch
    BY <1>0 DEF Released, CommandRow
  <2>1. GoesOn(w)
    BY <1>0, <1>15, <2>0 DEF RecoverWrite, GoesOn, Set, Labels, Holding, AtCommand
  <2>2. IF run[w].pc = "handBack" THEN Goto(w, "claim") ELSE Goto(w, "next")
    BY <1>15 DEF RecoverWrite
  <2>3. QED
    BY <1>10, <1>11, <1>15, <2>1, <2>2 DEF RecoverWrite, Labels, Holding
<1>16. QED
  BY <1>3, <1>4, <1>5, <1>6, <1>7, <1>8, <1>9, <1>12, <1>13, <1>14, <1>15 DEF Work

LEMMA SurroundingsKeepClaims ==
    ASSUME ExecInv, ClaimsBounded, Expire \/ OtherIntake
    PROVE  ClaimsBounded'
<1>1. UNCHANGED run /\ DOMAIN cmd' = DOMAIN cmd /\ \A k \in DOMAIN cmd : cmd'[k].epoch = cmd[k].epoch
  BY DEF ExecInv, ExecTypes, CommandRow, Expire, OtherIntake, Set
<1>2. \A k : MayClaim(k)' = MayClaim(k)
  BY <1>1 DEF MayClaim, At
<1>3. QED
  BY <1>1, <1>2, FewerMayClaim DEF ClaimsBounded, ExecInv

-----------------------------------------------------------------------------
(* The desk.                                                                *)

Text == Content \cup {None}
CandidateStatus == {"none", "pending_review", "confirmed", "executed", "rejected"}

CandidateRow ==
    [status : CandidateStatus, version : 0 .. scene.versions, content : Text,
     photos : SUBSET photos, match : Text, byUser : BOOLEAN]

RowOK(row) ==
    row \in CandidateRow /\ (row.status # "none" => row.photos # {} /\ row.content \in Content)

\* What a request has read.
ReadOK(x) ==
    /\ x.kind = "upload" => x.add \subseteq Photo
    /\ x.kind \in {"update", "split"} =>
          /\ x.c \in Candidate /\ RowOK(x.old)
          /\ x.old.status \in {"pending_review", "confirmed"}
    /\ x.kind = "split" => x.old.status = "pending_review"
    /\ x.kind = "preview" =>
          /\ DOMAIN x.found \subseteq Candidate
          /\ \A c \in DOMAIN x.found : x.found[c] \in Text

ItemStatus == {"draft", "in_review", "confirmed", "executing", "completed", "partial", "failed"}

DeskTypes ==
    /\ item \in ItemStatus
    /\ photos \subseteq Photo
    /\ cand \in [Candidate -> CandidateRow]
    /\ \A c \in Candidate : RowOK(cand[c])
    /\ \A k \in DOMAIN cmd : 
          /\ k.cand \in Candidate /\ k.version \in Nat /\ k.content \in Content
          /\ cand[k.cand].status # "none"
    /\ DOMAIN tab = Tab
    /\ \A t \in Tab : tab[t] # None => ReadOK(tab[t])

\* Where the owner has one tab and nothing is carried out, no request of his is overtaken.
Decided ==
    OneTab /\ scene.workers = {} =>
        /\ In("executed") = {}
        /\ \A k \in DOMAIN cmd :
              /\ cmd[k].status \in {"pending", "superseded"}
              /\ k.version <= cand[k.cand].version
              /\ k.version = cand[k.cand].version => cand[k.cand].status = "confirmed"
        /\ ConfirmedAsDecided
        /\ \A c, d \in In("confirmed") : c # d => cand[c].photos \cap cand[d].photos = {}
        /\ \A t \in scene.tabs : tab[t] # None =>
              /\ tab[t].kind \in {"update", "split"} => cand[tab[t].c] = tab[t].old
              /\ tab[t].kind = "preview" =>
                    \A c \in DOMAIN tab[t].found : cand[c].status = "pending_review"

\* The requests of a tab, with whatever the page or another client puts into an edit.
DeskMove(t) ==
    \/ UploadRead(t) \/ UploadWrite(t)
    \/ \E protect, byUser \in BOOLEAN : Build(t, protect, byUser)
    \/ EditRead(t)
    \/ \E given \in BOOLEAN, x \in Content, P \in (SUBSET photos) \ {{}} : UpdateTo(t, given, x, P)
    \/ SplitWrite(t) \/ PreviewRead(t) \/ PreviewWrite(t)
    \/ \E S : ConfirmThese(t, S)

\* Reads are forgotten, or go over to another tab.
TabsMove ==
    /\ UNCHANGED <<item, photos, cand, cmd>>
    /\ DOMAIN tab' = DOMAIN tab
    /\ \A t \in DOMAIN tab : tab'[t] = None \/ \E s \in {t} \cup (DOMAIN tab \cap scene.tabs) : tab'[t] = tab[s]

LEMMA DeskIsMove ==
    ASSUME scene \in Scenes, DeskTypes, NEW t \in Tab, Desk(t)
    PROVE  DeskMove(t) \/ TabsMove
<1>1. CASE Drop(t)
  BY <1>1 DEF Drop, TabsMove, DeskTypes
<1>2. CASE UpdateWrite(t)
  <2>1. PICK given \in BOOLEAN, P \in (SUBSET photos) \ {{}} :
          \E x \in IF given THEN scene.contents ELSE {tab[t].old.content} : UpdateTo(t, given, x, P)
    BY <1>2 DEF UpdateWrite
  <2>2. PICK x \in IF given THEN scene.contents ELSE {tab[t].old.content} : UpdateTo(t, given, x, P)
    BY <2>1
  <2>3. x \in Content
    BY <2>2, SceneAssumption DEF UpdateTo, Asked, DeskTypes, ReadOK, RowOK, CandidateRow, CandidateStatus
  <2>4. QED
    BY <2>1, <2>2, <2>3 DEF DeskMove
<1>3. CASE Confirm(t)
  BY <1>3 DEF Confirm, DeskMove
<1>4. QED
  BY <1>1, <1>2, <1>3 DEF Desk, DeskMove, Recognize

\* Rows stay rows when photos come in; ids that are given are free.
LEMMA RowsStay ==
    ASSUME UNCHANGED scene, photos \subseteq photos', NEW row, RowOK(row)
    PROVE  RowOK(row)'
BY DEF RowOK, CandidateRow

LEMMA ReadsStay ==
    ASSUME UNCHANGED scene, photos \subseteq photos', NEW x, ReadOK(x)
    PROVE  ReadOK(x)'
BY RowsStay DEF ReadOK

LEMMA FreshIsFree ==
    ASSUME scene \in Scenes, DeskTypes, NEW n, NEW c \in FreshIds(n)
    PROVE  c \in Candidate /\ cand[c].status = "none"
<1>1. c \in scene.candidates /\ \A d \in Candidate \ In("none") : d < c
  BY DEF FreshIds, Above
<1>2. c \in Candidate /\ c \in Nat
  BY <1>1, SceneAssumption, CandidateAssumption
<1>3. c \in In("none")
  BY <1>1, <1>2
<1>4. QED
  BY <1>3 DEF In

LEMMA TypesKept ==
    ASSUME DeskTypes, UNCHANGED scene, item' \in ItemStatus, photos \subseteq photos', photos' \subseteq Photo,
           DOMAIN cand' = Candidate, cand' = [c \in Candidate |-> cand'[c]],
           \A c \in Candidate : RowOK(cand[c])',
           \A k \in DOMAIN cmd' : k.cand \in Candidate /\ k.version \in Nat /\ k.content \in Content /\ cand'[k.cand].status # "none",
           DOMAIN tab' = Tab,
           \A t \in Tab : tab'[t] = None \/ tab'[t] = tab[t] \/ ReadOK(tab[t])'
    PROVE  DeskTypes'
<1>1. cand' \in [Candidate -> CandidateRow']
  BY DEF RowOK
<1>2. ASSUME NEW t \in Tab, tab'[t] # None PROVE ReadOK(tab[t])'
  BY <1>2, ReadsStay DEF DeskTypes, ReadOK, RowOK, CandidateRow
<1>3. QED
  BY <1>1, <1>2 DEF DeskTypes

\* Reading and forgetting leaves everything to the reads.
LEMMA ReadingKeeps ==
    ASSUME scene \in Scenes, DeskTypes, Decided, UNCHANGED scene,
           UNCHANGED <<cand, cmd>>, item' \in ItemStatus, photos \subseteq photos', photos' \subseteq Photo,
           DOMAIN tab' = Tab,
           \A t \in Tab : \/ tab'[t] = None
                          \/ \E s \in {t} \cup (Tab \cap scene.tabs) : tab'[t] = tab[s] /\ tab[s] # None
                          \/ /\ ReadOK(tab[t])'
                             /\ tab'[t].kind \in {"update", "split"} => cand[tab'[t].c] = tab'[t].old
                             /\ tab'[t].kind = "preview" =>
                                    \A c \in DOMAIN tab'[t].found : cand[c].status = "pending_review"
    PROVE  DeskTypes' /\ Decided'
<1>1. DeskTypes'
  <2>1. \A c \in Candidate : RowOK(cand[c])'
    BY RowsStay DEF DeskTypes
  <2>2. cand' = [c \in Candidate |-> cand'[c]] /\ DOMAIN cand' = Candidate
    BY DEF DeskTypes
  <2>3. cand' \in [Candidate -> CandidateRow']
    BY <2>1, <2>2 DEF RowOK
  <2>4. ASSUME NEW t \in Tab, tab'[t] # None PROVE ReadOK(tab[t])'
    <3>1. CASE \E s \in {t} \cup (Tab \cap scene.tabs) : tab'[t] = tab[s] /\ tab[s] # None
      <4>1. PICK s \in Tab : tab'[t] = tab[s] /\ tab[s] # None
        BY <3>1
      <4>2. ReadOK(tab[s])
        BY <4>1 DEF DeskTypes
      <4>3. QED
        BY <4>1, <4>2, RowsStay DEF ReadOK
    <3>2. QED
      BY <2>4, <3>1
  <2>5. QED
    BY <2>1, <2>3, <2>4 DEF DeskTypes
<1>2. Decided'
  <2>1. SUFFICES ASSUME OneTab, scene.workers = {} PROVE Decided'
    BY DEF Decided, OneTab
  <2>2. ASSUME NEW t \in scene.tabs, tab'[t] # None
        PROVE  /\ tab'[t].kind \in {"update", "split"} => cand[tab'[t].c] = tab'[t].old
               /\ tab'[t].kind = "preview" =>
                      \A c \in DOMAIN tab'[t].found : cand[c].status = "pending_review"
    <3>1. t \in Tab
      BY SceneAssumption
    <3>2. CASE \E s \in {t} \cup (Tab \cap scene.tabs) : tab'[t] = tab[s] /\ tab[s] # None
      <4>1. PICK s \in scene.tabs : tab'[t] = tab[s] /\ tab[s] # None
        BY <3>2
      <4>2. QED
        BY <2>1, <4>1 DEF Decided
    <3>3. QED
      BY <2>2, <3>1, <3>2
  <2>3. QED
    BY <2>1, <2>2 DEF Decided, In, ConfirmedAsDecided, Key
<1>3. QED
  BY <1>1, <1>2

LEMMA TabsMoveKeeps ==
    ASSUME scene \in Scenes, DeskTypes, Decided, UNCHANGED scene, TabsMove
    PROVE  DeskTypes' /\ Decided'
<1>1. \A t \in Tab : \/ tab'[t] = None
                     \/ \E s \in {t} \cup (Tab \cap scene.tabs) : tab'[t] = tab[s] /\ tab[s] # None
  BY DEF TabsMove, DeskTypes
<1>2. QED
  BY <1>1, ReadingKeeps DEF TabsMove, DeskTypes

LEMMA ReadsKeep ==
    ASSUME scene \in Scenes, DeskTypes, Decided, UNCHANGED scene, NEW t \in Tab,
           UploadRead(t) \/ UploadWrite(t) \/ EditRead(t) \/ PreviewRead(t)
    PROVE  DeskTypes' /\ Decided'
<1>1. DOMAIN tab' = Tab /\ \A s \in Tab \ {t} : tab'[s] = tab[s]
  BY DEF DeskTypes, UploadRead, UploadWrite, EditRead, PreviewRead, Open
<1>2. UNCHANGED <<cand, cmd>>
  BY DEF UploadRead, UploadWrite, EditRead, PreviewRead
<1>3. item' \in ItemStatus /\ photos \subseteq photos' /\ photos' \subseteq Photo
  BY DEF UploadRead, UploadWrite, EditRead, PreviewRead, DeskTypes, ItemStatus, Asked, ReadOK
<1>4. \/ tab'[t] = None
      \/ /\ ReadOK(tab[t])'
         /\ tab'[t].kind \in {"update", "split"} => cand[tab'[t].c] = tab'[t].old
         /\ tab'[t].kind = "preview" =>
                \A c \in DOMAIN tab'[t].found : cand[c].status = "pending_review"
  <2>1. CASE UploadRead(t)
    <3>1. PICK P \in (SUBSET (scene.photos \ photos)) \ {{}} :
              tab' = [tab EXCEPT ![t] = [kind |-> "upload", add |-> P, draft |-> item = "draft"]]
      BY <2>1 DEF UploadRead
    <3>2. tab'[t] = [kind |-> "upload", add |-> P, draft |-> item = "draft"]
      BY <3>1 DEF DeskTypes
    <3>3. P \subseteq Photo
      BY SceneAssumption
    <3>4. QED
      BY <3>2, <3>3 DEF ReadOK
  <2>2. CASE UploadWrite(t)
    BY <2>2 DEF UploadWrite, DeskTypes
  <2>3. CASE EditRead(t)
    <3>1. PICK c \in Candidate, kind \in {"update", "split"} :
              /\ cand[c].status \in {"pending_review", "confirmed"}
              /\ kind = "split" => cand[c].status = "pending_review"
              /\ tab' = [tab EXCEPT ![t] = [kind |-> kind, c |-> c, old |-> cand[c]]]
      BY <2>3 DEF EditRead, Open
    <3>2. tab'[t] = [kind |-> kind, c |-> c, old |-> cand[c]]
      BY <3>1 DEF DeskTypes
    <3>3. RowOK(cand[c])'
      BY <1>2, <1>3, RowsStay DEF DeskTypes
    <3>4. (RowOK(cand[c]))' /\ tab'[t].old = cand'[c]
      BY <1>2, <3>2, <3>3
    <3>5. QED
      BY <1>2, <3>1, <3>2, <3>4 DEF ReadOK, RowOK, CandidateRow
  <2>4. CASE PreviewRead(t)
    <3> DEFINE found == [c \in In("pending_review") |->
                            IF library[cand[c].content] > 0 THEN cand[c].content ELSE None]
    <3>1. tab'[t].kind = "preview" /\ tab'[t].found = found
      BY <2>4 DEF PreviewRead, DeskTypes
    <3>2. \A c \in DOMAIN found : c \in Candidate /\ cand[c].status = "pending_review" /\ found[c] \in Text
      BY DEF DeskTypes, RowOK, CandidateRow, Text, In
    <3> HIDE DEF found
    <3>3. QED
      BY <3>1, <3>2 DEF ReadOK
  <2>5. QED
    BY <2>1, <2>2, <2>3, <2>4
<1>5. \A s \in Tab \ {t} : tab'[s] = None \/ \E u \in {s} \cup (Tab \cap scene.tabs) : tab'[s] = tab[u] /\ tab[u] # None
  BY <1>1
<1>6. QED
  BY <1>1, <1>2, <1>3, <1>4, <1>5, ReadingKeeps

LEMMA BuildKeeps ==
    ASSUME scene \in Scenes, DeskTypes, Decided, UNCHANGED scene, NEW t \in scene.tabs,
           NEW protect \in BOOLEAN, NEW byUser \in BOOLEAN, Build(t, protect, byUser)
    PROVE  DeskTypes' /\ Decided'
<1> DEFINE edited == IF protect THEN Authored ELSE {}
           stale  == In("pending_review") \ edited
           free   == photos \ (KeptPhotos \cup UNION {cand[c].photos : c \in edited})
<1> DEFINE Row(g, x, c) == [status |-> "pending_review", version |-> 1, content |-> x[c],
                            photos |-> {p \in free : g[p] = c}, match |-> None,
                            byUser |-> byUser]
           Rows(n, g, x) == [c \in Candidate |->
                CASE c \in FreshIds(n) -> Row(g, x, c)
                  [] c \in stale /\ Referenced(c) -> [cand[c] EXCEPT !.status = "rejected"]
                  [] c \in stale /\ ~Referenced(c) -> NoCandidate
                  [] OTHER -> cand[c]]
<1>1. PICK n \in 0 .. Cardinality(free) :
       \E group \in [free -> FreshIds(n)], x \in [FreshIds(n) -> scene.contents] :
          /\ Cardinality(FreshIds(n)) = n
          /\ {group[p] : p \in free} = FreshIds(n)
          /\ cand' = Rows(n, group, x)
  BY Zenon DEF Build
<1> HIDE DEF Rows
<1>2. PICK group \in [free -> FreshIds(n)], x \in [FreshIds(n) -> scene.contents] :
          /\ {group[p] : p \in free} = FreshIds(n)
          /\ cand' = Rows(n, group, x)
  BY <1>1
<1>3. /\ tab[t] = None /\ UNCHANGED <<photos, tab>>
      /\ cmd' = Supersede({k \in DOMAIN cmd : k.cand \in stale})
      /\ item' = IF item = "draft" THEN "in_review" ELSE item
  BY DEF Build
<1>4. \A c \in stale : c \in Candidate /\ cand[c].status = "pending_review"
  BY DEF In
<1>5. free \subseteq photos
  OBVIOUS
<1> HIDE DEF stale, free, Row
<1>6. DOMAIN cand' = Candidate /\ \A c \in Candidate : cand'[c] =
                CASE c \in FreshIds(n) -> Row(group, x, c)
                  [] c \in stale /\ Referenced(c) -> [cand[c] EXCEPT !.status = "rejected"]
                  [] c \in stale /\ ~Referenced(c) -> NoCandidate
                  [] OTHER -> cand[c]
  BY <1>2 DEF Rows
<1>7. \A c \in FreshIds(n) : c \in Candidate /\ cand[c].status = "none" /\ c \notin stale
  BY <1>4, FreshIsFree
\* What becomes of a row.
<1>8. ASSUME NEW c \in Candidate
      PROVE  /\ RowOK(cand[c])'
             /\ c \in FreshIds(n) => cand'[c].status = "pending_review"
             /\ c \in stale /\ Referenced(c) => cand'[c].status = "rejected" /\ cand'[c].version = cand[c].version
             /\ c \in stale => cand'[c].status \in {"rejected", "none"}
             /\ c \notin stale /\ c \notin FreshIds(n) => cand'[c] = cand[c]
  <2>1. RowOK(cand[c]) /\ cand[c] \in CandidateRow
    BY DEF DeskTypes
  <2>2. CASE c \in FreshIds(n)
    <3> DEFINE row == Row(group, x, c)
    <3>1. cand'[c] = row
      BY <1>7, <1>6, <2>2
    <3>2. scene.versions \in Nat \ {0} /\ x[c] \in Content
      BY <2>2, SceneAssumption
    <3>3. row.photos \subseteq photos /\ row.photos # {}
      BY <1>2, <1>5, <2>2 DEF Row
    <3>4. row \in CandidateRow
      BY <3>2, <3>3 DEF Row, CandidateRow, Text, CandidateStatus
    <3>6. row.status = "pending_review" /\ row.content \in Content
      BY <3>2 DEF Row
    <3> HIDE DEF row
    <3>5. (RowOK(cand[c]))'
      BY <1>3, <3>1, <3>3, <3>4, <3>6 DEF RowOK, CandidateRow
    <3>7. QED
      BY <1>7, <2>2, <3>1, <3>5, <3>6
  <2>3. CASE c \in stale /\ Referenced(c)
    <3>1. cand'[c] = [cand[c] EXCEPT !.status = "rejected"]
      BY <1>6, <1>7, <2>3
    <3>2. cand'[c] \in CandidateRow /\ cand'[c].photos = cand[c].photos /\ cand'[c].version = cand[c].version
          /\ cand'[c].content = cand[c].content /\ cand'[c].status = "rejected"
      BY <2>1, <3>1 DEF CandidateRow, CandidateStatus
    <3>3. cand[c].photos # {} /\ cand[c].content \in Content
      BY <1>4, <2>1, <2>3 DEF RowOK
    <3>4. (RowOK(cand[c]))'
      BY <1>3, <3>2, <3>3 DEF RowOK, CandidateRow
    <3>5. QED
      BY <1>7, <2>3, <3>2, <3>4
  <2>4. CASE c \in stale /\ ~Referenced(c)
    <3>1. cand'[c] = NoCandidate
      BY <1>6, <1>7, <2>4
    <3>2. scene.versions \in Nat
      BY SceneAssumption
    <3>3. NoCandidate \in CandidateRow /\ NoCandidate.status = "none"
      BY <3>2 DEF NoCandidate, CandidateRow, CandidateStatus, Text
    <3>4. (RowOK(cand[c]))'
      BY <1>3, <3>1, <3>3 DEF RowOK, CandidateRow
    <3>5. QED
      BY <1>7, <2>4, <3>1, <3>3, <3>4
  <2>5. CASE c \notin stale /\ c \notin FreshIds(n)
    <3>1. cand'[c] = cand[c]
      BY <1>6, <2>5
    <3>2. (RowOK(cand[c]))'
      BY <1>3, <2>1, <3>1 DEF RowOK, CandidateRow
    <3>3. QED
      BY <2>5, <3>1, <3>2
  <2>6. QED
    BY <2>2, <2>3, <2>4, <2>5
<1>9. \A k \in DOMAIN cmd : k.cand \in Candidate /\ k.cand \notin FreshIds(n) /\ Referenced(k.cand)
  BY <1>7 DEF DeskTypes, Referenced
<1>10. /\ DOMAIN cmd' = DOMAIN cmd
      /\ \A k \in DOMAIN cmd : cmd[k].status \in {"pending", "superseded"} =>
                                   cmd'[k].status \in {"pending", "superseded"}
  BY <1>3 DEF Supersede
<1>11. DeskTypes'
  <2>1. \A k \in DOMAIN cmd' : k.cand \in Candidate /\ k.version \in Nat /\ k.content \in Content /\ cand'[k.cand].status # "none"
    BY <1>8, <1>9, <1>10 DEF DeskTypes
  <2>2. item' \in ItemStatus
    BY <1>3 DEF DeskTypes, ItemStatus
  <2>3. DOMAIN cand' = Candidate /\ cand' = [c \in Candidate |-> cand'[c]]
    BY <1>2, <1>6 DEF Rows
  <2>4. QED
    BY <1>3, <1>8, <2>1, <2>2, <2>3, TypesKept DEF DeskTypes
<1>12. Decided'
  <2>1. SUFFICES ASSUME OneTab, scene.workers = {} PROVE Decided'
    BY DEF Decided, OneTab
  <2>2. \A c \in Candidate : cand'[c].status \in {"confirmed", "executed"} =>
            cand'[c] = cand[c] /\ c \notin stale
    BY <1>8
  <2>3. In("executed")' = {}
    BY <2>1, <2>2 DEF Decided, In
  <2>4. ASSUME NEW k \in DOMAIN cmd'
        PROVE  /\ cmd'[k].status \in {"pending", "superseded"}
               /\ k.version <= cand'[k.cand].version
               /\ k.version = cand'[k.cand].version => cand'[k.cand].status = "confirmed"
    <3>1. cand'[k.cand] = cand[k.cand] \/ (k.cand \in stale /\ cand'[k.cand].version = cand[k.cand].version)
      BY <1>8, <1>9, <1>10
    <3>2. QED
      BY <1>4, <1>10, <2>1, <3>1 DEF Decided
  <2>5. ConfirmedAsDecided'
    BY <1>10, <2>1, <2>2 DEF Decided, ConfirmedAsDecided, In, Key
  <2>6. \A c, d \in In("confirmed")' : c # d => cand'[c].photos \cap cand'[d].photos = {}
    BY <2>1, <2>2 DEF Decided, In
  <2>7. \A s \in scene.tabs : tab'[s] = None
    BY <1>3, <2>1 DEF OneTab
  <2>8. QED
    BY <2>3, <2>4, <2>5, <2>6, <2>7 DEF Decided, In
<1>13. QED
  BY <1>11, <1>12

\* A write of columns to the rows C of candidates that are not confirmed afterwards.
LEMMA RowsWritten ==
    ASSUME scene \in Scenes, DeskTypes, Decided, UNCHANGED <<scene, item, photos, cmd>>, NEW t \in scene.tabs,
           tab' = [tab EXCEPT ![t] = None], cand' \in [Candidate -> CandidateRow],
           \A c \in Candidate : RowOK(cand'[c]) /\ (cand[c].status # "none" => cand'[c].status # "none"),
           OneTab /\ scene.workers = {} =>
               \A c \in Candidate :
                   \/ cand'[c] = cand[c]
                   \/ cand[c].status = "none" /\ cand'[c].status = "pending_review"
                   \/ /\ cand'[c].status = "pending_review"
                      /\ \/ cand'[c].version = cand[c].version + 1
                         \/ cand[c].status = "pending_review" /\ cand'[c].version = cand[c].version
    PROVE  DeskTypes' /\ Decided'
<1>1. t \in Tab
  BY SceneAssumption
<1>2. DeskTypes'
  <2>1. \A c \in Candidate : RowOK(cand[c])'
    BY DEF RowOK, CandidateRow
  <2>2. QED
    BY <1>1, <2>1, TypesKept DEF DeskTypes
<1>3. Decided'
  <2>1. SUFFICES ASSUME OneTab, scene.workers = {} PROVE Decided'
    BY DEF Decided, OneTab
  <2>2. \A c \in Candidate : cand'[c].status \in {"confirmed", "executed"} => cand'[c] = cand[c]
    BY <2>1
  <2>3. In("executed")' = {}
    BY <2>1, <2>2 DEF Decided, In
  <2>4. ASSUME NEW k \in DOMAIN cmd'
        PROVE  /\ cmd'[k].status \in {"pending", "superseded"}
               /\ k.version <= cand'[k.cand].version
               /\ k.version = cand'[k.cand].version => cand'[k.cand].status = "confirmed"
    <3>1. /\ k.cand \in Candidate /\ k.version \in Nat /\ cand[k.cand].status # "none" /\ cand[k.cand].version \in Nat
          /\ cmd[k].status \in {"pending", "superseded"} /\ k.version <= cand[k.cand].version
          /\ k.version = cand[k.cand].version => cand[k.cand].status = "confirmed"
      BY <2>1 DEF DeskTypes, CandidateRow, RowOK, Decided
    <3>2. \/ cand'[k.cand] = cand[k.cand]
          \/ cand'[k.cand].version = cand[k.cand].version + 1
          \/ cand[k.cand].status = "pending_review" /\ cand'[k.cand].version = cand[k.cand].version
      BY <2>1, <3>1
    <3>3. CASE cand'[k.cand].version = cand[k.cand].version + 1
      BY <3>1, <3>3
    <3>4. CASE cand'[k.cand].version # cand[k.cand].version + 1
      BY <3>1, <3>2, <3>4
    <3>5. QED
      BY <3>3, <3>4
  <2>5. ConfirmedAsDecided'
    BY <2>1, <2>2 DEF Decided, ConfirmedAsDecided, In, Key
  <2>6. \A c, d \in In("confirmed")' : c # d => cand'[c].photos \cap cand'[d].photos = {}
    BY <2>1, <2>2 DEF Decided, In
  <2>7. \A s \in scene.tabs : tab'[s] = None
    BY <1>1, <2>1 DEF OneTab, DeskTypes
  <2>8. QED
    BY <2>3, <2>4, <2>5, <2>6, <2>7 DEF Decided, In
<1>4. QED
  BY <1>2, <1>3

LEMMA UpdateKeeps ==
    ASSUME scene \in Scenes, DeskTypes, Decided, UNCHANGED scene, NEW t \in scene.tabs,
           NEW given \in BOOLEAN, NEW x \in Content, NEW P \in (SUBSET photos) \ {{}}, UpdateTo(t, given, x, P)
    PROVE  DeskTypes' /\ Decided'
<1> DEFINE c == tab[t].c
           old == tab[t].old
           row == [status  |-> Column(old.status, Reviewed(old.status), cand[c].status),
                   version |-> Edited(old.version),
                   content |-> Column(old.content, x, cand[c].content),
                   photos  |-> Column(old.photos, P, cand[c].photos),
                   match   |-> IF given THEN Column(old.match, None, cand[c].match) ELSE cand[c].match,
                   byUser  |-> TRUE]
<1>1. t \in Tab
  BY SceneAssumption
<1>2. /\ Asked(t, "update") /\ cand[c].status # "none" /\ old.version < scene.versions
      /\ cand' = [cand EXCEPT ![c] = row]
      /\ tab' = [tab EXCEPT ![t] = None] /\ UNCHANGED <<item, photos, cmd>>
  BY DEF UpdateTo
<1>3. /\ c \in Candidate /\ RowOK(old) /\ old \in CandidateRow
      /\ old.status \in {"pending_review", "confirmed"}
  BY <1>1, <1>2 DEF Asked, DeskTypes, ReadOK, RowOK
<1>4. cand[c] \in CandidateRow /\ RowOK(cand[c])
  BY <1>3 DEF DeskTypes
<1>5. scene.versions \in Nat
  BY SceneAssumption
<1>6. row.status \in {"pending_review", cand[c].status} /\ row.version = old.version + 1
  BY <1>3 DEF Column, Reviewed, Edited
<1>7. row.photos \in SUBSET photos /\ row.photos # {}
  BY <1>2, <1>4 DEF Column, RowOK, CandidateRow
<1>8. row.content \in Content /\ row.match \in Text
  BY <1>2, <1>4 DEF Column, RowOK, CandidateRow, Text
<1>9. row.version \in 0 .. scene.versions
  BY <1>2, <1>3, <1>5, <1>6 DEF CandidateRow
<1>10. row.status \in CandidateStatus /\ row.status # "none"
  BY <1>2, <1>4, <1>6 DEF CandidateStatus, CandidateRow
<1>11. RowOK(row) /\ row \in CandidateRow
  <2>1. row \in CandidateRow
    BY <1>7, <1>8, <1>9, <1>10 DEF CandidateRow, Text
  <2>2. QED
    BY <1>7, <1>8, <2>1 DEF RowOK
<1>12. cand[c] = old => row.status = "pending_review"
  BY <1>3 DEF Column, Reviewed
<1> HIDE DEF row
<1>13. DOMAIN cand = Candidate /\ \A d \in Candidate : cand'[d] = IF d = c THEN row ELSE cand[d]
  BY <1>2 DEF DeskTypes
<1>14. cand' \in [Candidate -> CandidateRow]
  BY <1>2, <1>11 DEF DeskTypes
<1>15. \A d \in Candidate : RowOK(cand'[d]) /\ (cand[d].status # "none" => cand'[d].status # "none")
  BY <1>10, <1>11, <1>13 DEF DeskTypes
<1>16. OneTab /\ scene.workers = {} => cand[c] = old
  BY <1>2 DEF Decided, Asked
<1>17. OneTab /\ scene.workers = {} =>
           \A d \in Candidate :
               \/ cand'[d] = cand[d]
               \/ cand'[d].status = "pending_review" /\ cand'[d].version = cand[d].version + 1
  BY <1>6, <1>12, <1>13, <1>16
<1> HIDE DEF c, old
<1>18. QED
  BY <1>2, <1>14, <1>15, <1>17, RowsWritten

LEMMA SplitKeeps ==
    ASSUME scene \in Scenes, DeskTypes, Decided, UNCHANGED scene, NEW t \in scene.tabs, SplitWrite(t)
    PROVE  DeskTypes' /\ Decided'
<1> DEFINE c == tab[t].c
           old == tab[t].old
<1>1. t \in Tab
  BY SceneAssumption
<1>2. /\ Asked(t, "split") /\ cand[c].status # "none" /\ old.version < scene.versions
      /\ \E P \in (SUBSET old.photos) \ {{}, old.photos}, d \in FreshIds(1) :
            cand' = [cand EXCEPT
                ![d] = [old EXCEPT !.version = 1, !.photos = P, !.match = None],
                ![c] = [@ EXCEPT !.version = old.version + 1, !.photos = old.photos \ P]]
      /\ tab' = [tab EXCEPT ![t] = None] /\ UNCHANGED <<item, photos, cmd>>
  BY DEF SplitWrite
<1>3. /\ c \in Candidate /\ RowOK(old) /\ old \in CandidateRow
      /\ old.status = "pending_review"
  BY <1>1, <1>2 DEF Asked, DeskTypes, ReadOK, RowOK
<1>4. cand[c] \in CandidateRow /\ RowOK(cand[c])
  BY <1>3 DEF DeskTypes
<1>5. scene.versions \in Nat \ {0}
  BY SceneAssumption
<1>6. PICK P \in (SUBSET old.photos) \ {{}, old.photos}, d \in FreshIds(1) :
            cand' = [cand EXCEPT
                ![d] = [old EXCEPT !.version = 1, !.photos = P, !.match = None],
                ![c] = [@ EXCEPT !.version = old.version + 1, !.photos = old.photos \ P]]
  BY <1>2
<1>7. d \in Candidate /\ cand[d].status = "none" /\ d # c
  BY <1>2, FreshIsFree
<1> DEFINE part == [old EXCEPT !.version = 1, !.photos = P, !.match = None]
           rest == [cand[c] EXCEPT !.version = old.version + 1, !.photos = old.photos \ P]
<1>8. DOMAIN cand = Candidate /\ DOMAIN cand' = Candidate
      /\ \A b \in Candidate : cand'[b] = IF b = d THEN part ELSE IF b = c THEN rest ELSE cand[b]
  BY <1>3, <1>6, <1>7 DEF DeskTypes
<1>9. part \in CandidateRow /\ RowOK(part) /\ part.status = "pending_review"
  <2>0. P \in SUBSET photos /\ 1 \in 0 .. scene.versions /\ None \in Text
    BY <1>3, <1>5, <1>6 DEF CandidateRow, Text
  <2>1. part \in CandidateRow
    BY <1>3, <2>0 DEF CandidateRow
  <2>2. part.photos = P /\ part.status = "pending_review" /\ part.content \in Content
    BY <1>3 DEF CandidateRow, RowOK
  <2>3. QED
    BY <1>6, <2>1, <2>2 DEF RowOK
<1>10. /\ rest \in CandidateRow /\ RowOK(rest)
       /\ rest.status = cand[c].status /\ rest.version = old.version + 1
  <2>1. old.version + 1 \in 0 .. scene.versions /\ old.photos \ P \in SUBSET photos
    BY <1>2, <1>3, <1>5 DEF CandidateRow
  <2>2. rest \in CandidateRow
    BY <1>4, <2>1 DEF CandidateRow
  <2>3. /\ rest.photos = old.photos \ P /\ rest.status = cand[c].status /\ rest.version = old.version + 1
        /\ rest.content = cand[c].content
    BY <1>4 DEF CandidateRow
  <2>4. old.photos \ P # {} /\ cand[c].content \in Content
    BY <1>2, <1>4, <1>6 DEF RowOK
  <2>5. QED
    BY <2>2, <2>3, <2>4 DEF RowOK
<1> HIDE DEF part, rest
<1>11. \A b \in Candidate : cand'[b] \in CandidateRow /\ RowOK(cand'[b])
  BY <1>8, <1>9, <1>10 DEF DeskTypes
<1>12. cand' \in [Candidate -> CandidateRow]
  <2>1. cand' = [b \in DOMAIN cand |-> cand'[b]]
    BY <1>6
  <2>2. QED
    BY <1>8, <1>11, <2>1
<1>13. \A b \in Candidate : cand[b].status # "none" => cand'[b].status # "none"
  BY <1>2, <1>7, <1>8, <1>10
<1>14. OneTab /\ scene.workers = {} => cand[c] = old
  BY <1>2 DEF Decided, Asked
<1>15. OneTab /\ scene.workers = {} =>
           \A b \in Candidate :
               \/ cand'[b] = cand[b]
               \/ cand[b].status = "none" /\ cand'[b].status = "pending_review"
               \/ cand'[b].status = "pending_review" /\ cand'[b].version = cand[b].version + 1
  BY <1>3, <1>7, <1>8, <1>9, <1>10, <1>14
<1> HIDE DEF c, old
<1>16. QED
  BY <1>2, <1>11, <1>12, <1>13, <1>15, RowsWritten

LEMMA PreviewKeeps ==
    ASSUME scene \in Scenes, DeskTypes, Decided, UNCHANGED scene, NEW t \in scene.tabs, PreviewWrite(t)
    PROVE  DeskTypes' /\ Decided'
<1> DEFINE changed == {c \in DOMAIN tab[t].found : tab[t].found[c] # tab[t].seen[c]}
<1>1. t \in Tab
  BY SceneAssumption
<1>2. /\ Asked(t, "preview") /\ \A c \in changed : cand[c].status # "none"
      /\ cand' = [c \in Candidate |->
                     IF c \in changed THEN [cand[c] EXCEPT !.match = tab[t].found[c]] ELSE cand[c]]
      /\ tab' = [tab EXCEPT ![t] = None] /\ UNCHANGED <<item, photos, cmd>>
  BY DEF PreviewWrite
<1>3. \A c \in changed : c \in Candidate /\ tab[t].found[c] \in Text
  BY <1>1, <1>2 DEF Asked, DeskTypes, ReadOK
<1>4. OneTab /\ scene.workers = {} => \A c \in changed : cand[c].status = "pending_review"
  BY <1>2 DEF Decided, Asked
<1> HIDE DEF changed
<1>5. ASSUME NEW c \in Candidate
      PROVE  /\ cand'[c] \in CandidateRow /\ RowOK(cand'[c])
             /\ cand'[c].status = cand[c].status /\ cand'[c].version = cand[c].version
             /\ c \notin changed => cand'[c] = cand[c]
  <2>1. cand[c] \in CandidateRow /\ RowOK(cand[c])
    BY DEF DeskTypes
  <2>2. CASE c \in changed
    <3>1. cand'[c] = [cand[c] EXCEPT !.match = tab[t].found[c]]
      BY <1>2, <2>2
    <3>2. cand'[c] \in CandidateRow
      BY <1>3, <2>1, <2>2, <3>1 DEF CandidateRow
    <3>3. /\ cand'[c].status = cand[c].status /\ cand'[c].version = cand[c].version
          /\ cand'[c].photos = cand[c].photos /\ cand'[c].content = cand[c].content
      BY <2>1, <3>1 DEF CandidateRow
    <3>4. QED
      BY <2>1, <2>2, <3>2, <3>3 DEF RowOK
  <2>3. CASE c \notin changed
    BY <1>2, <2>1, <2>3
  <2>4. QED
    BY <2>2, <2>3
<1>6. cand' \in [Candidate -> CandidateRow]
  BY <1>2, <1>5
<1>7. OneTab /\ scene.workers = {} =>
           \A c \in Candidate :
               \/ cand'[c] = cand[c]
               \/ /\ cand'[c].status = "pending_review"
                  /\ cand[c].status = "pending_review" /\ cand'[c].version = cand[c].version
  BY <1>4, <1>5
<1>8. QED
  BY <1>2, <1>5, <1>6, <1>7, RowsWritten

LEMMA ConfirmKeeps ==
    ASSUME scene \in Scenes, DeskTypes, Decided, UNCHANGED scene, NEW t \in scene.tabs, NEW S, ConfirmThese(t, S)
    PROVE  DeskTypes' /\ Decided'
<1> DEFINE new == S \cap In("pending_review")
           made == {Key(c) : c \in new} \ DOMAIN cmd
           older == {k \in DOMAIN cmd : k.cand \in new /\ k.version < cand[k.cand].version}
<1>1. /\ tab[t] = None /\ PhotosFree(new) /\ item' = "confirmed" /\ UNCHANGED <<photos, tab>>
      /\ cand' = [c \in Candidate |->
            IF c \in new THEN [cand[c] EXCEPT !.status = "confirmed"] ELSE cand[c]]
      /\ cmd' = [k \in DOMAIN cmd \cup made |->
            IF k \in made THEN [status |-> "pending", epoch |-> 0, expired |-> FALSE]
            ELSE Supersede(older)[k]]
  BY DEF ConfirmThese
<1>2. \A c \in new : c \in Candidate /\ cand[c].status = "pending_review"
  BY DEF In
<1>3. ASSUME NEW c \in Candidate
      PROVE  /\ cand'[c] \in CandidateRow /\ RowOK(cand'[c])
             /\ Key(c)' = Key(c) /\ cand'[c].version = cand[c].version /\ cand'[c].photos = cand[c].photos
             /\ cand'[c].status = IF c \in new THEN "confirmed" ELSE cand[c].status
  <2>1. cand[c] \in CandidateRow /\ RowOK(cand[c])
    BY DEF DeskTypes
  <2>2. CASE c \in new
    <3>1. cand'[c] = [cand[c] EXCEPT !.status = "confirmed"]
      BY <1>1, <2>2
    <3>2. cand'[c] \in CandidateRow
      BY <2>1, <3>1 DEF CandidateRow, CandidateStatus
    <3>3. /\ cand'[c].status = "confirmed" /\ cand'[c].version = cand[c].version
          /\ cand'[c].photos = cand[c].photos /\ cand'[c].content = cand[c].content
          /\ cand'[c].match = cand[c].match
      BY <2>1, <3>1 DEF CandidateRow
    <3>4. cand[c].photos # {} /\ cand[c].content \in Content
      BY <1>2, <2>1, <2>2 DEF RowOK
    <3>5. RowOK(cand'[c])
      BY <3>2, <3>3, <3>4 DEF RowOK
    <3>6. Key(c)' = Key(c)
      BY <3>3 DEF Key
    <3>7. QED
      BY <2>2, <3>2, <3>3, <3>5, <3>6
  <2>3. CASE c \notin new
    BY <1>1, <2>1, <2>3 DEF Key
  <2>4. QED
    BY <2>2, <2>3
<1>4. \A k \in made : \E c \in new : k = Key(c)
  OBVIOUS
<1>5. \A c \in new : Key(c) \in DOMAIN cmd \cup made
  OBVIOUS
<1>6. \A c : Key(c).cand = c /\ Key(c).version = cand[c].version /\ Key(c).content = cand[c].content
  BY DEF Key
<1> HIDE DEF made
<1>7. DOMAIN cmd' = DOMAIN cmd \cup made
  BY <1>1
<1>8. ASSUME NEW k \in DOMAIN cmd' PROVE k \in DOMAIN cmd \/ \E c \in new : k.cand = c /\ k.version = cand[c].version /\ k.content = cand[c].content
  BY <1>4, <1>6, <1>7
<1> HIDE DEF new
<1>9. DeskTypes'
  <2>1. \A k \in DOMAIN cmd' : k.cand \in Candidate /\ k.version \in Nat /\ k.content \in Content /\ cand'[k.cand].status # "none"
    <3>1. TAKE k \in DOMAIN cmd'
    <3>2. CASE k \in DOMAIN cmd
      BY <1>3, <3>2 DEF DeskTypes
    <3>3. CASE \E c \in new : k.cand = c /\ k.version = cand[c].version /\ k.content = cand[c].content
      BY <1>2, <1>3, <3>3 DEF DeskTypes, RowOK, CandidateRow
    <3>4. QED
      BY <1>8, <3>2, <3>3
  <2>2. \A c \in Candidate : RowOK(cand[c])'
    BY <1>1, <1>3 DEF RowOK, CandidateRow
  <2>3. DOMAIN cand' = Candidate /\ cand' = [c \in Candidate |-> cand'[c]]
    BY <1>1
  <2>4. QED
    BY <1>1, <2>1, <2>2, <2>3, TypesKept DEF DeskTypes, ItemStatus
<1>10. Decided'
  <2>1. SUFFICES ASSUME OneTab, scene.workers = {} PROVE Decided'
    BY DEF Decided, OneTab
  <2>2. In("executed")' = {}
    BY <1>3, <2>1 DEF Decided, In
  <2>3. ASSUME NEW k \in DOMAIN cmd'
        PROVE  /\ cmd'[k].status \in {"pending", "superseded"}
               /\ k.version <= cand'[k.cand].version
               /\ k.version = cand'[k.cand].version => cand'[k.cand].status = "confirmed"
    <3>1. CASE k \in made
      <4>1. PICK c \in new : k.cand = c /\ k.version = cand[c].version
        BY <1>4, <1>6, <3>1
      <4>2. c \in Candidate /\ cand[c].version \in Nat
        BY <1>2 DEF DeskTypes, CandidateRow
      <4>3. cmd'[k].status = "pending"
        BY <1>1, <1>7, <3>1
      <4>4. QED
        BY <1>3, <4>1, <4>2, <4>3
    <3>2. CASE k \notin made
      <4>1. k \in DOMAIN cmd /\ cmd'[k] = Supersede(older)[k]
        BY <1>1, <1>7, <3>2
      <4>2. cmd[k].status \in {"pending", "superseded"} => cmd'[k].status \in {"pending", "superseded"}
        BY <4>1 DEF Supersede
      <4>3. /\ cand'[k.cand].version = cand[k.cand].version
            /\ cand'[k.cand].status \in {"confirmed", cand[k.cand].status}
        BY <1>3, <4>1 DEF DeskTypes
      <4>4. QED
        BY <2>1, <4>1, <4>2, <4>3 DEF Decided
    <3>3. QED
      BY <3>1, <3>2
  <2>4. ConfirmedAsDecided'
    <3>1. ASSUME NEW c \in Candidate, cand'[c].status = "confirmed" PROVE Key(c)' \in DOMAIN cmd'
      <4>1. CASE c \in new
        BY <1>3, <1>5, <1>7, <4>1
      <4>2. CASE c \notin new
        BY <1>3, <1>7, <2>1, <3>1, <4>2 DEF Decided, ConfirmedAsDecided, In
      <4>3. QED
        BY <4>1, <4>2
    <3>2. QED
      BY <3>1 DEF ConfirmedAsDecided, In
  <2>5. ASSUME NEW c \in In("confirmed")', NEW d \in In("confirmed")', c # d
        PROVE  cand'[c].photos \cap cand'[d].photos = {}
    <3>1. /\ c \in Candidate /\ d \in Candidate
          /\ c \in new \/ c \in In("confirmed")
          /\ d \in new \/ d \in In("confirmed")
      BY <1>3 DEF In
    <3>2. \A a \in new, b \in In("confirmed") : cand[a].photos \cap cand[b].photos = {}
      <4>1. TAKE a \in new, b \in In("confirmed")
      <4>2. b \in Candidate \ {a}
        BY <1>2 DEF In
      <4>3. \A p \in cand[a].photos : p \notin Claimed(Candidate \ {a})
        BY <1>1 DEF PhotosFree
      <4>4. cand[b].photos \subseteq Claimed(Candidate \ {a})
        BY <4>2 DEF Claimed
      <4>5. QED
        BY <4>3, <4>4
    <3>3. \A a, b \in new : a # b => cand[a].photos \cap cand[b].photos = {}
      BY <1>1 DEF PhotosFree
    <3>4. \A a, b \in In("confirmed") : a # b => cand[a].photos \cap cand[b].photos = {}
      BY <2>1 DEF Decided
    <3>5. cand[c].photos \cap cand[d].photos = {}
      BY <2>5, <3>1, <3>2, <3>3, <3>4
    <3>6. QED
      BY <1>3, <3>1, <3>5
  <2>6. \A s \in scene.tabs : tab'[s] = None
    BY <1>1, <2>1 DEF OneTab
  <2>7. QED
    BY <2>2, <2>3, <2>4, <2>5, <2>6 DEF Decided
<1>11. QED
  BY <1>9, <1>10

\* Every request of a tab.
LEMMA MoveKeeps ==
    ASSUME scene \in Scenes, DeskTypes, Decided, UNCHANGED scene, NEW t \in scene.tabs, DeskMove(t)
    PROVE  DeskTypes' /\ Decided'
<1>1. t \in Tab
  BY SceneAssumption
<1>2. QED
  BY <1>1, ReadsKeep, BuildKeeps, UpdateKeeps, SplitKeeps, PreviewKeeps, ConfirmKeeps DEF DeskMove

\* A worker marks candidates as executed, and sets the item.
LEMMA WorkerKeepsDesk ==
    ASSUME ExecInv, DeskTypes, UNCHANGED scene, NEW w \in scene.workers,
           Start(w) \/ Retry(w) \/ Work(w) \/ Unauthorized(w) \/ Die(w)
    PROVE  DeskTypes' /\ Decided'
<1> DEFINE k == run[w].key
<1>1. w \in Worker
  BY WorkersAssumption DEF ExecInv, ExecTypes
<1>2. UNCHANGED <<photos, tab>>
  BY DEF Start, Retry, Work, Unauthorized, Die, Mark, Take, Claim, Bind, Check, Receipt, Insert, WorkFails,
         Fail, RecoverRead, RecoverWrite, SumUp, WriteStatus, Abort, cvars
<1>3. DOMAIN cmd' = DOMAIN cmd
  <2>1. CASE UNCHANGED cmd
    BY <2>1
  <2>2. CASE ~UNCHANGED cmd
    <3>1. Claim(w) \/ Fail(w) \/ Receipt(w) \/ Insert(w) \/ RecoverWrite(w) \/ Unauthorized(w)
      BY <2>2 DEF Start, Retry, Work, Die, Mark, Take, Bind, Check, WorkFails, RecoverRead, SumUp,
                  WriteStatus, Abort, cvars
    <3>2. \E row : cmd' = [cmd EXCEPT ![k] = row]
      BY <2>2, <3>1 DEF Claim, Fail, Receipt, Insert, RecoverWrite, Unauthorized, Set
    <3>3. QED
      BY <3>2
  <2>3. QED
    BY <2>1, <2>2
<1>4. item' \in ItemStatus
  <2>1. run[w].result \in {"executing", "completed", "failed", "partial", "confirmed", None}
    BY <1>1 DEF ExecInv, ExecTypes, RunRow
  <2>2. CASE Mark(w) \/ WriteStatus(w)
    BY <2>1, <2>2 DEF Mark, WriteStatus, WriteItem, ItemStatus, DeskTypes
  <2>3. CASE ~(Mark(w) \/ WriteStatus(w))
    <3>1. UNCHANGED item
      BY <2>3 DEF Start, Retry, Work, Unauthorized, Die, Take, Claim, Bind, Check, Receipt, Insert,
                  WorkFails, Fail, RecoverRead, RecoverWrite, SumUp, Abort, cvars
    <3>2. QED
      BY <3>1 DEF DeskTypes
  <2>4. QED
    BY <2>2, <2>3
<1>5. \/ UNCHANGED cand
      \/ k \in DOMAIN cmd /\ Executed(k.cand)
  <2>1. CASE UNCHANGED cand
    BY <2>1
  <2>2. CASE ~UNCHANGED cand
    <3>1. Receipt(w) \/ Insert(w) \/ (RecoverWrite(w) /\ At(w, "recovered"))
      BY <2>2 DEF Start, Retry, Work, Unauthorized, Die, Mark, Take, Claim, Bind, Check, WorkFails,
                  Fail, RecoverRead, RecoverWrite, SumUp, WriteStatus, Abort, cvars
    <3>2. run[w].pc \in AtCommand
      BY <3>1 DEF Receipt, Insert, RecoverWrite, At, AtCommand, Holding
    <3>3. k \in DOMAIN cmd
      BY <1>1, <3>2 DEF ExecInv, ExecTypes
    <3>4. Executed(k.cand)
      BY <2>2, <3>1 DEF Receipt, Insert, RecoverWrite
    <3>5. QED
      BY <3>3, <3>4
  <2>3. QED
    BY <2>1, <2>2
<1>6. /\ cand' \in [Candidate -> CandidateRow]
      /\ \A c \in Candidate : RowOK(cand'[c]) /\ (cand[c].status # "none" => cand'[c].status # "none")
  <2>1. CASE UNCHANGED cand
    BY <2>1 DEF DeskTypes
  <2>2. CASE k \in DOMAIN cmd /\ Executed(k.cand)
    <3> DEFINE d == k.cand
               row == [cand[d] EXCEPT !.status = "executed"]
    <3>1. d \in Candidate /\ cand[d].status # "none" /\ cand[d] \in CandidateRow /\ RowOK(cand[d])
      BY <2>2 DEF DeskTypes
    <3>2. row \in CandidateRow /\ row.photos = cand[d].photos /\ row.status = "executed"
      BY <3>1 DEF CandidateRow, CandidateStatus
    <3>3. RowOK(row)
      BY <3>1, <3>2 DEF RowOK
    <3>4. cand' = [cand EXCEPT ![d] = row]
      BY <2>2 DEF Executed
    <3> HIDE DEF row, d
    <3>5. QED
      BY <3>1, <3>2, <3>3, <3>4 DEF DeskTypes
  <2>3. QED
    BY <1>5, <2>1, <2>2
<1>7. DeskTypes'
  <2>1. \A c \in Candidate : RowOK(cand[c])'
    BY <1>2, <1>6 DEF RowOK, CandidateRow
  <2>2. \A j \in DOMAIN cmd' : j.cand \in Candidate /\ j.version \in Nat /\ j.content \in Content /\ cand'[j.cand].status # "none"
    BY <1>3, <1>6 DEF DeskTypes
  <2>3. QED
    BY <1>2, <1>4, <1>6, <2>1, <2>2, TypesKept DEF DeskTypes
<1>8. Decided'
  BY DEF Decided
<1>9. QED
  BY <1>7, <1>8

LEMMA SurroundingsKeepDesk ==
    ASSUME ExecInv, DeskTypes, Decided, UNCHANGED scene, Expire \/ OtherIntake
    PROVE  DeskTypes' /\ Decided'
<1>1. CASE OtherIntake
  <2>1. TabsMove
    BY <1>1 DEF OtherIntake, TabsMove
  <2>2. QED
    BY <2>1, TabsMoveKeeps DEF ExecInv, ExecTypes
<1>2. CASE Expire
  <2>1. PICK k \in DOMAIN cmd : cmd[k].status = "executing" /\ DOMAIN cmd' = DOMAIN cmd
    BY <1>2 DEF Expire, Set
  <2>2. ~(OneTab /\ scene.workers = {})
    BY <2>1 DEF Decided
  <2>3. Decided'
    BY <2>2 DEF Decided, OneTab
  <2>4. UNCHANGED <<item, photos, cand, tab>>
    BY <1>2 DEF Expire
  <2>5. DeskTypes'
    BY <2>1, <2>4 DEF DeskTypes, ReadOK, RowOK, CandidateRow
  <2>6. QED
    BY <2>3, <2>5
<1>3. QED
  BY <1>1, <1>2

-----------------------------------------------------------------------------
(* The page.                                                                *)

ShownRow == [status : CandidateStatus, content : Content]
Rows     == [Candidate -> ShownRow \cup {None}]
Draft    == [text : Content, print : Content]
Patching == [c : Candidate, text : Content, over : Content, confirm : BOOLEAN]

PageRow ==
    [pc : {"idle", "wait", "patch", "pass"}, at : {"list", "item", "other"},
     shown : Rows, edit : [Candidate -> Draft \cup {None}],
     chosen : SUBSET Candidate, left : SUBSET Candidate, ids : SUBSET Candidate,
     now : Patching \cup {None}, said : [Candidate -> Text],
     asked : [Way -> {"no", "item", "other", "read"}], answer : [Way -> Rows]]

Matches(c) == page.shown[c] = [status |-> cand[c].status, content |-> cand[c].content]

\* Passed by the confirmation in progress, saved first or not.
Passed == {c \in page.ids \ page.left : page.pc = "patch" => c # page.now.c}

\* What is shown is what is stored, but for what the confirmation has just saved.
ShownIsStored ==
    \A c \in Shown \ (touched \cup saved) :
        IF c \in Passed
        THEN \/ Matches(c) /\ (cand[c].content = page.said[c] \/ cand[c].status = "rejected")
             \/ cand[c].content = page.said[c] /\ page.said[c] # page.shown[c].content
        ELSE Matches(c)

\* The save under way is of what is stored.
SaveUnderWay ==
    page.pc = "patch" =>
        /\ tab[Page].kind = "update" /\ tab[Page].c = page.now.c
        /\ page.now.c \in Shown \ page.left
        /\ page.now.over = page.shown[page.now.c].content
        /\ page.now.c \notin touched \cup saved =>
              Matches(page.now.c) /\ tab[Page].old = cand[page.now.c]
        /\ page.now.confirm => /\ page.said[page.now.c] = page.now.text
                               /\ page.now.text # page.shown[page.now.c].content
                               /\ page.now.c \in page.ids

\* Wherever the owner goes.
PageTyped ==
    /\ page \in PageRow
    /\ Page \notin scene.tabs => page = NoPage
    /\ page.at = "list" => page.shown = NoRows
    /\ page.pc \notin {"pass", "patch"} => page.ids = {}
    /\ page.left \subseteq page.ids
    /\ page.pc = "patch" => page.now \in Patching /\ (~page.now.confirm => page.ids = {})
    /\ \A c \in Shown : page.edit[c] \in Draft /\ page.edit[c].print = page.shown[c].content

\* While he stays until he has his answer, an item is read when nothing is shown and nothing
\* else under way.
Attended ==
    /\ \A w \in Way : page.asked[w] # "no" =>
          /\ page.pc = "idle" /\ page.at = "list" /\ page.chosen = {}
          /\ \A v \in Way \ {w} : page.asked[v] = "no"
    /\ page.at # "list" => page.chosen \subseteq Shown
    /\ page.ids \subseteq Shown
    /\ SaveUnderWay /\ ShownIsStored

PageSound == PageTyped /\ (~away => Attended)

LEMMA QuitIs ==
    ASSUME page \in PageRow
    PROVE  /\ Quit \in PageRow /\ Quit.pc = "idle" /\ Quit.ids = {} /\ Quit.left = {}
           /\ Quit.at = page.at /\ Quit.shown = page.shown /\ Quit.edit = page.edit
           /\ Quit.chosen = page.chosen /\ Quit.asked = page.asked
<1>1. NoRows \in [Candidate -> Text]
  BY DEF NoRows, Text
<1>2. QED
  BY <1>1 DEF PageRow, Quit

\* Where nothing is shown and nothing under way.
LEMMA NothingShown ==
    ASSUME page' \in PageRow, UNCHANGED scene, Page \in scene.tabs,
           page'.pc = "idle", page'.shown = NoRows, page'.ids = {}, page'.left = {}, page'.at = "list",
           ~away' => \A w \in Way : page'.asked[w] # "no" =>
                         page'.chosen = {} /\ \A v \in Way \ {w} : page'.asked[v] = "no"
    PROVE  PageSound'
<1>1. Shown' = {}
  BY DEF Shown, NoRows
<1>2. QED
  BY <1>1 DEF PageSound, PageTyped, Attended, SaveUnderWay, ShownIsStored

\* Between an answer and the reading that follows it, nothing is shown.
LEMMA Reopened ==
    ASSUME PageSound, Page \in scene.tabs, UNCHANGED <<scene, away>>, page.pc # "idle",
           page' = Ended \/ page' = Reopen("item")
    PROVE  PageSound'
<1>1. page \in PageRow
  BY DEF PageSound, PageTyped
<1>2. ~away => \A w \in Way : page.asked[w] = "no"
  BY DEF PageSound, Attended
<1>3. CASE page.at = "list" /\ page' = Quit
  BY <1>1, <1>2, <1>3, QuitIs, NothingShown DEF PageSound, PageTyped
<1>4. ASSUME NEW what \in {"item", "other"}, page' = Reopen(what) PROVE PageSound'
  <2> DEFINE asked == [page.asked EXCEPT !["own"] = what]
  <2>1. page' = [Quit EXCEPT !.at = "list", !.shown = NoRows, !.chosen = {}, !.asked = asked]
    BY <1>1, <1>4, QuitIs DEF Reopen, Opening
  <2>2. asked \in [Way -> {"no", "item", "other", "read"}] /\ NoRows \in Rows
    BY <1>1 DEF PageRow, NoRows, Rows
  <2>3. \A v \in Way \ {"own"} : asked[v] = page.asked[v]
    BY <1>1 DEF PageRow
  <2> HIDE DEF asked
  <2>4. /\ page' \in PageRow /\ page'.at = "list" /\ page'.shown = NoRows /\ page'.chosen = {}
        /\ page'.pc = "idle" /\ page'.left = {} /\ page'.ids = {} /\ page'.asked = asked
    BY <1>1, <2>1, <2>2, QuitIs DEF PageRow
  <2>5. QED
    BY <1>1, <1>2, <1>4, <2>3, <2>4, NothingShown
<1>5. page.at # "list" => page.at \in {"item", "other"}
  BY <1>1 DEF PageRow
<1>6. QED
  BY <1>3, <1>4, <1>5 DEF Ended

LEMMA StoredIsRows ==
    ASSUME DeskTypes
    PROVE  /\ Stored \in Rows
           /\ \A c \in Candidate : Stored[c] # None =>
                 Stored[c] = [status |-> cand[c].status, content |-> cand[c].content]
BY DEF DeskTypes, RowOK, CandidateRow, Stored, Rows, ShownRow

LEMMA Displayed ==
    ASSUME DeskTypes, PageSound, Page \in scene.tabs, UNCHANGED scene, NEW w \in Way, Display(w)
    PROVE  PageSound'
<1> DEFINE rows == page.answer[w]
           edit == [c \in Candidate |-> IF rows[c] = None THEN None ELSE Kept(c, rows[c].content)]
           at   == IF page.asked[w] = "other" THEN "other" ELSE "item"
<1>1. page \in PageRow /\ rows \in Rows /\ page.asked[w] # "no"
  BY DEF PageSound, PageTyped, PageRow, Display
<1>2. /\ page' = [page EXCEPT !.asked = [page.asked EXCEPT ![w] = "no"],
                              !.answer = [page.answer EXCEPT ![w] = NoRows],
                              !.at = at, !.shown = rows, !.edit = edit]
      /\ touched' = {c \in Candidate : rows[c] \notin {None, Stored[c]}}
      /\ saved' = {} /\ away' = (away /\ ~Alone(w)) /\ UNCHANGED cand
  BY <1>1 DEF Display, allvars, cvars, PageRow
<1>3. ASSUME NEW c \in Candidate, rows[c] # None
      PROVE  edit[c] \in Draft /\ edit[c].print = rows[c].content
  <2>1. rows[c].content \in Content
    BY <1>1, <1>3 DEF Rows, ShownRow
  <2>2. page.edit[c] # None => page.edit[c] \in Draft
    BY <1>1 DEF PageRow
  <2>3. edit[c] = Kept(c, rows[c].content)
    BY <1>3
  <2> HIDE DEF rows, edit
  <2>4. QED
    BY <2>1, <2>2, <2>3 DEF Kept, Fresh, Draft
<1>4. edit \in [Candidate -> Draft \cup {None}]
  BY <1>3
<1>5. NoRows \in Rows /\ at \in {"item", "other"}
  BY DEF NoRows, Rows
<1> HIDE DEF edit, at
<1>6. /\ page' \in PageRow /\ page'.pc = page.pc /\ page'.at = at
      /\ page'.shown = rows /\ page'.edit = edit
      /\ page'.chosen = page.chosen /\ page'.ids = page.ids /\ page'.left = page.left
      /\ page'.now = page.now
      /\ page'.asked[w] = "no" /\ \A v \in Way \ {w} : page'.asked[v] = page.asked[v]
  BY <1>1, <1>2, <1>4, <1>5 DEF PageRow
<1>7. Shown' = {c \in Candidate : rows[c] # None}
  BY <1>6 DEF Shown
<1>8. PageTyped'
  BY <1>3, <1>5, <1>6, <1>7 DEF PageSound, PageTyped
<1>9. ASSUME ~away' PROVE Attended'
  <2>1. Alone(w)
    BY <1>1, <1>2, <1>9 DEF PageSound, Attended, Alone, Handler, Way
  <2>2. page.pc = "idle" /\ page.chosen = {} /\ page.ids = {} /\ \A v \in Way : page'.asked[v] = "no"
    BY <1>6, <2>1 DEF Alone, Handler, Way, PageSound, PageTyped
  <2>3. ASSUME NEW c \in Shown' \ (touched' \cup saved') PROVE Matches(c)'
    <3>1. c \in Candidate /\ rows[c] = Stored[c] /\ Stored[c] # None
      BY <1>2, <1>7, <2>3
    <3>2. QED
      BY <1>2, <1>6, <3>1, StoredIsRows DEF Matches
  <2>4. Passed' = {}
    BY <1>6, <2>2 DEF Passed
  <2>5. SaveUnderWay' /\ ShownIsStored'
    BY <1>6, <2>2, <2>3, <2>4 DEF SaveUnderWay, ShownIsStored
  <2>6. QED
    BY <1>6, <2>2, <2>5 DEF Attended
<1>10. QED
  BY <1>8, <1>9 DEF PageSound

\* The owner goes to the list, or to an item, while he has his answer or not.
LEMMA WaysKeep ==
    ASSUME DeskTypes, PageSound, Page \in scene.tabs, UNCHANGED scene,
           Enter \/ Leave \/ \E w \in Way : Read(w) \/ OpenFails(w)
    PROVE  PageSound'
<1>0. page \in PageRow /\ UNCHANGED <<scene, cand, tab, touched, saved>>
  BY DEF PageSound, PageTyped, Enter, Leave, Read, OpenFails, allvars, cvars, hvars
<1>1. NoRows \in Rows
  BY DEF NoRows, Rows
<1>2. CASE Enter
  <2>1. /\ page.at = "list" /\ page.asked["click"] = "no" /\ away' = (away \/ ~AtRest)
        /\ \E what \in {"item", "other"} : page' = Opening(page, "click", what)
    BY <1>2 DEF Enter
  <2>2. PICK what \in {"item", "other"} : page' = Opening(page, "click", what)
    BY <2>1
  <2> DEFINE asked == [page.asked EXCEPT !["click"] = what]
  <2>3. page' = [page EXCEPT !.at = "list", !.shown = NoRows, !.chosen = {}, !.asked = asked]
    BY <2>2 DEF Opening
  <2>4. /\ asked \in [Way -> {"no", "item", "other", "read"}]
        /\ \A v \in Way \ {"click"} : asked[v] = page.asked[v]
    BY <1>0 DEF PageRow
  <2> HIDE DEF asked
  <2>5. /\ page' \in PageRow /\ page'.at = "list" /\ page'.shown = NoRows /\ page'.chosen = {}
        /\ page'.pc = page.pc /\ page'.left = page.left /\ page'.ids = page.ids
        /\ page'.asked = asked /\ page'.now = page.now
    BY <1>0, <1>1, <2>3, <2>4 DEF PageRow
  <2>6. Shown' = {}
    BY <2>5 DEF Shown, NoRows
  <2>7. PageTyped'
    BY <2>5, <2>6 DEF PageSound, PageTyped
  <2>8. ASSUME ~away' PROVE Attended'
    <3>1. page.pc = "idle" /\ page.asked["own"] = "no" /\ page.ids = {}
      BY <2>1, <2>8 DEF AtRest, Handler, PageSound, PageTyped
    <3>2. \A w \in Way : page'.asked[w] # "no" => w = "click" /\ \A v \in Way \ {w} : page'.asked[v] = "no"
      BY <2>4, <2>5, <3>1 DEF Way
    <3>3. QED
      BY <2>5, <2>6, <3>1, <3>2 DEF Attended, SaveUnderWay, ShownIsStored
  <2>9. QED
    BY <2>7, <2>8 DEF PageSound
<1>3. CASE Leave
  <2>1. page.at # "list" /\ away' = (away \/ ~AtRest) /\ page' = [page EXCEPT !.at = "list", !.shown = NoRows]
    BY <1>3 DEF Leave
  <2>2. /\ page' \in PageRow /\ page'.at = "list" /\ page'.shown = NoRows
        /\ page'.pc = page.pc /\ page'.left = page.left /\ page'.ids = page.ids
        /\ page'.asked = page.asked /\ page'.now = page.now
    BY <1>0, <1>1, <2>1 DEF PageRow
  <2>3. Shown' = {}
    BY <2>2 DEF Shown, NoRows
  <2>4. PageTyped'
    BY <2>2, <2>3 DEF PageSound, PageTyped
  <2>5. ASSUME ~away' PROVE Attended'
    <3>1. page.pc = "idle" /\ page.ids = {} /\ \A w \in Way : page.asked[w] = "no"
      BY <2>1, <2>5 DEF AtRest, Handler, PageSound, PageTyped, Attended
    <3>2. QED
      BY <2>2, <2>3, <3>1 DEF Attended, SaveUnderWay, ShownIsStored
  <2>6. QED
    BY <2>4, <2>5 DEF PageSound
<1>4. ASSUME NEW w \in Way, NEW what \in {"no", "read"}, NEW rows \in Rows,
             page.asked[w] # "no", UNCHANGED away,
             page' = [page EXCEPT !.asked = [page.asked EXCEPT ![w] = what],
                                  !.answer = [page.answer EXCEPT ![w] = rows]]
      PROVE  PageSound'
  <2> DEFINE asked == [page.asked EXCEPT ![w] = what]
  <2>1. /\ asked \in [Way -> {"no", "item", "other", "read"}]
        /\ \A v \in Way \ {w} : asked[v] = page.asked[v]
        /\ [page.answer EXCEPT ![w] = rows] \in [Way -> Rows]
    BY <1>0 DEF PageRow
  <2> HIDE DEF asked
  <2>2. /\ page' \in PageRow /\ page'.at = page.at /\ page'.shown = page.shown /\ page'.chosen = page.chosen
        /\ page'.pc = page.pc /\ page'.left = page.left /\ page'.ids = page.ids /\ page'.edit = page.edit
        /\ page'.asked = asked /\ page'.now = page.now /\ page'.said = page.said
    BY <1>0, <1>4, <2>1 DEF PageRow, asked
  <2>3. Shown' = Shown
    BY <2>2 DEF Shown
  <2>4. PageTyped'
    BY <2>2, <2>3 DEF PageSound, PageTyped
  <2>5. ASSUME ~away PROVE Attended'
    <3>1. Attended
      BY <2>5 DEF PageSound
    <3>2. /\ page.pc = "idle" /\ page.at = "list" /\ page.chosen = {}
          /\ \A v \in Way \ {w} : page'.asked[v] = "no"
      BY <1>4, <2>1, <2>2, <3>1 DEF Attended
    <3>3. SaveUnderWay' /\ ShownIsStored'
      BY <1>0, <2>2, <2>3, <3>1, <3>2 DEF Attended, SaveUnderWay, ShownIsStored, Passed, Matches
    <3>4. QED
      BY <2>2, <2>3, <3>1, <3>2, <3>3 DEF Attended
  <2>6. QED
    BY <1>4, <2>4, <2>5 DEF PageSound
<1>5. ASSUME NEW w \in Way, Read(w) PROVE PageSound'
  <2>1. PICK rows \in Rows : rows = Stored
    BY StoredIsRows
  <2>2. /\ page' = [page EXCEPT !.asked = [page.asked EXCEPT ![w] = "read"],
                                !.answer = [page.answer EXCEPT ![w] = rows]]
        /\ page.asked[w] # "no" /\ UNCHANGED away
    BY <1>5, <2>1 DEF Read, hvars
  <2>3. QED
    BY <1>4, <2>2
<1>6. ASSUME NEW w \in Way, OpenFails(w) PROVE PageSound'
  <2>1. PICK rows \in Rows : rows = NoRows
    BY <1>1
  <2>2. /\ page' = [page EXCEPT !.asked = [page.asked EXCEPT ![w] = "no"],
                                !.answer = [page.answer EXCEPT ![w] = rows]]
        /\ page.asked[w] # "no" /\ UNCHANGED away
    BY <1>6, <2>1 DEF OpenFails, hvars
  <2>3. QED
    BY <1>4, <2>2
<1>7. QED
  BY <1>2, <1>3, <1>5, <1>6

\* Nothing changes that is sent or compared.
LEMMA HandsKeep ==
    ASSUME DeskTypes, PageSound, scene \in Scenes, Page \in scene.tabs, Type \/ Toggle
    PROVE  PageSound'
<1>0. page \in PageRow /\ UNCHANGED <<scene, cand, tab, touched, saved, away>>
  BY DEF PageSound, PageTyped, Type, Toggle, allvars, cvars, hvars
<1>1. ASSUME page' \in PageRow, page'.pc = page.pc, page'.at = page.at, page'.shown = page.shown,
             page'.ids = page.ids, page'.left = page.left, page'.now = page.now, page'.said = page.said,
             page'.asked = page.asked,
             \A d \in Shown : page'.edit[d] \in Draft /\ page'.edit[d].print = page.shown[d].content,
             NEW c \in Shown, page'.chosen \subseteq page.chosen \cup {c}
      PROVE  PageSound'
  <2>1. Shown' = Shown
    BY <1>1 DEF Shown
  <2>2. PageTyped'
    BY <1>0, <1>1, <2>1 DEF PageSound, PageTyped
  <2>3. ASSUME ~away PROVE Attended'
    <3>1. page.at # "list" /\ Attended
      BY <2>3, <1>1 DEF PageSound, PageTyped, Shown, NoRows
    <3>2. SaveUnderWay' /\ ShownIsStored'
      BY <1>0, <1>1, <2>1, <3>1 DEF Attended, SaveUnderWay, ShownIsStored, Passed, Matches
    <3>3. QED
      BY <1>1, <2>1, <3>1, <3>2 DEF Attended
  <2>4. QED
    BY <1>0, <2>2, <2>3 DEF PageSound
<1>2. CASE Type
  <2>1. PICK c \in Candidate, x \in scene.contents :
            Editable(c) /\ page' = [page EXCEPT !.edit[c].text = x]
    BY <1>2 DEF Type
  <2>2. x \in Content /\ c \in Shown
    BY <2>1, SceneAssumption DEF Editable
  <2>3. page.edit[c] \in Draft /\ page.edit[c].print = page.shown[c].content
    BY <2>2 DEF PageSound, PageTyped
  <2> DEFINE draft == [page.edit[c] EXCEPT !.text = x]
  <2>4. draft \in Draft /\ draft.print = page.edit[c].print
    BY <2>2, <2>3 DEF Draft
  <2>5. page' = [page EXCEPT !.edit = [page.edit EXCEPT ![c] = draft]]
    BY <1>0, <2>1 DEF PageRow
  <2> HIDE DEF draft
  <2>6. page' \in PageRow /\ \A d \in Candidate : page'.edit[d] = IF d = c THEN draft ELSE page.edit[d]
    BY <1>0, <2>4, <2>5 DEF PageRow
  <2>7. /\ page'.pc = page.pc /\ page'.shown = page.shown /\ page'.ids = page.ids /\ page'.left = page.left
        /\ page'.chosen = page.chosen /\ page'.now = page.now /\ page'.said = page.said
        /\ page'.at = page.at /\ page'.asked = page.asked
    BY <1>0, <2>5 DEF PageRow
  <2>8. \A d \in Shown : page'.edit[d] \in Draft /\ page'.edit[d].print = page.shown[d].content
    BY <2>3, <2>4, <2>6 DEF PageSound, PageTyped, Shown
  <2>9. QED
    BY <1>1, <2>2, <2>6, <2>7, <2>8
<1>3. CASE Toggle
  <2>1. PICK c \in Candidate : /\ Editable(c)
                               /\ page' = [page EXCEPT !.chosen = IF c \in @ THEN @ \ {c} ELSE @ \cup {c}]
    BY <1>3 DEF Toggle
  <2>2. c \in Shown
    BY <2>1 DEF Editable
  <2>3. /\ page' \in PageRow /\ page'.chosen \subseteq page.chosen \cup {c}
        /\ page'.pc = page.pc /\ page'.shown = page.shown /\ page'.ids = page.ids /\ page'.left = page.left
        /\ page'.edit = page.edit /\ page'.now = page.now /\ page'.said = page.said
        /\ page'.at = page.at /\ page'.asked = page.asked
    BY <1>0, <2>1 DEF PageRow
  <2>4. \A d \in Shown : page'.edit[d] \in Draft /\ page'.edit[d].print = page.shown[d].content
    BY <2>3 DEF PageSound, PageTyped
  <2>5. QED
    BY <1>1, <2>2, <2>3, <2>4
<1>4. QED
  BY <1>2, <1>3

LEMMA AskingKeeps ==
    ASSUME DeskTypes, PageSound, scene \in Scenes, Page \in scene.tabs, UNCHANGED scene,
           Request \/ Answered \/ ClickConfirm \/ Confirmed
    PROVE  PageSound'
<1>0. page \in PageRow /\ UNCHANGED <<touched, saved, away>>
  BY DEF PageSound, PageTyped, Request, Answered, ClickConfirm, Confirmed, hvars
<1>1. CASE Answered \/ Confirmed
  BY <1>0, <1>1, Reopened DEF Answered, Confirmed, Handler
<1>2. CASE Request \/ ClickConfirm
  <2>1. PICK label \in {"wait", "pass"}, C \in {{}, page.chosen} :
            /\ page' = [page EXCEPT !.pc = label, !.ids = C, !.left = C]
            /\ label = "wait" => C = {}
    <3>1. CASE Request
      <4>1. page.ids = {} /\ page.left = {}
        BY <3>1 DEF Request, AtRest, Handler, PageSound, PageTyped
      <4>2. page' = [page EXCEPT !.pc = "wait"]
        BY <3>1 DEF Request
      <4>3. page' = [page EXCEPT !.pc = "wait", !.ids = {}, !.left = {}]
        BY <1>0, <4>1, <4>2 DEF PageRow
      <4>4. QED
        BY <4>3
    <3>2. CASE ClickConfirm
      BY <3>2 DEF ClickConfirm
    <3>3. QED
      BY <1>2, <3>1, <3>2
  <2>2. /\ page.pc = "idle" /\ page.asked["own"] = "no" /\ page.at = "item" /\ UNCHANGED cand
    BY <1>2 DEF Request, ClickConfirm, AtRest, Handler, UploadRead, PreviewRead, EditRead, allvars, cvars
  <2>3. /\ page' \in PageRow /\ page'.chosen = page.chosen /\ page'.pc = label
        /\ page'.shown = page.shown /\ page'.ids = C /\ page'.left = C
        /\ page'.edit = page.edit /\ page'.at = page.at /\ page'.asked = page.asked
    BY <1>0, <2>1 DEF PageRow
  <2>4. Shown' = Shown /\ Passed' = {} /\ Passed = {}
    BY <2>2, <2>3 DEF Shown, Passed, PageSound, PageTyped
  <2>5. PageTyped'
    BY <2>1, <2>3, <2>4 DEF PageSound, PageTyped
  <2>6. ASSUME ~away PROVE Attended'
    <3>1. Attended
      BY <2>6 DEF PageSound
    <3>2. \A w \in Way : page'.asked[w] = "no"
      BY <2>2, <2>3, <3>1 DEF Attended
    <3>3. SaveUnderWay' /\ ShownIsStored'
      BY <1>0, <2>2, <2>3, <2>4, <3>1 DEF Attended, SaveUnderWay, ShownIsStored, Matches
    <3>4. C \subseteq Shown
      BY <2>2, <3>1 DEF Attended
    <3>5. QED
      BY <2>2, <2>3, <2>4, <3>1, <3>2, <3>3, <3>4 DEF Attended
  <2>7. QED
    BY <1>0, <2>5, <2>6 DEF PageSound
<1>3. QED
  BY <1>1, <1>2

LEMMA PassingKeeps ==
    ASSUME DeskTypes, PageSound, scene \in Scenes, Page \in scene.tabs, UNCHANGED scene, Pass
    PROVE  PageSound'
<1>1. page \in PageRow /\ page.pc = "pass" /\ UNCHANGED <<cand, tab, touched, saved, away>>
  BY DEF PageSound, PageTyped, Pass, Handler, allvars, cvars, hvars
<1>2. ASSUME NEW c \in page.left, c \notin Shown, page' = [page EXCEPT !.left = @ \ {c}]
      PROVE  PageSound'
  <2>1. /\ page' \in PageRow /\ page'.chosen = page.chosen /\ page'.pc = page.pc
        /\ page'.shown = page.shown /\ page'.ids = page.ids /\ page'.left = page.left \ {c}
        /\ page'.edit = page.edit /\ page'.at = page.at /\ page'.asked = page.asked
    BY <1>1, <1>2 DEF PageRow
  <2>2. Shown' = Shown
    BY <2>1 DEF Shown
  <2>3. away
    BY <1>2 DEF PageSound, PageTyped, Attended
  <2>4. QED
    BY <1>1, <2>1, <2>2, <2>3 DEF PageSound, PageTyped
<1>3. ASSUME NEW c \in page.left, c \in Shown, Passable(c),
             page' = [page EXCEPT !.left = @ \ {c}, !.said[c] = page.edit[c].text]
      PROVE  PageSound'
  <2>1. c \in page.ids /\ c \in Candidate /\ page.edit[c].text \in Content
    BY <1>3 DEF PageSound, PageTyped, Shown, Draft
  <2>2. /\ page' \in PageRow /\ page'.chosen = page.chosen /\ page'.pc = page.pc
        /\ page'.shown = page.shown /\ page'.ids = page.ids /\ page'.left = page.left \ {c}
        /\ page'.edit = page.edit /\ page'.said = [page.said EXCEPT ![c] = page.edit[c].text]
        /\ page'.at = page.at /\ page'.asked = page.asked
    BY <1>1, <1>3, <2>1 DEF PageRow, Text
  <2>3. page'.said[c] = page.edit[c].text /\ \A d \in Candidate \ {c} : page'.said[d] = page.said[d]
    BY <1>1, <2>1, <2>2 DEF PageRow
  <2>4. Shown' = Shown
    BY <2>2 DEF Shown
  <2>5. Passed' = Passed \cup {c} /\ c \notin Passed
    BY <1>1, <1>3, <2>1, <2>2 DEF Passed
  <2>6. PageTyped'
    BY <1>1, <2>2, <2>4 DEF PageSound, PageTyped
  <2>7. ASSUME ~away PROVE Attended'
    <3>1. Attended
      BY <2>7 DEF PageSound
    <3>2. ASSUME c \notin touched \cup saved
          PROVE  Matches(c) /\ (cand[c].content = page.edit[c].text \/ cand[c].status = "rejected")
      <4>1. Matches(c)
        BY <1>3, <2>5, <3>1, <3>2 DEF Attended, ShownIsStored
      <4>2. QED
        BY <1>3, <4>1 DEF Passable, Unsaved, Matches
    <3>3. ShownIsStored'
      BY <1>1, <1>3, <2>1, <2>2, <2>3, <2>4, <2>5, <3>1, <3>2 DEF Attended, ShownIsStored, Matches, Shown
    <3>4. QED
      BY <1>1, <2>2, <2>4, <3>1, <3>3 DEF Attended, SaveUnderWay
  <2>8. QED
    BY <1>1, <2>6, <2>7 DEF PageSound
<1>4. QED
  BY <1>2, <1>3 DEF Pass

LEMMA SavingKeeps ==
    ASSUME DeskTypes, PageSound, scene \in Scenes, Page \in scene.tabs,
           UNCHANGED <<scene, touched, saved, away>>, NEW c \in Shown, Patch(c),
           \/ page.pc = "idle" /\ page.asked["own"] = "no"
           \/ page.pc = "pass" /\ c \in page.left /\ ~Passable(c)
    PROVE  PageSound'
<1> DEFINE text == page.edit[c].text
           now == [c |-> c, text |-> text, over |-> page.edit[c].print, confirm |-> page.pc = "pass"]
<1>1. page \in PageRow /\ c \in Candidate
  BY DEF PageSound, PageTyped, Shown
<1>2. page.edit[c] \in Draft /\ page.edit[c].print = page.shown[c].content
  BY DEF PageSound, PageTyped
<1>3. /\ EditRead(Page) /\ tab'[Page].kind = "update" /\ tab'[Page].c = c
      /\ page' = [page EXCEPT !.now = now, !.pc = "patch", !.left = @ \ {c}, !.said[c] = text]
  BY DEF Patch, Handler
<1>4. text \in Content /\ text \in Text /\ now \in Patching
  BY <1>1, <1>2 DEF Draft, Text, Patching
<1>5. UNCHANGED cand /\ tab'[Page] = [kind |-> "update", c |-> c, old |-> cand[c]]
  <2>1. UNCHANGED cand /\ \E d \in Candidate, kind \in {"update", "split"} : Open(Page, kind, d)
    BY <1>3 DEF EditRead
  <2>2. PICK d \in Candidate, kind \in {"update", "split"} :
            tab'[Page] = [kind |-> kind, c |-> d, old |-> cand[d]]
    BY <2>1, PageAssumption DEF Open, DeskTypes
  <2>3. QED
    BY <1>3, <2>1, <2>2
<1>6. now.c = c /\ now.text = text /\ now.over = page.edit[c].print /\ now.confirm = (page.pc = "pass")
  OBVIOUS
<1> HIDE DEF now, text
<1>7. /\ page' \in PageRow /\ page'.pc = "patch" /\ page'.now = now /\ page'.left = page.left \ {c}
      /\ page'.shown = page.shown /\ page'.edit = page.edit /\ page'.chosen = page.chosen
      /\ page'.ids = page.ids /\ page'.said = [page.said EXCEPT ![c] = text]
      /\ page'.at = page.at /\ page'.asked = page.asked
  BY <1>1, <1>3, <1>4 DEF PageRow
<1>8. page'.said[c] = text /\ \A d \in Candidate \ {c} : page'.said[d] = page.said[d]
  BY <1>1, <1>7 DEF PageRow
<1>9. Shown' = Shown
  BY <1>7 DEF Shown
<1>10. page.pc = "idle" => page.ids = {} /\ page.left = {}
  BY DEF PageSound, PageTyped
<1>11. c \notin Passed
  BY <1>10 DEF Passed
<1>12. Passed' = Passed
  BY <1>6, <1>7, <1>10, <1>11 DEF Passed
<1>13. page.pc = "pass" => text # page.shown[c].content /\ c \in page.ids
  BY DEF text, Passable, Unsaved, PageSound, PageTyped
<1>14. PageTyped'
  BY <1>4, <1>6, <1>7, <1>9, <1>10 DEF PageSound, PageTyped
<1>15. ASSUME ~away PROVE Attended'
  <2>1. Attended
    BY <1>15 DEF PageSound
  <2>2. c \notin touched \cup saved => Matches(c)
    BY <1>11, <2>1 DEF Attended, ShownIsStored
  <2>3. SaveUnderWay'
    <3>1. tab'[Page].kind = "update" /\ tab'[Page].c = c /\ tab'[Page].old = cand[c]
      BY <1>5
    <3>2. /\ page'.now.c = c /\ page'.now.text = text /\ page'.now.over = page.shown[c].content
          /\ page'.now.confirm = (page.pc = "pass")
      BY <1>2, <1>6, <1>7
    <3>3. c \in Shown' \ page'.left /\ (c \notin touched \cup saved => Matches(c)')
      BY <1>5, <1>7, <1>9, <2>2 DEF Matches
    <3>4. page.pc = "pass" => /\ page'.said[c] = text /\ text # page'.shown[c].content
                              /\ c \in page'.ids
      BY <1>7, <1>8, <1>13
    <3>5. QED
      BY <1>5, <1>7, <3>1, <3>2, <3>3, <3>4 DEF SaveUnderWay
  <2>4. ShownIsStored'
    BY <1>5, <1>7, <1>8, <1>9, <1>11, <1>12, <2>1, <2>2 DEF Attended, ShownIsStored, Matches, Passed, Shown
  <2>5. page.at # "list"
    BY DEF PageSound, PageTyped, Shown, NoRows
  <2>6. \A w \in Way : page.asked[w] = "no"
    BY <2>1, <2>5 DEF Attended
  <2>7. QED
    BY <1>7, <1>9, <2>1, <2>3, <2>4, <2>6 DEF Attended
<1>16. QED
  BY <1>14, <1>15 DEF PageSound

LEMMA PatchedKeeps ==
    ASSUME DeskTypes, PageSound, scene \in Scenes, Page \in scene.tabs, UNCHANGED scene, Patched
    PROVE  PageSound'
<1>1. page \in PageRow /\ page.pc = "patch" /\ UNCHANGED <<touched, saved, away>>
  BY DEF PageSound, PageTyped, Patched, Handler, hvars
<1>2. CASE ~page.now.confirm
  BY <1>1, <1>2, Reopened DEF Patched
<1>3. CASE page.now.confirm
  <2> DEFINE c == page.now.c
  <2>1. page' = [page EXCEPT !.pc = "pass", !.now = None]
    BY <1>3 DEF Patched
  <2>2. /\ page' \in PageRow /\ page'.pc = "pass" /\ page'.left = page.left
        /\ page'.shown = page.shown /\ page'.edit = page.edit /\ page'.chosen = page.chosen
        /\ page'.ids = page.ids /\ page'.said = page.said
        /\ page'.at = page.at /\ page'.asked = page.asked
    BY <1>1, <2>1 DEF PageRow
  <2>3. Shown' = Shown
    BY <2>2 DEF Shown
  <2>4. PageTyped'
    BY <1>1, <2>2, <2>3 DEF PageSound, PageTyped
  <2>5. ASSUME ~away PROVE Attended'
    <3>1. Attended
      BY <2>5 DEF PageSound
    <3>2. /\ c \in Shown \ page.left /\ c \in page.ids /\ c \in Candidate /\ tab[Page].c = c
          /\ page.said[c] = page.now.text /\ page.now.text # page.shown[c].content
          /\ c \notin touched \cup saved => tab[Page].old = cand[c]
      BY <1>1, <1>3, <3>1 DEF Attended, SaveUnderWay, Shown
    <3>3. /\ \A d \in Candidate \ {c} : cand'[d] = cand[d]
          /\ cand'[c].content = Column(tab[Page].old.content, page.now.text, cand[c].content)
      BY <3>2 DEF Patched, UpdateTo, DeskTypes
    <3>4. c \notin touched \cup saved => cand'[c].content = page.said[c]
      BY <3>2, <3>3 DEF Column
    <3> HIDE DEF c
    <3>5. Passed' = Passed \cup {c}
      BY <1>1, <2>2, <3>2 DEF Passed, c
    <3>6. ASSUME NEW d \in Shown \ (touched \cup saved), d # c
          PROVE  IF d \in Passed'
                 THEN \/ Matches(d)' /\ (cand'[d].content = page'.said[d] \/ cand'[d].status = "rejected")
                      \/ cand'[d].content = page'.said[d] /\ page'.said[d] # page'.shown[d].content
                 ELSE Matches(d)'
      BY <2>2, <3>1, <3>3, <3>5, <3>6 DEF Attended, ShownIsStored, Matches, Shown
    <3>7. ShownIsStored'
      BY <1>1, <2>2, <2>3, <3>2, <3>4, <3>5, <3>6 DEF ShownIsStored, Matches
    <3>8. QED
      BY <1>1, <2>2, <2>3, <3>1, <3>7 DEF Attended, SaveUnderWay
  <2>6. QED
    BY <1>1, <2>4, <2>5 DEF PageSound
<1>4. QED
  BY <1>2, <1>3

LEMMA ErrorsKeep ==
    ASSUME DeskTypes, PageSound, scene \in Scenes, Page \in scene.tabs, UNCHANGED scene, Refused \/ Lost
    PROVE  PageSound'
<1>1. /\ page \in PageRow /\ page.pc \in {"wait", "patch", "pass"} /\ page' = Quit
      /\ saved' = saved \cup SavedInVain /\ UNCHANGED <<cand, touched, away>>
  BY DEF Refused, Lost, PageSound, PageTyped
<1>2. /\ page' \in PageRow /\ page'.pc = "idle" /\ page'.shown = page.shown /\ page'.edit = page.edit
      /\ page'.chosen = page.chosen /\ page'.ids = {} /\ page'.left = {}
      /\ page'.at = page.at /\ page'.asked = page.asked
  BY <1>1, QuitIs
<1>3. Shown' = Shown
  BY <1>2 DEF Shown
<1>4. PageTyped'
  BY <1>1, <1>2, <1>3 DEF PageSound, PageTyped
<1>5. ASSUME ~away PROVE Attended'
  <2>1. Attended
    BY <1>5 DEF PageSound
  <2>2. ASSUME NEW c \in Shown \ (touched \cup saved \cup SavedInVain) PROVE Matches(c)
    <3>1. CASE c \in Passed
      <4>1. page.said[c] = page.shown[c].content
        BY <2>2, <3>1 DEF SavedInVain, Passed, Shown
      <4>2. QED
        BY <2>1, <2>2, <3>1, <4>1 DEF Attended, ShownIsStored
    <3>2. CASE c \notin Passed
      BY <2>1, <2>2, <3>2 DEF Attended, ShownIsStored
    <3>3. QED
      BY <3>1, <3>2
  <2>3. ShownIsStored'
    BY <1>1, <1>2, <1>3, <2>2 DEF ShownIsStored, Passed, Matches
  <2>4. \A w \in Way : page.asked[w] = "no"
    BY <1>1, <2>1 DEF Attended
  <2>5. QED
    BY <1>2, <1>3, <2>1, <2>3, <2>4 DEF Attended, SaveUnderWay
<1>6. QED
  BY <1>1, <1>4, <1>5 DEF PageSound

LEMMA ElsewhereKeeps ==
    ASSUME DeskTypes, PageSound, scene \in Scenes, Page \in scene.tabs, UNCHANGED scene, Elsewhere
    PROVE  PageSound'
<1>1. UNCHANGED <<page, saved, away>> /\ touched' = touched \cup {c \in Candidate : cand'[c] # cand[c]}
  BY DEF Elsewhere
<1>2. PICK t \in scene.tabs \ {Page} : Desk(t)
  BY DEF Elsewhere
<1>3. tab'[Page] = tab[Page]
  BY <1>2, PageAssumption
     DEF Desk, UploadRead, UploadWrite, Recognize, Build, EditRead, Open, UpdateWrite, UpdateTo,
         SplitWrite, PreviewRead, PreviewWrite, Drop, Confirm, ConfirmThese, DeskTypes
<1>4. Shown' = Shown /\ Passed' = Passed
  BY <1>1 DEF Shown, Passed
<1>5. \A c \in Candidate \ touched' : c \notin touched /\ cand'[c] = cand[c]
  BY <1>1
<1>6. PageTyped'
  BY <1>1, <1>4 DEF PageSound, PageTyped
<1>7. ASSUME ~away PROVE Attended'
  <2>1. Attended
    BY <1>7 DEF PageSound
  <2>2. SaveUnderWay'
    BY <1>1, <1>3, <1>4, <1>5, <2>1 DEF Attended, SaveUnderWay, Matches, Shown
  <2>3. ShownIsStored'
    BY <1>1, <1>4, <1>5, <2>1 DEF Attended, ShownIsStored, Matches, Shown
  <2>4. QED
    BY <1>1, <1>4, <2>1, <2>2, <2>3 DEF Attended
<1>8. QED
  BY <1>1, <1>6, <1>7 DEF PageSound

LEMMA PageKeeps ==
    ASSUME DeskTypes, PageSound, scene \in Scenes, Page \in scene.tabs, UNCHANGED scene, PageStep
    PROVE  PageSound'
<1>1. CASE Save \/ PassSaving
  <2>1. PICK c \in Shown : /\ Patch(c)
                           /\ \/ page.pc = "idle" /\ page.asked["own"] = "no"
                              \/ page.pc = "pass" /\ c \in page.left /\ ~Passable(c)
    BY <1>1 DEF Save, PassSaving, Handler, AtRest, Editable
  <2>2. UNCHANGED <<touched, saved, away>>
    BY <1>1 DEF Save, PassSaving, hvars
  <2>3. QED
    BY <2>1, <2>2, SavingKeeps
<1>2. CASE \E w \in Way : Display(w)
  BY <1>2, Displayed
<1>3. QED
  BY <1>1, <1>2, WaysKeep, HandsKeep, AskingKeeps, PassingKeeps, PatchedKeeps, ErrorsKeep, ElsewhereKeeps
     DEF PageStep

\* What the page does to the desk.
LEMMA PageIsMove ==
    ASSUME DeskTypes, PageSound, scene \in Scenes, Page \in scene.tabs, PageStep
    PROVE  TabsMove \/ \E t \in scene.tabs : DeskMove(t)
<1>1. CASE UNCHANGED cvars
  BY <1>1 DEF cvars, TabsMove
<1>2. CASE Request \/ Answered \/ Confirmed \/ Save \/ PassSaving
  <2>1. CASE Request
    BY <1>1, <2>1 DEF Request, DeskMove
  <2>2. CASE Answered \/ Confirmed \/ Save \/ PassSaving
    BY <2>2 DEF Recognize, Answered, Confirmed, Save, PassSaving, Patch, DeskMove
  <2>3. QED
    BY <1>2, <2>1, <2>2
<1>3. CASE Patched
  <2>1. page.pc = "patch" /\ UpdateTo(Page, TRUE, page.now.text, tab[Page].old.photos)
    BY <1>3 DEF Patched, Handler
  <2>2. page.now.text \in Content
    BY <2>1 DEF PageSound, PageTyped, Patching
  <2>3. RowOK(tab[Page].old) /\ tab[Page].old.status \in {"pending_review", "confirmed"}
    BY <2>1, PageAssumption DEF UpdateTo, Asked, DeskTypes, ReadOK
  <2>4. tab[Page].old.photos \in (SUBSET photos) \ {{}}
    BY <2>3 DEF RowOK, CandidateRow
  <2>5. QED
    BY <2>1, <2>2, <2>4 DEF DeskMove
<1>4. CASE Refused
  BY <1>4, PageAssumption DEF Refused, TabsMove, DeskTypes
<1>5. CASE Lost
  <2>1. PICK t \in scene.tabs \ {Page} : tab' = [tab EXCEPT ![t] = tab[Page], ![Page] = None]
    BY <1>5 DEF Lost
  <2>2. DOMAIN tab' = DOMAIN tab /\ \A s \in DOMAIN tab : tab'[s] = None \/ tab'[s] = tab[s] \/ tab'[s] = tab[Page]
    BY <2>1
  <2>3. Page \in DOMAIN tab \cap scene.tabs
    BY PageAssumption DEF DeskTypes
  <2>4. QED
    BY <1>5, <2>2, <2>3 DEF Lost, TabsMove
<1>6. CASE Elsewhere
  <2>1. PICK t \in scene.tabs : Desk(t)
    BY <1>6 DEF Elsewhere
  <2>2. t \in Tab
    BY SceneAssumption
  <2>3. QED
    BY <2>1, <2>2, DeskIsMove
<1>7. QED
  BY <1>1, <1>2, <1>3, <1>4, <1>5, <1>6
     DEF PageStep, Enter, Read, Display, OpenFails, Leave, Type, Toggle, ClickConfirm, Pass, allvars

-----------------------------------------------------------------------------
(* Receipts.                                                                *)

\* A worker at one of these knows what there is to put into the receipt.
Known == {"check", "receipt", "recovered"}

Receipts ==
    /\ ReceiptsHaveBooks
    /\ \A w \in Worker : run[w].pc \in Known /\ run[w].key.match = None
          => library[run[w].key.content] > 0

LEMMA DeskExecutesNone ==
    ASSUME scene \in Scenes, DeskTypes, NEW t \in Tab, DeskMove(t)
    PROVE  \A c \in Candidate : cand'[c].status = "executed" => cand[c].status = "executed"
<1>1. \A c \in Candidate : cand[c] \in CandidateRow
  BY DEF DeskTypes
<1>2. ASSUME NEW protect \in BOOLEAN, NEW byUser \in BOOLEAN, Build(t, protect, byUser),
             NEW c \in Candidate
      PROVE  cand'[c] = cand[c] \/ cand'[c].status \in {"pending_review", "rejected", "none"}
  <2> DEFINE edited == IF protect THEN Authored ELSE {}
             stale  == In("pending_review") \ edited
             free   == photos \ (KeptPhotos \cup UNION {cand[d].photos : d \in edited})
             Row(g, x, d) == [status |-> "pending_review", version |-> 1, content |-> x[d],
                              photos |-> {p \in free : g[p] = d}, match |-> None, byUser |-> byUser]
             Rebuilt(n, g, x) == [d \in Candidate |->
                CASE d \in FreshIds(n) -> Row(g, x, d)
                  [] d \in stale /\ Referenced(d) -> [cand[d] EXCEPT !.status = "rejected"]
                  [] d \in stale /\ ~Referenced(d) -> NoCandidate
                  [] OTHER -> cand[d]]
  <2>1. PICK n \in 0 .. Cardinality(free) :
         \E g \in [free -> FreshIds(n)], x \in [FreshIds(n) -> scene.contents] :
            /\ Cardinality(FreshIds(n)) = n
            /\ {g[p] : p \in free} = FreshIds(n)
            /\ cand' = Rebuilt(n, g, x)
    BY <1>2, Zenon DEF Build
  <2> HIDE DEF Rebuilt
  <2>2. PICK g, x : cand' = Rebuilt(n, g, x)
    BY <2>1
  <2> HIDE DEF stale, free, Row
  <2>3. cand'[c] = CASE c \in FreshIds(n) -> Row(g, x, c)
                     [] c \in stale /\ Referenced(c) -> [cand[c] EXCEPT !.status = "rejected"]
                     [] c \in stale /\ ~Referenced(c) -> NoCandidate
                     [] OTHER -> cand[c]
    BY <2>2 DEF Rebuilt
  <2>4. Row(g, x, c).status = "pending_review" /\ NoCandidate.status = "none"
    BY DEF Row, NoCandidate
  <2>5. [cand[c] EXCEPT !.status = "rejected"].status = "rejected"
    BY <1>1 DEF CandidateRow
  <2>6. QED
    BY <2>3, <2>4, <2>5
<1>3. ASSUME NEW given, NEW x, NEW P, UpdateTo(t, given, x, P), NEW c \in Candidate
      PROVE  cand'[c] = cand[c] \/ cand'[c].status \in {"pending_review", cand[c].status}
  <2>1. tab[t].old.status \in {"pending_review", "confirmed"}
    BY <1>3 DEF UpdateTo, Asked, DeskTypes, ReadOK
  <2>2. Column(tab[t].old.status, Reviewed(tab[t].old.status), cand[tab[t].c].status)
            \in {"pending_review", cand[tab[t].c].status}
    BY <2>1 DEF Column, Reviewed
  <2> DEFINE row == [status  |-> Column(tab[t].old.status, Reviewed(tab[t].old.status), cand[tab[t].c].status),
                     version |-> Edited(tab[t].old.version),
                     content |-> Column(tab[t].old.content, x, cand[tab[t].c].content),
                     photos  |-> Column(tab[t].old.photos, P, cand[tab[t].c].photos),
                     match   |-> IF given THEN Column(tab[t].old.match, None, cand[tab[t].c].match)
                                 ELSE cand[tab[t].c].match,
                     byUser  |-> TRUE]
  <2>3. cand' = [cand EXCEPT ![tab[t].c] = row] /\ DOMAIN cand = Candidate
    BY <1>3 DEF UpdateTo, DeskTypes
  <2>4. row.status \in {"pending_review", cand[tab[t].c].status}
    BY <2>2
  <2> HIDE DEF row
  <2>5. cand'[c] = IF c = tab[t].c THEN row ELSE cand[c]
    BY <2>3
  <2>6. QED
    BY <2>4, <2>5
<1>4. ASSUME SplitWrite(t), NEW c \in Candidate
      PROVE  cand'[c] = cand[c] \/ cand'[c].status \in {"pending_review", cand[c].status}
  <2> DEFINE o == tab[t].c
             old == tab[t].old
  <2>1. old.status = "pending_review" /\ o \in Candidate /\ old \in CandidateRow
    BY <1>4 DEF SplitWrite, Asked, DeskTypes, ReadOK, RowOK
  <2>2. PICK P \in (SUBSET old.photos) \ {{}, old.photos}, d \in FreshIds(1) :
            cand' = [cand EXCEPT
                ![d] = [old EXCEPT !.version = 1, !.photos = P, !.match = None],
                ![o] = [@ EXCEPT !.version = old.version + 1, !.photos = old.photos \ P]]
    BY <1>4, Zenon DEF SplitWrite
  <2>3. d \in Candidate /\ cand[d].status = "none" /\ d # o
    BY <1>4, FreshIsFree DEF SplitWrite
  <2> DEFINE part == [old EXCEPT !.version = 1, !.photos = P, !.match = None]
             rest == [cand[o] EXCEPT !.version = old.version + 1, !.photos = old.photos \ P]
  <2>4. cand'[c] = IF c = d THEN part ELSE IF c = o THEN rest ELSE cand[c]
    BY <2>1, <2>2, <2>3 DEF DeskTypes
  <2>5. part.status = "pending_review" /\ rest.status = cand[o].status
    BY <1>1, <2>1 DEF CandidateRow
  <2> HIDE DEF part, rest
  <2>6. QED
    BY <2>4, <2>5
<1>5. ASSUME PreviewWrite(t), NEW c \in Candidate PROVE cand'[c].status = cand[c].status
  <2>1. cand'[c] = cand[c] \/ \E x : cand'[c] = [cand[c] EXCEPT !.match = x]
    BY <1>5 DEF PreviewWrite
  <2>2. QED
    BY <1>1, <2>1 DEF CandidateRow
<1>6. ASSUME NEW S, ConfirmThese(t, S), NEW c \in Candidate
      PROVE  cand'[c] = cand[c] \/ cand'[c].status = "confirmed"
  <2>1. cand'[c] = cand[c] \/ cand'[c] = [cand[c] EXCEPT !.status = "confirmed"]
    BY <1>6 DEF ConfirmThese
  <2>2. QED
    BY <1>1, <2>1 DEF CandidateRow
<1>7. CASE UNCHANGED cand
  BY <1>7
<1>8. QED
  BY <1>2, <1>3, <1>4, <1>5, <1>6, <1>7
     DEF DeskMove, UploadRead, UploadWrite, EditRead, PreviewRead

LEMMA DeskKeepsReceipts ==
    ASSUME ExecInv, Receipts, DeskEffect,
           \A c \in Candidate : cand'[c].status = "executed" => cand[c].status = "executed"
    PROVE  Receipts'
<1>1. \A k \in DOMAIN cmd : cmd[k].status = "completed" => cmd'[k] = cmd[k] /\ k \in DOMAIN cmd'
  BY DEF DeskEffect
<1>2. ASSUME NEW k \in DOMAIN cmd', cmd'[k].status = "completed"
      PROVE  k \in DOMAIN cmd /\ cmd[k].status = "completed"
  <2>1. k \in DOMAIN cmd
    BY <1>2 DEF DeskEffect
  <2>2. cmd[k] \in CommandRow
    BY <2>1 DEF ExecInv, ExecTypes
  <2>3. cmd'[k] = cmd[k] \/ cmd'[k] = [cmd[k] EXCEPT !.status = "superseded"]
    BY <2>1 DEF DeskEffect
  <2>4. QED
    BY <1>2, <2>1, <2>2, <2>3 DEF CommandRow
<1>3. UNCHANGED <<run, library>>
  BY DEF DeskEffect
<1>4. QED
  BY <1>1, <1>2, <1>3 DEF Receipts, ReceiptsHaveBooks, In

LEMMA WorkerKeepsReceipts ==
    ASSUME ExecInv, DeskTypes, Receipts, LeasesKept, UNCHANGED scene, NEW w \in Worker,
           Start(w) \/ Retry(w) \/ Work(w) \/ Unauthorized(w) \/ Die(w)
    PROVE  Receipts'
<1> DEFINE k == run[w].key
<1> USE DEF At
<1>1. /\ run[w] \in RunRow /\ w \in DOMAIN run
      /\ run[w].pc \in AtCommand => k \in DOMAIN cmd /\ cmd[k] \in CommandRow
      /\ library \in [Content -> Nat]
      /\ \A j \in DOMAIN cmd : j.content \in Content /\ j.cand \in Candidate /\ library[j.content] \in Nat
  BY DEF ExecInv, ExecTypes, DeskTypes
<1>2. \A x \in Content : library'[x] \in Nat /\ library'[x] >= library[x]
  <2>1. CASE UNCHANGED library
    BY <1>1, <2>1
  <2>2. CASE Insert(w) /\ ~UNCHANGED library
    <3>1. k \in DOMAIN cmd /\ library' = [library EXCEPT ![k.content] = @ + 1]
      BY <1>1, <2>2 DEF Insert, AtCommand, Holding
    <3>2. QED
      BY <1>1, <3>1
  <2>3. QED
    BY <2>1, <2>2
       DEF Start, Retry, Work, Unauthorized, Die, Mark, Take, Claim, Bind, Check, Receipt, WorkFails,
           Fail, RecoverRead, RecoverWrite, SumUp, WriteStatus, Abort, cvars
\* What it completes has its book.
<1>3. ASSUME ~UNCHANGED cmd
      PROVE  /\ DOMAIN cmd' = DOMAIN cmd /\ k \in DOMAIN cmd
             /\ \A j \in DOMAIN cmd \ {k} : cmd'[j] = cmd[j]
             /\ cmd'[k].status = "completed" /\ k.match = None => library'[k.content] > 0
  <2>1. Claim(w) \/ Fail(w) \/ Receipt(w) \/ Insert(w) \/ RecoverWrite(w) \/ Unauthorized(w)
    BY <1>3 DEF Start, Retry, Work, Die, Mark, Take, Bind, Check, WorkFails, RecoverRead, SumUp,
                WriteStatus, Abort, cvars
  <2>2. run[w].pc \in AtCommand
    BY <1>3, <2>1 DEF Claim, Fail, Receipt, Insert, RecoverWrite, Unauthorized, AtCommand, Holding
  <2>3. PICK row : cmd' = [cmd EXCEPT ![k] = row]
    BY <1>3, <2>1 DEF Claim, Fail, Receipt, Insert, RecoverWrite, Unauthorized, Set
  <2>4. CASE Receipt(w) \/ (RecoverWrite(w) /\ run[w].pc = "recovered")
    <3>1. k.match = None => library[k.content] > 0
      BY <2>4 DEF Receipts, Receipt, Known
    <3>2. QED
      BY <1>1, <1>2, <2>2, <2>3, <3>1
  <2>5. CASE Insert(w)
    <3>1. library' = [library EXCEPT ![k.content] = @ + 1]
      BY <1>3, <2>5 DEF Insert
    <3>2. QED
      BY <1>1, <2>2, <2>3, <3>1
  <2>6. CASE Claim(w) \/ Fail(w) \/ Unauthorized(w) \/ (RecoverWrite(w) /\ run[w].pc # "recovered")
    <3>1. \/ row = [status |-> "executing", epoch |-> cmd[k].epoch + 1, expired |-> FALSE]
          \/ \E status \in {"failed", "pending"} : row = Released(k, status)
      <4>1. cmd[k] \in CommandRow
        BY <1>1, <2>2
      <4>2. \/ cmd' = [cmd EXCEPT ![k] = [status |-> "executing", epoch |-> cmd[k].epoch + 1, expired |-> FALSE]]
            \/ \E status \in {"failed", "pending"} : cmd' = [cmd EXCEPT ![k] = Released(k, status)]
        BY <1>3, <2>6 DEF Claim, Fail, Unauthorized, RecoverWrite, Set
      <4>3. QED
        BY <1>1, <2>2, <2>3, <4>2
    <3>2. row.status # "completed"
      <4>1. DOMAIN cmd[k] = {"status", "epoch", "expired"}
        BY <1>1, <2>2 DEF CommandRow
      <4>2. ASSUME NEW status PROVE Released(k, status).status = status
        BY <4>1 DEF Released
      <4>3. QED
        BY <3>1, <4>2
    <3>3. QED
      BY <1>1, <2>2, <2>3, <3>2
  <2>7. QED
    BY <2>1, <2>4, <2>5, <2>6
<1>4. \A j \in DOMAIN cmd' : cmd'[j].status = "completed" /\ j.match = None => library'[j.content] > 0
  <2>1. \A j \in DOMAIN cmd : cmd[j].status = "completed" /\ j.match = None => library'[j.content] > 0
    BY <1>1, <1>2 DEF Receipts, ReceiptsHaveBooks
  <2>2. QED
    BY <1>3, <2>1
\* Whom it marks as executed has a receipt.
<1>5. DOMAIN cmd' = DOMAIN cmd /\ \A j \in DOMAIN cmd : cmd[j].status = "completed" => cmd'[j].status = "completed"
  BY <1>3 DEF LeasesKept
<1>6. \A c \in In("executed")' : \E j \in DOMAIN cmd' : j.cand = c /\ cmd'[j].status = "completed"
  <2>1. CASE UNCHANGED cand
    BY <1>5, <2>1 DEF Receipts, ReceiptsHaveBooks, In
  <2>2. CASE ~UNCHANGED cand
    <3>1. Receipt(w) \/ Insert(w) \/ (RecoverWrite(w) /\ run[w].pc = "recovered")
      BY <2>2 DEF Start, Retry, Work, Unauthorized, Die, Mark, Take, Claim, Bind, Check, WorkFails,
                  Fail, RecoverRead, RecoverWrite, SumUp, WriteStatus, Abort, cvars
    <3>2. k \in DOMAIN cmd /\ cmd[k] \in CommandRow
      BY <1>1, <3>1 DEF Receipt, Insert, RecoverWrite, AtCommand, Holding
    <3>3. Executed(k.cand) /\ cmd' = [cmd EXCEPT ![k] = Released(k, "completed")]
      BY <2>2, <3>1 DEF Receipt, Insert, RecoverWrite, Set
    <3>4. cmd'[k].status = "completed"
      BY <3>2, <3>3 DEF Released, CommandRow
    <3>5. \A c \in Candidate \ {k.cand} : cand'[c] = cand[c]
      BY <3>3 DEF Executed, DeskTypes
    <3>6. QED
      BY <1>5, <3>2, <3>4, <3>5 DEF Receipts, ReceiptsHaveBooks, In
  <2>3. QED
    BY <2>1, <2>2
\* What it knows of the library.
<1> DEFINE Knows(v) == run'[v].pc \in Known /\ run'[v].key.match = None => library'[run'[v].key.content] > 0
<1>7. \A v \in Worker : run'[v] = run[v] => Knows(v)
  <2>1. \A v \in Worker : run[v].pc \in Known => run[v].key \in DOMAIN cmd
    BY DEF ExecInv, ExecTypes, Known, AtCommand, Holding
  <2>2. QED
    BY <1>1, <1>2, <2>1 DEF Receipts
<1> DEFINE InLibrary == k \in DOMAIN cmd /\ (k.match = None => library[k.content] > 0 \/ library'[k.content] > 0)
<1>8. InLibrary => (k.match = None => library'[k.content] > 0)
  BY <1>1, <1>2
<1>9. ASSUME NEW label, Goto(w, label), label \in Known => InLibrary
      PROVE  \A v \in Worker : Knows(v)
  <2>1. \A v \in Worker \ {w} : run'[v] = run[v]
    BY <1>9 DEF Goto
  <2>2. run'[w].pc = label /\ run'[w].key = k
    BY <1>1, <1>9 DEF Goto, RunRow
  <2>3. QED
    BY <1>7, <1>8, <1>9, <2>1, <2>2
<1>10. ASSUME NEW row, run' = [run EXCEPT ![w] = row], row.pc \in Known => InLibrary /\ row.key = k
       PROVE  \A v \in Worker : Knows(v)
  <2>1. run'[w] = row /\ \A v \in Worker \ {w} : run'[v] = run[v]
    BY <1>1, <1>10
  <2>2. QED
    BY <1>7, <1>8, <1>10, <2>1
<1>11. \A v \in Worker : Knows(v)
  <2>1. CASE Bind(w) \/ Insert(w) \/ Check(w)
    <3>1. k \in DOMAIN cmd
      BY <1>1, <2>1 DEF Bind, Insert, Check, AtCommand, Holding
    <3>2. PICK label : Goto(w, label)
      BY <2>1 DEF Bind, Insert, Check
    <3>3. CASE label \in Known
      <4>1. run'[w].pc = label
        BY <1>1, <3>2 DEF Goto, RunRow
      <4>2. CASE Bind(w)
        <5>1. label = "check" => k.match # None \/ library[k.content] > 0
          BY <1>1, <3>3, <4>1, <4>2 DEF Bind, Goto, RunRow, Known
        <5>2. label = "check"
          BY <1>1, <3>3, <4>1, <4>2 DEF Bind, Goto, RunRow, Known
        <5>3. QED
          BY <1>9, <3>1, <3>2, <5>1, <5>2
      <4>3. CASE Insert(w)
        <5>1. ~StillMissing(k.content)
          BY <1>1, <3>3, <4>1, <4>3 DEF Insert, Goto, Known, RunRow
        <5>2. library[k.content] > 0
          BY <1>1, <3>1, <5>1 DEF StillMissing
        <5>3. QED
          BY <1>9, <3>1, <3>2, <5>2
      <4>4. CASE Check(w)
        BY <1>9, <3>1, <3>2, <4>4 DEF Check, Receipts, Known
      <4>5. QED
        BY <2>1, <4>2, <4>3, <4>4
    <3>4. CASE label \notin Known
      BY <1>9, <3>2, <3>4
    <3>5. QED
      BY <3>3, <3>4
  <2>2. CASE RecoverRead(w)
    <3>1. PICK go \in {"next", "recoverFail", "handBack", "recovered", "claim"} :
              /\ run' = [run EXCEPT ![w].epoch = cmd[k].epoch, ![w].pc = go]
              /\ go = "recovered" => BookFound(k)
      BY <2>2 DEF RecoverRead, Overdue, OwnLease, Current
    <3> DEFINE row == [run[w] EXCEPT !.epoch = cmd[k].epoch, !.pc = go]
    <3>2. k \in DOMAIN cmd
      BY <1>1, <2>2 DEF RecoverRead, AtCommand
    <3>3. row.pc = go /\ row.key = k
      BY <1>1 DEF RunRow
    <3>4. run' = [run EXCEPT ![w] = row]
      BY <3>1
    <3>5. row.pc \in Known => InLibrary
      BY <3>1, <3>2, <3>3 DEF BookFound, Known
    <3> HIDE DEF row
    <3>6. QED
      BY <1>10, <3>3, <3>4, <3>5
  <2>3. CASE \/ Mark(w) \/ Receipt(w) \/ WorkFails(w) \/ Fail(w) \/ RecoverWrite(w) \/ Unauthorized(w)
             \/ Claim(w) /\ ~Claimable(k)
    <3>1. PICK label \in {"next", "fail", "claim", "abort"} : Goto(w, label)
      BY <2>3 DEF Mark, Receipt, WorkFails, Fail, RecoverWrite, Unauthorized, Claim
    <3>2. QED
      BY <1>9, <3>1 DEF Known
  <2>4. CASE Claim(w) /\ Claimable(k)
    <3> DEFINE row == [run[w] EXCEPT !.pc = "bind", !.epoch = cmd[k].epoch + 1]
    <3>1. run' = [run EXCEPT ![w] = row] /\ row.pc = "bind"
      BY <1>1, <2>4 DEF Claim, RunRow
    <3> HIDE DEF row
    <3>2. QED
      BY <1>10, <3>1 DEF Known
  <2>5. CASE Take(w)
    <3>1. PICK j \in run[w].todo, go \in {"next", "recover", "claim"} :
              run' = [run EXCEPT ![w].pc = go, ![w].todo = @ \ {j}, ![w].key = j,
                                 ![w].epoch = cmd[j].epoch]
      BY <2>5 DEF Take
    <3> DEFINE row == [run[w] EXCEPT !.pc = go, !.todo = @ \ {j}, !.key = j, !.epoch = cmd[j].epoch]
    <3>2. run' = [run EXCEPT ![w] = row] /\ row.pc = go
      BY <1>1, <3>1 DEF RunRow
    <3> HIDE DEF row
    <3>3. QED
      BY <1>10, <3>2 DEF Known
  <2>6. CASE SumUp(w) \/ Abort(w)
    <3>1. PICK result : run' = [run EXCEPT ![w].pc = "sum", ![w].result = result]
      BY <2>6 DEF SumUp, Abort
    <3> DEFINE row == [run[w] EXCEPT !.pc = "sum", !.result = result]
    <3>2. run' = [run EXCEPT ![w] = row] /\ row.pc = "sum"
      BY <1>1, <3>1 DEF RunRow
    <3> HIDE DEF row
    <3>3. QED
      BY <1>10, <3>2 DEF Known
  <2>7. CASE Start(w) \/ Retry(w) \/ WriteStatus(w) \/ Die(w)
    <3>1. CASE Start(w)
      <4>1. PICK K, result : run' = [run EXCEPT ![w] = [Idle EXCEPT !.pc = "mark", !.todo = K,
                                                                   !.batch = TRUE, !.result = result]]
        BY <3>1, Zenon DEF Start
      <4> DEFINE row == [Idle EXCEPT !.pc = "mark", !.todo = K, !.batch = TRUE, !.result = result]
      <4>2. run' = [run EXCEPT ![w] = row] /\ row.pc = "mark"
        BY <4>1 DEF Idle
      <4> HIDE DEF row
      <4>3. QED
        BY <1>10, <4>2 DEF Known
    <3>2. CASE Retry(w)
      <4>1. PICK K : run' = [run EXCEPT ![w] = [Idle EXCEPT !.pc = "next", !.todo = K]]
        BY <3>2, Zenon DEF Retry
      <4> DEFINE row == [Idle EXCEPT !.pc = "next", !.todo = K]
      <4>2. run' = [run EXCEPT ![w] = row] /\ row.pc = "next"
        BY <4>1 DEF Idle
      <4> HIDE DEF row
      <4>3. QED
        BY <1>10, <4>2 DEF Known
    <3>3. CASE WriteStatus(w) \/ Die(w)
      <4>1. run' = [run EXCEPT ![w] = Idle] /\ Idle.pc = "idle"
        BY <3>3 DEF WriteStatus, Die, Idle
      <4>2. QED
        BY <1>10, <4>1 DEF Known
    <3>4. QED
      BY <2>7, <3>1, <3>2, <3>3
  <2>8. QED
    BY <2>1, <2>2, <2>3, <2>4, <2>5, <2>6, <2>7 DEF Work
<1>12. QED
  BY <1>4, <1>6, <1>11 DEF Receipts, ReceiptsHaveBooks

LEMMA SurroundingsKeepReceipts ==
    ASSUME ExecInv, DeskTypes, Receipts, Expire \/ OtherIntake
    PROVE  Receipts'
<1>1. CASE Expire
  <2>1. PICK k \in DOMAIN cmd : /\ cmd' = [cmd EXCEPT ![k] = [cmd[k] EXCEPT !.expired = TRUE]]
                                /\ cmd[k].status = "executing" /\ cmd[k] \in CommandRow
    BY <1>1 DEF Expire, Set, ExecInv, ExecTypes
  <2>2. DOMAIN cmd' = DOMAIN cmd /\ \A j \in DOMAIN cmd : cmd'[j].status = cmd[j].status
    BY <2>1 DEF CommandRow
  <2>3. UNCHANGED <<cand, run, library>>
    BY <1>1 DEF Expire
  <2>4. QED
    BY <2>2, <2>3 DEF Receipts, ReceiptsHaveBooks, In
<1>2. CASE OtherIntake
  <2>1. UNCHANGED <<cand, run, cmd>>
    BY <1>2 DEF OtherIntake
  <2>2. library \in [Content -> Nat] /\ \E x : library' = [library EXCEPT ![x] = 1]
    BY <1>2 DEF OtherIntake, ExecInv, ExecTypes
  <2>3. \A x \in Content : library[x] > 0 => library'[x] > 0
    BY <2>2
  <2>4. /\ \A k \in DOMAIN cmd : k.content \in Content
        /\ \A w \in Worker : run[w].pc \in Known => run[w].key.content \in Content
    BY DEF DeskTypes, ExecInv, ExecTypes, Known, AtCommand, Holding
  <2>5. QED
    BY <2>1, <2>3, <2>4 DEF Receipts, ReceiptsHaveBooks, In
<1>3. QED
  BY <1>1, <1>2

-----------------------------------------------------------------------------
(* The workbench.                                                           *)

WorkbenchInv == ExecInv /\ ClaimsBounded /\ DeskTypes /\ Decided /\ PageSound /\ Receipts

LEMMA NoPageIs ==
    /\ NoPage.pc = "idle" /\ NoPage.shown = NoRows /\ NoPage.ids = {} /\ NoPage.left = {}
    /\ NoPage.at = "list" /\ NoPage.chosen = {} /\ \A w \in Way : NoPage.asked[w] = "no"
<1>1. NoPage.asked = [own |-> "no", click |-> "no"]
  BY DEF NoPage
<1>2. QED
  BY <1>1 DEF NoPage, Way

LEMMA WorkbenchStep ==
    ASSUME WorkbenchInv, [WNext]_wvars
    PROVE  WorkbenchInv'
<1> USE DEF WorkbenchInv
<1>0. scene \in Scenes /\ ExecInv' /\ LeasesKept
  BY StepKeeps DEF ExecInv, ExecTypes
<1>1. CASE UNCHANGED wvars
  <2>1. UNCHANGED <<scene, item, photos, cand, cmd, library, tab, run, page, touched, saved, away>>
    BY <1>1 DEF wvars, allvars, cvars, hvars
  <2>2. ClaimsBounded' /\ Receipts'
    BY <2>1, NoEffect, DeskKeepsClaims, DeskKeepsReceipts
  <2>3. DeskTypes' /\ Decided'
    BY <1>0, <2>1, TabsMoveKeeps DEF TabsMove
  <2>4. Shown' = Shown /\ Passed' = Passed
    BY <2>1 DEF Shown, Passed
  <2>5. PageSound'
    BY <2>1, <2>4 DEF PageSound, PageTyped, Attended, SaveUnderWay, ShownIsStored, Matches
  <2>6. QED
    BY <1>0, <2>2, <2>3, <2>5
<1>2. CASE Page \in scene.tabs /\ PageStep /\ UNCHANGED scene
  <2>1. ClaimsBounded'
    BY <1>2, PageEffect, DeskKeepsClaims
  <2>2. TabsMove \/ \E t \in scene.tabs : DeskMove(t)
    BY <1>0, <1>2, PageIsMove
  <2>3. DeskTypes' /\ Decided'
    BY <1>0, <1>2, <2>2, MoveKeeps, TabsMoveKeeps
  <2>4. PageSound'
    BY <1>0, <1>2, PageKeeps
  <2>5. \A c \in Candidate : cand'[c].status = "executed" => cand[c].status = "executed"
    BY <1>0, <2>2, SceneAssumption, DeskExecutesNone DEF TabsMove
  <2>6. Receipts'
    BY <1>2, <2>5, PageEffect, DeskKeepsReceipts
  <2>7. QED
    BY <1>0, <2>1, <2>3, <2>4, <2>6
<1>3. CASE Page \notin scene.tabs /\ ENext /\ UNCHANGED <<page, hvars>>
  <2>0. UNCHANGED scene
    BY <1>3 DEF ENext
  <2>1. PageSound'
    <3>1. page = NoPage /\ page' = page /\ page \in PageRow
      BY <1>3 DEF PageSound, PageTyped
    <3>2. /\ page'.pc = "idle" /\ page'.shown = NoRows /\ page'.ids = {} /\ page'.left = {}
          /\ page'.at = "list" /\ page'.chosen = {} /\ \A w \in Way : page'.asked[w] = "no"
      BY <3>1, NoPageIs
    <3>3. Shown' = {}
      BY <3>2 DEF Shown, NoRows
    <3>4. QED
      BY <2>0, <3>1, <3>2, <3>3 DEF PageSound, PageTyped, Attended, SaveUnderWay, ShownIsStored
  <2>2. CASE \E t \in scene.tabs : Desk(t) /\ UNCHANGED run
    <3>1. PICK t \in scene.tabs : Desk(t) /\ UNCHANGED run
      BY <2>2
    <3>2. t \in Tab
      BY <1>0, SceneAssumption
    <3>3. ClaimsBounded'
      BY <2>0, <3>1, TabEffect, DeskKeepsClaims
    <3>4. DeskMove(t) \/ TabsMove
      BY <1>0, <3>1, <3>2, DeskIsMove
    <3>5. DeskTypes' /\ Decided'
      BY <1>0, <2>0, <3>4, MoveKeeps, TabsMoveKeeps
    <3>6. \A c \in Candidate : cand'[c].status = "executed" => cand[c].status = "executed"
      BY <1>0, <3>2, <3>4, DeskExecutesNone DEF TabsMove
    <3>7. Receipts'
      BY <2>0, <3>1, <3>6, TabEffect, DeskKeepsReceipts
    <3>8. QED
      BY <1>0, <2>1, <3>3, <3>5, <3>7
  <2>3. CASE \E w \in scene.workers : Start(w) \/ Retry(w) \/ Work(w) \/ Unauthorized(w) \/ Die(w)
    <3>1. PICK w \in scene.workers : Start(w) \/ Retry(w) \/ Work(w) \/ Unauthorized(w) \/ Die(w)
      BY <2>3
    <3>2. w \in Worker
      BY <1>0, WorkersAssumption
    <3>3. ClaimsBounded'
      BY <3>1, <3>2, WorkerKeepsClaims
    <3>4. DeskTypes' /\ Decided'
      BY <2>0, <3>1, WorkerKeepsDesk
    <3>5. Receipts'
      BY <1>0, <2>0, <3>1, <3>2, WorkerKeepsReceipts
    <3>6. QED
      BY <1>0, <2>1, <3>3, <3>4, <3>5
  <2>4. CASE Expire \/ OtherIntake
    BY <1>0, <2>0, <2>1, <2>4, SurroundingsKeepClaims, SurroundingsKeepDesk, SurroundingsKeepReceipts
  <2>5. QED
    BY <1>3, <2>2, <2>3, <2>4 DEF ENext, Served
<1>4. QED
  BY <1>1, <1>2, <1>3 DEF WNext

LEMMA WorkbenchInvariant == WSpec => []WorkbenchInv
<1>1. ASSUME WInit PROVE WorkbenchInv
  <2>1. /\ scene \in Scenes /\ cmd = [k \in {} |-> None] /\ run = [w \in Worker |-> Idle]
        /\ cand = [c \in Candidate |-> NoCandidate] /\ item = "draft" /\ photos = {}
        /\ tab = [t \in Tab |-> None] /\ page = NoPage
    BY <1>1 DEF WInit, EInit, Init
  <2>2. ExecInv
    BY <1>1 DEF WInit, EInit, Init, ExecInv, ExecTypes, ClaimsNumbered, BookedOnce, Idle, RunRow,
                Labels, Holding, AtCommand
  <2>3. ClaimsBounded
    BY <2>1 DEF ClaimsBounded, Idle, AtCommand, Holding
  <2>4. DeskTypes
    <3>1. scene.versions \in Nat
      BY <2>1, SceneAssumption
    <3>2. RowOK(NoCandidate) /\ NoCandidate \in CandidateRow
      BY <3>1 DEF RowOK, NoCandidate, CandidateRow, CandidateStatus, Text
    <3>3. QED
      BY <2>1, <3>2 DEF DeskTypes, ItemStatus
  <2>5. Decided
    BY <2>1, SceneAssumption DEF Decided, In, NoCandidate, ConfirmedAsDecided
  <2>6. PageSound
    <3>1. NoPage \in PageRow
      <4>1. NoRows \in Rows /\ NoRows \in [Candidate -> Draft \cup {None}] /\ NoRows \in [Candidate -> Text]
        BY DEF NoRows, Rows, Text
      <4>2. NoPage.asked \in [Way -> {"no", "item", "other", "read"}] /\ NoPage.answer \in [Way -> Rows]
        BY <4>1 DEF NoPage, Way
      <4>3. QED
        BY <4>1, <4>2 DEF NoPage, PageRow
    <3>2. /\ page.pc = "idle" /\ page.shown = NoRows /\ page.ids = {} /\ page.left = {}
          /\ page.at = "list" /\ page.chosen = {} /\ \A w \in Way : page.asked[w] = "no"
      BY <2>1, NoPageIs
    <3>3. Shown = {}
      BY <3>2 DEF Shown, NoRows
    <3>4. QED
      BY <2>1, <3>1, <3>2, <3>3 DEF PageSound, PageTyped, Attended, SaveUnderWay, ShownIsStored
  <2>7. Receipts
    BY <2>1 DEF Receipts, ReceiptsHaveBooks, In, NoCandidate, Idle, Known
  <2>8. QED
    BY <2>2, <2>3, <2>4, <2>5, <2>6, <2>7 DEF WorkbenchInv
<1>2. WorkbenchInv /\ [WNext]_wvars => WorkbenchInv'
  BY WorkbenchStep
<1>3. QED
  BY <1>1, <1>2, PTL DEF WSpec

\* However many workers race for it, and other intakes beside them, a book is made once; and
\* every row keeps its type: candidates have photos, commands that are executed a lease.
THEOREM BooksAreMadeOnce == WSpec => []OneBookPerContent
<1>1. ASSUME WorkbenchInv PROVE OneBookPerContent
  <2> USE <1>1 DEF WorkbenchInv
  <2>1. \A c \in Candidate :
            /\ cand[c].version \in 0 .. scene.versions
            /\ cand[c].photos \subseteq photos
            /\ cand[c].status # "none" => cand[c].photos # {}
    BY DEF DeskTypes, RowOK, CandidateRow
  <2>2. ASSUME NEW k \in DOMAIN cmd
        PROVE  /\ cmd[k].epoch \in 0 .. MaxEpoch
               /\ cmd[k].expired => cmd[k].status = "executing"
               /\ cmd[k].status = "executing" => cmd[k].epoch > 0
    <3>1. cmd[k] \in CommandRow
      BY DEF ExecInv, ExecTypes
    <3>2. Cardinality(MayClaim(k)) \in Nat
      BY WorkersAreCounted DEF MayClaim
    <3>3. cmd[k].epoch + Cardinality(MayClaim(k)) <= MaxEpoch
      BY DEF ClaimsBounded
    <3>4. QED
      BY <3>1, <3>2, <3>3, WorkersAssumption DEF CommandRow
  <2>3. ETypeOK
    BY <2>1, <2>2 DEF ETypeOK, ExecInv, ExecTypes, DeskTypes, ItemStatus
  <2>4. QED
    BY <2>3 DEF OneBookPerContent, ExecInv
<1>2. QED
  BY <1>1, WorkbenchInvariant, PTL

\* Confirming looks at the photos of the others, and nothing else gives a confirmed candidate
\* photos: no photo is confirmed for two books.
THEOREM PhotosAreClaimedOnce == WSpec => []PhotoClaimedOnce
<1>1. WorkbenchInv => PhotoClaimedOnce
  BY DEF WorkbenchInv, Decided, PhotoClaimedOnce
<1>2. QED
  BY <1>1, WorkbenchInvariant, PTL

\* A confirmed candidate is what was confirmed, and a command that would be carried out is of
\* a candidate that still is confirmed.
THEOREM ConfirmationsStand == WSpec => []ConfirmationStands
<1>1. ASSUME WorkbenchInv, OneTab, scene.workers = {} PROVE ConfirmedAsDecided /\ ExecutableIsConfirmed
  <2>1. ASSUME NEW k \in DOMAIN cmd, Current(k) PROVE k.cand \in In("confirmed")
    <3>1. k.version = cand[k.cand].version
      BY <2>1 DEF Current, Key
    <3>2. QED
      BY <1>1, <3>1 DEF WorkbenchInv, DeskTypes, Decided, In
  <2>2. QED
    BY <1>1, <2>1 DEF WorkbenchInv, Decided, ExecutableIsConfirmed
<1>2. WorkbenchInv => ConfirmationStands
  BY <1>1 DEF ConfirmationStands
<1>3. QED
  BY <1>2, WorkbenchInvariant, PTL

\* The page confirms what it displayed, and saves over what its text was typed over, when the
\* owner stays for the answers and nobody else has changed the candidate.
THEOREM WhatIsSeenIsDone == WSpec => SeenIsDone
<1> DEFINE Seen == \A c \in Candidate :
              /\ Confirming(c) => cand[c].content = page.said[c] \/ c \in touched \cup saved \/ away
              /\ Saving(c) => cand[c].content = page.now.over \/ c \in touched \cup saved \/ away
<1>1. ASSUME WorkbenchInv, [WNext]_wvars PROVE Seen
  <2>0. page \in PageRow /\ (~away => Attended)
    BY <1>1 DEF WorkbenchInv, PageSound, PageTyped
  <2>1. ASSUME NEW c \in Candidate, Confirming(c), c \notin touched \cup saved, ~away
        PROVE  cand[c].content = page.said[c]
    <3>1. page.pc = "pass" /\ page'.pc = "idle" /\ ~UNCHANGED cand
      BY <2>1 DEF Confirming, In
    <3>2. Confirmed
      <4>1. PageStep
        BY <1>1, <3>1 DEF WNext, wvars, allvars, cvars, WorkbenchInv, PageSound, PageTyped, NoPage
      <4>2. ~(Patched \/ Elsewhere)
        BY <3>1 DEF Patched, Elsewhere, Handler
      <4>3. QED
        BY <3>1, <4>1, <4>2
           DEF PageStep, Enter, Read, Display, OpenFails, Leave, Type, Toggle, Request, Answered, Save,
               Pass, PassSaving, Patch, EditRead, ClickConfirm, Refused, Lost, Handler, AtRest,
               UploadRead, PreviewRead, allvars, cvars
    <3>3. c \in page.ids \ page.left /\ cand[c].status = "pending_review"
      BY <2>1, <3>2 DEF Confirming, Confirmed, In
    <3>4. c \in Passed /\ c \in Shown
      BY <2>0, <2>1, <3>1, <3>3 DEF Passed, Attended
    <3>5. QED
      BY <2>0, <2>1, <3>3, <3>4 DEF Attended, ShownIsStored
  <2>2. ASSUME NEW c \in Candidate, Saving(c), c \notin touched \cup saved, ~away
        PROVE  cand[c].content = page.now.over
    <3>1. page.pc = "patch" /\ page.now.c = c
      BY <2>2 DEF Saving
    <3>2. page.now.over = page.shown[page.now.c].content /\ Matches(c)
      BY <2>0, <2>2, <3>1 DEF Attended, SaveUnderWay
    <3>3. QED
      BY <3>1, <3>2 DEF Matches
  <2>3. QED
    BY <2>1, <2>2
<1>2. WorkbenchInv /\ [WNext]_wvars => [Seen]_wvars
  BY <1>1
<1>3. QED
  BY <1>2, WorkbenchInvariant, PTL DEF WSpec, SeenIsDone

\* A lease in force has one holder, and nobody else touches the command.
THEOREM LeasesAreRespected == WSpec => LeaseRespected
<1>1. ExecInv /\ [WNext]_wvars => [LeasesKept]_allvars
  BY StepKeeps
<1>2. QED
  BY <1>1, ExecInvariant, PTL DEF WSpec, LeaseRespected

\* A receipt has its book, whoever completed the command and whoever let it lie before, and
\* an executed candidate its receipt.
THEOREM ReceiptsAreOfBooks == WSpec => []ReceiptsHaveBooks
<1>1. WorkbenchInv => ReceiptsHaveBooks
  BY DEF WorkbenchInv, Receipts
<1>2. QED
  BY <1>1, WorkbenchInvariant, PTL
=============================================================================

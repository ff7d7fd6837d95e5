------------------------ MODULE OperationJournal_proofs ------------------------
(***************************************************************************)
(* Proofs about StorageTx for every set of requests, keys and payloads,    *)
(* every retry limit and both databases, and about OperationJournal for    *)
(* every set of tabs and deliveries.  What the journal's steps do to the   *)
(* server are steps of StorageTx, so that its theorems hold of the server  *)
(* under the journal; JInv ties the journal's entries to the server's      *)
(* receipts.                                                               *)
(***************************************************************************)
EXTENDS OperationJournal, TLAPS

-----------------------------------------------------------------------------
(* The server, StorageTx.                                                   *)

\* A request that may still run has attempts left.
RetryBound ==
    \A r \in Request : pc[r] \in InFlight \cup {"idle"} => attempts[r] <= MaxRetries

TypeInv == TypeOK /\ RetryBound

\* What makes ReceiptIsExecution inductive: a transaction at its business write still owns
\* the uncommitted row of its key, and such a row exists only while no receipt does.
KeyOwned ==
    /\ \A r \in Request : pc[r] = "work" => inserted[key[r]] = r
    /\ \A k \in Key : inserted[k] # None => receipt[k] = None

\* The row the unique constraint reported is there when it is read again.
RereadFinds == \A r \in Request : pc[r] = "reread" => receipt[key[r]] # None

IInv ==
    /\ TypeInv
    /\ KeyOwned
    /\ ReceiptIsExecution
    /\ SameAnswer
    /\ RereadFinds
    /\ ErrorOnlyWhenExhausted

-----------------------------------------------------------------------------
\* TypeOK with the shape of the transactions that are open, which makes it inductive.
LEMMA TypeInvariant == Spec => []TypeInv
<1> USE RetriesAssumption, NoneAssumption
    DEF TypeInv, TypeOK, RetryBound, PC, InFlight, Replied
<1>1. Init => TypeInv
  BY DEF Init
<1>2. TypeInv /\ [Next]_vars => TypeInv'
  <2> SUFFICES ASSUME TypeInv, [Next]_vars PROVE TypeInv'
    OBVIOUS
  <2>1. ASSUME NEW r \in Request, Receive(r) PROVE TypeInv'
    BY <2>1 DEF Receive, Goto
  <2>2. ASSUME NEW r \in Request, FindOperation(r) PROVE TypeInv'
    BY <2>2 DEF FindOperation, ReplayOrConflict, Goto
  <2>3. ASSUME NEW r \in Request, RegisterKey(r) PROVE TypeInv'
    BY <2>3 DEF RegisterKey, Rollback, Goto
  <2>4. ASSUME NEW r \in Request, RereadReceipt(r) PROVE TypeInv'
    BY <2>4 DEF RereadReceipt, ReplayOrConflict, Goto
  <2>5. ASSUME NEW r \in Request, Commit(r) PROVE TypeInv'
    BY <2>5 DEF Commit, Persist, Rollback, Goto
  <2>6. ASSUME NEW r \in Request, Refuse(r) PROVE TypeInv'
    BY <2>6 DEF Refuse, Rollback, Goto
  <2>7. ASSUME NEW r \in Request, pc[r] \in {"insert", "work"}, RetryOrRaise(r)
        PROVE  /\ attempts' \in [Request -> 0 .. MaxRetries + 1]
               /\ pc' \in [Request -> PC]
               /\ RetryBound'
    <3>1. attempts[r] \in 0 .. MaxRetries
      BY <2>7
    <3>2. attempts[r] + 1 \in 0 .. MaxRetries + 1
      BY <3>1
    <3>3. attempts' \in [Request -> 0 .. MaxRetries + 1]
      BY <2>7, <3>2 DEF RetryOrRaise
    <3>4. pc' \in [Request -> PC]
      BY <2>7 DEF RetryOrRaise, Goto
    <3>5. RetryBound'
      BY <2>7, <3>2 DEF RetryOrRaise, Goto
    <3>6. QED
      BY <3>3, <3>4, <3>5
  <2>8. ASSUME NEW r \in Request, Busy(r) PROVE TypeInv'
    BY <2>7, <2>8 DEF Busy, Rollback
  <2>9. ASSUME NEW r \in Request, CommitUnacknowledged(r) PROVE TypeInv'
    BY <2>7, <2>9 DEF CommitUnacknowledged, Persist, Rollback
  <2>10. CASE Crash
    BY <2>10 DEF Crash
  <2>11. CASE UNCHANGED vars
    BY <2>11 DEF vars
  <2>12. QED
    BY <2>1, <2>2, <2>3, <2>4, <2>5, <2>6, <2>8, <2>9, <2>10, <2>11 DEF Next, Step
<1>3. QED
  BY <1>1, <1>2, PTL DEF Spec

\* Type correctness, for every value of the constants.
THEOREM TypeCorrect == Spec => []TypeOK
BY TypeInvariant, PTL DEF TypeInv

-----------------------------------------------------------------------------
\* A transaction that commits is the first to commit its key.
LEMMA FirstWrite ==
    ASSUME TypeInv, KeyOwned, NEW r \in Request, pc[r] = "work", Persist(r)
    PROVE  /\ receipt[key[r]] = None
           /\ receipt' = [receipt EXCEPT ![key[r]] = digest[r]]
           /\ author' = [author EXCEPT ![key[r]] = r]
           /\ effects' = [effects EXCEPT ![key[r]] = @ + 1]
<1>1. inserted[key[r]] = r /\ key[r] \in Key
  BY DEF TypeInv, TypeOK, KeyOwned
<1>2. inserted[key[r]] # None
  BY <1>1, NoneAssumption
<1>3. QED
  BY <1>1, <1>2 DEF KeyOwned, Persist

\* One step of the protocol preserves the inductive invariant.
LEMMA StepPreserves ==
    ASSUME TypeInv, TypeInv', IInv, [Next]_vars
    PROVE  IInv'
<1> USE NoneAssumption DEF IInv, TypeInv, TypeOK, KeyOwned, ReceiptIsExecution, SameAnswer,
        RereadFinds, ErrorOnlyWhenExhausted
<1>1. ASSUME NEW r \in Request, Receive(r) PROVE IInv'
  BY <1>1 DEF Receive, Goto
<1>2. ASSUME NEW r \in Request, FindOperation(r) PROVE IInv'
  BY <1>2 DEF FindOperation, ReplayOrConflict, Goto
<1>3. ASSUME NEW r \in Request, RegisterKey(r) PROVE IInv'
  <2>1. CASE UniqueViolation(r)
    BY <1>3, <2>1 DEF RegisterKey, UniqueViolation, Rollback, Goto
  <2>2. CASE ~UniqueViolation(r)
    <3>1. inserted[key[r]] = None
      BY <1>3 DEF RegisterKey, InsertBlocked
    <3>2. QED
      BY <1>3, <2>2, <3>1 DEF RegisterKey, UniqueViolation, Goto
  <2>3. QED
    BY <2>1, <2>2
<1>4. ASSUME NEW r \in Request, RereadReceipt(r) PROVE IInv'
  BY <1>4 DEF RereadReceipt, ReplayOrConflict, Goto
<1>5. ASSUME NEW r \in Request, pc[r] = "work", Persist(r)
      PROVE  /\ receipt[key[r]] = None
             /\ ReceiptIsExecution'
             /\ \A k \in Key : receipt[k] # None =>
                    receipt'[k] = receipt[k] /\ author'[k] = author[k]
             /\ receipt'[key[r]] = digest[r] /\ author'[key[r]] = r
             /\ \A k \in Key : inserted'[k] # None => receipt'[k] = None
             /\ \A s \in Request : s # r /\ pc[s] = "work" => inserted'[key[s]] = s
  <2>1. /\ receipt[key[r]] = None
        /\ receipt' = [receipt EXCEPT ![key[r]] = digest[r]]
        /\ author' = [author EXCEPT ![key[r]] = r]
        /\ effects' = [effects EXCEPT ![key[r]] = @ + 1]
    BY <1>5, FirstWrite
  <2>2. inserted[key[r]] = r
    BY <1>5
  <2>3. ReceiptIsExecution'
    BY <2>1
  <2>4. inserted' = [k \in Key |-> IF inserted[k] = r THEN None ELSE inserted[k]]
    BY <1>5 DEF Persist, Rollback
  <2>5. QED
    BY <2>1, <2>2, <2>3, <2>4
<1>6. ASSUME NEW r \in Request, Commit(r) PROVE IInv'
  BY <1>5, <1>6 DEF Commit, Goto
<1>7. ASSUME NEW r \in Request, Refuse(r) PROVE IInv'
  BY <1>7 DEF Refuse, Rollback, Goto
<1>8. ASSUME NEW r \in Request, RetryOrRaise(r)
      PROVE  /\ \A s \in Request : s # r => pc'[s] = pc[s] /\ attempts'[s] = attempts[s]
             /\ pc'[r] \in {"find", "error"}
             /\ pc'[r] = "error" => attempts'[r] > MaxRetries
  BY <1>8 DEF RetryOrRaise, Goto
<1>9. ASSUME NEW r \in Request, Busy(r) PROVE IInv'
  BY <1>8, <1>9 DEF Busy, Rollback
<1>10. ASSUME NEW r \in Request, CommitUnacknowledged(r) PROVE IInv'
  BY <1>5, <1>8, <1>10 DEF CommitUnacknowledged
<1>11. CASE Crash
  BY <1>11 DEF Crash, InFlight
<1>12. CASE UNCHANGED vars
  BY <1>12 DEF vars
<1>13. QED
  BY <1>1, <1>2, <1>3, <1>4, <1>6, <1>7, <1>9, <1>10, <1>11, <1>12 DEF Next, Step

\* The invariant the safety theorems below are read off from.
LEMMA InductiveInvariant == Spec => []IInv
<1>1. Init => IInv
  BY RetriesAssumption, NoneAssumption
     DEF Init, IInv, TypeInv, TypeOK, RetryBound, KeyOwned, ReceiptIsExecution, SameAnswer,
         RereadFinds, ErrorOnlyWhenExhausted, PC, InFlight, Replied
<1>2. TypeInv /\ TypeInv' /\ IInv /\ [Next]_vars => IInv'
  BY StepPreserves
<1>3. QED
  BY <1>1, <1>2, TypeInvariant, PTL DEF Spec

\* A key with a receipt was executed once and one without was not, however requests are
\* retried, raced or lost.
THEOREM ReceiptsAreExecutions == Spec => []ReceiptIsExecution
<1>1. IInv => ReceiptIsExecution
  BY DEF IInv
<1>2. QED
  BY <1>1, InductiveInvariant, PTL

\* Every successful answer repeats the committed result of the same payload, and
\* losing the race for a key is never a server error.
THEOREM AnswersAgree == Spec => [](SameAnswer /\ ErrorOnlyWhenExhausted)
<1>1. IInv => SameAnswer /\ ErrorOnlyWhenExhausted
  BY DEF IInv
<1>2. QED
  BY <1>1, InductiveInvariant, PTL

\* A committed receipt is never replaced.
THEOREM ReceiptsAreStable == Spec => ReceiptStable
<1> DEFINE Kept == \A k \in Key : receipt[k] # None =>
                      receipt'[k] = receipt[k] /\ author'[k] = author[k]
<1>1. IInv /\ [Next]_vars => [Kept]_vars
  <2> SUFFICES ASSUME IInv, Next PROVE Kept
    BY DEF vars
  <2>1. ASSUME NEW r \in Request, pc[r] = "work", Persist(r) PROVE Kept
    BY <2>1, FirstWrite DEF IInv, TypeInv, TypeOK
  <2>2. QED
    BY <2>1 DEF Next, Step, Crash, Receive, FindOperation, RegisterKey, RereadReceipt,
                Commit, Refuse, Busy, CommitUnacknowledged
<1>2. QED
  BY <1>1, InductiveInvariant, PTL DEF Spec, ReceiptStable

\* The server implements the abstract promise: every commit performs a key nobody
\* performed, every replay answers from that performance, all else is a stutter.
THEOREM ImplementsIdempotentOperation == Spec => ImplementsPromise
<1> USE DEF Promise!pvars, Promise!Next, Promise!Perform, Promise!Answer,
        Promise!PerformAndAnswer
<1>1. Init => Promise!Init
  BY DEF Init, Promise!Init
<1>2. IInv /\ [Next]_vars => [Promise!Next]_(Promise!pvars)
  <2> SUFFICES ASSUME IInv, [Next]_vars PROVE [Promise!Next]_(Promise!pvars)
    OBVIOUS
  <2> USE DEF IInv, TypeInv, TypeOK
  <2>1. ASSUME NEW r \in Request, ReplayOrConflict(r),
               UNCHANGED <<receipt, author>>
        PROVE  [Promise!Next]_(Promise!pvars)
    <3>1. CASE receipt[key[r]] = digest[r]
      <4>1. Promise!Answer(r, key[r], digest[r])
        BY <2>1, <3>1 DEF ReplayOrConflict
      <4>2. QED
        BY <4>1
    <3>2. CASE receipt[key[r]] # digest[r]
      BY <2>1, <3>2 DEF ReplayOrConflict
    <3>3. QED
      BY <3>1, <3>2
  <2>2. ASSUME NEW r \in Request, pc[r] = "work", Persist(r)
        PROVE  Promise!Perform(r, key[r], digest[r])
    BY <2>2, FirstWrite
  <2>3. ASSUME NEW r \in Request, FindOperation(r) PROVE [Promise!Next]_(Promise!pvars)
    BY <2>1, <2>3 DEF FindOperation
  <2>4. ASSUME NEW r \in Request, RereadReceipt(r) PROVE [Promise!Next]_(Promise!pvars)
    BY <2>1, <2>4 DEF RereadReceipt
  <2>5. ASSUME NEW r \in Request, Commit(r) PROVE [Promise!Next]_(Promise!pvars)
    <3>1. Promise!PerformAndAnswer(r, key[r], digest[r])
      BY <2>2, <2>5 DEF Commit
    <3>2. QED
      BY <3>1
  <2>6. ASSUME NEW r \in Request, CommitUnacknowledged(r)
        PROVE  [Promise!Next]_(Promise!pvars)
    <3>1. Promise!Perform(r, key[r], digest[r]) /\ UNCHANGED answer
      BY <2>2, <2>6 DEF CommitUnacknowledged
    <3>2. QED
      BY <3>1
  <2>7. ASSUME NEW r \in Request, Receive(r) \/ RegisterKey(r) \/ Refuse(r) \/ Busy(r)
        PROVE  UNCHANGED Promise!pvars
    BY <2>7 DEF Receive, RegisterKey, Refuse, Busy
  <2>8. CASE Crash \/ UNCHANGED vars
    BY <2>8 DEF Crash, vars
  <2>9. QED
    BY <2>3, <2>4, <2>5, <2>6, <2>7, <2>8 DEF Next, Step
<1>3. QED
  BY <1>1, <1>2, InductiveInvariant, PTL DEF Spec, ImplementsPromise, Promise!Spec

-----------------------------------------------------------------------------
(* What EveryRequestEnds rests on: no request goes on for ever, and who waits *)
(* waits for one that goes on.                                              *)

\* How far a request is from its end: the attempts it may still make after this one, of three
\* statements each, and the statements left in this one.
Ahead(label) ==
    IF label = "find" THEN 3
    ELSE IF label = "insert" THEN 2
    ELSE IF label \in {"reread", "work"} THEN 1 ELSE 0
Rank(r) == 3 * (MaxRetries - attempts[r]) + Ahead(pc[r])

\* Every step of a request in flight brings it nearer to its end, and nobody moves it away from it.
Nearer ==
    [][\A r \in Request : pc[r] \in InFlight =>
          /\ Step(r) => Rank(r)' < Rank(r)
          /\ Rank(r)' < Rank(r) \/ (pc'[r] = pc[r] /\ attempts'[r] = attempts[r])]_vars

LEMMA RetryIsNearer ==
    ASSUME TypeInv, NEW r \in Request, pc[r] \in {"insert", "work"}, RetryOrRaise(r)
    PROVE  Rank(r)' < Rank(r) /\ \A q \in Request \ {r} : pc'[q] = pc[q] /\ attempts'[q] = attempts[q]
<1>1. attempts[r] \in 0 .. MaxRetries /\ MaxRetries \in Nat
  BY RetriesAssumption DEF TypeInv, TypeOK, RetryBound, InFlight
<1>2. /\ pc'[r] \in {"error", "find"} /\ attempts'[r] = attempts[r] + 1
      /\ \A q \in Request \ {r} : pc'[q] = pc[q] /\ attempts'[q] = attempts[q]
  BY DEF RetryOrRaise, Goto, TypeInv, TypeOK
<1>3. Ahead(pc'[r]) \in 0 .. 3 /\ Ahead(pc[r]) \in 1 .. 2
  BY <1>2 DEF Ahead
<1>4. Rank(r)' = 3 * (MaxRetries - attempts'[r]) + Ahead(pc'[r])
  BY DEF Rank, Ahead
<1> QED
  BY <1>1, <1>2, <1>3, <1>4 DEF Rank

LEMMA LabelIsNearer ==
    ASSUME TypeInv, NEW r \in Request, NEW label \in PC, Goto(r, label), UNCHANGED attempts,
           Ahead(label) < Ahead(pc[r])
    PROVE  Rank(r)' < Rank(r) /\ \A q \in Request \ {r} : pc'[q] = pc[q] /\ attempts'[q] = attempts[q]
<1>1. attempts[r] \in 0 .. MaxRetries + 1 /\ MaxRetries \in Nat
  BY RetriesAssumption DEF TypeInv, TypeOK
<1>2. pc'[r] = label /\ \A q \in Request \ {r} : pc'[q] = pc[q]
  BY DEF Goto, TypeInv, TypeOK
<1>3. Rank(r)' = 3 * (MaxRetries - attempts[r]) + Ahead(label)
  BY <1>2 DEF Rank, Ahead
<1>4. Ahead(label) \in Nat /\ Ahead(pc[r]) \in Nat
  BY DEF Ahead
<1> QED
  BY <1>1, <1>2, <1>3, <1>4 DEF Rank

LEMMA StepIsNearer ==
    ASSUME TypeInv, NEW r \in Request, Step(r)
    PROVE  Rank(r)' < Rank(r) /\ \A q \in Request \ {r} : pc'[q] = pc[q] /\ attempts'[q] = attempts[q]
<1>1. CASE FindOperation(r) \/ RereadReceipt(r)
  <2>1. UNCHANGED attempts /\ pc[r] \in {"find", "reread"}
    BY Zenon, <1>1 DEF FindOperation, RereadReceipt
  <2>2. \/ \E label \in {"done", "conflict", "error"} : Goto(r, label)
        \/ pc[r] = "find" /\ Goto(r, "insert")
    BY Zenon, <1>1 DEF FindOperation, RereadReceipt, ReplayOrConflict
  <2> QED
    BY <2>1, <2>2, LabelIsNearer DEF Ahead, PC, InFlight, Replied
<1>2. CASE RegisterKey(r)
  <2>1. \E label \in {"reread", "work"} : Goto(r, label) /\ UNCHANGED attempts /\ pc[r] = "insert"
    BY <1>2 DEF RegisterKey
  <2> QED
    BY <2>1, LabelIsNearer DEF Ahead, PC, InFlight, Replied
<1>3. CASE Commit(r) \/ Refuse(r)
  <2>1. \E label \in {"done", "refused"} : Goto(r, label) /\ UNCHANGED attempts /\ pc[r] = "work"
    BY <1>3 DEF Commit, Refuse
  <2> QED
    BY <2>1, LabelIsNearer DEF Ahead, PC, InFlight, Replied
<1>4. CASE Busy(r) \/ CommitUnacknowledged(r)
  BY <1>4, RetryIsNearer DEF Busy, CommitUnacknowledged
<1> QED
  BY <1>1, <1>2, <1>3, <1>4 DEF Step

\* A request takes at most 3 * (MaxRetries + 1) steps once it is received, whatever retries,
\* races and crashes there are: each step brings it nearer to its end, and no other moves it away.
THEOREM AttemptsRunOut ==
    Spec => [](\A r \in Request : pc[r] \in InFlight => Rank(r) \in 1 .. 3 * (MaxRetries + 1)) /\ Nearer
<1>1. TypeInv => \A r \in Request : pc[r] \in InFlight => Rank(r) \in 1 .. 3 * (MaxRetries + 1)
  <2> SUFFICES ASSUME TypeInv, NEW r \in Request, pc[r] \in InFlight
               PROVE  Rank(r) \in 1 .. 3 * (MaxRetries + 1)
    OBVIOUS
  <2>1. attempts[r] \in 0 .. MaxRetries /\ MaxRetries \in Nat
    BY RetriesAssumption DEF TypeInv, TypeOK, RetryBound
  <2>2. Ahead(pc[r]) \in 1 .. 3
    BY DEF Ahead, InFlight
  <2> QED
    BY <2>1, <2>2 DEF Rank
<1>2. TypeInv /\ [Next]_vars =>
        [\A r \in Request : pc[r] \in InFlight =>
            /\ Step(r) => Rank(r)' < Rank(r)
            /\ Rank(r)' < Rank(r) \/ (pc'[r] = pc[r] /\ attempts'[r] = attempts[r])]_vars
  <2> SUFFICES ASSUME TypeInv, Next, NEW r \in Request, pc[r] \in InFlight
               PROVE  /\ Step(r) => Rank(r)' < Rank(r)
                      /\ Rank(r)' < Rank(r) \/ (pc'[r] = pc[r] /\ attempts'[r] = attempts[r])
    OBVIOUS
  <2>1. CASE Crash
    <3>1. attempts' = attempts /\ pc'[r] = "gone"
      BY <2>1 DEF Crash
    <3>2. attempts[r] \in 0 .. MaxRetries + 1 /\ MaxRetries \in Nat
      BY RetriesAssumption DEF TypeInv, TypeOK
    <3>3. Rank(r)' = 3 * (MaxRetries - attempts[r])
      BY <3>1, <3>2 DEF Rank, Ahead
    <3>4. Ahead(pc[r]) \in Nat \ {0}
      BY DEF Ahead, InFlight
    <3> QED
      BY <3>2, <3>3, <3>4 DEF Rank
  <2>2. CASE \E q \in Request : Step(q)
    BY <2>2, StepIsNearer
  <2>3. CASE \E q \in Request : Receive(q)
    <3>1. PICK q \in Request : Receive(q)
      BY <2>3
    <3>2. q # r /\ pc'[r] = pc[r] /\ attempts'[r] = attempts[r]
      BY <3>1 DEF Receive, Goto, InFlight, TypeInv, TypeOK
    <3>3. Rank(r)' = Rank(r)
      BY <3>2 DEF Rank, Ahead
    <3>4. ~Step(r)
      BY <1>1, <3>3, StepIsNearer
    <3> QED
      BY <3>2, <3>4
  <2> QED
    BY <2>1, <2>2, <2>3, StepIsNearer DEF Next
<1> QED
  BY <1>1, <1>2, TypeInvariant, PTL DEF Spec, Nearer

\* An uncommitted row is of a request that is at work.
OpenRows == \A k \in Key : inserted[k] # None => pc[inserted[k]] = "work"

LEMMA RowsAreOfWork == Spec => []OpenRows
<1>1. Init => OpenRows
  BY DEF Init, OpenRows
<1>2. TypeInv /\ OpenRows /\ [Next]_vars => OpenRows'
  <2> SUFFICES ASSUME TypeInv, OpenRows, [Next]_vars PROVE OpenRows'
    OBVIOUS
  <2> USE NoneAssumption DEF TypeInv, TypeOK, OpenRows
  <2>1. ASSUME NEW r \in Request, pc[r] # "work", NEW label, Goto(r, label), UNCHANGED inserted
        PROVE  OpenRows'
    BY <2>1 DEF Goto
  <2>2. ASSUME NEW r \in Request, NEW label, Goto(r, label), Rollback(r) PROVE OpenRows'
    BY <2>2 DEF Goto, Rollback
  <2>3. ASSUME NEW r \in Request, RegisterKey(r) PROVE OpenRows'
    <3>1. CASE UniqueViolation(r)
      BY <2>2, <2>3, <3>1 DEF RegisterKey
    <3>2. CASE ~UniqueViolation(r)
      BY <2>3, <3>2 DEF RegisterKey, Goto
    <3> QED
      BY <3>1, <3>2
  <2>4. ASSUME NEW r \in Request, Receive(r) \/ FindOperation(r) \/ RereadReceipt(r) PROVE OpenRows'
    BY <2>1, <2>4 DEF Receive, FindOperation, RereadReceipt, ReplayOrConflict
  <2>5. ASSUME NEW r \in Request, Commit(r) \/ Refuse(r) \/ Busy(r) \/ CommitUnacknowledged(r)
        PROVE  OpenRows'
    BY <2>2, <2>5 DEF Commit, Refuse, Busy, CommitUnacknowledged, Persist, RetryOrRaise
  <2>6. CASE Crash
    BY <2>6 DEF Crash
  <2>7. CASE UNCHANGED vars
    BY <2>7 DEF vars
  <2> QED
    BY <2>3, <2>4, <2>5, <2>6, <2>7 DEF Next, Step
<1> QED
  BY <1>1, <1>2, TypeInvariant, PTL DEF Spec

\* The guard of a step of r holds: only the insertion of the key ever waits.
Ready(r) == pc[r] \in InFlight /\ (pc[r] = "insert" => ~InsertBlocked(r))

\* A request that waits to insert its key waits for one that is at its business write, which
\* waits for nobody, whether the database has one writer or locks keys.
THEOREM WaitsAreForWork ==
    Spec => [](\A r \in Request : pc[r] \in InFlight /\ ~Ready(r) =>
                  \E k \in Key : inserted[k] \in Request /\ pc[inserted[k]] = "work" /\ Ready(inserted[k]))
<1>1. TypeInv /\ OpenRows =>
        \A r \in Request : pc[r] \in InFlight /\ ~Ready(r) =>
            \E k \in Key : inserted[k] \in Request /\ pc[inserted[k]] = "work" /\ Ready(inserted[k])
  BY DEF TypeInv, TypeOK, OpenRows, Ready, InsertBlocked, InFlight
<1> QED
  BY <1>1, TypeInvariant, RowsAreOfWork, PTL

-----------------------------------------------------------------------------
(* The browser, OperationJournal.                                           *)

\* What holds of a copy J of the journal, saved or not, whenever it was read: P is what the
\* keys were made for, C the committed ones, R those with a refusal, K those known.
RowsSound(J, P, C, R, K) ==
    /\ J \in [Key -> Status]
    /\ \A k \in Key :
          /\ P[k] = None => J[k] = "absent"
          /\ J[k] = "completed" => k \in C
          /\ J[k] = "rejected" => k \in R
          /\ J[k] \in {"completed", "rejected"} => k \in K
    /\ \A j, k \in Key : J[j] = "pending" /\ J[k] = "pending" /\ P[j] = P[k] => j = k

Committed == {k \in Key : receipt[k] # None}
Refusals  == {k \in Key : \E r \in Request : key[r] = k /\ pc[r] \in {"refused", "conflict"}}

\* An outcome or a new key more does not make a copy wrong: a key nobody had made has no
\* entry in it.
LEMMA RowsStaySound ==
    ASSUME NEW J, NEW P, NEW Q, NEW C, NEW D, NEW R, NEW S, NEW K, NEW L,
           RowsSound(J, P, C, R, K), C \subseteq D, R \subseteq S, K \subseteq L,
           \A k \in Key : P[k] # None => Q[k] = P[k]
    PROVE  RowsSound(J, Q, D, S, L)
BY DEF RowsSound

JournalTypes ==
    /\ payload \in [Key -> Digest \cup {None}]
    /\ status \in [Key -> Status]
    /\ tab \in [Tab -> TabRow]
    /\ known \subseteq Key /\ overwritten \subseteq Key

\* What left the browser is what the key was made for, and so is what was committed.
SentAsMade ==
    /\ \A r \in Request : pc[r] # "idle" => payload[key[r]] = digest[r]
    /\ \A k \in Key : receipt[k] # None => receipt[k] = payload[k]

\* Whoever committed a receipt is never refused afterwards: it can only have lost the
\* acknowledgement, and then it finds its own receipt.
AuthorsAreNotRefused ==
    \A k \in Key : receipt[k] # None =>
        /\ author[k] \in Request
        /\ key[author[k]] = k
        /\ pc[author[k]] \in {"find", "done", "error", "gone"}

\* What a tab is doing.
TabSound(t) ==
    /\ tab[t].at # "rest" => tab[t].op \in Key /\ payload[tab[t].op] # None
    /\ tab[t].at = "call" => /\ tab[t].call \in Request
                             /\ key[tab[t].call] = tab[t].op
                             /\ pc[tab[t].call] # "idle"
    /\ tab[t].at = "found" => tab[t].op \in Committed
    /\ tab[t].at = "prepare" => tab[t].rows[tab[t].op] = "pending"
    /\ tab[t].at = "settle" => tab[t].op \in known
    /\ \A k \in tab[t].shown : payload[k] # None

\* The journal, and the copies of it that are about to be saved.
CopiesSound ==
    /\ RowsSound(status, payload, Committed, Refusals, known)
    /\ \A t \in Tab : tab[t].at \in {"prepare", "settle"} =>
          RowsSound(tab[t].rows, payload, Committed, Refusals, known)

SentIsKept == \A r \in Request : Unconfirmed(r) => status[key[r]] = "pending"

JInv ==
    /\ JournalTypes
    /\ SentAsMade
    /\ AuthorsAreNotRefused
    /\ \A t \in Tab : TabSound(t)
    /\ CopiesSound
    /\ SentIsKept
    /\ RetriesNeverConflict

-----------------------------------------------------------------------------
\* Whatever the tabs do, the server of the composition takes steps of StorageTx only.
THEOREM ServerRunsUnderJournal == JSpec => Spec
<1>1. JInit => Init
  BY DEF JInit
<1>2. [JNext]_allvars => [Next]_vars
  <2> SUFFICES ASSUME [JNext]_allvars PROVE [Next]_vars
    OBVIOUS
  <2>1. CASE Server
    BY <2>1 DEF Server, Next
  <2>2. ASSUME NEW t \in Tab, Send(t) PROVE [Next]_vars
    BY <2>2 DEF Send, Next
  <2>3. ASSUME NEW t \in Tab, Browser(t) PROVE Send(t) \/ UNCHANGED vars
    BY <2>3, Zenon
    DEF Browser, Submit, Refresh, SavePrepared, Post, ReceiveReceipt, ReceiveRefusal, SaveSettled,
        LoseAnswer, CheckReceipt, ReceiptFound, Replay, Settle
  <2>4. CASE UNCHANGED allvars
    BY <2>4 DEF allvars, vars
  <2>5. QED
    BY <2>1, <2>2, <2>3, <2>4 DEF JNext
<1>3. QED
  BY <1>1, <1>2, PTL DEF JSpec, Spec

\* What a step of the server can disturb: it commits, refuses and never takes either back.
ServerPart ==
    /\ SentAsMade
    /\ AuthorsAreNotRefused
    /\ RetriesNeverConflict

\* A step of the server that is not the arrival of a request.
LEMMA ServerKeepsJInv ==
    ASSUME TypeInv, JInv, Server, UNCHANGED jvars
    PROVE  JInv'
<1> USE NoneAssumption
    DEF JInv, TypeInv, TypeOK, JournalTypes, SentAsMade, AuthorsAreNotRefused,
        RetriesNeverConflict, jvars
<1>1. ASSUME NEW r \in Request, ReplayOrConflict(r), pc[r] \in {"find", "reread"},
             receipt[key[r]] # None, UNCHANGED <<key, digest, receipt, author>>
      PROVE  pc' = [pc EXCEPT ![r] = "done"]
  BY <1>1 DEF ReplayOrConflict, Goto
<1> DEFINE Forward ==
        /\ ServerPart'
        /\ UNCHANGED key
        /\ \A k \in Key : receipt[k] # None => receipt'[k] # None
        /\ \A r \in Request : /\ pc[r] \in {"refused", "conflict"} => pc'[r] = pc[r]
                              /\ pc[r] = "idle" <=> pc'[r] = "idle"
<1>2. ASSUME NEW r \in Request, FindOperation(r) PROVE Forward
  BY <1>1, <1>2 DEF FindOperation, Goto, ServerPart
<1>3. ASSUME NEW r \in Request, RegisterKey(r) PROVE Forward
  BY <1>3 DEF RegisterKey, Goto, ServerPart
<1>4. ASSUME NEW r \in Request, RereadReceipt(r) PROVE Forward
  BY <1>1, <1>4 DEF RereadReceipt, Goto, ServerPart
<1>5. ASSUME NEW r \in Request, Commit(r) PROVE Forward
  BY <1>5 DEF Commit, Persist, Goto, ServerPart
<1>6. ASSUME NEW r \in Request, Refuse(r) PROVE Forward
  BY <1>6 DEF Refuse, Goto, ServerPart
<1>7. ASSUME NEW r \in Request, RetryOrRaise(r)
      PROVE  \E label \in {"find", "error"} : pc' = [pc EXCEPT ![r] = label]
  BY <1>7 DEF RetryOrRaise, Goto
<1>8. ASSUME NEW r \in Request, Busy(r) PROVE Forward
  BY <1>7, <1>8 DEF Busy, ServerPart
<1>9. ASSUME NEW r \in Request, CommitUnacknowledged(r) PROVE Forward
  BY <1>7, <1>9 DEF CommitUnacknowledged, Persist, ServerPart
<1>10. ASSUME Crash PROVE Forward
  BY <1>10 DEF Crash, InFlight, ServerPart
<1>11. Forward
  BY <1>2, <1>3, <1>4, <1>5, <1>6, <1>8, <1>9, <1>10 DEF Server, Step
<1>12. Committed \subseteq Committed' /\ Refusals \subseteq Refusals'
  BY <1>11 DEF Committed, Refusals
<1>13. CopiesSound'
  BY <1>12, RowsStaySound DEF CopiesSound
<1>14. \A t \in Tab : TabSound(t)'
  BY <1>11, <1>12 DEF TabSound
<1>15. SentIsKept'
  BY <1>11 DEF SentIsKept, Unconfirmed
<1>16. QED
  BY <1>11, <1>13, <1>14, <1>15 DEF ServerPart

\* A tab's step that leaves the server and the saved journal alone.
LEMMA TabStepKeepsJInv ==
    ASSUME TypeInv, JInv, NEW t \in Tab, NEW row \in TabRow,
           tab' = [tab EXCEPT ![t] = row], UNCHANGED <<vars, payload, status, overwritten>>,
           known \subseteq known', known' \subseteq Key,
           TabSound(t)',
           row.at \in {"prepare", "settle"} =>
               RowsSound(row.rows, payload, Committed, Refusals, known')
    PROVE  JInv'
<1> USE DEF JInv, JournalTypes
<1>1. UNCHANGED <<Committed, Refusals>>
  BY DEF vars, Committed, Refusals
<1>2. \A u \in Tab \ {t} : tab'[u] = tab[u]
  OBVIOUS
<1>3. tab'[t] = row
  OBVIOUS
<1>4. CopiesSound'
  BY <1>1, <1>2, <1>3, RowsStaySound DEF CopiesSound
<1>5. \A u \in Tab : TabSound(u)'
  BY <1>1, <1>2 DEF TabSound, vars
<1>6. SentIsKept'
  BY DEF SentIsKept, Unconfirmed, vars
<1>7. SentAsMade' /\ AuthorsAreNotRefused' /\ RetriesNeverConflict'
  BY DEF SentAsMade, AuthorsAreNotRefused, RetriesNeverConflict, vars
<1>8. JournalTypes'
  OBVIOUS
<1>9. QED
  BY <1>4, <1>5, <1>6, <1>7, <1>8

\* A tab comes to rest: what it shows has been made.
LEMMA RestKeepsJInv ==
    ASSUME TypeInv, JInv, NEW t \in Tab, Rest(t), UNCHANGED <<vars, payload, status, overwritten>>,
           known \subseteq known', known' \subseteq Key
    PROVE  JInv'
<1> DEFINE row == [Resting EXCEPT !.shown = {k \in Key : status[k] = "pending"}]
<1>1. row \in TabRow /\ row.at = "rest"
  BY NoneAssumption DEF Resting, TabRow
<1>2. row.shown = {k \in Key : status[k] = "pending"}
  BY DEF Resting
<1>3. tab' = [tab EXCEPT ![t] = row]
  BY DEF Rest
<1>4. tab'[t] = row
  BY <1>3 DEF JInv, JournalTypes
<1>5. \A k \in Key : status[k] = "pending" => payload[k] # None
  BY DEF JInv, CopiesSound, RowsSound
<1> HIDE DEF row
<1>6. TabSound(t)'
  BY <1>1, <1>2, <1>4, <1>5 DEF TabSound
<1>7. QED
  BY <1>1, <1>3, <1>6, TabStepKeepsJInv

\* A copy of the journal with one more outcome or one more entry.
LEMMA OneRowMore ==
    ASSUME NEW J, NEW P, NEW C, NEW R, NEW K, RowsSound(J, P, C, R, K),
           NEW k \in Key, NEW s \in Status \ {"absent"}, P[k] # None,
           s = "pending" => \A j \in Key : J[j] = "pending" => P[j] # P[k],
           s = "completed" => k \in C \cap K,
           s = "rejected" => k \in R \cap K
    PROVE  RowsSound([J EXCEPT ![k] = s], P, C, R, K)
BY DEF RowsSound, Status

\* An outcome that the server has is read, and is to be saved.
LEMMA SettleKeepsJInv ==
    ASSUME TypeInv, JInv, NEW t \in Tab, NEW outcome \in {"completed", "rejected"},
           Settle(t, outcome), tab[t].at # "rest",
           outcome = "completed" => tab[t].op \in Committed,
           outcome = "rejected" => tab[t].op \in Refusals
    PROVE  JInv'
<1> DEFINE k == tab[t].op
           rows == [status EXCEPT ![k] = outcome]
           row == [tab[t] EXCEPT !.at = "settle", !.call = None, !.rows = rows]
<1>1. k \in Key /\ payload[k] # None
  BY DEF JInv, TabSound
<1>2. known' = known \cup {k} /\ known' \subseteq Key
  BY <1>1 DEF Settle, JInv, JournalTypes
<1>3. UNCHANGED <<vars, payload, status, overwritten>>
  BY Zenon DEF Settle
<1>4. CASE Stored(k)
  <2>1. RowsSound(status, payload, Committed, Refusals, known')
    BY <1>2, RowsStaySound DEF JInv, CopiesSound
  <2>2. RowsSound(rows, payload, Committed, Refusals, known')
    BY <1>1, <1>2, <2>1, OneRowMore DEF Status
  <2>3. row \in TabRow /\ row.at = "settle" /\ row.op = k /\ row.rows = rows /\ row.shown = tab[t].shown
    BY <1>1 DEF TabRow, Status, JInv, JournalTypes
  <2>4. tab' = [tab EXCEPT ![t] = row]
    BY <1>4 DEF Settle, JInv, JournalTypes
  <2>5. tab'[t] = row
    BY <2>4 DEF JInv, JournalTypes
  <2> HIDE DEF k, rows, row
  <2>6. TabSound(t)'
    BY <1>1, <1>2, <1>3, <2>3, <2>5 DEF TabSound, JInv
  <2>7. QED
    BY <1>2, <1>3, <2>2, <2>3, <2>4, <2>6, TabStepKeepsJInv
<1>5. CASE ~Stored(k)
  BY <1>2, <1>3, <1>5, RestKeepsJInv DEF Settle
<1>6. QED
  BY <1>4, <1>5

\* A tab saves its copy of the journal; the entries it thereby takes from others are noted.
LEMMA SaveKeepsJInv ==
    ASSUME TypeInv, JInv, NEW t \in Tab, Save(t), tab[t].at \in {"prepare", "settle"},
           UNCHANGED <<vars, payload, known>>, NEW row \in TabRow,
           tab' = [tab EXCEPT ![t] = row], row.at \notin {"prepare", "settle"}, TabSound(t)'
    PROVE  JInv'
<1> USE DEF JInv, JournalTypes
<1> DEFINE rows == tab[t].rows
<1>1. RowsSound(rows, payload, Committed, Refusals, known)
  BY DEF CopiesSound
<1>2. status' = rows /\ status' \in [Key -> Status]
  BY <1>1 DEF Save, RowsSound
<1>3. overwritten' = overwritten \cup {k \in Key \ {tab[t].op} : status[k] # rows[k]}
  BY DEF Save
<1>4. UNCHANGED <<Committed, Refusals>>
  BY DEF vars, Committed, Refusals
<1>5. \A u \in Tab \ {t} : tab'[u] = tab[u]
  OBVIOUS
<1>6. tab'[t] = row
  OBVIOUS
<1>7. CopiesSound'
  BY <1>1, <1>2, <1>4, <1>5, <1>6 DEF CopiesSound
<1>8. \A u \in Tab : TabSound(u)'
  BY <1>4, <1>5 DEF TabSound, vars
<1>9. SentIsKept'
  <2> SUFFICES ASSUME NEW r \in Request, Unconfirmed(r)' PROVE status'[key'[r]] = "pending"
    BY DEF SentIsKept
  <2>1. key'[r] = key[r] /\ key[r] \in Key /\ pc[r] # "idle" /\ key[r] \notin known \cup overwritten'
    BY DEF Unconfirmed, vars, TypeInv, TypeOK
  <2>2. key[r] = tab[t].op \/ status[key[r]] = rows[key[r]]
    BY <1>3, <2>1
  <2>3. status[key[r]] = "pending"
    BY <1>3, <2>1 DEF SentIsKept, Unconfirmed
  <2>4. key[r] = tab[t].op => rows[key[r]] = "pending"
    BY <2>1 DEF TabSound
  <2>5. QED
    BY <1>2, <2>1, <2>2, <2>3, <2>4
<1>10. SentAsMade' /\ AuthorsAreNotRefused' /\ RetriesNeverConflict'
  BY DEF SentAsMade, AuthorsAreNotRefused, RetriesNeverConflict, vars
<1>11. overwritten' \subseteq Key
  BY <1>3
<1>12. QED
  BY <1>2, <1>7, <1>8, <1>9, <1>10, <1>11

\* A request leaves with what its key was made for; an entry that is not unconfirmed any
\* more has an outcome that some tab has read.
LEMMA SendKeepsJInv ==
    ASSUME TypeInv, JInv, NEW t \in Tab, Send(t), tab[t].at \in {"send", "missing"},
           UNCHANGED <<payload, status, known, overwritten>>
    PROVE  JInv'
<1> USE DEF JInv, JournalTypes
<1> DEFINE k == tab[t].op
<1>1. CASE ~Stored(k)
  <2>1. Rest(t) /\ UNCHANGED vars
    BY <1>1, Zenon DEF Send
  <2>2. QED
    BY <2>1, RestKeepsJInv
<1>2. CASE Stored(k)
  <2>1. PICK r \in Request :
            /\ key[r] = k
            /\ digest[r] = payload[k]
            /\ Receive(r)
            /\ tab' = [tab EXCEPT ![t].at = "call", ![t].call = r]
    BY <1>2 DEF Send, SendsStoredPayload
  <2>2. pc' = [pc EXCEPT ![r] = "find"] /\ pc[r] = "idle"
    BY <2>1 DEF Receive, Goto
  <2>3. UNCHANGED <<key, digest, receipt, author>>
    BY <2>1 DEF Receive
  <2>4. k \in Key /\ payload[k] # None
    BY DEF TabSound
  <2>5. UNCHANGED <<Committed, Refusals>>
    BY <2>2, <2>3 DEF Committed, Refusals, TypeInv, TypeOK
  <2>6. CopiesSound'
    BY <2>1, <2>5 DEF CopiesSound
  <2>7. tab'[t] = [tab[t] EXCEPT !.at = "call", !.call = r]
    BY <2>1
  <2>8. \A u \in Tab : TabSound(u)'
    <3>1. TabSound(t)'
      BY <2>1, <2>2, <2>3, <2>4, <2>7 DEF TabSound, TypeInv, TypeOK, TabRow
    <3>2. ASSUME NEW u \in Tab \ {t} PROVE TabSound(u)'
      <4>1. tab'[u] = tab[u] /\ TabSound(u)
        BY <2>1
      <4>2. \A q \in Request : pc[q] # "idle" => pc'[q] # "idle"
        BY <2>2 DEF TypeInv, TypeOK
      <4>3. QED
        BY <2>3, <2>5, <4>1, <4>2 DEF TabSound
    <3>3. QED
      BY <3>1, <3>2
  <2>9. SentIsKept'
    <3>1. k \notin known => status[k] = "pending"
      BY <1>2, <2>4 DEF Stored, CopiesSound, RowsSound, Status
    <3>2. QED
      BY <2>1, <2>2, <2>3, <3>1 DEF SentIsKept, Unconfirmed, TypeInv, TypeOK
  <2>10. SentAsMade'
    BY <2>1, <2>2, <2>3 DEF SentAsMade, TypeInv, TypeOK
  <2>11. AuthorsAreNotRefused' /\ RetriesNeverConflict'
    BY <2>2, <2>3 DEF AuthorsAreNotRefused, RetriesNeverConflict, TypeInv, TypeOK
  <2>12. JournalTypes'
    <3>1. [tab[t] EXCEPT !.at = "call", !.call = r] \in TabRow
      BY DEF TabRow
    <3>2. tab' = [tab EXCEPT ![t] = [tab[t] EXCEPT !.at = "call", !.call = r]]
      BY <2>1
    <3>3. QED
      BY <3>1, <3>2
  <2>13. QED
    BY <2>6, <2>8, <2>9, <2>10, <2>11, <2>12
<1>3. QED
  BY <1>1, <1>2

\* An operation is begun: under the key of an unconfirmed entry with this payload, or under
\* one that has no entry in any copy of the journal.
LEMMA SubmitKeepsJInv ==
    ASSUME TypeInv, JInv, NEW t \in Tab, NEW p \in Digest, Submit(t, p)
    PROVE  JInv'
<1> USE DEF JInv, JournalTypes
<1>1. PICK k \in KeyFor(p) :
          /\ payload' = [payload EXCEPT ![k] = p]
          /\ tab' = [tab EXCEPT ![t].op = k,
                        ![t].at   = IF k \in Pending THEN "send" ELSE "prepare",
                        ![t].rows = IF k \in Pending THEN None
                                    ELSE [status EXCEPT ![k] = "pending"]]
  BY Zenon DEF Submit
<1>2. UNCHANGED <<vars, status, known, overwritten>> /\ tab[t].at = "rest"
  BY Zenon DEF Submit, At
<1>3. /\ k \in Key
      /\ payload[k] \in {p, None}
      /\ k \notin Pending => \A j \in Key : status[j] = "pending" => payload[j] # p
  BY DEF KeyFor, Pending
<1>4. p # None /\ payload'[k] = p /\ \A j \in Key : payload[j] # None => payload'[j] = payload[j]
  BY <1>1, <1>3, NoneAssumption
<1>5. UNCHANGED <<Committed, Refusals>>
  BY <1>2 DEF vars, Committed, Refusals
<1>6. RowsSound(status, payload', Committed, Refusals, known)
  BY <1>4, RowsStaySound DEF CopiesSound
<1> DEFINE rows == [status EXCEPT ![k] = "pending"]
<1>7. k \notin Pending => RowsSound(rows, payload', Committed, Refusals, known)
  <2>1. ASSUME k \notin Pending, NEW j \in Key, status[j] = "pending" PROVE payload'[j] # payload'[k]
    <3>1. payload[j] # None /\ payload[j] # p
      BY <1>3, <2>1 DEF CopiesSound, RowsSound
    <3>2. QED
      BY <1>4, <3>1
  <2>2. QED
    BY <1>3, <1>4, <1>6, <2>1, OneRowMore DEF Status
<1>8. tab'[t].at \in {"send", "prepare"} /\ tab'[t].op = k /\ tab'[t].shown = tab[t].shown
  BY <1>1 DEF TabRow
<1>9. tab'[t].at = "prepare" => k \notin Pending /\ tab'[t].rows = rows
  BY <1>1 DEF TabRow
<1>10. \A u \in Tab \ {t} : tab'[u] = tab[u]
  BY <1>1
<1>11. CopiesSound'
  <2>1. ASSUME NEW u \in Tab, tab'[u].at \in {"prepare", "settle"}
        PROVE  RowsSound(tab'[u].rows, payload', Committed, Refusals, known)
    <3>1. CASE u = t
      BY <1>7, <1>8, <1>9, <2>1, <3>1
    <3>2. CASE u # t
      BY <1>4, <1>10, <2>1, <3>2, RowsStaySound DEF CopiesSound
    <3>3. QED
      BY <3>1, <3>2
  <2>2. QED
    BY <1>2, <1>5, <1>6, <2>1 DEF CopiesSound
<1>12. \A u \in Tab : TabSound(u)'
  <2>1. TabSound(t)'
    <3>1. tab'[t].at = "prepare" => tab'[t].rows[k] = "pending"
      BY <1>3, <1>9
    <3>2. \A j \in tab'[t].shown : payload'[j] # None
      <4>1. tab[t].shown \subseteq Key
        BY DEF TabRow
      <4>2. QED
        BY <1>4, <1>8, <4>1 DEF TabSound
    <3>3. QED
      BY <1>3, <1>4, <1>8, <3>1, <3>2 DEF TabSound
  <2>2. ASSUME NEW u \in Tab \ {t} PROVE TabSound(u)'
    <3>1. tab'[u] = tab[u] /\ TabSound(u) /\ tab[u].shown \subseteq Key
      BY <1>10 DEF TabRow
    <3>2. QED
      BY <1>2, <1>4, <1>5, <3>1 DEF TabSound, vars
  <2>3. QED
    BY <2>1, <2>2
<1>13. SentIsKept'
  BY <1>2 DEF SentIsKept, Unconfirmed, vars
<1>14. SentAsMade'
  BY <1>2, <1>4, NoneAssumption DEF SentAsMade, vars, TypeInv, TypeOK
<1>15. AuthorsAreNotRefused' /\ RetriesNeverConflict'
  BY <1>2 DEF AuthorsAreNotRefused, RetriesNeverConflict, vars
<1>16. JournalTypes'
  <2>1. rows \in [Key -> Status]
    BY DEF Status
  <2>2. tab' \in [Tab -> TabRow]
    <3> DEFINE row == [tab[t] EXCEPT !.op = k,
                                     !.at   = IF k \in Pending THEN "send" ELSE "prepare",
                                     !.rows = IF k \in Pending THEN None ELSE rows]
    <3>1. row \in TabRow
      BY <1>3, <2>1 DEF TabRow
    <3>2. tab' = [tab EXCEPT ![t] = row]
      BY <1>1
    <3>3. QED
      BY <3>1, <3>2
  <2>3. payload' \in [Key -> Digest \cup {None}]
    BY <1>1
  <2>4. QED
    BY <1>2, <2>2, <2>3
<1>17. QED
  BY <1>11, <1>12, <1>13, <1>14, <1>15, <1>16

LEMMA BrowserKeepsJInv ==
    ASSUME TypeInv, IInv, JInv, NEW t \in Tab, Browser(t)
    PROVE  JInv'
<1> USE DEF JInv, JournalTypes
<1>1. CASE \E p \in Digest : Submit(t, p)
  BY <1>1, SubmitKeepsJInv
<1>2. CASE Refresh(t)
  <2>1. Rest(t) /\ UNCHANGED <<vars, payload, status, known, overwritten>>
    BY <1>2, Zenon DEF Refresh
  <2>2. QED
    BY <2>1, RestKeepsJInv
<1>3. CASE SavePrepared(t)
  <2> DEFINE row == [tab[t] EXCEPT !.at = "send", !.rows = None]
  <2>1. /\ tab[t].at = "prepare" /\ Save(t)
        /\ tab' = [tab EXCEPT ![t].at = "send", ![t].rows = None]
        /\ UNCHANGED <<vars, payload, known>>
    BY <1>3, Zenon DEF SavePrepared, At
  <2>2. row \in TabRow /\ row.at = "send" /\ row.op = tab[t].op /\ row.shown = tab[t].shown
    BY DEF TabRow
  <2>3. tab' = [tab EXCEPT ![t] = row]
    BY <2>1
  <2>4. tab'[t] = row
    BY <2>3
  <2> HIDE DEF row
  <2>5. TabSound(t)'
    BY <2>1, <2>2, <2>4 DEF TabSound
  <2>6. QED
    BY <2>1, <2>2, <2>3, <2>5, SaveKeepsJInv
<1>4. CASE Post(t)
  <2>1. tab[t].at = "send" /\ Send(t) /\ UNCHANGED <<payload, status, known, overwritten>>
    BY <1>4, Zenon DEF Post, At
  <2>2. QED
    BY <2>1, SendKeepsJInv
<1>5. CASE ReceiveReceipt(t)
  <2>1. tab[t].at = "call" /\ pc[tab[t].call] = "done" /\ Settle(t, "completed")
    BY <1>5, Zenon DEF ReceiveReceipt, At
  <2>2. tab[t].op \in Committed
    <3>1. tab[t].call \in Request /\ key[tab[t].call] = tab[t].op /\ tab[t].op \in Key
      BY <2>1 DEF TabSound
    <3>2. receipt[tab[t].op] \in Digest
      BY <2>1, <3>1 DEF IInv, SameAnswer, TypeInv, TypeOK
    <3>3. QED
      BY <3>1, <3>2, NoneAssumption DEF Committed
  <2>3. QED
    BY <2>1, <2>2, SettleKeepsJInv
<1>6. CASE ReceiveRefusal(t)
  <2>1. tab[t].at = "call" /\ DefiniteRefusal(tab[t].call) /\ Settle(t, "rejected")
    BY <1>6, Zenon DEF ReceiveRefusal, At
  <2>2. tab[t].op \in Refusals
    BY <2>1 DEF TabSound, DefiniteRefusal, Refusals
  <2>3. QED
    BY <2>1, <2>2, SettleKeepsJInv
<1>7. CASE SaveSettled(t)
  <2> DEFINE row == [Resting EXCEPT !.shown = {k \in Key : status'[k] = "pending"}]
  <2>1. /\ tab[t].at = "settle" /\ Save(t)
        /\ tab' = [tab EXCEPT ![t] = row]
        /\ UNCHANGED <<vars, payload, known>>
    BY <1>7, Zenon DEF SaveSettled, At, Rest
  <2>2. row \in TabRow /\ row.at = "rest"
    BY NoneAssumption DEF TabRow, Resting
  <2>3. row.shown = {k \in Key : status'[k] = "pending"}
    BY DEF Resting
  <2>4. \A k \in Key : status'[k] = "pending" => payload[k] # None
    BY <2>1 DEF Save, CopiesSound, RowsSound
  <2>5. tab'[t] = row
    BY <2>1
  <2> HIDE DEF row
  <2>6. TabSound(t)'
    BY <2>1, <2>2, <2>3, <2>4, <2>5 DEF TabSound
  <2>7. QED
    BY <2>1, <2>2, <2>6, SaveKeepsJInv
<1>8. CASE LoseAnswer(t)
  <2>1. Rest(t) /\ UNCHANGED <<vars, payload, status, known, overwritten>>
    BY <1>8, Zenon DEF LoseAnswer, Unanswered
  <2>2. QED
    BY <2>1, RestKeepsJInv
<1>9. CASE CheckReceipt(t)
  <2>1. PICK k \in tab[t].shown :
            tab' = [tab EXCEPT ![t].op = k,
                       ![t].at = IF ReceiptCompleted(k) THEN "found" ELSE "missing"]
    BY <1>9, Zenon DEF CheckReceipt
  <2>2. UNCHANGED <<vars, payload, status, known, overwritten>>
    BY <1>9, Zenon DEF CheckReceipt
  <2>3. k \in Key /\ payload[k] # None
    BY DEF TabRow, TabSound
  <2> DEFINE row == [tab[t] EXCEPT !.op = k,
                                   !.at = IF ReceiptCompleted(k) THEN "found" ELSE "missing"]
  <2>4. /\ row \in TabRow /\ row.op = k /\ row.shown = tab[t].shown
        /\ row.at = IF ReceiptCompleted(k) THEN "found" ELSE "missing"
    BY <2>3 DEF TabRow
  <2>5. tab' = [tab EXCEPT ![t] = row]
    BY <2>1
  <2>6. tab'[t] = row
    BY <2>5
  <2> HIDE DEF row
  <2>7. ReceiptCompleted(k) => k \in Committed'
    BY <2>2, <2>3 DEF ReceiptCompleted, Committed, vars
  <2>8. TabSound(t)'
    BY <2>2, <2>3, <2>4, <2>6, <2>7 DEF TabSound
  <2>9. QED
    BY <2>2, <2>4, <2>5, <2>8, TabStepKeepsJInv
<1>10. CASE ReceiptFound(t)
  <2>1. tab[t].at = "found" /\ Settle(t, "completed")
    BY <1>10, Zenon DEF ReceiptFound, At
  <2>2. QED
    BY <2>1, SettleKeepsJInv DEF TabSound
<1>11. CASE Replay(t)
  <2>1. tab[t].at = "missing" /\ Send(t) /\ UNCHANGED <<payload, status, known, overwritten>>
    BY <1>11, Zenon DEF Replay, At
  <2>2. QED
    BY <2>1, SendKeepsJInv
<1>12. QED
  BY <1>1, <1>2, <1>3, <1>4, <1>5, <1>6, <1>7, <1>8, <1>9, <1>10, <1>11 DEF Browser

\* The invariant of the composition.
LEMMA JournalInvariant == JSpec => [](IInv /\ JInv)
<1>1. JInit => JInv
  <2> SUFFICES ASSUME JInit PROVE JInv
    OBVIOUS
  <2> USE NoneAssumption DEF JInit, Init
  <2>1. JournalTypes
    BY DEF JournalTypes, Status, Resting, TabRow
  <2>2. SentAsMade /\ AuthorsAreNotRefused /\ RetriesNeverConflict
    BY DEF SentAsMade, AuthorsAreNotRefused, RetriesNeverConflict
  <2>3. \A t \in Tab : tab[t].at = "rest" /\ tab[t].shown = {}
    BY DEF Resting
  <2>4. CopiesSound
    BY <2>3 DEF CopiesSound, RowsSound, Status
  <2>5. SentIsKept
    BY DEF SentIsKept, Unconfirmed
  <2>6. QED
    BY <2>1, <2>2, <2>3, <2>4, <2>5 DEF JInv, TabSound
<1>2. IInv /\ JInv /\ [JNext]_allvars => JInv'
  <2> SUFFICES ASSUME IInv, JInv, [JNext]_allvars PROVE JInv'
    OBVIOUS
  <2>1. TypeInv
    BY DEF IInv
  <2>2. CASE Server /\ UNCHANGED jvars
    BY <2>1, <2>2, ServerKeepsJInv
  <2>3. ASSUME NEW t \in Tab, Browser(t) PROVE JInv'
    BY <2>1, <2>3, BrowserKeepsJInv
  <2>4. CASE UNCHANGED allvars
    <3> USE <2>4 DEF allvars, vars, jvars, JInv
    <3>1. JournalTypes' /\ SentAsMade' /\ AuthorsAreNotRefused' /\ RetriesNeverConflict'
      BY DEF JournalTypes, SentAsMade, AuthorsAreNotRefused, RetriesNeverConflict
    <3>2. CopiesSound' /\ SentIsKept' /\ \A t \in Tab : TabSound(t)'
      BY DEF CopiesSound, SentIsKept, Unconfirmed, TabSound, Committed, Refusals
    <3>3. QED
      BY <3>1, <3>2
  <2>5. QED
    BY <2>2, <2>3, <2>4 DEF JNext
<1>3. JSpec => []IInv
  BY ServerRunsUnderJournal, InductiveInvariant
<1>4. QED
  BY <1>1, <1>2, <1>3, PTL DEF JSpec

-----------------------------------------------------------------------------
\* What the journal shows as completed was committed with that payload, and the refusal of
\* the only attempt is final, however often calls are lost, repeated or reloaded and
\* whatever entries overlapping saves take from each other.
THEOREM JournalTellsTheTruth == JSpec => []OutcomesAreTrue
<1>1. IInv /\ JInv => OutcomesAreTrue
  <2> SUFFICES ASSUME IInv, JInv PROVE OutcomesAreTrue
    OBVIOUS
  <2>1. JTypeOK
    BY DEF JTypeOK, IInv, TypeInv, JInv, JournalTypes
  <2>2. CompletedMeansCommitted
    BY DEF CompletedMeansCommitted, JInv, SentAsMade, CopiesSound, RowsSound, Committed
  <2>3. ASSUME NEW k \in Key, status[k] = "rejected",
               NEW r \in Request, {q \in Request : key[q] = k /\ pc[q] # "idle"} = {r}
        PROVE  receipt[k] = None
    <3>1. PICK s \in Request : key[s] = k /\ pc[s] \in {"refused", "conflict"}
      BY <2>3 DEF JInv, CopiesSound, RowsSound, Refusals
    <3>2. s = r
      BY <2>3, <3>1
    <3>3. receipt[k] # None => author[k] = r
      BY <2>3 DEF JInv, AuthorsAreNotRefused
    <3>4. QED
      BY <3>1, <3>2, <3>3 DEF JInv, AuthorsAreNotRefused
  <2>4. SoleRefusalIsFinal
    BY <2>3 DEF SoleRefusalIsFinal, IInv, ReceiptIsExecution
  <2>5. QED
    BY <2>1, <2>2, <2>4 DEF OutcomesAreTrue
<1>2. QED
  BY <1>1, JournalInvariant, PTL

\* What was sent stays in the journal as the one unconfirmed entry of its payload until a
\* tab has read its outcome, reloads, lost answers and stale panels of any number of tabs
\* included, unless two saves overlapped at its entry.
THEOREM UnconfirmedStays == JSpec => []UnconfirmedIsKept
<1>1. IInv /\ JInv => UnconfirmedIsKept
  <2> SUFFICES ASSUME IInv, JInv, NEW r \in Request, Unconfirmed(r)
      PROVE  /\ status[key[r]] = "pending"
             /\ \A q \in Request :
                   Unconfirmed(q) /\ payload[key[q]] = payload[key[r]] => key[q] = key[r]
    BY DEF UnconfirmedIsKept
  <2>1. \A q \in Request : key[q] \in Key
    BY DEF IInv, TypeInv, TypeOK
  <2>2. QED
    BY <2>1 DEF JInv, SentIsKept, CopiesSound, RowsSound
<1>2. QED
  BY <1>1, JournalInvariant, PTL

\* The server never sees two payloads under one key of the journal.
THEOREM RetriesAgree == JSpec => []RetriesNeverConflict
<1>1. JInv => RetriesNeverConflict
  BY DEF JInv
<1>2. QED
  BY <1>1, JournalInvariant, PTL

=============================================================================

------------------------------ MODULE StorageTx ------------------------------
(***************************************************************************)
(* Idempotent write operations of the location domain: begin_operation,    *)
(* complete_operation and run_in_txn of backend/app/services/storage_tx.py *)
(* as every keyed writer of storage_locations, storage_placement,          *)
(* storage_intake and storage_photos uses them.                            *)
(*                                                                         *)
(* A request is one HTTP delivery of an operation: the idempotency key the *)
(* client chose and the digest of its payload.  Deliveries of one          *)
(* operation may be concurrent (a client that retries while the first      *)
(* attempt is still queued) and the process may die between any two steps. *)
(* The business write is abstracted to "it is applied once more" and to a  *)
(* business refusal that depends on data this module does not have;        *)
(* Storage models both.  The operator is folded into the key: the unique   *)
(* constraint is on the pair.                                              *)
(***************************************************************************)
EXTENDS Naturals

CONSTANTS
    Request,        \* deliveries of operations
    Key,            \* (operator_member_id, idempotency_key) pairs
    Digest,         \* payload digests
    MaxRetries,     \* run_in_txn's max_retries
    GlobalWriter,   \* TRUE: SQLite, one writer; FALSE: PostgreSQL
    None

ASSUME RetriesAssumption == MaxRetries \in Nat
ASSUME WriterAssumption == GlobalWriter \in BOOLEAN
ASSUME NoneAssumption == None \notin Request \cup Digest

VARIABLES
    pc,         \* where each request is in the handler
    key,        \* the key each request carries
    digest,     \* the digest each request carries
    attempts,   \* failed executions of fn so far, in run_in_txn
    inserted,   \* request whose uncommitted location_operations row has the key
    receipt,    \* digest of the committed location_operations row
    author,     \* request that committed it (stands for result_json)
    effects,    \* committed business writes made under the key
    answer      \* what the handler returned: the author of the receipt it
                \* carried, or None with the outcome in pc

vars == <<pc, key, digest, attempts, inserted, receipt, author, effects, answer>>

InFlight == {"find", "insert", "reread", "work"}
Replied  == {"done", "conflict", "refused", "error"}
PC       == {"idle", "gone"} \cup InFlight \cup Replied

TypeOK ==
    /\ pc \in [Request -> PC]
    /\ key \in [Request -> Key]
    /\ digest \in [Request -> Digest]
    /\ attempts \in [Request -> 0 .. MaxRetries + 1]
    /\ inserted \in [Key -> Request \cup {None}]
    /\ receipt \in [Key -> Digest \cup {None}]
    /\ author \in [Key -> Request \cup {None}]
    /\ effects \in [Key -> Nat]
    /\ answer \in [Request -> Request \cup {None}]

Init ==
    /\ pc = [r \in Request |-> "idle"]
    /\ key \in [Request -> Key]
    /\ digest \in [Request -> Digest]
    /\ attempts = [r \in Request |-> 0]
    /\ inserted = [k \in Key |-> None]
    /\ receipt = [k \in Key |-> None]
    /\ author = [k \in Key |-> None]
    /\ effects = [k \in Key |-> 0]
    /\ answer = [r \in Request |-> None]

Goto(r, label) == pc' = [pc EXCEPT ![r] = label]

\* db.rollback(): the uncommitted key row of r, if it has one, disappears.
Rollback(r) == inserted' = [k \in Key |-> IF inserted[k] = r THEN None ELSE inserted[k]]

\* Mutant: any committed row answers, the digest is not compared.
ReplayWhateverDigest(r) ==
    /\ Goto(r, "done")
    /\ answer' = [answer EXCEPT ![r] = author[key[r]]]

\* _replay_or_conflict: a committed row answers the request by its digest.
ReplayOrConflict(r) ==
    IF receipt[key[r]] = digest[r]
    THEN /\ Goto(r, "done")
         /\ answer' = [answer EXCEPT ![r] = author[key[r]]]
    ELSE /\ Goto(r, "conflict")
         /\ UNCHANGED answer

-----------------------------------------------------------------------------
\* The request reaches the server; run_in_txn calls fn for the first time.
Receive(r) ==
    /\ pc[r] = "idle"
    /\ Goto(r, "find")
    /\ UNCHANGED <<key, digest, attempts, inserted, receipt, author, effects, answer>>

\* _find_operation, before the transaction holds any lock.
FindOperation(r) ==
    /\ pc[r] = "find"
    /\ IF receipt[key[r]] # None
       THEN ReplayOrConflict(r)
       ELSE Goto(r, "insert") /\ UNCHANGED answer
    /\ UNCHANGED <<key, digest, attempts, inserted, receipt, author, effects>>

\* Whether the INSERT of r's key waits: for the single writer (SQLite), or for
\* the transaction that holds an uncommitted row with the same key.
InsertBlocked(r) ==
    IF GlobalWriter
    THEN \E k \in Key : inserted[k] # None
    ELSE inserted[key[r]] # None

\* Mutant: location_operations without its unique constraint.
NoUniqueConstraint(r) == FALSE

UniqueViolation(r) == receipt[key[r]] # None

\* db.add(op); db.flush(): the unique constraint (operator, key) lets the row in
\* or raises IntegrityError, after which the transaction is rolled back.
RegisterKey(r) ==
    /\ pc[r] = "insert"
    /\ ~InsertBlocked(r)
    /\ IF UniqueViolation(r)
       THEN /\ Rollback(r)
            /\ Goto(r, "reread")
       ELSE /\ inserted' = [inserted EXCEPT ![key[r]] = r]
            /\ Goto(r, "work")
    /\ UNCHANGED <<key, digest, attempts, receipt, author, effects, answer>>

\* The IntegrityError branch reads the committed row again; without one it
\* re-raises.
RereadReceipt(r) ==
    /\ pc[r] = "reread"
    /\ IF receipt[key[r]] # None
       THEN ReplayOrConflict(r)
       ELSE Goto(r, "error") /\ UNCHANGED answer
    /\ UNCHANGED <<key, digest, attempts, inserted, receipt, author, effects>>

\* The business write, complete_operation and the commit: the receipt and the
\* effect become visible together.
Persist(r) ==
    /\ receipt' = [receipt EXCEPT ![key[r]] = digest[r]]
    /\ author' = [author EXCEPT ![key[r]] = r]
    /\ effects' = [effects EXCEPT ![key[r]] = @ + 1]
    /\ Rollback(r)

Commit(r) ==
    /\ pc[r] = "work"
    /\ Persist(r)
    /\ Goto(r, "done")
    /\ answer' = [answer EXCEPT ![r] = r]
    /\ UNCHANGED <<key, digest, attempts>>

\* Mutant: the business part had already committed on its own (create_copy does).
RefuseAfterOwnCommit(r) ==
    /\ pc[r] = "work"
    /\ Rollback(r)
    /\ Goto(r, "refused")
    /\ effects' = [effects EXCEPT ![key[r]] = @ + 1]
    /\ UNCHANGED <<key, digest, attempts, receipt, author, answer>>

\* A LocationError of the business part: the session is closed uncommitted.
Refuse(r) ==
    /\ pc[r] = "work"
    /\ Rollback(r)
    /\ Goto(r, "refused")
    /\ UNCHANGED <<key, digest, attempts, receipt, author, effects, answer>>

\* Mutant: attempts are not counted.
RetryUncounted(r) ==
    /\ UNCHANGED attempts
    /\ Goto(r, "find")

\* run_in_txn's except branch: one more attempt from the start of fn, or give up.
RetryOrRaise(r) ==
    /\ attempts' = [attempts EXCEPT ![r] = @ + 1]
    /\ Goto(r, IF attempts[r] + 1 > MaxRetries THEN "error" ELSE "find")

\* OperationalError (busy timeout, deadlock victim) at a write statement.
Busy(r) ==
    /\ pc[r] \in {"insert", "work"}
    /\ Rollback(r)
    /\ RetryOrRaise(r)
    /\ UNCHANGED <<key, digest, receipt, author, effects, answer>>

\* PostgreSQL only: the commit took place but its acknowledgement was lost, which
\* the driver also reports as OperationalError.
CommitUnacknowledged(r) ==
    /\ ~GlobalWriter
    /\ pc[r] = "work"
    /\ Persist(r)
    /\ RetryOrRaise(r)
    /\ UNCHANGED <<key, digest, answer>>

\* The process dies: every transaction in flight is rolled back, no answer.
Crash ==
    /\ \E r \in Request : pc[r] \in InFlight
    /\ pc' = [r \in Request |-> IF pc[r] \in InFlight THEN "gone" ELSE pc[r]]
    /\ inserted' = [k \in Key |-> None]
    /\ UNCHANGED <<key, digest, attempts, receipt, author, effects, answer>>

Step(r) ==
    \/ FindOperation(r)
    \/ RegisterKey(r)
    \/ RereadReceipt(r)
    \/ Commit(r)
    \/ Refuse(r)
    \/ Busy(r)
    \/ CommitUnacknowledged(r)

Next == Crash \/ \E r \in Request : Receive(r) \/ Step(r)

Spec == Init /\ [][Next]_vars

\* The handler runs to completion: a received request's thread keeps taking steps,
\* and the lock it waits for is granted by the database.
FairSpec == Spec /\ \A r \in Request : WF_vars(Step(r))

-----------------------------------------------------------------------------
(* Properties. *)

\* A key with a receipt was executed once, a key without one never: whatever is retried,
\* raced or crashed, nothing is executed twice and receipt and effect come together.
ReceiptIsExecution == \A k \in Key : effects[k] = IF receipt[k] = None THEN 0 ELSE 1

\* Every successful answer for a key carries the one committed result, and only
\* to requests whose payload is the one that was executed.
SameAnswer ==
    \A r \in Request : pc[r] = "done" =>
        /\ answer[r] = author[key[r]]
        /\ digest[r] = receipt[key[r]]

\* A request fails with a server error only after all its attempts: losing the race
\* for a key is answered from the winner's receipt, never raised.
ErrorOnlyWhenExhausted ==
    \A r \in Request : pc[r] = "error" => attempts[r] > MaxRetries

\* A committed receipt is never replaced.
ReceiptStable ==
    [][\A k \in Key : receipt[k] # None =>
            receipt'[k] = receipt[k] /\ author'[k] = author[k]]_vars

\* A received request is answered, or lost with the process.
EveryRequestEnds ==
    \A r \in Request : pc[r] \in InFlight ~> pc[r] \in Replied \cup {"gone"}

-----------------------------------------------------------------------------
\* The keyed writers implement the abstract promise: the receipt is the execution.
Promise == INSTANCE IdempotentOperation
             WITH performed <- receipt, by <- author, answered <- answer

\* Every behaviour of the server is one the abstract operation allows.
ImplementsPromise == Promise!Spec
=============================================================================

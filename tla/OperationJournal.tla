--------------------------- MODULE OperationJournal ---------------------------
(***************************************************************************)
(* The browser's journal of location operations (stores/storageOperations, *)
(* send/checkLocationOperation of stores/storage, the recovery panel)      *)
(* against the server of StorageTx.  An entry is written to localStorage   *)
(* before its request leaves, keeps its key across reloads, and is settled *)
(* by a complete receipt or by a definite refusal.                         *)
(*                                                                         *)
(* Tabs share the journal and nothing locks it: a tab saves all of it, as  *)
(* it has read it, with one entry changed, and another tab may save in     *)
(* between.  What a tab shows as unconfirmed is what it read last; its     *)
(* panel checks and sends from that list.  A tab has at most one operation *)
(* under way and may be reloaded or lose the connection while the server   *)
(* goes on working.  The fifty settled entries a save keeps are no bound   *)
(* here.                                                                   *)
(***************************************************************************)
EXTENDS StorageTx

CONSTANT Tab

VARIABLES
    payload,    \* what each key was made for (None: nobody has made it)
    status,     \* the journal: each key's entry, if it has one
    tab,        \* what each tab is doing, and its list of unconfirmed entries
    known,      \* history: keys of which some tab has read the outcome
    overwritten \* history: keys whose entry was saved over, as read before it changed

jvars == <<payload, status, tab, known, overwritten>>
allvars == <<vars, jvars>>

Status == {"absent", "pending", "completed", "rejected"}

\* A tab at rest: no operation, no copy of the journal to save, no request.
Resting == [at |-> "rest", op |-> None, rows |-> None, call |-> None, shown |-> {}]

TabRow ==
    [at : {"rest", "prepare", "send", "found", "missing", "call", "settle"},
     op : Key \cup {None},
     rows : [Key -> Status] \cup {None},
     call : Request \cup {None},
     shown : SUBSET Key]

JTypeOK ==
    /\ TypeOK
    /\ payload \in [Key -> Digest \cup {None}]
    /\ status \in [Key -> Status]
    /\ tab \in [Tab -> TabRow]

JInit ==
    /\ Init
    /\ payload = [k \in Key |-> None]
    /\ status = [k \in Key |-> "absent"]
    /\ tab = [t \in Tab |-> Resting]
    /\ known = {} /\ overwritten = {}

Pending == {k \in Key : status[k] = "pending"}

At(t, label) == tab[t].at = label

-----------------------------------------------------------------------------
\* syncPending and the panel's refresh: the journal is read again.
Rest(t) ==
    tab' = [tab EXCEPT ![t] = [Resting EXCEPT !.shown = {k \in Key : status'[k] = "pending"}]]

\* The view is opened, or shows other books.
Refresh(t) ==
    /\ At(t, "rest")
    /\ UNCHANGED status
    /\ Rest(t)
    /\ UNCHANGED <<vars, payload, known, overwritten>>

\* prepareLocationOperation: an unconfirmed entry with the same payload is used
\* again; otherwise the operation gets a key nobody used.
KeyFor(p) ==
    LET previous == {k \in Pending : payload[k] = p}
    IN  IF previous # {} THEN previous ELSE {k \in Key : payload[k] = None}

\* commit(kind), in a tab that shows nothing unconfirmed: the journal is read.
Submit(t, p) ==
    /\ At(t, "rest")
    /\ tab[t].shown = {}
    /\ \E k \in KeyFor(p) :
          /\ payload' = [payload EXCEPT ![k] = p]
          /\ tab' = [tab EXCEPT ![t].op = k,
                        ![t].at   = IF k \in Pending THEN "send" ELSE "prepare",
                        ![t].rows = IF k \in Pending THEN None
                                    ELSE [status EXCEPT ![k] = "pending"]]
    /\ UNCHANGED <<vars, status, known, overwritten>>

\* save: all rows, as they were read and with one changed; what another tab saved in
\* between is lost.
Save(t) ==
    /\ status' = tab[t].rows
    /\ overwritten' = overwritten \cup
          {k \in Key \ {tab[t].op} : status[k] # tab[t].rows[k]}

SavePrepared(t) ==
    /\ At(t, "prepare")
    /\ Save(t)
    /\ tab' = [tab EXCEPT ![t].at = "send", ![t].rows = None]
    /\ UNCHANGED <<vars, payload, known>>

SaveSettled(t) ==
    /\ At(t, "settle")
    /\ Save(t)
    /\ Rest(t)
    /\ UNCHANGED <<vars, payload, known>>

\* assertOperationOwner: the journal has an entry with this key, whatever its status.
Stored(k) == status[k] # "absent"

\* Mutant: the retry sends what the form holds now, not the stored payload.
SendsFormPayload(r, p) == TRUE

\* What is sent is the payload the entry was made with.
SendsStoredPayload(r, p) == digest[r] = p

\* sendLocationOperation: the request leaves, as a delivery not used before, or the
\* entry is gone and nothing does.
Send(t) ==
    LET k == tab[t].op IN
    IF Stored(k)
    THEN \E r \in Request :
            /\ key[r] = k
            /\ SendsStoredPayload(r, payload[k])
            /\ Receive(r)
            /\ tab' = [tab EXCEPT ![t].at = "call", ![t].call = r]
    ELSE Rest(t) /\ UNCHANGED vars

Post(t) ==
    /\ At(t, "send")
    /\ UNCHANGED status
    /\ Send(t)
    /\ UNCHANGED <<payload, known, overwritten>>

\* settleLocationOperation: the journal is read, and this entry takes the outcome.
Settle(t, outcome) ==
    LET k == tab[t].op IN
    /\ known' = known \cup {k}
    /\ UNCHANGED status
    /\ IF Stored(k)
       THEN tab' = [tab EXCEPT ![t].at = "settle", ![t].call = None,
                               ![t].rows = [status EXCEPT ![k] = outcome]]
       ELSE Rest(t)
    /\ UNCHANGED <<vars, payload, overwritten>>

\* sendLocationOperation got a complete receipt.
ReceiveReceipt(t) ==
    /\ At(t, "call")
    /\ pc[tab[t].call] = "done"
    /\ Settle(t, "completed")

\* 400, 404, 409, 413 and 422 are the refusals that settle an entry.
DefiniteRefusal(r) == pc[r] \in {"refused", "conflict"}

ReceiveRefusal(t) ==
    /\ At(t, "call")
    /\ DefiniteRefusal(tab[t].call)
    /\ Settle(t, "rejected")

\* Mutant: a server error settles the entry as well.
AnyFailure(t) == /\ status' = [status EXCEPT ![tab[t].op] = "rejected"]
                 /\ Rest(t)

\* The entry stays as it is; the answer, if one comes, is never read.
Unanswered(t) == UNCHANGED status /\ Rest(t)

\* Any other answer, a network failure, a reload of the page or its end, at any point;
\* a check that found nothing ends so as well.
LoseAnswer(t) ==
    /\ ~At(t, "rest")
    /\ Unanswered(t)
    /\ UNCHANGED <<vars, payload, known, overwritten>>

\* Mutant: an unknown receipt is reported as completed.
CompletedAnyway(k) == TRUE

\* GET /storage/operations/{key}: completed only with a stored result.
ReceiptCompleted(k) == receipt[k] # None

\* recover: checkLocationOperation asks for an entry of the panel's list.
CheckReceipt(t) ==
    /\ At(t, "rest")
    /\ \E k \in tab[t].shown :
          /\ Stored(k)
          /\ tab' = [tab EXCEPT ![t].op = k,
                        ![t].at = IF ReceiptCompleted(k) THEN "found" ELSE "missing"]
    /\ UNCHANGED <<vars, payload, status, known, overwritten>>

ReceiptFound(t) ==
    /\ At(t, "found")
    /\ Settle(t, "completed")

\* recover(op, replay): there was no receipt, the original key and payload are sent again.
Replay(t) ==
    /\ At(t, "missing")
    /\ UNCHANGED status
    /\ Send(t)
    /\ UNCHANGED <<payload, known, overwritten>>

Browser(t) ==
    \/ \E p \in Digest : Submit(t, p)
    \/ Refresh(t)
    \/ SavePrepared(t)
    \/ Post(t)
    \/ ReceiveReceipt(t)
    \/ ReceiveRefusal(t)
    \/ SaveSettled(t)
    \/ LoseAnswer(t)
    \/ CheckReceipt(t)
    \/ ReceiptFound(t)
    \/ Replay(t)

Server == Crash \/ \E r \in Request : Step(r)

JNext == (Server /\ UNCHANGED jvars) \/ \E t \in Tab : Browser(t)

JSpec == JInit /\ [][JNext]_allvars

-----------------------------------------------------------------------------
(* Properties. *)

\* What the journal shows as completed was committed with that payload.
CompletedMeansCommitted ==
    \A k \in Key : status[k] = "completed" => receipt[k] = payload[k]

\* An operation that was sent stays in the journal as unconfirmed until a tab has read
\* its outcome, and is the only one so with its payload, however tabs are reloaded, answers
\* lost and lists stale.  Entries that two overlapping saves have lost are an exception.
Unconfirmed(r) == pc[r] # "idle" /\ key[r] \notin known \cup overwritten

UnconfirmedIsKept ==
    \A r \in Request : Unconfirmed(r) =>
        /\ status[key[r]] = "pending"
        /\ \A q \in Request :
              Unconfirmed(q) /\ payload[key[q]] = payload[key[r]] => key[q] = key[r]

\* The journal's own retries never contradict each other: the server sees one
\* payload per key.
RetriesNeverConflict == \A r \in Request : pc[r] # "conflict"

\* A refusal of the only attempt is final: nothing was and nothing will be committed.
SoleRefusalIsFinal ==
    \A k \in Key :
        /\ status[k] = "rejected"
        /\ \E r \in Request : {q \in Request : key[q] = k /\ pc[q] # "idle"} = {r}
        => effects[k] = 0

\* Every variable keeps its type, and what the journal shows of an outcome is so.
OutcomesAreTrue == JTypeOK /\ CompletedMeansCommitted /\ SoleRefusalIsFinal

\* What the comment in StorageIntakeView.vue says of every refusal: a rejected
\* operation has not been committed.
RejectedMeansNotCommitted ==
    \A k \in Key : status[k] = "rejected" => effects[k] = 0

\* What the comment in save says: every unconfirmed operation is kept.
UnconfirmedAlwaysKept ==
    \A r \in Request : pc[r] # "idle" /\ key[r] \notin known => status[key[r]] = "pending"

\* What the recovery panel offers to send again is unconfirmed.
SentWhileUnconfirmed ==
    [][\A r \in Request : pc[r] = "idle" /\ pc'[r] # "idle" => status[key[r]] = "pending"]_allvars
=============================================================================

------------------------- MODULE IdempotentOperation -------------------------
(***************************************************************************)
(* What an idempotency key promises a client, with nothing of how it is    *)
(* kept: the operation of a key is performed at most once, by the payload  *)
(* of one request, and every successful answer repeats that performance.   *)
(***************************************************************************)
CONSTANTS Request, Key, Digest, None

VARIABLES performed,    \* the payload executed under each key, or None
          by,           \* the request whose execution it was
          answered      \* the execution each request was told of, or None

pvars == <<performed, by, answered>>

Init ==
    /\ performed = [k \in Key |-> None]
    /\ by = [k \in Key |-> None]
    /\ answered = [r \in Request |-> None]

\* A request executes its payload under a key nobody executed before.
Perform(r, k, d) ==
    /\ performed[k] = None
    /\ performed' = [performed EXCEPT ![k] = d]
    /\ by' = [by EXCEPT ![k] = r]

\* A request is told the execution of its key, if the payload is its own.
Answer(r, k, d) ==
    /\ performed[k] = d
    /\ answered' = [answered EXCEPT ![r] = by[k]]
    /\ UNCHANGED <<performed, by>>

\* The first execution usually answers in the same step.
PerformAndAnswer(r, k, d) ==
    /\ Perform(r, k, d)
    /\ answered' = [answered EXCEPT ![r] = r]

Next ==
    \E r \in Request, k \in Key, d \in Digest :
        \/ Perform(r, k, d) /\ UNCHANGED answered
        \/ PerformAndAnswer(r, k, d)
        \/ Answer(r, k, d)

Spec == Init /\ [][Next]_pvars
=============================================================================

-------------------------- MODULE MCOperationJournal --------------------------
\* Two tabs, two keys, two payloads, three deliveries: one operation can be sent
\* twice while another tab submits.
EXTENDS OperationJournal, TLC

CONSTANTS r1, r2, r3, k1, k2, d1, d2, t1, t2

\* None of them is told apart from the others of its kind.
Interchangeable ==
    Permutations(Request) \cup Permutations(Key) \cup Permutations(Digest) \cup Permutations(Tab)
=============================================================================

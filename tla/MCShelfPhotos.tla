---------------------------- MODULE MCShelfPhotos ----------------------------
\* Uploads under two keys, of which one can replay another; with three uploads the limit
\* of two photos is reached.
EXTENDS ShelfPhotos, TLC

CONSTANTS p1, p2, p3, k1, k2, w1, w2

\* A third upload, which meets the full shelf, only when another has been answered, and no
\* collection and no recovery has begun.
ThirdUploadAlone ==
    (\E p \in Path : up[p].pc = "idle")
    \/ /\ \A p \in Path : job[p] = NoJob \/ job[p] = [NoJob EXCEPT !.status = "pending"]
       /\ \A w \in Worker : gc[w] = NoGc
       /\ rec = NoRec
       /\ \E p \in Path : up[p].pc = "done"
       /\ open /\ \A p \in Path : up[p].pc # "dead"

\* A recovery meets the job of one photo at a time.
OneJobInRecovery ==
    rec = NoRec \/ Cardinality({p \in Path : job[p] # NoJob}) <= 1

Interchangeable == Permutations(Path) \cup Permutations(Key) \cup Permutations(Worker)
=============================================================================

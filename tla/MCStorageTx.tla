----------------------------- MODULE MCStorageTx -----------------------------
\* Three deliveries over two keys and two payloads: two attempts of one operation
\* and a stranger (another payload under the key, or another key).
EXTENDS StorageTx

CONSTANTS r1, r2, r3, k1, k2, d1, d2
=============================================================================

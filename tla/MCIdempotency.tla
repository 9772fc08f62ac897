----------------------------- MODULE MCIdempotency ----------------------------
(* Small instances of Idempotency for TLC. *)
EXTENDS Idempotency, TLC

CONSTANTS t1, t2, t3, r1, r2
\* Callers are interchangeable, and so are the requests.
Symmetric == Permutations(Threads) \cup Permutations(Requests)
=============================================================================

--------------------------- MODULE MCExecutionGate ---------------------------
(* Small instances of ExecutionGate for TLC. *)
EXTENDS ExecutionGate, TLC

CONSTANTS t1, t2, alice, bob, pay, send, wipe, c1, c2

\* The default policy, and one that ALLOWs sending without confirmation.
Strict == [a \in Actions |-> IF a = pay THEN "CONFIRM_STRONG" ELSE "CONFIRM"]
Lenient == [Strict EXCEPT ![send] = "ALLOW"]
BothPolicies == {Strict, Lenient}
OnlyStrict == {Strict}

ThreadSymmetry == Permutations(Threads)
=============================================================================

----------------------------- MODULE MCLockFreeStack -----------------------------
(* Small instances of LockFreeStack for TLC.                               *)
EXTENDS LockFreeStack, TLC

Symmetry == Permutations(Nodes) \cup Permutations(Pushers) \cup Permutations(Checking)

================================================================================

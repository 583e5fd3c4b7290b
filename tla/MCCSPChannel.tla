------------------------------ MODULE MCCSPChannel ------------------------------
(* Small instances of CSPChannel for TLC.                                  *)
EXTENDS CSPChannel, TLC

Symmetry == Permutations(Productors) \cup Permutations(Customers)

================================================================================

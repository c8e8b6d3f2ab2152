----------------------------- MODULE MCConnPool ------------------------------
(* Small instances of ConnPool: one more connection than there are workers. *)
EXTENDS ConnPool, TLC

Symmetry == Permutations(Conns) \cup Permutations(Addrs)
==============================================================================

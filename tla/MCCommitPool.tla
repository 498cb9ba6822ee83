---------------------------- MODULE MCCommitPool ----------------------------
(* Small instances of CommitPool. *)
EXTENDS CommitPool, TLC

PoolSymmetry == Permutations(Who) \cup Permutations(Digests)

=============================================================================

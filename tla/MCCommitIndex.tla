--------------------------- MODULE MCCommitIndex ---------------------------
(* Small instances of CommitIndex. *)
EXTENDS CommitIndex, TLC

IndexSymmetry == Permutations(Who) \cup Permutations(Digests) \cup Permutations(Indexes)

=============================================================================

---------------------------- MODULE MCCommitment ----------------------------
(* Small instances of Commitment: interchangeable proprietors and digests. *)
EXTENDS Commitment, TLC

WhoSymmetry == Permutations(Who)

=============================================================================

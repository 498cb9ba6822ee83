---------------------------- MODULE MCShareLedger ----------------------------
(* Small instances of ShareLedger: three interchangeable receipts. *)
EXTENDS ShareLedger, TLC

ReceiptSymmetry == Permutations(Ids)

=============================================================================

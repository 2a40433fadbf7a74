-------------------------------- MODULE MCBackup --------------------------------
(* Instances of Backup, and so of ReceiptPipeline, for TLC. *)
EXTENDS Backup, TLC

\* Receipts are alike, and so are workers.
Symmetry == Permutations(Receipts) \cup Permutations(Workers)

=============================================================================

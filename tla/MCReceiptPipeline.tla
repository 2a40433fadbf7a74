-------------------------- MODULE MCReceiptPipeline --------------------------
(* Instances of ReceiptPipeline for TLC. *)
EXTENDS ReceiptPipeline, TLC

\* Receipts are alike, and so are workers.
Symmetry == Permutations(Receipts) \cup Permutations(Workers)

=============================================================================

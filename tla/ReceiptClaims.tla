---------------------------- MODULE ReceiptClaims ----------------------------
(***************************************************************************)
(* Sentences of the repository about receipts, as written there, that the  *)
(* pipeline does not keep, each with a run of its own that shows how.      *)
(***************************************************************************)
EXTENDS ReceiptPipeline

\* "creates one ReceiptItem per line item" (applyParsedResult): a run killed
\* between its commit and its acknowledgement is repeated and adds them again.
OneReceiptItemPerLineItem == \A r \in Receipts : items[r] <= 1

\* "Only receipts the agent successfully read count toward spend"
\* (COUNTED_STATUSES): the endpoint confirms a receipt in any status.
OnlyReadReceiptsCount ==
  \A r \in Receipts : status[r] \in COUNTED_STATUSES => items[r] > 0

=============================================================================

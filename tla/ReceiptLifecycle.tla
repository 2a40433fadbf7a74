--------------------------- MODULE ReceiptLifecycle ---------------------------
(***************************************************************************)
(* What a receipt promises its owner, as the comments of ReceiptStatus     *)
(* have it: it is uploaded, read by the agent (again, if a reading         *)
(* failed) and confirmed, in this order and never back.  Its line items    *)
(* appear once, together with PARSED.                                      *)
(***************************************************************************)
EXTENDS Naturals

CONSTANT Receipts

VARIABLES status, items

vars == <<status, items>>

Init ==
  /\ status = [r \in Receipts |-> "NONE"]
  /\ items = [r \in Receipts |-> 0]

Becomes(r, from, to) ==
  /\ status[r] \in from
  /\ status' = [status EXCEPT ![r] = to]

Upload(r) == Becomes(r, {"NONE"}, "PENDING") /\ UNCHANGED items
PickUp(r) == Becomes(r, {"PENDING", "FAILED"}, "PROCESSING") /\ UNCHANGED items
Fail(r) == Becomes(r, {"PENDING", "PROCESSING"}, "FAILED") /\ UNCHANGED items
Confirm(r) == Becomes(r, {"PARSED"}, "CONFIRMED") /\ UNCHANGED items

Parse(r) ==
  /\ Becomes(r, {"PROCESSING"}, "PARSED")
  /\ items[r] = 0
  /\ items' = [items EXCEPT ![r] = 1]

Next ==
  \E r \in Receipts :
    Upload(r) \/ PickUp(r) \/ Fail(r) \/ Parse(r) \/ Confirm(r)

Spec == Init /\ [][Next]_vars

=============================================================================

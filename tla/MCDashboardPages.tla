--------------------------- MODULE MCDashboardPages ---------------------------
(* Instances of DashboardPages for TLC: all receipts are of one workspace. *)
EXTENDS DashboardPages

CONSTANT ws1

MCThisMonth == <<2026, 1>>
MCOldestMonth == <<2025, 12>>
MCHomeOf == [r \in Receipts |-> ws1]

=============================================================================

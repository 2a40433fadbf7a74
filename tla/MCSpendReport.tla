----------------------------- MODULE MCSpendReport -----------------------------
(* Two receipts, each read up to twice, around the end of a year and of a     *)
(* February; of the answers five are accepted, of which one is dated with a  *)
(* day its month does not have, and one is a refund.                          *)
EXTENDS SpendReport

MCDays == {<<2025, 12, 31>>, <<2026, 1, 1>>}
MCReportMonths == {<<2025, 12>>, <<2026, 1>>, <<2026, 2>>, <<2026, 3>>}

Input(merchant, date, discount, total, items) ==
  [merchantName |-> merchant, purchaseDate |-> date, discountTotal |-> discount,
   total |-> total, items |-> items]
Answer(input) ==
  [toolUse |-> TRUE, stopReason |-> "tool_use", parses |-> TRUE, input |-> input]
Item(amount, category) == [amount |-> amount, category |-> category]

Dated == Input("Shop", <<2026, 1, 31>>, Absent, 15, <<Item(10, "Food"), Item(5, "")>>)
Undated == Input("<UNKNOWN>", Absent, 2, 18, <<Item(20, "Food")>>)
Rolling == Input("", <<2026, 2, 30>>, None, 7, <<Item(9, Absent)>>)
Other == Input("Cafe", <<2025, 12, 31>>, None, 5, <<Item(5, "Drink")>>)
Refund == Input("Cafe", <<2026, 1, 1>>, Absent, -4, <<Item(-4, "Food")>>)

MCResponses ==
  {Answer(Dated), Answer(Undated), Answer(Rolling), Answer(Other), Answer(Refund),
   [Answer(Dated) EXCEPT !.stopReason = "max_tokens"],
   [Answer(Dated) EXCEPT !.parses = FALSE],
   [Answer(Dated) EXCEPT !.toolUse = FALSE],
   Answer([Dated EXCEPT !.purchaseDate = Week]),
   Answer([Dated EXCEPT !.purchaseDate = Garbled]),
   Answer([Dated EXCEPT !.total = Absent])}
=============================================================================

----------------------------- MODULE MonthlySummary -----------------------------
(***************************************************************************)
(* The two reports of ReceiptsService over the receipts of one workspace.  *)
(* rows is a function from receipts to their rows, of which only the       *)
(* fields the reports look at are kept; amounts are counted in satang.     *)
(***************************************************************************)
EXTENDS Calendar, FiniteSetsExt, SequencesExt

CONSTANTS
  None,          \* NULL
  TopMerchants   \* how many merchants the summary lists

COUNTED_STATUSES == {"PARSED", "CONFIRMED"}
Counted(rows) == {r \in DOMAIN rows : rows[r].status \in COUNTED_STATUSES}

\* purchaseDate ?? createdAt
DateOf(row) == IF row.purchaseDate # None THEN row.purchaseDate ELSE row.createdAt

availableMonths(rows) == {MonthOf(DateOf(rows[r])) : r \in Counted(rows)}

ReceiptsIn(rows, month) ==
  {r \in Counted(rows) :
     \/ rows[r].purchaseDate # None /\ Within(rows[r].purchaseDate, monthRange(month))
     \/ rows[r].purchaseDate = None /\ Within(rows[r].createdAt, monthRange(month))}

\* total ?? 0
Paid(row) == IF row.total # None THEN row.total ELSE 0
\* merchantName?.trim() || "Unknown"
Merchant(row) == IF row.merchantName \in {None, ""} THEN "Unknown" ELSE row.merchantName
Category(item) == IF item.category # None THEN item.category ELSE "Uncategorized"

NoEntries == [k \in {} |-> [amount |-> 0, count |-> 0]]

\* map.set(key, {amount: entry.amount.plus(amount), count: entry.count + 1})
Plus(map, key, amount) ==
  [k \in DOMAIN map \cup {key} |->
     LET old == IF k \in DOMAIN map THEN map[k] ELSE [amount |-> 0, count |-> 0]
     IN  IF k = key THEN [amount |-> old.amount + amount, count |-> old.count + 1]
         ELSE old]

\* The loop over the items of a receipt.
AddItems(items, map) ==
  FoldLeft(LAMBDA sums, item : Plus(sums, Category(item), item.amount), map, items)

\* The merchants with the greatest amounts, in some order where they are equal.
Top(byMerchant) ==
  LET merchants == DOMAIN byMerchant
  IN  CHOOSE listed \in SUBSET merchants :
        /\ IF Cardinality(merchants) < TopMerchants THEN listed = merchants
           ELSE Cardinality(listed) = TopMerchants
        /\ \A m \in listed, n \in merchants \ listed :
             byMerchant[n].amount <= byMerchant[m].amount

\* Mutant: the last receipt of a day replaces those before it.
AddReceiptDayReplaced(row, sums) ==
  [total |-> sums.total + Paid(row),
   byDay |-> (DateOf(row) :> [amount |-> Paid(row), count |-> 1]) @@ sums.byDay,
   byMerchant |-> Plus(sums.byMerchant, Merchant(row), Paid(row)),
   byCategory |-> AddItems(row.items, sums.byCategory)]

\* The loop over the receipts of the month; "sums" are its four accumulators.
AddReceipt(row, sums) ==
  [total |-> sums.total + Paid(row),
   byDay |-> Plus(sums.byDay, DateOf(row), Paid(row)),
   byMerchant |-> Plus(sums.byMerchant, Merchant(row), Paid(row)),
   byCategory |-> AddItems(row.items, sums.byCategory)]

NoSums == [total |-> 0, byDay |-> NoEntries, byMerchant |-> NoEntries, byCategory |-> NoEntries]

monthlySummary(rows, month) ==
  LET receipts == ReceiptsIn(rows, month)
      sums == FoldSet(LAMBDA r, acc : AddReceipt(rows[r], acc), NoSums, receipts)
  IN  [month |-> month,
       receiptCount |-> Cardinality(receipts),
       total |-> sums.total,
       byCategory |-> sums.byCategory,
       byDay |-> sums.byDay,
       topMerchants |-> [k \in Top(sums.byMerchant) |-> sums.byMerchant[k]]]

=============================================================================

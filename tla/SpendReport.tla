------------------------------ MODULE SpendReport ------------------------------
(***************************************************************************)
(* What the reports say of receipts that are read, failed, confirmed and   *)
(* read again.  A run of a job is markProcessing and then applyParsedResult*)
(* or markFailed; why the queue runs a job again is ReceiptPipeline's      *)
(* matter.  Claude's answer goes through extractReceipt; a reading leaves  *)
(* out what it could not read, and the row keeps what was there before.    *)
(***************************************************************************)
EXTENDS MonthlySummary

CONSTANTS
  Receipts,
  Days,         \* the days on which receipts are uploaded
  Responses,    \* what Claude may answer
  Absent,       \* a field that an answer does not have, "undefined"
  Garbled,      \* a value of the wrong type, or a date that is not ISO 8601
  Week,         \* an ISO 8601 date that is no day ("2026-W27"): an Invalid Date
  ReportMonths, \* the months whose summary is asked for
  MaxReadings   \* bounds the runs of one receipt

VARIABLES
  rows,         \* the receipts there are, and their items
  reading,      \* the receipts with a run under way
  begun         \* how many runs of a receipt were begun

Amounts(items) == {items[i].amount : i \in DOMAIN items}

\* Items of an answer: a sequence, of which the amounts and categories matter.
Itemised(items) ==
  /\ items \in Seq(Range(items))
  /\ \A item \in Range(items) : DOMAIN item = {"amount", "category"}

ASSUME SpendReportAssumption ==
  /\ TopMerchants \in Nat
  /\ Absent # None
  /\ Absent \notin Dates /\ None \notin Dates
  /\ Days \subseteq Dates
  /\ ReportMonths \subseteq Months
  /\ \A response \in Responses :
       /\ DOMAIN response.input =
            {"merchantName", "purchaseDate", "discountTotal", "total", "items"}
       /\ response.input.purchaseDate \in Dates \cup {Absent, None, Garbled, Week}
       /\ response.input.discountTotal \in {Absent, None, Garbled} \cup Int
       /\ response.input.total \in {Absent, None, Garbled} \cup Int
       /\ response.input.items # Absent =>
            /\ Itemised(response.input.items)
            /\ Amounts(response.input.items) \subseteq {Absent, None, Garbled} \cup Int

vars == <<rows, reading, begun>>

\* validate(plainToInstance(ParsedReceiptDto, rawInput))
Valid(input) ==
  /\ Garbled \notin {input.merchantName, input.purchaseDate, input.discountTotal, input.total}
  /\ input.total \notin {Absent, None}
  /\ input.items # Absent
  /\ Amounts(input.items) \cap {Absent, None, Garbled} = {}

\* extractReceipt returns; in every other case it throws.
Accepted(response) ==
  /\ response.toolUse
  /\ response.stopReason # "max_tokens"
  /\ response.parses
  /\ Valid(response.input)

extractReceipt(response) ==
  [response.input EXCEPT !.merchantName = IF @ = "<UNKNOWN>" THEN Absent ELSE @]

\* Prisma leaves a column alone whose new value is undefined.
Kept(new, old) == IF new = Absent THEN old ELSE new

\* parsed.purchaseDate ? new Date(parsed.purchaseDate) : undefined
NewDate(text) == IF text \in {Absent, None} THEN Absent ELSE DateOfText(text)

\* item.suggestedCategory ? categoryByName.get(...) : undefined
ItemRow(item) ==
  [item EXCEPT !.category = IF @ \in {"", Absent} THEN None ELSE @]
ItemRows(items) == [i \in DOMAIN items |-> ItemRow(items[i])]

ParsedRow(row, parsed) ==
  [row EXCEPT !.status = "PARSED",
              !.merchantName = Kept(parsed.merchantName, @),
              !.purchaseDate = Kept(NewDate(parsed.purchaseDate), @),
              !.discountTotal = Kept(parsed.discountTotal, @),
              !.total = parsed.total,
              !.items = @ \o ItemRows(parsed.items)]

Init ==
  /\ rows = [r \in {} |-> None]
  /\ reading = {}
  /\ begun = [r \in Receipts |-> 0]

CreatePending(r, day) ==
  /\ r \notin DOMAIN rows
  /\ rows' = [q \in DOMAIN rows \cup {r} |->
                IF q # r THEN rows[q]
                ELSE [status |-> "PENDING", createdAt |-> day, merchantName |-> None,
                      purchaseDate |-> None, discountTotal |-> None, total |-> None,
                      items |-> <<>>]]
  /\ UNCHANGED <<reading, begun>>

MarkProcessing(r) ==
  /\ r \in DOMAIN rows \ reading
  /\ begun[r] < MaxReadings
  /\ rows' = [rows EXCEPT ![r].status = "PROCESSING"]
  /\ reading' = reading \cup {r}
  /\ begun' = [begun EXCEPT ![r] = @ + 1]

\* The transaction commits: an Invalid Date would have failed it.
ApplyParsedResult(r, response) ==
  /\ r \in reading
  /\ Accepted(response)
  /\ response.input.purchaseDate # Week
  /\ rows' = [rows EXCEPT ![r] = ParsedRow(@, extractReceipt(response))]
  /\ reading' = reading \ {r}
  /\ UNCHANGED begun

\* The answer is rejected, or the call, a read or the transaction fails.
MarkFailed(r) ==
  /\ r \in reading
  /\ rows' = [rows EXCEPT ![r].status = "FAILED"]
  /\ reading' = reading \ {r}
  /\ UNCHANGED begun

\* The worker is gone before its catch block: the status stays PROCESSING.
RunEnds(r) ==
  /\ r \in reading
  /\ reading' = reading \ {r}
  /\ UNCHANGED <<rows, begun>>

Confirm(r) ==
  /\ r \in DOMAIN rows
  /\ rows' = [rows EXCEPT ![r].status = "CONFIRMED"]
  /\ UNCHANGED <<reading, begun>>

Next ==
  \E r \in Receipts :
    \/ \E day \in Days : CreatePending(r, day)
    \/ MarkProcessing(r)
    \/ \E response \in Responses : ApplyParsedResult(r, response)
    \/ MarkFailed(r)
    \/ RunEnds(r)
    \/ Confirm(r)

Spec == Init /\ [][Next]_vars

-----------------------------------------------------------------------------
(* Properties *)

\* A counted receipt is in the summary of one month, that of its purchase date
\* or else of its upload, and availableMonths offers that month: the ranges
\* monthRange makes neither overlap nor leave a gap at a month's or year's end.
EachReceiptInItsMonth ==
  \A r \in Counted(rows) :
    LET own == MonthOf(DateOf(rows[r]))
    IN  /\ own \in availableMonths(rows)
        /\ \A month \in ReportMonths : r \in ReceiptsIn(rows, month) <=> month = own

Discount(row) == IF row.discountTotal # None THEN row.discountTotal ELSE 0
SumOfItems(row) == SumFunction([i \in DOMAIN row.items |-> row.items[i].amount])
SumOf(map, field) == SumFunction([k \in DOMAIN map |-> map[k][field]])
Spent(receipts) == SumFunction([r \in receipts |-> Paid(rows[r])])
Discounts(receipts) == SumFunction([r \in receipts |-> Discount(rows[r])])
From(merchant, receipts) == {r \in receipts : Merchant(rows[r]) = merchant}
Reconciles(r) == SumOfItems(rows[r]) - Discount(rows[r]) = Paid(rows[r])

\* The parts of a summary agree with its total and with the receipts: the days
\* add up to the total and to the number of receipts, and are days of the month;
\* a merchant's amount is that of its receipts, none left out has a greater one
\* (refunds make amounts negative), and the merchants add up to the total unless
\* some were left out; the categories exceed the total by just the discounts if
\* the figures of each receipt reconcile, as those of one reading may.
BreakdownsAgree ==
  \A month \in ReportMonths :
    LET summary == monthlySummary(rows, month)
        receipts == ReceiptsIn(rows, month)
        merchants == {Merchant(rows[r]) : r \in receipts}
        listed == DOMAIN summary.topMerchants
    IN  /\ SumOf(summary.byDay, "amount") = summary.total
        /\ SumOf(summary.byDay, "count") = summary.receiptCount
        /\ \A day \in DOMAIN summary.byDay : MonthOf(day) = month
        /\ \A m \in listed :
             /\ summary.topMerchants[m].amount = Spent(From(m, receipts))
             /\ summary.topMerchants[m].count = Cardinality(From(m, receipts))
        /\ \A m \in merchants \ listed, n \in listed :
             Spent(From(m, receipts)) <= summary.topMerchants[n].amount
        /\ Cardinality(listed) < TopMerchants =>
             SumOf(summary.topMerchants, "amount") = summary.total
        /\ (\A r \in receipts : Reconciles(r)) =>
             SumOf(summary.byCategory, "amount") = summary.total + Discounts(receipts)

=============================================================================

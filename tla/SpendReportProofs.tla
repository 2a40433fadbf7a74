--------------------------- MODULE SpendReportProofs ---------------------------
(***************************************************************************)
(* Proofs that a receipt belongs to one month, that its row holds what its *)
(* readings gave, and that the parts of a summary add up: for any receipts,*)
(* days of upload, answers, readings and months from the year 100 on.      *)
(***************************************************************************)
EXTENDS SpendReport, Folding

-----------------------------------------------------------------------------
(* The calendar.                                                           *)

\* The bounds of a month's range are its first day and the next month's.
LEMMA RangeOfMonth ==
  ASSUME NEW y \in Years, NEW m \in 1..12
  PROVE  /\ monthRange(<<y, m>>).start = <<y, m, 1>>
         /\ monthRange(<<y, m>>).end = IF m = 12 THEN <<y + 1, 1, 1>> ELSE <<y, m + 1, 1>>
<1>1. y \in Nat /\ FullYear(y) = y
  BY DEF Years, FullYear
<1>2. FirstOf(y, m - 1) = <<y, m, 1>>
  <2>1. (m - 1) \div 12 = 0 /\ (m - 1) % 12 = m - 1
    OBVIOUS
  <2>2. QED
    BY <1>1, <2>1 DEF FirstOf
<1>3. FirstOf(y, m) = IF m = 12 THEN <<y + 1, 1, 1>> ELSE <<y, m + 1, 1>>
  <2>1. CASE m = 12
    <3>1. 12 \div 12 = 1 /\ 12 % 12 = 0
      OBVIOUS
    <3>2. QED
      BY <1>1, <2>1, <3>1 DEF FirstOf
  <2>2. CASE m # 12
    <3>1. m \div 12 = 0 /\ m % 12 = m
      BY <2>2
    <3>2. QED
      BY <1>1, <2>2, <3>1 DEF FirstOf
  <2>3. QED
    BY <2>1, <2>2
<1>4. QED
  BY <1>2, <1>3 DEF monthRange

\* The ranges of the months share no day, and every day is in one.
LEMMA MonthsPartitionDays ==
  ASSUME NEW date \in Dates, NEW month \in Months
  PROVE  Within(date, monthRange(month)) <=> month = MonthOf(date)
<1>1. PICK y \in Years, m \in 1..12 : month = <<y, m>>
  BY DEF Months
<1>2. PICK dy \in Years, dm \in 1..12, dd \in 1..31 : date = <<dy, dm, dd>>
  BY DEF Dates
<1>3. y \in Nat /\ dy \in Nat
  BY DEF Years
<1>4. Before(date, <<y, m, 1>>) <=> (dy < y \/ (dy = y /\ dm < m))
  BY <1>2, <1>3 DEF Before
<1>5. Before(date, IF m = 12 THEN <<y + 1, 1, 1>> ELSE <<y, m + 1, 1>>)
        <=> (dy < y \/ (dy = y /\ dm <= m))
  <2>1. CASE m = 12
    BY <1>2, <1>3, <2>1 DEF Before
  <2>2. CASE m # 12
    BY <1>2, <1>3, <2>2 DEF Before
  <2>3. QED
    BY <2>1, <2>2
<1>6. Within(date, monthRange(month)) <=> dy = y /\ dm = m
  <2>1. /\ monthRange(month).start = <<y, m, 1>>
        /\ monthRange(month).end = IF m = 12 THEN <<y + 1, 1, 1>> ELSE <<y, m + 1, 1>>
    BY <1>1, RangeOfMonth
  <2>2. Within(date, monthRange(month))
          <=> /\ ~(dy < y \/ (dy = y /\ dm < m))
              /\ dy < y \/ (dy = y /\ dm <= m)
    BY <1>4, <1>5, <2>1, Zenon DEF Within
  <2>3. QED
    BY <1>3, <2>2
<1>7. month = MonthOf(date) <=> dy = y /\ dm = m
  BY <1>1, <1>2 DEF MonthOf
<1>8. QED
  BY <1>6, <1>7

\* A day its month does not have becomes one of the next month, never beyond.
LEMMA DateOfTextIsDate ==
  ASSUME NEW date \in Dates
  PROVE  DateOfText(date) \in Dates
<1>1. PICK y \in Years, m \in 1..12, d \in 1..31 : date = <<y, m, d>>
  BY DEF Dates
<1>2. DaysIn(y, m) \in 28..31 /\ (m = 12 => DaysIn(y, m) = 31)
  BY DEF DaysIn
<1>3. CASE d > DaysIn(y, m)
  <2>1. m + 1 \in 1..12 /\ d - DaysIn(y, m) \in 1..31
    BY <1>2, <1>3
  <2>2. QED
    BY <1>1, <1>3, <2>1 DEF DateOfText, Dates
<1>4. CASE ~(d > DaysIn(y, m))
  BY <1>1, <1>4 DEF DateOfText
<1>5. QED
  BY <1>3, <1>4

-----------------------------------------------------------------------------
(* The rows.                                                               *)

\* The results that may be applied, and the items that are made of them.
Taken == {response \in Responses :
            Accepted(response) /\ response.input.purchaseDate # Week}
ParsedResults == {extractReceipt(response) : response \in Taken}
Items == UNION {Range(ItemRows(parsed.items)) : parsed \in ParsedResults}

Fields == {"status", "createdAt", "merchantName", "purchaseDate", "discountTotal",
           "total", "items"}

\* Every row has a day of upload and, if it has a purchase date, a real one.
RowTyped(row) ==
  /\ DOMAIN row = Fields
  /\ row.createdAt \in Dates
  /\ row.purchaseDate \in Dates \cup {None}
  /\ row.discountTotal \in Int \cup {None}
  /\ row.total \in Int \cup {None}
  /\ row.items \in Seq(Items)

RowsTyped ==
  /\ DOMAIN rows \subseteq Receipts /\ IsFiniteSet(DOMAIN rows)
  /\ reading \subseteq DOMAIN rows
  /\ \A r \in DOMAIN rows : RowTyped(rows[r])

\* Changing one field leaves the others.
LEMMA FieldChanged ==
  ASSUME NEW f, NEW a, NEW b
  PROVE  /\ DOMAIN [f EXCEPT ![a] = b] = DOMAIN f
         /\ \A c \in DOMAIN f : [f EXCEPT ![a] = b][c] = IF c = a THEN b ELSE f[c]
OBVIOUS

\* Changing the status changes nothing else.
LEMMA StatusChanged ==
  ASSUME NEW row, RowTyped(row), NEW status
  PROVE  LET new == [row EXCEPT !.status = status]
         IN  /\ RowTyped(new)
             /\ \A field \in Fields \ {"status"} : new[field] = row[field]
BY FieldChanged DEF RowTyped, Fields

\* A reading may change every field but the day of upload.
LEMMA ParsedFields ==
  ASSUME NEW row, DOMAIN row = Fields, NEW parsed
  PROVE  LET new == ParsedRow(row, parsed)
         IN  /\ DOMAIN new = Fields
             /\ new.createdAt = row.createdAt
             /\ new.merchantName = Kept(parsed.merchantName, row.merchantName)
             /\ new.purchaseDate = Kept(NewDate(parsed.purchaseDate), row.purchaseDate)
             /\ new.discountTotal = Kept(parsed.discountTotal, row.discountTotal)
             /\ new.total = parsed.total
             /\ new.items = row.items \o ItemRows(parsed.items)
<1> DEFINE m == Kept(parsed.merchantName, row.merchantName)
           p == Kept(NewDate(parsed.purchaseDate), row.purchaseDate)
           d == Kept(parsed.discountTotal, row.discountTotal)
           t == parsed.total
           i == row.items \o ItemRows(parsed.items)
           r1 == [row EXCEPT !.status = "PARSED"]
           r2 == [r1 EXCEPT !.merchantName = m]
           r3 == [r2 EXCEPT !.purchaseDate = p]
           r4 == [r3 EXCEPT !.discountTotal = d]
           r5 == [r4 EXCEPT !.total = t]
           r6 == [r5 EXCEPT !.items = i]
<1>1. ParsedRow(row, parsed) = r6
  BY Zenon DEF ParsedRow
<1> HIDE DEF m, p, d, t, i, r1, r2, r3, r4, r5, r6
<1>2. DOMAIN r1 = Fields /\ \A c \in Fields : r1[c] = IF c = "status" THEN "PARSED" ELSE row[c]
  BY FieldChanged DEF r1
<1>3. DOMAIN r2 = Fields /\ \A c \in Fields : r2[c] = IF c = "merchantName" THEN m ELSE r1[c]
  BY <1>2, FieldChanged DEF r2
<1>4. DOMAIN r3 = Fields /\ \A c \in Fields : r3[c] = IF c = "purchaseDate" THEN p ELSE r2[c]
  BY <1>3, FieldChanged DEF r3
<1>5. DOMAIN r4 = Fields /\ \A c \in Fields : r4[c] = IF c = "discountTotal" THEN d ELSE r3[c]
  BY <1>4, FieldChanged DEF r4
<1>6. DOMAIN r5 = Fields /\ \A c \in Fields : r5[c] = IF c = "total" THEN t ELSE r4[c]
  BY <1>5, FieldChanged DEF r5
<1>7. DOMAIN r6 = Fields /\ \A c \in Fields : r6[c] = IF c = "items" THEN i ELSE r5[c]
  BY <1>6, FieldChanged DEF r6
<1>8. /\ r6.createdAt = row.createdAt /\ r6.merchantName = m /\ r6.purchaseDate = p
      /\ r6.discountTotal = d /\ r6.total = t /\ r6.items = i
  BY <1>2, <1>3, <1>4, <1>5, <1>6, <1>7 DEF Fields
<1>9. QED
  BY <1>1, <1>7, <1>8 DEF m, p, d, t, i

\* What a result that may be applied looks like.
LEMMA ParsedResultType ==
  ASSUME NEW parsed \in ParsedResults
  PROVE  /\ NewDate(parsed.purchaseDate) \in Dates \cup {Absent}
         /\ parsed.discountTotal \in Int \cup {Absent, None}
         /\ parsed.total \in Int
         /\ ItemRows(parsed.items) \in Seq(Items)
         /\ \A item \in Range(ItemRows(parsed.items)) : item.amount \in Int
<1>1. PICK response \in Responses :
        /\ Accepted(response) /\ response.input.purchaseDate # Week
        /\ parsed = extractReceipt(response)
  BY DEF ParsedResults, Taken
<1> DEFINE input == response.input
<1>2. /\ parsed.purchaseDate = input.purchaseDate /\ parsed.discountTotal = input.discountTotal
      /\ parsed.total = input.total /\ parsed.items = input.items
  BY <1>1, SpendReportAssumption DEF extractReceipt
<1>3. Valid(input)
  BY <1>1 DEF Accepted
<1> HIDE DEF input
<1>4. /\ input.purchaseDate \in Dates \cup {Absent, None}
      /\ input.discountTotal \in Int \cup {Absent, None}
      /\ input.total \in Int
  BY <1>1, <1>3, SpendReportAssumption DEF Valid, input
<1>5. Itemised(input.items) /\ Amounts(input.items) \subseteq {Absent, None, Garbled} \cup Int
  BY <1>3, SpendReportAssumption DEF Valid, input
<1>6. ASSUME NEW i \in DOMAIN input.items PROVE ItemRow(input.items[i]).amount \in Int
  <2> DEFINE item == input.items[i]
  <2>1. item \in Range(input.items)
    BY DEF Range
  <2>2. DOMAIN item = {"amount", "category"} /\ item.amount \in Int
    BY <1>3, <1>5, <2>1 DEF Valid, Amounts, Itemised
  <2> HIDE DEF item
  <2>3. ItemRow(item).amount = item.amount
    BY <2>2, FieldChanged DEF ItemRow
  <2>4. QED
    BY <2>2, <2>3 DEF item
<1>7. NewDate(input.purchaseDate) \in Dates \cup {Absent}
  BY <1>4, DateOfTextIsDate DEF NewDate
<1>8. ItemRows(parsed.items) \in Seq(Items)
  <2>1. Range(ItemRows(parsed.items)) \subseteq Items
    BY DEF Items
  <2>2. parsed.items \in Seq(Range(parsed.items))
    BY <1>2, <1>5 DEF Itemised
  <2>3. DOMAIN ItemRows(parsed.items) = 1..Len(parsed.items) /\ Len(parsed.items) \in Nat
    BY <2>2 DEF ItemRows
  <2>4. \A i \in 1..Len(parsed.items) : ItemRows(parsed.items)[i] \in Items
    BY <2>1, <2>3 DEF Range
  <2>5. ItemRows(parsed.items) = [i \in 1..Len(parsed.items) |-> ItemRow(parsed.items[i])]
    BY <2>3 DEF ItemRows
  <2>6. QED
    BY <2>3, <2>4, <2>5
<1>9. \A item \in Range(ItemRows(parsed.items)) : item.amount \in Int
  BY <1>2, <1>6 DEF Range, ItemRows
<1>10. QED
  BY <1>2, <1>4, <1>7, <1>8, <1>9

\* An accepted answer whose date is no Invalid Date keeps a row typed.
LEMMA ParsedRowTyped ==
  ASSUME NEW row, RowTyped(row), NEW parsed \in ParsedResults
  PROVE  RowTyped(ParsedRow(row, parsed))
<1> DEFINE new == ParsedRow(row, parsed)
<1>1. /\ DOMAIN new = Fields
      /\ new.createdAt = row.createdAt
      /\ new.purchaseDate = Kept(NewDate(parsed.purchaseDate), row.purchaseDate)
      /\ new.discountTotal = Kept(parsed.discountTotal, row.discountTotal)
      /\ new.total = parsed.total
      /\ new.items = row.items \o ItemRows(parsed.items)
  BY ParsedFields DEF RowTyped
<1> HIDE DEF new
<1>2. Kept(NewDate(parsed.purchaseDate), row.purchaseDate) \in Dates \cup {None}
  BY ParsedResultType DEF Kept, RowTyped
<1>3. Kept(parsed.discountTotal, row.discountTotal) \in Int \cup {None}
  BY ParsedResultType DEF Kept, RowTyped
<1>4. parsed.total \in Int /\ row.items \o ItemRows(parsed.items) \in Seq(Items)
  BY ParsedResultType DEF RowTyped
<1>5. RowTyped(new)
  BY <1>1, <1>2, <1>3, <1>4 DEF RowTyped
<1>6. QED
  BY <1>5 DEF new

\* A result that a step applies is one that may be applied.
LEMMA AppliedIsTaken ==
  ASSUME NEW r \in Receipts, NEW response \in Responses, ApplyParsedResult(r, response)
  PROVE  extractReceipt(response) \in ParsedResults
BY DEF ApplyParsedResult, ParsedResults, Taken

\* A new row has only its day of upload.
NewRow(day) ==
  [status |-> "PENDING", createdAt |-> day, merchantName |-> None,
   purchaseDate |-> None, discountTotal |-> None, total |-> None, items |-> <<>>]

\* Every step keeps the rows typed.
LEMMA RowsTypedStep ==
  ASSUME RowsTyped, [Next]_vars
  PROVE  RowsTyped'
<1> USE DEF RowsTyped
<1>1. ASSUME NEW r \in Receipts, NEW day \in Days, CreatePending(r, day)
      PROVE  RowsTyped'
  <2>1. RowTyped(NewRow(day))
    BY SpendReportAssumption DEF RowTyped, NewRow, Fields
  <2>2. rows' = [q \in DOMAIN rows \cup {r} |-> IF q # r THEN rows[q] ELSE NewRow(day)]
    BY <1>1 DEF CreatePending, NewRow
  <2>3. reading' = reading
    BY <1>1 DEF CreatePending
  <2>4. DOMAIN rows' = DOMAIN rows \cup {r} /\ IsFiniteSet(DOMAIN rows \cup {r})
    BY <2>2, FS_AddElement
  <2>5. QED
    BY <2>1, <2>2, <2>3, <2>4
<1>2. ASSUME NEW r \in Receipts, MarkProcessing(r) PROVE RowsTyped'
  BY <1>2, StatusChanged DEF MarkProcessing
<1>3. ASSUME NEW r \in Receipts, NEW response \in Responses,
             ApplyParsedResult(r, response)
      PROVE  RowsTyped'
  <2> DEFINE new(row) == ParsedRow(row, extractReceipt(response))
  <2>1. \A q \in DOMAIN rows : RowTyped(new(rows[q]))
    BY <1>3, AppliedIsTaken, ParsedRowTyped
  <2>2. rows' = [rows EXCEPT ![r] = new(rows[r])] /\ reading' = reading \ {r}
    BY <1>3 DEF ApplyParsedResult
  <2> HIDE DEF new
  <2>3. QED
    BY <2>1, <2>2
<1>4. ASSUME NEW r \in Receipts, MarkFailed(r) PROVE RowsTyped'
  BY <1>4, StatusChanged DEF MarkFailed
<1>5. ASSUME NEW r \in Receipts, RunEnds(r) PROVE RowsTyped'
  BY <1>5 DEF RunEnds
<1>6. ASSUME NEW r \in Receipts, Confirm(r) PROVE RowsTyped'
  BY <1>6, StatusChanged DEF Confirm
<1>7. CASE UNCHANGED vars
  BY <1>7 DEF vars
<1>8. QED
  BY <1>1, <1>2, <1>3, <1>4, <1>5, <1>6, <1>7 DEF Next

\* Typed rows fall into one month each.
LEMMA TypedRowsHaveAMonth == RowsTyped => EachReceiptInItsMonth
<1> SUFFICES ASSUME RowsTyped, NEW r \in Counted(rows)
             PROVE  /\ MonthOf(DateOf(rows[r])) \in availableMonths(rows)
                    /\ \A month \in ReportMonths :
                         r \in ReceiptsIn(rows, month) <=> month = MonthOf(DateOf(rows[r]))
  BY DEF EachReceiptInItsMonth
<1>1. RowTyped(rows[r])
  BY DEF RowsTyped, Counted
<1>2. DateOf(rows[r]) \in Dates
  BY <1>1 DEF DateOf, RowTyped
<1>3. ASSUME NEW month \in ReportMonths
      PROVE  r \in ReceiptsIn(rows, month) <=> month = MonthOf(DateOf(rows[r]))
  <2>1. month \in Months
    BY SpendReportAssumption
  <2>2. r \in ReceiptsIn(rows, month) <=> Within(DateOf(rows[r]), monthRange(month))
    BY DEF ReceiptsIn, DateOf
  <2>3. QED
    BY <1>2, <2>1, <2>2, MonthsPartitionDays
<1>4. MonthOf(DateOf(rows[r])) \in availableMonths(rows)
  BY DEF availableMonths
<1>5. QED
  BY <1>3, <1>4

\* A counted receipt is in the summary of exactly one month, the one the picker
\* offers for it, however often it is read, fails or is confirmed: no two ranges
\* of monthRange (receipts.service.ts) overlap, and no day is between two.
THEOREM ReceiptsHaveOneMonth == Spec => []EachReceiptInItsMonth
<1>1. Init => RowsTyped
  BY FS_EmptySet DEF Init, RowsTyped
<1>2. RowsTyped /\ [Next]_vars => RowsTyped'
  BY RowsTypedStep
<1>3. QED
  BY <1>1, <1>2, TypedRowsHaveAMonth, PTL DEF Spec

-----------------------------------------------------------------------------
(* The accumulation of a summary.                                          *)

Entry == [amount : Int, count : Int]

\* The maps from some of the keys K to entries.
Maps(K) == UNION {[D -> Entry] : D \in {D \in SUBSET K : IsFiniteSet(D)}}

LEMMA MapsType ==
  ASSUME NEW K, NEW map
  PROVE  map \in Maps(K) <=> /\ DOMAIN map \subseteq K
                             /\ IsFiniteSet(DOMAIN map)
                             /\ map = [k \in DOMAIN map |-> map[k]]
                             /\ \A k \in DOMAIN map : map[k] \in Entry
<1>1. ASSUME map \in Maps(K)
      PROVE  /\ DOMAIN map \subseteq K /\ IsFiniteSet(DOMAIN map)
             /\ map = [k \in DOMAIN map |-> map[k]]
             /\ \A k \in DOMAIN map : map[k] \in Entry
  <2>1. PICK D \in SUBSET K : IsFiniteSet(D) /\ map \in [D -> Entry]
    BY <1>1 DEF Maps
  <2>2. QED
    BY <2>1
<1>2. ASSUME DOMAIN map \subseteq K, IsFiniteSet(DOMAIN map),
             map = [k \in DOMAIN map |-> map[k]], \A k \in DOMAIN map : map[k] \in Entry
      PROVE  map \in Maps(K)
  <2>1. map \in [DOMAIN map -> Entry]
    BY <1>2
  <2>2. QED
    BY <1>2, <2>1 DEF Maps
<1>3. QED
  BY <1>1, <1>2

\* The amounts, or the counts, of a map are numbers.
Column(map, field) == [k \in DOMAIN map |-> map[k][field]]

LEMMA ColumnIsNumbers ==
  ASSUME NEW K, NEW map \in Maps(K)
  PROVE  /\ Numbers(Column(map, "amount"), DOMAIN map)
         /\ Numbers(Column(map, "count"), DOMAIN map)
         /\ SumOf(map, "amount") = SumFunction(Column(map, "amount"))
         /\ SumOf(map, "count") = SumFunction(Column(map, "count"))
<1>1. IsFiniteSet(DOMAIN map) /\ \A k \in DOMAIN map : map[k] \in Entry
  BY MapsType
<1>2. \A k \in DOMAIN map : map[k].amount \in Int /\ map[k].count \in Int
  BY <1>1 DEF Entry
<1>3. Numbers(Column(map, "amount"), DOMAIN map) /\ Numbers(Column(map, "count"), DOMAIN map)
  BY <1>1, <1>2 DEF Numbers, Column
<1>4. /\ SumOf(map, "amount") = SumFunction(Column(map, "amount"))
      /\ SumOf(map, "count") = SumFunction(Column(map, "count"))
  BY Zenon DEF SumOf, Column
<1>5. QED
  BY <1>3, <1>4

\* new is map with n added to the amount of key, and one to its count.
Increased(new, map, key, n) ==
  /\ DOMAIN new = DOMAIN map \cup {key}
  /\ \A k \in DOMAIN map \ {key} : new[k] = map[k]
  /\ new[key].amount = (IF key \in DOMAIN map THEN map[key].amount ELSE 0) + n
  /\ new[key].count = (IF key \in DOMAIN map THEN map[key].count ELSE 0) + 1

\* That is what Plus does.
LEMMA PlusEntries ==
  ASSUME NEW K, NEW map \in Maps(K), NEW key \in K, NEW n \in Int
  PROVE  Plus(map, key, n) \in Maps(K) /\ Increased(Plus(map, key, n), map, key, n)
<1> DEFINE new == Plus(map, key, n)
           Old(k) == IF k \in DOMAIN map THEN map[k] ELSE [amount |-> 0, count |-> 0]
<1>1. /\ DOMAIN map \subseteq K /\ IsFiniteSet(DOMAIN map)
      /\ \A k \in DOMAIN map : map[k] \in Entry
  BY MapsType
<1>2. new = [k \in DOMAIN map \cup {key} |->
               IF k = key THEN [amount |-> Old(k).amount + n, count |-> Old(k).count + 1]
               ELSE Old(k)]
  BY Zenon DEF Plus
<1>3. DOMAIN new = DOMAIN map \cup {key} /\ new = [k \in DOMAIN new |-> new[k]]
  BY <1>2
<1>4. \A k \in DOMAIN map \ {key} : new[k] = map[k]
  BY <1>2
<1>5. new[key] = [amount |-> Old(key).amount + n, count |-> Old(key).count + 1]
  BY <1>2
<1>6. Old(key).amount \in Int /\ Old(key).count \in Int
  <2>1. CASE key \in DOMAIN map
    BY <1>1, <2>1 DEF Entry
  <2>2. CASE key \notin DOMAIN map
    BY <2>2
  <2>3. QED
    BY <2>1, <2>2
<1>7. /\ Old(key).amount = IF key \in DOMAIN map THEN map[key].amount ELSE 0
      /\ Old(key).count = IF key \in DOMAIN map THEN map[key].count ELSE 0
  OBVIOUS
<1> HIDE DEF new, Old
<1>8. new[key] \in Entry
  BY <1>5, <1>6 DEF Entry
<1>9. IsFiniteSet(DOMAIN new) /\ DOMAIN new \subseteq K
  BY <1>1, <1>3, FS_AddElement
<1>10. \A k \in DOMAIN new : new[k] \in Entry
  BY <1>1, <1>3, <1>4, <1>8
<1>11. new \in Maps(K)
  BY <1>3, <1>9, <1>10, MapsType
<1>12. /\ new[key].amount = (IF key \in DOMAIN map THEN map[key].amount ELSE 0) + n
       /\ new[key].count = (IF key \in DOMAIN map THEN map[key].count ELSE 0) + 1
  BY <1>5, <1>7
<1>13. Increased(new, map, key, n)
  BY <1>3, <1>4, <1>12 DEF Increased
<1>14. QED
  BY <1>11, <1>13 DEF new

\* Plus adds the amount to the sum of the amounts, and one to that of the counts.
LEMMA PlusSums ==
  ASSUME NEW K, NEW map \in Maps(K), NEW key \in K, NEW n \in Int
  PROVE  /\ SumOf(Plus(map, key, n), "amount") = SumOf(map, "amount") + n
         /\ SumOf(Plus(map, key, n), "count") = SumOf(map, "count") + 1
<1> DEFINE new == Plus(map, key, n)
           D == DOMAIN map
<1>1. /\ new \in Maps(K) /\ DOMAIN new = D \cup {key}
      /\ \A k \in D \ {key} : new[k] = map[k]
      /\ new[key].amount = (IF key \in D THEN map[key].amount ELSE 0) + n
      /\ new[key].count = (IF key \in D THEN map[key].count ELSE 0) + 1
  BY PlusEntries DEF Increased
<1> HIDE DEF new
<1>2. ASSUME NEW field, NEW m \in Int, Numbers(Column(map, field), D),
             new[key][field] = (IF key \in D THEN map[key][field] ELSE 0) + m
      PROVE  SumFunction(Column(new, field)) = SumFunction(Column(map, field)) + m
  <2> DEFINE f == Column(new, field)
             g == Column(map, field)
  <2>1. DOMAIN f = D \cup {key} /\ DOMAIN g = D
    BY <1>1 DEF Column
  <2>2. OnlyAt(f, g, D \cup {key}, key)
    BY <1>1 DEF Column, OnlyAt
  <2>3. f[key] = new[key][field] /\ (key \in D => g[key] = map[key][field])
    BY <1>1 DEF Column
  <2>4. f[key] = (IF key \in D THEN g[key] ELSE 0) + m
    BY <1>2, <2>3
  <2> HIDE DEF f, g, D
  <2>5. Numbers(g, D)
    BY <1>2 DEF g
  <2>6. SumFunction(f) = SumFunction(g) + m
    BY <2>1, <2>2, <2>4, <2>5, SumFunctionPlus
  <2>7. QED
    BY <2>6 DEF f, g
<1>3. Numbers(Column(map, "amount"), D) /\ Numbers(Column(map, "count"), D)
  BY ColumnIsNumbers
<1>4. SumFunction(Column(new, "amount")) = SumFunction(Column(map, "amount")) + n
  BY <1>1, <1>2, <1>3
<1>5. SumFunction(Column(new, "count")) = SumFunction(Column(map, "count")) + 1
  BY <1>1, <1>2, <1>3
<1>6. QED
  BY <1>1, <1>4, <1>5, ColumnIsNumbers DEF new

\* A map without keys has the sums zero.
LEMMA NoEntriesSums ==
  ASSUME NEW K
  PROVE  /\ NoEntries \in Maps(K) /\ DOMAIN NoEntries = {}
         /\ SumOf(NoEntries, "amount") = 0 /\ SumOf(NoEntries, "count") = 0
<1>1. DOMAIN NoEntries = {}
  BY DEF NoEntries
<1>2. NoEntries = [k \in {} |-> NoEntries[k]]
  BY DEF NoEntries
<1>3. NoEntries \in Maps(K)
  BY <1>1, <1>2, FS_EmptySet, MapsType
<1>4. ASSUME NEW field PROVE SumOf(NoEntries, field) = 0
  <2>1. DOMAIN [k \in DOMAIN NoEntries |-> NoEntries[k][field]] = {}
    BY <1>1
  <2>2. QED
    BY <2>1, SumEmpty DEF SumOf, SumFunction
<1>5. QED
  BY <1>1, <1>3, <1>4

-----------------------------------------------------------------------------
(* The loop over the items of a receipt.                                   *)

ItemAmounts(items) == [i \in DOMAIN items |-> items[i].amount]

\* The categories there may be.
Categories == {Category(item) : item \in Items}

\* The recursive function behind AddItems: it takes the last of the items left.
IsItemLoop(it, items, map) ==
  it = [s \in SUBSET DOMAIN items |->
          IF s = {} THEN map
          ELSE Plus(it[s \ {Max(s)}], Category(items[Max(s)]), items[Max(s)].amount)]

LEMMA ItemsAreTyped ==
  ASSUME NEW items \in Seq(Items)
  PROVE  /\ IsFiniteSet(DOMAIN items) /\ DOMAIN items \subseteq Int
         /\ \A i \in DOMAIN items : items[i].amount \in Int /\ Category(items[i]) \in Categories
         /\ Numbers(ItemAmounts(items), DOMAIN items)
<1>1. DOMAIN items = 1..Len(items) /\ Len(items) \in Nat
  OBVIOUS
<1>2. IsFiniteSet(DOMAIN items) /\ DOMAIN items \subseteq Int
  BY <1>1, FS_Interval
<1>3. ASSUME NEW i \in DOMAIN items
      PROVE  items[i].amount \in Int /\ Category(items[i]) \in Categories
  <2>1. items[i] \in Items
    BY <1>1
  <2>2. PICK parsed \in ParsedResults : items[i] \in Range(ItemRows(parsed.items))
    BY <2>1 DEF Items
  <2>3. items[i].amount \in Int
    BY <2>2, ParsedResultType
  <2>4. QED
    BY <2>1, <2>3 DEF Categories
<1>4. Numbers(ItemAmounts(items), DOMAIN items)
  BY <1>2, <1>3 DEF Numbers, ItemAmounts
<1>5. QED
  BY <1>2, <1>3, <1>4

LEMMA ItemLoopExists ==
  ASSUME NEW items \in Seq(Items), NEW map \in Maps(Categories)
  PROVE  \E it \in [SUBSET DOMAIN items -> Maps(Categories)] : IsItemLoop(it, items, map)
<1> DEFINE D == DOMAIN items
           V == Maps(Categories)
           c == [s \in SUBSET D |-> Max(s)]
           h == [i \in D |-> [m \in V |-> Plus(m, Category(items[i]), items[i].amount)]]
<1>1. /\ IsFiniteSet(D) /\ D \subseteq Int
      /\ \A i \in D : items[i].amount \in Int /\ Category(items[i]) \in Categories
  BY ItemsAreTyped
<1>2. \A s \in SUBSET D : s # {} => Max(s) \in s
  BY <1>1, FS_Subset, MaxIsGreatest
<1>3. Picks(c, D)
  BY <1>2 DEF Picks
<1>4. \A i \in D, m \in V : Plus(m, Category(items[i]), items[i].amount) \in V
  BY <1>1, PlusEntries
<1>5. h \in [D -> [V -> V]]
  BY <1>4
<1>6. PICK it \in [SUBSET D -> V] : IsFold(it, D, map, h, c)
  <2> HIDE DEF h, c, D, V
  <2>1. map \in V
    BY DEF V
  <2>2. QED
    BY <1>1, <1>3, <1>5, <2>1, FoldExists, Zenon
<1>7. \A s \in SUBSET D : it[s] = IF s = {} THEN map ELSE h[c[s]][it[s \ {c[s]}]]
  BY <1>6 DEF IsFold
<1>8. ASSUME NEW s \in SUBSET D, s # {}
      PROVE  it[s] = Plus(it[s \ {Max(s)}], Category(items[Max(s)]), items[Max(s)].amount)
  <2>1. Max(s) \in D /\ c[s] = Max(s) /\ it[s \ {Max(s)}] \in V
    BY <1>2, <1>8
  <2> HIDE DEF V, D, c
  <2>2. h[Max(s)][it[s \ {Max(s)}]]
          = Plus(it[s \ {Max(s)}], Category(items[Max(s)]), items[Max(s)].amount)
    BY <2>1
  <2>3. QED
    BY <1>7, <1>8, <2>1, <2>2
<1>9. \A s \in SUBSET D :
        it[s] = IF s = {} THEN map
                ELSE Plus(it[s \ {Max(s)}], Category(items[Max(s)]), items[Max(s)].amount)
  BY <1>7, <1>8
<1>10. IsItemLoop(it, items, map)
  <2>1. it = [s \in SUBSET D |-> it[s]]
    OBVIOUS
  <2>2. QED
    BY <1>9, <2>1 DEF IsItemLoop
<1>11. QED
  BY <1>10

LEMMA ItemLoopUnfolds ==
  ASSUME NEW items, NEW map, NEW it, IsItemLoop(it, items, map), NEW s \in SUBSET DOMAIN items
  PROVE  it[s] = IF s = {} THEN map
                 ELSE Plus(it[s \ {Max(s)}], Category(items[Max(s)]), items[Max(s)].amount)
<1> DEFINE g == [t \in SUBSET DOMAIN items |->
                   IF t = {} THEN map
                   ELSE Plus(it[t \ {Max(t)}], Category(items[Max(t)]), items[Max(t)].amount)]
<1>1. it = g
  BY DEF IsItemLoop
<1>2. g[s] = IF s = {} THEN map
             ELSE Plus(it[s \ {Max(s)}], Category(items[Max(s)]), items[Max(s)].amount)
  OBVIOUS
<1>3. QED
  BY <1>1, <1>2, Zenon

LEMMA AddItemsIsChosen ==
  ASSUME NEW items, NEW map
  PROVE  AddItems(items, map) = (CHOOSE it : IsItemLoop(it, items, map))[DOMAIN items]
BY Zenon DEF AddItems, FoldLeft, MapThenFoldSet, IsItemLoop

\* The loop adds the amounts of the items.
LEMMA ItemLoopSums ==
  ASSUME NEW items \in Seq(Items), NEW map \in Maps(Categories),
         NEW it, IsItemLoop(it, items, map)
  PROVE  /\ it[DOMAIN items] \in Maps(Categories)
         /\ SumOf(it[DOMAIN items], "amount")
              = SumOf(map, "amount") + SumFunction(ItemAmounts(items))
<1> DEFINE D == DOMAIN items
           f == ItemAmounts(items)
           F == {T \in SUBSET D :
                   /\ it[T] \in Maps(Categories)
                   /\ SumOf(it[T], "amount") = SumOf(map, "amount") + SumFunctionOnSet(f, T)}
<1>1. /\ IsFiniteSet(D) /\ D \subseteq Int
      /\ \A i \in D : items[i].amount \in Int /\ Category(items[i]) \in Categories
      /\ Numbers(f, D)
  BY ItemsAreTyped
<1>2. SumOf(map, "amount") \in Int
  BY ColumnIsNumbers, SumFunctionType
<1>3. \A i \in D : f[i] = items[i].amount
  BY DEF ItemAmounts
<1>4. \A T \in SUBSET D :
        it[T] = IF T = {} THEN map
                ELSE Plus(it[T \ {Max(T)}], Category(items[Max(T)]), items[Max(T)].amount)
  BY ItemLoopUnfolds
<1> HIDE DEF D, f
<1>5. ASSUME NEW T \in SUBSET D, \A x \in T : T \ {x} \in F PROVE T \in F
  <2>1. it[T] = IF T = {} THEN map
                ELSE Plus(it[T \ {Max(T)}], Category(items[Max(T)]), items[Max(T)].amount)
    BY <1>4
  <2>2. CASE T = {}
    BY <1>2, <2>1, <2>2, SumEmpty
  <2>3. CASE T # {}
    <3> DEFINE k == Max(T)
               old == it[T \ {k}]
    <3>1. IsFiniteSet(T) /\ T \subseteq Int
      BY <1>1, FS_Subset
    <3>2. k \in T
      BY <2>3, <3>1, MaxIsGreatest
    <3> HIDE DEF k
    <3>3. old \in Maps(Categories)
          /\ SumOf(old, "amount") = SumOf(map, "amount") + SumFunctionOnSet(f, T \ {k})
      BY <1>5, <3>2
    <3>4. it[T] = Plus(old, Category(items[k]), items[k].amount)
      BY <2>1, <2>3 DEF k
    <3>5. Category(items[k]) \in Categories /\ items[k].amount \in Int /\ f[k] = items[k].amount
      BY <1>1, <1>3, <3>2
    <3> HIDE DEF old
    <3>6. it[T] \in Maps(Categories)
      BY <3>3, <3>4, <3>5, PlusEntries
    <3>7. SumOf(it[T], "amount") = SumOf(old, "amount") + f[k]
      BY <3>3, <3>4, <3>5, PlusSums
    <3>8. \A x \in T : f[x] \in Int
      BY <1>1 DEF Numbers
    <3>9. SumFunctionOnSet(f, T) = f[k] + SumFunctionOnSet(f, T \ {k})
      BY <3>1, <3>2, <3>8, SumRemove
    <3>10. SumFunctionOnSet(f, T \ {k}) \in Int
      <4>1. IsFiniteSet(T \ {k}) /\ \A x \in T \ {k} : f[x] \in Int
        BY <3>1, <3>8, FS_Subset
      <4>2. QED
        BY <4>1, SumType
    <3>11. f[k] \in Int
      BY <3>2, <3>8
    <3>12. SumOf(it[T], "amount") = SumOf(map, "amount") + SumFunctionOnSet(f, T)
      BY <1>2, <3>3, <3>7, <3>9, <3>10, <3>11
    <3>13. QED
      BY <3>6, <3>12
  <2>4. QED
    BY <2>2, <2>3
<1>6. SUBSET D \subseteq F
  <2> HIDE DEF F
  <2>1. QED
    BY <1>1, <1>5, SubsetsInduction
<1>7. D \in F
  BY <1>6
<1>8. SumFunction(f) = SumFunctionOnSet(f, D)
  BY <1>1, SumFunctionType
<1>9. QED
  BY <1>7, <1>8 DEF D, f

LEMMA AddItemsSums ==
  ASSUME NEW items \in Seq(Items), NEW map \in Maps(Categories)
  PROVE  /\ AddItems(items, map) \in Maps(Categories)
         /\ SumOf(AddItems(items, map), "amount")
              = SumOf(map, "amount") + SumFunction(ItemAmounts(items))
<1> DEFINE it == CHOOSE it : IsItemLoop(it, items, map)
<1>1. \E f : IsItemLoop(f, items, map)
  BY ItemLoopExists
<1>2. IsItemLoop(it, items, map)
  BY <1>1, Zenon
<1>3. AddItems(items, map) = it[DOMAIN items]
  BY AddItemsIsChosen, Zenon
<1> HIDE DEF it
<1>4. QED
  BY <1>2, <1>3, ItemLoopSums

-----------------------------------------------------------------------------
(* The loop over the receipts of a month.                                  *)

Merchants == {Merchant(rows[r]) : r \in DOMAIN rows}

Sums == [total : Int, byDay : Maps(Dates), byMerchant : Maps(Merchants),
         byCategory : Maps(Categories)]

\* What the items of some receipts cost.
Bought(receipts) == SumFunction([r \in receipts |-> SumOfItems(rows[r])])

\* What the reports take from a row.
LEMMA RowReports ==
  ASSUME RowsTyped, NEW r \in DOMAIN rows
  PROVE  /\ DateOf(rows[r]) \in Dates
         /\ Paid(rows[r]) \in Int /\ Discount(rows[r]) \in Int
         /\ Merchant(rows[r]) \in Merchants
         /\ rows[r].items \in Seq(Items)
         /\ SumOfItems(rows[r]) = SumFunction(ItemAmounts(rows[r].items))
         /\ SumOfItems(rows[r]) \in Int
<1>1. RowTyped(rows[r])
  BY DEF RowsTyped
<1>2. DateOf(rows[r]) \in Dates /\ Paid(rows[r]) \in Int /\ Discount(rows[r]) \in Int
  BY <1>1 DEF RowTyped, DateOf, Paid, Discount
<1>3. rows[r].items \in Seq(Items)
  BY <1>1 DEF RowTyped
<1>4. SumOfItems(rows[r]) = SumFunction(ItemAmounts(rows[r].items))
  BY Zenon DEF SumOfItems, ItemAmounts
<1>5. SumFunction(ItemAmounts(rows[r].items)) \in Int
  BY <1>3, ItemsAreTyped, SumFunctionType
<1>6. QED
  BY <1>2, <1>3, <1>4, <1>5 DEF Merchants

\* A further receipt adds its part to each of the sums over receipts.
LEMMA SumsOverReceipts ==
  ASSUME RowsTyped, NEW T \in SUBSET DOMAIN rows
  PROVE  /\ Spent(T) \in Int /\ Discounts(T) \in Int /\ Bought(T) \in Int
         /\ \A r \in T : /\ Spent(T) = Paid(rows[r]) + Spent(T \ {r})
                         /\ Discounts(T) = Discount(rows[r]) + Discounts(T \ {r})
                         /\ Bought(T) = SumOfItems(rows[r]) + Bought(T \ {r})
<1> DEFINE paid(S) == [r \in S |-> Paid(rows[r])]
           discount(S) == [r \in S |-> Discount(rows[r])]
           bought(S) == [r \in S |-> SumOfItems(rows[r])]
<1>1. \A S \in SUBSET T : IsFiniteSet(S)
  BY FS_Subset DEF RowsTyped
<1>2. \A r \in T : /\ Paid(rows[r]) \in Int /\ Discount(rows[r]) \in Int
                   /\ SumOfItems(rows[r]) \in Int
  BY RowReports
<1>3. \A S \in SUBSET T : Numbers(paid(S), S) /\ Numbers(discount(S), S) /\ Numbers(bought(S), S)
  BY <1>1, <1>2 DEF Numbers
<1>4. \A S : /\ Spent(S) = SumFunction(paid(S)) /\ Discounts(S) = SumFunction(discount(S))
             /\ Bought(S) = SumFunction(bought(S))
  BY Zenon DEF Spent, Discounts, Bought
<1>5. ASSUME NEW r \in T
      PROVE  /\ SumFunction(paid(T)) = Paid(rows[r]) + SumFunction(paid(T \ {r}))
             /\ SumFunction(discount(T)) = Discount(rows[r]) + SumFunction(discount(T \ {r}))
             /\ SumFunction(bought(T)) = SumOfItems(rows[r]) + SumFunction(bought(T \ {r}))
  <2>1. /\ OnlyAt(paid(T), paid(T \ {r}), T, r)
        /\ OnlyAt(discount(T), discount(T \ {r}), T, r)
        /\ OnlyAt(bought(T), bought(T \ {r}), T, r)
    BY DEF OnlyAt
  <2>2. /\ paid(T)[r] = Paid(rows[r]) /\ discount(T)[r] = Discount(rows[r])
        /\ bought(T)[r] = SumOfItems(rows[r])
    OBVIOUS
  <2>3. T \in SUBSET T /\ T \ {r} \in SUBSET T
    OBVIOUS
  <2>4. /\ Numbers(paid(T), T) /\ Numbers(paid(T \ {r}), T \ {r})
        /\ Numbers(discount(T), T) /\ Numbers(discount(T \ {r}), T \ {r})
        /\ Numbers(bought(T), T) /\ Numbers(bought(T \ {r}), T \ {r})
    BY <1>3, <2>3
  <2> HIDE DEF paid, discount, bought
  <2>5. SumFunction(paid(T)) = paid(T)[r] + SumFunction(paid(T \ {r}))
    BY <2>1, <2>4, SumFunctionAdd
  <2>6. SumFunction(discount(T)) = discount(T)[r] + SumFunction(discount(T \ {r}))
    BY <2>1, <2>4, SumFunctionAdd
  <2>7. SumFunction(bought(T)) = bought(T)[r] + SumFunction(bought(T \ {r}))
    BY <2>1, <2>4, SumFunctionAdd
  <2>8. QED
    BY <2>2, <2>5, <2>6, <2>7
<1>6. T \in SUBSET T
  OBVIOUS
<1> HIDE DEF paid, discount, bought
<1>7. /\ SumFunction(paid(T)) \in Int /\ SumFunction(discount(T)) \in Int
      /\ SumFunction(bought(T)) \in Int
  BY <1>3, <1>6, SumFunctionType
<1>8. QED
  BY <1>4, <1>5, <1>7

\* Sums over no receipts.
LEMMA SumsOverNone == Spent({}) = 0 /\ Discounts({}) = 0 /\ Bought({}) = 0
<1>1. \A f : DOMAIN f = {} => SumFunction(f) = 0
  BY SumEmpty DEF SumFunction
<1>2. /\ DOMAIN [r \in {} |-> Paid(rows[r])] = {}
      /\ DOMAIN [r \in {} |-> Discount(rows[r])] = {}
      /\ DOMAIN [r \in {} |-> SumOfItems(rows[r])] = {}
  OBVIOUS
<1>3. QED
  BY <1>1, <1>2 DEF Spent, Discounts, Bought

\* The recursive function behind the loop of monthlySummary.
IsLoop(it, receipts) ==
  it = [s \in SUBSET receipts |->
          IF s = {} THEN NoSums ELSE AddReceipt(rows[Pick(s)], it[s \ {Pick(s)}])]

LEMMA AddReceiptType ==
  ASSUME RowsTyped, NEW r \in DOMAIN rows, NEW acc \in Sums
  PROVE  AddReceipt(rows[r], acc) \in Sums
<1>1. /\ acc.total \in Int /\ acc.byDay \in Maps(Dates) /\ acc.byMerchant \in Maps(Merchants)
      /\ acc.byCategory \in Maps(Categories)
  BY DEF Sums
<1>2. /\ DateOf(rows[r]) \in Dates /\ Merchant(rows[r]) \in Merchants
      /\ Paid(rows[r]) \in Int /\ rows[r].items \in Seq(Items)
  BY RowReports
<1>3. acc.total + Paid(rows[r]) \in Int
  BY <1>1, <1>2
<1>4. /\ Plus(acc.byDay, DateOf(rows[r]), Paid(rows[r])) \in Maps(Dates)
      /\ Plus(acc.byMerchant, Merchant(rows[r]), Paid(rows[r])) \in Maps(Merchants)
  BY <1>1, <1>2, PlusEntries
<1>5. AddItems(rows[r].items, acc.byCategory) \in Maps(Categories)
  BY <1>1, <1>2, AddItemsSums
<1>6. QED
  BY <1>3, <1>4, <1>5 DEF AddReceipt, Sums

LEMMA NoSumsType == NoSums \in Sums
<1>1. /\ NoEntries \in Maps(Dates) /\ NoEntries \in Maps(Merchants)
      /\ NoEntries \in Maps(Categories)
  BY NoEntriesSums
<1>2. QED
  BY <1>1 DEF NoSums, Sums

LEMMA LoopExists ==
  ASSUME RowsTyped, NEW R \in SUBSET DOMAIN rows
  PROVE  \E it \in [SUBSET R -> Sums] : IsLoop(it, R)
<1> DEFINE c == [s \in SUBSET R |-> Pick(s)]
           h == [r \in R |-> [acc \in Sums |-> AddReceipt(rows[r], acc)]]
<1>1. IsFiniteSet(R)
  BY FS_Subset DEF RowsTyped
<1>2. \A s \in SUBSET R : s # {} => Pick(s) \in s
  BY Zenon DEF Pick
<1>3. Picks(c, R)
  BY <1>2 DEF Picks
<1>4. \A r \in R, acc \in Sums : AddReceipt(rows[r], acc) \in Sums
  BY AddReceiptType
<1>5. h \in [R -> [Sums -> Sums]]
  BY <1>4
<1>6. PICK it \in [SUBSET R -> Sums] : IsFold(it, R, NoSums, h, c)
  <2> HIDE DEF h, c
  <2>1. QED
    BY <1>1, <1>3, <1>5, NoSumsType, FoldExists, Zenon
<1>7. \A s \in SUBSET R : it[s] = IF s = {} THEN NoSums ELSE h[c[s]][it[s \ {c[s]}]]
  BY <1>6 DEF IsFold
<1>8. ASSUME NEW s \in SUBSET R, s # {}
      PROVE  it[s] = AddReceipt(rows[Pick(s)], it[s \ {Pick(s)}])
  <2>1. Pick(s) \in R /\ c[s] = Pick(s) /\ it[s \ {Pick(s)}] \in Sums
    BY <1>2, <1>8
  <2> HIDE DEF c
  <2>2. h[Pick(s)][it[s \ {Pick(s)}]] = AddReceipt(rows[Pick(s)], it[s \ {Pick(s)}])
    BY <2>1
  <2>3. QED
    BY <1>7, <1>8, <2>1, <2>2
<1>9. \A s \in SUBSET R :
        it[s] = IF s = {} THEN NoSums ELSE AddReceipt(rows[Pick(s)], it[s \ {Pick(s)}])
  BY <1>7, <1>8
<1>10. IsLoop(it, R)
  <2>1. it = [s \in SUBSET R |-> it[s]]
    OBVIOUS
  <2>2. QED
    BY <1>9, <2>1 DEF IsLoop
<1>11. QED
  BY <1>10

LEMMA LoopUnfolds ==
  ASSUME NEW R, NEW it, IsLoop(it, R), NEW s \in SUBSET R
  PROVE  it[s] = IF s = {} THEN NoSums ELSE AddReceipt(rows[Pick(s)], it[s \ {Pick(s)}])
<1> DEFINE g == [t \in SUBSET R |->
                   IF t = {} THEN NoSums ELSE AddReceipt(rows[Pick(t)], it[t \ {Pick(t)}])]
<1>1. it = g
  BY DEF IsLoop
<1>2. g[s] = IF s = {} THEN NoSums ELSE AddReceipt(rows[Pick(s)], it[s \ {Pick(s)}])
  OBVIOUS
<1>3. QED
  BY <1>1, <1>2, Zenon

\* The accumulators after the loop.
SumsOf(R) == (CHOOSE it : IsLoop(it, R))[R]

LEMMA SummaryOfSums ==
  ASSUME NEW month
  PROVE  LET R == ReceiptsIn(rows, month)
             sums == SumsOf(R)
         IN  monthlySummary(rows, month) =
               [month |-> month,
                receiptCount |-> Cardinality(R),
                total |-> sums.total,
                byCategory |-> sums.byCategory,
                byDay |-> sums.byDay,
                topMerchants |-> [k \in Top(sums.byMerchant) |-> sums.byMerchant[k]]]
BY Zenon DEF monthlySummary, FoldSet, MapThenFoldSet, IsLoop, Pick, SumsOf

\* What the accumulators hold after the receipts R.
DaysRight(sums, R) ==
  /\ SumOf(sums.byDay, "amount") = Spent(R)
  /\ SumOf(sums.byDay, "count") = Cardinality(R)
  /\ DOMAIN sums.byDay = {DateOf(rows[r]) : r \in R}

MerchantsRight(sums, R) ==
  /\ SumOf(sums.byMerchant, "amount") = Spent(R)
  /\ DOMAIN sums.byMerchant = {Merchant(rows[r]) : r \in R}
  /\ \A m \in DOMAIN sums.byMerchant :
       /\ sums.byMerchant[m].amount = Spent(From(m, R))
       /\ sums.byMerchant[m].count = Cardinality(From(m, R))

SumsRight(sums, R) ==
  /\ sums \in Sums
  /\ sums.total = Spent(R)
  /\ DaysRight(sums, R)
  /\ MerchantsRight(sums, R)
  /\ SumOf(sums.byCategory, "amount") = Bought(R)

\* They hold it before the first receipt.
LEMMA NoSumsRight == SumsRight(NoSums, {})
<1>1. /\ NoSums.total = 0 /\ NoSums.byDay = NoEntries /\ NoSums.byMerchant = NoEntries
      /\ NoSums.byCategory = NoEntries
  BY DEF NoSums
<1>2. /\ DOMAIN NoEntries = {} /\ SumOf(NoEntries, "amount") = 0
      /\ SumOf(NoEntries, "count") = 0
  BY NoEntriesSums
<1>3. Cardinality({}) = 0
  BY FS_EmptySet
<1>4. DaysRight(NoSums, {}) /\ MerchantsRight(NoSums, {})
  BY <1>1, <1>2, <1>3, SumsOverNone DEF DaysRight, MerchantsRight
<1>5. QED
  BY <1>1, <1>2, <1>4, SumsOverNone, NoSumsType DEF SumsRight

\* A further receipt is one of its merchant, and of no other.
LEMMA FromOneMore ==
  ASSUME NEW R, NEW r \in R, NEW m
  PROVE  IF m = Merchant(rows[r])
         THEN /\ r \in From(m, R)
              /\ From(m, R \ {r}) = From(m, R) \ {r}
         ELSE From(m, R) = From(m, R \ {r})
BY DEF From

\* They hold it after a further receipt, one that was not counted yet.
LEMMA SumsStayRight ==
  ASSUME RowsTyped, NEW R \in SUBSET DOMAIN rows, NEW r \in R,
         NEW old, SumsRight(old, R \ {r})
  PROVE  SumsRight(AddReceipt(rows[r], old), R)
<1> DEFINE new == AddReceipt(rows[r], old)
           day == DateOf(rows[r])
           own == Merchant(rows[r])
           paid == Paid(rows[r])
           rest == R \ {r}
<1>1. /\ new.total = old.total + paid
      /\ new.byDay = Plus(old.byDay, day, paid)
      /\ new.byMerchant = Plus(old.byMerchant, own, paid)
      /\ new.byCategory = AddItems(rows[r].items, old.byCategory)
  BY DEF AddReceipt
<1>2. /\ day \in Dates /\ own \in Merchants /\ paid \in Int /\ rows[r].items \in Seq(Items)
      /\ SumOfItems(rows[r]) = SumFunction(ItemAmounts(rows[r].items))
      /\ SumOfItems(rows[r]) \in Int
  BY RowReports
<1>3. /\ old.total \in Int /\ old.byDay \in Maps(Dates) /\ old.byMerchant \in Maps(Merchants)
      /\ old.byCategory \in Maps(Categories)
  BY DEF SumsRight, Sums
<1>4. new \in Sums
  BY AddReceiptType DEF SumsRight
<1>5. /\ Spent(rest) \in Int /\ Bought(rest) \in Int
      /\ Spent(R) = paid + Spent(rest)
      /\ Bought(R) = SumOfItems(rows[r]) + Bought(rest)
  <2>1. rest \in SUBSET DOMAIN rows
    OBVIOUS
  <2>2. QED
    BY <2>1, SumsOverReceipts
<1>6. Cardinality(R) = Cardinality(rest) + 1 /\ Cardinality(rest) \in Nat
  <2>1. IsFiniteSet(R)
    BY FS_Subset DEF RowsTyped
  <2>2. Cardinality(R) \in Nat /\ Cardinality(rest) = Cardinality(R) - 1 /\ Cardinality(rest) \in Nat
    BY <2>1, FS_RemoveElement, FS_CardinalityType
  <2>3. QED
    BY <2>2
<1>7. old.total = Spent(rest) /\ SumOf(old.byCategory, "amount") = Bought(rest)
  BY DEF SumsRight
<1>8. new.total = Spent(R)
  BY <1>1, <1>2, <1>5, <1>7
<1> HIDE DEF new, day, own, paid, rest
<1>9. DaysRight(new, R)
  <2>1. /\ SumOf(old.byDay, "amount") = Spent(rest)
        /\ SumOf(old.byDay, "count") = Cardinality(rest)
        /\ DOMAIN old.byDay = {DateOf(rows[q]) : q \in rest}
    BY DEF SumsRight, DaysRight, rest
  <2>2. /\ SumOf(new.byDay, "amount") = SumOf(old.byDay, "amount") + paid
        /\ SumOf(new.byDay, "count") = SumOf(old.byDay, "count") + 1
        /\ DOMAIN new.byDay = DOMAIN old.byDay \cup {day}
    <3>1. Increased(new.byDay, old.byDay, day, paid)
      BY <1>1, <1>2, <1>3, PlusEntries
    <3>2. QED
      BY <1>1, <1>2, <1>3, <3>1, PlusSums DEF Increased
  <2>3. DOMAIN new.byDay = {DateOf(rows[q]) : q \in R}
    BY <2>1, <2>2 DEF day, rest
  <2>4. SumOf(new.byDay, "amount") = Spent(R) /\ SumOf(new.byDay, "count") = Cardinality(R)
    BY <1>2, <1>5, <1>6, <2>1, <2>2
  <2>5. QED
    BY <2>3, <2>4 DEF DaysRight
<1>10. MerchantsRight(new, R)
  <2>1. /\ SumOf(old.byMerchant, "amount") = Spent(rest)
        /\ DOMAIN old.byMerchant = {Merchant(rows[q]) : q \in rest}
        /\ \A m \in DOMAIN old.byMerchant :
             /\ old.byMerchant[m].amount = Spent(From(m, rest))
             /\ old.byMerchant[m].count = Cardinality(From(m, rest))
    BY DEF SumsRight, MerchantsRight, rest
  <2>2. SumOf(new.byMerchant, "amount") = SumOf(old.byMerchant, "amount") + paid
    BY <1>1, <1>2, <1>3, PlusSums
  <2>3. /\ DOMAIN new.byMerchant = DOMAIN old.byMerchant \cup {own}
        /\ \A m \in DOMAIN old.byMerchant \ {own} : new.byMerchant[m] = old.byMerchant[m]
        /\ new.byMerchant[own].amount =
             (IF own \in DOMAIN old.byMerchant THEN old.byMerchant[own].amount ELSE 0) + paid
        /\ new.byMerchant[own].count =
             (IF own \in DOMAIN old.byMerchant THEN old.byMerchant[own].count ELSE 0) + 1
    <3>1. Increased(new.byMerchant, old.byMerchant, own, paid)
      BY <1>1, <1>2, <1>3, PlusEntries
    <3>2. QED
      BY <3>1 DEF Increased
  <2>4. DOMAIN new.byMerchant = {Merchant(rows[q]) : q \in R}
    BY <2>1, <2>3 DEF own, rest
  <2>5. ASSUME NEW m \in DOMAIN new.byMerchant, m # own
        PROVE  /\ new.byMerchant[m].amount = Spent(From(m, R))
               /\ new.byMerchant[m].count = Cardinality(From(m, R))
    <3>1. From(m, R) = From(m, rest)
      BY <2>5, FromOneMore DEF own, rest
    <3>2. m \in DOMAIN old.byMerchant /\ new.byMerchant[m] = old.byMerchant[m]
      BY <2>3, <2>5
    <3>3. QED
      BY <2>1, <3>1, <3>2
  <2>6. /\ new.byMerchant[own].amount = Spent(From(own, R))
        /\ new.byMerchant[own].count = Cardinality(From(own, R))
    <3> DEFINE mine == From(own, R)
               others == From(own, rest)
    <3>1. r \in mine /\ others = mine \ {r} /\ mine \in SUBSET DOMAIN rows
      BY FromOneMore DEF own, rest, From
    <3> HIDE DEF mine, others
    <3>2. Spent(mine) = paid + Spent(others)
      BY <3>1, SumsOverReceipts DEF paid
    <3>3. IsFiniteSet(mine)
      BY <3>1, FS_Subset DEF RowsTyped
    <3>4. Cardinality(mine) = Cardinality(others) + 1
      <4>1. Cardinality(mine) \in Nat /\ Cardinality(others) = Cardinality(mine) - 1
        BY <3>1, <3>3, FS_RemoveElement, FS_CardinalityType
      <4>2. QED
        BY <4>1
    <3>5. Spent(others) \in Int
      <4>1. others \in SUBSET DOMAIN rows
        BY <3>1
      <4>2. QED
        BY <4>1, SumsOverReceipts
    <3>6. CASE own \in DOMAIN old.byMerchant
      <4>1. /\ old.byMerchant[own].amount = Spent(others)
            /\ old.byMerchant[own].count = Cardinality(others)
        BY <2>1, <3>6 DEF others
      <4>2. QED
        BY <1>2, <2>3, <3>2, <3>4, <3>5, <3>6, <4>1 DEF mine
    <3>7. CASE own \notin DOMAIN old.byMerchant
      <4>1. others = {}
        BY <2>1, <3>7 DEF others, From, own
      <4>2. Spent(others) = 0 /\ Cardinality(others) = 0
        BY <4>1, SumsOverNone, FS_EmptySet
      <4>3. QED
        BY <1>2, <2>3, <3>2, <3>4, <3>7, <4>2 DEF mine
    <3>8. QED
      BY <3>6, <3>7
  <2>7. SumOf(new.byMerchant, "amount") = Spent(R)
    BY <1>2, <1>5, <2>1, <2>2
  <2>8. QED
    BY <2>4, <2>5, <2>6, <2>7 DEF MerchantsRight
<1>11. SumOf(new.byCategory, "amount") = Bought(R)
  <2>1. SumOf(new.byCategory, "amount") = SumOf(old.byCategory, "amount") + SumOfItems(rows[r])
    BY <1>1, <1>2, <1>3, AddItemsSums
  <2>2. QED
    BY <1>2, <1>5, <1>7, <2>1
<1>12. SumsRight(new, R)
  BY <1>4, <1>8, <1>9, <1>10, <1>11 DEF SumsRight
<1>13. QED
  BY <1>12 DEF new

\* So they hold it after the loop, whatever the order of the receipts.
LEMMA LoopIsRight ==
  ASSUME RowsTyped, NEW R \in SUBSET DOMAIN rows
  PROVE  SumsRight(SumsOf(R), R)
<1> DEFINE it == CHOOSE it : IsLoop(it, R)
           F == {T \in SUBSET R : SumsRight(it[T], T)}
<1>1. \E f : IsLoop(f, R)
  BY LoopExists
<1>2. IsLoop(it, R)
  BY <1>1, Zenon
<1>3. SumsOf(R) = it[R]
  BY Zenon DEF SumsOf
<1> HIDE DEF it
<1>4. ASSUME NEW T \in SUBSET R, \A x \in T : T \ {x} \in F PROVE T \in F
  <2>1. it[T] = IF T = {} THEN NoSums ELSE AddReceipt(rows[Pick(T)], it[T \ {Pick(T)}])
    BY <1>2, LoopUnfolds
  <2>2. CASE T = {}
    BY <2>1, <2>2, NoSumsRight
  <2>3. CASE T # {}
    <3>1. Pick(T) \in T
      BY <2>3, Zenon DEF Pick
    <3>2. SumsRight(it[T \ {Pick(T)}], T \ {Pick(T)})
      BY <1>4, <3>1
    <3>3. T \in SUBSET DOMAIN rows
      OBVIOUS
    <3>4. SumsRight(AddReceipt(rows[Pick(T)], it[T \ {Pick(T)}]), T)
      BY <3>1, <3>2, <3>3, SumsStayRight
    <3>5. QED
      BY <2>1, <2>3, <3>4
  <2>4. QED
    BY <2>2, <2>3
<1>5. IsFiniteSet(R)
  BY FS_Subset DEF RowsTyped
<1>6. SUBSET R \subseteq F
  <2> HIDE DEF F
  <2>1. QED
    BY <1>4, <1>5, SubsetsInduction
<1>7. R \in F
  BY <1>6
<1>8. QED
  BY <1>3, <1>7

-----------------------------------------------------------------------------
(* The summary.                                                            *)

\* Of a map, n keys none of which has a smaller amount than one left out.
Greatest(map, listed, n) ==
  /\ listed \subseteq DOMAIN map
  /\ Cardinality(listed) = n
  /\ \A m \in listed, k \in DOMAIN map \ listed : map[k].amount <= map[m].amount

LEMMA GreatestExist ==
  ASSUME NEW K, NEW map \in Maps(K), NEW n \in Nat, n <= Cardinality(DOMAIN map)
  PROVE  \E listed : Greatest(map, listed, n)
<1> DEFINE D == DOMAIN map
           N == {i \in Nat : i <= Cardinality(D) => \E listed : Greatest(map, listed, i)}
<1>1. IsFiniteSet(D) /\ Cardinality(D) \in Nat /\ \A k \in D : map[k].amount \in Int
  BY MapsType, FS_CardinalityType DEF Entry
<1>2. 0 \in N
  <2>1. Greatest(map, {}, 0)
    BY FS_EmptySet DEF Greatest
  <2>2. QED
    BY <2>1
<1>3. \A i \in Nat : i \in N => i + 1 \in N
  <2> SUFFICES ASSUME NEW i \in Nat, i \in N, i + 1 <= Cardinality(D)
               PROVE  \E listed : Greatest(map, listed, i + 1)
    OBVIOUS
  <2>1. i <= Cardinality(D)
    BY <1>1
  <2>2. PICK listed : Greatest(map, listed, i)
    BY <2>1
  <2> DEFINE others == D \ listed
             f == Column(map, "amount")
    <2>3. IsFiniteSet(listed) /\ IsFiniteSet(others) /\ others # {}
    <3>1. listed \subseteq D /\ Cardinality(listed) = i
      BY <2>2 DEF Greatest
    <3>2. listed # D
      BY <1>1, <3>1
    <3>3. QED
      BY <1>1, <3>1, <3>2, FS_Subset
  <2>4. \A j \in others : f[j] \in Int /\ f[j] = map[j].amount
    BY <1>1 DEF Column
  <2>5. PICK k \in others : \A j \in others : map[k].amount >= map[j].amount
    <3>1. \A j \in others : f[j] \in Int
      BY <2>4
    <3>2. \E k \in others : \A j \in others : f[k] >= f[j]
      <4> HIDE DEF others, f
      <4>1. QED
        BY <2>3, <3>1, HighestExists
    <3>3. QED
      BY <2>4, <3>2
  <2>6. Greatest(map, listed \cup {k}, i + 1)
    <3>1. Cardinality(listed \cup {k}) = i + 1
      BY <2>2, <2>3, FS_AddElement DEF Greatest
    <3>2. QED
      BY <1>1, <2>2, <2>5, <3>1 DEF Greatest
  <2>7. QED
    BY <2>6
<1>4. Nat \subseteq N
  <2> HIDE DEF N
  <2>1. QED
    BY <1>2, <1>3, NumbersInduction
<1>5. QED
  BY <1>4

\* The merchants listed are all, or as many as fit, none smaller than one left out.
LEMMA TopIsGreatest ==
  ASSUME NEW K, NEW map \in Maps(K)
  PROVE  /\ Top(map) \subseteq DOMAIN map
         /\ IF Cardinality(DOMAIN map) < TopMerchants THEN Top(map) = DOMAIN map
            ELSE Cardinality(Top(map)) = TopMerchants
         /\ \A m \in Top(map), k \in DOMAIN map \ Top(map) : map[k].amount <= map[m].amount
<1> DEFINE Fits(listed) ==
             /\ IF Cardinality(DOMAIN map) < TopMerchants THEN listed = DOMAIN map
                ELSE Cardinality(listed) = TopMerchants
             /\ \A m \in listed, k \in DOMAIN map \ listed : map[k].amount <= map[m].amount
<1>1. \E listed \in SUBSET DOMAIN map : Fits(listed)
  <2>1. CASE Cardinality(DOMAIN map) < TopMerchants
    BY <2>1
  <2>2. CASE ~(Cardinality(DOMAIN map) < TopMerchants)
    <3>1. TopMerchants \in Nat /\ Cardinality(DOMAIN map) \in Nat
      BY SpendReportAssumption, MapsType, FS_CardinalityType
    <3>2. TopMerchants <= Cardinality(DOMAIN map)
      BY <2>2, <3>1
    <3>3. \E listed : Greatest(map, listed, TopMerchants)
      BY <3>1, <3>2, GreatestExist
    <3>4. QED
      BY <2>2, <3>3 DEF Greatest
  <2>3. QED
    BY <2>1, <2>2
<1>2. Top(map) = CHOOSE listed \in SUBSET DOMAIN map : Fits(listed)
  BY Zenon DEF Top
<1>3. Top(map) \in SUBSET DOMAIN map /\ Fits(Top(map))
  <2> HIDE DEF Fits
  <2>1. QED
    BY <1>1, <1>2, Zenon
<1>4. QED
  BY <1>3

\* Where each receipt reconciles, its items cost what was paid and the discount.
LEMMA ReconciledSums ==
  ASSUME RowsTyped, NEW R \in SUBSET DOMAIN rows, \A r \in R : Reconciles(r)
  PROVE  Bought(R) = Spent(R) + Discounts(R)
<1> DEFINE F == {T \in SUBSET R : Bought(T) = Spent(T) + Discounts(T)}
<1>1. ASSUME NEW T \in SUBSET R, \A x \in T : T \ {x} \in F PROVE T \in F
  <2>1. CASE T = {}
    BY <2>1, SumsOverNone
  <2>2. CASE T # {}
    <3>1. PICK r \in T : TRUE
      BY <2>2
    <3> DEFINE rest == T \ {r}
    <3>2. Bought(rest) = Spent(rest) + Discounts(rest)
      BY <1>1
    <3>3. SumOfItems(rows[r]) - Discount(rows[r]) = Paid(rows[r])
      BY DEF Reconciles
    <3>4. /\ SumOfItems(rows[r]) \in Int /\ Discount(rows[r]) \in Int /\ Paid(rows[r]) \in Int
      BY RowReports
    <3>5. T \in SUBSET DOMAIN rows /\ rest \in SUBSET DOMAIN rows
      OBVIOUS
    <3>6. /\ Spent(T) = Paid(rows[r]) + Spent(rest)
          /\ Discounts(T) = Discount(rows[r]) + Discounts(rest)
          /\ Bought(T) = SumOfItems(rows[r]) + Bought(rest)
      BY <3>5, SumsOverReceipts
    <3>7. Spent(rest) \in Int /\ Discounts(rest) \in Int /\ Bought(rest) \in Int
      BY <3>5, SumsOverReceipts
    <3> HIDE DEF rest
    <3>8. QED
      BY <3>2, <3>3, <3>4, <3>6, <3>7
  <2>3. QED
    BY <2>1, <2>2
<1>2. IsFiniteSet(R)
  BY FS_Subset DEF RowsTyped
<1>3. SUBSET R \subseteq F
  <2> HIDE DEF F
  <2>1. QED
    BY <1>1, <1>2, SubsetsInduction
<1>4. R \in F
  BY <1>3
<1>5. QED
  BY <1>4

\* A receipt in the summary of a month is of a day of that month.
LEMMA DaysAreOfTheMonth ==
  ASSUME RowsTyped, NEW month \in ReportMonths, NEW r \in ReceiptsIn(rows, month)
  PROVE  r \in DOMAIN rows /\ MonthOf(DateOf(rows[r])) = month
<1>1. r \in Counted(rows) /\ r \in DOMAIN rows
  BY DEF ReceiptsIn, Counted
<1>2. EachReceiptInItsMonth
  BY TypedRowsHaveAMonth
<1>3. QED
  BY <1>1, <1>2 DEF EachReceiptInItsMonth

LEMMA TypedRowsBreakDown == RowsTyped => BreakdownsAgree
<1> SUFFICES ASSUME RowsTyped PROVE BreakdownsAgree
  OBVIOUS
<1> SUFFICES ASSUME NEW month \in ReportMonths
    PROVE LET summary == monthlySummary(rows, month)
              receipts == ReceiptsIn(rows, month)
              merchants == {Merchant(rows[r]) : r \in receipts}
              listed == DOMAIN summary.topMerchants
          IN  /\ SumOf(summary.byDay, "amount") = summary.total
              /\ SumOf(summary.byDay, "count") = summary.receiptCount
              /\ \A day \in DOMAIN summary.byDay : MonthOf(day) = month
              /\ \A m \in listed :
                   /\ summary.topMerchants[m].amount = Spent(From(m, receipts))
                   /\ summary.topMerchants[m].count = Cardinality(From(m, receipts))
              /\ \A m \in merchants \ listed, n \in listed :
                   Spent(From(m, receipts)) <= summary.topMerchants[n].amount
              /\ Cardinality(listed) < TopMerchants =>
                   SumOf(summary.topMerchants, "amount") = summary.total
              /\ (\A r \in receipts : Reconciles(r)) =>
                   SumOf(summary.byCategory, "amount") = summary.total + Discounts(receipts)
  BY Zenon DEF BreakdownsAgree
<1> DEFINE R == ReceiptsIn(rows, month)
           sums == SumsOf(R)
           summary == monthlySummary(rows, month)
           listed == Top(sums.byMerchant)
<1>1. /\ summary.receiptCount = Cardinality(R) /\ summary.total = sums.total
      /\ summary.byCategory = sums.byCategory /\ summary.byDay = sums.byDay
      /\ summary.topMerchants = [k \in listed |-> sums.byMerchant[k]]
  <2>1. summary = [month |-> month,
                   receiptCount |-> Cardinality(R),
                   total |-> sums.total,
                   byCategory |-> sums.byCategory,
                   byDay |-> sums.byDay,
                   topMerchants |-> [k \in listed |-> sums.byMerchant[k]]]
    BY SummaryOfSums, Zenon
  <2> HIDE DEF summary, sums, R, listed
  <2>2. QED
    BY <2>1
<1>2. R \in SUBSET DOMAIN rows
  BY DEF ReceiptsIn, Counted
<1>3. \A r \in R : MonthOf(DateOf(rows[r])) = month
  BY DaysAreOfTheMonth
<1> HIDE DEF R, summary
<1>4. SumsRight(sums, R)
  BY <1>2, LoopIsRight
<1> HIDE DEF sums
<1>5. sums.total = Spent(R) /\ SumOf(sums.byCategory, "amount") = Bought(R)
      /\ DaysRight(sums, R) /\ MerchantsRight(sums, R) /\ sums.byMerchant \in Maps(Merchants)
  BY <1>4 DEF SumsRight, Sums
<1>6. /\ listed \subseteq DOMAIN sums.byMerchant
      /\ IF Cardinality(DOMAIN sums.byMerchant) < TopMerchants THEN listed = DOMAIN sums.byMerchant
         ELSE Cardinality(listed) = TopMerchants
      /\ \A m \in listed, k \in DOMAIN sums.byMerchant \ listed :
           sums.byMerchant[k].amount <= sums.byMerchant[m].amount
  BY <1>5, TopIsGreatest
<1> HIDE DEF listed
<1>7. DOMAIN summary.topMerchants = listed
      /\ \A m \in listed : summary.topMerchants[m] = sums.byMerchant[m]
  BY <1>1
<1>8. /\ SumOf(summary.byDay, "amount") = summary.total
      /\ SumOf(summary.byDay, "count") = summary.receiptCount
      /\ \A day \in DOMAIN summary.byDay : MonthOf(day) = month
  BY <1>1, <1>3, <1>5 DEF DaysRight
<1>9. \A m \in listed : /\ summary.topMerchants[m].amount = Spent(From(m, R))
                        /\ summary.topMerchants[m].count = Cardinality(From(m, R))
  BY <1>5, <1>6, <1>7 DEF MerchantsRight
<1>10. \A m \in {Merchant(rows[r]) : r \in R} \ listed, n \in listed :
         Spent(From(m, R)) <= summary.topMerchants[n].amount
  BY <1>5, <1>6, <1>7 DEF MerchantsRight
<1>11. ASSUME Cardinality(listed) < TopMerchants
       PROVE  SumOf(summary.topMerchants, "amount") = summary.total
  <2>1. Cardinality(DOMAIN sums.byMerchant) < TopMerchants
    BY <1>6, <1>11, SpendReportAssumption
  <2>2. listed = DOMAIN sums.byMerchant
    BY <1>6, <2>1
  <2>3. summary.topMerchants = sums.byMerchant
    BY <1>1, <1>5, <2>2, MapsType
  <2>4. QED
    BY <1>1, <1>5, <2>3 DEF MerchantsRight
<1>12. (\A r \in R : Reconciles(r)) =>
         SumOf(summary.byCategory, "amount") = summary.total + Discounts(R)
  BY <1>1, <1>2, <1>5, ReconciledSums
<1>13. QED
  BY <1>7, <1>8, <1>9, <1>10, <1>11, <1>12, Zenon DEF R, summary

\* Whatever was read, for every number of receipts, days, merchants and items:
\* the breakdowns of monthlySummary (receipts.service.ts 207-286) agree with its
\* total and with the receipts they were made from.
THEOREM SummariesAddUp == Spec => []BreakdownsAgree
<1>1. Init => RowsTyped
  BY FS_EmptySet DEF Init, RowsTyped
<1>2. RowsTyped /\ [Next]_vars => RowsTyped'
  BY RowsTypedStep
<1>3. QED
  BY <1>1, <1>2, TypedRowsBreakDown, PTL DEF Spec

=============================================================================

-------------------------------- MODULE Calendar --------------------------------
(***************************************************************************)
(* Months and days as the summary's code reckons them, in UTC.  A month    *)
(* "YYYY-MM" is <<y, m>>, a day "YYYY-MM-DD" is <<y, m, d>>; the time of   *)
(* day is left out, since every range begins and ends at midnight.         *)
(***************************************************************************)
EXTENDS Integers

\* Date.UTC and the Date constructor take the years 0 to 99 for 1900 to 1999.
FullYear(y) == IF y \in 0..99 THEN 1900 + y ELSE y

\* new Date(Date.UTC(y, i, 1)), i counted from 0: i may be below 0 or above 11.
FirstOf(y, i) == <<FullYear(y) + (i \div 12), (i % 12) + 1, 1>>

\* The days and months of four-digit years that are not read as 19xx.
Years == Nat \ 0..99
Months == Years \X (1..12)
Dates == Years \X (1..12) \X (1..31)

MonthOf(date) == <<date[1], date[2]>>

Before(a, b) ==
  \/ a[1] < b[1]
  \/ a[1] = b[1] /\ a[2] < b[2]
  \/ a[1] = b[1] /\ a[2] = b[2] /\ a[3] < b[3]

\* "YYYY-MM" compares as text.
Earlier(m, n) == m[1] < n[1] \/ (m[1] = n[1] /\ m[2] < n[2])

DaysIn(y, m) ==
  CASE m \in {4, 6, 9, 11} -> 30
    [] m = 2 -> IF y % 4 = 0 /\ (y % 100 # 0 \/ y % 400 = 0) THEN 29 ELSE 28
    [] OTHER -> 31

\* Mutant of monthRange: the range ends on the last day of its month.
monthRangeToLastDay(month) ==
  [start |-> FirstOf(month[1], month[2] - 1),
   end |-> <<month[1], month[2], DaysIn(month[1], month[2])>>]

monthRange(month) ==
  [start |-> FirstOf(month[1], month[2] - 1), end |-> FirstOf(month[1], month[2])]

\* { gte: start, lt: end }
Within(date, range) == ~Before(date, range.start) /\ Before(date, range.end)

shiftMonth(month, delta) == MonthOf(FirstOf(month[1], month[2] - 1 + delta))

\* new Date("YYYY-MM-DD"): a day up to 31 that the month does not have is one
\* of the next month.
DateOfText(date) ==
  IF date[3] > DaysIn(date[1], date[2])
  THEN <<date[1], date[2] + 1, date[3] - DaysIn(date[1], date[2])>>
  ELSE date

=============================================================================

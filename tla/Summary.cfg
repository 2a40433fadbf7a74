CONSTANTS
  None = None
  Absent = Absent
  Garbled = Garbled
  Week = Week
  Receipts = {r1, r2}
  Days <- MCDays
  Responses <- MCResponses
  ReportMonths <- MCReportMonths
  TopMerchants = 1
  MaxReadings = 2

SPECIFICATION Spec
INVARIANT EachReceiptInItsMonth BreakdownsAgree

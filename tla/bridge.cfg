SPECIFICATION FairSpec
CONSTANTS
  Amounts = {3, 4}
  Funding = 7
  Fees = {1}
  MinimumDeposit = 3
  MaxCrossings = 3
  Faults = {"crash", "timeout", "refund", "lostWrite"}
INVARIANTS AirborneStaysCounted ClosedRowsAreSettled ClosedBooksBalance
PROPERTIES EveryCrossingReturns
CHECK_DEADLOCK FALSE

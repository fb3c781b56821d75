SPECIFICATION Spec
CONSTANTS
  Amounts = {3, 4}
  Funding = 7
  Fees = {1}
  MinimumDeposit = 3
  MaxCrossings = 2
  Faults = {"lostReceipt"}
INVARIANTS AirborneStaysCounted
CHECK_DEADLOCK FALSE

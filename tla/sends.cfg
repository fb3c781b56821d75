SPECIFICATION Spec
CONSTANTS
  Requests = {"r1", "r2"}
  Fee = 1
  Gas = 3
  Parts = {1}
  Lag = 1
  MaxSends = 2
  MaxLives = 2
INVARIANTS OwnNumbersDistinct ReportedSendsHappened
PROPERTIES SignerHeals
CHECK_DEADLOCK FALSE

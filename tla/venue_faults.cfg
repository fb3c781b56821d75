SPECIFICATION Spec
CONSTANTS
  MarketOrder <- TwoMarkets
  Weight <- Weights
  BPS = 10
  Leverage = 9
  Funding = 120
  Notionals = {9, 27}
  UnwindAmounts = {4, 9}
  Losses = {0, 3}
  Slips = {0, 1}
  Lot = 2
  MinOrder = 0
  MIN_DEPLOY_USDC = 3
  MIN_UNWIND_LEG_USDC = 3
  MaxCalls = 3
  Ops = {"deploy", "topUpMargin", "unwind", "closeAll", "rebalance"}
  FaultSets = {{"bridge", "venue", "swap", "return"}, {"bridge", "venue", "swap", "return", "lostReply", "closeNaked", "read", "crash"}, {"swap", "closeNaked"}}
  m1 = m1
  m2 = m2
INVARIANTS NakedOnlyWhileBuying ProceedsInHand AllocationRaisesWhatItCan
PROPERTIES  DeploysWithinLeverage FlatAfterClose BufferSurvivesUnwind
CHECK_DEADLOCK FALSE

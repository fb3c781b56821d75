SPECIFICATION HSpec
CONSTANTS
  BPS = 10
  YEAR = 20
  VirtualShares = 1
  AssetUnit = 10
  Users = {u1}
  Funds = {fund}
  Vault = vault
  Operators = {}
  Receivers = {u1}
  Amounts = {3, 6}
  ShareAmounts = {3}
  NavValues = {7, 9}
  Leverages = {1}
  MaxLeverageBps = 1
  LimitChoices <- AgentLimits
  Calls = {"deposit", "agentWithdraw", "agentReturn", "setLimits"}
  MaxTime = 5
  MaxAssets = 9
  MaxActivity = 0
  MAX_MANAGEMENT_FEE_BPS = 5
  MAX_PERFORMANCE_FEE_BPS = 3
  MIN_REDEEM_DELAY = 1
  MAX_REDEEM_DELAY = 5
  MAX_DEPLOYED_BPS = 9
  MAX_NAV_DEVIATION_BPS = 3
  MAX_NAV_EPOCH_DEVIATION_BPS = 5
  MIN_NAV_EPOCH_DURATION = 1
INVARIANTS EpochProfitBounded  ClaimsBacked
PROPERTIES EveryShareWaited RoundingFavoursHolders MovedCapitalIsNotProfit
CHECK_DEADLOCK FALSE

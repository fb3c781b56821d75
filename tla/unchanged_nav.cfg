SPECIFICATION Spec
CONSTANTS
  BPS = 10
  YEAR = 20
  VirtualShares = 1
  AssetUnit = 10
  Users = {u1}
  Funds = {fund}
  Vault = vault
  Operators = {}
  Receivers = {u1}
  Amounts = {4}
  ShareAmounts = {2, 4}
  NavValues = {0, 3, 4, 5}
  Leverages = {1}
  MaxLeverageBps = 1
  LimitChoices <- CustodyLimits
  Calls = {"deposit", "mint", "withdraw", "agentWithdraw", "agentReturn"}
  MaxTime = 3
  MaxAssets = 8
  MaxActivity = 0
  MAX_MANAGEMENT_FEE_BPS = 5
  MAX_PERFORMANCE_FEE_BPS = 3
  MIN_REDEEM_DELAY = 1
  MAX_REDEEM_DELAY = 5
  MAX_DEPLOYED_BPS = 9
  MAX_NAV_DEVIATION_BPS = 3
  MAX_NAV_EPOCH_DEVIATION_BPS = 5
  MIN_NAV_EPOCH_DURATION = 1
INVARIANTS UnchangedNavAccepted
CHECK_DEADLOCK FALSE

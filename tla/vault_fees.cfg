SPECIFICATION Spec
CONSTANTS
  BPS = 10
  YEAR = 4
  VirtualShares = 2
  AssetUnit = 10
  Users = {u1}
  Funds = {fund}
  Vault = vault
  Operators = {}
  Receivers = {u1}
  Amounts = {10}
  ShareAmounts = {40}
  NavValues = {7, 13}
  Leverages = {1}
  MaxLeverageBps = 1
  LimitChoices <- FeeLimits
  Calls = {"deposit", "mint", "withdraw", "transfer", "agentWithdraw", "agentReturn", "donate", "sendUsdc", "accrueFees", "setLimits", "setInsuranceFund", "setEmergencyExit", "pause"}
  MaxTime = 3
  MaxAssets = 20
  MaxActivity = 1
  MAX_MANAGEMENT_FEE_BPS = 5
  MAX_PERFORMANCE_FEE_BPS = 3
  MIN_REDEEM_DELAY = 1
  MAX_REDEEM_DELAY = 5
  MAX_DEPLOYED_BPS = 9
  MAX_NAV_DEVIATION_BPS = 3
  MAX_NAV_EPOCH_DEVIATION_BPS = 5
  MIN_NAV_EPOCH_DURATION = 1
PROPERTIES GainTaxedOnce DonationUntaxed
CHECK_DEADLOCK FALSE

SPECIFICATION ISpec
CONSTANTS
  BPS = 10
  YEAR = 20
  VirtualShares = 1
  AssetUnit = 10
  Users = {u1}
  Funds = {fund}
  Vault = vault
  Operators = {u1}
  Receivers = {u1, vault}
  Amounts = {3}
  ShareAmounts = {2}
  NavValues = {4}
  Leverages = {1}
  MaxLeverageBps = 1
  LimitChoices <- Proposals
  Calls = {"deposit", "mint", "withdraw", "transfer", "agentWithdraw", "agentReturn", "donate", "sendUsdc", "accrueFees", "setLimits", "setInsuranceFund", "setEmergencyExit", "pause"}
  MaxTime = 2
  MaxAssets = 5
  MaxActivity = 1
  MAX_MANAGEMENT_FEE_BPS = 5
  MAX_PERFORMANCE_FEE_BPS = 3
  MIN_REDEEM_DELAY = 1
  MAX_REDEEM_DELAY = 5
  MAX_DEPLOYED_BPS = 9
  MAX_NAV_DEVIATION_BPS = 4
  MAX_NAV_EPOCH_DEVIATION_BPS = 5
  MIN_NAV_EPOCH_DURATION = 1
INVARIANTS TypeOK EscrowBacked 
PROPERTIES RedemptionsKept
CHECK_DEADLOCK FALSE

SPECIFICATION AgentSpec
CONSTANTS
  MarketOrder <- OneMarket
  Weight <- Whole
  BPS = 20
  Leverage = 18
  Funding = 100
  Notionals = {}
  UnwindAmounts = {}
  Losses = {1}
  Slips = {0}
  Lot = 1
  MinOrder = 0
  MIN_DEPLOY_USDC = 10
  MIN_UNWIND_LEG_USDC = 2
  MaxCalls = 0
  Ops = {}
  FaultSets = {{}}
  Users = {u1, u2}
  Stake <- Halfs
  Requests = {50}
  Deposits = {40}
  Shocks <- Moves
  FundingRate = 1
  Delay = 2
  UrgentAge = 3
  ReportAge = 2
  StaleAge = 6
  MaxDeviation = 4
  WindowCap = 100
  COOLDOWN_BASE = 2
  COOLDOWN_MAX = 4
  TargetLeverage = 20
  MaxLeverage = 20
  MaxDeployed = 18
  MARGIN_BUFFER_BPS = 2
  MIN_TOP_UP_USDC = 2
  MIN_UNWIND_USDC = 2
  UNWIND_BUFFER_BPS = 1
  CLOSE_DUST_USDC = 1
  REBALANCE_DRIFT_BPS = 2
  BASE_TX_GAS_USDC = 0
  BRIDGE_CROSSING_USDC = 1
  ACTION_PAYOFF_MULTIPLE = 3
  MAX_BREAKEVEN_HOURS = 10
  PERCENT = 10
  TAKER = 0
  Advised = {FALSE}
  Outages = {{}}
  Chances = 1
  m1 = m1
  m2 = m2
  u1 = u1
  u2 = u2
PROPERTIES CloseKeepsReporting

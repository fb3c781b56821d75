SPECIFICATION FleetSpec
CONSTANTS
  Markets = {"btc", "eth"}
  Tiers = {"conservative"}
  Wallets <- AllWallets
  Derive <- DerivedWallets
  MaxVaults = 2
  Consoles = {admin}
  Weights = {2}
  FULL_WEIGHT = 2
  Managed = {1}
  MaxRestarts = 1
INVARIANTS IndexesAgree TradesOwnBook  PositionsVisible CompletedIsFlat
PROPERTIES EveryVaultTicked

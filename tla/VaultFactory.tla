---------------------------- MODULE VaultFactory ----------------------------
(***************************************************************************)
(* packages/contracts/src/VaultFactory.sol: the one registry of vaults.  A *)
(* vault is its position in _vaults; each is created for a market and for  *)
(* the wallet of one agent, and both are fixed in its constructor.         *)
(***************************************************************************)
EXTENDS Naturals, Sequences

CONSTANTS Markets,    \* marketId
          Wallets,    \* addresses an administrator may name as agent
          Tiers,      \* LemonVault.RiskTier
          MaxVaults   \* bound on the length of _vaults

ASSUME FactoryAssumption == MaxVaults \in Nat /\ Markets # {} /\ Wallets # {} /\ Tiers # {}

NoVault == 0     \* address(0) in both mappings

VARIABLES vaults, vaultForMarket, vaultForAgent, defaultLimits

factoryVars == <<vaults, vaultForMarket, vaultForAgent, defaultLimits>>

\* A template is abstracted to whether _validateLimits accepts it.
FactoryInit ==
    /\ vaults = <<>>
    /\ vaultForMarket = [m \in Markets |-> NoVault]
    /\ vaultForAgent = [w \in Wallets |-> NoVault]
    /\ defaultLimits \in [Tiers -> BOOLEAN]

\* Defect: an agent may hold a second book.
UnclaimedMarket(market, agent) == vaultForMarket[market] = NoVault

Unclaimed(market, agent) ==
    vaultForMarket[market] = NoVault /\ vaultForAgent[agent] = NoVault

\* _create; the constructor of the vault refuses limits that are not valid.
Create(market, agent, tier, limits) ==
    LET vault == Len(vaults) + 1
    IN  /\ vault <= MaxVaults
        /\ Unclaimed(market, agent)
        /\ limits
        /\ vaults' = Append(vaults, [market |-> market, agent |-> agent, tier |-> tier])
        /\ vaultForMarket' = [vaultForMarket EXCEPT ![market] = vault]
        /\ vaultForAgent' = [vaultForAgent EXCEPT ![agent] = vault]
        /\ UNCHANGED defaultLimits

CreateVault(market, agent, tier) == Create(market, agent, tier, defaultLimits[tier])

CreateVaultWithLimits(market, agent, tier) ==
    \E limits \in BOOLEAN : Create(market, agent, tier, limits)

\* Not validated: what is unusable shows at the next createVault.
SetDefaultLimits(tier, limits) ==
    /\ defaultLimits' = [defaultLimits EXCEPT ![tier] = limits]
    /\ UNCHANGED <<vaults, vaultForMarket, vaultForAgent>>

FactoryNext ==
    \/ \E m \in Markets, w \in Wallets, t \in Tiers : CreateVault(m, w, t)
    \/ \E m \in Markets, w \in Wallets, t \in Tiers : CreateVaultWithLimits(m, w, t)
    \/ \E t \in Tiers, l \in BOOLEAN : SetDefaultLimits(t, l)

FactorySpec == FactoryInit /\ [][FactoryNext]_factoryVars

-----------------------------------------------------------------------------
FactoryTypeOK ==
    /\ vaults \in Seq([market : Markets, agent : Wallets, tier : Tiers])
    /\ vaultForMarket \in [Markets -> Nat] /\ vaultForAgent \in [Wallets -> Nat]
    /\ defaultLimits \in [Tiers -> BOOLEAN]

(***************************************************************************)
(* One vault per market and one agent per vault, in whatever order they    *)
(* are created: each index leads to the vault that names its key, and each *)
(* vault in the list is found under both of its names.                     *)
(***************************************************************************)
IndexesAgree ==
    /\ \A m \in Markets :
          vaultForMarket[m] # NoVault =>
              vaultForMarket[m] \in DOMAIN vaults /\ vaults[vaultForMarket[m]].market = m
    /\ \A w \in Wallets :
          vaultForAgent[w] # NoVault =>
              vaultForAgent[w] \in DOMAIN vaults /\ vaults[vaultForAgent[w]].agent = w
    /\ \A v \in DOMAIN vaults :
          vaultForMarket[vaults[v].market] = v /\ vaultForAgent[vaults[v].agent] = v
=============================================================================

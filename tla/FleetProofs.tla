---------------------------- MODULE FleetProofs -----------------------------
(***************************************************************************)
(* The factory's registry and the fleet over it: operators, database and   *)
(* agent process, for any number of vaults, consoles and markets.  The     *)
(* registry stays one to one, no recorded configuration ever names another *)
(* vault's market or wallet, no market that may hold a position leaves the *)
(* rows an operator is shown, a close that is recorded is true, and what   *)
(* one operator weighs adds up.                                            *)
(***************************************************************************)
EXTENDS Fleet, SumTheorems, SequenceTheorems, TLAPS

Vaults == [market : Markets, agent : Wallets, tier : Tiers]

FactoryInv == FactoryTypeOK /\ IndexesAgree

LEMMA FactoryInitInv == FactoryInit => FactoryInv
  BY DEF FactoryInit, FactoryInv, FactoryTypeOK, IndexesAgree, NoVault

\* _create(): the two mappings gain the same new index.
LEMMA CreateInv ==
    ASSUME FactoryInv, NEW market \in Markets, NEW wallet \in Wallets, NEW tier \in Tiers,
           NEW limits, Create(market, wallet, tier, limits)
    PROVE  FactoryInv'
  <1> DEFINE n == Len(vaults) + 1
             v == [market |-> market, agent |-> wallet, tier |-> tier]
  <1>1. /\ vaultForMarket[market] = 0 /\ vaultForAgent[wallet] = 0
        /\ vaults' = Append(vaults, v)
        /\ vaultForMarket' = [vaultForMarket EXCEPT ![market] = n]
        /\ vaultForAgent' = [vaultForAgent EXCEPT ![wallet] = n]
        /\ defaultLimits' = defaultLimits
    BY DEF Create, Unclaimed, NoVault
  <1>2. /\ vaults \in Seq(Vaults) /\ v \in Vaults /\ n \in Nat \ {0}
        /\ v.market = market /\ v.agent = wallet
    BY DEF FactoryInv, FactoryTypeOK, Vaults
  <1> HIDE DEF v
  <1>3. /\ vaults' \in Seq(Vaults) /\ DOMAIN vaults = 1 .. Len(vaults)
        /\ DOMAIN vaults' = 1 .. n /\ vaults'[n] = v
        /\ \A k \in 1 .. Len(vaults) : vaults'[k] = vaults[k]
    BY <1>1, <1>2
  <1>4. /\ \A k \in DOMAIN vaults : k \in DOMAIN vaults' /\ k # n /\ vaults'[k] = vaults[k]
        /\ n \in DOMAIN vaults'
        /\ \A k \in DOMAIN vaults' : k = n \/ k \in DOMAIN vaults
    <2>1. Len(vaults) \in Nat
      BY <1>2
    <2> QED
      BY <1>2, <1>3, <2>1
  <1>5. /\ vaultForMarket \in [Markets -> Nat] /\ vaultForAgent \in [Wallets -> Nat]
        /\ \A k \in DOMAIN vaults : vaults[k].market \in Markets /\ vaults[k].agent \in Wallets
    <2>1. vaultForMarket \in [Markets -> Nat] /\ vaultForAgent \in [Wallets -> Nat]
      BY DEF FactoryInv, FactoryTypeOK
    <2>2. ASSUME NEW k \in DOMAIN vaults
          PROVE  vaults[k].market \in Markets /\ vaults[k].agent \in Wallets
      <3>1. vaults[k] \in Vaults
        BY <1>2
      <3> QED
        BY <3>1 DEF Vaults
    <2> QED
      BY <2>1, <2>2
  <1>6. /\ vaultForMarket'[market] = n /\ vaultForAgent'[wallet] = n
        /\ \A m \in Markets : m # market => vaultForMarket'[m] = vaultForMarket[m]
        /\ \A w \in Wallets : w # wallet => vaultForAgent'[w] = vaultForAgent[w]
    BY <1>1, <1>5
  <1>7. FactoryTypeOK'
    BY <1>1, <1>2, <1>3, <1>5 DEF FactoryInv, FactoryTypeOK, Vaults
  <1>8. \A k \in DOMAIN vaults : vaults[k].market # market /\ vaults[k].agent # wallet
    BY <1>1, <1>4 DEF FactoryInv, IndexesAgree, NoVault
  <1> HIDE DEF n
  <1>9. ASSUME NEW m \in Markets, vaultForMarket'[m] # 0
        PROVE  vaultForMarket'[m] \in DOMAIN vaults' /\ vaults'[vaultForMarket'[m]].market = m
    <2>1. CASE m = market
      BY <1>2, <1>3, <1>4, <1>6, <2>1
    <2>2. CASE m # market
      BY <1>4, <1>6, <1>9, <2>2 DEF FactoryInv, IndexesAgree, NoVault
    <2> QED
      BY <2>1, <2>2
  <1>10. ASSUME NEW w \in Wallets, vaultForAgent'[w] # 0
         PROVE  vaultForAgent'[w] \in DOMAIN vaults' /\ vaults'[vaultForAgent'[w]].agent = w
    <2>1. CASE w = wallet
      BY <1>2, <1>3, <1>4, <1>6, <2>1
    <2>2. CASE w # wallet
      BY <1>4, <1>6, <1>10, <2>2 DEF FactoryInv, IndexesAgree, NoVault
    <2> QED
      BY <2>1, <2>2
  <1>11. ASSUME NEW k \in DOMAIN vaults'
         PROVE  vaultForMarket'[vaults'[k].market] = k /\ vaultForAgent'[vaults'[k].agent] = k
    <2>1. CASE k = n
      BY <1>2, <1>3, <1>6, <2>1
    <2>2. CASE k # n
      <3>1. k \in DOMAIN vaults /\ vaults'[k] = vaults[k]
        BY <1>4, <2>2
      <3>2. vaultForMarket[vaults[k].market] = k /\ vaultForAgent[vaults[k].agent] = k
        BY <3>1 DEF FactoryInv, IndexesAgree
      <3> QED
        BY <1>5, <1>6, <1>8, <3>1, <3>2
    <2> QED
      BY <2>1, <2>2
  <1>12. IndexesAgree'
    BY <1>9, <1>10, <1>11 DEF IndexesAgree, NoVault
  <1> QED
    BY <1>7, <1>12 DEF FactoryInv

LEMMA FactoryNextInv == FactoryInv /\ [FactoryNext]_factoryVars => FactoryInv'
  <1> SUFFICES ASSUME FactoryInv, [FactoryNext]_factoryVars PROVE FactoryInv'
    OBVIOUS
  <1>1. ASSUME NEW m \in Markets, NEW w \in Wallets, NEW t \in Tiers, CreateVault(m, w, t)
        PROVE  FactoryInv'
    BY <1>1, CreateInv DEF CreateVault
  <1>2. ASSUME NEW m \in Markets, NEW w \in Wallets, NEW t \in Tiers,
               CreateVaultWithLimits(m, w, t)
        PROVE  FactoryInv'
    BY <1>2, CreateInv DEF CreateVaultWithLimits
  <1>3. ASSUME NEW t \in Tiers, NEW l \in BOOLEAN, SetDefaultLimits(t, l) PROVE FactoryInv'
    BY <1>3 DEF SetDefaultLimits, FactoryInv, FactoryTypeOK, IndexesAgree
  <1>4. CASE UNCHANGED factoryVars
    BY <1>4 DEF factoryVars, FactoryInv, FactoryTypeOK, IndexesAgree
  <1> QED
    BY <1>1, <1>2, <1>3, <1>4 DEF FactoryNext

(***************************************************************************)
(* The two mappings and the list of the factory agree after any sequence of*)
(* creations: no market has two vaults, no agent two books, and no vault is*)
(* hidden from either index.                                               *)
(***************************************************************************)
THEOREM RegistryIsOneToOne == FactorySpec => []IndexesAgree
  <1>1. FactoryInv => IndexesAgree
    BY DEF FactoryInv
  <1> QED
    BY <1>1, FactoryInitInv, FactoryNextInv, PTL DEF FactorySpec

-----------------------------------------------------------------------------
Configs == [there : BOOLEAN, market : Markets \cup {""}, tier : Tiers \cup {""},
            enabled : BOOLEAN, ordered : BOOLEAN, completed : BOOLEAN]

FleetInv == FactoryInv /\ config \in [VaultIds -> Configs] /\ TradesOwnBook

LEMMA FleetInitInv == FleetInit => FleetInv
  <1> SUFFICES ASSUME FleetInit PROVE FleetInv
    OBVIOUS
  <1>1. FactoryInv
    BY FactoryInitInv DEF FleetInit
  <1>2. NoConfig \in Configs /\ ~ NoConfig.there
    BY DEF NoConfig, Configs
  <1>3. config \in [VaultIds -> Configs] /\ \A v \in VaultIds : ~ config[v].there
    BY <1>2 DEF FleetInit
  <1> QED
    BY <1>1, <1>3 DEF FleetInv, TradesOwnBook

\* A vault keeps its position, its market and its agent for ever.
LEMMA VaultsStay ==
    ASSUME FactoryInv, FactoryNext, NEW v \in DOMAIN vaults
    PROVE  v \in DOMAIN vaults' /\ vaults'[v] = vaults[v]
  <1>1. ASSUME NEW m \in Markets, NEW w \in Wallets, NEW t \in Tiers, NEW l, Create(m, w, t, l)
        PROVE  v \in DOMAIN vaults' /\ vaults'[v] = vaults[v]
    <2> DEFINE n == [market |-> m, agent |-> w, tier |-> t]
    <2>1. vaults' = Append(vaults, n) /\ n \in Vaults /\ vaults \in Seq(Vaults)
      BY <1>1 DEF Create, FactoryInv, FactoryTypeOK, Vaults
    <2> HIDE DEF n
    <2> QED
      BY <2>1
  <1>2. ASSUME NEW t \in Tiers, NEW l \in BOOLEAN, SetDefaultLimits(t, l)
        PROVE  v \in DOMAIN vaults' /\ vaults'[v] = vaults[v]
    BY <1>2 DEF SetDefaultLimits
  <1> QED
    BY <1>1, <1>2 DEF FactoryNext, CreateVault, CreateVaultWithLimits

\* Switches and stamps leave the identity of a configuration alone.
LEMMA IdentityKept ==
    ASSUME FleetInv, UNCHANGED factoryVars, NEW v, NEW r \in Configs,
           config' = [config EXCEPT ![v] = r],
           v \in VaultIds => /\ r.there = config[v].there
                             /\ r.market = config[v].market /\ r.tier = config[v].tier
    PROVE  FleetInv'
  <1>1. FactoryInv'
    BY FactoryNextInv DEF FleetInv
  <1>2. config' \in [VaultIds -> Configs]
    BY DEF FleetInv
  <1>3. vaults' = vaults
    BY DEF factoryVars
  <1>4. ASSUME NEW u \in VaultIds, config'[u].there
        PROVE  /\ u \in DOMAIN vaults' /\ config'[u].market = vaults'[u].market
               /\ WalletOf(config'[u].market, config'[u].tier) = vaults'[u].agent
    <2>1. /\ config'[u].there = config[u].there /\ config'[u].market = config[u].market
          /\ config'[u].tier = config[u].tier
      <3>1. CASE u = v
        BY <3>1 DEF FleetInv
      <3>2. CASE u # v
        BY <3>2 DEF FleetInv
      <3> QED
        BY <3>1, <3>2
    <2> QED
      BY <1>3, <1>4, <2>1 DEF FleetInv, TradesOwnBook
  <1> QED
    BY <1>1, <1>2, <1>4 DEF FleetInv, TradesOwnBook

\* A configuration is written for a vault whose market and wallet it names.
LEMMA RecordedMatches ==
    ASSUME FleetInv, UNCHANGED factoryVars, NEW v \in DOMAIN vaults, NEW r \in Configs,
           config' = [config EXCEPT ![v] = r], r.market = vaults[v].market,
           WalletOf(r.market, r.tier) = vaults[v].agent
    PROVE  FleetInv'
  <1>1. FactoryInv'
    BY FactoryNextInv DEF FleetInv
  <1>2. config' \in [VaultIds -> Configs]
    BY DEF FleetInv
  <1>3. vaults' = vaults
    BY DEF factoryVars
  <1>4. ASSUME NEW u \in VaultIds, config'[u].there
        PROVE  /\ u \in DOMAIN vaults' /\ config'[u].market = vaults'[u].market
               /\ WalletOf(config'[u].market, config'[u].tier) = vaults'[u].agent
    <2>1. CASE u = v
      <3>1. config'[u] = r
        BY <2>1 DEF FleetInv
      <3> QED
        BY <1>3, <2>1, <3>1
    <2>2. CASE u # v
      <3>1. config'[u] = config[u]
        BY <2>2 DEF FleetInv
      <3> QED
        BY <1>3, <1>4, <3>1 DEF FleetInv, TradesOwnBook
    <2> QED
      BY <2>1, <2>2
  <1> QED
    BY <1>1, <1>2, <1>4 DEF FleetInv, TradesOwnBook

\* What neither creates a vault nor writes a configuration.
LEMMA ElsewhereKept ==
    ASSUME FleetInv, UNCHANGED <<factoryVars, config>> PROVE FleetInv'
  <1>1. FactoryInv'
    BY FactoryNextInv DEF FleetInv
  <1> QED
    BY <1>1 DEF FleetInv, TradesOwnBook, factoryVars

-----------------------------------------------------------------------------
\* The switches of a configuration carry no identity.
LEMMA Flags ==
    ASSUME NEW c \in Configs, NEW b \in BOOLEAN
    PROVE  /\ [c EXCEPT !.enabled = b] \in Configs /\ [c EXCEPT !.ordered = b] \in Configs
           /\ [c EXCEPT !.completed = b] \in Configs
           /\ [c EXCEPT !.enabled = b].there = c.there
           /\ [c EXCEPT !.enabled = b].market = c.market
           /\ [c EXCEPT !.enabled = b].tier = c.tier
           /\ [c EXCEPT !.ordered = b].there = c.there
           /\ [c EXCEPT !.ordered = b].market = c.market
           /\ [c EXCEPT !.ordered = b].tier = c.tier
           /\ [c EXCEPT !.completed = b].there = c.there
           /\ [c EXCEPT !.completed = b].market = c.market
           /\ [c EXCEPT !.completed = b].tier = c.tier
  BY DEF Configs

\* What recordVault and the seeding script write names the market and the tier.
LEMMA Named ==
    ASSUME NEW c \in Configs, NEW m \in Markets, NEW t \in Tiers
    PROVE  /\ Recorded(c, m, t) \in Configs
           /\ Recorded(c, m, t).market = m /\ Recorded(c, m, t).tier = t
           /\ Recorded(c, m, t).there
  <1> DEFINE c1 == [c EXCEPT !.there = TRUE]
             c2 == [c1 EXCEPT !.market = m]
             c3 == [c2 EXCEPT !.tier = t]
             c4 == [c3 EXCEPT !.enabled = TRUE]
  <1>1. c1 \in Configs /\ c1.there
    BY DEF Configs
  <1>2. c2 \in Configs /\ c2.market = m /\ c2.there
    <2> HIDE DEF c1
    <2> QED
      BY <1>1 DEF Configs
  <1>3. c3 \in Configs /\ c3.market = m /\ c3.tier = t /\ c3.there
    <2> HIDE DEF c2
    <2> QED
      BY <1>2 DEF Configs
  <1>4. c4 \in Configs /\ c4.market = m /\ c4.tier = t /\ c4.there
    <2> HIDE DEF c3
    <2> QED
      BY <1>3 DEF Configs
  <1>5. Recorded(c, m, t) = c4
    BY DEF Recorded
  <1> HIDE DEF c4
  <1> QED
    BY <1>4, <1>5

LEMMA RecordVaultInv ==
    ASSUME FleetInv, NEW v \in DOMAIN vaults, NEW m \in Markets, NEW t \in Tiers,
           RecordVault(v, m, t)
    PROVE  FleetInv'
  <1> DEFINE r == Recorded(NoConfig, m, t)
  <1>1. config' = [config EXCEPT ![v] = r] /\ UNCHANGED factoryVars /\ Matches(v, m, t)
    BY DEF RecordVault
  <1>2. NoConfig \in Configs
    BY DEF NoConfig, Configs
  <1>3. r \in Configs /\ r.market = m /\ r.tier = t
    BY <1>2, Named
  <1> HIDE DEF r
  <1> QED
    BY <1>1, <1>3, RecordedMatches DEF Matches

LEMMA SeedConfigInv ==
    ASSUME FleetInv, NEW v \in DOMAIN vaults, SeedConfig(v) PROVE FleetInv'
  <1> DEFINE c == config[v]
             m == vaults[v].market
             t == vaults[v].tier
             r == Recorded(c, m, t)
  <1>1. /\ config' = [config EXCEPT ![v] = r] /\ UNCHANGED factoryVars
        /\ vaults[v].agent = WalletOf(m, t)
    BY DEF SeedConfig
  <1>2. m \in Markets /\ t \in Tiers
    <2>1. vaults \in Seq(Vaults)
      BY DEF FleetInv, FactoryInv, FactoryTypeOK, Vaults
    <2>2. vaults[v] \in Vaults
      BY <2>1
    <2> QED
      BY <2>2 DEF Vaults
  <1>3. CASE v \in VaultIds
    <2>1. c \in Configs
      BY <1>3 DEF FleetInv
    <2>2. r \in Configs /\ r.market = m /\ r.tier = t
      <3> HIDE DEF c, m, t
      <3> QED
        BY <1>2, <2>1, Named
    <2> HIDE DEF r
    <2> QED
      BY <1>1, <2>2, RecordedMatches
  <1>4. CASE v \notin VaultIds
    <2>1. config' = config
      BY <1>1, <1>4 DEF FleetInv
    <2> QED
      BY <1>1, <2>1, ElsewhereKept
  <1> QED
    BY <1>3, <1>4

LEMMA SwitchesInv ==
    ASSUME FleetInv, NEW v, NEW b \in BOOLEAN,
           SetAgentEnabled(v, b) \/ SetCloseOrder(v, b)
    PROVE  FleetInv'
  <1> DEFINE c == config[v]
             e == [c EXCEPT !.enabled = b]
             o == [c EXCEPT !.ordered = b]
             d == [o EXCEPT !.completed = FALSE]
  <1>1. UNCHANGED factoryVars /\ (config' = [config EXCEPT ![v] = e]
                                  \/ config' = [config EXCEPT ![v] = d])
    BY DEF SetAgentEnabled, SetCloseOrder, Ordered
  <1>2. CASE v \in VaultIds
    <2>1. c \in Configs
      BY <1>2 DEF FleetInv
    <2> HIDE DEF c
    <2>2. /\ e \in Configs /\ e.there = c.there /\ e.market = c.market /\ e.tier = c.tier
          /\ o \in Configs /\ o.there = c.there /\ o.market = c.market /\ o.tier = c.tier
      BY <2>1, Flags
    <2> HIDE DEF e, o
    <2>3. d \in Configs /\ d.there = c.there /\ d.market = c.market /\ d.tier = c.tier
      BY <2>2, Flags
    <2> HIDE DEF d
    <2>4. CASE config' = [config EXCEPT ![v] = e]
      BY <1>1, <2>2, <2>4, IdentityKept DEF c
    <2>5. CASE config' = [config EXCEPT ![v] = d]
      BY <1>1, <2>3, <2>5, IdentityKept DEF c
    <2> QED
      BY <1>1, <2>4, <2>5
  <1>3. CASE v \notin VaultIds
    <2> HIDE DEF e, d
    <2>1. config' = config
      BY <1>1, <1>3 DEF FleetInv
    <2> QED
      BY <1>1, <2>1, ElsewhereKept
  <1> QED
    BY <1>2, <1>3

\* recordCloseSatisfied(), whatever vault the process is at.
LEMMA StampInv == ASSUME FleetInv, Stamp PROVE FleetInv'
  <1> DEFINE v == agent.vault
             c == config[v]
             d == [c EXCEPT !.completed = TRUE]
  <1>1. UNCHANGED factoryVars /\ config' = [config EXCEPT ![v] = d]
    BY DEF Stamp
  <1> HIDE DEF v
  <1>2. CASE v \in VaultIds
    <2>1. c \in Configs
      BY <1>2 DEF FleetInv
    <2> HIDE DEF c
    <2>2. d \in Configs /\ d.there = c.there /\ d.market = c.market /\ d.tier = c.tier
      BY <2>1, Flags
    <2> HIDE DEF d
    <2> QED
      BY <1>1, <2>2, IdentityKept DEF c
  <1>3. CASE v \notin VaultIds
    <2> HIDE DEF d
    <2>1. config' = config
      BY <1>1, <1>3 DEF FleetInv
    <2> QED
      BY <1>1, <2>1, ElsewhereKept
  <1> QED
    BY <1>2, <1>3

-----------------------------------------------------------------------------
LEMMA FleetNextInv == FleetInv /\ [FleetNext]_fleetVars => FleetInv'
  <1> SUFFICES ASSUME FleetInv, [FleetNext]_fleetVars PROVE FleetInv'
    OBVIOUS
  <1>1. ASSUME UNCHANGED <<factoryVars, config>> PROVE FleetInv'
    BY <1>1, ElsewhereKept
  <1>2. CASE Chain
    <2>1. FactoryInv' /\ config' = config
      BY <1>2, FactoryNextInv DEF Chain, FleetInv
    <2>2. \A v \in DOMAIN vaults : v \in DOMAIN vaults' /\ vaults'[v] = vaults[v]
      BY <1>2, VaultsStay DEF Chain, FleetInv
    <2> QED
      BY <2>1, <2>2 DEF FleetInv, TradesOwnBook
  <1>3. CASE Operators
    <2>1. ASSUME NEW v \in DOMAIN vaults, NEW m \in Markets, NEW t \in Tiers,
                 RecordVault(v, m, t)
          PROVE  FleetInv'
      BY <2>1, RecordVaultInv
    <2>2. ASSUME NEW v \in DOMAIN vaults, SeedConfig(v) PROVE FleetInv'
      BY <2>2, SeedConfigInv
    <2>3. ASSUME NEW v, NEW b \in BOOLEAN, SetAgentEnabled(v, b) \/ SetCloseOrder(v, b)
          PROVE  FleetInv'
      BY <2>3, SwitchesInv
    <2>4. ASSUME NEW c, NEW v, NEW w, StartSetMarkets(c, v, w) PROVE FleetInv'
      BY <1>1, <2>4 DEF StartSetMarkets
    <2>5. ASSUME NEW c, ConsoleSeeds(c) \/ ConsoleReads(c) \/ ConsoleWrites(c) PROVE FleetInv'
      BY <1>1, <2>5 DEF ConsoleSeeds, ConsoleReads, ConsoleWrites
    <2> QED
      BY <1>3, <2>1, <2>2, <2>3, <2>4, <2>5 DEF Operators
  <1>4. CASE Process
    <2>1. CASE Stamp
      BY <2>1, StampInv
    <2>2. CASE ListVaults \/ Sleep \/ Resolve \/ ReadMarkets \/ AgentSeeds \/ StampFails
      BY <1>1, <2>2 DEF ListVaults, Sleep, Resolve, ReadMarkets, AgentSeeds, StampFails
    <2>3. CASE Ticks
      BY <1>1, <2>3 DEF Ticks, TickTrades, TickCloses, TickFindsFlat, TickFails
    <2> QED
      BY <1>4, <2>1, <2>2, <2>3 DEF Process
  <1>5. CASE Restart
    BY <1>1, <1>5 DEF Restart
  <1>6. CASE UNCHANGED fleetVars
    BY <1>1, <1>6 DEF fleetVars
  <1> QED
    BY <1>2, <1>3, <1>4, <1>5, <1>6 DEF FleetNext

THEOREM FleetInvariant == FleetSpec => []FleetInv
  BY FleetInitInv, FleetNextInv, PTL DEF FleetSpec

\* The registry stays one to one while operators and the agent work on it.
THEOREM FleetRegistry == FleetSpec => []IndexesAgree
  <1>1. FleetInv => IndexesAgree
    BY DEF FleetInv, FactoryInv
  <1> QED
    BY <1>1, FleetInvariant, PTL

(***************************************************************************)
(* However creations, interrupted recordings and the seeding script follow *)
(* one another, a configuration the agent ticks names the market of its own*)
(* vault and the wallet that vault trusts.                                 *)
(***************************************************************************)
THEOREM NoCrossedBooks == FleetSpec => []TradesOwnBook
  <1>1. FleetInv => TradesOwnBook
    BY DEF FleetInv
  <1> QED
    BY <1>1, FleetInvariant, PTL

-----------------------------------------------------------------------------
(***************************************************************************)
(* What the rows, the order and the position of a vault say of one another *)
(* while the process is between the read of one and the use of it.  Rows   *)
(* only ever appear, so what was read is still there; a position changes in*)
(* ticks alone, so what a tick sees of it is all of it; and a completion is*)
(* stamped by the very process whose reads could be older than the order.  *)
(***************************************************************************)
Rows == [weight : Nat, enabled : BOOLEAN, there : BOOLEAN]

Requests == [step : {"idle", "seed", "read", "write"}, vault : Managed \cup {NoVault},
             wanted : Proposals \cup {<<>>}, seen : SUBSET Markets]

\* A target needs a row.
Shown(r) == \A m \in Markets : r[m].enabled => r[m].there

RowsOK ==
    /\ rows \in [VaultIds -> [Markets -> Rows]]
    /\ \A v \in VaultIds : Shown(rows[v])
    /\ held \in [VaultIds -> SUBSET Markets]
    /\ console \in [Consoles -> Requests]

\* The process in its cycle: nothing of a vault is kept between two of them.
CycleOK ==
    /\ agent = [step |-> agent.step, left |-> agent.left, vault |-> agent.vault,
                ordered |-> agent.ordered, markets |-> agent.markets]
    /\ InStep("idle") \/ InStep("next") \/ InStep("markets") => agent.markets = Resting.markets

Stands(v) == config[v].ordered /\ config[v].completed

\* What was read of a vault, against the vault as it is by now.
ReadOK(v) ==
    /\ agent.markets \in [Markets -> Rows] /\ Shown(agent.markets)
    /\ \A m \in Markets : agent.markets[m].there => rows[v][m].there
    /\ InStep("seed") \/ InStep("tick") => \A m \in held[v] : agent.markets[m].there
    /\ InStep("stamp") => held[v] = {}
    /\ ~ InStep("stamp") /\ Stands(v) => agent.ordered

FlatInv ==
    /\ RowsOK /\ CycleOK
    /\ agent.vault \in VaultIds => ReadOK(agent.vault)
    /\ PositionsVisible /\ CompletedIsFlat

LEMMA FlatInitInv == FleetInit => FlatInv
  <1> SUFFICES ASSUME FleetInit PROVE FlatInv
    OBVIOUS
  <1>1. NoRow \in Rows /\ ~ NoRow.enabled /\ ~ NoRow.there
    BY DEF NoRow, Rows
  <1>2. RowsOK
    <2>1. Quiet \in Requests
      BY DEF Quiet, Requests
    <2>2. rows \in [VaultIds -> [Markets -> Rows]] /\ \A v \in VaultIds : Shown(rows[v])
      BY <1>1 DEF FleetInit, Shown
    <2> QED
      BY <2>1, <2>2 DEF FleetInit, RowsOK
  <1>3. CycleOK
    BY DEF FleetInit, CycleOK, Resting
  <1>4. agent.vault = NoVault /\ NoVault \notin VaultIds
    BY FactoryAssumption DEF FleetInit, Resting, NoVault, VaultIds
  <1>5. PositionsVisible
    BY DEF FleetInit, PositionsVisible
  <1>6. CompletedIsFlat
    BY DEF FleetInit, CompletedIsFlat
  <1> QED
    BY <1>2, <1>3, <1>4, <1>5, <1>6 DEF FlatInv

\* Whoever writes, rows appear and none goes, and no order becomes one that stands.
LEMMA RowsAppear ==
    ASSUME FlatInv, UNCHANGED <<agent, held>>, RowsOK',
           \A v \in VaultIds, m \in Markets : rows[v][m].there => rows'[v][m].there,
           \A v \in VaultIds : Stands(v)' => Stands(v)
    PROVE  FlatInv'
  <1>1. CycleOK'
    BY DEF FlatInv, CycleOK, InStep
  <1>2. PositionsVisible'
    BY DEF FlatInv, PositionsVisible, RowsOf, RowsOK
  <1>3. CompletedIsFlat'
    BY DEF FlatInv, CompletedIsFlat, Stands
  <1>4. ASSUME agent'.vault \in VaultIds PROVE ReadOK(agent.vault)'
    BY <1>4 DEF FlatInv, ReadOK, InStep, Shown
  <1> QED
    BY <1>1, <1>2, <1>3, <1>4 DEF FlatInv

\* The founding row is written over nothing that is there.
LEMMA SeedAppears ==
    ASSUME RowsOK, NEW v
    PROVE  LET r == [rows EXCEPT ![v] = Seed(v)]
           IN  /\ r \in [VaultIds -> [Markets -> Rows]]
               /\ \A u \in VaultIds : Shown(r[u])
               /\ \A u \in VaultIds, m \in Markets : rows[u][m].there => r[u][m].there
               /\ \A u \in VaultIds \ {v} : r[u] = rows[u]
  <1> DEFINE s == Seed(v)
             r == [rows EXCEPT ![v] = s]
             k == config[v].market
  <1>1. Founding \in Rows /\ Founding.there
    BY FleetAssumption DEF Founding, Rows
  <1>2. CASE v \in VaultIds
    <2>1. rows[v] \in [Markets -> Rows] /\ Shown(rows[v])
      BY <1>2 DEF RowsOK
    <2>2. s = [rows[v] EXCEPT ![k] = IF rows[v][k].there THEN rows[v][k] ELSE Founding]
      BY DEF Seed
    <2> HIDE DEF s, k
    <2>3. /\ s \in [Markets -> Rows]
          /\ \A m \in Markets : s[m] = rows[v][m] \/ s[m] = Founding
          /\ \A m \in Markets : rows[v][m].there => s[m].there
      BY <1>1, <2>1, <2>2
    <2>4. Shown(s)
      BY <1>1, <2>1, <2>3 DEF Shown
    <2> QED
      BY <1>2, <2>3, <2>4 DEF RowsOK, s
  <1>3. CASE v \notin VaultIds
    <2> HIDE DEF s
    <2>1. r = rows
      BY <1>3 DEF RowsOK
    <2> QED
      BY <2>1 DEF RowsOK, s
  <1> QED
    BY <1>2, <1>3

\* Removal is disabling, so what an operator writes leaves every row there.
LEMMA WrittenAppears ==
    ASSUME RowsOK, NEW v \in VaultIds, NEW wanted \in Proposals \cup {<<>>}, NEW seen
    PROVE  /\ Written(v, wanted, seen) \in [Markets -> Rows]
           /\ Shown(Written(v, wanted, seen))
           /\ \A m \in Markets : rows[v][m].there => Written(v, wanted, seen)[m].there
  <1> DEFINE w == Written(v, wanted, seen)
  <1>1. ASSUME NEW m \in Markets
        PROVE  /\ w[m] \in Rows /\ (w[m].enabled => w[m].there)
               /\ rows[v][m].there => w[m].there
    <2> DEFINE r == rows[v][m]
    <2>1. r \in Rows /\ (r.enabled => r.there)
      BY DEF RowsOK, Shown
    <2>2. w[m] = IF m \in DOMAIN wanted
                 THEN [weight |-> wanted[m], enabled |-> TRUE, there |-> TRUE]
                 ELSE IF m \in seen THEN [r EXCEPT !.enabled = FALSE] ELSE r
      BY DEF Written
    <2> HIDE DEF r, w
    <2>3. CASE m \in DOMAIN wanted
      <3>1. wanted[m] \in Nat
        <4>1. CASE wanted = <<>>
          BY <2>3, <4>1
        <4>2. CASE wanted \in Proposals
          <5>1. PICK S \in SUBSET Markets : wanted \in [S -> Weights]
            BY <4>2 DEF Proposals
          <5> QED
            BY <2>3, <5>1, FleetAssumption
        <4> QED
          BY <4>1, <4>2
      <3>2. w[m] = [weight |-> wanted[m], enabled |-> TRUE, there |-> TRUE]
        BY <2>2, <2>3
      <3> QED
        BY <3>1, <3>2 DEF Rows
    <2>4. CASE m \notin DOMAIN wanted
      <3>1. w[m] = r \/ w[m] = [r EXCEPT !.enabled = FALSE]
        BY <2>2, <2>4
      <3>2. [r EXCEPT !.enabled = FALSE] \in Rows
        BY <2>1 DEF Rows
      <3>3. ~ [r EXCEPT !.enabled = FALSE].enabled /\ [r EXCEPT !.enabled = FALSE].there = r.there
        BY <2>1 DEF Rows
      <3> QED
        BY <2>1, <3>1, <3>2, <3>3 DEF r
    <2> QED
      BY <2>3, <2>4 DEF r
  <1>2. w = [m \in Markets |-> w[m]]
    BY DEF Written
  <1> HIDE DEF w
  <1>3. w \in [Markets -> Rows]
    BY <1>1, <1>2
  <1>4. Shown(w) /\ \A m \in Markets : rows[v][m].there => w[m].there
    BY <1>1 DEF Shown
  <1> QED
    BY <1>3, <1>4 DEF w

\* The steps of a request: what they leave of the console is a request again.
LEMMA ConsoleStep ==
    ASSUME RowsOK, NEW c \in Consoles
    PROVE  /\ [console EXCEPT ![c].step = "read"] \in [Consoles -> Requests]
           /\ [console EXCEPT ![c] = Quiet] \in [Consoles -> Requests]
           /\ \A s \in SUBSET Markets :
                [console EXCEPT ![c].step = "write", ![c].seen = s] \in [Consoles -> Requests]
           /\ \A v \in Managed, w \in Proposals, s \in {"seed", "read"} :
                [console EXCEPT ![c] = [step |-> s, vault |-> v, wanted |-> w, seen |-> {}]]
                    \in [Consoles -> Requests]
  <1>1. console \in [Consoles -> Requests] /\ Quiet \in Requests
    BY DEF RowsOK, Quiet, Requests
  <1>2. [console EXCEPT ![c].step = "read"] \in [Consoles -> Requests]
    <2> DEFINE r == console[c]
    <2>1. r \in Requests
      BY <1>1
    <2>2. [r EXCEPT !.step = "read"] \in Requests
      BY <2>1 DEF Requests
    <2> QED
      BY <1>1, <2>2
  <1>3. ASSUME NEW s \in SUBSET Markets
        PROVE  [console EXCEPT ![c].step = "write", ![c].seen = s] \in [Consoles -> Requests]
    <2> DEFINE r == console[c]
               q == [r EXCEPT !.step = "write"]
               p == [q EXCEPT !.seen = s]
    <2>1. q \in Requests
      BY <1>1 DEF Requests
    <2>2. p \in Requests
      <3> HIDE DEF q
      <3> QED
        BY <2>1 DEF Requests
    <2>3. [console EXCEPT ![c].step = "write", ![c].seen = s] = [console EXCEPT ![c] = p]
      BY <1>1
    <2> HIDE DEF p
    <2> QED
      BY <1>1, <2>2, <2>3
  <1>4. ASSUME NEW v \in Managed, NEW w \in Proposals, NEW s \in {"seed", "read"}
        PROVE  [console EXCEPT ![c] = [step |-> s, vault |-> v, wanted |-> w, seen |-> {}]]
                   \in [Consoles -> Requests]
    BY <1>1 DEF Requests
  <1> QED
    BY <1>1, <1>2, <1>3, <1>4

\* An operator's step touches no position; no order stands because of it.
LEMMA OperatorsFlat == ASSUME FleetInv, FlatInv, Operators PROVE FlatInv'
  <1>0. RowsOK /\ config \in [VaultIds -> Configs]
    BY DEF FlatInv, FleetInv
  <1>1. ASSUME NEW v \in DOMAIN vaults, NEW m \in Markets, NEW t \in Tiers, RecordVault(v, m, t)
        PROVE  FlatInv'
    <2> DEFINE r == Recorded(NoConfig, m, t)
    <2>1. /\ config' = [config EXCEPT ![v] = r]
          /\ rows' = [rows EXCEPT ![v][m] = Founding]
          /\ UNCHANGED <<console, agent, held>>
      BY <1>1 DEF RecordVault
    <2>2. Founding \in Rows /\ Founding.there
      BY FleetAssumption DEF Founding, Rows
    <2>3. ~ r.ordered
      BY DEF Recorded, NoConfig
    <2> HIDE DEF r
    <2>4. \A u \in VaultIds : Stands(u)' => Stands(u)
      BY <1>0, <2>1, <2>3 DEF Stands
    <2>5. /\ rows' \in [VaultIds -> [Markets -> Rows]] /\ \A u \in VaultIds : Shown(rows'[u])
          /\ \A u \in VaultIds, k \in Markets : rows[u][k].there => rows'[u][k].there
      BY <1>0, <2>1, <2>2 DEF RowsOK, Shown
    <2>6. RowsOK'
      BY <1>0, <2>1, <2>5 DEF RowsOK, Shown
    <2> QED
      BY <2>1, <2>4, <2>5, <2>6, RowsAppear
  <1>2. ASSUME UNCHANGED <<rows, console, agent, held>>,
               \A v \in VaultIds : Stands(v)' => Stands(v)
        PROVE  FlatInv'
    <2>1. RowsOK'
      BY <1>0, <1>2 DEF RowsOK, Shown
    <2> QED
      BY <1>2, <2>1, RowsAppear
  <1>3. ASSUME NEW v \in DOMAIN vaults, SeedConfig(v) PROVE FlatInv'
    <2> DEFINE r == Recorded(config[v], vaults[v].market, vaults[v].tier)
    <2>1. config' = [config EXCEPT ![v] = r] /\ UNCHANGED <<rows, console, agent, held>>
      BY <1>3 DEF SeedConfig
    <2>2. v \in VaultIds => r.ordered = config[v].ordered /\ r.completed = config[v].completed
      BY <1>0 DEF Recorded, Configs
    <2> HIDE DEF r
    <2>3. \A u \in VaultIds : Stands(u)' => Stands(u)
      BY <1>0, <2>1, <2>2 DEF Stands
    <2> QED
      BY <1>2, <2>1, <2>3
  <1>4. ASSUME NEW v \in Managed, NEW b \in BOOLEAN, SetAgentEnabled(v, b) PROVE FlatInv'
    <2> DEFINE r == [config[v] EXCEPT !.enabled = b]
    <2>1. config' = [config EXCEPT ![v] = r] /\ UNCHANGED <<rows, console, agent, held>>
      BY <1>4 DEF SetAgentEnabled
    <2>2. v \in VaultIds => r.ordered = config[v].ordered /\ r.completed = config[v].completed
      BY <1>0 DEF Configs
    <2> HIDE DEF r
    <2>3. \A u \in VaultIds : Stands(u)' => Stands(u)
      BY <1>0, <2>1, <2>2 DEF Stands
    <2> QED
      BY <1>2, <2>1, <2>3
  <1>5. ASSUME NEW v \in Managed, NEW b \in BOOLEAN, SetCloseOrder(v, b) PROVE FlatInv'
    <2> DEFINE o == [config[v] EXCEPT !.ordered = b]
               r == [o EXCEPT !.completed = FALSE]
    <2>1. config' = [config EXCEPT ![v] = r] /\ UNCHANGED <<rows, console, agent, held>>
      BY <1>5 DEF SetCloseOrder, Ordered
    <2>2. v \in VaultIds => ~ r.completed
      <3>1. v \in VaultIds => o \in Configs
        BY <1>0 DEF Configs
      <3> HIDE DEF o
      <3> QED
        BY <3>1 DEF Configs
    <2> HIDE DEF r
    <2>3. \A u \in VaultIds : Stands(u)' => Stands(u)
      BY <1>0, <2>1, <2>2 DEF Stands
    <2> QED
      BY <1>2, <2>1, <2>3
  <1>6. ASSUME UNCHANGED <<config, agent, held>>, RowsOK',
               \A v \in VaultIds, m \in Markets : rows[v][m].there => rows'[v][m].there
        PROVE  FlatInv'
    BY <1>6, RowsAppear DEF Stands
  <1>7. ASSUME NEW c \in Consoles, NEW v \in Managed, NEW w \in Proposals, StartSetMarkets(c, v, w)
        PROVE  FlatInv'
    <2> DEFINE s == IF RowsOf(v) = {} THEN "seed" ELSE "read"
    <2>1. /\ console' = [console EXCEPT ![c] = [step |-> s, vault |-> v, wanted |-> w, seen |-> {}]]
          /\ UNCHANGED <<config, rows, agent, held>>
      BY <1>7 DEF StartSetMarkets
    <2>2. s \in {"seed", "read"}
      OBVIOUS
    <2> HIDE DEF s
    <2>3. console' \in [Consoles -> Requests]
      BY <1>0, <2>1, <2>2, ConsoleStep
    <2>4. RowsOK'
      BY <1>0, <2>1, <2>3 DEF RowsOK, Shown
    <2> QED
      BY <1>6, <2>1, <2>4
  <1>8. ASSUME NEW c \in Consoles, ConsoleSeeds(c) PROVE FlatInv'
    <2> DEFINE v == console[c].vault
    <2>1. /\ rows' = [rows EXCEPT ![v] = Seed(v)]
          /\ console' = [console EXCEPT ![c].step = "read"]
          /\ UNCHANGED <<config, agent, held>>
      BY <1>8 DEF ConsoleSeeds
    <2> HIDE DEF v
    <2>2. /\ rows' \in [VaultIds -> [Markets -> Rows]] /\ \A u \in VaultIds : Shown(rows'[u])
          /\ \A u \in VaultIds, m \in Markets : rows[u][m].there => rows'[u][m].there
      BY <1>0, <2>1, SeedAppears
    <2>3. RowsOK'
      BY <1>0, <2>1, <2>2, ConsoleStep DEF RowsOK, Shown
    <2> QED
      BY <1>6, <2>1, <2>2, <2>3
  <1>9. ASSUME NEW c \in Consoles, ConsoleReads(c) PROVE FlatInv'
    <2> DEFINE s == {m \in RowsOf(console[c].vault) : rows[console[c].vault][m].enabled}
    <2>1. /\ console' = [console EXCEPT ![c].step = "write", ![c].seen = s]
          /\ UNCHANGED <<config, rows, agent, held>>
      BY <1>9 DEF ConsoleReads
    <2>2. s \in SUBSET Markets
      BY DEF RowsOf
    <2> HIDE DEF s
    <2>3. RowsOK'
      BY <1>0, <2>1, <2>2, ConsoleStep DEF RowsOK, Shown
    <2> QED
      BY <1>6, <2>1, <2>3
  <1>10. ASSUME NEW c \in Consoles, ConsoleWrites(c) PROVE FlatInv'
    <2> DEFINE v == console[c].vault
               w == Written(v, console[c].wanted, console[c].seen)
    <2>1. /\ rows' = [rows EXCEPT ![v] = w] /\ console' = [console EXCEPT ![c] = Quiet]
          /\ UNCHANGED <<config, agent, held>>
      BY <1>10 DEF ConsoleWrites
    <2>2. console[c].wanted \in Proposals \cup {<<>>}
      BY <1>0 DEF RowsOK, Requests
    <2>3. v \in VaultIds => /\ w \in [Markets -> Rows] /\ Shown(w)
                            /\ \A m \in Markets : rows[v][m].there => w[m].there
      BY <1>0, <2>2, WrittenAppears
    <2> HIDE DEF v, w
    <2>4. /\ rows' \in [VaultIds -> [Markets -> Rows]] /\ \A u \in VaultIds : Shown(rows'[u])
          /\ \A u \in VaultIds, m \in Markets : rows[u][m].there => rows'[u][m].there
      <3>1. CASE v \in VaultIds
        BY <1>0, <2>1, <2>3, <3>1 DEF RowsOK
      <3>2. CASE v \notin VaultIds
        BY <1>0, <2>1, <3>2 DEF RowsOK
      <3> QED
        BY <3>1, <3>2
    <2>5. RowsOK'
      BY <1>0, <2>1, <2>4, ConsoleStep DEF RowsOK, Shown
    <2> QED
      BY <1>6, <2>1, <2>4, <2>5
  <1> QED
    BY <1>1, <1>3, <1>4, <1>5, <1>7, <1>8, <1>9, <1>10 DEF Operators

-----------------------------------------------------------------------------
\* Between two vaults the process keeps nothing of the last one.
LEMMA OnwardFlat ==
    ASSUME FleetInv, FlatInv, UNCHANGED <<config, rows, console>>, NEW left, Onward(left),
           held' \in [VaultIds -> SUBSET Markets],
           \A v \in VaultIds : held'[v] \subseteq RowsOf(v),
           \A v \in VaultIds : Stands(v) => held'[v] = {}
    PROVE  FlatInv'
  <1>1. agent' = [step |-> "next", left |-> left, vault |-> NoVault, ordered |-> FALSE,
                  markets |-> [m \in Markets |-> NoRow]]
    BY DEF Onward, Resting
  <1>2. CycleOK'
    BY <1>1 DEF CycleOK, InStep, Resting
  <1>3. RowsOK'
    BY DEF FlatInv, RowsOK, Shown
  <1>4. agent'.vault \notin VaultIds
    BY <1>1, FactoryAssumption DEF NoVault, VaultIds
  <1>5. PositionsVisible'
    BY DEF PositionsVisible, RowsOf
  <1>6. CompletedIsFlat'
    BY DEF CompletedIsFlat, Stands
  <1> QED
    BY <1>2, <1>3, <1>4, <1>5, <1>6 DEF FlatInv

\* The cycle goes on, or starts over, and no position has moved.
LEMMA RestsFlat ==
    ASSUME FleetInv, FlatInv, UNCHANGED <<config, rows, console, held>>,
           agent' = Resting \/ \E left : Onward(left)
    PROVE  FlatInv'
  <1>1. ASSUME NEW left, Onward(left) PROVE FlatInv'
    <2>1. /\ \A v \in VaultIds : held'[v] \subseteq RowsOf(v)
          /\ \A v \in VaultIds : Stands(v) => held'[v] = {}
          /\ held' \in [VaultIds -> SUBSET Markets]
      BY DEF FlatInv, PositionsVisible, CompletedIsFlat, Stands, RowsOK
    <2> QED
      BY <1>1, <2>1, OnwardFlat
  <1>2. CASE agent' = Resting
    <2>1. CycleOK'
      BY <1>2 DEF CycleOK, InStep, Resting
    <2>2. RowsOK' /\ PositionsVisible' /\ CompletedIsFlat'
      BY DEF FlatInv, RowsOK, PositionsVisible, CompletedIsFlat, RowsOf, Shown
    <2>3. agent'.vault \notin VaultIds
      BY <1>2, FactoryAssumption DEF Resting, NoVault, VaultIds
    <2> QED
      BY <2>1, <2>2, <2>3 DEF FlatInv
  <1> QED
    BY <1>1, <1>2

\* The process reads: what it has of a vault is what stands in the database.
LEMMA ReadsFlat ==
    ASSUME FleetInv, FlatInv, UNCHANGED <<config, rows, console, held>>, CycleOK',
           agent'.vault \in VaultIds => ReadOK(agent.vault)'
    PROVE  FlatInv'
  <1>1. RowsOK' /\ PositionsVisible' /\ CompletedIsFlat'
    BY DEF FlatInv, RowsOK, PositionsVisible, CompletedIsFlat, RowsOf, Shown
  <1> QED
    BY <1>1 DEF FlatInv

\* The order is read first; the rows are not read yet.
LEMMA ResolveFlat == ASSUME FleetInv, FlatInv, Resolve PROVE FlatInv'
  <1>0. PICK v, t, o : v = Head(agent.left) /\ t = Tail(agent.left) /\ o = config[v].ordered
    OBVIOUS
  <1>1. /\ InStep("next") /\ UNCHANGED <<config, rows, console, held>>
        /\ \/ agent' = [agent EXCEPT !.left = t, !.vault = v, !.step = "markets", !.ordered = o]
           \/ Onward(t)
    BY <1>0 DEF Resolve
  <1>2. CASE Onward(t)
    BY <1>1, <1>2, RestsFlat
  <1>3. CASE agent' = [agent EXCEPT !.left = t, !.vault = v, !.step = "markets", !.ordered = o]
    <2>1. agent = [step |-> agent.step, left |-> agent.left, vault |-> agent.vault,
                   ordered |-> agent.ordered, markets |-> agent.markets]
      BY DEF FlatInv, CycleOK
    <2>2. agent' = [step |-> "markets", left |-> t, vault |-> v, ordered |-> o,
                    markets |-> agent.markets]
      BY <1>3, <2>1
    <2>3. agent.markets = [m \in Markets |-> NoRow]
      BY <1>1 DEF FlatInv, CycleOK, Resting
    <2>4. CycleOK'
      BY <2>2, <2>3 DEF CycleOK, InStep, Resting
    <2>5. ASSUME v \in VaultIds PROVE ReadOK(agent.vault)'
      <3>1. NoRow \in Rows /\ ~ NoRow.enabled /\ ~ NoRow.there
        BY DEF NoRow, Rows
      <3>2. agent'.vault = v /\ agent'.step = "markets" /\ agent'.ordered = o /\ agent'.markets = agent.markets
        BY <2>2
      <3>3. Stands(v)' => o
        BY <1>0, <1>1 DEF Stands
      <3>4. agent.markets \in [Markets -> Rows] /\ \A m \in Markets : ~ agent.markets[m].there /\ ~ agent.markets[m].enabled
        BY <2>3, <3>1
      <3> QED
        BY <3>2, <3>3, <3>4 DEF ReadOK, InStep, Shown
    <2> QED
      BY <1>1, <2>2, <2>4, <2>5, ReadsFlat
  <1> QED
    BY <1>1, <1>2, <1>3

\* The rows are read, all of them, after the order.
LEMMA ReadMarketsFlat == ASSUME FleetInv, FlatInv, ReadMarkets PROVE FlatInv'
  <1>0. PICK v, s : v = agent.vault /\ s = IF RowsOf(v) = {} THEN "seed" ELSE "tick"
    OBVIOUS
  <1>1. /\ InStep("markets") /\ UNCHANGED <<config, rows, console, held>>
        /\ agent' = [agent EXCEPT !.markets = rows[v], !.step = s]
    BY <1>0 DEF ReadMarkets
  <1>2. s \in {"seed", "tick"}
    BY <1>0
  <1>3. agent = [step |-> agent.step, left |-> agent.left, vault |-> agent.vault,
                 ordered |-> agent.ordered, markets |-> agent.markets]
    BY DEF FlatInv, CycleOK
  <1>4. agent' = [step |-> s, left |-> agent.left, vault |-> v, ordered |-> agent.ordered,
                  markets |-> rows[v]]
    BY <1>0, <1>1, <1>3
  <1>5. CycleOK'
    BY <1>2, <1>4 DEF CycleOK, InStep
  <1>6. ASSUME v \in VaultIds PROVE ReadOK(agent.vault)'
    <2>1. /\ rows[v] \in [Markets -> Rows] /\ Shown(rows[v])
          /\ held[v] \subseteq RowsOf(v) /\ held[v] \subseteq Markets
      BY <1>6 DEF FlatInv, RowsOK, PositionsVisible
    <2>2. Stands(v) => agent.ordered
      BY <1>0, <1>1, <1>6 DEF FlatInv, ReadOK, InStep
    <2>3. agent'.vault = v /\ agent'.step = s /\ agent'.markets = rows[v] /\ agent'.ordered = agent.ordered
      BY <1>4
    <2>4. Stands(v)' = Stands(v)
      BY <1>1 DEF Stands
    <2>5. \A m \in held[v] : rows[v][m].there
      BY <2>1 DEF RowsOf
    <2> QED
      BY <1>1, <1>2, <2>1, <2>2, <2>3, <2>4, <2>5 DEF ReadOK, InStep, Shown
  <1> QED
    BY <1>0, <1>1, <1>4, <1>5, <1>6, ReadsFlat

\* The founding row is written and added to what was read.
LEMMA AgentSeedsFlat == ASSUME FleetInv, FlatInv, AgentSeeds PROVE FlatInv'
  <1>0. PICK v, k, f : v = agent.vault /\ k = config[v].market /\ f = Seed(v)
    OBVIOUS
  <1>1. /\ InStep("seed") /\ UNCHANGED <<config, console, held>>
        /\ rows' = [rows EXCEPT ![v] = f]
        /\ agent' = [agent EXCEPT !.markets[k] = f[k], !.step = "tick"]
    BY <1>0 DEF AgentSeeds
  <1>2. agent = [step |-> agent.step, left |-> agent.left, vault |-> agent.vault,
                 ordered |-> agent.ordered, markets |-> agent.markets]
    BY DEF FlatInv, CycleOK
  <1>3. agent' = [step |-> "tick", left |-> agent.left, vault |-> v, ordered |-> agent.ordered,
                  markets |-> [agent.markets EXCEPT ![k] = f[k]]]
    BY <1>0, <1>1, <1>2
  <1>4. CycleOK'
    BY <1>3 DEF CycleOK, InStep
  <1>5. /\ rows' \in [VaultIds -> [Markets -> Rows]] /\ \A u \in VaultIds : Shown(rows'[u])
        /\ \A u \in VaultIds, m \in Markets : rows[u][m].there => rows'[u][m].there
    BY <1>0, <1>1, SeedAppears DEF FlatInv
  <1>6. RowsOK'
    BY <1>1, <1>5 DEF FlatInv, RowsOK, Shown
  <1>7. PositionsVisible'
    BY <1>1, <1>5 DEF FlatInv, PositionsVisible, RowsOf, RowsOK
  <1>8. CompletedIsFlat'
    BY <1>1 DEF FlatInv, CompletedIsFlat
  <1>9. ASSUME v \in VaultIds PROVE ReadOK(agent.vault)'
    <2>1. /\ agent.markets \in [Markets -> Rows] /\ Shown(agent.markets)
          /\ \A m \in Markets : agent.markets[m].there => rows[v][m].there
          /\ \A m \in held[v] : agent.markets[m].there
          /\ Stands(v) => agent.ordered
          /\ held[v] \subseteq Markets
      BY <1>0, <1>1, <1>9 DEF FlatInv, ReadOK, InStep, RowsOK
    <2>2. /\ rows'[v] = f /\ f \in [Markets -> Rows] /\ Shown(f)
          /\ \A m \in Markets : rows[v][m].there => f[m].there
      BY <1>1, <1>5, <1>9 DEF FlatInv, RowsOK
    <2>3. PICK q : q = [agent.markets EXCEPT ![k] = f[k]]
      OBVIOUS
    <2>4. /\ q \in [Markets -> Rows]
          /\ \A m \in Markets : q[m] = agent.markets[m] \/ (m = k /\ q[m] = f[m])
      BY <2>1, <2>2, <2>3
    <2>5. k \in Markets => f[k].there
      <3>1. f = [rows[v] EXCEPT ![k] = IF rows[v][k].there THEN rows[v][k] ELSE Founding]
        BY <1>0 DEF Seed
      <3>2. rows[v] \in [Markets -> Rows] /\ Founding.there
        BY <1>9 DEF FlatInv, RowsOK, Founding
      <3> QED
        BY <3>1, <3>2
    <2>6. Shown(q)
      BY <2>1, <2>2, <2>4 DEF Shown
    <2>7. /\ \A m \in Markets : q[m].there => f[m].there
          /\ \A m \in held[v] : q[m].there
      BY <2>1, <2>2, <2>4, <2>5
    <2>8. agent'.vault = v /\ agent'.step = "tick" /\ agent'.markets = q /\ agent'.ordered = agent.ordered
      BY <1>3, <2>3
    <2>9. Stands(v)' = Stands(v)
      BY <1>1 DEF Stands
    <2> QED
      BY <1>1, <2>1, <2>2, <2>4, <2>6, <2>7, <2>8, <2>9 DEF ReadOK, InStep, Shown
  <1> QED
    BY <1>3, <1>4, <1>6, <1>7, <1>8, <1>9 DEF FlatInv

\* A tick opens only where it read a row, and never under an order that stands.
LEMMA TicksFlat == ASSUME FleetInv, FlatInv, Ticks PROVE FlatInv'
  <1>0. PICK v : v = agent.vault
    OBVIOUS
  <1>1. /\ InStep("tick") /\ held \in [VaultIds -> SUBSET Markets]
        /\ \A u \in VaultIds : held[u] \subseteq RowsOf(u)
        /\ \A u \in VaultIds : Stands(u) => held[u] = {}
    BY DEF Ticks, TickTrades, TickCloses, TickFindsFlat, TickFails, FlatInv, RowsOK,
           PositionsVisible, CompletedIsFlat, Stands
  <1>2. CASE UNCHANGED <<config, rows, console, held>> /\ \E left : Onward(left)
    BY <1>2, RestsFlat
  <1>3. ASSUME UNCHANGED <<config, rows, console>>, Onward(agent.left), NEW s,
               held' = [held EXCEPT ![v] = s],
               v \in VaultIds => s \subseteq RowsOf(v) /\ (Stands(v) => s = {})
        PROVE  FlatInv'
    <2>1. /\ held' \in [VaultIds -> SUBSET Markets]
          /\ \A u \in VaultIds : held'[u] \subseteq RowsOf(u)
          /\ \A u \in VaultIds : Stands(u) => held'[u] = {}
      BY <1>1, <1>3 DEF RowsOf
    <2> QED
      BY <1>3, <2>1, OnwardFlat
  <1>4. CASE TickTrades
    <2>1. ASSUME NEW m \in Markets, TargetOf(agent.markets[m]) > 0, Moved(held[agent.vault] \cup {m})
          PROVE  FlatInv'
      <3>1. held' = [held EXCEPT ![v] = held[v] \cup {m}]
        BY <1>0, <2>1 DEF Moved
      <3>2. agent.markets[m].enabled
        <4>1. CASE ~ agent.markets[m].enabled
          <5>1. TargetOf(agent.markets[m]) = 0
            BY <4>1 DEF TargetOf
          <5> QED
            BY <2>1, <5>1
        <4> QED
          BY <4>1
      <3>3. ASSUME v \in VaultIds PROVE m \in RowsOf(v) /\ ~ Stands(v)
        BY <1>0, <1>1, <1>4, <3>2, <3>3 DEF FlatInv, ReadOK, Shown, InStep, RowsOf, TickTrades
      <3>4. v \in VaultIds => /\ held[v] \cup {m} \subseteq RowsOf(v)
                              /\ Stands(v) => held[v] \cup {m} = {}
        BY <1>1, <3>3
      <3> QED
        BY <1>3, <1>4, <3>1, <3>4 DEF TickTrades
    <2>2. ASSUME NEW m, Moved(held[agent.vault] \ {m}) PROVE FlatInv'
      <3>1. held' = [held EXCEPT ![v] = held[v] \ {m}]
        BY <1>0, <2>2 DEF Moved
      <3>2. v \in VaultIds => /\ held[v] \ {m} \subseteq RowsOf(v)
                              /\ Stands(v) => held[v] \ {m} = {}
        BY <1>1
      <3> QED
        BY <1>3, <1>4, <3>1, <3>2 DEF TickTrades
    <2>3. CASE UNCHANGED held
      BY <1>2, <1>4, <2>3 DEF TickTrades
    <2> QED
      BY <1>4, <2>1, <2>2, <2>3 DEF TickTrades
  <1>5. CASE TickCloses
    <2>1. PICK c : Moved(held[agent.vault] \ c)
      BY <1>5 DEF TickCloses
    <2>2. held' = [held EXCEPT ![v] = held[v] \ c]
      BY <1>0, <2>1 DEF Moved
    <2>3. v \in VaultIds => held[v] \ c \subseteq RowsOf(v) /\ (Stands(v) => held[v] \ c = {})
      BY <1>1
    <2> QED
      BY <1>3, <1>5, <2>2, <2>3 DEF TickCloses
  <1>6. CASE TickFindsFlat
    <2>1. agent = [step |-> agent.step, left |-> agent.left, vault |-> agent.vault,
                   ordered |-> agent.ordered, markets |-> agent.markets]
      BY DEF FlatInv, CycleOK
    <2>2. /\ agent' = [agent EXCEPT !.step = "stamp"] /\ UNCHANGED <<config, rows, console, held>>
          /\ agent.ordered /\ Satisfied
      BY <1>6 DEF TickFindsFlat
    <2>3. agent' = [step |-> "stamp", left |-> agent.left, vault |-> v, ordered |-> agent.ordered,
                    markets |-> agent.markets]
      BY <1>0, <2>1, <2>2
    <2>4. CycleOK'
      BY <2>3 DEF CycleOK, InStep
    <2>5. ASSUME v \in VaultIds PROVE ReadOK(agent.vault)'
      <3>1. /\ agent.markets \in [Markets -> Rows] /\ Shown(agent.markets)
            /\ \A m \in Markets : agent.markets[m].there => rows[v][m].there
            /\ \A m \in held[v] : agent.markets[m].there
        BY <1>0, <1>1, <2>5 DEF FlatInv, ReadOK, InStep
      <3>2. held[v] = {}
        BY <1>0, <2>2, <3>1 DEF Satisfied, Seen
      <3>3. agent'.vault = v /\ agent'.step = "stamp" /\ agent'.markets = agent.markets
        BY <2>3
      <3> QED
        BY <2>2, <3>1, <3>2, <3>3 DEF ReadOK, InStep, Shown
    <2> QED
      BY <2>2, <2>3, <2>4, <2>5, ReadsFlat
  <1>7. CASE TickFails
    BY <1>2, <1>7 DEF TickFails
  <1> QED
    BY <1>4, <1>5, <1>6, <1>7 DEF Ticks

\* The stamp marks a vault that was flat when it was last looked at, and still is.
LEMMA StampFlat == ASSUME FleetInv, FlatInv, Stamp PROVE FlatInv'
  <1>0. PICK v : v = agent.vault
    OBVIOUS
  <1>1. /\ InStep("stamp") /\ UNCHANGED <<rows, console, held>> /\ Onward(agent.left)
        /\ config' = [config EXCEPT ![v].completed = TRUE]
    BY <1>0 DEF Stamp
  <1>2. agent' = [step |-> "next", left |-> agent.left, vault |-> NoVault, ordered |-> FALSE,
                  markets |-> [m \in Markets |-> NoRow]]
    BY <1>1 DEF Onward, Resting
  <1>3. CycleOK'
    BY <1>2 DEF CycleOK, InStep, Resting
  <1>4. RowsOK' /\ PositionsVisible'
    BY <1>1 DEF FlatInv, RowsOK, Shown, PositionsVisible, RowsOf
  <1>5. agent'.vault \notin VaultIds
    BY <1>2, FactoryAssumption DEF NoVault, VaultIds
  <1>6. ASSUME NEW u \in VaultIds, Stands(u)' PROVE held'[u] = {}
    <2>1. CASE u = v
      BY <1>0, <1>1, <1>6, <2>1 DEF FlatInv, ReadOK, InStep
    <2>2. CASE u # v
      <3>1. config'[u] = config[u]
        BY <1>1, <2>2 DEF FleetInv
      <3> QED
        BY <1>1, <1>6, <3>1 DEF FlatInv, CompletedIsFlat, Stands
    <2> QED
      BY <2>1, <2>2
  <1>7. CompletedIsFlat'
    BY <1>6 DEF CompletedIsFlat, Stands
  <1> QED
    BY <1>3, <1>4, <1>5, <1>7 DEF FlatInv

LEMMA FlatNextInv == FleetInv /\ FlatInv /\ [FleetNext]_fleetVars => FlatInv'
  <1> SUFFICES ASSUME FleetInv, FlatInv, [FleetNext]_fleetVars PROVE FlatInv'
    OBVIOUS
  <1>1. CASE UNCHANGED <<config, rows, console, agent, held>>
    BY <1>1 DEF FlatInv, RowsOK, CycleOK, ReadOK, PositionsVisible, CompletedIsFlat, RowsOf,
                Stands, InStep, Shown
  <1>2. CASE Process
    <2>1. CASE ListVaults \/ Sleep \/ StampFails
      BY <2>1, RestsFlat DEF ListVaults, Sleep, StampFails
    <2> QED
      BY <1>2, <2>1, ResolveFlat, ReadMarketsFlat, AgentSeedsFlat, TicksFlat, StampFlat DEF Process
  <1>3. CASE Restart
    BY <1>3, RestsFlat DEF Restart
  <1> QED
    BY <1>1, <1>2, <1>3, OperatorsFlat DEF FleetNext, Chain, fleetVars

THEOREM FleetFlat == FleetSpec => [](FleetInv /\ FlatInv)
  BY FleetInitInv, FlatInitInv, FleetNextInv, FlatNextInv, PTL DEF FleetSpec

(***************************************************************************)
(* "A deleted row is a position the agent can no longer see, value, or     *)
(* sell": however many requests of operators, seeds of the process and     *)
(* ticks over rows read long ago are interleaved, no position is ever left *)
(* in a market without a row.                                              *)
(***************************************************************************)
THEOREM NoPositionUnseen == FleetSpec => []PositionsVisible
  <1>1. FlatInv => PositionsVisible
    BY DEF FlatInv
  <1> QED
    BY <1>1, FleetFlat, PTL

(***************************************************************************)
(* A close order that shows as completed is one the vault is flat under:   *)
(* neither a tick that began before the order nor the stamp of the last    *)
(* one can make the page of an open vault say that it is closed.           *)
(***************************************************************************)
THEOREM CompletionIsTrue == FleetSpec => []CompletedIsFlat
  <1>1. FlatInv => CompletedIsFlat
    BY DEF FlatInv
  <1> QED
    BY <1>1, FleetFlat, PTL

-----------------------------------------------------------------------------
(***************************************************************************)
(* The weights.  A vault that has rows has its founding row, so a seed     *)
(* writes either the first row or nothing; and what a request has read is  *)
(* still what is enabled when it writes, if no other request runs beside   *)
(* it.  Two that do may leave both of their sets enabled.                  *)
(***************************************************************************)
OneConsole == \A a, b \in Consoles : a = b

WeightOf(r) == Total([m \in Markets |-> TargetOf(r[m])])

Founded(v) == config[v].there /\ rows[v][config[v].market].there

\* A request, against the rows of its vault.
RequestOK(r) ==
    r.step # "idle" /\ r.vault \in VaultIds =>
        /\ config[r.vault].there /\ r.wanted \in Proposals /\ Valid(r.wanted)
        /\ r.step # "seed" => Founded(r.vault)
        /\ r.step = "write" => \A m \in Markets : rows[r.vault][m].enabled => m \in r.seen

Resolved ==
    (InStep("markets") \/ InStep("seed")) /\ agent.vault \in VaultIds => config[agent.vault].there

WeightInv ==
    /\ \A v \in VaultIds : RowsOf(v) # {} => Founded(v)
    /\ \A c \in Consoles : RequestOK(console[c])
    /\ Resolved
    /\ WeightsWhole

\* One row with the full weight is a whole.
LEMMA FoundingIsWhole ==
    ASSUME NEW r \in [Markets -> Rows], NEW k \in Markets, r[k] = Founding,
           \A m \in Markets : m # k => ~ r[m].enabled
    PROVE  WeightOf(r) = FULL_WEIGHT
  <1> DEFINE f == [m \in Markets |-> 0]
             g == [m \in Markets |-> TargetOf(r[m])]
  <1>1. FULL_WEIGHT \in Nat /\ IsFiniteSet(Markets)
    BY FleetAssumption
  <1>2. g[k] = FULL_WEIGHT
    BY DEF TargetOf, Founding
  <1>3. \A m \in Markets : m # k => g[m] = 0
    BY DEF TargetOf
  <1>4. f \in [Markets -> Nat] /\ g \in [Markets -> Nat]
    BY <1>1, <1>2, <1>3
  <1>5. Total(f) = 0
    BY TotalZero
  <1>6. g[k] = f[k] + FULL_WEIGHT /\ \A m \in Markets : m # k => g[m] = f[m]
    BY <1>1, <1>2, <1>3
  <1> HIDE DEF f, g
  <1>7. Total(g) = Total(f) + FULL_WEIGHT
    BY <1>1, <1>4, <1>6, TotalGains
  <1> QED
    BY <1>1, <1>5, <1>7 DEF WeightOf, g

\* What an operator typed is what the enabled rows weigh.
LEMMA WrittenIsWhole ==
    ASSUME NEW v \in VaultIds, NEW wanted \in Proposals, Valid(wanted), NEW seen,
           \A m \in Markets : rows[v][m].enabled => m \in seen
    PROVE  WeightOf(Written(v, wanted, seen)) = FULL_WEIGHT
  <1>1. PICK S \in SUBSET Markets : wanted \in [S -> Weights]
    BY DEF Proposals
  <1> DEFINE w == Written(v, wanted, seen)
             g == [m \in Markets |-> TargetOf(w[m])]
  <1>2. ASSUME NEW m \in S PROVE g[m] = wanted[m]
    <2>1. w[m] = [weight |-> wanted[m], enabled |-> TRUE, there |-> TRUE]
      BY <1>1 DEF Written
    <2> QED
      BY <1>1, <2>1 DEF TargetOf
  <1>3. ASSUME NEW m \in Markets, m \notin S PROVE g[m] = 0
    <2>1. w[m] = IF m \in seen THEN [rows[v][m] EXCEPT !.enabled = FALSE] ELSE rows[v][m]
      BY <1>1, <1>3 DEF Written
    <2>2. CASE w[m].enabled
      <3>1. m \in seen => ~ w[m].enabled \/ w[m] = rows[v][m]
        BY <2>1
      <3> QED
        BY <2>1, <2>2, <3>1
    <2> QED
      BY <2>2 DEF TargetOf
  <1>4. DOMAIN g = Markets /\ DOMAIN wanted = S
    BY <1>1
  <1> HIDE DEF g, w
  <1>5. Units(g) = Units(wanted)
    <2>1. ASSUME NEW p, NEW m \in Markets, p \in {m} \X (1 .. g[m])
          PROVE  \E n \in S : p \in {n} \X (1 .. wanted[n])
      <3>1. CASE m \in S
        BY <1>2, <2>1, <3>1
      <3>2. CASE m \notin S
        <4>1. g[m] = 0
          BY <1>3, <3>2
        <4> QED
          BY <2>1, <4>1
      <3> QED
        BY <3>1, <3>2
    <2>2. ASSUME NEW p, NEW n \in S, p \in {n} \X (1 .. wanted[n])
          PROVE  \E m \in Markets : p \in {m} \X (1 .. g[m])
      BY <1>1, <1>2, <2>2
    <2> QED
      BY <1>4, <2>1, <2>2 DEF Units
  <1> QED
    BY <1>5 DEF WeightOf, Valid, Total, g, w

-----------------------------------------------------------------------------
\* Configurations stay where they are and name the same market.
SameMarkets == \A v \in VaultIds : config[v].there =>
                   config'[v].there /\ config'[v].market = config[v].market

\* Whoever writes no row leaves the weights, and what requests know of them.
LEMMA WeightsKept ==
    ASSUME WeightInv, SameMarkets, UNCHANGED <<rows, console>>, Resolved'
    PROVE  WeightInv'
  <1>1. \A v \in VaultIds : Founded(v) => Founded(v)'
    BY DEF SameMarkets, Founded
  <1>2. \A v \in VaultIds : RowsOf(v)' = RowsOf(v)
    BY DEF RowsOf
  <1>3. ASSUME NEW c \in Consoles PROVE RequestOK(console[c])'
    BY <1>1 DEF WeightInv, RequestOK, SameMarkets
  <1>4. WeightsWhole'
    BY <1>2 DEF WeightInv, WeightsWhole
  <1> QED
    BY <1>1, <1>2, <1>3, <1>4 DEF WeightInv

\* The first row of a vault, whoever writes it.
LEMMA FirstRow ==
    ASSUME FlatInv, WeightInv, NEW v \in VaultIds, RowsOf(v) = {}, NEW k \in Markets,
           rows' = [rows EXCEPT ![v][k] = Founding]
    PROVE  /\ RowsOf(v)' = {k} /\ rows'[v][k] = Founding
           /\ WeightOf(rows'[v]) = FULL_WEIGHT
  <1>1. rows[v] \in [Markets -> Rows] /\ Shown(rows[v]) /\ Founding \in Rows
    BY FleetAssumption DEF FlatInv, RowsOK, Founding, Rows
  <1>2. \A m \in Markets : ~ rows[v][m].there /\ ~ rows[v][m].enabled
    BY <1>1 DEF RowsOf, Shown
  <1>3. rows'[v] = [rows[v] EXCEPT ![k] = Founding]
    BY DEF FlatInv, RowsOK
  <1>4. /\ rows'[v] \in [Markets -> Rows] /\ rows'[v][k] = Founding
        /\ \A m \in Markets : m # k => ~ rows'[v][m].enabled /\ ~ rows'[v][m].there
    BY <1>1, <1>2, <1>3
  <1>5. RowsOf(v)' = {k}
    BY <1>4 DEF RowsOf, Founding
  <1> QED
    BY <1>4, <1>5, FoundingIsWhole

\* An upsert of the founding row: the first row, or nothing.
LEMMA SeedIsFirst ==
    ASSUME FleetInv, FlatInv, WeightInv, NEW v, rows' = [rows EXCEPT ![v] = Seed(v)],
           UNCHANGED config, v \in VaultIds => config[v].there
    PROVE  /\ \A u \in VaultIds : RowsOf(u)' # {} => Founded(u)'
           /\ \A u \in VaultIds : Founded(u) => Founded(u)' /\ rows'[u] = rows[u]
           /\ v \in VaultIds => Founded(v)'
           /\ WeightsWhole'
  <1>1. \A u \in VaultIds : u # v => rows'[u] = rows[u]
    BY DEF FlatInv, RowsOK
  <1>2. CASE v \notin VaultIds
    BY <1>1, <1>2 DEF WeightInv, WeightsWhole, Founded, RowsOf
  <1>3. CASE v \in VaultIds
    <2> DEFINE k == config[v].market
    <2>1. k \in Markets
      <3>1. v \in DOMAIN vaults /\ k = vaults[v].market /\ vaults \in Seq(Vaults)
        BY <1>3 DEF FleetInv, TradesOwnBook, FactoryInv, FactoryTypeOK, Vaults
      <3>2. vaults[v] \in Vaults
        BY <3>1
      <3> QED
        BY <3>1, <3>2 DEF Vaults
    <2> HIDE DEF k
    <2>2. rows[v] \in [Markets -> Rows]
      BY <1>3 DEF FlatInv, RowsOK
    <2>3. rows'[v] = [rows[v] EXCEPT ![k] = IF rows[v][k].there THEN rows[v][k] ELSE Founding]
      BY <1>3 DEF Seed, FlatInv, RowsOK, k
    <2>4. CASE rows[v][k].there
      <3>1. rows'[v] = rows[v]
        BY <2>2, <2>3, <2>4
      <3>2. \A u \in VaultIds : rows'[u] = rows[u]
        BY <1>1, <3>1
      <3>3. Founded(v)'
        BY <1>3, <2>4, <3>1 DEF Founded, k
      <3> QED
        BY <3>2, <3>3 DEF WeightInv, WeightsWhole, Founded, RowsOf
    <2>5. CASE ~ rows[v][k].there
      <3>1. RowsOf(v) = {} /\ ~ Founded(v)
        BY <1>3, <2>5 DEF WeightInv, Founded, k
      <3>2. rows' = [rows EXCEPT ![v][k] = Founding]
        BY <2>5 DEF Seed, k
      <3>3. rows'[v][k] = Founding /\ WeightOf(rows'[v]) = FULL_WEIGHT
        BY <1>3, <2>1, <3>1, <3>2, FirstRow
      <3>4. Founded(v)'
        BY <1>3, <3>3 DEF Founded, Founding, k
      <3>5. WeightsWhole'
        BY <1>1, <3>3 DEF WeightInv, WeightsWhole, WeightOf, RowsOf
      <3>6. \A u \in VaultIds : RowsOf(u)' # {} => Founded(u)'
        BY <1>1, <3>4 DEF WeightInv, Founded, RowsOf
      <3> QED
        BY <1>1, <3>1, <3>4, <3>5, <3>6 DEF Founded
    <2> QED
      BY <2>4, <2>5
  <1> QED
    BY <1>2, <1>3

-----------------------------------------------------------------------------
LEMMA RecordVaultWeights ==
    ASSUME FleetInv, FlatInv, WeightInv, NEW v \in DOMAIN vaults, NEW k \in Markets,
           NEW t \in Tiers, RecordVault(v, k, t)
    PROVE  WeightInv'
  <1> DEFINE r == Recorded(NoConfig, k, t)
  <1>1. /\ ~ config[v].there /\ UNCHANGED <<console, agent>>
        /\ config' = [config EXCEPT ![v] = r] /\ rows' = [rows EXCEPT ![v][k] = Founding]
    BY DEF RecordVault
  <1>2. r.there /\ r.market = k
    <2>1. NoConfig \in Configs
      BY DEF NoConfig, Configs
    <2> QED
      BY <2>1, Named
  <1> HIDE DEF r
  <1>3. /\ config \in [VaultIds -> Configs] /\ rows \in [VaultIds -> [Markets -> Rows]]
        /\ \A u \in VaultIds : u # v => config'[u] = config[u] /\ rows'[u] = rows[u]
    BY <1>1 DEF FleetInv, FlatInv, RowsOK
  <1>4. ASSUME v \in VaultIds
        PROVE  /\ Founded(v)' /\ WeightOf(rows'[v]) = FULL_WEIGHT
    <2>1. RowsOf(v) = {}
      BY <1>1, <1>4 DEF WeightInv, Founded
    <2>2. rows'[v][k] = Founding /\ WeightOf(rows'[v]) = FULL_WEIGHT
      BY <1>1, <1>4, <2>1, FirstRow
    <2>3. config'[v] = r
      BY <1>1, <1>3, <1>4
    <2> QED
      BY <1>2, <2>2, <2>3 DEF Founded, Founding
  <1>5. \A u \in VaultIds : config[u].there => config'[u] = config[u] /\ rows'[u] = rows[u]
    BY <1>1, <1>3
  <1>6. ASSUME NEW c \in Consoles PROVE RequestOK(console[c])'
    BY <1>1, <1>5, ZenonT(60) DEF WeightInv, RequestOK, Founded
  <1>7. Resolved'
    BY <1>1, <1>5 DEF WeightInv, Resolved, InStep
  <1>8. \A u \in VaultIds : RowsOf(u)' # {} => Founded(u)'
    BY <1>3, <1>4 DEF WeightInv, Founded, RowsOf
  <1>9. WeightsWhole'
    BY <1>3, <1>4 DEF WeightInv, WeightsWhole, WeightOf, RowsOf
  <1> QED
    BY <1>6, <1>7, <1>8, <1>9 DEF WeightInv

\* Switches, the seeding script and stamps leave a vault its market.
LEMMA ConfigWeights ==
    ASSUME FleetInv, WeightInv, UNCHANGED <<rows, console>>, NEW v, NEW r,
           config' = [config EXCEPT ![v] = r],
           v \in VaultIds /\ config[v].there => r.there /\ r.market = config[v].market,
           UNCHANGED agent \/ agent'.step = "next"
    PROVE  WeightInv'
  <1>1. SameMarkets
    BY DEF SameMarkets, FleetInv
  <1>2. Resolved'
    <2>1. CASE UNCHANGED agent
      BY <1>1, <2>1 DEF WeightInv, Resolved, InStep, SameMarkets
    <2>2. CASE agent'.step = "next"
      BY <2>2 DEF Resolved, InStep
    <2> QED
      BY <2>1, <2>2
  <1> QED
    BY <1>1, <1>2, WeightsKept

\* A request moves on; the others stand idle, for there are none.
LEMMA RequestWeights ==
    ASSUME OneConsole, FlatInv, WeightInv, NEW c \in Consoles, NEW r,
           console' = [console EXCEPT ![c] = r], UNCHANGED <<config, agent>>, RequestOK(r)',
           \A u \in VaultIds : RowsOf(u)' # {} => Founded(u)', WeightsWhole'
    PROVE  WeightInv'
  <1>1. ASSUME NEW d \in Consoles PROVE RequestOK(console[d])'
    <2>1. d = c
      BY DEF OneConsole
    <2>2. console'[d] = r
      BY <2>1 DEF FlatInv, RowsOK
    <2> QED
      BY <2>2 DEF RequestOK, Founded
  <1>2. Resolved'
    BY DEF WeightInv, Resolved, InStep
  <1> QED
    BY <1>1, <1>2 DEF WeightInv

LEMMA ConsoleWeights ==
    ASSUME OneConsole, FleetInv, FlatInv, WeightInv, NEW c \in Consoles,
           (\E v \in Managed, w \in Proposals : StartSetMarkets(c, v, w))
           \/ ConsoleSeeds(c) \/ ConsoleReads(c) \/ ConsoleWrites(c)
    PROVE  WeightInv'
  <1>1. console \in [Consoles -> Requests] /\ RequestOK(console[c])
    BY DEF FlatInv, RowsOK, WeightInv
  <1>2. ASSUME UNCHANGED rows, UNCHANGED config
        PROVE  /\ \A u \in VaultIds : RowsOf(u)' # {} => Founded(u)'
               /\ WeightsWhole'
    BY <1>2 DEF WeightInv, WeightsWhole, RowsOf, Founded
  <1>3. ASSUME NEW v \in Managed, NEW w \in Proposals, StartSetMarkets(c, v, w) PROVE WeightInv'
    <2>0. PICK s : s = IF RowsOf(v) = {} THEN "seed" ELSE "read"
      OBVIOUS
    <2> DEFINE r == [step |-> s, vault |-> v, wanted |-> w, seen |-> {}]
    <2>1. /\ console' = [console EXCEPT ![c] = r] /\ UNCHANGED <<config, rows, agent>>
          /\ config[v].there /\ Valid(w)
      BY <1>3, <2>0 DEF StartSetMarkets
    <2>2. s # "seed" => RowsOf(v) # {}
      BY <2>0
    <2>3. s \in {"seed", "read"}
      BY <2>0
    <2>4. v \in VaultIds /\ s # "seed" => Founded(v)'
      BY <2>1, <2>2 DEF WeightInv, Founded
    <2>5. RequestOK(r)'
      BY <2>1, <2>3, <2>4 DEF RequestOK
    <2> HIDE DEF r
    <2> QED
      BY <1>2, <2>1, <2>5, RequestWeights
  <1>4. CASE ConsoleSeeds(c)
    <2>0. PICK q, v, r : q = console[c] /\ v = q.vault /\ r = [q EXCEPT !.step = "read"]
      OBVIOUS
    <2>1. /\ rows' = [rows EXCEPT ![v] = Seed(v)] /\ console' = [console EXCEPT ![c] = r]
          /\ UNCHANGED <<config, agent>> /\ q.step = "seed"
      BY <1>1, <1>4, <2>0 DEF ConsoleSeeds
    <2>2. v \in VaultIds => config[v].there /\ q.wanted \in Proposals /\ Valid(q.wanted)
      BY <1>1, <2>0, <2>1 DEF RequestOK
    <2>3. r.step = "read" /\ r.vault = v /\ r.wanted = q.wanted
      BY <1>1, <2>0 DEF Requests
    <2>4. /\ \A u \in VaultIds : RowsOf(u)' # {} => Founded(u)'
          /\ v \in VaultIds => Founded(v)'
          /\ WeightsWhole'
      BY <2>1, <2>2, SeedIsFirst
    <2>5. RequestOK(r)'
      BY <2>1, <2>2, <2>3, <2>4 DEF RequestOK
    <2> QED
      BY <2>1, <2>4, <2>5, RequestWeights
  <1>5. CASE ConsoleReads(c)
    <2>0. PICK q, v, x : q = console[c] /\ v = q.vault /\ x = {m \in RowsOf(v) : rows[v][m].enabled}
      OBVIOUS
    <2> DEFINE r == [step |-> "write", vault |-> v, wanted |-> q.wanted, seen |-> x]
    <2>1. /\ console' = [console EXCEPT ![c].step = "write", ![c].seen = x] /\ q.step = "read"
          /\ UNCHANGED <<config, rows, agent>>
      BY <1>1, <1>5, <2>0 DEF ConsoleReads
    <2>2. /\ v \in VaultIds => config[v].there /\ q.wanted \in Proposals /\ Valid(q.wanted)
          /\ v \in VaultIds => Founded(v)
      BY <1>1, <2>0, <2>1 DEF RequestOK
    <2>3. PICK a, w, y : q = [step |-> a, vault |-> v, wanted |-> w, seen |-> y]
      BY <1>1, <2>0 DEF Requests
    <2>4. ASSUME v \in VaultIds, NEW m \in Markets, rows[v][m].enabled PROVE m \in x
      BY <2>0, <2>4 DEF FlatInv, RowsOK, Shown, RowsOf
    <2>5. console' = [console EXCEPT ![c] = r]
      <3>1. console' = [console EXCEPT ![c] = [[q EXCEPT !.step = "write"] EXCEPT !.seen = x]]
        BY <1>1, <2>0, <2>1
      <3>2. [[q EXCEPT !.step = "write"] EXCEPT !.seen = x] = r
        <4>1. [q EXCEPT !.step = "write"] = [step |-> "write", vault |-> v, wanted |-> w, seen |-> y]
          BY <2>3
        <4>2. q.wanted = w
          BY <2>3
        <4>3. PICK p : p = [step |-> "write", vault |-> v, wanted |-> w, seen |-> y]
          OBVIOUS
        <4>4. [p EXCEPT !.seen = x] = [step |-> "write", vault |-> v, wanted |-> w, seen |-> x]
          BY <4>3
        <4>5. r = [step |-> "write", vault |-> v, wanted |-> w, seen |-> x]
          BY <4>2
        <4> HIDE DEF r
        <4> QED
          BY <4>1, <4>3, <4>4, <4>5
      <3> QED
        BY <3>1, <3>2
    <2>6. r.step = "write" /\ r.vault = v /\ r.wanted = q.wanted /\ r.seen = x
      OBVIOUS
    <2>7. RequestOK(r)'
      BY <2>1, <2>2, <2>4 DEF RequestOK, Founded
    <2> HIDE DEF r
    <2> QED
      BY <1>2, <2>1, <2>5, <2>7, RequestWeights
  <1>6. CASE ConsoleWrites(c)
    <2>0. PICK q, v, w : q = console[c] /\ v = q.vault /\ w = Written(v, q.wanted, q.seen)
      OBVIOUS
    <2>1. /\ rows' = [rows EXCEPT ![v] = w] /\ console' = [console EXCEPT ![c] = Quiet]
          /\ UNCHANGED <<config, agent>> /\ q.step = "write"
      BY <1>6, <2>0 DEF ConsoleWrites
    <2>2. RequestOK(Quiet)'
      BY DEF RequestOK, Quiet
    <2>3. rows \in [VaultIds -> [Markets -> Rows]]
      BY DEF FlatInv, RowsOK
    <2>4. ASSUME v \in VaultIds PROVE rows'[v] = w /\ WeightOf(w) = FULL_WEIGHT /\ Founded(v)'
      <3>1. /\ q.wanted \in Proposals /\ Valid(q.wanted) /\ Founded(v)
            /\ \A m \in Markets : rows[v][m].enabled => m \in q.seen
        BY <1>1, <2>0, <2>1, <2>4 DEF RequestOK
      <3>2. rows'[v] = w
        BY <2>1, <2>3, <2>4
      <3>3. WeightOf(w) = FULL_WEIGHT
        BY <2>0, <2>4, <3>1, WrittenIsWhole
      <3>4. RowsOK
        BY DEF FlatInv
      <3>5. \A m \in Markets : rows[v][m].there => w[m].there
        BY <2>0, <2>4, <3>1, <3>4, WrittenAppears
      <3>6. config[v].market \in Markets
        <4>1. v \in DOMAIN vaults /\ config[v].market = vaults[v].market /\ vaults \in Seq(Vaults)
          BY <2>4, <3>1 DEF FleetInv, TradesOwnBook, FactoryInv, FactoryTypeOK, Vaults, Founded
        <4>2. vaults[v] \in Vaults
          BY <4>1
        <4> QED
          BY <4>1, <4>2 DEF Vaults
      <3> QED
        BY <2>1, <3>1, <3>2, <3>3, <3>5, <3>6 DEF Founded
    <2>5. \A u \in VaultIds : u # v => rows'[u] = rows[u]
      BY <2>1, <2>3
    <2>6. \A u \in VaultIds : RowsOf(u)' # {} => Founded(u)'
      BY <2>1, <2>4, <2>5 DEF WeightInv, Founded, RowsOf
    <2>7. WeightsWhole'
      BY <2>4, <2>5 DEF WeightInv, WeightsWhole, WeightOf, RowsOf
    <2> QED
      BY <2>1, <2>2, <2>6, <2>7, RequestWeights
  <1> QED
    BY <1>3, <1>4, <1>5, <1>6

\* The seed of the process: it has read a configuration, and that stays.
LEMMA AgentSeedsWeights == ASSUME FleetInv, FlatInv, WeightInv, AgentSeeds PROVE WeightInv'
  <1>0. PICK v, k, f : v = agent.vault /\ k = config[v].market /\ f = Seed(v)[k]
    OBVIOUS
  <1>1. /\ InStep("seed") /\ UNCHANGED <<config, console>>
        /\ rows' = [rows EXCEPT ![v] = Seed(v)]
        /\ agent' = [agent EXCEPT !.markets[k] = f, !.step = "tick"]
    BY <1>0 DEF AgentSeeds
  <1>2. v \in VaultIds => config[v].there
    BY <1>0, <1>1 DEF WeightInv, Resolved
  <1>3. /\ \A u \in VaultIds : RowsOf(u)' # {} => Founded(u)'
        /\ \A u \in VaultIds : Founded(u) => Founded(u)' /\ rows'[u] = rows[u]
        /\ WeightsWhole'
    BY <1>1, <1>2, SeedIsFirst
  <1>4. ASSUME NEW c \in Consoles PROVE RequestOK(console[c])'
    BY <1>1, <1>3 DEF WeightInv, RequestOK
  <1>5. Resolved'
    <2>1. agent = [step |-> agent.step, left |-> agent.left, vault |-> agent.vault,
                   ordered |-> agent.ordered, markets |-> agent.markets]
      BY DEF FlatInv, CycleOK
    <2>2. agent'.step = "tick"
      BY <1>1, <2>1
    <2> QED
      BY <2>2 DEF Resolved, InStep
  <1> QED
    BY <1>3, <1>4, <1>5 DEF WeightInv

\* The rest of the cycle writes no row.
LEMMA ProcessWeights == ASSUME FleetInv, FlatInv, WeightInv, Process \/ Restart PROVE WeightInv'
  <1>0. agent = [step |-> agent.step, left |-> agent.left, vault |-> agent.vault,
                 ordered |-> agent.ordered, markets |-> agent.markets]
    BY DEF FlatInv, CycleOK
  <1>1. ASSUME UNCHANGED <<config, rows, console>>, Resolved' PROVE WeightInv'
    BY <1>1, WeightsKept DEF SameMarkets
  <1>2. ASSUME UNCHANGED <<config, rows, console>>,
               agent' = Resting \/ (\E left : Onward(left)) \/ agent'.step \in {"tick", "stamp"}
        PROVE  WeightInv'
    <2>1. agent'.step \in {"idle", "next", "tick", "stamp"}
      <3>1. agent' = Resting => agent'.step = "idle"
        BY DEF Resting
      <3>2. ASSUME NEW left, Onward(left) PROVE agent'.step = "next"
        BY <3>2 DEF Onward, Resting
      <3> QED
        BY <1>2, <3>1, <3>2
    <2> QED
      BY <1>1, <1>2, <2>1 DEF Resolved, InStep
  <1>3. CASE Resolve
    <2>0. PICK v, t, o : v = Head(agent.left) /\ t = Tail(agent.left) /\ o = config[v].ordered
      OBVIOUS
    <2>1. CASE Onward(t)
      BY <1>2, <1>3, <2>1 DEF Resolve
    <2>2. CASE ~ Onward(t)
      <3>1. /\ config[v].there /\ UNCHANGED <<config, rows, console>>
            /\ agent' = [agent EXCEPT !.left = t, !.vault = v, !.step = "markets", !.ordered = o]
        BY <1>3, <2>0, <2>2 DEF Resolve
      <3>2. agent' = [step |-> "markets", left |-> t, vault |-> v, ordered |-> o,
                      markets |-> agent.markets]
        BY <1>0, <3>1
      <3>3. Resolved'
        BY <3>1, <3>2 DEF Resolved
      <3> QED
        BY <1>1, <3>1, <3>3
    <2> QED
      BY <2>1, <2>2
  <1>4. CASE ReadMarkets
    <2>1. PICK s, x : s = (IF RowsOf(agent.vault) = {} THEN "seed" ELSE "tick") /\ x = rows[agent.vault]
      OBVIOUS
    <2>2. agent' = [agent EXCEPT !.markets = x, !.step = s]
      BY <1>4, <2>1 DEF ReadMarkets
    <2>3. agent'.vault = agent.vault
      BY <1>0, <2>2
    <2>4. InStep("markets") /\ UNCHANGED <<config, rows, console>>
      BY <1>4 DEF ReadMarkets
    <2>5. Resolved'
      BY <2>3, <2>4 DEF WeightInv, Resolved
    <2> QED
      BY <1>1, <2>4, <2>5
  <1>5. CASE Stamp
    <2>0. PICK v, r : v = agent.vault /\ r = [config[v] EXCEPT !.completed = TRUE]
      OBVIOUS
    <2>1. /\ config' = [config EXCEPT ![v] = r] /\ UNCHANGED <<rows, console>>
          /\ agent'.step = "next"
      BY <1>5, <2>0 DEF Stamp, Onward, Resting
    <2>2. v \in VaultIds => r.there = config[v].there /\ r.market = config[v].market
      BY <2>0, Flags DEF FleetInv
    <2> QED
      BY <2>1, <2>2, ConfigWeights
  <1>6. CASE TickFindsFlat
    <2>1. agent'.step = "stamp" /\ UNCHANGED <<config, rows, console>>
      BY <1>0, <1>6 DEF TickFindsFlat
    <2> QED
      BY <1>2, <2>1
  <1>7. CASE ListVaults \/ Sleep \/ StampFails \/ TickTrades \/ TickCloses \/ TickFails \/ Restart
    BY <1>2, <1>7 DEF ListVaults, Sleep, StampFails, TickTrades, TickCloses, TickFails, Restart
  <1> QED
    BY <1>3, <1>4, <1>5, <1>6, <1>7, AgentSeedsWeights DEF Process, Ticks

LEMMA WeightInitInv == FleetInit => WeightInv
  <1> SUFFICES ASSUME FleetInit PROVE WeightInv
    OBVIOUS
  <1>1. \A v \in VaultIds : RowsOf(v) = {}
    BY DEF FleetInit, RowsOf, NoRow
  <1>2. \A c \in Consoles : RequestOK(console[c])
    BY DEF FleetInit, RequestOK, Quiet
  <1>3. Resolved
    BY DEF FleetInit, Resolved, InStep, Resting
  <1> QED
    BY <1>1, <1>2, <1>3 DEF WeightInv, WeightsWhole

LEMMA WeightNextInv ==
    ASSUME OneConsole PROVE FleetInv /\ FlatInv /\ WeightInv /\ [FleetNext]_fleetVars => WeightInv'
  <1> SUFFICES ASSUME FleetInv, FlatInv, WeightInv, [FleetNext]_fleetVars PROVE WeightInv'
    OBVIOUS
  <1>1. CASE UNCHANGED <<config, rows, console, agent>>
    <2>1. SameMarkets /\ Resolved'
      BY <1>1 DEF SameMarkets, WeightInv, Resolved, InStep
    <2> QED
      BY <1>1, <2>1, WeightsKept
  <1>2. CASE Operators
    <2>1. ASSUME NEW v \in DOMAIN vaults, NEW m \in Markets, NEW t \in Tiers, RecordVault(v, m, t)
          PROVE  WeightInv'
      BY <2>1, RecordVaultWeights
    <2>2. ASSUME NEW v \in DOMAIN vaults, SeedConfig(v) PROVE WeightInv'
      <3> DEFINE m == vaults[v].market
                 t == vaults[v].tier
                 r == Recorded(config[v], m, t)
      <3>1. config' = [config EXCEPT ![v] = r] /\ UNCHANGED <<rows, console, agent>>
        BY <2>2 DEF SeedConfig
      <3>2. m \in Markets /\ t \in Tiers
        <4>1. vaults \in Seq(Vaults)
          BY DEF FleetInv, FactoryInv, FactoryTypeOK, Vaults
        <4>2. vaults[v] \in Vaults
          BY <4>1
        <4> QED
          BY <4>2 DEF Vaults
      <3>3. v \in VaultIds => r.there /\ r.market = m
        <4> HIDE DEF m, t
        <4> QED
          BY <3>2, Named DEF FleetInv
      <3>4. v \in VaultIds /\ config[v].there => r.there /\ r.market = config[v].market
        BY <3>3 DEF FleetInv, TradesOwnBook
      <3> HIDE DEF r
      <3> QED
        BY <3>1, <3>4, ConfigWeights
    <2>3. ASSUME NEW v \in Managed, NEW b \in BOOLEAN, SetAgentEnabled(v, b) PROVE WeightInv'
      <3> DEFINE r == [config[v] EXCEPT !.enabled = b]
      <3>1. config' = [config EXCEPT ![v] = r] /\ UNCHANGED <<rows, console, agent>>
        BY <2>3 DEF SetAgentEnabled
      <3>2. v \in VaultIds => r.there = config[v].there /\ r.market = config[v].market
        BY Flags DEF FleetInv
      <3> HIDE DEF r
      <3> QED
        BY <3>1, <3>2, ConfigWeights
    <2>4. ASSUME NEW v \in Managed, NEW b \in BOOLEAN, SetCloseOrder(v, b) PROVE WeightInv'
      <3> DEFINE o == [config[v] EXCEPT !.ordered = b]
                 r == [o EXCEPT !.completed = FALSE]
      <3>1. config' = [config EXCEPT ![v] = r] /\ UNCHANGED <<rows, console, agent>>
        BY <2>4 DEF SetCloseOrder, Ordered
      <3>2. v \in VaultIds => /\ o \in Configs /\ o.there = config[v].there
                              /\ o.market = config[v].market
        BY Flags DEF FleetInv
      <3> HIDE DEF o
      <3>3. v \in VaultIds => r.there = config[v].there /\ r.market = config[v].market
        BY <3>2, Flags
      <3> HIDE DEF r
      <3> QED
        BY <3>1, <3>3, ConfigWeights
    <2> QED
      BY <1>2, <2>1, <2>2, <2>3, <2>4, ConsoleWeights DEF Operators
  <1> QED
    BY <1>1, <1>2, ProcessWeights DEF FleetNext, Chain, fleetVars

(***************************************************************************)
(* "The enabled rows sum to 10000", for any number of vaults, markets and  *)
(* restarts, and for any weights an operator may type, when operators'     *)
(* requests follow one another: seeds by the process between the steps of  *)
(* a request never add to them.  The hypothesis is needed: setVaultMarkets *)
(* reads what it will disable outside of the transaction that writes.      *)
(***************************************************************************)
THEOREM WeightsAddUp == ASSUME OneConsole PROVE FleetSpec => []WeightsWhole
  <1>1. WeightInv => WeightsWhole
    BY DEF WeightInv
  <1>2. FleetInit => WeightInv
    BY WeightInitInv
  <1>3. FleetInv /\ FlatInv /\ WeightInv /\ [FleetNext]_fleetVars => WeightInv'
    BY WeightNextInv
  <1> QED
    BY <1>1, <1>2, <1>3, FleetFlat, PTL DEF FleetSpec
=============================================================================

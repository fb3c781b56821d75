-------------------------------- MODULE Fleet --------------------------------
(***************************************************************************)
(* From an operator's order to the agent's tick, for every vault of the    *)
(* factory: the operators' console (api services/admin.ts), the venue      *)
(* configuration in the database (db markets.ts), and the one agent        *)
(* process that walks the vaults in turn (agent index.ts).  A tick is      *)
(* abstracted to the markets it leaves a position in; Agent.tla and        *)
(* Venue.tla model what happens inside one.                                *)
(***************************************************************************)
EXTENDS VaultFactory, Sums, Functions, SequencesExt

CONSTANTS Derive,       \* wallet NEAR derives for a market and a tier
          Consoles,     \* operators' requests that may be under way at once
          Weights,      \* target weights an operator may type
          FULL_WEIGHT,  \* FULL_WEIGHT_BPS
          Managed,      \* vaults whose operators change their mind
          MaxRestarts   \* bound on restarts of the agent's process

\* Every market and tier has a wallet of its own.
ASSUME FleetAssumption ==
    /\ Derive \in [Markets \X Tiers -> Wallets]
    /\ IsInjective(Derive)
    /\ IsFiniteSet(Markets) /\ Weights \subseteq Nat /\ FULL_WEIGHT \in Nat /\ MaxRestarts \in Nat

VARIABLES
    config,    \* vaultConfig by vault
    rows,      \* vaultMarket by vault and ticker
    console,   \* what each request has done and read so far
    agent,     \* where the process is in its cycle
    held,      \* markets each vault has a position in
    restarts

fleetVars == <<factoryVars, config, rows, console, agent, held, restarts>>

VaultIds == 1 .. MaxVaults
NoRow    == [weight |-> 0, enabled |-> FALSE, there |-> FALSE]
NoConfig == [there |-> FALSE, market |-> "", tier |-> "", enabled |-> FALSE,
             ordered |-> FALSE, completed |-> FALSE]

\* agentWalletFor: the derivation path is the market and the tier.
WalletOf(market, tier) == Derive[<<market, tier>>]

RowsOf(v)  == {m \in Markets : rows[v][m].there}
TargetOf(r) == IF r.enabled THEN r.weight ELSE 0

Resting == [step |-> "idle", left |-> <<>>, vault |-> NoVault, ordered |-> FALSE,
            markets |-> [m \in Markets |-> NoRow]]
Quiet   == [step |-> "idle", vault |-> NoVault, wanted |-> <<>>, seen |-> {}]

FleetInit ==
    /\ FactoryInit
    /\ config = [v \in VaultIds |-> NoConfig]
    /\ rows = [v \in VaultIds |-> [m \in Markets |-> NoRow]]
    /\ console = [c \in Consoles |-> Quiet]
    /\ agent = Resting
    /\ held = [v \in VaultIds |-> {}]
    /\ restarts = 0

-----------------------------------------------------------------------------
\* The operators.

\* Defect: the vault is believed to be the one the page was about.
MatchesMarket(v, market, tier) == vaults[v].market = market

\* assertVaultMatches
Matches(v, market, tier) ==
    vaults[v].market = market /\ vaults[v].agent = WalletOf(market, tier)

\* The columns both ways of recording a vault write.
Recorded(c, market, tier) ==
    [c EXCEPT !.there = TRUE, !.market = market, !.tier = tier, !.enabled = TRUE]

Founding == [weight |-> FULL_WEIGHT, enabled |-> TRUE, there |-> TRUE]

\* recordVault, after prepareVault has found no configuration with the same path.
RecordVault(v, market, tier) ==
    /\ ~ config[v].there /\ Matches(v, market, tier)
    /\ \A u \in VaultIds : config[u].there => <<config[u].market, config[u].tier>> # <<market, tier>>
    /\ config' = [config EXCEPT ![v] = Recorded(NoConfig, market, tier)]
    /\ rows' = [rows EXCEPT ![v][market] = Founding]
    /\ UNCHANGED <<factoryVars, console, agent, held, restarts>>

(***************************************************************************)
(* scripts/seed-venue-config.ts, run for a vault that was deployed outside *)
(* the dashboard or before vaultMarket was: no rows, and an agent that an  *)
(* operator had stood down is enabled again.                               *)
(***************************************************************************)
SeedConfig(v) ==
    /\ vaults[v].agent = WalletOf(vaults[v].market, vaults[v].tier)
    /\ config' = [config EXCEPT ![v] = Recorded(@, vaults[v].market, vaults[v].tier)]
    /\ UNCHANGED <<factoryVars, rows, console, agent, held, restarts>>

SetAgentEnabled(v, enabled) ==
    /\ config[v].there
    /\ config' = [config EXCEPT ![v].enabled = enabled]
    /\ UNCHANGED <<factoryVars, rows, console, agent, held, restarts>>

\* Defect: a fresh order inherits the completion of the last one.
OrderedAgain(c, closing) == [c EXCEPT !.ordered = closing]

\* setCloseOrder, given or lifted: the completion is cleared either way.
Ordered(c, closing) == [c EXCEPT !.ordered = closing, !.completed = FALSE]

SetCloseOrder(v, closing) ==
    /\ config[v].there
    /\ config' = [config EXCEPT ![v] = Ordered(@, closing)]
    /\ UNCHANGED <<factoryVars, rows, console, agent, held, restarts>>

\* validateWeights
Valid(wanted) ==
    /\ DOMAIN wanted # {}
    /\ \A m \in DOMAIN wanted : wanted[m] > 0
    /\ Total(wanted) = FULL_WEIGHT

Proposals == UNION {[S -> Weights] : S \in SUBSET Markets}

\* setVaultMarkets: checked, then seeded, then read, then written in one transaction.
StartSetMarkets(c, v, wanted) ==
    /\ console[c].step = "idle"
    /\ config[v].there /\ Valid(wanted)
    /\ console' = [console EXCEPT ![c] =
                      [step |-> IF RowsOf(v) = {} THEN "seed" ELSE "read",
                       vault |-> v, wanted |-> wanted, seen |-> {}]]
    /\ UNCHANGED <<factoryVars, config, rows, agent, held, restarts>>

\* Defect: the upsert writes the founding weight over what it finds.
SeedOver(v) == [rows[v] EXCEPT ![config[v].market] = Founding]

\* seedFoundingMarket: an upsert that leaves a row that is there as it is.
Seed(v) ==
    [rows[v] EXCEPT ![config[v].market] = IF @.there THEN @ ELSE Founding]

ConsoleSeeds(c) ==
    /\ console[c].step = "seed"
    /\ rows' = [rows EXCEPT ![console[c].vault] = Seed(console[c].vault)]
    /\ console' = [console EXCEPT ![c].step = "read"]
    /\ UNCHANGED <<factoryVars, config, agent, held, restarts>>

\* The rows to disable are chosen outside the transaction that disables them.
ConsoleReads(c) ==
    /\ console[c].step = "read"
    /\ console' = [console EXCEPT ![c].step = "write",
                                  ![c].seen = {m \in RowsOf(console[c].vault) :
                                                  rows[console[c].vault][m].enabled}]
    /\ UNCHANGED <<factoryVars, config, rows, agent, held, restarts>>

\* Defect: a market that is not wanted any more loses its row.
WrittenDeletes(v, wanted, seen) ==
    [m \in Markets |->
        IF m \in DOMAIN wanted
        THEN [weight |-> wanted[m], enabled |-> TRUE, there |-> TRUE]
        ELSE IF m \in seen THEN NoRow ELSE rows[v][m]]

\* Removal is disabling: the weight stays in the row.
Written(v, wanted, seen) ==
    [m \in Markets |->
        IF m \in DOMAIN wanted
        THEN [weight |-> wanted[m], enabled |-> TRUE, there |-> TRUE]
        ELSE IF m \in seen THEN [rows[v][m] EXCEPT !.enabled = FALSE] ELSE rows[v][m]]

ConsoleWrites(c) ==
    LET r == console[c]
    IN  /\ r.step = "write"
        /\ rows' = [rows EXCEPT ![r.vault] = Written(r.vault, r.wanted, r.seen)]
        /\ console' = [console EXCEPT ![c] = Quiet]
        /\ UNCHANGED <<factoryVars, config, agent, held, restarts>>

-----------------------------------------------------------------------------
\* The agent's process: one cycle over the list, one vault after the other.

InStep(s) == agent.step = s

\* What was read for one vault is gone when the next one's turn comes.
Onward(left) == agent' = [Resting EXCEPT !.step = "next", !.left = left]

Runs(v) == v \in DOMAIN vaults /\ config[v].there /\ config[v].enabled

\* listVaults, and what runVault leaves out: the vaults stood down or never recorded.
ListVaults ==
    /\ InStep("idle")
    /\ Onward(SelectSeq([v \in DOMAIN vaults |-> v], Runs))
    /\ UNCHANGED <<factoryVars, config, rows, console, held, restarts>>

Sleep ==
    /\ InStep("next") /\ agent.left = <<>>
    /\ agent' = Resting
    /\ UNCHANGED <<factoryVars, config, rows, console, held, restarts>>

\* agentWalletFor, where a wallet that does not match throws, and the first read of resolveVenue.
Resolve ==
    /\ InStep("next") /\ agent.left # <<>>
    /\ LET v == Head(agent.left)
           signs == WalletOf(config[v].market, config[v].tier) = vaults[v].agent
       IN  IF config[v].there /\ signs
           THEN agent' = [agent EXCEPT !.left = Tail(@), !.vault = v, !.step = "markets",
                                       !.ordered = config[v].ordered]
           ELSE Onward(Tail(agent.left))
    /\ UNCHANGED <<factoryVars, config, rows, console, held, restarts>>

\* vaultMarkets, which seeds when it reads no row.
ReadMarkets ==
    /\ InStep("markets")
    /\ agent' = [agent EXCEPT !.markets = rows[agent.vault],
                              !.step = IF RowsOf(agent.vault) = {} THEN "seed" ELSE "tick"]
    /\ UNCHANGED <<factoryVars, config, rows, console, held, restarts>>

AgentSeeds ==
    /\ InStep("seed")
    /\ rows' = [rows EXCEPT ![agent.vault] = Seed(agent.vault)]
    /\ agent' = [agent EXCEPT !.markets[config[agent.vault].market] =
                                  Seed(agent.vault)[config[agent.vault].market],
                              !.step = "tick"]
    /\ UNCHANGED <<factoryVars, config, console, held, restarts>>

Moved(markets) == held' = [held EXCEPT ![agent.vault] = markets]

\* What the tick can see of the position.
Seen == {m \in held[agent.vault] : agent.markets[m].there}

\* Without an order a tick opens in a market that has a target, reduces, or holds.
TickTrades ==
    /\ InStep("tick") /\ ~ agent.ordered
    /\ \/ \E m \in Markets : TargetOf(agent.markets[m]) > 0 /\ Moved(held[agent.vault] \cup {m})
       \/ \E m \in Seen : Moved(held[agent.vault] \ {m})
       \/ UNCHANGED held
    /\ Onward(agent.left)
    /\ UNCHANGED <<factoryVars, config, rows, console, restarts>>

\* CLOSE_ALL goes on past the markets that fail.
TickCloses ==
    /\ InStep("tick") /\ agent.ordered
    /\ \E closed \in SUBSET Seen : closed # {} /\ Moved(held[agent.vault] \ closed)
    /\ Onward(agent.left)
    /\ UNCHANGED <<factoryVars, config, rows, console, restarts>>

\* closeSatisfied, of what the tick observed before it acted.
Satisfied == Seen = {}

TickFindsFlat ==
    /\ InStep("tick") /\ agent.ordered /\ Satisfied
    /\ agent' = [agent EXCEPT !.step = "stamp"]
    /\ UNCHANGED <<factoryVars, config, rows, console, held, restarts>>

\* Defect: the error of one vault's tick ends the cycle.
CycleEnds == <<>>

\* runVault's error is caught per vault, so the cycle goes on.
AfterFailure == agent.left

\* The tick throws or reports its error: here it has moved nothing.
TickFails ==
    /\ InStep("tick")
    /\ Onward(AfterFailure)
    /\ UNCHANGED <<factoryVars, config, rows, console, held, restarts>>

\* recordCloseSatisfied: the row of the vault, whatever order stands by now.
Stamp ==
    /\ InStep("stamp")
    /\ config' = [config EXCEPT ![agent.vault].completed = TRUE]
    /\ Onward(agent.left)
    /\ UNCHANGED <<factoryVars, rows, console, held, restarts>>

\* The database refuses; the next tick finds the vault flat again.
StampFails ==
    /\ InStep("stamp")
    /\ Onward(agent.left)
    /\ UNCHANGED <<factoryVars, config, rows, console, held, restarts>>

Restart ==
    /\ restarts < MaxRestarts /\ ~ InStep("idle")
    /\ restarts' = restarts + 1 /\ agent' = Resting
    /\ UNCHANGED <<factoryVars, config, rows, console, held>>

-----------------------------------------------------------------------------
Chain == FactoryNext /\ UNCHANGED <<config, rows, console, agent, held, restarts>>

Operators ==
    \/ \E v \in DOMAIN vaults, m \in Markets, t \in Tiers : RecordVault(v, m, t)
    \/ \E v \in DOMAIN vaults : SeedConfig(v)
    \/ \E v \in Managed, b \in BOOLEAN : SetAgentEnabled(v, b)
    \/ \E v \in Managed, b \in BOOLEAN : SetCloseOrder(v, b)
    \/ \E c \in Consoles, v \in Managed, w \in Proposals : StartSetMarkets(c, v, w)
    \/ \E c \in Consoles : ConsoleSeeds(c) \/ ConsoleReads(c) \/ ConsoleWrites(c)

Ticks == TickTrades \/ TickCloses \/ TickFindsFlat \/ TickFails

Process == ListVaults \/ Sleep \/ Resolve \/ ReadMarkets \/ AgentSeeds \/ Ticks \/ Stamp \/ StampFails

FleetNext == Chain \/ Operators \/ Process \/ Restart

\* The process runs on.  Nothing is assumed of what its ticks come to.
FleetFairness == WF_fleetVars(Process)

FleetSpec == FleetInit /\ [][FleetNext]_fleetVars /\ FleetFairness

-----------------------------------------------------------------------------
(***************************************************************************)
(* assertVaultMatches: whatever the operator's page believes after an      *)
(* interrupted creation, the agent never signs for a vault with the wallet *)
(* of another, or trades one market's configuration with another's capital.*)
(***************************************************************************)
TradesOwnBook ==
    \A v \in VaultIds : config[v].there =>
        /\ v \in DOMAIN vaults
        /\ config[v].market = vaults[v].market
        /\ WalletOf(config[v].market, config[v].tier) = vaults[v].agent

(***************************************************************************)
(* schema, VaultMarket.targetWeightBps: "The enabled rows sum to 10000",   *)
(* also while ticks and the console seed the founding row between another's*)
(* steps.                                                                  *)
(***************************************************************************)
WeightsWhole ==
    \A v \in VaultIds :
        RowsOf(v) # {} => Total([m \in Markets |-> TargetOf(rows[v][m])]) = FULL_WEIGHT

(***************************************************************************)
(* setVaultMarkets: "a deleted row is a position the agent can no longer   *)
(* see, value, or sell": whatever operators write while ticks of older     *)
(* rows are under way, each market with a position has a row.              *)
(***************************************************************************)
PositionsVisible == \A v \in VaultIds : held[v] \subseteq RowsOf(v)

(***************************************************************************)
(* setCloseOrder: "A vault re-opened and closed again should not report    *)
(* itself already satisfied from last time": whenever an order stands and  *)
(* is marked completed the vault is flat, though ticks that began before   *)
(* the order are still trading and stamps of the last order still arrive.  *)
(***************************************************************************)
CompletedIsFlat ==
    \A v \in VaultIds : config[v].ordered /\ config[v].completed => held[v] = {}

\* A vault that keeps failing starves no other: each that stays enabled keeps being ticked.
EveryVaultTicked ==
    \A v \in VaultIds : <>[]Runs(v) => []<>(InStep("tick") /\ agent.vault = v)
=============================================================================

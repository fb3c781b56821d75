------------------------------- MODULE Agent --------------------------------
(***************************************************************************)
(* One vault and its agent: apps/agent/src/worker.ts around the policy and *)
(* the venue adapter, with cooldown.ts, the calls of vault.ts and what the *)
(* contract answers them.  A tick reads and reports, decides, executes,    *)
(* and pays the queue; between ticks, and while a call is under way, users *)
(* deposit and ask to redeem, the market moves the margin, an operator     *)
(* orders a close, a crossing lands, the process dies.  A tick is the unit *)
(* of time.  Fees, windows and the epoch bound are LemonVault's.           *)
(***************************************************************************)
EXTENDS Venue

CONSTANTS
    Users, Stake,            \* holders and the shares they start with
    Requests, Deposits,      \* share amounts of requests, USDC amounts of deposits
    Shocks,                  \* what the market may add to or take from the margin
    FundingRate,             \* funding the short side earns, in 1/PERCENT an hour
    Delay, UrgentAge,        \* ticks until a request is ripe, and until it is urgent
    ReportAge, StaleAge,     \* ticks until a report is due, and until the NAV is stale
    MaxDeviation,            \* maxNavDeviationBps
    WindowCap,               \* agentWithdrawWindowCap of a window no longer than a tick
    COOLDOWN_BASE, COOLDOWN_MAX,
    TargetLeverage, MaxLeverage, MaxDeployed, MARGIN_BUFFER_BPS, MIN_TOP_UP_USDC,
    MIN_UNWIND_USDC, UNWIND_BUFFER_BPS, CLOSE_DUST_USDC, REBALANCE_DRIFT_BPS,
    BASE_TX_GAS_USDC, BRIDGE_CROSSING_USDC, ACTION_PAYOFF_MULTIPLE, MAX_BREAKEVEN_HOURS,
    PERCENT, TAKER,
    Advised,                 \* whether an advisor may pick, as choices
    Outages,                 \* sets of faults that may last for ever
    Chances                  \* bound on faulty ticks, deposits, shocks and orders together

P == INSTANCE Policy WITH Order <- MarketOrder

ASSUME AgentAssumption ==
    /\ P!PolicyAssumption
    /\ IsFiniteSet(Users) /\ Stake \in [Users -> Nat]
    /\ Requests \subseteq Nat \ {0} /\ Deposits \subseteq Nat \ {0} /\ Shocks \subseteq Int
    /\ {Delay, UrgentAge, ReportAge, StaleAge, MaxDeviation, WindowCap, COOLDOWN_MAX,
        Chances} \subseteq Nat
    /\ FundingRate \in Int /\ Leverage = P!SizingLeverageBps
    /\ 0 < Delay /\ Delay < UrgentAge /\ 0 < ReportAge /\ ReportAge < StaleAge
    /\ COOLDOWN_BASE \in Nat \ {0, 1} /\ Advised \subseteq BOOLEAN /\ Outages \subseteq SUBSET AllFaults

VARIABLES
    deployed,  \* deployedAssets, as the contract has it
    supply,    \* share supply
    shares,    \* shares of each user outside of the queue
    queue,     \* the pending bucket of each user: shares, and its age
    navAge,    \* ticks since the last report, up to staleness
    cool,      \* the backoff of each action: its last wait, and what is left of it
    tick,      \* where the tick is, its decision, the ripe entries it read
    order,     \* whether a close order stands
    advised,   \* whether an advisor picks among the options
    outage,    \* faults that every tick meets
    chances    \* what the bound leaves to the environment

agentVars == <<deployed, supply, shares, queue, navAge, cool, tick, order, advised, outage,
               chances>>
allVars   == <<vars, agentVars>>

NoRequest == [shares |-> 0, age |-> 0]
Ready2Go  == [wait |-> 0, left |-> 0]
Asleep    == [step |-> "sleep", decision |-> P!Hold, ripe |-> <<>>]

\* cooldownKey: per action and per market.
Keys == {<<kind, "none">> : kind \in {"TOP_UP_MARGIN", "UNWIND", "CLOSE_ALL"}}
        \cup {"DEPLOY", "REBALANCE"} \X Markets

AgentInit ==
    /\ Init /\ faults = {}
    /\ deployed = 0 /\ navAge = 0 /\ order = FALSE
    /\ shares = Stake /\ supply = P!TotalOf(Stake, Users)
    /\ queue = [u \in Users |-> NoRequest]
    /\ cool = [k \in Keys |-> Ready2Go]
    /\ tick = Asleep
    \* one source of trouble at a time: the advisor, an outage, or chances
    /\ advised \in Advised /\ outage \in (IF advised THEN {{}} ELSE Outages)
    /\ chances = IF outage = {} /\ ~advised THEN Chances ELSE 0

-----------------------------------------------------------------------------
\* What the contract knows and answers.

TotalAssets == cash.vault + deployed
NavIsStale  == navAge >= StaleAge

\* OpenZeppelin's conversions, with one virtual share.
ToAssets(n)      == (n * (TotalAssets + 1)) \div (supply + 1)
ToShares(amount) == (amount * (supply + 1)) \div (TotalAssets + 1)

\* agentWithdraw.
MayWithdraw(amount) ==
    /\ ~NavIsStale
    /\ amount > 0 /\ amount <= cash.vault
    /\ deployed + amount <= (TotalAssets * MaxDeployed) \div BPS
    /\ amount <= WindowCap

\* reportNav believes a value near the one it holds.
Believed(new) ==
    IF deployed = 0 THEN new = 0
    ELSE P!Distance(new, deployed) <= (deployed * MaxDeviation) \div BPS

\* fulfillRedeem.
MayFulfill(u, n) ==
    /\ ~NavIsStale
    /\ n <= queue[u].shares /\ queue[u].age >= Delay
    /\ ToAssets(n) <= cash.vault

-----------------------------------------------------------------------------
\* What the tick sees.

\* The valuation: every place outside of the vault, and the spot at its price.
Valuation == cash.base + cash.solana + cash.margin + cash.outbound + cash.homebound + Sigma(spot)
Exposure  == P!LeverageBps(Sigma(perp), cash.margin)

Waiting       == [u \in Users |-> queue[u].shares]
Queued(users) == P!TotalOf(Waiting, users)
Ripe          == {u \in Users : queue[u].shares > 0 /\ queue[u].age >= Delay}

\* toQueueEntry: at the default price, a USDC a share.
EntryAssets(n) == n

\* VaultClient.read; emergency exit, pauses and the tier stay as they are.
ContractView ==
    [freeAssets |-> cash.vault, totalAssets |-> TotalAssets, deployedAssets |-> deployed]

\* "What is left of this window's withdrawal allowance": the room under the cap
\* on what is deployed, whatever the window still allows.
WithdrawWindowRemaining == P!Above((TotalAssets * MaxDeployed) \div BPS, deployed)

\* One market of an observation, its spot at the quote of a sale.
MarketView(m) ==
    [targetWeight |-> Weight[m], spotValue |-> spot[m], spotUnits |-> spot[m],
     perpUnits |-> perp[m], spotBuyable |-> TRUE, spotSellable |-> TRUE,
     mark |-> 1, lot |-> Lot, minOrder |-> MinOrder, spotGas |-> 0, impact |-> 0,
     funding |-> FundingRate]

Observation ==
    [idleOnBase |-> cash.base, unallocatedMargin |-> Unallocated(cash.margin, perp),
     perpNotional |-> Sigma(perp), perpEquity |-> cash.margin, withdrawalFee |-> 0,
     markets |-> [m \in Markets |-> MarketView(m)]]

\* The queue as the indexer lists it, ripe and waiting.
QueueView ==
    [ripe |-> EntryAssets(Queued(Ripe)), pending |-> EntryAssets(Queued(Users \ Ripe)),
     urgent |-> \E u \in Ripe : queue[u].age >= UrgentAge]

Snapshot ==
    LET vault == ContractView
        book  == Observation
        owed  == QueueView
    IN  [freeAssets |-> vault.freeAssets, totalAssets |-> vault.totalAssets,
         deployedAssets |-> vault.deployedAssets,
         idleOnBase |-> book.idleOnBase, unallocatedMargin |-> book.unallocatedMargin,
         perpNotional |-> book.perpNotional, perpEquity |-> book.perpEquity,
         withdrawalFee |-> book.withdrawalFee, markets |-> book.markets,
         ripe |-> owed.ripe, pending |-> owed.pending, urgent |-> owed.urgent,
         withdrawWindowRemaining |-> WithdrawWindowRemaining, closeRequested |-> order]

\* Oldest first.
RipeEntries ==
    LET listed   == SetToSeq(Users)
        place(u) == CHOOSE i \in DOMAIN listed : listed[i] = u
        turns    == P!Ordered(Ripe, LAMBDA u, v :
                        \/ queue[u].age > queue[v].age
                        \/ queue[u].age = queue[v].age /\ place(u) < place(v))
    IN  [i \in DOMAIN turns |-> [who |-> turns[i], shares |-> queue[turns[i]].shares]]

-----------------------------------------------------------------------------
\* The tick.

InTick(step)  == tick.step = step
Then(step)    == tick' = [tick EXCEPT !.step = step]
Sleeps        == tick' = Asleep
money         == <<cash, spot, perp, call>>
contract      == <<deployed, supply, shares, queue>>
world         == <<order, advised, outage, chances>>

\* Defect: a failure buys no silence.
BackoffNone(entry) == [wait |-> COOLDOWN_BASE, left |-> 0]

\* Defect: the silence doubles for ever.
BackoffUncapped(entry) ==
    LET wait == IF entry.wait = 0 THEN COOLDOWN_BASE ELSE 2 * entry.wait
    IN  [wait |-> wait, left |-> wait]

\* createCooldown.failed: doubling from the base, capped.
Backoff(entry) ==
    LET wait == Least(COOLDOWN_MAX, IF entry.wait = 0 THEN COOLDOWN_BASE ELSE 2 * entry.wait)
    IN  [wait |-> wait, left |-> wait]

Failed(key)    == cool' = [cool EXCEPT ![key] = Backoff(@)]
Succeeded(key) == cool' = [cool EXCEPT ![key] = Ready2Go]

\* A tick passes; it may be one in which something goes wrong.
Wake ==
    /\ InTick("sleep")
    /\ \/ outage # {} /\ faults' = outage /\ UNCHANGED chances
       \/ outage = {} /\ faults' = {} /\ UNCHANGED chances
       \/ /\ outage = {} /\ chances > 0 /\ chances' = chances - 1
          /\ \E f \in FaultSets : f # {} /\ faults' = f
    /\ navAge' = Least(navAge + 1, StaleAge)
    /\ queue' = [u \in Users |-> IF queue[u].shares = 0 THEN NoRequest
                                 ELSE [queue[u] EXCEPT !.age = Least(@ + 1, UrgentAge)]]
    /\ cool' = [k \in Keys |-> [cool[k] EXCEPT !.left = P!Above(@, 1)]]
    /\ Then("observe")
    /\ unseen' = FALSE /\ doubled' = FALSE
    /\ UNCHANGED <<money, calls, deployed, supply, shares, order, advised, outage>>

\* isDormant: nothing to run for nobody, but the NAV is kept for the first deposit.
Dormant == TotalAssets = 0 /\ supply = 0

Idles ==
    /\ InTick("observe") /\ Dormant
    /\ navAge' = IF navAge >= ReportAge THEN 0 ELSE navAge
    /\ Sleeps
    /\ UNCHANGED <<vars, contract, cool, world>>

\* The book cannot be priced: no report, no action, nobody is paid.
ObserveFails ==
    /\ InTick("observe") /\ ~Dormant /\ Fault("observe")
    /\ Sleeps
    /\ UNCHANGED <<vars, contract, navAge, cool, world>>

ReportDue == navAge >= ReportAge

Reports ==
    /\ InTick("observe") /\ ~Dormant
    /\ ReportDue /\ Exposure <= MaxLeverage /\ Believed(Valuation)
    /\ deployed' = Valuation /\ navAge' = 0
    /\ Then("act")
    /\ UNCHANGED <<vars, supply, shares, queue, cool, world>>

\* Defect: the mandate's rejection ends the tick like any other.
CurableNone == FALSE

\* Defect: whatever the policy would correct is not reported.
CurableAboveTarget == Exposure > P!ActAt

\* OutsideMandate is a rejection that the agent can cure, so the tick goes on.
Curable == Exposure > MaxLeverage

ReportSkipped ==
    /\ InTick("observe") /\ ~Dormant
    /\ ~ReportDue \/ Curable
    /\ Then("act")
    /\ UNCHANGED <<vars, contract, navAge, cool, world>>

\* A number the contract disputes is not traded on.
ReportDisputed ==
    /\ InTick("observe") /\ ~Dormant
    /\ ReportDue /\ ~(Exposure <= MaxLeverage /\ Believed(Valuation)) /\ ~Curable
    /\ Sleeps
    /\ UNCHANGED <<vars, contract, navAge, cool, world>>

Decided  == P!Decisions(Snapshot, advised)
KeyOf(d) == <<d.kind, d.market>>
Sits(d)  == d.kind = "HOLD" \/ cool[KeyOf(d)].left > 0    \* or a cooldown keeps it
ToSettle == tick' = [tick EXCEPT !.step = "settle", !.decision = P!Hold]

\* The snapshot and the choice: what is executed later, and who is paid after it.
Decides ==
    /\ InTick("act")
    /\ LET ripe == RipeEntries
       IN  \E d \in Decided :
              tick' = IF Sits(d) THEN [step |-> "settle", decision |-> P!Hold, ripe |-> ripe]
                      ELSE [step |-> "execute", decision |-> d, ripe |-> ripe]
    /\ UNCHANGED <<vars, contract, navAge, cool, world>>

Chosen       == tick.decision
FromVault(d) == d.fundedFrom = "VAULT"

\* What the policy asks of the contract, and the contract refuses.
WithdrawReverts ==
    /\ InTick("execute")
    /\ FromVault(Chosen) /\ ~MayWithdraw(Chosen.amount)
    /\ Failed(KeyOf(Chosen)) /\ Sleeps
    /\ UNCHANGED <<vars, contract, navAge, world>>

Calls(d) ==
    \/ /\ d.kind \in {"DEPLOY", "TOP_UP_MARGIN"}
       /\ Fund(IF FromVault(d) THEN "vault" ELSE "base", d.amount)
       /\ IF d.kind = "DEPLOY" THEN Deploy(d.market, d.spotNotional, d.perpMargin)
          ELSE TopUpMargin(d.amount)
    \/ d.kind = "UNWIND" /\ Unwind(d.amount, Markets) /\ UNCHANGED cash
    \/ d.kind = "CLOSE_ALL" /\ CloseAll /\ UNCHANGED cash

Executes ==
    /\ InTick("execute")
    /\ FromVault(Chosen) => MayWithdraw(Chosen.amount)
    /\ Calls(Chosen) /\ Then("call")
    /\ deployed' = IF FromVault(Chosen) THEN deployed + Chosen.amount ELSE deployed
    /\ UNCHANGED <<spot, perp, history, supply, shares, queue, navAge, cool, world>>

\* One order at one venue, placed or refused.
Rebalances ==
    /\ InTick("execute") /\ Chosen.kind = "REBALANCE"
    /\ \/ Trade(Chosen.market) /\ Succeeded(KeyOf(Chosen)) /\ ToSettle
       \/ /\ Fault("venue") \/ ~Accepted(Chosen.market)
          /\ UNCHANGED perp /\ Failed(KeyOf(Chosen)) /\ Sleeps
    /\ UNCHANGED <<cash, spot, call, history, contract, navAge, world>>

\* How a step of the call leaves the tick: under way, done or failed.
Leads(done) ==
    \/ call'.step # "idle" /\ UNCHANGED <<tick, cool>>
    \/ call'.step = "idle" /\ done /\ Succeeded(KeyOf(Chosen)) /\ ToSettle
    \/ call'.step = "idle" /\ ~done /\ Failed(KeyOf(Chosen)) /\ Sleeps

Ending   == Cross \/ Buy \/ ReturnAll
Partial  == call.op = "closeAll" /\ call.failures > 0
Stepping == Size \/ Short \/ CloseNaked \/ CloseMarket \/ Reduce \/ Sell \/ Repatriate
Failing  == CrossFails \/ SizeFails \/ ShortRefused \/ BuyFails \/ BuyUnread
            \/ CloseReadFails \/ ReduceFails \/ SellFails \/ RepatriateFails \/ ReturnFails

Adapter ==
    /\ InTick("call")
    /\ \/ Ending /\ Leads(~Partial)
       \/ (Stepping \/ Failing) /\ Leads(FALSE)
    /\ deployed' = P!Above(deployed, P!Above(cash'.vault, cash.vault))
    /\ UNCHANGED <<supply, shares, queue, navAge, world>>

\* The process dies in the call; its backoffs die with it.
Dies ==
    /\ InTick("call") /\ Crash
    /\ cool' = [k \in Keys |-> Ready2Go] /\ Sleeps
    /\ UNCHANGED <<contract, navAge, world>>

\* settleQueue: one entry, in full or by what is free, against a fresh read.
Payable(entry) ==
    LET asked == EntryAssets(entry.shares)
    IN  IF asked <= cash.vault THEN entry.shares ELSE (entry.shares * cash.vault) \div asked

Settles ==
    /\ InTick("settle") /\ tick.ripe # <<>> /\ cash.vault > 0
    /\ LET entry == Head(tick.ripe)
           n     == Payable(entry)
       IN  IF n > 0 /\ MayFulfill(entry.who, n)
           THEN /\ cash' = [cash EXCEPT !.vault = @ - ToAssets(n)]
                /\ queue' = [queue EXCEPT ![entry.who].shares = @ - n]
                /\ supply' = supply - n
           ELSE UNCHANGED <<cash, queue, supply>>
    /\ tick' = [tick EXCEPT !.ripe = Tail(@)]
    /\ UNCHANGED <<spot, perp, call, history, deployed, shares, navAge, cool, world>>

TickEnds ==
    /\ InTick("settle") /\ (tick.ripe = <<>> \/ cash.vault = 0)
    /\ Sleeps
    /\ UNCHANGED <<vars, contract, navAge, cool, world>>

-----------------------------------------------------------------------------
\* The environment, never within the reads of a tick.

Between == tick.step \in {"sleep", "execute", "call", "settle"}

Request ==
    /\ Between
    /\ \E u \in Users, n \in Requests :
          /\ n <= shares[u]
          /\ shares' = [shares EXCEPT ![u] = @ - n]
          /\ queue' = [queue EXCEPT ![u] = [shares |-> @.shares + n, age |-> 0]]
    /\ UNCHANGED <<vars, deployed, supply, navAge, cool, tick, world>>

Chance == Between /\ chances > 0 /\ chances' = chances - 1

Deposit ==
    /\ Chance /\ ~NavIsStale
    /\ \E u \in Users, a \in Deposits :
          /\ cash' = [cash EXCEPT !.vault = @ + a]
          /\ shares' = [shares EXCEPT ![u] = @ + ToShares(a)]
          /\ supply' = supply + ToShares(a)
    /\ UNCHANGED <<spot, perp, call, history, deployed, queue, navAge, cool, tick,
                   order, advised, outage>>

MarketMoves ==
    /\ Chance /\ Sigma(perp) > 0
    /\ \E d \in Shocks : cash.margin + d > 0 /\ cash' = [cash EXCEPT !.margin = @ + d]
    /\ UNCHANGED <<spot, perp, call, history, contract, navAge, cool, tick,
                   order, advised, outage>>

Orders ==
    /\ Chance /\ order' = ~order
    /\ UNCHANGED <<vars, contract, navAge, cool, tick, advised, outage>>

Landing == Lands /\ Between /\ UNCHANGED agentVars

-----------------------------------------------------------------------------
Proceeding  == Wake \/ Idles \/ ObserveFails \/ Reports \/ ReportSkipped \/ ReportDisputed
               \/ WithdrawReverts \/ Executes \/ Rebalances \/ Adapter \/ Dies \/ Settles \/ TickEnds
Environment == Request \/ Deposit \/ MarketMoves \/ Orders

AgentNext == Proceeding \/ Decides \/ Environment \/ Landing

\* The loop goes on: whatever sleeps wakes and every tick ends, as each of its
\* steps is bounded (a tick that could not go on would be a deadlock, which the
\* run looks for).  And a crossing lands, though not within the reads of a tick.
Fairness == WF_allVars(Wake) /\ []<>InTick("sleep") /\ SF_allVars(Landing)

AgentSpec == AgentInit /\ [][AgentNext]_allVars /\ Fairness

-----------------------------------------------------------------------------
(***************************************************************************)
(* The books agree at every step: no balance goes below zero whatever the  *)
(* order of payments, fills and deaths, every share is with a holder or in *)
(* the queue, no backoff outgrows its cap, and the tick is inside a call   *)
(* exactly as long as the adapter is.                                      *)
(***************************************************************************)
AgentTypeOK ==
    /\ TypeOK
    /\ deployed \in Nat /\ supply \in Nat /\ shares \in [Users -> Nat]
    /\ queue \in [Users -> [shares : Nat, age : 0 .. UrgentAge]]
    /\ navAge \in 0 .. StaleAge
    /\ cool \in [Keys -> [wait : 0 .. COOLDOWN_MAX, left : 0 .. COOLDOWN_MAX]]
    /\ tick.step \in {"sleep", "observe", "act", "execute", "call", "settle"}
    /\ tick.step = "call" <=> call # Idle
    /\ supply = P!TotalOf(shares, Users) + Queued(Users)

-----------------------------------------------------------------------------
\* What the code itself lets stand in the way.  The queue is priced at a USDC a
\* share: once shares are worth more, what is raised and paid falls short.
Appreciated == TotalAssets > supply

\* The contract does not believe the valuation, and an operator has to step in.
Disputed == ~Believed(Valuation)

\* What is missing is not worth an unwind, or the spot that can be sold is not.
Shortfall  == P!Above(Queued(Ripe), cash.vault)
Unsellable == Least(P!WithBuffer(Shortfall), Least(deployed, Sigma(spot))) < MIN_UNWIND_USDC

\* Nothing fails for ever.
Lucky == outage = {}

(***************************************************************************)
(* A ripe request is paid, whatever the advisor prefers to do and however  *)
(* the calls in between fail: once urgent, the redemption is the only      *)
(* option, its backoff runs out, and what the unwind brings home is paid   *)
(* out by that tick or a later one (policy.ts 557-594, worker.ts 770-806). *)
(***************************************************************************)
RipeIsServed ==
    \A u \in Users :
        Lucky /\ u \in Ripe
            ~> queue[u].shares = 0 \/ Appreciated \/ Disputed \/ (Shortfall > 0 /\ Unsellable)

(***************************************************************************)
(* Growth never takes what the queue is owed: whatever was decided on an   *)
(* older snapshot, a withdrawal for a deployment or a top-up leaves what   *)
(* every request the snapshot could have seen is worth (policy.ts          *)
(* 1264-1275).                                                             *)
(***************************************************************************)
OwedIsNotDeployed ==
    [][InTick("execute") /\ cash'.vault < cash.vault /\ ~Appreciated
          => cash'.vault >= ToAssets(Queued({u \in Users : queue[u].age > 0}))]_allVars

(***************************************************************************)
(* A venue that is down for ever does not hold back what is already free:  *)
(* the failing action ends its ticks before they pay, but its backoff      *)
(* leaves ticks in between that reach the queue (worker.ts 515-545,        *)
(* 606-633, cooldown.ts 85-97).                                            *)
(***************************************************************************)
CoveredIsPaid ==
    \A u \in Users :
        u \in Ripe /\ Queued(Ripe) <= cash.vault
            ~> queue[u].shares = 0 \/ Appreciated \/ Disputed \/ Queued(Ripe) > cash.vault

Breached == Exposure > MaxLeverage

(***************************************************************************)
(* A market that moves against the vault leaves it outside of its mandate  *)
(* only for a while: the contract rejects the report, and the tick goes on *)
(* to top up the margin or to unwind (worker.ts 374-430, policy.ts         *)
(* 638-665).                                                               *)
(***************************************************************************)
BreachIsCured == Lucky /\ Breached ~> ~Breached

Drifted(m) == P!Drift(spot[m], perp[m]) >= REBALANCE_DRIFT_BPS

(***************************************************************************)
(* A hedge that half an action left too large or too small is brought back *)
(* to its spot leg, if an order of that size can be placed (policy.ts      *)
(* 667-711).  An advisor may put it off for ever.                          *)
(***************************************************************************)
HedgeRestored ==
    \A m \in Markets :
        Lucky /\ ~advised /\ Drifted(m) ~> ~Drifted(m) \/ Disputed \/ ~Tradeable(m)

Closed == spot = NoPlan /\ perp = NoPlan /\ deployed <= CLOSE_DUST_USDC

(***************************************************************************)
(* An order to close that is not lifted ends with a flat vault that stays  *)
(* flat: closeAll is retried until every market and every balance is home, *)
(* and what users deposit afterwards is not deployed (policy.ts 523-555).  *)
(***************************************************************************)
CloseCompletes == <>[](Lucky /\ order) => <>[](Disputed \/ Closed)

(***************************************************************************)
(* README.md 77-78: under a close order the agent "keeps ticking -- it     *)
(* reports NAV, it fulfils redemptions".                                   *)
(***************************************************************************)
CloseKeepsReporting == <>[]order => []<>~NavIsStale

(***************************************************************************)
(* A NAV that went stale while the book could not be read or was outside   *)
(* of its mandate is reported again: staleness stops withdrawals, never    *)
(* the unwind that the next report waits for (worker.ts 298-323, 374-430). *)
(***************************************************************************)
NavRecovers == Lucky /\ NavIsStale ~> ~NavIsStale \/ Disputed
=============================================================================

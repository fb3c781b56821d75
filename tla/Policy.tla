------------------------------- MODULE Policy -------------------------------
(***************************************************************************)
(* apps/agent/src/policy.ts with economics.ts and the leverage of          *)
(* valuation.ts: what the agent may do next, from a snapshot of the vault  *)
(* and of its markets, and how much.  A snapshot s is a record with the    *)
(* source's field names; s.markets maps each market to a MarketSnapshot.   *)
(* Every amount is computed here; the advisory model only picks an option. *)
(***************************************************************************)
EXTENDS Integers, Sequences, FiniteSets, SequencesExt, FiniteSetsExt

CONSTANTS Order,            \* config.markets
          BPS, PERCENT,     \* units of a basis point and of percentOf
          TargetLeverage, MaxLeverage,
          MaxDeployed,      \* limits.maxDeployedBps
          MARGIN_BUFFER_BPS, MIN_TOP_UP_USDC, MIN_DEPLOY_USDC, MIN_UNWIND_USDC,
          UNWIND_BUFFER_BPS, CLOSE_DUST_USDC, REBALANCE_DRIFT_BPS,
          BASE_TX_GAS_USDC, BRIDGE_CROSSING_USDC, ACTION_PAYOFF_MULTIPLE,
          MAX_BREAKEVEN_HOURS,
          TAKER             \* VENUE_FEES of both venues together, in 1/PERCENT

Markets == Range(Order)

\* What a configuration satisfies; Agent assumes it of its own.
PolicyAssumption ==
    /\ Order # <<>> /\ IsInjective(Order)
    /\ {BPS, PERCENT, TargetLeverage, MaxLeverage, MaxDeployed, MIN_UNWIND_USDC} \subseteq Nat \ {0}
    /\ {MIN_TOP_UP_USDC, MIN_DEPLOY_USDC, UNWIND_BUFFER_BPS, CLOSE_DUST_USDC,
        REBALANCE_DRIFT_BPS, BASE_TX_GAS_USDC, BRIDGE_CROSSING_USDC,
        ACTION_PAYOFF_MULTIPLE, MAX_BREAKEVEN_HOURS, TAKER} \subseteq Nat
    /\ MARGIN_BUFFER_BPS \in 1 .. BPS - 1
    /\ (MaxLeverage * (BPS - MARGIN_BUFFER_BPS)) \div BPS > 0

Least(a, b) == IF a < b THEN a ELSE b
Most(a, b)  == IF a > b THEN a ELSE b
Above(a, b) == IF a > b THEN a - b ELSE 0      \* what a has over b
Distance(a, b) == IF a > b THEN a - b ELSE b - a
TotalOf(f, set) == MapThenSumSet(LAMBDA m : f[m], set)

\* The members of a set, each behind as many as come before it.
Ordered(set, before(_, _)) ==
    [i \in 1 .. Cardinality(set) |->
        CHOOSE x \in set : Cardinality({y \in set : before(y, x)}) = i - 1]

\* The first of a sequence that will do, as a sequence of at most one.
FirstOf(options, good(_)) ==
    LET found == {i \in DOMAIN options : good(options[i])}
    IN  IF found = {} THEN <<>> ELSE <<options[Min(found)]>>

-----------------------------------------------------------------------------
\* valuation.ts

Unbounded == 1000000000         \* Number.MAX_SAFE_INTEGER

LeverageBps(notional, equity) ==
    IF notional = 0 THEN BPS
    ELSE IF equity <= 0 THEN Unbounded
    ELSE (notional * BPS) \div equity

-----------------------------------------------------------------------------
\* economics.ts: what an action costs, the part that does not shrink with it
\* (gas, crossing, withdrawal fee), and when it is earned back.

PercentOf(amount, percent) == IF amount <= 0 THEN 0 ELSE (amount * percent) \div PERCENT

Shape(kind) == CASE kind = "deploy" -> [baseTxs |-> 5, withdrawals |-> 0]
                 [] kind = "unwind" -> [baseTxs |-> 4, withdrawals |-> 1]

FixedCost(kind, frictions) ==
    BASE_TX_GAS_USDC * Shape(kind).baseTxs + frictions.spotGas
    + BRIDGE_CROSSING_USDC + frictions.withdrawalFee * Shape(kind).withdrawals

TotalCost(kind, notional, frictions) ==
    FixedCost(kind, frictions) + PercentOf(notional, TAKER + frictions.impact)

EconomicFloor(kind, frictions) == FixedCost(kind, frictions) * Most(1, ACTION_PAYOFF_MULTIPLE)

\* breakevenHours, against its ceiling; funding that pays nothing never does.
PaysBack(cost, notional, funding) ==
    LET perHour == PercentOf(notional, funding)
    IN  funding > 0 /\ perHour > 0 /\ cost <= MAX_BREAKEVEN_HOURS * perHour

-----------------------------------------------------------------------------
\* Sizing.

\* sizingLeverageBps: the target, unless that leaves the hedge no room to drift.
SizingLeverageBps == Least(TargetLeverage, (MaxLeverage * (BPS - MARGIN_BUFFER_BPS)) \div BPS)

RequiredMargin(s) == (s.perpNotional * BPS) \div SizingLeverageBps
BufferMargin(s)   == Above(RequiredMargin(s), s.perpNotional)

\* Margin the venue calls free, less the buffer the vault keeps on top.
SpareMargin(s) == Above(s.unallocatedMargin, BufferMargin(s))

SplitDeployment(total) ==
    LET spot == (total * SizingLeverageBps) \div (SizingLeverageBps + BPS)
    IN  [spotNotional |-> spot, perpMargin |-> total - spot]

\* The total that buys a spot notional, rounded up.
DeploymentFor(spotNotional) ==
    (spotNotional * (SizingLeverageBps + BPS) + SizingLeverageBps - 1) \div SizingLeverageBps

\* Defect: only what is already ripe is spoken for.
CommittedRipe(s) == s.ripe

Committed(s) == s.ripe + s.pending

DeployableAmount(s) ==
    Least(Least(Above((s.totalAssets * MaxDeployed) \div BPS, s.deployedAssets),
                Above(s.freeAssets, Committed(s))),
          s.withdrawWindowRemaining)

\* The agent's own idle USDC, unless the queue may need it.
ResumableAmount(s) == IF s.freeAssets < Committed(s) THEN 0 ELSE s.idleOnBase

SpotValues(s)    == [m \in Markets |-> s.markets[m].spotValue]
Sellable(s)      == {m \in Markets : s.markets[m].spotSellable}
SellableValue(s) == TotalOf(SpotValues(s), Sellable(s))

IsFlat(s) ==
    /\ \A m \in Markets : s.markets[m].spotUnits = 0 /\ s.markets[m].perpUnits = 0
    /\ s.deployedAssets <= CLOSE_DUST_USDC

\* |driftBps|: the difference of the legs in units, against the spot leg.
Drift(spotUnits, perpUnits) ==
    IF spotUnits = 0
    THEN IF perpUnits = 0 THEN 0 ELSE BPS
    ELSE (Distance(spotUnits, perpUnits) * BPS) \div spotUnits

-----------------------------------------------------------------------------
\* Decisions.

Decision == [kind |-> "HOLD", amount |-> 0, market |-> "none", forced |-> FALSE,
             fundedFrom |-> "none", spotNotional |-> 0, perpMargin |-> 0]

Hold         == Decision
ForcedHold   == [Decision EXCEPT !.forced = TRUE]
CloseAll     == [Decision EXCEPT !.kind = "CLOSE_ALL", !.forced = TRUE]
Unwind(amount, forced) ==
    [Decision EXCEPT !.kind = "UNWIND", !.amount = amount, !.forced = forced]

\* A decision or none of it: sequences of at most one.
Offer(condition, d) == IF condition THEN <<d>> ELSE <<>>

\* The worst market that can be sold prices every unwind.
UnwindFrictions(s) ==
    LET worst(field) == Max({0} \cup {s.markets[m][field] : m \in Sellable(s)})
    IN  [impact |-> worst("impact"), spotGas |-> worst("spotGas"),
         withdrawalFee |-> s.withdrawalFee]

WithBuffer(amount) == amount + (amount * UNWIND_BUFFER_BPS) \div BPS

Reachable(s) == Least(s.deployedAssets, SellableValue(s))

\* Defect: no redemption is urgent.
RedemptionUnforced(s) ==
    LET shortfall == Above(s.ripe, s.freeAssets)
        amount    == Least(WithBuffer(shortfall), Reachable(s))
    IN  Offer(shortfall > 0 /\ amount >= MIN_UNWIND_USDC, Unwind(amount, FALSE))

\* Close enough to its deadline, a redemption leaves no other choice.
RedemptionUnwind(s) ==
    LET shortfall == Above(s.ripe, s.freeAssets)
        amount    == Least(WithBuffer(shortfall), Reachable(s))
    IN  Offer(shortfall > 0 /\ amount >= MIN_UNWIND_USDC, Unwind(amount, s.urgent))

Retired(s) == {m \in Sellable(s) : s.markets[m].targetWeight = 0 /\ s.markets[m].spotValue > 0}

RetiredUnwind(s) ==
    LET amount == TotalOf(SpotValues(s), Retired(s))
    IN  Offer(/\ Retired(s) # {}
              /\ amount >= EconomicFloor("unwind", UnwindFrictions(s)),
              Unwind(amount, FALSE))

-----------------------------------------------------------------------------
\* The mandate.

Observed(s) == LeverageBps(s.perpNotional, s.perpEquity)
ActAt       == SizingLeverageBps + (MaxLeverage - SizingLeverageBps) \div 2
Breached(s) == Observed(s) > MaxLeverage

\* A breach outranks the queue's claim on the agent's own idle USDC.
TopUpSources(s) ==
    <<[fundedFrom |-> "AGENT",
       available |-> IF Breached(s) THEN s.idleOnBase ELSE ResumableAmount(s)],
      [fundedFrom |-> "VAULT", available |-> DeployableAmount(s)]>>

\* The first source that covers the whole shortfall; a part of it cures nothing.
MarginTopUp(s) ==
    LET shortfall == RequiredMargin(s) - s.perpEquity
        enough    == FirstOf(TopUpSources(s), LAMBDA x : x.available >= shortfall)
    IN  IF shortfall <= 0 \/ enough = <<>> THEN <<>>
        ELSE <<[Decision EXCEPT
                  !.kind = "TOP_UP_MARGIN", !.forced = Breached(s),
                  !.fundedFrom = enough[1].fundedFrom,
                  !.amount = Least(enough[1].available, Most(shortfall, MIN_TOP_UP_USDC))]>>

\* The notional that the equity cannot carry at the sizing leverage.
Excess(s) == Above(s.perpNotional, (Most(0, s.perpEquity) * SizingLeverageBps) \div BPS)

\* Rounded up to what one trip is worth; a position that is not worth one stays.
Deleverage(s) ==
    LET floor  == EconomicFloor("unwind", UnwindFrictions(s))
        amount == Least(Most(WithBuffer(Excess(s)), floor), SellableValue(s))
    IN  IF Excess(s) = 0 \/ amount < MIN_UNWIND_USDC THEN <<>>
        ELSE IF amount < floor THEN <<ForcedHold>> ELSE <<Unwind(amount, TRUE)>>

MandateCorrection(s) ==
    IF s.perpNotional <= 0 \/ Observed(s) <= ActAt THEN <<>>
    ELSE IF MarginTopUp(s) # <<>> THEN MarginTopUp(s)
    ELSE IF Breached(s) THEN Deleverage(s) ELSE <<>>

-----------------------------------------------------------------------------
\* Hedge health.

RebalanceIsPlaceable(m) ==
    LET units == Distance(m.spotUnits, m.perpUnits)
    IN  units > 0 /\ (m.lot > 0 => units >= m.lot) /\ m.mark > 0 /\ units * m.mark >= m.minOrder

\* Defect: only a short that is too small is a drift.
DriftOfLong(s, m) == Drift(s.markets[m].spotUnits,
                           Least(s.markets[m].perpUnits, s.markets[m].spotUnits))

DriftOf(s, m) == Drift(s.markets[m].spotUnits, s.markets[m].perpUnits)

\* Largest first by one key, then by another; equals keep the configured order.
Ranked(markets, first, second) ==
    LET place(m) == CHOOSE i \in DOMAIN Order : Order[i] = m
    IN  Ordered(markets, LAMBDA a, b :
            \/ first[a] > first[b]
            \/ first[a] = first[b] /\ second[a] > second[b]
            \/ first[a] = first[b] /\ second[a] = second[b] /\ place(a) < place(b))

Rebalances(s) ==
    LET drifted == {m \in Markets : /\ DriftOf(s, m) >= REBALANCE_DRIFT_BPS
                                    /\ RebalanceIsPlaceable(s.markets[m])}
        drift   == [m \in Markets |-> DriftOf(s, m)]
        worst   == Ranked(drifted, drift, drift)
    IN  [i \in DOMAIN worst |-> [Decision EXCEPT !.kind = "REBALANCE", !.market = worst[i]]]

-----------------------------------------------------------------------------
\* Growth.

\* The most committed capital first: margin at the venue, the agent's, the vault's.
DeploymentSources(s) ==
    LET idle     == ResumableAmount(s)
        carriable == (SpareMargin(s) * SizingLeverageBps) \div BPS
    IN  Offer(idle > 0 /\ SpareMargin(s) > 0,
              [fundedFrom |-> "AGENT",
               legs |-> [spotNotional |-> Least(idle, carriable), perpMargin |-> 0]])
        \o Offer(idle > 0, [fundedFrom |-> "AGENT", legs |-> SplitDeployment(idle)])
        \o Offer(DeployableAmount(s) > 0,
                 [fundedFrom |-> "VAULT", legs |-> SplitDeployment(DeployableAmount(s))])

\* How far a market is below its share of the spot notional to come.
Room(s, m, incoming) ==
    Above(((TotalOf(SpotValues(s), Markets) + incoming) * s.markets[m].targetWeight) \div BPS,
          s.markets[m].spotValue)

DeploymentFrom(s, source) ==
    LET incoming == source.legs.spotNotional
        spend(m) == Least(Room(s, m, incoming), incoming)
        cost(m)  == TotalCost("deploy", spend(m), [impact |-> s.markets[m].impact,
                                                   spotGas |-> s.markets[m].spotGas,
                                                   withdrawalFee |-> 0])
        fit      == {m \in Markets : /\ s.markets[m].spotBuyable /\ s.markets[m].targetWeight > 0
                                     /\ spend(m) > 0 /\ spend(m) >= MIN_DEPLOY_USDC
                                     /\ PaysBack(cost(m), spend(m), s.markets[m].funding)}
        neediest == Ranked(fit, [m \in Markets |-> Room(s, m, incoming)],
                                [m \in Markets |-> s.markets[m].targetWeight])
        legs     == IF source.legs.perpMargin = 0
                    THEN [spotNotional |-> spend(neediest[1]), perpMargin |-> 0]
                    ELSE SplitDeployment(DeploymentFor(spend(neediest[1])))
    IN  IF incoming <= 0 \/ fit = {} THEN <<>>
        ELSE <<[Decision EXCEPT !.kind = "DEPLOY", !.market = neediest[1],
                                !.amount = legs.spotNotional + legs.perpMargin,
                                !.fundedFrom = source.fundedFrom,
                                !.spotNotional = legs.spotNotional,
                                !.perpMargin = legs.perpMargin]>>

\* The first source that can fund one.
NextDeployment(s) ==
    LET from == [i \in DOMAIN DeploymentSources(s) |-> DeploymentFrom(s, DeploymentSources(s)[i])]
        able == FirstOf(from, LAMBDA d : d # <<>>)
    IN  IF able = <<>> THEN <<>> ELSE able[1]

-----------------------------------------------------------------------------
\* permittedActions and decide.

Kinds(options) == {options[i].kind : i \in DOMAIN options}

\* A correction that is forced, and is more than an explanation, stands alone.
Outranks(correction) ==
    correction # <<>> /\ correction[1].forced /\ correction[1].kind # "HOLD"

\* Defect: a flat vault is no longer bound by the order that flattened it.
CloseOrderOnce(s) == Offer(s.closeRequested /\ ~IsFlat(s), CloseAll)

\* An operator's order to close leaves nothing else, before and after it is done.
CloseOrder(s) == Offer(s.closeRequested, IF IsFlat(s) THEN ForcedHold ELSE CloseAll)

PermittedActions(s) ==
    LET owed       == RedemptionUnwind(s)
        drained    == IF owed = <<>> THEN RetiredUnwind(s) ELSE owed
        correction == MandateCorrection(s)
        open       == drained \o correction \o Rebalances(s) \o NextDeployment(s)
    IN  IF CloseOrder(s) # <<>> THEN CloseOrder(s)
        ELSE IF owed # <<>> /\ owed[1].forced THEN owed
        ELSE IF Outranks(correction) THEN correction
        ELSE open \o Offer("HOLD" \notin Kinds(open), Hold)

\* An advisor picks one of the options, whatever it is shown.
Advice(options) == Range(options)

\* What may be chosen: the first option, or the advisor's; it is not asked about
\* an option that is forced.
Decisions(s, advised) ==
    LET options == PermittedActions(s)
    IN  IF ~advised \/ options[1].forced THEN {options[1]} ELSE Advice(options)
=============================================================================

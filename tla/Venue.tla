------------------------------- MODULE Venue --------------------------------
(***************************************************************************)
(* apps/agent/src/venue.ts: the adapter that turns the vault's USDC into   *)
(* hedged positions and back.  A position in a market is a spot balance on *)
(* Base and a short on Pacifica; no operation on the two is atomic, so a   *)
(* call is a sequence of steps, each of which may fail and leave the       *)
(* earlier ones done.  Every market trades at one USDC a unit; what a swap *)
(* or a crossing loses on the way is a choice.                             *)
(***************************************************************************)
EXTENDS Integers, Sequences, FiniteSets, SequencesExt, FiniteSetsExt, Folds

CONSTANTS MarketOrder,   \* config.markets
          Weight,        \* targetWeightBps of each market
          BPS,
          Leverage,      \* the sizing leverage, in 1/BPS
          Funding,       \* USDC in the vault
          Notionals,     \* spot notionals the policy may ask for
          UnwindAmounts, \* amounts the policy may ask to raise
          Losses,        \* what a crossing may cost
          Slips,         \* what a swap may give less than its quote
          Lot,           \* the venue's quantity grid
          MinOrder,      \* minOrderNotionalUsd, what an order must be worth
          MIN_DEPLOY_USDC, MIN_UNWIND_LEG_USDC,
          MaxCalls,      \* bound on the calls of a behaviour
          Ops,           \* operations the run exercises
          FaultSets      \* choices of what may go wrong, see AllFaults

AllFaults == {"observe",    \* the book cannot be read or priced
              "bridge",     \* a crossing fails, before, during or after the flight
              "venue",      \* a read or a route fails, or an order is refused
              "swap",       \* a swap reverts
              "return",     \* agentReturn fails
              "lostReply",  \* an order or a swap goes through and its answer is lost
              "closeNaked", \* the order that would flatten a naked short fails
              "read",       \* a balance cannot be read; where that is swallowed, it is 0
              "crash"}

Markets == Range(MarketOrder)

ASSUME VenueAssumption ==
    /\ MarketOrder \in Seq(Markets) /\ IsInjective(MarketOrder) /\ MarketOrder # <<>>
    /\ Weight \in [Markets -> Nat] /\ BPS \in Nat \ {0} /\ Leverage \in Nat \ {0}
    /\ Notionals \subseteq Nat /\ UnwindAmounts \subseteq Nat /\ Losses \subseteq Nat
    /\ Slips \subseteq Nat /\ Slips # {} /\ IsFiniteSet(Slips)
    /\ MIN_DEPLOY_USDC \in Nat /\ MIN_UNWIND_LEG_USDC \in Nat
    /\ Lot \in Nat \ {0} /\ MinOrder \in Nat /\ Funding \in Nat /\ MaxCalls \in Nat
    /\ FaultSets \subseteq SUBSET AllFaults

VARIABLES
    cash,      \* USDC by place
    spot,      \* spot tokens in the agent's Base wallet
    perp,      \* size of the short at the venue
    call,      \* the call the adapter is inside
    calls,     \* number of calls made
    unseen,    \* a leg moved money and no row of it was handed over
    doubled,   \* more rows were handed over than legs moved money
    faults     \* what may go wrong

vars == <<cash, spot, perp, call, calls, unseen, doubled, faults>>

\* outbound and homebound are crossings whose end was not seen.
Places == {"vault", "base", "solana", "margin", "outbound", "homebound"}
NoPlan == [m \in Markets |-> 0]
Idle   == [op |-> "none", step |-> "idle", at |-> 1, notional |-> 0, asked |-> 0,
           backing |-> 0, units |-> 0, plan |-> NoPlan, raised |-> 0,
           rows |-> 0, legs |-> 0, failures |-> 0]

CallOps     == {"none", "deploy", "topUpMargin", "unwind", "closeAll"}
DeploySteps == {"cross", "size", "short", "buy", "naked"}
CloseSteps  == {"close", "reduce", "sell", "repatriate", "return"}

CallStates == [op : CallOps, step : {"idle"} \cup DeploySteps \cup CloseSteps, at : Nat \ {0},
               notional : Nat, asked : Nat, backing : Nat, units : Nat,
               plan : [Markets -> Nat], raised : Nat, rows : Nat, legs : Nat, failures : Nat]

TypeOK ==
    /\ cash \in [Places -> Nat]
    /\ spot \in [Markets -> Nat] /\ perp \in [Markets -> Nat]
    /\ calls \in 0 .. MaxCalls /\ unseen \in BOOLEAN /\ doubled \in BOOLEAN
    /\ faults \subseteq AllFaults
    /\ call \in CallStates

Init ==
    /\ cash = [p \in Places |-> IF p = "vault" THEN Funding ELSE 0]
    /\ spot = NoPlan /\ perp = NoPlan
    /\ call = Idle /\ calls = 0 /\ unseen = FALSE /\ doubled = FALSE
    /\ faults \in FaultSets

-----------------------------------------------------------------------------
\* Arithmetic of the venue and of the mandate.

Least(a, b)   == IF a < b THEN a ELSE b
Most(a, b)    == IF a > b THEN a ELSE b
CeilDiv(a, b) == (a + b - 1) \div b
Sigma(f)      == MapThenSumSet(LAMBDA m : f[m], Markets)

\* The ceiling the account is configured at: the leverage, rounded up.
VenueLeverage == Most(1, CeilDiv(Leverage, BPS))

\* Pacifica's own figure: equity it does not hold against a position.
Unallocated(margin, shorts) == Most(0, margin - CeilDiv(Sigma(shorts), VenueLeverage))

SnapToLot(units) == (units \div Lot) * Lot

\* perpMarginFor: the margin the policy posts behind a notional.
MarginFor(notional) == (notional * BPS) \div Leverage

\* Defect: the margin an unwind leaves behind is the venue's requirement alone.
RetainNothing(shorts) == 0

\* retainedMargin: what the mandate wants behind the shorts above their notional.
Retained(shorts) == Most(0, (Sigma(shorts) * BPS) \div Leverage - Sigma(shorts))

-----------------------------------------------------------------------------
\* allocateUnwind, over the value of every market and the ones that can be sold.

\* Defect: every market is weighed the same.
OverEven(value, m) == value[m] - Sigma(value) \div Cardinality(Markets)

Over(value, m) == value[m] - (Sigma(value) * Weight[m]) \div BPS

Place(m) == CHOOSE i \in DOMAIN MarketOrder : MarketOrder[i] = m

\* Largest first; equals keep the order of the configuration.
Precedes(size, a, b) ==
    \/ size[a] > size[b]
    \/ size[a] = size[b] /\ Place(a) < Place(b)

Hindmost(size, markets) == CHOOSE m \in markets : \A o \in markets \ {m} : Precedes(size, o, m)

\* What one pass takes, market by market, each at most its limit.
Pass(size, markets, limit, floor, sofar, amount) ==
    MapThenFoldSet(LAMBDA m, taken :
                       LET take == Least(amount - Sigma(taken), limit[m])
                       IN  IF take < floor THEN taken ELSE [taken EXCEPT ![m] = @ + take],
                   sofar, LAMBDA m : m, LAMBDA s : Hindmost(size, s), markets)

OverweightLimit(value, m) == Least(Over(value, m), value[m])

AllocateUnwind(value, sellable, amount) ==
    LET over   == [m \in Markets |-> Over(value, m)]
        limit  == [m \in Markets |-> OverweightLimit(value, m)]
        heavy  == {m \in sellable : over[m] > 0}
        first  == Pass(over, heavy, limit, MIN_UNWIND_LEG_USDC, NoPlan, amount)
        left   == [m \in Markets |-> value[m] - first[m]]
        rest   == {m \in sellable : left[m] > 0}
        second == Pass(left, rest, left, 1, first, amount)
    IN  IF Sigma(value) = 0 THEN NoPlan ELSE second

-----------------------------------------------------------------------------
\* Calls: how they start, go on and end.

At(step)   == call.step = step
Market     == MarketOrder[call.at]
AtMarket   == call.at \in DOMAIN MarketOrder
Ready(op)  == At("idle") /\ op \in Ops /\ calls < MaxCalls
history    == <<calls, unseen, doubled, faults>>
Counted    == calls' = calls + 1 /\ UNCHANGED <<unseen, doubled, faults>>

Move(from, to, amount, loss) == [cash EXCEPT ![from] = @ - amount, ![to] = @ + amount - loss]

\* What the caller can publish of a call that has pushed `rows` of `legs`: a
\* return and a VenueExecutionError carry the rows, any other error drops them.
Finish(rows, legs) ==
    /\ call' = Idle
    /\ unseen' = (unseen \/ rows < legs) /\ doubled' = (doubled \/ rows > legs)
    /\ UNCHANGED <<calls, faults>>

Throw == Finish(0, call.legs)

\* Defect: the error that ends a half-done call is a plain one.
ThrowVenuePlain == Finish(0, call.legs)

ThrowVenue == Finish(call.rows, call.legs)

Advance(c)  == call' = c /\ UNCHANGED history
Fault(f)    == f \in faults

\* One leg done and recorded.
Done(c, n) == [c EXCEPT !.rows = @ + n, !.legs = @ + n]

-----------------------------------------------------------------------------
\* deploy

\* The worker draws from the vault what the agent does not hold already.
Fund(source, amount) ==
    /\ cash[source] >= amount
    /\ cash' = IF source = "vault" THEN Move("vault", "base", amount, 0) ELSE cash

\* A deployment without margin of its own spends what is at the venue.
Deploy(market, notional, margin) ==
    call' = [Idle EXCEPT !.op = "deploy", !.step = IF margin = 0 THEN "size" ELSE "cross",
                         !.at = Place(market),
                         !.notional = notional, !.asked = margin,
                         !.backing = IF margin = 0 THEN Unallocated(cash.margin, perp) ELSE 0]

TopUpMargin(amount) == call' = [Idle EXCEPT !.op = "topUpMargin", !.step = "cross", !.asked = amount]

StartDeploy ==
    /\ Ready("deploy")
    /\ \E m \in Markets, n \in Notionals : \E margin \in {0, MarginFor(n)} :
          /\ \E source \in {"vault", "base"} : Fund(source, n + margin)
          /\ Deploy(m, n, margin)
    /\ Counted /\ UNCHANGED <<spot, perp>>

StartTopUp ==
    /\ Ready("topUpMargin")
    /\ \E n \in Notionals :
          /\ \E source \in {"vault", "base"} : Fund(source, n)
          /\ TopUpMargin(n)
    /\ Counted /\ UNCHANGED <<spot, perp>>

\* Nothing of it would arrive.
TooSmall(amount) == \A loss \in Losses : loss >= amount

\* bridge.toSolana: it deposits what landed, and the call goes on from that.
Cross ==
    /\ At("cross")
    /\ \E loss \in Losses :
          /\ loss < call.asked
          /\ cash' = Move("base", "margin", call.asked, loss)
          /\ IF call.op = "topUpMargin"
             THEN /\ call' = Idle /\ UNCHANGED history
             ELSE Advance([Done(call, 2) EXCEPT !.step = "size", !.backing = call.asked - loss])
    /\ UNCHANGED <<spot, perp>>

\* It threw: nothing left, or the flight was not seen to end, or the deposit failed.
CrossFails ==
    /\ At("cross")
    /\ \/ (Fault("bridge") \/ TooSmall(call.asked)) /\ UNCHANGED cash /\ Throw
       \/ /\ Fault("bridge")
          /\ cash' = Move("base", "outbound", call.asked, 0)
          /\ Finish(call.rows, call.legs + 1)
       \/ /\ Fault("bridge")
          /\ \E loss \in Losses :
                loss < call.asked /\ cash' = Move("base", "solana", call.asked, loss)
          /\ Finish(call.rows, call.legs + 1)
    /\ UNCHANGED <<spot, perp>>

\* Defect: the hedge is sized to what was asked for, not to what arrived.
SpendAsked(backing) == call.notional

Spend(backing) == Least((backing * Leverage) \div BPS, call.notional)

\* Both legs are sized to the margin that arrived.
Size ==
    /\ At("size")
    /\ LET spend == Spend(call.backing) IN
       IF spend < MIN_DEPLOY_USDC \/ SnapToLot(spend) = 0
       THEN ThrowVenue
       ELSE Advance([call EXCEPT !.step = "short", !.notional = spend, !.units = SnapToLot(spend)])
    /\ UNCHANGED <<cash, spot, perp>>

\* The registration, the leverage, the route or the lot failed: some of these
\* throw the rows with them, some do not.
SizeFails ==
    /\ At("size") /\ Fault("venue")
    /\ ThrowVenue \/ Throw
    /\ UNCHANGED <<cash, spot, perp>>

\* The venue refuses an order its own margin rule does not carry.
Carried(shorts) == CeilDiv(Sigma(shorts), VenueLeverage) <= cash.margin

Short ==
    /\ At("short")
    /\ LET shorts == [perp EXCEPT ![Market] = @ + call.units] IN
       /\ Carried(shorts)
       /\ perp' = shorts
    /\ \/ Advance([Done(call, 1) EXCEPT !.step = "buy"])
       \/ Fault("lostReply") /\ Finish(0, call.legs + 1)
    /\ UNCHANGED <<cash, spot>>

\* The allowance or the order failed, for that reason or for another.
ShortRefused ==
    /\ At("short")
    /\ Fault("venue") \/ ~Carried([perp EXCEPT ![Market] = @ + call.units])
    /\ Throw
    /\ UNCHANGED <<cash, spot, perp>>

Bought ==
    /\ cash.base >= call.notional
    /\ \E slip \in Slips :
          /\ slip <= call.notional
          /\ spot' = [spot EXCEPT ![Market] = @ + call.notional - slip]
    /\ cash' = [cash EXCEPT !.base = @ - call.notional]

Buy ==
    /\ At("buy") /\ Bought
    /\ \/ Finish(call.rows + 1, call.legs + 1)
       \/ Fault("lostReply") /\ Advance([call EXCEPT !.step = "naked", !.legs = @ + 1])
    /\ UNCHANGED perp

\* Defect: a failed buy leaves the short to the next tick.
AfterFailedBuyLeft == ThrowVenue

AfterFailedBuy == Advance([call EXCEPT !.step = "naked"])

BuyFails ==
    /\ At("buy") /\ (Fault("swap") \/ cash.base < call.notional)
    /\ AfterFailedBuy
    /\ UNCHANGED <<cash, spot, perp>>

\* The balance is read before and after the swap, outside of its handler: a
\* read that fails drops the rows, and the first one leaves the short alone.
BuyUnread ==
    /\ At("buy") /\ Fault("read")
    /\ Bought \/ UNCHANGED <<cash, spot>>
    /\ Throw
    /\ UNCHANGED perp

\* A reduce-only order stops at zero.
ReduceOnly(size, units) == Most(0, size - units)

\* closeNaked: reduce-only, and a failure of its own is swallowed.
CloseNaked ==
    /\ At("naked")
    /\ \/ /\ perp' = [perp EXCEPT ![Market] = ReduceOnly(@, call.units)]
          /\ Finish(call.rows + 1, call.legs + 1)
       \/ /\ Fault("closeNaked")
          /\ UNCHANGED perp /\ ThrowVenue
    /\ UNCHANGED <<cash, spot>>

-----------------------------------------------------------------------------
\* unwind and closeAll

\* One leg's units are worth its value, so a plan of USDC is a plan of units.
Unwind(amount, sellable) ==
    LET value == [m \in Markets |-> IF m \in sellable THEN spot[m] ELSE 0]
    IN  /\ \E m \in sellable : spot[m] > 0
        /\ call' = [Idle EXCEPT !.op = "unwind", !.step = "close", !.asked = amount,
                                !.plan = AllocateUnwind(value, sellable, amount)]

\* Everything, everywhere: the larger of the two legs of every market.
CloseAll == call' = [Idle EXCEPT !.op = "closeAll", !.step = "close"]

StartUnwind ==
    /\ Ready("unwind")
    /\ \E amount \in UnwindAmounts :
          \E sellable \in IF Fault("venue") THEN SUBSET Markets ELSE {Markets} :
             Unwind(amount, sellable)
    /\ Counted /\ UNCHANGED <<cash, spot, perp>>

StartClose ==
    /\ Ready("closeAll") /\ CloseAll
    /\ Counted /\ UNCHANGED <<cash, spot, perp>>

\* Defect: only the spot leg decides what a close closes.
ToCloseSpot == IF call.op = "closeAll" THEN spot[Market] ELSE call.plan[Market]

ToClose == IF call.op = "closeAll" THEN Most(spot[Market], perp[Market]) ELSE call.plan[Market]

CloseOrder == <<"reduce", "sell">>

NextMarket(c) == [c EXCEPT !.at = @ + 1, !.step = "close", !.units = 0]
AfterLeg(c, step) ==
    IF step = CloseOrder[2] THEN NextMarket(c) ELSE [c EXCEPT !.step = CloseOrder[2]]

\* The legs are taken one market at a time; then the margin.
CloseMarket ==
    /\ At("close")
    /\ Advance(IF ~AtMarket THEN [call EXCEPT !.step = "repatriate"]
               ELSE IF ToClose = 0 THEN NextMarket(call)
               ELSE [call EXCEPT !.step = CloseOrder[1], !.units = ToClose])
    /\ UNCHANGED <<cash, spot, perp>>

\* An unwind ends at the first leg that throws; a close records it and goes on,
\* pushing the rows the error carries onto the very array it carries.
LegThrows(carried, legs) ==
    IF call.op = "closeAll"
    THEN Advance([NextMarket(call) EXCEPT !.failures = @ + 1, !.legs = legs,
                                          !.rows = IF carried THEN 2 * @ ELSE @])
    ELSE Finish(IF carried THEN call.rows ELSE 0, legs)

\* closeAll reads each market's legs outside of any handler.
CloseReadFails ==
    /\ At("close") /\ call.op = "closeAll" /\ AtMarket /\ Fault("venue")
    /\ Throw
    /\ UNCHANGED <<cash, spot, perp>>

\* The short first, by what the grid allows.
Reduce ==
    /\ At("reduce")
    /\ LET units == SnapToLot(call.units) IN
       /\ perp' = [perp EXCEPT ![Market] = ReduceOnly(@, units)]
       /\ \/ Advance(AfterLeg(IF units = 0 THEN call ELSE Done(call, 1), "reduce"))
          \/ Fault("lostReply") /\ units > 0 /\ LegThrows(FALSE, call.legs + 1)
    /\ UNCHANGED <<cash, spot>>

ReduceFails ==
    /\ At("reduce") /\ Fault("venue")
    /\ LegThrows(FALSE, call.legs)
    /\ UNCHANGED <<cash, spot, perp>>

\* Defect: a sale is taken to have raised its quote.
ProceedsQuoted(units, slip) == units

Proceeds(units, slip) == units - slip

\* What the sale raised is what the wallet gained, not what was quoted.
Sell ==
    /\ At("sell")
    /\ LET units == Least(call.units, spot[Market]) IN
       \E slip \in Slips :
          /\ slip <= units
          /\ spot' = [spot EXCEPT ![Market] = @ - units]
          /\ cash' = [cash EXCEPT !.base = @ + units - slip]
          /\ \/ Advance([AfterLeg(IF units = 0 THEN call ELSE Done(call, 1), "sell")
                           EXCEPT !.raised = @ + Proceeds(units, slip)])
             \/ Fault("lostReply") /\ units > 0 /\ LegThrows(TRUE, call.legs + 1)
    /\ UNCHANGED perp

\* No route, a revert, or a read on the way that failed without the rows.
SellFails ==
    /\ At("sell") /\ spot[Market] > 0
    /\ \/ (Fault("venue") \/ Fault("swap")) /\ LegThrows(TRUE, call.legs)
       \/ Fault("venue") /\ LegThrows(FALSE, call.legs)
    /\ UNCHANGED <<cash, spot, perp>>

\* An unwind keeps back the margin the rest should have and leaves Solana's
\* wallet alone; a close sweeps both.  A failed read keeps nothing, sweeps nothing.
Sweeps    == call.op = "closeAll"
Kept      == IF Sweeps THEN {0} ELSE {Retained(perp)} \cup (IF Fault("read") THEN {0} ELSE {})
Stranded  == IF Sweeps THEN {cash.solana} \cup (IF Fault("read") THEN {0} ELSE {}) ELSE {0}
Withdrawable(kept) == Most(0, Unallocated(cash.margin, perp) - kept)

\* repatriateMargin: out of the venue onto Solana, and across to Base.
Repatriate ==
    /\ At("repatriate")
    /\ \E kept \in Kept, s \in Stranded : LET w == Withdrawable(kept) IN
       IF w + s = 0
       THEN UNCHANGED cash /\ Advance([call EXCEPT !.step = "return"])
       ELSE \E loss \in Losses :
               /\ loss < w + s
               /\ cash' = [cash EXCEPT !.margin = @ - w, !.solana = @ - s, !.base = @ + w + s - loss]
               /\ Advance([Done(call, IF w > 0 THEN 2 ELSE 1)
                             EXCEPT !.step = "return", !.raised = @ + w + s - loss])
    /\ UNCHANGED <<spot, perp>>

\* Best effort in an unwind, loud in a close; the call goes on in both.
RepatriateFails ==
    /\ At("repatriate")
    /\ \E kept \in Kept, s \in Stranded :
       LET w == Withdrawable(kept)
           next(n) == Advance([Done(call, n) EXCEPT !.step = "return", !.failures = @ + 1])
           withdrawn == IF w > 0 THEN 1 ELSE 0
       IN  \/ (Fault("bridge") \/ Fault("venue")) /\ UNCHANGED cash /\ next(0)
           \/ /\ w + s > 0 /\ (Fault("bridge") \/ TooSmall(w + s))
              /\ cash' = [cash EXCEPT !.margin = @ - w, !.solana = @ + w]
              /\ next(withdrawn)
           \/ /\ w + s > 0 /\ Fault("bridge")
              /\ cash' = [cash EXCEPT !.margin = @ - w, !.solana = @ - s, !.homebound = @ + w + s]
              /\ Advance([Done(call, withdrawn)
                            EXCEPT !.step = "return", !.failures = @ + 1, !.legs = @ + 1])
    /\ UNCHANGED <<spot, perp>>

\* An unwind hands over what it raised, a close the whole Base balance.
ToReturn == IF call.op = "closeAll" THEN cash.base ELSE call.raised

ReturnAll ==
    /\ At("return") /\ cash.base >= ToReturn
    /\ cash' = Move("base", "vault", ToReturn, 0)
    /\ LET n == IF ToReturn > 0 THEN 1 ELSE 0 IN Finish(call.rows + n, call.legs + n)
    /\ UNCHANGED <<spot, perp>>

ReturnFails ==
    /\ At("return") /\ (Fault("return") \/ cash.base < ToReturn)
    /\ Throw
    /\ UNCHANGED <<cash, spot, perp>>

-----------------------------------------------------------------------------
\* rebalance: the short is traded to the size of the spot leg.

Abs(n) == IF n < 0 THEN -n ELSE n

\* What of a difference is placed: it is snapped first, and then weighed.
Correction(units) ==
    IF SnapToLot(units) < MinOrder THEN 0 ELSE SnapToLot(units)

Traded(m) ==
    LET delta == spot[m] - perp[m]
        step  == Correction(Abs(delta))
    IN  [perp EXCEPT ![m] = IF delta > 0 THEN @ + step ELSE @ - step]

\* A correction too fine or too small trades nothing, and is no failure.
Accepted(m)  == Traded(m)[m] > perp[m] => Carried(Traded(m))
Tradeable(m) == Traded(m) # perp /\ Accepted(m)
Trade(m)     == Accepted(m) /\ perp' = Traded(m)

Rebalance ==
    /\ Ready("rebalance")
    /\ \E m \in Markets : Tradeable(m) /\ Trade(m)
    /\ Counted /\ UNCHANGED <<cash, spot, call>>

\* A crossing nobody was waiting for any more arrives.
Lands ==
    \/ cash.outbound > 0 /\ cash' = Move("outbound", "solana", cash.outbound, 0)
                         /\ UNCHANGED <<spot, perp, call, history>>
    \/ cash.homebound > 0 /\ cash' = Move("homebound", "base", cash.homebound, 0)
                          /\ UNCHANGED <<spot, perp, call, history>>

Crash ==
    /\ Fault("crash") /\ ~At("idle")
    /\ call' = Idle
    /\ UNCHANGED <<cash, spot, perp, history>>

-----------------------------------------------------------------------------
Deploying == StartDeploy \/ StartTopUp \/ Cross \/ CrossFails \/ Size \/ SizeFails
             \/ Short \/ ShortRefused \/ Buy \/ BuyUnread \/ BuyFails
             \/ CloseNaked
Closing   == StartUnwind \/ StartClose \/ CloseMarket \/ CloseReadFails \/ Reduce \/ ReduceFails \/ Sell
             \/ SellFails \/ Repatriate \/ RepatriateFails \/ ReturnAll \/ ReturnFails

Next == Deploying \/ Closing \/ Rebalance \/ Lands \/ Crash

Spec == Init /\ [][Next]_vars

-----------------------------------------------------------------------------
\* What slippage and the lot grid may leave between the legs of one call.
Slack == calls * (Lot - 1 + Max(Slips))

(***************************************************************************)
(* deploy's header: the order of the legs "leaves a naked leg for exactly  *)
(* one Base transaction".  A short without spot behind it exists only      *)
(* between the order and the buy, whatever fails on the way.  (A lost      *)
(* reply, a crash, a failed clean-up, or a balance read that fails just    *)
(* before the buy breaks it; the clean failures do not.)                   *)
(***************************************************************************)
CleanFaults == {"bridge", "venue", "swap", "return"}

NakedOnlyWhileBuying ==
    faults \subseteq CleanFaults => \A m \in Markets :
        perp[m] > spot[m] + Slack =>
            call.op = "deploy" /\ Market = m /\ call.step \in {"buy", "naked"}

(***************************************************************************)
(* deploy's header: buying first "commits to a notional the surviving      *)
(* margin may not be able to carry".  However much the crossing lost, a    *)
(* deployment leaves the account within the leverage it was given if the   *)
(* rest of the margin had the rest of the shorts within it.                *)
(***************************************************************************)
WithinLeverage(shorts, margin) == Sigma(shorts) * BPS <= margin * Leverage

DeploysWithinLeverage ==
    [][Short /\ WithinLeverage(perp, cash.margin - call.backing)
          => WithinLeverage(perp', cash'.margin)]_vars

(***************************************************************************)
(* closeLeg's header: a call never names to agentReturn a number the       *)
(* wallet does not hold, which would revert a return whose legs are closed.*)
(***************************************************************************)
ProceedsInHand == At("return") => cash.base >= ToReturn

(***************************************************************************)
(* A close order that reports no failure has left no leg in any market,    *)
(* and no margin, however the legs had drifted apart before it.            *)
(***************************************************************************)
FlatAfterClose ==
    [][ReturnAll /\ call.op = "closeAll" /\ call.failures = 0 =>
          spot' = NoPlan /\ perp' = NoPlan /\ cash'.margin = 0]_vars

(***************************************************************************)
(* repatriateMargin's header: "retainForLeverageBps is what stops a        *)
(* partial unwind undoing the buffer".  An unwind leaves the shorts that   *)
(* remain with the margin the mandate sizes them at.                       *)
(***************************************************************************)
BufferSurvivesUnwind ==
    [][~Fault("read") /\ call.op = "unwind" /\ cash'.margin < cash.margin =>
          cash'.margin >= MarginFor(Sigma(perp))]_vars

(***************************************************************************)
(* The public record: what a call hands over counts every leg that moved   *)
(* money, and no leg twice, as long as it is a swap that fails.  (A close  *)
(* counts some twice: it appends the rows of a failed leg, which are its   *)
(* own, to themselves.)                                                    *)
(***************************************************************************)
RecordExact ==
    [][faults \subseteq {"swap", "closeNaked"} =>
          unseen' = unseen /\ (call.op # "closeAll" => doubled' = doubled)]_vars

(***************************************************************************)
(* allocateUnwind's header: an unwind raises what was asked, or everything *)
(* that can be sold, without touching what has no route; and a redemption  *)
(* that the heaviest market's overweight covers, and that is worth a leg,  *)
(* is paid entirely out of that market.                                    *)
(***************************************************************************)
AllocationRaisesWhatItCan ==
    At("idle") => \A amount \in UnwindAmounts :
        /\ \A sellable \in SUBSET Markets :
              LET plan == AllocateUnwind(spot, sellable, amount)
              IN  /\ Sigma(plan) = Least(amount, MapThenSumSet(LAMBDA m : spot[m], sellable))
                  /\ \A m \in Markets : plan[m] <= IF m \in sellable THEN spot[m] ELSE 0
        /\ \A heavy \in Markets :
              /\ amount >= MIN_UNWIND_LEG_USDC
              /\ (spot[heavy] - amount) * BPS >= Sigma(spot) * Weight[heavy]
              /\ \A m \in Markets \ {heavy} : spot[m] * BPS <= Sigma(spot) * Weight[m]
              => AllocateUnwind(spot, Markets, amount) = [NoPlan EXCEPT ![heavy] = amount]
=============================================================================

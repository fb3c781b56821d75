----------------------------- MODULE LemonVault -----------------------------
(***************************************************************************)
(* packages/contracts/src/LemonVault.sol: an ERC-4626 vault with           *)
(* synchronous deposits and asynchronous (ERC-7540) redemptions, whose     *)
(* capital is partly out with an off-chain agent.  Each external function  *)
(* is one action; a call that reverts is a step that is not enabled.       *)
(***************************************************************************)
EXTENDS VaultMath

CONSTANTS Users,           \* depositors and their operators
          Funds,           \* addresses insuranceFund may take
          Vault,           \* address(this)
          Operators,       \* accounts that holders may approve as operators
          Receivers,       \* holders a depositor or claimant may name as receiver
          Amounts,         \* USDC amounts a caller may pass
          ShareAmounts,    \* share amounts a caller may pass
          NavValues,       \* values the agent may report
          Leverages,       \* leverages the agent may report, in bps
          MaxLeverageBps,  \* the immutable maxLeverageBps of this vault
          LimitChoices,    \* Limits structs the administrator may propose
          Calls,           \* entry points a run exercises besides the queue and the reports
          MaxTime,         \* bound on block.timestamp
          MaxAssets,       \* bound on the USDC in the vault and out with the agent
          MaxActivity      \* bound on activityCount

\* Ceilings compiled into the contract.
CONSTANTS MAX_MANAGEMENT_FEE_BPS, MAX_PERFORMANCE_FEE_BPS, MIN_REDEEM_DELAY,
          MAX_REDEEM_DELAY, MAX_DEPLOYED_BPS, MAX_NAV_DEVIATION_BPS,
          MAX_NAV_EPOCH_DEVIATION_BPS, MIN_NAV_EPOCH_DURATION

Accounts == Users \cup Funds
Holders  == Accounts \cup {Vault}

VARIABLES
    now,                \* block.timestamp
    idle,               \* asset.balanceOf(address(this))
    deployedAssets, claimableAssets,
    supply, balance,    \* the ERC-20 share ledger
    redeemState,        \* _redeem
    totalPendingRedeemShares,
    isOperator,
    highWaterMarkPps, lastFeeAccrualAt,
    lastNavReportAt, navEpochStartedAt, navEpochAnchor, lastObservedLeverageBps,
    agentWindowStartedAt, agentWithdrawnInWindow,
    limits, paused, emergencyExit, insuranceFund,
    activityCount

feeVars    == <<highWaterMarkPps, lastFeeAccrualAt>>
shareVars  == <<supply, balance>>
queueVars  == <<redeemState, totalPendingRedeemShares>>
navVars    == <<lastNavReportAt, navEpochStartedAt, navEpochAnchor, lastObservedLeverageBps>>
windowVars == <<agentWindowStartedAt, agentWithdrawnInWindow>>
adminVars  == <<limits, paused, emergencyExit, insuranceFund>>
vars == <<now, idle, deployedAssets, claimableAssets, shareVars, queueVars, isOperator,
          feeVars, navVars, windowVars, adminVars, activityCount>>

LimitFields == {"managementFeeBps", "performanceFeeBps", "minRedeemDelay", "maxRedeemDelay",
                "maxDeployedBps", "maxNavDeviationBps", "maxNavEpochDeviationBps",
                "navEpochDuration", "minNavReportInterval", "maxNavStaleness",
                "agentWithdrawWindowCap", "agentWithdrawWindow"}

\* _validateLimits
ValidLimits(l) ==
    /\ l.managementFeeBps <= MAX_MANAGEMENT_FEE_BPS
    /\ l.performanceFeeBps <= MAX_PERFORMANCE_FEE_BPS
    /\ l.minRedeemDelay >= MIN_REDEEM_DELAY
    /\ l.minRedeemDelay <= l.maxRedeemDelay
    /\ l.maxRedeemDelay <= MAX_REDEEM_DELAY
    /\ l.maxDeployedBps <= MAX_DEPLOYED_BPS
    /\ l.maxNavDeviationBps <= MAX_NAV_DEVIATION_BPS
    /\ l.maxNavEpochDeviationBps <= MAX_NAV_EPOCH_DEVIATION_BPS
    /\ l.maxNavEpochDeviationBps >= l.maxNavDeviationBps
    /\ l.navEpochDuration >= MIN_NAV_EPOCH_DURATION
    /\ l.maxNavStaleness # 0
    /\ l.maxNavStaleness > l.minNavReportInterval
    /\ l.agentWithdrawWindow # 0

ASSUME VaultAssumption ==
    /\ IsFiniteSet(Users) /\ IsFiniteSet(Funds) /\ Funds # {}
    /\ Vault \notin Accounts /\ Operators \subseteq Accounts /\ Receivers \subseteq Holders
    /\ Amounts \subseteq Nat \ {0} /\ ShareAmounts \subseteq Nat \ {0}
    /\ NavValues \subseteq Nat /\ Leverages \subseteq Nat
    /\ MaxTime \in Nat \ {0} /\ MaxAssets \in Nat /\ MaxActivity \in Nat
    /\ {MAX_MANAGEMENT_FEE_BPS, MAX_PERFORMANCE_FEE_BPS, MIN_REDEEM_DELAY, MAX_REDEEM_DELAY,
        MAX_DEPLOYED_BPS, MAX_NAV_DEVIATION_BPS, MAX_NAV_EPOCH_DEVIATION_BPS,
        MIN_NAV_EPOCH_DURATION} \subseteq Nat
    /\ MAX_PERFORMANCE_FEE_BPS <= BPS
    /\ LimitChoices \subseteq [LimitFields -> Nat]
    /\ \E l \in LimitChoices : ValidLimits(l)

-----------------------------------------------------------------------------
\* Views.

TotalAssets == TotalAssetsOf(idle, deployedAssets, claimableAssets)
FreeAssets  == FreeAssetsOf(idle, claimableAssets)
NavIsStale  == now > lastNavReportAt + limits.maxNavStaleness

\* What _accrueFees() would leave behind if it ran now.
Fees == AccrueFees(TotalAssets, supply, highWaterMarkPps, now - lastFeeAccrualAt, limits)

Credit(b, who, n) == [b EXCEPT ![who] = @ + n]
Debit(b, who, n)  == [b EXCEPT ![who] = @ - n]

\* The share ledger once the fee shares are minted to the insurance fund.
FeeCredited == Credit(balance, insuranceFund, Fees.supply - supply)

\* The assignments every call to _accrueFees() makes besides the mint.
FeesSettled == highWaterMarkPps' = Fees.mark /\ lastFeeAccrualAt' = now

(***************************************************************************)
(* Pieces of the actions below.  The definitions that follow the word      *)
(* "Defect" are plausible mistakes in the piece that comes next; no action *)
(* uses them, and each must break a property of a run.                     *)
(***************************************************************************)

\* Defect: a top-up keeps the ripening time of the first request.
AddPendingKeepsClock(r, shares) ==
    [r EXCEPT !.pendingShares = @ + shares, !.requestedAt = IF @ = 0 THEN now ELSE @]

\* Defect: a top-up overwrites the bucket.
AddPendingOverwrites(r, shares) ==
    [r EXCEPT !.pendingShares = shares, !.requestedAt = now]

\* requestRedeem's bucket: merged under one id, the delay restarts.
AddPending(r, shares) ==
    [r EXCEPT !.pendingShares = @ + shares, !.requestedAt = now]

\* fulfillRedeem's bucket.
Fulfilled(r, shares, assets) ==
    [r EXCEPT !.pendingShares = @ - shares,
              !.claimableShares = @ + shares,
              !.claimableAssets = @ + assets]

BurnedEscrow(b, shares) == Debit(b, Vault, shares)

Claimed(r, shares, assets) ==
    [r EXCEPT !.claimableShares = @ - shares, !.claimableAssets = @ - assets]

\* Defect: capital moves out and the epoch anchor stays behind.
AnchorAfterWithdrawFixed(amount) == navEpochAnchor

AnchorAfterWithdraw(amount) == navEpochAnchor + amount

AnchorAfterReturn(credited) ==
    IF navEpochAnchor > credited THEN navEpochAnchor - credited ELSE 0

\* Defect: the mark is not carried over the gift.
DonatedMarkKept(pps, mark) == mark

DonatedMark(pps, mark) == IF pps > mark THEN pps ELSE mark

NoRequest == [pendingShares |-> 0, claimableShares |-> 0, claimableAssets |-> 0,
              requestedAt |-> 0]

\* The constructor; the clock starts at 1 so that 0 keeps its meaning of "never".
Init ==
    /\ now = 1
    /\ idle = 0 /\ deployedAssets = 0 /\ claimableAssets = 0
    /\ supply = 0 /\ balance = [h \in Holders |-> 0]
    /\ redeemState = [a \in Accounts |-> NoRequest]
    /\ totalPendingRedeemShares = 0
    /\ isOperator = [a \in Accounts |-> {}]
    /\ highWaterMarkPps = AssetUnit
    /\ lastFeeAccrualAt = now /\ lastNavReportAt = now /\ navEpochStartedAt = now
    /\ agentWindowStartedAt = now
    /\ navEpochAnchor = 0 /\ lastObservedLeverageBps = 0 /\ agentWithdrawnInWindow = 0
    /\ limits \in {l \in LimitChoices : ValidLimits(l)}
    /\ paused = FALSE /\ emergencyExit = FALSE
    /\ insuranceFund \in Funds
    /\ activityCount = 0

-----------------------------------------------------------------------------
\* Deposits: priced after the fees are settled, refused when paused or stale.

Deposit(assets, receiver) ==
    /\ ~paused /\ ~NavIsStale
    /\ idle + deployedAssets + assets <= MaxAssets
    /\ LET shares == ConvertToShares(assets, TotalAssets, Fees.supply)
       IN  /\ supply' = Fees.supply + shares
           /\ balance' = Credit(FeeCredited, receiver, shares)
    /\ idle' = idle + assets
    /\ FeesSettled
    /\ UNCHANGED <<now, deployedAssets, claimableAssets, queueVars, isOperator,
                   navVars, windowVars, adminVars, activityCount>>

Mint(shares, receiver) ==
    /\ ~paused /\ ~NavIsStale
    /\ LET assets == AssetsToMint(shares, TotalAssets, Fees.supply)
       IN  /\ idle + deployedAssets + assets <= MaxAssets
           /\ idle' = idle + assets
    /\ supply' = Fees.supply + shares
    /\ balance' = Credit(FeeCredited, receiver, shares)
    /\ FeesSettled
    /\ UNCHANGED <<now, deployedAssets, claimableAssets, queueVars, isOperator,
                   navVars, windowVars, adminVars, activityCount>>

-----------------------------------------------------------------------------
\* Redemptions.

SetOperator(caller, operator, approved) ==
    /\ isOperator' = [isOperator EXCEPT ![caller] =
                         IF approved THEN @ \cup {operator} ELSE @ \ {operator}]
    /\ UNCHANGED <<now, idle, deployedAssets, claimableAssets, shareVars, queueVars,
                   feeVars, navVars, windowVars, adminVars, activityCount>>

\* The shares move into escrow, stay in the supply, and the delay restarts.
RequestRedeem(caller, shares, controller, owner) ==
    /\ owner = caller \/ caller \in isOperator[owner]
    /\ controller = owner \/ caller \in isOperator[controller]
    /\ shares <= FeeCredited[owner]
    /\ supply' = Fees.supply
    /\ balance' = Credit(Debit(FeeCredited, owner, shares), Vault, shares)
    /\ redeemState' = [redeemState EXCEPT ![controller] = AddPending(@, shares)]
    /\ totalPendingRedeemShares' = totalPendingRedeemShares + shares
    /\ FeesSettled
    /\ UNCHANGED <<now, idle, deployedAssets, claimableAssets, isOperator,
                   navVars, windowVars, adminVars, activityCount>>

(***************************************************************************)
(* Prices a ripe request at the current share price, sets the assets aside *)
(* and burns the escrowed shares.  role is the role the caller holds.      *)
(***************************************************************************)
FulfillRedeem(role, controller, shares) ==
    LET r      == redeemState[controller]
        assets == ConvertToAssets(shares, TotalAssets, Fees.supply)
    IN  /\ NavIsStale => role = "guardian" /\ emergencyExit
        /\ shares <= r.pendingShares
        /\ now >= r.requestedAt + limits.minRedeemDelay
        /\ assets <= FreeAssets
        /\ shares <= totalPendingRedeemShares /\ shares <= balance[Vault]
        /\ redeemState' = [redeemState EXCEPT ![controller] = Fulfilled(@, shares, assets)]
        /\ totalPendingRedeemShares' = totalPendingRedeemShares - shares
        /\ claimableAssets' = claimableAssets + assets
        /\ supply' = Fees.supply - shares
        /\ balance' = BurnedEscrow(FeeCredited, shares)
        /\ FeesSettled
        /\ UNCHANGED <<now, idle, deployedAssets, isOperator,
                       navVars, windowVars, adminVars, activityCount>>

\* _assertCanClaim and _claim; a claim paid to the vault's own address stays idle.
Claim(caller, controller, receiver, shares, assets) ==
    /\ caller = controller \/ caller \in isOperator[controller]
    /\ assets <= claimableAssets /\ assets <= idle
    /\ redeemState' = [redeemState EXCEPT ![controller] = Claimed(@, shares, assets)]
    /\ claimableAssets' = claimableAssets - assets
    /\ idle' = IF receiver = Vault THEN idle ELSE idle - assets
    /\ UNCHANGED <<now, deployedAssets, shareVars, totalPendingRedeemShares, isOperator,
                   feeVars, navVars, windowVars, adminVars, activityCount>>

Redeem(caller, shares, receiver, controller) ==
    LET r == redeemState[controller]
    IN  /\ shares <= r.claimableShares
        /\ Claim(caller, controller, receiver, shares,
                 (shares * r.claimableAssets) \div r.claimableShares)

Withdraw(caller, assets, receiver, controller) ==
    LET r      == redeemState[controller]
        shares == CeilDiv(assets * r.claimableShares, r.claimableAssets)
    IN  /\ assets <= r.claimableAssets
        /\ Claim(caller, controller, receiver,
                 IF shares > r.claimableShares THEN r.claimableShares ELSE shares, assets)

-----------------------------------------------------------------------------
\* Capital movement.

\* The counter of the leaky bucket as it stands at this block.
DrawnNow ==
    LET elapsed == now - agentWindowStartedAt
    IN  IF elapsed >= limits.agentWithdrawWindow
        THEN 0
        ELSE agentWithdrawnInWindow
             - ((agentWithdrawnInWindow * elapsed) \div limits.agentWithdrawWindow)

\* Defect: the window never restarts, so every draw after it is judged alone.
WindowFixed == agentWindowStartedAt

\* The counter restarts at every draw, so that what was drawn decays from now on.
WindowRestart == now

AgentWithdraw(amount) ==
    /\ ~paused /\ ~emergencyExit /\ ~NavIsStale
    /\ amount <= FreeAssets
    /\ deployedAssets + amount <= (TotalAssets * limits.maxDeployedBps) \div BPS
    /\ DrawnNow + amount <= limits.agentWithdrawWindowCap
    /\ agentWindowStartedAt' = WindowRestart
    /\ agentWithdrawnInWindow' = DrawnNow + amount
    /\ deployedAssets' = deployedAssets + amount
    /\ navEpochAnchor' = AnchorAfterWithdraw(amount)
    /\ idle' = idle - amount
    /\ UNCHANGED <<now, claimableAssets, shareVars, queueVars, isOperator, feeVars,
                   lastNavReportAt, navEpochStartedAt, lastObservedLeverageBps,
                   adminVars, activityCount>>

\* Callable by anyone; the excess over what is deployed is profit.
AgentReturn(amount) ==
    LET credited == IF amount < deployedAssets THEN amount ELSE deployedAssets
    IN  /\ idle + amount + (deployedAssets - credited) <= MaxAssets
        /\ idle' = idle + amount
        /\ deployedAssets' = deployedAssets - credited
        /\ navEpochAnchor' = AnchorAfterReturn(credited)
        /\ UNCHANGED <<now, claimableAssets, shareVars, queueVars, isOperator, feeVars,
                       lastNavReportAt, navEpochStartedAt, lastObservedLeverageBps,
                       windowVars, adminVars, activityCount>>

\* Fees settle on the old valuation, then the mark is carried over the gift.
Donate(amount) ==
    LET pps == PricePerShare(TotalAssetsOf(idle + amount, deployedAssets, claimableAssets),
                             Fees.supply)
    IN  /\ idle + deployedAssets + amount <= MaxAssets
        /\ idle' = idle + amount
        /\ supply' = Fees.supply
        /\ balance' = FeeCredited
        /\ highWaterMarkPps' = DonatedMark(pps, Fees.mark)
        /\ lastFeeAccrualAt' = now
        /\ UNCHANGED <<now, deployedAssets, claimableAssets, queueVars, isOperator,
                       navVars, windowVars, adminVars, activityCount>>

-----------------------------------------------------------------------------
\* Reporting.

NavDeviationOk(new) ==
    IF deployedAssets = 0
    THEN new = 0
    ELSE Distance(new, deployedAssets) <= (deployedAssets * limits.maxNavDeviationBps) \div BPS

NavEpochOver == now >= navEpochStartedAt + limits.navEpochDuration

\* Defect: every report moves the anchor, so the epoch bound is the report bound.
AnchorAtEachReport == deployedAssets

AnchorNow == IF NavEpochOver THEN deployedAssets ELSE navEpochAnchor

NavEpochOk(new) ==
    AnchorNow # 0 =>
        Distance(new, AnchorNow) <= (AnchorNow * limits.maxNavEpochDeviationBps) \div BPS

\* Fees accrue twice: on the old valuation, then on the reported one.
ReportNav(new, leverage) ==
    LET repriced == AccrueFees(TotalAssetsOf(idle, new, claimableAssets),
                               Fees.supply, Fees.mark, 0, limits)
    IN  /\ now >= lastNavReportAt + limits.minNavReportInterval
        /\ leverage <= MaxLeverageBps
        /\ NavDeviationOk(new)
        /\ NavEpochOk(new)
        /\ navEpochStartedAt' = IF NavEpochOver THEN now ELSE navEpochStartedAt
        /\ navEpochAnchor' = AnchorNow
        /\ deployedAssets' = new
        /\ lastObservedLeverageBps' = leverage
        /\ lastNavReportAt' = now
        /\ supply' = repriced.supply
        /\ balance' = Credit(balance, insuranceFund, repriced.supply - supply)
        /\ highWaterMarkPps' = repriced.mark
        /\ lastFeeAccrualAt' = now
        /\ UNCHANGED <<now, idle, claimableAssets, queueVars, isOperator, windowVars,
                       adminVars, activityCount>>

\* reportActivity and reportActivityBatch: an audit record that moves no value.
ReportActivity(reports) ==
    /\ activityCount + reports <= MaxActivity
    /\ activityCount' = activityCount + reports
    /\ UNCHANGED <<now, idle, deployedAssets, claimableAssets, shareVars, queueVars,
                   isOperator, feeVars, navVars, windowVars, adminVars>>

-----------------------------------------------------------------------------
\* Administration.

SettleFees ==
    /\ supply' = Fees.supply
    /\ balance' = FeeCredited
    /\ FeesSettled
    /\ UNCHANGED <<now, idle, deployedAssets, claimableAssets, queueVars, isOperator,
                   navVars, windowVars, activityCount>>

AccrueFeesCall == SettleFees /\ UNCHANGED adminVars

\* Defect: the proposal is not validated.
SetLimitsUnchecked(next) ==
    /\ SettleFees
    /\ limits' = next
    /\ UNCHANGED <<paused, emergencyExit, insuranceFund>>

SetLimits(next) ==
    /\ ValidLimits(next)
    /\ SettleFees
    /\ limits' = next
    /\ UNCHANGED <<paused, emergencyExit, insuranceFund>>

SetInsuranceFund(next) ==
    /\ SettleFees
    /\ insuranceFund' = next
    /\ UNCHANGED <<limits, paused, emergencyExit>>

SwitchOnly == UNCHANGED <<now, idle, deployedAssets, claimableAssets, shareVars, queueVars,
                          isOperator, feeVars, navVars, windowVars, activityCount,
                          limits, insuranceFund>>

SetEmergencyExit(enabled) == emergencyExit' = enabled /\ SwitchOnly /\ UNCHANGED paused

Pause   == ~paused /\ paused' = TRUE /\ SwitchOnly /\ UNCHANGED emergencyExit
Unpause == paused /\ paused' = FALSE /\ SwitchOnly /\ UNCHANGED emergencyExit

-----------------------------------------------------------------------------
\* The environment: ERC-20 transfers that bypass the vault's code, and time.

TransferShares(from, to, shares) ==
    /\ shares <= balance[from]
    /\ balance' = Credit(Debit(balance, from, shares), to, shares)
    /\ UNCHANGED <<now, idle, deployedAssets, claimableAssets, supply, queueVars, isOperator,
                   feeVars, navVars, windowVars, adminVars, activityCount>>

SendUsdc(amount) ==
    /\ idle + deployedAssets + amount <= MaxAssets
    /\ idle' = idle + amount
    /\ UNCHANGED <<now, deployedAssets, claimableAssets, shareVars, queueVars, isOperator,
                   feeVars, navVars, windowVars, adminVars, activityCount>>

NextBlock ==
    /\ now < MaxTime
    /\ now' = now + 1
    /\ UNCHANGED <<idle, deployedAssets, claimableAssets, shareVars, queueVars, isOperator,
                   feeVars, navVars, windowVars, adminVars, activityCount>>

-----------------------------------------------------------------------------
HolderStep ==
    \/ "deposit" \in Calls /\ \E a \in Amounts, h \in Receivers : Deposit(a, h)
    \/ "mint" \in Calls /\ \E s \in ShareAmounts, h \in Receivers : Mint(s, h)
    \/ \E c \in Accounts, o \in Operators, b \in BOOLEAN : SetOperator(c, o, b)
    \/ \E s \in ShareAmounts, x, c, o \in Accounts : RequestRedeem(x, s, c, o)
    \/ \E s \in ShareAmounts, x, c \in Accounts, r \in Receivers : Redeem(x, s, r, c)
    \/ "withdraw" \in Calls
       /\ \E a \in Amounts, x, c \in Accounts, r \in Receivers : Withdraw(x, a, r, c)
    \/ "transfer" \in Calls
       /\ \E s \in ShareAmounts, f \in Accounts, h \in Holders : TransferShares(f, h, s)

AgentStep ==
    \/ \E r \in {"agent", "guardian"}, c \in Accounts, s \in ShareAmounts : FulfillRedeem(r, c, s)
    \/ "agentWithdraw" \in Calls /\ \E a \in Amounts : AgentWithdraw(a)
    \/ "agentReturn" \in Calls /\ \E a \in Amounts : AgentReturn(a)
    \/ \E v \in NavValues, x \in Leverages : ReportNav(v, x)
    \/ \E n \in 1 .. MaxActivity : ReportActivity(n)

AdminStep ==
    \/ "setLimits" \in Calls /\ \E l \in LimitChoices : SetLimits(l)
    \/ "setInsuranceFund" \in Calls /\ \E f \in Funds : SetInsuranceFund(f)
    \/ "setEmergencyExit" \in Calls /\ \E b \in BOOLEAN : SetEmergencyExit(b)
    \/ "pause" \in Calls /\ (Pause \/ Unpause)

OpenStep ==
    \/ "donate" \in Calls /\ \E a \in Amounts : Donate(a)
    \/ "sendUsdc" \in Calls /\ \E a \in Amounts : SendUsdc(a)
    \/ "accrueFees" \in Calls /\ AccrueFeesCall
    \/ NextBlock

Next == HolderStep \/ AgentStep \/ AdminStep \/ OpenStep

Spec == Init /\ [][Next]_vars
-----------------------------------------------------------------------------
\* Properties.

\* Every variable of the contract has its Solidity type.
TypeOK ==
    /\ {now, idle, deployedAssets, claimableAssets, supply, totalPendingRedeemShares,
        highWaterMarkPps, lastFeeAccrualAt, lastNavReportAt, navEpochStartedAt,
        navEpochAnchor, lastObservedLeverageBps, agentWindowStartedAt,
        agentWithdrawnInWindow, activityCount} \subseteq Nat
    /\ balance \in [Holders -> Nat]
    /\ redeemState \in [Accounts -> [pendingShares : Nat, claimableShares : Nat,
                                     claimableAssets : Nat, requestedAt : Nat]]
    /\ isOperator \in [Accounts -> SUBSET Operators]
    /\ limits \in LimitChoices /\ ValidLimits(limits)
    /\ paused \in BOOLEAN /\ emergencyExit \in BOOLEAN
    /\ insuranceFund \in Funds

ClaimsOf   == [a \in Accounts |-> redeemState[a].claimableAssets]
PendingOf  == [a \in Accounts |-> redeemState[a].pendingShares]

(***************************************************************************)
(* Solvency.  The assets set aside are exactly what the controllers may    *)
(* claim, and the USDC is in the contract: whatever the agent draws or     *)
(* reports, every fulfilled redemption can be paid, all at once, and the   *)
(* checked subtractions of _claim never revert.                            *)
(***************************************************************************)
ClaimsBacked ==
    /\ claimableAssets = Total(ClaimsOf)
    /\ claimableAssets <= idle

(***************************************************************************)
(* The shares the queue owes a price are all in escrow, so the burn of     *)
(* fulfillRedeem never fails.  The escrow may hold more: shares sent to the*)
(* vault's own address are stuck there.                                    *)
(***************************************************************************)
EscrowBacked ==
    /\ totalPendingRedeemShares = Total(PendingOf)
    /\ totalPendingRedeemShares <= balance[Vault]

\* The share ledger: totalSupply is what the holders hold, fee mints included.
SupplyIsHeld == supply = Total(balance)

Reported == \E v \in NavValues, x \in Leverages : ReportNav(v, x)

(***************************************************************************)
(* No step but a NAV report lowers what a share is worth below what the    *)
(* fees already owed leave of it: deposits, mints, fulfilments and claims  *)
(* all round in favour of the holders who stay.                            *)
(***************************************************************************)
RoundingFavoursHolders ==
    [][\/ Reported
       \/ (TotalAssets' + 1) * (Fees.supply + VirtualShares)
            >= (TotalAssets + 1) * (supply' + VirtualShares)]_vars

(***************************************************************************)
(* Capital that merely moves is not profit: whatever is drawn, returned,   *)
(* deposited or claimed, the profit the epoch bound sees (deployed minus   *)
(* anchor) changes only when the agent reports, unless a return empties    *)
(* the anchor.                                                             *)
(***************************************************************************)
MovedCapitalIsNotProfit ==
    [][\/ Reported
       \/ navEpochAnchor' = 0
       \/ deployedAssets' + navEpochAnchor = deployedAssets + navEpochAnchor']_vars

(***************************************************************************)
(* A gain is charged once: accrueFees() called again in the same block     *)
(* mints nothing, whatever the fee did to the price it was computed from,  *)
(* and the mark never falls while anyone holds shares, so a gain that was  *)
(* charged is not charged again on the way back up.                        *)
(***************************************************************************)
GainTaxedOnce ==
    /\ [](AccrueFees(TotalAssets, Fees.supply, Fees.mark, 0, limits).supply = Fees.supply)
    /\ [][highWaterMarkPps' >= highWaterMarkPps \/ supply = 0]_vars

(***************************************************************************)
(* A donation is not performance: once donate() returns, accrueFees() in   *)
(* the same block mints nothing out of it.                                 *)
(***************************************************************************)
DonationUntaxed == [][(\E a \in Amounts : Donate(a)) => Fees.supply' = supply']_vars

-----------------------------------------------------------------------------
PricedOf == [a \in Accounts |-> redeemState[a].claimableShares]

Redemptions == INSTANCE AsyncRedeem
    WITH Controllers <- Accounts, pending <- PendingOf, priced <- PricedOf,
         owed <- ClaimsOf, cash <- idle

(***************************************************************************)
(* The contract implements AsyncRedeem: the bound on fulfillRedeem and on  *)
(* agentWithdraw is written against the running total claimableAssets, the *)
(* promise against the sum of what the controllers may claim.              *)
(***************************************************************************)
RedemptionsKept == Redemptions!Spec

-----------------------------------------------------------------------------
\* What a comment of the contract says of it, and a run refutes.

(***************************************************************************)
(* agentReturn: "returned capital is not a loss, so the epoch anchor       *)
(* follows it down rather than leaving the agent's remaining position      *)
(* looking like it lost everything that was handed back": a report that    *)
(* leaves the valuation unchanged passes both deviation bounds.            *)
(***************************************************************************)
UnchangedNavAccepted == NavDeviationOk(deployedAssets) /\ NavEpochOk(deployedAssets)
=============================================================================

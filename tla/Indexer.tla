------------------------------ MODULE Indexer -------------------------------
(***************************************************************************)
(* apps/indexer: the rows that its handlers fold out of the vault's        *)
(* events.  Ponder runs the handlers of a transaction in order and pins    *)
(* every read to its block, so the rows of a block are a function of the   *)
(* transactions before it: each call of LemonVault is taken here with the  *)
(* handlers of the events it emits.  Tables no handler reads back (flows,  *)
(* transfers, NAV points, fees), lifetime totals and the columns that only *)
(* follow the clock are left out.                                          *)
(***************************************************************************)
EXTENDS LemonVault, Integers

VARIABLES
    position,  \* position.shares by owner
    known,     \* owners that have a position row
    request,   \* redeemRequest by controller
    row        \* the vault row

rows  == <<position, known, request, row>>
ivars == <<vars, rows>>

NoRow == [pendingShares |-> 0, claimableShares |-> 0, claimableAssets |-> 0,
          requestedAt |-> 0, eligibleAt |-> 0]

\* VaultCreated: everything at its default but the limits, which are read.
IInit ==
    /\ Init
    /\ position = [h \in Holders |-> 0] /\ known = {}
    /\ request = [a \in Accounts |-> NoRow]
    /\ row = [totalAssets |-> 0, totalSupply |-> 0, idleAssets |-> 0, deployedAssets |-> 0,
              claimableAssets |-> 0, totalPendingRedeemShares |-> 0, activityCount |-> 0,
              paused |-> FALSE, emergencyExit |-> FALSE, limits |-> limits]

-----------------------------------------------------------------------------
\* Handlers.

\* syncVault: what the chain says once the transaction is done; idle is derived.
Synced(r) ==
    [r EXCEPT !.totalAssets = TotalAssets', !.totalSupply = supply',
              !.deployedAssets = deployedAssets', !.claimableAssets = claimableAssets',
              !.idleAssets = TotalAssets' + claimableAssets' - deployedAssets',
              !.totalPendingRedeemShares = totalPendingRedeemShares']

\* A call without an event, or with FeesAccrued alone: no column above moves.
NoHandler == UNCHANGED rows

OnMoved == row' = Synced(row) /\ UNCHANGED <<position, known, request>>

OnDeposit(owner, shares) ==
    /\ position' = [position EXCEPT ![owner] = @ + shares]
    /\ known' = known \cup {owner}
    /\ row' = Synced(row)
    /\ UNCHANGED request

\* Defect: the conflict clause overwrites the shares that were queued before.
QueuedOverwrites(r, shares) ==
    [r EXCEPT !.pendingShares = shares, !.requestedAt = now,
              !.eligibleAt = now + limits.minRedeemDelay]

\* One row a controller: shares add up, the dates are those of the last request.
QueuedRow(r, shares) ==
    [r EXCEPT !.pendingShares = @ + shares, !.requestedAt = now,
              !.eligibleAt = now + limits.minRedeemDelay]

\* Defect: the shares are still the holder's while they wait.
EscrowedLater(controller, shares) == position

\* The holder's row is looked for under the controller, whose row it may not be.
Escrowed(controller, shares) ==
    IF controller \in known THEN [position EXCEPT ![controller] = @ - shares] ELSE position

OnRedeemQueued(controller, shares) ==
    /\ request' = [request EXCEPT ![controller] = QueuedRow(@, shares)]
    /\ position' = Escrowed(controller, shares)
    /\ row' = Synced(row)
    /\ UNCHANGED known

FulfilledRow(r, shares, assets) ==
    [r EXCEPT !.pendingShares = @ - shares, !.claimableShares = @ + shares,
              !.claimableAssets = @ + assets]

OnRedeemFulfilled(controller, shares, assets) ==
    /\ request' = [request EXCEPT ![controller] = FulfilledRow(@, shares, assets)]
    /\ row' = Synced(row)
    /\ UNCHANGED <<position, known>>

ClaimedRow(r, shares, assets) ==
    [r EXCEPT !.claimableShares = @ - shares, !.claimableAssets = @ - assets]

OnRedeemClaimed(controller, shares, assets) ==
    /\ request' = [request EXCEPT ![controller] = ClaimedRow(@, shares, assets)]
    /\ row' = Synced(row)
    /\ UNCHANGED <<position, known>>

OnNavReported == OnMoved

\* The escrow leg, mints and burns are the other handlers' business.
BetweenHolders(from, to) == Vault \notin {from, to}

\* An update of the sender, if it has a row, and an upsert of the receiver.
OnTransfer(from, to, shares) ==
    IF BetweenHolders(from, to)
    THEN /\ position' = Credit(IF from \in known THEN Debit(position, from, shares) ELSE position,
                               to, shares)
         /\ known' = known \cup {to}
         /\ UNCHANGED <<request, row>>
    ELSE NoHandler

OnLimitsUpdated(next) ==
    row' = [row EXCEPT !.limits = next] /\ UNCHANGED <<position, known, request>>

OnSwitch ==
    /\ row' = [row EXCEPT !.paused = paused', !.emergencyExit = emergencyExit']
    /\ UNCHANGED <<position, known, request>>

OnActivityReported(n) ==
    row' = [row EXCEPT !.activityCount = @ + n] /\ UNCHANGED <<position, known, request>>

-----------------------------------------------------------------------------
\* The calls of the vault with the handlers of what they emit.  RedeemFulfilled
\* and RedeemClaimed carry what the call moved.  Nobody approves an operator here:
\* RequestRedeem for another account charges the wrong row (see the README).

MovedPending(c)    == redeemState[c].pendingShares - redeemState'[c].pendingShares
MovedClaimable(c)  == redeemState[c].claimableShares - redeemState'[c].claimableShares
OnClaim(c)         == OnRedeemClaimed(c, MovedClaimable(c), claimableAssets - claimableAssets')

IHolderStep ==
    \/ "deposit" \in Calls
       /\ \E a \in Amounts, h \in Receivers :
             Deposit(a, h) /\ OnDeposit(h, supply' - Fees.supply)
    \/ "mint" \in Calls
       /\ \E s \in ShareAmounts, h \in Receivers : Mint(s, h) /\ OnDeposit(h, s)
    \/ \E s \in ShareAmounts, x, c, o \in Accounts :
          RequestRedeem(x, s, c, o) /\ OnRedeemQueued(c, s)
    \/ \E s \in ShareAmounts, x, c \in Accounts, r \in Receivers : Redeem(x, s, r, c) /\ OnClaim(c)
    \/ "withdraw" \in Calls
       /\ \E a \in Amounts, x, c \in Accounts, r \in Receivers : Withdraw(x, a, r, c) /\ OnClaim(c)
    \/ "transfer" \in Calls
       /\ \E s \in ShareAmounts, f \in Accounts, h \in Holders :
             TransferShares(f, h, s) /\ OnTransfer(f, h, s)

IAgentStep ==
    \/ \E r \in {"agent", "guardian"}, c \in Accounts, s \in ShareAmounts :
          FulfillRedeem(r, c, s)
          /\ OnRedeemFulfilled(c, MovedPending(c), claimableAssets' - claimableAssets)
    \/ "agentWithdraw" \in Calls /\ \E a \in Amounts : AgentWithdraw(a) /\ OnMoved
    \/ "agentReturn" \in Calls /\ \E a \in Amounts : AgentReturn(a) /\ OnMoved
    \/ \E v \in NavValues, x \in Leverages : ReportNav(v, x) /\ OnNavReported
    \/ \E n \in 1 .. MaxActivity : ReportActivity(n) /\ OnActivityReported(n)

IAdminStep ==
    \/ "setLimits" \in Calls /\ \E l \in LimitChoices : SetLimits(l) /\ OnLimitsUpdated(l)
    \/ "setInsuranceFund" \in Calls /\ \E f \in Funds : SetInsuranceFund(f) /\ NoHandler
    \/ "setEmergencyExit" \in Calls /\ \E b \in BOOLEAN : SetEmergencyExit(b) /\ OnSwitch
    \/ "pause" \in Calls /\ (Pause \/ Unpause) /\ OnSwitch

IOpenStep ==
    \/ "donate" \in Calls /\ \E a \in Amounts : Donate(a) /\ NoHandler
    \/ "sendUsdc" \in Calls /\ \E a \in Amounts : SendUsdc(a) /\ NoHandler
    \/ "accrueFees" \in Calls /\ AccrueFeesCall /\ NoHandler
    \/ NextBlock /\ NoHandler

INext == IHolderStep \/ IAgentStep \/ IAdminStep \/ IOpenStep

ISpec == IInit /\ [][INext]_ivars

-----------------------------------------------------------------------------
\* Each row of the queue is the request on chain, over top-ups, partial
\* fulfilments and partial claims in either unit.
QueueRowsFollow ==
    \A a \in Accounts :
       \A f \in {"pendingShares", "claimableShares", "claimableAssets", "requestedAt"} :
          request[a][f] = redeemState[a][f]

\* The vault's row is never behind, and idleAssets, which syncVault derives
\* from an identity of totalAssets(), is the contract's USDC.
VaultRowFollows ==
    /\ row.deployedAssets = deployedAssets
    /\ row.claimableAssets = claimableAssets
    /\ row.totalPendingRedeemShares = totalPendingRedeemShares
    /\ TotalAssets + claimableAssets - deployedAssets = idle

\* Shares on the vault's own address that nobody put in the queue.
Thrown == balance[Vault] - totalPendingRedeemShares

\* schema, position: "shares deliberately excludes anything escrowed in the
\* redemption queue".  As long as nobody acts for another, no row shows less
\* than its holder has, and together they show no more than that and the
\* shares that were thrown away on the vault's own address.
PositionRowsCover ==
    /\ \A u \in Users : position[u] >= balance[u]
    /\ Total([u \in Users |-> position[u]]) <= Total([u \in Users |-> balance[u]]) + Thrown

(***************************************************************************)
(* What the agent and the pages work from is the contract's, after every   *)
(* call: each call that moves the NAV, the queue or a share has a handler  *)
(* that reads it again or folds it in.                                     *)
(***************************************************************************)
IndexFollowsChain == QueueRowsFollow /\ VaultRowFollows /\ PositionRowsCover
=============================================================================

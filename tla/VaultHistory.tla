---------------------------- MODULE VaultHistory ----------------------------
(***************************************************************************)
(* LemonVault with history variables: what the contract promises over      *)
(* several calls and several blocks, where its own state keeps only a      *)
(* summary.  The history observes steps and restrains none.                *)
(***************************************************************************)
EXTENDS LemonVault, Integers

VARIABLES
    arrivedAt,   \* when the newest pending share of each controller was queued
    drawn,       \* what the agent drew at each time under the cap and window in force
    epochProfit, \* sum of the reported changes since the NAV epoch began
    epochOut,    \* capital that was out when the epoch began plus what was drawn since
    epochBps,    \* the widest epoch bound in force since the epoch began
    anchorSpent  \* a return in this epoch used the anchor up and profit stays outside it

historyVars == <<arrivedAt, drawn, epochProfit, epochOut, epochBps, anchorSpent>>

NothingDrawn == [t \in 1 .. MaxTime |-> 0]

HInit ==
    /\ Init
    /\ arrivedAt = [a \in Accounts |-> 0]
    /\ drawn = NothingDrawn
    /\ epochProfit = 0 /\ epochOut = 0 /\ anchorSpent = FALSE
    /\ epochBps = limits.maxNavEpochDeviationBps

Drawn == IF idle' < idle /\ deployedAssets' > deployedAssets THEN idle - idle' ELSE 0

\* What a return credits, seen from the states around it.
Credited == IF idle' > idle /\ deployedAssets' < deployedAssets
            THEN deployedAssets - deployedAssets' ELSE 0

ObserveQueue ==
    arrivedAt' = [a \in Accounts |->
        IF redeemState'[a].pendingShares > redeemState[a].pendingShares THEN now
        ELSE arrivedAt[a]]

\* A new cap or window is a new promise.
ObserveDraws ==
    drawn' = IF /\ limits'.agentWithdrawWindowCap = limits.agentWithdrawWindowCap
                /\ limits'.agentWithdrawWindow = limits.agentWithdrawWindow
             THEN [drawn EXCEPT ![now] = @ + Drawn]
             ELSE NothingDrawn

ObserveEpoch ==
    IF Reported
    THEN /\ epochProfit' = (IF NavEpochOver THEN 0 ELSE epochProfit)
                           + deployedAssets' - deployedAssets
         /\ epochOut' = IF NavEpochOver THEN deployedAssets ELSE epochOut
         /\ epochBps' = IF NavEpochOver THEN limits.maxNavEpochDeviationBps ELSE epochBps
         /\ anchorSpent' = (anchorSpent /\ ~NavEpochOver)
    ELSE /\ epochProfit' = epochProfit
         /\ epochOut' = epochOut + Drawn
         /\ epochBps' = IF limits'.maxNavEpochDeviationBps > epochBps
                        THEN limits'.maxNavEpochDeviationBps ELSE epochBps
         /\ anchorSpent' = \/ anchorSpent
                           \/ Credited >= navEpochAnchor /\ deployedAssets > navEpochAnchor

HNext ==
    /\ Next
    /\ ObserveQueue
    /\ ObserveDraws
    /\ ObserveEpoch

HSpec == HInit /\ [][HNext]_<<vars, historyVars>>

(***************************************************************************)
(* Nobody leaves early: when shares leave the queue, every share of that   *)
(* bucket, the last top-up included, has been in it for the floor the      *)
(* contract compiles in, whatever the administrator sets.                  *)
(***************************************************************************)
EveryShareWaited ==
    [][\A a \in Accounts :
          redeemState'[a].pendingShares < redeemState[a].pendingShares =>
              now >= arrivedAt[a] + MIN_REDEEM_DELAY]_<<vars, historyVars>>

(***************************************************************************)
(* A sequence of reports cannot do slowly what one may not do at once: the *)
(* profit or loss reported within an epoch stays inside the widest bound   *)
(* the epoch had of the capital that was out, whatever the administrator   *)
(* set meanwhile, as long as no return used up the anchor under a profit.  *)
(***************************************************************************)
EpochProfitBounded ==
    LET bound == (epochOut * epochBps) \div BPS
    IN  anchorSpent \/ epochProfit \in -bound .. bound

\* What the agent drew in the window that ends at t.
DrawnInWindow(t) ==
    Total([s \in (t - limits.agentWithdrawWindow + 1 .. t) \cap 1 .. MaxTime |-> drawn[s]])

(***************************************************************************)
(* What the leaky bucket really bounds: while the cap and the window stay  *)
(* as they are, no interval of one window's length carries more than twice *)
(* the cap.  (The comment of agentWithdraw says "no more than the cap",    *)
(* but the counter decays at most once a window: the cap, then just under  *)
(* a window later what decayed, is nearly twice.)                          *)
(***************************************************************************)
BurstWithinTwiceCap ==
    \A t \in 1 .. now : DrawnInWindow(t) <= 2 * limits.agentWithdrawWindowCap
=============================================================================

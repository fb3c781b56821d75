---------------------------- MODULE MCLemonVault ----------------------------
(***************************************************************************)
(* Constants for the model-checking runs of LemonVault.  Basis points are  *)
(* scaled to tenths (BPS = 10), a share is worth AssetUnit = 10 at par and *)
(* one time unit is one block.                                             *)
(***************************************************************************)
EXTENDS LemonVault

Base == [managementFeeBps |-> 0, performanceFeeBps |-> 0,
         minRedeemDelay |-> 1, maxRedeemDelay |-> 2,
         maxDeployedBps |-> 9, maxNavDeviationBps |-> 3, maxNavEpochDeviationBps |-> 5,
         navEpochDuration |-> 2, minNavReportInterval |-> 1, maxNavStaleness |-> 2,
         agentWithdrawWindowCap |-> 20, agentWithdrawWindow |-> 2]

\* No fees: what moves is capital, against the bounds of a report.
CustodyLimits == {Base}

\* A cap of six in a window of three blocks, three reports to an epoch, and a
\* delay and an epoch bound that the administrator may change meanwhile.
AgentLimits ==
    LET slow == [Base EXCEPT !.agentWithdrawWindowCap = 6, !.agentWithdrawWindow = 3,
                             !.navEpochDuration = 4]
    IN  {slow, [slow EXCEPT !.minRedeemDelay = 2, !.maxNavEpochDeviationBps = 4]}

\* Both fees at the rates that move whole units of small amounts.
FeeLimits == {[Base EXCEPT !.managementFeeBps = 1, !.performanceFeeBps = 3,
                           !.agentWithdrawWindowCap = 90]}
=============================================================================

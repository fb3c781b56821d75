----------------------------- MODULE MCIndexer ------------------------------
(* The indexer over the instances of MCLemonVault. *)
EXTENDS MCLemonVault, Indexer

\* What the vault charges, and three structs that _validateLimits refuses.
Charged   == [Base EXCEPT !.managementFeeBps = 1, !.performanceFeeBps = 3, !.maxNavDeviationBps = 4]
Proposals == {Charged, [Charged EXCEPT !.minRedeemDelay = 0],
              [Charged EXCEPT !.maxNavEpochDeviationBps = 2], [Charged EXCEPT !.maxNavStaleness = 1]}
=============================================================================

------------------------------ MODULE MCFleet -------------------------------
(* Two markets, two tiers, a wallet for each, and an address that is nobody's. *)
EXTENDS Fleet

DerivedWallets == [p \in Markets \X Tiers |-> p]
AllWallets     == (Markets \X Tiers) \cup {<<"nobody", "nobody">>}
=============================================================================

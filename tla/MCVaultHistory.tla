--------------------------- MODULE MCVaultHistory ---------------------------
(* The vault's history over the instances of MCLemonVault. *)
EXTENDS MCLemonVault, VaultHistory
=============================================================================

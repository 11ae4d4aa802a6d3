---------------------------- MODULE MCDuressVault ----------------------------
(* The instance on which TLC checks DuressVault and its refinement.        *)
EXTENDS VaultRefinement
=============================================================================

-------------------------- MODULE MCIsolatedClient --------------------------
(* Instances of IsolatedClient for TLC; the calls are interchangeable.     *)
EXTENDS IsolatedClient, TLC

Symmetry == Permutations(Caller)
=============================================================================

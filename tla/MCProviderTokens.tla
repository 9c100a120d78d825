-------------------------- MODULE MCProviderTokens --------------------------
(* Instances of ProviderTokens for TLC. *)
EXTENDS ProviderTokens, TLC

Symmetry == Permutations(States) \cup Permutations(Grants) \cup Permutations(Procs)
=============================================================================

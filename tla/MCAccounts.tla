----------------------------- MODULE MCAccounts -----------------------------
(* Instances of Accounts for TLC. *)
EXTENDS Accounts, TLC

Symmetry == Permutations(Ids) \cup Permutations(Emails) \cup Permutations(Creds)
              \cup Permutations(Passwords) \cup Permutations(Reqs)
=============================================================================

---------------------------- MODULE MCTransactions ----------------------------
(* Instances of TransactionLabels and of Classification for TLC: the labels, *)
(* and the mutes, categories and buckets of transactions.  They share no     *)
(* table but transactions, and no column of it: a behaviour moves one part   *)
(* and leaves the other where it starts.                                     *)
EXTENDS TransactionLabels, Classification, TLC

CONSTANTS f1, a, k

VARIABLE part

Everything == Txns \X (MutePatterns \cup Fragments)
ByLength == f1 :> 1
OneDefault == {<<"bucket", k>>}

MCInit == part \in {"labels", "columns"} /\ Init /\ ClassificationInit

MCNext ==
  /\ UNCHANGED part
  /\ \/ part = "labels" /\ Next /\ UNCHANGED txnVars
     \/ part = "columns" /\ ClassificationNext /\ UNCHANGED vars

MCSpec == MCInit /\ [][MCNext]_<<vars, txnVars, part>>

Symmetry ==
    Permutations(Messages) \cup Permutations(Labels) \cup Permutations(Patterns)
       \cup Permutations(Clients) \cup Permutations(MutePatterns)
=============================================================================

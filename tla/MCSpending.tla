----------------------------- MODULE MCSpending -----------------------------
(* Instances of Spending for TLC. *)
EXTENDS Spending, TLC

CONSTANTS food, fastfood

Amounts == 1 :> 1 @@ 2 :> 2
Called == {food, fastfood, Uncategorized}
Containing == {<<n, n>> : n \in Called} \cup {<<fastfood, food>>}

\* Untagged and tagged rows at any time; at noon rows with any tags; and a row
\* whose category and label are called as the slice of what has none.
SomeRows ==
  {[ts |-> t, val |-> [c \in Dimensions |-> n], labels |-> {}, muted |-> FALSE, byMerchant |-> FALSE]
     : t \in 0 .. 7, n \in {Untagged, food}}
  \cup
  {[ts |-> 3, val |-> [category |-> n, bank |-> m], labels |-> S, muted |-> u, byMerchant |-> FALSE]
     : n \in {food, fastfood, Untagged}, m \in {Untagged, fastfood}, S \in SUBSET {food, fastfood}, u \in BOOLEAN}
  \cup
  {[ts |-> 3, val |-> [category |-> Uncategorized, bank |-> Untagged], labels |-> {Uncategorized},
    muted |-> FALSE, byMerchant |-> FALSE]}

Zones == -1 .. 1
=============================================================================

----------------------------- MODULE DaemonService -----------------------------
(***************************************************************************)
(* What the daemon controller promises: runs follow one another, never two *)
(* at a time, and once Close has returned without an error no run is alive *)
(* and none is launched.                                                   *)
(***************************************************************************)
EXTENDS Naturals

VARIABLES
    live,   \* the ids of the runs that are alive
    count,  \* number of runs launched so far
    open    \* Close has not returned successfully

vars == <<live, count, open>>

Init == live = {} /\ count = 0 /\ open = TRUE

Launch ==
    /\ open
    /\ live = {}
    /\ count' = count + 1
    /\ live' = {count + 1}
    /\ UNCHANGED open

End ==
    /\ live # {}
    /\ live' = {}
    /\ UNCHANGED <<count, open>>

Close ==
    /\ live = {}
    /\ open' = FALSE
    /\ UNCHANGED <<live, count>>

Next == Launch \/ End \/ Close

Spec == Init /\ [][Next]_vars
=============================================================================

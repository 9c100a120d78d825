---------------------------- MODULE MailDelivery ----------------------------
(***************************************************************************)
(* What scanning promises of a tenant's mail: a run takes mail that has    *)
(* arrived, what it takes is stored in any order and any number at a time, *)
(* and only mail that the run has taken and that is stored is marked, so   *)
(* that later scans leave it out.  A run may end at any time, but says     *)
(* that all went well only if everything it took is stored.                *)
(***************************************************************************)
CONSTANTS Messages, Modes

VARIABLES
    arrived,  \* the messages in the mailbox,
    stored,   \* those with a transaction in the database,
    marked,   \* and those that scans skip
    run,      \* the kind of run under way, or "idle"
    taken,    \* what this run, or the last one, has taken
    result    \* how the last run ended

vars == <<arrived, stored, marked, run, taken, result>>

Init ==
    /\ arrived = {} /\ stored = {} /\ marked = {}
    /\ run = "idle" /\ taken = {} /\ result = "none"

Arrive ==
    /\ \E m \in Messages \ arrived : arrived' = arrived \cup {m}
    /\ UNCHANGED <<stored, marked, run, taken, result>>

Begin ==
    /\ run = "idle" /\ run' \in Modes
    /\ taken' = {} /\ result' = "none"
    /\ UNCHANGED <<arrived, stored, marked>>

Take ==
    /\ run # "idle"
    /\ \E m \in arrived : taken' = taken \cup {m}
    /\ UNCHANGED <<arrived, stored, marked, run, result>>

Store ==
    /\ run # "idle"
    /\ \E S \in SUBSET taken : stored' = stored \cup S
    /\ UNCHANGED <<arrived, marked, run, taken, result>>

(* A rescan leaves the marks alone.                                        *)
Mark ==
    /\ run \notin {"idle", "rescan"}
    /\ \E m \in taken \cap stored : marked' = marked \cup {m}
    /\ UNCHANGED <<arrived, stored, run, taken, result>>

End ==
    /\ run # "idle" /\ run' = "idle"
    /\ result' \in {"ok", "failed", "none"}
    /\ result' = "ok" => taken \subseteq stored
    /\ UNCHANGED <<arrived, stored, marked, taken>>

Next == Arrive \/ Begin \/ Take \/ Store \/ Mark \/ End

Spec == Init /\ [][Next]_vars
=============================================================================

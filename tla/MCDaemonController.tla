-------------------------- MODULE MCDaemonController --------------------------
(* Small instances of DaemonController for TLC.                            *)
EXTENDS DaemonController, TLC

Symmetry == Permutations(Requests) \cup Permutations(Callers)
=============================================================================

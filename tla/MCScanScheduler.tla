--------------------------- MODULE MCScanScheduler ---------------------------
(* Instances of ScanScheduler for TLC.                                     *)
EXTENDS ScanScheduler, TLC

Symmetry == Permutations(Tenants) \cup Permutations(Readers)
=============================================================================

-------------------------- MODULE MCClassification --------------------------
(* Small instances of Classification for TLC. *)
EXTENDS Classification, TLC

Symmetry == Permutations(Pid) \cup Permutations(Session) \cup Permutations(Dir)
=============================================================================

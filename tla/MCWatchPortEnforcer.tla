------------------------ MODULE MCWatchPortEnforcer ------------------------
(* Small instances of WatchPortEnforcer for TLC. *)
EXTENDS WatchPortEnforcer, TLC

CONSTANTS enforcer, w1, w2, u1, m1, m2, p1, p2

Symmetry == Permutations(Member) \cup Permutations(Port \ NewPort) \cup Permutations(Writer)
=============================================================================

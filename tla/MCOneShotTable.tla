--------------------------- MODULE MCOneShotTable ---------------------------
(* OneShotTable on small instances. Keys, ids and handles are only compared *)
(* for equality.                                                            *)
EXTENDS OneShotTable, TLC

Symmetry == Permutations(Key) \cup Permutations(MemberH) \cup Permutations(GroupH)
=============================================================================

------------------------- MODULE MCAccessArbitration -------------------------
(* Small instances of AccessArbitration for TLC. *)
EXTENDS AccessRefinement, TLC

CONSTANTS t1, t2, t3

(* Table 1 is implemented by action profile 3 or by none; action profile 4 *)
(* is there so that one_of has a choice.                                   *)
MCP4Infos == {[t \in {1} |-> 3], [t \in {1} |-> PI_INVALID_ID]}

=============================================================================

-------------------------- MODULE MCP4RuntimeServer --------------------------
(* TLC instances of P4RuntimeServer. *)
EXTENDS P4RuntimeServer, TLC

Symmetry == Permutations(Stream) \cup Permutations(Device)
=============================================================================

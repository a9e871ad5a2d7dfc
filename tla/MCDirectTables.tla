--------------------------- MODULE MCDirectTables ---------------------------
(* TLC instance of DirectTables: a table of two rules on NP4 with one or   *)
(* two ATOMs, and on a target with ageing.                                 *)
EXTENDS DirectTables

C(t, k, n, i, w) == [target |-> t, kind |-> k, atoms |-> n, idle |-> i, writes |-> w]
Configurations == {C("np4", "exact", 2, FALSE, 4), C("np4", "ternary", 1, FALSE, 3), C("np4", "lpm", 1, TRUE, 3),
                   C("ageing", "exact", 1, TRUE, 3)}
B(a, t, m, r) == [act |-> a, info |-> [ttl |-> t, meta |-> m], res |-> r]
Written == {B("a1", 0, 0, 0), B("a2", 0, 7, 3), B("a2", 1, 7, 0)}
=============================================================================

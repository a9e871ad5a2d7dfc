-------------------------- MODULE MCPipelineConfig --------------------------
(* TLC instance of PipelineConfig: one device on each target with all SET  *)
(* actions, and two devices that come and go.                              *)
EXTENDS PipelineConfig

All == {"VERIFY", "VERIFY_AND_SAVE", "VERIFY_AND_COMMIT", "RECONCILE_AND_COMMIT", "COMMIT"}
Saving == {"VERIFY_AND_SAVE", "VERIFY_AND_COMMIT", "COMMIT"}
S(t, ds, as, n, x) == [target |-> t, devs |-> ds, acts |-> as, calls |-> n, destroys |-> x,
                       configs |-> {"c1", "c2"}, ents |-> {"e1", "e2"}, packets |-> 0]
SetupSet == {S("mock", {"d1"}, All \ {"VERIFY"}, 3, FALSE),
             [S("mock", {"d1"}, {"VERIFY_AND_COMMIT"}, 4, TRUE) EXCEPT !.packets = 1, !.ents = {}],
             S("np4", {"d1"}, All \ {"VERIFY_AND_SAVE"}, 3, FALSE), S("np4", {"d1"}, Saving, 3, FALSE),
             [S("np4dpdk", {"d1"}, Saving, 4, TRUE) EXCEPT !.packets = 1, !.ents = {}, !.configs = {"c1"}],
             [S("mock", {"d1", "d2"}, {"VERIFY_AND_COMMIT"}, 5, TRUE) EXCEPT !.ents = {}, !.configs = {"c1"}]}
FitsOf == [e \in {"e1", "e2"} |-> IF e = "e1" THEN {"c1", "c2"} ELSE {"c1"}]
=============================================================================

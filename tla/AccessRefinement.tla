--------------------------- MODULE AccessRefinement ---------------------------
(***************************************************************************)
(* AccessArbitration implements AccessPolicy: forget the calls that wait   *)
(* and the objects without access, keep what each live object locks.       *)
(***************************************************************************)
EXTENDS AccessArbitration

KindOf(op) ==
    CASE op = "write_request"   -> "request"
      [] op = "write_id"        -> "write"
      [] op \in NoWriteOp       -> "no_write"
      [] op \in {"read", "update"} -> op

HeldBy(th) ==
    IF access[th].state = "held"
    THEN [kind |-> KindOf(access[th].op), p4_ids |-> access[th].p4_ids]
    ELSE [kind |-> "none", p4_ids |-> {}]

Policy == INSTANCE AccessPolicy WITH held <- [th \in Thread |-> HeldBy(th)]

(* The counters and p4_ids_busy decide exactly what the policy says about  *)
(* pairs of accesses: a constructor returns only when every live access    *)
(* admits the new one, and an access only ends by its own destructor.      *)
ImplementsPolicy == Policy!Spec
=============================================================================

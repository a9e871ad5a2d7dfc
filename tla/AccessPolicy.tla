----------------------------- MODULE AccessPolicy -----------------------------
(***************************************************************************)
(* What the lock of the frontend promises, without counters, busy sets or  *)
(* a condition variable: which Access objects may be alive together.       *)
(* AccessArbitration implements it (see AccessRefinement).                 *)
(***************************************************************************)
CONSTANTS
    Thread,
    P4Id

VARIABLE
    held    \* held[th]: the access th owns, or Nothing

Kind == {"request", "write", "no_write", "read", "update"}
Nothing == [kind |-> "none", p4_ids |-> {}]
Access == [kind : Kind, p4_ids : SUBSET P4Id]

(* h is alive: may g be granted?  Accesses that lock ids coexist when the  *)
(* ids are disjoint; readers coexist with readers and with no_write; a     *)
(* write request is admitted during an update, nothing else is.            *)
Admits(h, g) ==
    \/ /\ {h.kind, g.kind} \subseteq {"request", "write", "no_write"}
       /\ h.p4_ids \cap g.p4_ids = {}
    \/ h.kind \in {"read", "no_write"} /\ g.kind = "read"
    \/ h.kind = "read" /\ g.kind = "no_write"
    \/ h.kind = "update" /\ g.kind = "request"

Init == held = [th \in Thread |-> Nothing]

Acquire(th, g) ==
    /\ held[th] = Nothing
    /\ \A other \in Thread : held[other] # Nothing => Admits(held[other], g)
    /\ held' = [held EXCEPT ![th] = g]

Release(th) ==
    /\ held[th] # Nothing
    /\ held' = [held EXCEPT ![th] = Nothing]

Next == \E th \in Thread : Release(th) \/ \E g \in Access : Acquire(th, g)

Spec == Init /\ [][Next]_held
=============================================================================

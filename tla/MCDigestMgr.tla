----------------------------- MODULE MCDigestMgr -----------------------------
(* TLC instances of DigestMgr. *)
EXTENDS DigestMgr

C(max, acked, size) ==
    [set |-> TRUE, max_timeout |-> max, ack_timeout |-> acked, max_list_size |-> size]

(* Each sweep alone and both; a list that fills up and one that does not. *)
MCConfig == {C(TRUE, FALSE, 0), C(FALSE, TRUE, 0), C(TRUE, TRUE, 2)}
=============================================================================

---------------------------- MODULE DeviceVector ----------------------------
(***************************************************************************)
(* The array under the device registry of the PI core (lib/vector.c): s is *)
(* its memory, one element per slot, and n its size; what lies past the    *)
(* size is still there.                                                    *)
(***************************************************************************)
EXTENDS Integers, Sequences

ESize == 32     \* sizeof(pi_device_info_t)
vector_push_back_empty(s, n, zeroed) == IF n < Len(s) THEN [s EXCEPT ![n + 1] = zeroed] ELSE Append(s, zeroed)
vector_remove(s, n, i) == [k \in 1..Len(s) |-> IF k > i /\ k < n THEN s[k + 1] ELSE s[k]]
\* vector_remove_e hands a byte offset to vector_remove as the index, and
\* vector_remove asserts that the index is below the size.
RemovedIndex(slot) == (slot - 1) * ESize
vector_remove_asserts(n, slot) == RemovedIndex(slot) >= n
=============================================================================

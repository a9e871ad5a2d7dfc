------------------------- MODULE MCPacketReplication -------------------------
(* TLC instance of PacketReplication: replicas of one or two instances.    *)
EXTENDS PacketReplication

R(i, p) == [instance |-> i, port |-> p]
ReplicaLists == {<<R(1, 0), R(1, 2)>>, <<R(1, 1), R(2, 0)>>, <<R(2, 1), R(2, 1)>>}
=============================================================================

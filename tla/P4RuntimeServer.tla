--------------------------- MODULE P4RuntimeServer ---------------------------
(***************************************************************************)
(* proto/server/pi_server.cpp: the gRPC service.  DeviceState keeps the    *)
(* connections of a device in a std::set ordered by election id; the one   *)
(* with the highest id is the master.  StreamChannel is one thread per     *)
(* open stream; Write and SetForwardingPipelineConfig are one thread per   *)
(* call.  One step is one critical section of DeviceState::m.              *)
(***************************************************************************)
EXTENDS Naturals, FiniteSets

CONSTANTS
    Stream,             \* calls of StreamChannel
    Rpc,                \* calls of Write and SetForwardingPipelineConfig
    Device,
    ElectionId,         \* election ids clients use
    max_connections,
    MaxRequests,        \* bound on the arbitration requests of a stream
    MaxPackets          \* bound on the packets of a stream, in each direction

ASSUME ServerAssumption ==
    /\ IsFiniteSet(Stream) /\ ElectionId \subseteq Nat
    /\ max_connections \in Nat
    /\ "none" \notin Device
    /\ MaxRequests \in Nat /\ MaxPackets \in Nat

NoConnection == [device |-> "none", election_id |-> 0]
NoId == {}     \* an optional election id is a set: the field is not set in the request
Untold == [election_id |-> 0, code |-> "none"]

VARIABLES
    stream,         \* the StreamChannel calls: new, reading, returning, done
    connection,     \* connection_status of each StreamChannel call
    connections,    \* DeviceState::connections
    device_mgr,     \* devices that have a DeviceMgr
    cb_registered,  \* devices whose DeviceMgr can send stream messages
    told,           \* the last arbitration message written to each stream
    pkt_in,         \* packets written to each stream
    pkt_out,        \* packets accepted from each stream
    rpc,            \* the Write and SetForwardingPipelineConfig calls
    aborted,        \* an assert failed
    requests,
    was_master,     \* history: the id of the call was the master's since the call
    collided        \* history: devices where update_connection found the new id taken

streams == <<stream, connection, connections, told, requests>>
vars == <<streams, device_mgr, cb_registered, pkt_in, pkt_out, rpc, aborted, was_master,
          collided>>

IdleRpc == [pc |-> "idle", method |-> "Write", device |-> "none", election_id |-> NoId]

Init ==
    /\ stream = [s \in Stream |-> "new"]
    /\ connection = [s \in Stream |-> NoConnection]
    /\ connections = [d \in Device |-> {}]
    /\ device_mgr = {} /\ cb_registered = {}
    /\ told = [s \in Stream |-> Untold]
    /\ pkt_in = [s \in Stream |-> 0] /\ pkt_out = [s \in Stream |-> 0]
    /\ rpc = [r \in Rpc |-> IdleRpc]
    /\ aborted = FALSE
    /\ requests = [s \in Stream |-> 0]
    /\ was_master = {} /\ collided = {}
-----------------------------------------------------------------------------
(* get_master() = s for the ids in conn and the set of connections conns. *)
Master(s, conns, conn) ==
    s \in conns /\ \A t \in conns : conn[t].election_id <= conn[s].election_id

(* std::set::find: the comparison knows connections by election id only. *)
Find(conns, conn, e) == {t \in conns : conn[t].election_id = e}

(* notify_one for every stream of who, on the state after the update. *)
Notify(who, conns, conn) ==
    \/ who = {} /\ UNCHANGED told
    \/ \E master \in conns :
         /\ Master(master, conns, conn)
         /\ told' = [t \in Stream |->
                       IF t \in who
                       THEN [election_id |-> conn[master].election_id,
                             code |-> IF Master(t, conns, conn) THEN "OK" ELSE "ALREADY_EXISTS"]
                       ELSE told[t]]
notify_all(conns, conn) == Notify(conns, conns, conn)
notify_one(s, conns, conn) == Notify({s}, conns, conn)

(* assert(connection_it != connections.end()) *)
Abort ==
    /\ aborted' = TRUE
    /\ UNCHANGED <<streams, device_mgr, cb_registered, pkt_in, pkt_out, rpc>>
-----------------------------------------------------------------------------
StreamChannel(s) ==
    /\ stream[s] = "new"
    /\ stream' = [stream EXCEPT ![s] = "reading"]
    /\ UNCHANGED <<connection, connections, told, requests, device_mgr, cb_registered,
                   pkt_in, pkt_out, rpc, aborted>>

(* Mutant: a new connection is told its own role only. *)
add_connection_notify_one(s, d, e) ==
    /\ stream[s] = "reading" /\ connection[s] = NoConnection
    /\ requests' = [requests EXCEPT ![s] = @ + 1]
    /\ IF Cardinality(connections[d]) >= max_connections
          \/ Find(connections[d], connection, e) # {}
       THEN /\ stream' = [stream EXCEPT ![s] = "done"]
            /\ UNCHANGED <<connection, connections, told>>
       ELSE /\ connection' = [connection EXCEPT ![s] = [device |-> d, election_id |-> e]]
            /\ connections' = [connections EXCEPT ![d] = @ \cup {s}]
            /\ notify_one(s, connections'[d], connection')
            /\ UNCHANGED stream
    /\ UNCHANGED <<device_mgr, cb_registered, pkt_in, pkt_out, rpc, aborted>>

(* The first arbitration request of a stream.  On failure StreamChannel    *)
(* releases the connection, so that nothing is cleaned up on return.       *)
add_connection(s, d, e) ==
    /\ stream[s] = "reading" /\ connection[s] = NoConnection
    /\ requests' = [requests EXCEPT ![s] = @ + 1]
    /\ IF Cardinality(connections[d]) >= max_connections
          \/ Find(connections[d], connection, e) # {}
       THEN /\ stream' = [stream EXCEPT ![s] = "done"]
            /\ UNCHANGED <<connection, connections, told>>
       ELSE /\ connection' = [connection EXCEPT ![s] = [device |-> d, election_id |-> e]]
            /\ connections' = [connections EXCEPT ![d] = @ \cup {s}]
            /\ IF Master(s, connections'[d], connection')
               THEN notify_all(connections'[d], connection')
               ELSE notify_one(s, connections'[d], connection')
            /\ UNCHANGED stream
    /\ UNCHANGED <<device_mgr, cb_registered, pkt_in, pkt_out, rpc, aborted>>

(* A later request for the same device.  found is what connections.find    *)
(* returns for the connection's old id.                                    *)
update_connection(s, e) ==
    LET d == connection[s].device
        found == Find(connections[d], connection, connection[s].election_id)
        others == connections[d] \ found
        moved == [connection EXCEPT ![s].election_id = e]
        taken == Find(others, connection, e) # {}
    IN
    /\ stream[s] = "reading" /\ connection[s] # NoConnection
    /\ e # connection[s].election_id    \* else: returns OK, nothing changes
    /\ \/ found = {} /\ Abort
       \/ /\ found # {} /\ taken
          /\ connections' = [connections EXCEPT ![d] = others]
          /\ connection' = moved
          /\ stream' = [stream EXCEPT ![s] = "returning"]
          /\ requests' = [requests EXCEPT ![s] = @ + 1]
          /\ UNCHANGED <<told, device_mgr, cb_registered, pkt_in, pkt_out, rpc, aborted>>
       \/ /\ found # {} /\ ~taken
          /\ connections' = [connections EXCEPT ![d] = others \cup {s}]
          /\ connection' = moved
          /\ IF (\E t \in found : Master(t, connections[d], connection))
                  # Master(s, connections'[d], moved)
             THEN notify_all(connections'[d], moved)
             ELSE notify_one(s, connections'[d], moved)
          /\ requests' = [requests EXCEPT ![s] = @ + 1]
          /\ UNCHANGED <<stream, device_mgr, cb_registered, pkt_in, pkt_out, rpc, aborted>>

(* A request for another device ends the call, and so does the client. *)
OtherDevice(s, d) ==
    /\ stream[s] = "reading" /\ connection[s] # NoConnection /\ connection[s].device # d
    /\ stream' = [stream EXCEPT ![s] = "returning"]
    /\ UNCHANGED <<connection, connections, told, requests, device_mgr, cb_registered,
                   pkt_in, pkt_out, rpc, aborted>>

ReadFails(s) ==
    /\ stream[s] = "reading"
    /\ stream' = [stream EXCEPT ![s] = "returning"]
    /\ UNCHANGED <<connection, connections, told, requests, device_mgr, cb_registered,
                   pkt_in, pkt_out, rpc, aborted>>

(* The destructor of connection_status. *)
cleanup_connection(s) ==
    LET d == connection[s].device
        found == Find(connections[d], connection, connection[s].election_id)
    IN
    \/ found = {} /\ Abort
    \/ /\ found # {}
       /\ connections' = [connections EXCEPT ![d] = @ \ found]
       /\ IF \E t \in found : Master(t, connections[d], connection)
          THEN notify_all(connections'[d], connection)
          ELSE UNCHANGED told
       /\ stream' = [stream EXCEPT ![s] = "done"]
       /\ UNCHANGED <<connection, requests, device_mgr, cb_registered, pkt_in, pkt_out,
                      rpc, aborted>>

StreamChannelReturns(s) ==
    /\ stream[s] = "returning"
    /\ \/ connection[s] # NoConnection /\ cleanup_connection(s)
       \/ /\ connection[s] = NoConnection
          /\ stream' = [stream EXCEPT ![s] = "done"]
          /\ UNCHANGED <<connection, connections, told, requests, device_mgr, cb_registered,
                         pkt_in, pkt_out, rpc, aborted>>

(* A packet-out or a digest ack: dropped unless the sender is the master   *)
(* and the device has a DeviceMgr.                                         *)
process_stream_message_request(s) ==
    /\ stream[s] = "reading" /\ connection[s] # NoConnection
    /\ LET d == connection[s].device IN
       Master(s, connections[d], connection) /\ d \in device_mgr
    /\ pkt_out[s] < MaxPackets
    /\ pkt_out' = [pkt_out EXCEPT ![s] = @ + 1]
    /\ UNCHANGED <<streams, device_mgr, cb_registered, pkt_in, rpc, aborted>>

(* stream_message_response_cb: a packet-in or digest list goes to the      *)
(* master, if there is one.                                                *)
send_stream_message(d) ==
    /\ d \in cb_registered
    /\ \E s \in connections[d] :
         /\ Master(s, connections[d], connection)
         /\ pkt_in[s] < MaxPackets
         /\ pkt_in' = [pkt_in EXCEPT ![s] = @ + 1]
    /\ UNCHANGED <<streams, device_mgr, cb_registered, pkt_out, rpc, aborted>>
-----------------------------------------------------------------------------
(* Write and SetForwardingPipelineConfig: both start with the same checks. *)
RpcOnly == UNCHANGED <<streams, pkt_in, pkt_out, aborted>>
Goto(r, pc) == rpc' = [rpc EXCEPT ![r].pc = pc]

Call(r, method, d, id) ==
    /\ rpc[r].pc = "idle"
    /\ rpc' = [rpc EXCEPT ![r] = [pc |-> "counting", method |-> method, device |-> d,
                                  election_id |-> id]]
    /\ RpcOnly /\ UNCHANGED <<device_mgr, cb_registered>>

connections_size(r) ==
    LET n == Cardinality(connections[rpc[r].device])
        pc == IF n > 0 THEN "is_master" ELSE IF rpc[r].election_id = NoId THEN "admitted"
              ELSE "PERMISSION_DENIED"
    IN
    /\ rpc[r].pc = "counting"
    /\ Goto(r, pc)
    /\ RpcOnly /\ UNCHANGED <<device_mgr, cb_registered>>

(* convert_u128 of a message whose field is not set. *)
convert_u128(id) == IF id = NoId THEN 0 ELSE CHOOSE e \in id : TRUE

(* The id of call r is the one of the master of its device. *)
IsMasterId(r) ==
    \E s \in connections[rpc[r].device] :
      /\ Master(s, connections[rpc[r].device], connection)
      /\ connection[s].election_id = convert_u128(rpc[r].election_id)

(* Mutant: a device that has lost its last connection has no one to ask. *)
is_master_or_none(r) ==
    /\ rpc[r].pc = "is_master"
    /\ Goto(r, IF connections[rpc[r].device] = {} \/ IsMasterId(r)
               THEN "admitted" ELSE "PERMISSION_DENIED")
    /\ RpcOnly /\ UNCHANGED <<device_mgr, cb_registered>>

is_master(r) ==
    /\ rpc[r].pc = "is_master"
    /\ Goto(r, IF IsMasterId(r) THEN "admitted" ELSE "PERMISSION_DENIED")
    /\ RpcOnly /\ UNCHANGED <<device_mgr, cb_registered>>

get_p4_mgr(r) ==
    /\ rpc[r].pc = "admitted" /\ rpc[r].method = "Write"
    /\ Goto(r, IF rpc[r].device \in device_mgr THEN "write" ELSE "FAILED_PRECONDITION")
    /\ RpcOnly /\ UNCHANGED <<device_mgr, cb_registered>>

get_or_add_p4_mgr(r) ==
    /\ rpc[r].pc = "admitted" /\ rpc[r].method = "SetForwardingPipelineConfig"
    /\ device_mgr' = device_mgr \cup {rpc[r].device}
    /\ Goto(r, "pipeline_config_set")
    /\ RpcOnly /\ UNCHANGED cb_registered

(* DeviceMgr does the work, with no lock of the server held. *)
Write(r) ==
    /\ rpc[r].pc = "write"
    /\ Goto(r, "returned")
    /\ RpcOnly /\ UNCHANGED <<device_mgr, cb_registered>>

SetForwardingPipelineConfig(r) ==
    /\ rpc[r].pc = "pipeline_config_set"
    /\ cb_registered' = cb_registered \cup {rpc[r].device}
    /\ Goto(r, "returned")
    /\ RpcOnly /\ UNCHANGED device_mgr
-----------------------------------------------------------------------------
Done == {"returned", "PERMISSION_DENIED", "FAILED_PRECONDITION"}
Active(r) == rpc[r].pc \notin {"idle"} \cup Done

(* The right to write: the id is the master's, or there is neither a       *)
(* connection nor an id.                                                   *)
MayWrite(r) ==
    \/ IsMasterId(r)
    \/ connections[rpc[r].device] = {} /\ rpc[r].election_id = NoId

StreamStep(s) ==
    \/ StreamChannel(s)
    \/ requests[s] < MaxRequests /\ \E d \in Device, e \in ElectionId : add_connection(s, d, e)
    \/ requests[s] < MaxRequests /\ \E e \in ElectionId : update_connection(s, e)
    \/ \E d \in Device : OtherDevice(s, d)
    \/ ReadFails(s)
    \/ StreamChannelReturns(s)
    \/ process_stream_message_request(s)

RpcStep(r) ==
    \/ \E method \in {"Write", "SetForwardingPipelineConfig"}, d \in Device,
          id \in {NoId} \cup {{e} : e \in ElectionId} : Call(r, method, d, id)
    \/ connections_size(r)
    \/ is_master(r)
    \/ get_p4_mgr(r)
    \/ get_or_add_p4_mgr(r)
    \/ Write(r)
    \/ SetForwardingPipelineConfig(r)

Next ==
    /\ ~aborted
    /\ \/ \E s \in Stream : StreamStep(s)
       \/ \E r \in Rpc : RpcStep(r)
       \/ \E d \in Device : send_stream_message(d)
    /\ was_master' = {r \in Rpc : Active(r)' /\ (r \in was_master \/ MayWrite(r)')}
    /\ collided' = collided \cup {d \in Device : \E s \in connections[d] :
                       stream'[s] = "returning" /\ s \notin connections'[d]}

Spec == Init /\ [][Next]_vars
-----------------------------------------------------------------------------
(* Every variable keeps its type. *)
TypeOK ==
    /\ stream \in [Stream -> {"new", "reading", "returning", "done"}]
    /\ connection \in [Stream -> [device : Device, election_id : ElectionId] \cup {NoConnection}]
    /\ connections \in [Device -> SUBSET Stream]
    /\ device_mgr \subseteq Device /\ cb_registered \subseteq device_mgr
    /\ told \in [Stream -> [election_id : ElectionId, code : {"OK", "ALREADY_EXISTS"}]
                             \cup {Untold}]
    /\ pkt_in \in [Stream -> 0..MaxPackets] /\ pkt_out \in [Stream -> 0..MaxPackets]
    /\ aborted \in BOOLEAN
    /\ requests \in [Stream -> 0..MaxRequests]

(* The streams that a live connection of device d belongs to. *)
Connected(d) == {s \in Stream : stream[s] \in {"reading", "returning"} /\ connection[s].device = d}

(* DeviceState::connections holds exactly the connections of the           *)
(* StreamChannel calls that have one and have not returned, at most        *)
(* max_connections of them: no call can lose another call's connection,    *)
(* as long as no client asks to change its id to one in use.               *)
RegisteredWhileOpen ==
    \A d \in Device \ collided : /\ connections[d] = Connected(d)
                      /\ Cardinality(connections[d]) <= max_connections

(* Every connected client was last told the role it has: add, update and   *)
(* cleanup notify all whose role they change (until a change of id is      *)
(* refused).                                                               *)
ToldCurrentRole ==
    \A d \in Device \ collided : \A s \in connections[d] :
      told[s].code = IF Master(s, connections[d], connection) THEN "OK" ELSE "ALREADY_EXISTS"

(* The two together, and with them the asserts of update_connection and    *)
(* cleanup_connection: only a client that asked for an id in use breaks    *)
(* them.  The variables keep their types.                                  *)
RolesFollowConnections == TypeOK /\ RegisteredWhileOpen /\ ToldCurrentRole /\ (aborted => collided # {})

(* A Write or SetForwardingPipelineConfig that passed the checks had the   *)
(* right to write at some time since it was called, although the checks    *)
(* look at the connections twice and the call acts later still.            *)
AdmittedWasMaster ==
    \A r \in Rpc : rpc[r].pc \in {"admitted", "write", "pipeline_config_set"} => r \in was_master

=============================================================================

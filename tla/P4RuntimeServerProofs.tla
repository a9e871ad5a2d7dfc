----------------------- MODULE P4RuntimeServerProofs ------------------------
(***************************************************************************)
(* AdmittedWasMaster and RolesFollowConnections hold for every number of   *)
(* streams, calls, devices and election ids, and for every limit on        *)
(* connections.                                                            *)
(***************************************************************************)
EXTENDS P4RuntimeServer, FiniteSetTheorems, TLAPS

RpcRecord ==
    [pc : {"idle", "counting", "is_master", "admitted", "write", "pipeline_config_set"} \cup Done,
     method : {"Write", "SetForwardingPipelineConfig"},
     device : Device \cup {"none"},
     election_id : {NoId} \cup {{e} : e \in ElectionId}]

Admitted == {"admitted", "write", "pipeline_config_set"}

(* The inductive invariant: what a call names, and who is connected.       *)
SInv ==
    /\ rpc \in [Rpc -> RpcRecord]
    /\ \A r \in Rpc : rpc[r].pc # "idle" => rpc[r].device \in Device
    /\ connections \in [Device -> SUBSET Stream]
    /\ connection \in [Stream -> [device : Device, election_id : ElectionId] \cup {NoConnection}]
    /\ AdmittedWasMaster

(* A set of connections of size 0 is empty: connections.empty() and        *)
(* connections.size() == 0 say the same.                                   *)
LEMMA NoneIsEmpty ==
    ASSUME SInv, NEW d \in Device
    PROVE  /\ Cardinality(connections[d]) \in Nat
           /\ Cardinality(connections[d]) = 0 => connections[d] = {}
<1>1. connections[d] \subseteq Stream
  BY DEF SInv
<1>2. IsFiniteSet(connections[d])
  BY <1>1, FS_Subset, ServerAssumption, SMTT(60) DEF ServerAssumption
<1> QED
  BY <1>2, FS_CardinalityType, FS_EmptySet, SMTT(60)

(* Nothing has been called. *)
LEMMA SInvInit == Init => SInv
<1> SUFFICES ASSUME Init PROVE SInv
  OBVIOUS
<1>1. IdleRpc \in RpcRecord
  BY DEF IdleRpc, RpcRecord
<1>2. rpc \in [Rpc -> RpcRecord] /\ \A r \in Rpc : rpc[r].pc = "idle"
  BY <1>1 DEF Init, IdleRpc
<1> QED
  BY <1>2 DEF Init, SInv, AdmittedWasMaster

(* A step that leaves the calls alone, or that ends one.                   *)
LEMMA OthersKeep ==
    ASSUME SInv, UNCHANGED rpc,
           was_master' = {r \in Rpc : Active(r)' /\ (r \in was_master \/ MayWrite(r)')}
    PROVE  AdmittedWasMaster'
<1> SUFFICES ASSUME NEW r \in Rpc, rpc'[r].pc \in Admitted PROVE r \in was_master'
  BY DEF AdmittedWasMaster, Admitted
<1>1. r \in was_master
  BY DEF SInv, AdmittedWasMaster, Admitted
<1>2. Active(r)'
  BY DEF Active, Done, Admitted
<1> QED
  BY <1>1, <1>2

(* The calls of StreamChannel keep the types of what they change.          *)
LEMMA StreamKeeps ==
    ASSUME SInv, NEW s \in Stream, StreamStep(s)
    PROVE  /\ UNCHANGED rpc
           /\ connections' \in [Device -> SUBSET Stream]
           /\ connection' \in [Stream -> [device : Device, election_id : ElectionId]
                                            \cup {NoConnection}]
<1>1. CASE StreamChannel(s) \/ ReadFails(s) \/ process_stream_message_request(s)
           \/ \E d \in Device : OtherDevice(s, d)
  BY <1>1, SMTT(60) DEF StreamChannel, ReadFails, process_stream_message_request, OtherDevice, streams, SInv
<1>2. CASE \E d \in Device, e \in ElectionId : add_connection(s, d, e)
  BY <1>2 DEF add_connection, SInv
<1>3. CASE \E e \in ElectionId : update_connection(s, e)
  <2>1. PICK e \in ElectionId : update_connection(s, e)
    BY <1>3, ZenonT(60)
  <2>2. connection[s] \in [device : Device, election_id : ElectionId]
    BY <2>1 DEF update_connection, SInv
  <2>3. [connection EXCEPT ![s].election_id = e]
          \in [Stream -> [device : Device, election_id : ElectionId] \cup {NoConnection}]
    BY <2>2 DEF SInv
  <2>4. UNCHANGED rpc
    BY <2>1, ZenonT(60) DEF update_connection, Abort
  <2>5. connections' \in [Device -> SUBSET Stream]
    <3> DEFINE d == connection[s].device
               others == connections[d] \ Find(connections[d], connection, connection[s].election_id)
    <3>1. d \in Device
      BY <2>2, SMTT(60)
    <3>2. others \subseteq Stream /\ others \cup {s} \subseteq Stream
      BY <3>1 DEF SInv
    <3>3. \/ connections' = connections
          \/ connections' = [connections EXCEPT ![d] = others]
          \/ connections' = [connections EXCEPT ![d] = others \cup {s}]
      BY <2>1, ZenonT(60) DEF update_connection, Abort, streams
    <3> HIDE DEF d, others
    <3> QED
      BY <3>1, <3>2, <3>3, SMTT(60) DEF SInv
  <2>6. connection' = connection \/ connection' = [connection EXCEPT ![s].election_id = e]
    BY <2>1, ZenonT(60) DEF update_connection, Abort, streams
  <2> QED
    BY <2>3, <2>4, <2>5, <2>6, ZenonT(60) DEF SInv
<1>4. CASE StreamChannelReturns(s)
  BY <1>4, SMTT(60) DEF StreamChannelReturns, cleanup_connection, Abort, streams, SInv
<1> QED
  BY <1>1, <1>2, <1>3, <1>4, ZenonT(60) DEF StreamStep

(* A call that moves from rights it had to rights it has.                  *)
LEMMA CallMoves ==
    ASSUME SInv, NEW r \in Rpc, NEW new \in RpcRecord, new.device \in Device,
           rpc' = [rpc EXCEPT ![r] = new],
           new.pc \in Admitted => r \in was_master \/ MayWrite(r)',
           was_master' = {q \in Rpc : Active(q)' /\ (q \in was_master \/ MayWrite(q)')},
           UNCHANGED <<connections, connection>>
    PROVE  SInv'
<1>1. /\ rpc' \in [Rpc -> RpcRecord] /\ rpc'[r] = new
      /\ \A q \in Rpc \ {r} : rpc'[q] = rpc[q]
  BY DEF SInv
<1>2. AdmittedWasMaster'
  <2> SUFFICES ASSUME NEW q \in Rpc, rpc'[q].pc \in Admitted PROVE q \in was_master'
    BY SMTT(60) DEF AdmittedWasMaster, Admitted
  <2>1. Active(q)'
    BY DEF Active, Done, Admitted
  <2>2. q \in was_master \/ MayWrite(q)'
    <3>1. CASE q = r
      BY <1>1, <3>1, ZenonT(60)
    <3>2. CASE q # r
      BY <1>1, <3>2, SMTT(60) DEF SInv, AdmittedWasMaster, Admitted
    <3> QED
      BY <3>1, <3>2, SMTT(60)
  <2> QED
    BY <2>1, <2>2, ZenonT(60)
<1>3. \A q \in Rpc : rpc'[q].pc # "idle" => rpc'[q].device \in Device
  BY <1>1, SMTT(60) DEF SInv
<1> QED
  BY <1>1, <1>2, <1>3, SMTT(60) DEF SInv

(* Every step of a call keeps the invariant: it is admitted only by the    *)
(* two checks, each of which has just seen its right to write.             *)
LEMMA RpcKeeps ==
    ASSUME SInv, NEW r \in Rpc, RpcStep(r),
           was_master' = {q \in Rpc : Active(q)' /\ (q \in was_master \/ MayWrite(q)')}
    PROVE  SInv'
<1>0. rpc[r] \in RpcRecord
  BY DEF SInv
<1> USE <1>0
<1>1. CASE \E method \in {"Write", "SetForwardingPipelineConfig"}, d \in Device,
             id \in {NoId} \cup {{e} : e \in ElectionId} : Call(r, method, d, id)
  <2>1. PICK method \in {"Write", "SetForwardingPipelineConfig"}, d \in Device,
             id \in {NoId} \cup {{e} : e \in ElectionId} : Call(r, method, d, id)
    BY <1>1, SMTT(60)
  <2> DEFINE new == [pc |-> "counting", method |-> method, device |-> d,
                     election_id |-> id]
  <2>2. new \in RpcRecord /\ new.device \in Device /\ new.pc \notin Admitted
    BY SMTT(60) DEF RpcRecord, Admitted
  <2>3. rpc' = [rpc EXCEPT ![r] = new] /\ UNCHANGED <<connections, connection>>
    BY <2>1 DEF Call, RpcOnly, streams
  <2> HIDE DEF new
  <2> QED
    BY <2>2, <2>3, CallMoves, ZenonT(60)
<1>2. CASE connections_size(r)
  <2> DEFINE n == Cardinality(connections[rpc[r].device])
             pc == IF n > 0 THEN "is_master" ELSE IF rpc[r].election_id = NoId THEN "admitted"
                   ELSE "PERMISSION_DENIED"
             new == [rpc[r] EXCEPT !.pc = pc]
  <2>1. rpc[r].device \in Device
    BY <1>2, SMTT(60) DEF connections_size, SInv
  <2>2. n \in Nat /\ (n = 0 => connections[rpc[r].device] = {})
    BY <2>1, NoneIsEmpty
  <2>3. new \in RpcRecord /\ new.device = rpc[r].device /\ new.election_id = rpc[r].election_id
        /\ new.pc = pc
    BY <2>2, ZenonT(60) DEF RpcRecord, Done
  <2>4. rpc' = [rpc EXCEPT ![r] = new] /\ UNCHANGED <<connections, connection>>
    BY <1>2, ZenonT(60) DEF connections_size, Goto, RpcOnly, streams, SInv
  <2>5. rpc'[r] = new
    BY <2>4, SMTT(60) DEF SInv
  <2>6. pc \in Admitted => connections'[rpc'[r].device] = {} /\ rpc'[r].election_id = NoId
    BY <2>2, <2>3, <2>4, <2>5, SMTT(60) DEF Admitted
  <2>7. new.pc \in Admitted => MayWrite(r)'
    BY <2>3, <2>6, SMTT(60) DEF MayWrite
  <2> HIDE DEF new
  <2> QED
    BY <2>1, <2>3, <2>4, <2>7, CallMoves, ZenonT(60)
<1>3. ASSUME NEW pc, Goto(r, pc), UNCHANGED <<connections, connection>>, rpc[r].pc # "idle",
             pc \in {"admitted", "write", "pipeline_config_set"} \cup Done,
             pc \in Admitted => r \in was_master \/ MayWrite(r)
      PROVE  SInv'
  <2> DEFINE new == [rpc[r] EXCEPT !.pc = pc]
  <2>1. /\ new \in RpcRecord /\ new.device = rpc[r].device /\ new.pc = pc
        /\ new.election_id = rpc[r].election_id
    BY <1>3, SMTT(60) DEF RpcRecord
  <2>2. new.device \in Device
    BY <1>3, <2>1, ZenonT(60) DEF SInv
  <2>3. rpc' = [rpc EXCEPT ![r] = new] /\ rpc'[r] = new
    BY <1>3, SMTT(60) DEF Goto, SInv
  <2>4. MayWrite(r) => MayWrite(r)'
    BY <1>3, <2>1, <2>3, ZenonT(60) DEF MayWrite, IsMasterId, Master, convert_u128
  <2> HIDE DEF new
  <2> QED
    BY <1>3, <2>1, <2>2, <2>3, <2>4, CallMoves, ZenonT(60)
<1>4. CASE is_master(r)
  BY <1>3, <1>4 DEF is_master, RpcOnly, streams, MayWrite, Done, Admitted
<1>5. CASE get_p4_mgr(r)
  BY <1>3, <1>5 DEF get_p4_mgr, RpcOnly, streams, Done, Admitted, SInv, AdmittedWasMaster
<1>6. CASE get_or_add_p4_mgr(r)
  BY <1>3, <1>6, ZenonT(60) DEF get_or_add_p4_mgr, RpcOnly, streams, Done, Admitted, SInv, AdmittedWasMaster
<1>7. CASE Write(r) \/ SetForwardingPipelineConfig(r)
  BY <1>3, <1>7, SMTT(60) DEF Write, SetForwardingPipelineConfig, RpcOnly, streams, Done, Admitted
<1> QED
  BY <1>1, <1>2, <1>4, <1>5, <1>6, <1>7, ZenonT(60) DEF RpcStep

(* No step breaks it. *)
LEMMA SInvStep == SInv /\ [Next]_vars => SInv'
<1> SUFFICES ASSUME SInv, [Next]_vars PROVE SInv'
  BY SMTT(60)
<1>1. CASE UNCHANGED vars
  BY <1>1, ZenonT(60) DEF vars, streams, SInv, AdmittedWasMaster
<1>2. CASE Next
  <2>1. was_master' = {r \in Rpc : Active(r)' /\ (r \in was_master \/ MayWrite(r)')}
    BY <1>2, SMTT(60) DEF Next
  <2>2. CASE \E s \in Stream : StreamStep(s)
    <3>1. UNCHANGED rpc
      BY <2>2, StreamKeeps, SMTT(60)
    <3>2. AdmittedWasMaster'
      BY <2>1, <3>1, OthersKeep, SMTT(60)
    <3> QED
      BY <2>2, <3>1, <3>2, StreamKeeps, SMTT(60) DEF SInv
  <2>3. CASE \E r \in Rpc : RpcStep(r)
    BY <2>1, <2>3, RpcKeeps, SMTT(60)
  <2>4. CASE \E d \in Device : send_stream_message(d)
    <3>1. UNCHANGED <<rpc, connections, connection>>
      BY <2>4, SMTT(60) DEF send_stream_message, streams
    <3>2. AdmittedWasMaster'
      BY <2>1, <3>1, OthersKeep, SMTT(60)
    <3> QED
      BY <3>1, <3>2, SMTT(60) DEF SInv
  <2> QED
    BY <1>2, <2>2, <2>3, <2>4, SMTT(60) DEF Next
<1> QED
  BY <1>1, <1>2

(* However streams come, change their ids and leave: a Write or            *)
(* SetForwardingPipelineConfig that passes the two checks of pi_server.cpp *)
(* had the right to write at some time since it was called.                *)
THEOREM Admission == Spec => []AdmittedWasMaster
<1>1. SInv => AdmittedWasMaster
  BY DEF SInv
<1> QED
  BY SInvInit, SInvStep, <1>1, PTL DEF Spec

-----------------------------------------------------------------------------
(* Roles.  What holds of a device on which no change of id was refused.    *)
Distinct(conns, conn) ==
    \A t, u \in conns : conn[t].election_id = conn[u].election_id => t = u
Role(t, conns, conn) == IF Master(t, conns, conn) THEN "OK" ELSE "ALREADY_EXISTS"
Good(d) ==
    /\ connections[d] = Connected(d)
    /\ Cardinality(connections[d]) <= max_connections
    /\ Distinct(connections[d], connection)
    /\ \A t \in connections[d] : told[t].code = Role(t, connections[d], connection)

Ids(conns, conn) == \A t \in conns : conn[t].election_id \in Nat

(* A registered connection is one of the device, a stream that has not     *)
(* begun has none, and a device is good until a change of id collides.     *)
Streams ==
    /\ TypeOK
    /\ \A s \in Stream : stream[s] = "new" => connection[s] = NoConnection
    /\ \A d \in Device : \A t \in connections[d] : connection[t].device = d
    /\ \A d \in Device \ collided : Good(d)
    /\ aborted => collided # {}

(* The inductive invariant.                                                *)
RInv ==
    /\ SInv
    /\ Streams
    /\ collided \subseteq Device
    /\ \A r \in Rpc : rpc[r].pc = "pipeline_config_set" => rpc[r].device \in device_mgr

(* The history variable, as Next updates it. *)
Collides ==
    collided' = collided \cup {d \in Device : \E s \in connections[d] :
                                  stream'[s] = "returning" /\ s \notin connections'[d]}

(* A connection that comes, changes its id or goes without being or        *)
(* becoming the master changes nobody else's role.                         *)
LEMMA AddRoles ==
    ASSUME NEW conns, NEW conn, NEW moved, NEW s, s \notin conns,
           Ids(conns \cup {s}, moved), \A t \in conns : moved[t] = conn[t],
           ~Master(s, conns \cup {s}, moved)
    PROVE  \A t \in conns : Master(t, conns \cup {s}, moved) <=> Master(t, conns, conn)
BY DEF Master, Ids

LEMMA RemoveRoles ==
    ASSUME NEW conns, NEW conn, NEW s \in conns, Ids(conns, conn),
           ~Master(s, conns, conn)
    PROVE  \A t \in conns \ {s} : Master(t, conns \ {s}, conn) <=> Master(t, conns, conn)
BY SMTT(60) DEF Master, Ids

LEMMA MoveRoles ==
    ASSUME NEW conns, NEW conn, NEW moved, NEW s \in conns,
           Ids(conns, conn), Ids(conns, moved), \A t \in conns \ {s} : moved[t] = conn[t],
           Distinct(conns, conn), Distinct(conns, moved),
           Master(s, conns, conn) <=> Master(s, conns, moved)
    PROVE  \A t \in conns \ {s} : Master(t, conns, moved) <=> Master(t, conns, conn)
<1>1. CASE Master(s, conns, conn)
  BY <1>1, SMTT(60) DEF Master, Ids, Distinct
<1>2. CASE ~Master(s, conns, conn)
  BY <1>2, SMTT(60) DEF Master, Ids, Distinct
<1> QED
  BY <1>1, <1>2, ZenonT(60)

(* What a notification tells, and whom. *)
LEMMA Told ==
    ASSUME TypeOK, NEW who, NEW conns, NEW conn, Notify(who, conns, conn),
           who \subseteq Stream, \A t \in conns : conn[t].election_id \in ElectionId
    PROVE  /\ told' \in [Stream -> [election_id : ElectionId, code : {"OK", "ALREADY_EXISTS"}]
                                     \cup {Untold}]
           /\ \A t \in who : told'[t].code = Role(t, conns, conn)
           /\ \A t \in Stream \ who : told'[t] = told[t]
<1>1. CASE who = {} /\ UNCHANGED told
  BY <1>1, ZenonT(60) DEF TypeOK
<1>2. CASE \E master \in conns :
             /\ Master(master, conns, conn)
             /\ told' = [t \in Stream |->
                           IF t \in who
                           THEN [election_id |-> conn[master].election_id,
                                 code |-> IF Master(t, conns, conn) THEN "OK" ELSE "ALREADY_EXISTS"]
                           ELSE told[t]]
  BY <1>2, SMTT(60) DEF TypeOK, Role
<1> QED
  BY <1>1, <1>2, ZenonT(60) DEF Notify

(* A step of a stream that is not of device d. *)
LEMMA OtherDevices ==
    ASSUME RInv, NEW d \in Device, Good(d), NEW s \in Stream,
           connection[s].device # d, connection'[s].device # d,
           connections'[d] = connections[d],
           \A t \in Stream \ {s} : stream'[t] = stream[t] /\ connection'[t] = connection[t],
           \A t \in connections[d] : told'[t] = told[t]
    PROVE  Good(d)'
<1>1. connections[d] \subseteq Stream \ {s}
  BY SMTT(60) DEF RInv, Streams, TypeOK
<1>2. Connected(d)' = Connected(d)
  BY SMTT(60) DEF Connected
<1>3. \A t \in connections[d] : connection'[t] = connection[t]
  BY <1>1, ZenonT(60)
<1>4. \A t \in connections[d] :
        Master(t, connections'[d], connection') <=> Master(t, connections[d], connection)
  BY <1>3, ZenonT(60) DEF Master
<1> QED
  BY <1>2, <1>3, <1>4, SMTT(60) DEF Good, Distinct, Role

(* Steps that change no connection and tell nobody. *)
LEMMA QuietKeeps ==
    ASSUME RInv, TypeOK', Collides,
           UNCHANGED <<connection, connections, told, aborted>>,
           \A t \in Stream : /\ stream'[t] = "new" => stream[t] = "new"
                             /\ (stream'[t] \in {"reading", "returning"}
                                   <=> stream[t] \in {"reading", "returning"})
                                \/ connection[t] = NoConnection
    PROVE  Streams'
<1>1. collided' = collided
  BY SMTT(60) DEF Collides
<1>2. \A d \in Device : Connected(d)' = Connected(d)
  BY ServerAssumption, SMTT(60) DEF Connected, ServerAssumption, NoConnection
<1>3. \A d \in Device : Good(d) => Good(d)'
  BY <1>2, SMTT(60) DEF Good, Distinct, Role, Master
<1> QED
  BY <1>1, <1>3, SMTT(60) DEF RInv, Streams

(* A stream with a connection has one of a device and an election id. *)
LEMMA HasConnection ==
    ASSUME RInv, NEW s \in Stream, connection[s] # NoConnection
    PROVE  connection[s] \in [device : Device, election_id : ElectionId]
BY SMTT(60) DEF RInv, SInv

(* The registered connections have ids that can be compared. *)
LEMMA HaveIds ==
    ASSUME RInv, NEW d \in Device
    PROVE  /\ connections[d] \subseteq Stream
           /\ \A t \in connections[d] : /\ connection[t] # NoConnection
                                        /\ connection[t].election_id \in ElectionId
           /\ Ids(connections[d], connection)
<1>1. connections[d] \subseteq Stream
  BY SMTT(60) DEF RInv, SInv
<1>2. \A t \in connections[d] : connection[t].device = d
  BY SMTT(60) DEF RInv, Streams
<1>3. \A t \in connections[d] : connection[t] # NoConnection
  BY <1>2, ServerAssumption, SMTT(60) DEF ServerAssumption, NoConnection
<1>4. \A t \in connections[d] : connection[t].election_id \in ElectionId
  BY <1>1, <1>3, HasConnection, ZenonT(60)
<1> QED
  BY <1>1, <1>3, <1>4, ServerAssumption, ZenonT(60) DEF Ids, ServerAssumption

(* On a good device an open stream finds its own connection, and no other. *)
LEMMA FindsOwn ==
    ASSUME RInv, NEW s \in Stream, connection[s] # NoConnection,
           stream[s] \in {"reading", "returning"}, Good(connection[s].device)
    PROVE  /\ s \in connections[connection[s].device]
           /\ Find(connections[connection[s].device], connection, connection[s].election_id) = {s}
BY DEF Good, Connected, Distinct, Find

(* add_connection *)
LEMMA AddKeeps ==
    ASSUME RInv, NEW s \in Stream, NEW d \in Device, NEW e \in ElectionId,
           requests[s] < MaxRequests, add_connection(s, d, e), Collides
    PROVE  Streams'
<1>1. CASE Cardinality(connections[d]) >= max_connections
           \/ Find(connections[d], connection, e) # {}
  <2>1. /\ stream' = [stream EXCEPT ![s] = "done"] /\ connection[s] = NoConnection
        /\ requests' = [requests EXCEPT ![s] = @ + 1]
        /\ UNCHANGED <<connection, connections, told, device_mgr, cb_registered, pkt_in, pkt_out,
                       aborted>>
    BY <1>1, ZenonT(60) DEF add_connection
  <2>2. TypeOK'
    BY <2>1, ServerAssumption, SMTT(60) DEF RInv, Streams, TypeOK, ServerAssumption
  <2> QED
    BY <2>1, <2>2, QuietKeeps, ZenonT(60) DEF RInv, Streams, TypeOK
<1>2. CASE ~(Cardinality(connections[d]) >= max_connections
             \/ Find(connections[d], connection, e) # {})
  <2> DEFINE conns == connections[d] \cup {s}
             conn == [connection EXCEPT ![s] = [device |-> d, election_id |-> e]]
  <2>1. /\ stream[s] = "reading" /\ connection[s] = NoConnection
        /\ connection' = conn
        /\ connections' = [connections EXCEPT ![d] = conns]
        /\ requests' = [requests EXCEPT ![s] = @ + 1]
        /\ UNCHANGED <<stream, device_mgr, cb_registered, pkt_in, pkt_out, aborted>>
    BY <1>2, ZenonT(60) DEF add_connection
  <2>2. /\ connections'[d] = conns /\ \A c \in Device \ {d} : connections'[c] = connections[c]
        /\ conn[s] = [device |-> d, election_id |-> e]
        /\ \A t \in Stream \ {s} : conn[t] = connection[t]
    BY <2>1, SMTT(60) DEF RInv, SInv
  <2>3. s \notin connections[d] /\ conns \subseteq Stream
    BY <2>1, HaveIds, ZenonT(60)
  <2>4. /\ \A t \in conns : conn[t].election_id \in ElectionId
        /\ Ids(conns, conn)
    BY <2>2, <2>3, HaveIds, ServerAssumption, SMTT(60) DEF Ids, ServerAssumption
  <2>5. \/ Master(s, conns, conn) /\ Notify(conns, conns, conn)
        \/ ~Master(s, conns, conn) /\ Notify({s}, conns, conn)
    BY <1>2, <2>1, <2>2, ZenonT(60) DEF add_connection, notify_all, notify_one
  <2> HIDE DEF conns, conn
  <2>6. /\ told' \in [Stream -> [election_id : ElectionId, code : {"OK", "ALREADY_EXISTS"}]
                                  \cup {Untold}]
        /\ \A t \in Stream \ conns : told'[t] = told[t]
        /\ told'[s].code = Role(s, conns, conn)
        /\ Master(s, conns, conn) => \A t \in conns : told'[t].code = Role(t, conns, conn)
        /\ ~Master(s, conns, conn) => \A t \in Stream \ {s} : told'[t] = told[t]
    <3>1. TypeOK /\ s \in conns
      BY ZenonT(60) DEF RInv, Streams, conns
    <3>2. CASE Master(s, conns, conn) /\ Notify(conns, conns, conn)
      BY <2>3, <2>4, <3>1, <3>2, Told, SMTT(60)
    <3>3. CASE ~Master(s, conns, conn) /\ Notify({s}, conns, conn)
      BY <2>4, <3>1, <3>3, Told, SMTT(60)
    <3> QED
      BY <2>5, <3>2, <3>3, ZenonT(60)
  <2>7. collided' = collided
    BY <2>1, <2>2, ZenonT(60) DEF Collides, conns
  <2>8. TypeOK'
    <3>1. connection' \in [Stream -> [device : Device, election_id : ElectionId] \cup {NoConnection}]
      BY <2>1, ZenonT(60) DEF conn, RInv, SInv
    <3>2. connections' \in [Device -> SUBSET Stream]
      BY <2>1, <2>3, ZenonT(60) DEF RInv, SInv
    <3>3. requests' \in [Stream -> 0..MaxRequests]
      <4>1. requests \in [Stream -> 0..MaxRequests]
        BY ZenonT(60) DEF RInv, Streams, TypeOK
      <4> QED
        BY <2>1, <4>1, ServerAssumption, SMTT(60) DEF ServerAssumption
    <3>4. TypeOK
      BY ZenonT(60) DEF RInv, Streams
    <3> QED
      BY <2>1, <2>6, <3>1, <3>2, <3>3, <3>4, ZenonT(60) DEF TypeOK
  <2>9. ASSUME NEW c \in Device, c # d, Good(c) PROVE Good(c)'
    <3>1. connection[s].device # c /\ connection'[s].device # c
      BY <2>1, <2>2, <2>9, ServerAssumption, SMTT(60) DEF ServerAssumption, NoConnection
    <3>2. \A t \in connections[c] : t \in Stream /\ t \notin conns
      <4>1. \A dev \in Device : \A t \in connections[dev] : connection[t].device = dev
        BY ZenonT(60) DEF RInv, Streams
      <4> QED
        BY <2>1, <2>9, <4>1, HaveIds, ZenonT(60) DEF conns
    <3> QED
      BY <2>1, <2>2, <2>6, <2>9, <3>1, <3>2, OtherDevices, ZenonT(60)
  <2>10. ASSUME Good(d) PROVE Good(d)'
    <3>1. Connected(d)' = conns
      BY <2>1, <2>2, <2>10, SMTT(60) DEF Good, Connected, conns
    <3>2. Cardinality(conns) <= max_connections
      <4>1. IsFiniteSet(connections[d])
        BY HaveIds, FS_Subset, ServerAssumption, SMTT(60) DEF ServerAssumption
      <4>2. Cardinality(conns) = Cardinality(connections[d]) + 1
        BY <2>3, <4>1, FS_AddElement, ZenonT(60) DEF conns
      <4> QED
        BY <1>2, <4>1, <4>2, FS_CardinalityType, ServerAssumption, SMTT(60) DEF ServerAssumption
    <3>3. Distinct(conns, conn)
      BY <1>2, <2>2, <2>3, <2>10, HaveIds, SMTT(60) DEF Good, Distinct, Find, conns
    <3>4. \A t \in conns : told'[t].code = Role(t, conns, conn)
      <4>1. CASE Master(s, conns, conn)
        BY <2>6, <4>1, SMTT(60)
      <4>2. CASE ~Master(s, conns, conn)
        <5>1. \A t \in connections[d] : t \in Stream /\ t # s /\ conn[t] = connection[t]
          BY <2>2, <2>3, HaveIds, ZenonT(60)
        <5>2. \A t \in connections[d] : Master(t, conns, conn)
                                          <=> Master(t, connections[d], connection)
          BY <2>3, <2>4, <4>2, <5>1, AddRoles, ZenonT(60) DEF conns
        <5>3. \A t \in connections[d] : told'[t].code = Role(t, conns, conn)
          BY <2>6, <2>10, <4>2, <5>1, <5>2, ZenonT(60) DEF Good, Role
        <5> QED
          BY <2>6, <5>3, ZenonT(60) DEF conns
      <4> QED
        BY <4>1, <4>2, ZenonT(60)
    <3> QED
      BY <2>1, <2>2, <3>1, <3>2, <3>3, <3>4, ZenonT(60) DEF Good
  <2>11. \A c \in Device : \A t \in connections'[c] : connection'[t].device = c
    <3>1. \A c \in Device : \A t \in connections[c] : t \in Stream \ {s} /\ connection[t].device = c
      BY <2>1, HaveIds, SMTT(60) DEF RInv, Streams
    <3> QED
      BY <2>1, <2>2, <2>3, <3>1, SMTT(60) DEF conns
  <2>12. \A t \in Stream : stream'[t] = "new" => connection'[t] = NoConnection
    BY <2>1, <2>2, ZenonT(60) DEF RInv, Streams
  <2> QED
    BY <2>1, <2>7, <2>8, <2>9, <2>10, <2>11, <2>12, ZenonT(60) DEF RInv, Streams
<1> QED
  BY <1>1, <1>2, ZenonT(60)

-----------------------------------------------------------------------------
(* The asserts: only on a device with a collision does a stream not find   *)
(* its connection.                                                         *)
LEMMA AbortKeeps ==
    ASSUME RInv, NEW s \in Stream, connection[s] # NoConnection,
           stream[s] \in {"reading", "returning"}, Abort, Collides,
           Find(connections[connection[s].device], connection, connection[s].election_id) = {}
    PROVE  Streams'
<1>1. connection[s].device \in Device
  BY HasConnection, ZenonT(60)
<1>2. ~Good(connection[s].device)
  BY FindsOwn, SMTT(60)
<1>3. collided # {}
  BY <1>1, <1>2, ZenonT(60) DEF RInv, Streams
<1>4. collided' = collided
  BY SMTT(60) DEF Collides, Abort, streams
<1>5. UNCHANGED <<streams, device_mgr, cb_registered, pkt_in, pkt_out>> /\ aborted' = TRUE
  BY ZenonT(60) DEF Abort
<1>6. TypeOK'
  BY <1>5, ZenonT(60) DEF RInv, Streams, TypeOK, streams
<1>7. \A d \in Device : Good(d) => Good(d)'
  BY <1>5, SMTT(60) DEF Good, Connected, Distinct, Role, Master, streams
<1> QED
  BY <1>3, <1>4, <1>5, <1>6, <1>7, ZenonT(60) DEF RInv, Streams, streams

(* update_connection *)
LEMMA UpdateKeeps ==
    ASSUME RInv, NEW s \in Stream, NEW e \in ElectionId,
           requests[s] < MaxRequests, update_connection(s, e), Collides
    PROVE  Streams'
<1>1. stream[s] = "reading" /\ connection[s] # NoConnection
  BY DEF update_connection
<1>2. PICK d \in Device : d = connection[s].device
                          /\ connection[s] \in [device : Device, election_id : ElectionId]
  BY <1>1, HasConnection, SMTT(60)
<1> DEFINE found == Find(connections[d], connection, connection[s].election_id)
           others == connections[d] \ found
           moved == [connection EXCEPT ![s].election_id = e]
           taken == Find(others, connection, e) # {}
<1>3. /\ moved \in [Stream -> [device : Device, election_id : ElectionId] \cup {NoConnection}]
      /\ moved[s].device = d /\ moved[s].election_id = e
      /\ \A t \in Stream \ {s} : moved[t] = connection[t]
  BY <1>2, SMTT(60) DEF RInv, SInv
<1>4. others \subseteq connections[d] /\ connections[d] \subseteq Stream
  BY <1>2, HaveIds, ZenonT(60)
<1>5. CASE found = {} /\ Abort
  BY <1>2, <1>1, <1>5, AbortKeeps, SMTT(60)
<1>6. ASSUME NEW new, new \subseteq others \cup {s}, connections' = [connections EXCEPT ![d] = new],
             connection' = moved, requests' = [requests EXCEPT ![s] = @ + 1],
             UNCHANGED <<device_mgr, cb_registered, pkt_in, pkt_out, aborted>>,
             stream' = stream \/ stream' = [stream EXCEPT ![s] = "returning"],
             told' \in [Stream -> [election_id : ElectionId, code : {"OK", "ALREADY_EXISTS"}]
                                    \cup {Untold}],
             \A t \in Stream \ new : told'[t] = told[t],
             Good(d) /\ d \notin collided' => Good(d)'
      PROVE  Streams'
  <2>1. /\ connections'[d] = new /\ \A c \in Device \ {d} : connections'[c] = connections[c]
        /\ connections' \in [Device -> SUBSET Stream]
    BY <1>2, <1>4, <1>6, ZenonT(60) DEF RInv, SInv
  <2>2. requests' \in [Stream -> 0..MaxRequests] /\ TypeOK
    BY <1>6, ServerAssumption, SMTT(60) DEF RInv, Streams, TypeOK, ServerAssumption
  <2>3. stream' \in [Stream -> {"new", "reading", "returning", "done"}]
        /\ \A t \in Stream \ {s} : stream'[t] = stream[t]
    BY <1>6, <2>2, ZenonT(60) DEF TypeOK
  <2>4. TypeOK'
    BY <1>3, <1>6, <2>1, <2>2, <2>3, ZenonT(60) DEF TypeOK
  <2>5. collided \subseteq collided'
    BY ZenonT(60) DEF Collides
  <2>6. ASSUME NEW c \in Device, c # d, Good(c) PROVE Good(c)'
    <3>1. connection[s].device # c /\ connection'[s].device # c
      BY <1>3, <1>6, <2>6, SMTT(60)
    <3>2. \A t \in connections[c] : t \in Stream /\ t \notin new
      <4>1. \A t \in connections[c] : t \in Stream /\ connection[t].device = c
        BY <2>6, HaveIds, ZenonT(60) DEF RInv, Streams
      <4>2. \A t \in new : connection[t].device = d
        BY <1>2, <1>4, <1>6, ZenonT(60) DEF RInv, Streams
      <4> QED
        BY <2>6, <4>1, <4>2, ZenonT(60)
    <3>3. \A t \in connections[c] : told'[t] = told[t]
      BY <1>6, <3>2, SMTT(60)
    <3>4. \A t \in Stream \ {s} : stream'[t] = stream[t] /\ connection'[t] = connection[t]
      BY <1>3, <1>6, <2>3, ZenonT(60)
    <3>5. connections'[c] = connections[c]
      BY <2>1, <2>6, ZenonT(60)
    <3> QED
      BY <2>6, <3>1, <3>3, <3>4, <3>5, OtherDevices, ZenonT(60)
  <2>7. \A c \in Device \ collided' : Good(c)'
    BY <1>6, <2>5, <2>6, ZenonT(60) DEF RInv, Streams
  <2>8. \A c \in Device : \A t \in connections'[c] : connection'[t].device = c
    <3>1. \A t \in new : connection'[t].device = d
      BY <1>2, <1>3, <1>4, <1>6, ZenonT(60) DEF RInv, Streams
    <3>2. \A c \in Device \ {d} : \A t \in connections[c] : t \in Stream /\ t # s
                                                            /\ connection[t].device = c
      BY <1>2, HaveIds, ZenonT(60) DEF RInv, Streams
    <3> QED
      BY <1>3, <1>6, <2>1, <3>1, <3>2, SMTT(60)
  <2>9. \A t \in Stream : stream'[t] = "new" => connection'[t] = NoConnection
    BY <1>1, <1>3, <1>6, <2>2, ZenonT(60) DEF RInv, Streams, TypeOK
  <2> QED
    BY <1>6, <2>4, <2>5, <2>7, <2>8, <2>9, ZenonT(60) DEF RInv, Streams
<1>7. CASE found # {} /\ taken
  <2>1. /\ connections' = [connections EXCEPT ![d] = others] /\ connection' = moved
        /\ stream' = [stream EXCEPT ![s] = "returning"]
        /\ requests' = [requests EXCEPT ![s] = @ + 1]
        /\ UNCHANGED <<told, device_mgr, cb_registered, pkt_in, pkt_out, aborted>>
    BY <1>2, <1>7, ZenonT(60) DEF update_connection
  <2>2. Good(d) => d \in collided'
    <3>1. Good(d) => s \in connections[d] /\ s \notin others
      BY <1>2, <1>1, FindsOwn, ZenonT(60)
    <3>2. stream'[s] = "returning" /\ connections'[d] = others
      BY <1>2, <2>1, ZenonT(60) DEF RInv, SInv, Streams, TypeOK
    <3> QED
      BY <1>2, <3>1, <3>2, ZenonT(60) DEF Collides
  <2>3. TypeOK
    BY SMTT(60) DEF RInv, Streams
  <2> HIDE DEF found, others, moved, taken
  <2> QED
    BY <1>6, <2>1, <2>2, <2>3, ZenonT(60) DEF TypeOK
<1>8. CASE found # {} /\ ~taken
  <2> DEFINE conns == others \cup {s}
             same == (\E t \in found : Master(t, connections[d], connection))
                       <=> Master(s, conns, moved)
  <2>1. /\ connections' = [connections EXCEPT ![d] = conns] /\ connection' = moved
        /\ requests' = [requests EXCEPT ![s] = @ + 1]
        /\ UNCHANGED <<stream, device_mgr, cb_registered, pkt_in, pkt_out, aborted>>
    BY <1>2, <1>8, ZenonT(60) DEF update_connection
  <2>2. connections'[d] = conns /\ conns \subseteq Stream
    BY <1>2, <1>4, <2>1, ZenonT(60) DEF RInv, SInv
  <2>3. \/ Notify(conns, conns, moved)
        \/ Notify({s}, conns, moved) /\ same
    BY <1>2, <1>8, <2>2, ZenonT(60) DEF update_connection, notify_all, notify_one
  <2>4. \A t \in conns : moved[t].election_id \in ElectionId
    BY <1>2, <1>3, <1>4, HaveIds, ZenonT(60)
  <2>5. Ids(conns, moved)
    BY <2>4, ServerAssumption, SMTT(60) DEF Ids, ServerAssumption
  <2>6. TypeOK /\ s \in conns
    BY ZenonT(60) DEF RInv, Streams
  <2>7. /\ told' \in [Stream -> [election_id : ElectionId, code : {"OK", "ALREADY_EXISTS"}]
                                  \cup {Untold}]
        /\ \A t \in Stream \ conns : told'[t] = told[t]
        /\ told'[s].code = Role(s, conns, moved)
        /\ \/ \A t \in conns : told'[t].code = Role(t, conns, moved)
           \/ same /\ \A t \in Stream \ {s} : told'[t] = told[t]
    <3> HIDE DEF conns, moved, same
    <3>1. CASE Notify(conns, conns, moved)
      BY <2>2, <2>4, <2>6, <3>1, Told, SMTT(60)
    <3>2. CASE Notify({s}, conns, moved) /\ same
      BY <2>4, <2>6, <3>2, Told, SMTT(60)
    <3> QED
      BY <2>3, <3>1, <3>2, ZenonT(60)
  <2>8. ASSUME Good(d) PROVE Good(d)'
    <3>1. s \in connections[d] /\ found = {s} /\ conns = connections[d]
      BY <1>2, <1>1, <2>8, FindsOwn, ZenonT(60)
    <3>2. Distinct(connections[d], connection) /\ Ids(connections[d], connection)
      BY <1>2, <2>8, HaveIds, ZenonT(60) DEF Good
    <3>3. \A t \in others : moved[t] = connection[t] /\ t # s
      BY <1>3, <1>4, <3>1, ZenonT(60)
    <3>4. Distinct(conns, moved)
      BY <1>3, <1>8, <3>2, <3>3, SMTT(60) DEF Distinct, Find
    <3>5. \A t \in conns : told'[t].code = Role(t, conns, moved)
      <4>1. CASE same /\ \A t \in Stream \ {s} : told'[t] = told[t]
        <5>1. Master(s, conns, connection) <=> Master(s, conns, moved)
          BY <3>1, <4>1, ZenonT(60)
        <5>2. \A t \in conns \ {s} : Master(t, conns, moved) <=> Master(t, conns, connection)
          <6>1. \A t \in conns \ {s} : moved[t] = connection[t]
            BY <3>3, SMTT(60)
          <6> HIDE DEF conns, moved
          <6> QED
            BY <2>5, <2>6, <3>1, <3>2, <3>4, <5>1, <6>1, MoveRoles, ZenonT(60)
        <5>3. \A t \in conns \ {s} : told'[t].code = Role(t, conns, moved)
          BY <2>2, <2>8, <3>1, <4>1, <5>2, ZenonT(60) DEF Good, Role
        <5> QED
          BY <2>7, <5>3, ZenonT(60)
      <4> QED
        BY <2>7, <4>1, ZenonT(60)
    <3>6. Connected(d)' = Connected(d)
      BY <1>3, <2>1, SMTT(60) DEF Connected
    <3> QED
      BY <2>1, <2>2, <2>8, <3>1, <3>4, <3>5, <3>6, ZenonT(60) DEF Good
  <2> HIDE DEF found, others, moved, taken
  <2> QED
    BY <1>6, <2>1, <2>7, <2>8, ZenonT(60)
<1> QED
  BY <1>2, <1>5, <1>7, <1>8, ZenonT(60) DEF update_connection

-----------------------------------------------------------------------------
(* cleanup_connection *)
LEMMA CleanupKeeps ==
    ASSUME RInv, NEW s \in Stream, stream[s] = "returning", connection[s] # NoConnection,
           cleanup_connection(s), Collides
    PROVE  Streams'
<1>1. PICK d \in Device : d = connection[s].device
  BY HasConnection, ZenonT(60)
<1> DEFINE found == Find(connections[d], connection, connection[s].election_id)
           conns == connections[d] \ found
<1>2. CASE found = {} /\ Abort
  BY <1>1, <1>2, AbortKeeps
<1>3. CASE found # {}
  <2>1. /\ connections' = [connections EXCEPT ![d] = conns]
        /\ stream' = [stream EXCEPT ![s] = "done"]
        /\ UNCHANGED <<connection, requests, device_mgr, cb_registered, pkt_in, pkt_out, aborted>>
    BY <1>1, <1>3, ZenonT(60) DEF cleanup_connection
  <2>2. /\ connections'[d] = conns /\ \A c \in Device \ {d} : connections'[c] = connections[c]
        /\ conns \subseteq connections[d] /\ connections[d] \subseteq Stream
        /\ connections' \in [Device -> SUBSET Stream]
    <3>1. connections \in [Device -> SUBSET Stream]
      BY ZenonT(60) DEF RInv, SInv
    <3>2. conns \subseteq connections[d] /\ connections[d] \subseteq Stream
      BY <3>1
    <3> HIDE DEF conns, found
    <3> QED
      BY <2>1, <3>1, <3>2, ZenonT(60)
  <2>3. \/ Notify(conns, conns, connection)
        \/ UNCHANGED told /\ ~\E t \in found : Master(t, connections[d], connection)
    BY <1>1, <1>3, <2>2, ZenonT(60) DEF cleanup_connection, notify_all
  <2>4. /\ told' \in [Stream -> [election_id : ElectionId, code : {"OK", "ALREADY_EXISTS"}]
                                  \cup {Untold}]
        /\ \A t \in Stream \ conns : told'[t] = told[t]
        /\ \/ \A t \in conns : told'[t].code = Role(t, conns, connection)
           \/ UNCHANGED told /\ ~\E t \in found : Master(t, connections[d], connection)
    <3>1. TypeOK /\ \A t \in conns : connection[t].election_id \in ElectionId
      BY <2>2, HaveIds, ZenonT(60) DEF RInv, Streams
    <3>2. CASE Notify(conns, conns, connection)
      <4> HIDE DEF conns, found
      <4> QED
        BY <2>2, <3>1, <3>2, Told
    <3>3. CASE UNCHANGED told /\ ~\E t \in found : Master(t, connections[d], connection)
      BY <3>1, <3>3, ZenonT(60) DEF TypeOK
    <3> QED
      BY <2>3, <3>2, <3>3, ZenonT(60)
  <2>0. TypeOK /\ \A c \in Device : \A t \in connections[c] : connection[t].device = c
    BY DEF RInv, Streams
  <2> HIDE DEF conns, found
  <2>5. stream' \in [Stream -> {"new", "reading", "returning", "done"}]
        /\ stream'[s] = "done" /\ \A t \in Stream \ {s} : stream'[t] = stream[t]
    BY <2>0, <2>1, ZenonT(60) DEF TypeOK
  <2>6. TypeOK'
    BY <2>0, <2>1, <2>2, <2>4, <2>5, ZenonT(60) DEF TypeOK
  <2>7. collided \subseteq collided'
    BY ZenonT(60) DEF Collides
  <2>8. ASSUME NEW c \in Device, c # d, Good(c) PROVE Good(c)'
    <3>1. \A t \in connections[c] : t \in Stream /\ t \notin conns
      BY <2>0, <2>2, <2>8, HaveIds, SMTT(60)
    <3> QED
      BY <1>1, <2>1, <2>2, <2>4, <2>5, <2>8, <3>1, OtherDevices, ZenonT(60)
  <2>9. ASSUME Good(d) PROVE Good(d)'
    <3>1. s \in connections[d] /\ found = {s} /\ conns = connections[d] \ {s}
      BY <1>1, <2>9, FindsOwn, ZenonT(60) DEF conns, found
    <3>2. Connected(d)' = conns
      BY <2>1, <2>5, <2>9, <3>1, ZenonT(60) DEF Good, Connected
    <3>3. Cardinality(conns) <= max_connections
      <4>1. IsFiniteSet(connections[d])
        BY <2>2, FS_Subset, ServerAssumption, SMTT(60) DEF ServerAssumption
      <4>2. Cardinality(conns) = Cardinality(connections[d]) - 1
        BY <3>1, <4>1, FS_RemoveElement, ZenonT(60)
      <4> QED
        BY <2>9, <4>1, <4>2, FS_CardinalityType, ServerAssumption, SMTT(60) DEF ServerAssumption, Good
    <3>4. Distinct(conns, connection)
      BY <2>9, <3>1 DEF Good, Distinct
    <3>5. \A t \in conns : told'[t].code = Role(t, conns, connection)
      <4>1. CASE UNCHANGED told /\ ~\E t \in found : Master(t, connections[d], connection)
        <5>1. Ids(connections[d], connection) /\ ~Master(s, connections[d], connection)
          BY <3>1, <4>1, HaveIds, ZenonT(60)
        <5>2. \A t \in conns : Master(t, conns, connection)
                                 <=> Master(t, connections[d], connection)
          BY <3>1, <5>1, RemoveRoles
        <5> QED
          BY <2>2, <2>9, <4>1, <5>2, ZenonT(60) DEF Good, Role
      <4> QED
        BY <2>4, <4>1, ZenonT(60)
    <3> QED
      BY <2>1, <2>2, <3>2, <3>3, <3>4, <3>5, ZenonT(60) DEF Good
  <2>10. \A c \in Device : \A t \in connections'[c] : connection'[t].device = c
    BY <2>0, <2>1, <2>2, ZenonT(60)
  <2>11. \A t \in Stream : stream'[t] = "new" => connection'[t] = NoConnection
    BY <2>1, <2>5, SMTT(60) DEF RInv, Streams
  <2> QED
    BY <2>1, <2>6, <2>7, <2>8, <2>9, <2>10, <2>11, ZenonT(60) DEF RInv, Streams
<1> QED
  BY <1>1, <1>2, <1>3, ZenonT(60) DEF cleanup_connection

(* Every step of StreamChannel keeps what is known of the streams. *)
LEMMA StreamsKept ==
    ASSUME RInv, NEW s \in Stream, StreamStep(s), Collides
    PROVE  Streams'
<1>0. TypeOK
  BY SMTT(60) DEF RInv, Streams
<1>1. CASE StreamChannel(s) \/ ReadFails(s) \/ \E d \in Device : OtherDevice(s, d)
  <2>1. /\ \/ stream[s] = "new" /\ stream' = [stream EXCEPT ![s] = "reading"]
           \/ stream[s] = "reading" /\ stream' = [stream EXCEPT ![s] = "returning"]
        /\ UNCHANGED <<connection, connections, told, requests, device_mgr, cb_registered,
                       pkt_in, pkt_out, aborted>>
    BY <1>1, SMTT(60) DEF StreamChannel, ReadFails, OtherDevice
  <2>2. TypeOK'
    BY <1>0, <2>1, SMTT(60) DEF TypeOK
  <2> QED
    BY <1>0, <2>1, <2>2, QuietKeeps, ZenonT(60) DEF RInv, Streams, TypeOK
<1>2. CASE process_stream_message_request(s)
  <2>1. UNCHANGED <<streams, aborted>>
    BY <1>2, ZenonT(60) DEF process_stream_message_request
  <2>2. TypeOK'
    BY <1>0, <1>2, ServerAssumption, SMTT(60)
       DEF process_stream_message_request, streams, TypeOK, ServerAssumption
  <2> QED
    BY <2>1, <2>2, QuietKeeps, ZenonT(60) DEF streams
<1>3. CASE StreamChannelReturns(s)
  <2>1. CASE connection[s] # NoConnection
    BY <1>3, <2>1, CleanupKeeps, ZenonT(60) DEF StreamChannelReturns
  <2>2. CASE connection[s] = NoConnection
    <3>1. /\ stream' = [stream EXCEPT ![s] = "done"]
          /\ UNCHANGED <<connection, connections, told, requests, device_mgr, cb_registered,
                         pkt_in, pkt_out, aborted>>
      BY <1>3, <2>2, SMTT(60) DEF StreamChannelReturns
    <3>2. TypeOK'
      BY <1>0, <3>1, ZenonT(60) DEF TypeOK
    <3> QED
      BY <1>0, <2>2, <3>1, <3>2, QuietKeeps, ZenonT(60) DEF TypeOK
  <2> QED
    BY <2>1, <2>2, SMTT(60)
<1> QED
  BY <1>1, <1>2, <1>3, AddKeeps, UpdateKeeps, ZenonT(60) DEF StreamStep

(* Neither calls nor packets touch the streams. *)
LEMMA OthersLeaveStreams ==
    ASSUME RInv, Collides,
           (\E r \in Rpc : RpcStep(r)) \/ \E d \in Device : send_stream_message(d)
    PROVE  Streams'
<1>0. TypeOK
  BY SMTT(60) DEF RInv, Streams
<1>1. UNCHANGED <<streams, aborted, pkt_out>>
  BY ZenonT(60) DEF RpcStep, Call, connections_size, is_master, get_p4_mgr, get_or_add_p4_mgr, Write,
         SetForwardingPipelineConfig, RpcOnly, send_stream_message
<1>2. pkt_in' \in [Stream -> 0..MaxPackets]
  <2>1. CASE \E r \in Rpc : RpcStep(r)
    BY <1>0, <2>1, ZenonT(60) DEF RpcStep, Call, connections_size, is_master, get_p4_mgr, get_or_add_p4_mgr,
       Write, SetForwardingPipelineConfig, RpcOnly, TypeOK
  <2>2. CASE \E d \in Device : send_stream_message(d)
    BY <1>0, <2>2, ServerAssumption DEF send_stream_message, TypeOK, ServerAssumption
  <2> QED
    BY <2>1, <2>2, ZenonT(60)
<1>3. device_mgr' \subseteq Device /\ cb_registered' \subseteq device_mgr'
  <2>1. CASE \E d \in Device : send_stream_message(d)
    BY <1>0, <2>1, ZenonT(60) DEF send_stream_message, TypeOK
  <2>2. ASSUME NEW r \in Rpc, RpcStep(r) PROVE device_mgr' \subseteq Device
                                               /\ cb_registered' \subseteq device_mgr'
    <3>1. CASE get_or_add_p4_mgr(r)
      BY <1>0, <3>1, ZenonT(60) DEF get_or_add_p4_mgr, TypeOK, RInv, SInv
    <3>2. CASE SetForwardingPipelineConfig(r)
      BY <1>0, <3>2, SMTT(60) DEF SetForwardingPipelineConfig, TypeOK, RInv
    <3> QED
      BY <1>0, <2>2, <3>1, <3>2, ZenonT(60) DEF RpcStep, Call, connections_size, is_master, get_p4_mgr, Write,
         TypeOK
  <2> QED
    BY <2>1, <2>2
<1>4. TypeOK'
  BY <1>0, <1>1, <1>2, <1>3, ZenonT(60) DEF TypeOK, streams
<1> QED
  BY <1>1, <1>4, QuietKeeps, ZenonT(60) DEF streams

(* A call that has reached its DeviceMgr has one: none is ever removed. *)
LEMMA ManagerStays ==
    ASSUME RInv, [Next]_vars
    PROVE  \A r \in Rpc : rpc'[r].pc = "pipeline_config_set" => rpc'[r].device \in device_mgr'
<1> SUFFICES ASSUME NEW r \in Rpc, rpc'[r].pc = "pipeline_config_set"
             PROVE  rpc'[r].device \in device_mgr'
  BY SMTT(60)
<1>1. CASE UNCHANGED <<rpc, device_mgr>>
  BY <1>1, SMTT(60) DEF RInv
<1>2. ASSUME NEW s \in Stream, StreamStep(s) PROVE UNCHANGED <<rpc, device_mgr>>
  BY <1>2, ZenonT(60) DEF StreamStep, StreamChannel, add_connection, update_connection, OtherDevice, ReadFails,
     StreamChannelReturns, cleanup_connection, process_stream_message_request, Abort
<1>3. ASSUME NEW q \in Rpc, RpcStep(q) PROVE rpc'[r].device \in device_mgr'
  <2>1. CASE get_or_add_p4_mgr(q)
    BY <2>1, SMTT(60) DEF get_or_add_p4_mgr, Goto, RInv, SInv, RpcRecord
  <2>2. CASE ~get_or_add_p4_mgr(q)
    <3>1. UNCHANGED device_mgr
      BY <1>3, <2>2, SMTT(60) DEF RpcStep, Call, connections_size, is_master, get_p4_mgr, Write,
         SetForwardingPipelineConfig
    <3>2. rpc[r].pc = "pipeline_config_set" /\ rpc'[r].device = rpc[r].device
      BY <1>3, <2>2, SMTT(60) DEF RpcStep, Call, connections_size, is_master, get_p4_mgr, Write,
         SetForwardingPipelineConfig, Goto, RInv, SInv, RpcRecord
    <3> QED
      BY <3>1, <3>2, ZenonT(60) DEF RInv
  <2> QED
    BY <2>1, <2>2, SMTT(60)
<1> QED
  BY <1>1, <1>2, <1>3, SMTT(60) DEF Next, vars, send_stream_message

(* No stream has begun. *)
LEMMA RInvInit == Init => RInv
<1> SUFFICES ASSUME Init PROVE RInv
  OBVIOUS
<1>1. SInv
  BY SInvInit, SMTT(60)
<1>2. TypeOK
  <2>1. 0 \in 0..MaxPackets /\ 0 \in 0..MaxRequests
    BY ServerAssumption DEF ServerAssumption
  <2>2. /\ pkt_in \in [Stream -> 0..MaxPackets] /\ pkt_out \in [Stream -> 0..MaxPackets]
        /\ requests \in [Stream -> 0..MaxRequests]
    BY <2>1 DEF Init
  <2>3. told \in [Stream -> [election_id : ElectionId, code : {"OK", "ALREADY_EXISTS"}]
                              \cup {Untold}]
    BY DEF Init
  <2>4. stream \in [Stream -> {"new", "reading", "returning", "done"}]
    BY ZenonT(60) DEF Init
  <2> QED
    BY <1>1, <2>2, <2>3, <2>4, ZenonT(60) DEF Init, TypeOK, SInv
<1>3. \A d \in Device : Good(d)
  <2> TAKE d \in Device
  <2>1. connections[d] = {} /\ Connected(d) = {}
    BY DEF Init, Connected
  <2>2. Cardinality(connections[d]) = 0
    BY <2>1, FS_EmptySet, SMTT(60)
  <2> QED
    BY <2>1, <2>2, ServerAssumption DEF Good, Distinct, ServerAssumption
<1>4. Streams
  BY <1>2, <1>3 DEF Init, Streams
<1> QED
  BY <1>1, <1>4, SMTT(60) DEF Init, RInv, IdleRpc

(* As long as no client asks to change its election id to one in use, the  *)
(* connections of a device are those of the StreamChannel calls that have  *)
(* one and have not returned, at most max_connections, each has been told  *)
(* its role, and the asserts of update_connection and cleanup_connection   *)
(* hold.                                                                   *)
THEOREM Roles == Spec => []RolesFollowConnections
<1>1. ASSUME RInv, [Next]_vars, SInv' PROVE RInv'
  <2>1. CASE UNCHANGED vars
    <3>1. Streams'
      BY <1>1, <2>1, SMTT(60) DEF RInv, Streams, vars, streams, TypeOK, Good, Connected, Distinct,
         Role, Master
    <3> QED
      BY <1>1, <2>1, <3>1, ZenonT(60) DEF RInv, vars, streams
  <2>2. CASE Next
    <3>1. Collides
      BY <2>2, ZenonT(60) DEF Next, Collides
    <3>2. Streams'
      BY <1>1, <2>2, <3>1, StreamsKept, OthersLeaveStreams, SMTT(60) DEF Next
    <3>3. collided' \subseteq Device
      BY <1>1, <3>1, ZenonT(60) DEF RInv, Collides
    <3> QED
      BY <1>1, <3>2, <3>3, ManagerStays, SMTT(60) DEF RInv
  <2> QED
    BY <1>1, <2>1, <2>2, SMTT(60)
<1>2. RInv => RolesFollowConnections
  BY DEF RInv, Streams, Good, Role, RolesFollowConnections, RegisteredWhileOpen, ToldCurrentRole
<1>3. Spec => []SInv
  BY SInvInit, SInvStep, PTL DEF Spec
<1> QED
  BY RInvInit, <1>1, <1>2, <1>3, PTL DEF Spec
=============================================================================

-------------------------- MODULE PacketReplication --------------------------
(***************************************************************************)
(* Multicast groups and clone sessions: PreMcMgr and PreCloneMgr of        *)
(* proto/frontend/src, the calls of src/pi_mc.c and src/pi_clone.c they    *)
(* make, and the bmv2 implementation of those calls.  A replica is an      *)
(* egress port and an instance; the manager programs one node for all the  *)
(* replicas of an instance, and attaches it to the group.  A clone session *)
(* owns a multicast group with a reserved id.                              *)
(*                                                                         *)
(* Several threads may serve Writes.  One step is one call to the target,  *)
(* which may fail, with the bookkeeping around it, or a critical section.  *)
(***************************************************************************)
EXTENDS Integers, Sequences, FiniteSets, SequencesExt, Functions

CONSTANTS
    Thread,             \* threads that serve Write RPCs
    ClientGroup,        \* group ids clients name
    SessionId,          \* clone session ids clients name
    FirstReserved,      \* first_reserved_group_id()
    kMinCloneSessionId, kMaxCloneSessionId,
    Replicas,           \* the lists of replicas clients ask for
    Cos,                \* the classes of service of clone sessions (0: none)
    Failing,            \* the target calls that may fail
    MaxFailures, MaxWrites

VARIABLES
    groups,     \* PreMcMgr::groups
    sessions,   \* PreCloneMgr::sessions
    mutex,      \* PreMcMgr::mutex and PreCloneMgr::mutex: the holder
    hw_groups,  \* the target: the nodes of each group
    hw_nodes,   \* the target: instance and port map of each node
    hw_clone,   \* the target: the group of each clone session
    th,         \* the operation each thread is in
    failed,     \* history: the target calls that failed
    halfway,    \* history: the groups a modification failed on
    writes

target == <<hw_groups, hw_nodes, hw_clone>>
vars == <<groups, sessions, mutex, target, th, failed, halfway, writes>>

Nobody == "nobody"
NoFn == [x \in {} |-> 0]
With(f, x, v) == [y \in DOMAIN f \cup {x} |-> IF y = x THEN v ELSE f[y]]
Without(f, x) == Restrict(f, DOMAIN f \ {x})

Idle(status) ==
    [pc |-> "idle", status |-> status, op |-> "", id |-> 0, session |-> 0, nodes |-> NoFn,
     todo |-> {}, rid |-> 0, tasks |-> <<>>, errors |-> 0, then |-> "", entry |-> <<>>, cos |-> 0]

Init ==
    /\ groups = NoFn /\ sessions = {}
    /\ mutex = [mc |-> Nobody, clone |-> Nobody]
    /\ hw_groups = NoFn /\ hw_nodes = NoFn /\ hw_clone = NoFn
    /\ th = [t \in Thread |-> Idle("OK")]
    /\ failed = <<>> /\ halfway = {} /\ writes = 0

At(t, pc) == th[t].pc = pc
Go(t, pc) == th' = [th EXCEPT ![t].pc = pc]
Fails(call) ==
    /\ call \in Failing /\ Len(failed) < MaxFailures
    /\ failed' = Append(failed, call)
    /\ UNCHANGED target
-----------------------------------------------------------------------------
(* The target.  bmv2 takes the ports of a node as a string of bits, the    *)
(* last character being port 0.                                            *)

PortOrder(a, b) == a < b

\* The set's elements come in ascending order; resize truncates as well as it extends.
convert_map(ports) ==
    LET seq == SetToSortSeq(ports, PortOrder)
        Resize(s, n) == [i \in 1..n |-> IF i <= Len(s) THEN s[i] ELSE "0"]
    IN  Reverse(FoldLeft(LAMBDA s, p : [Resize(s, p + 1) EXCEPT ![p + 1] = "1"], <<>>, seq))

PortsOf(map) == {i - 1 : i \in {j \in DOMAIN map : Reverse(map)[j] = "1"}}

\* The switch gives out the lowest free handle, also one that was in use before.
FreshNode == CHOOSE h \in 1..Cardinality(DOMAIN hw_nodes) + 1 :
                h \notin DOMAIN hw_nodes /\ \A k \in 1..h - 1 : k \in DOMAIN hw_nodes

bm_mc_mgrp_create(g) ==
    /\ g \notin DOMAIN hw_groups
    /\ hw_groups' = With(hw_groups, g, {})
    /\ UNCHANGED <<hw_nodes, hw_clone, failed>>

bm_mc_mgrp_destroy(g) ==
    /\ g \in DOMAIN hw_groups
    /\ hw_groups' = Without(hw_groups, g)
    /\ UNCHANGED <<hw_nodes, hw_clone, failed>>

bm_mc_node_create(h, rid, ports) ==
    /\ hw_nodes' = With(hw_nodes, h, [rid |-> rid, map |-> convert_map(ports)])
    /\ UNCHANGED <<hw_groups, hw_clone, failed>>

bm_mc_node_update(h, ports) ==
    /\ h \in DOMAIN hw_nodes
    /\ hw_nodes' = [hw_nodes EXCEPT ![h].map = convert_map(ports)]
    /\ UNCHANGED <<hw_groups, hw_clone, failed>>

bm_mc_node_destroy(h) ==
    /\ h \in DOMAIN hw_nodes
    /\ hw_nodes' = Without(hw_nodes, h)
    /\ UNCHANGED <<hw_groups, hw_clone, failed>>

bm_mc_node_associate(g, h) ==
    /\ g \in DOMAIN hw_groups /\ h \in DOMAIN hw_nodes
    /\ hw_groups' = [hw_groups EXCEPT ![g] = @ \cup {h}]
    /\ UNCHANGED <<hw_nodes, hw_clone, failed>>

bm_mc_node_dissociate(g, h) ==
    /\ g \in DOMAIN hw_groups /\ h \in hw_groups[g]
    /\ hw_groups' = [hw_groups EXCEPT ![g] = @ \ {h}]
    /\ UNCHANGED <<hw_nodes, hw_clone, failed>>

clone_session_set(s, g) ==
    /\ hw_clone' = With(hw_clone, s, g)
    /\ UNCHANGED <<hw_groups, hw_nodes, failed>>

clone_session_reset(s) ==
    /\ hw_clone' = Without(hw_clone, s)
    /\ UNCHANGED <<hw_groups, hw_nodes, failed>>

(* A call the target refuses because of what it names.                     *)
Refuses(legal) == ~legal /\ UNCHANGED <<target, failed>>

\* One multicast call of PI: it does what it says, or the status is an error.
pi_mc(call, legal, Does, st) ==
    \/ st = "SUCCESS" /\ Does
    \/ st = "TARGET_ERROR" /\ (Fails(call) \/ Refuses(legal))
-----------------------------------------------------------------------------
(* PreMcMgr.                                                               *)
Distinct(entry) == \A i, j \in DOMAIN entry : i # j => entry[i] # entry[j]

make_new_group(entry) ==
    [rid \in {entry[i].instance : i \in DOMAIN entry} |->
        [h |-> 0, ports |-> {r.port : r \in {x \in Range(entry) : x.instance = rid}}]]

\* What follows: the reply, or the rest of a clone session operation.
After(o, status) ==
    IF o.then = "reply" THEN Idle(status)
    ELSE [o EXCEPT !.pc = o.then, !.status = status, !.tasks = <<>>, !.todo = {}, !.nodes = NoFn,
                   !.rid = 0, !.entry = <<>>]

\* The mutex is released when the group operation returns.
McReturn(t, status) ==
    /\ mutex' = [mutex EXCEPT !.mc = Nobody]
    /\ th' = [th EXCEPT ![t] = After(@, status)]

Lock(t) == At(t, "mc") /\ mutex.mc = Nobody

McRefused(t, status) ==
    /\ Lock(t)
    /\ th' = [th EXCEPT ![t] = After(@, status)]
    /\ UNCHANGED <<groups, sessions, mutex, target, failed, halfway, writes>>

group_create(t) ==
    \/ th[t].op = "INSERT" /\ th[t].id \in DOMAIN groups /\ McRefused(t, "ALREADY_EXISTS")
    \/ th[t].op = "INSERT" /\ th[t].id \notin DOMAIN groups /\ ~Distinct(th[t].entry)
       /\ McRefused(t, "INVALID_ARGUMENT")
    \/ /\ Lock(t) /\ th[t].op = "INSERT" /\ th[t].id \notin DOMAIN groups /\ Distinct(th[t].entry)
       /\ mutex' = [mutex EXCEPT !.mc = t]
       /\ th' = [th EXCEPT ![t].pc = "grp_create", ![t].nodes = make_new_group(th[t].entry)]
       /\ UNCHANGED <<groups, sessions, target, failed, halfway, writes>>

group_modify(t) ==
    \/ th[t].op = "MODIFY" /\ th[t].id \notin DOMAIN groups /\ McRefused(t, "NOT_FOUND")
    \/ th[t].op = "MODIFY" /\ th[t].id \in DOMAIN groups /\ ~Distinct(th[t].entry)
       /\ McRefused(t, "INVALID_ARGUMENT")
    \/ /\ Lock(t) /\ th[t].op = "MODIFY" /\ th[t].id \in DOMAIN groups /\ Distinct(th[t].entry)
       /\ mutex' = [mutex EXCEPT !.mc = t]
       /\ LET new == make_new_group(th[t].entry)
          IN  th' = [th EXCEPT ![t].pc = "node", ![t].nodes = new, ![t].todo = DOMAIN new]
       /\ UNCHANGED <<groups, sessions, target, failed, halfway, writes>>

group_delete(t) ==
    \/ th[t].op = "DELETE" /\ th[t].id \notin DOMAIN groups /\ McRefused(t, "NOT_FOUND")
    \/ /\ Lock(t) /\ th[t].op = "DELETE" /\ th[t].id \in DOMAIN groups
       /\ mutex' = [mutex EXCEPT !.mc = t]
       /\ th' = [th EXCEPT ![t].pc = "purge", ![t].todo = DOMAIN groups[th[t].id].nodes]
       /\ UNCHANGED <<groups, sessions, target, failed, halfway, writes>>

\* The operation fails: execute_operation runs the cleanup tasks and keeps the status.
Cleanup(t) == th' = [th EXCEPT ![t].pc = "cleanup", ![t].status = "UNKNOWN", ![t].errors = 0]
Halfway(t) ==
    halfway' = IF th[t].op = "MODIFY" THEN halfway \cup {th[t].id} ELSE halfway

group_create_(t) ==
    LET g == th[t].id IN
    /\ At(t, "grp_create")
    /\ \/ /\ pi_mc("grp_create", g \notin DOMAIN hw_groups, bm_mc_mgrp_create(g), "SUCCESS")
          /\ th' = [th EXCEPT ![t].pc = "node", ![t].todo = DOMAIN th[t].nodes,
                              ![t].tasks = <<[undo |-> "group", h |-> g]>>]
       \/ /\ pi_mc("grp_create", g \notin DOMAIN hw_groups, FALSE, "TARGET_ERROR")
          /\ Cleanup(t)
    /\ UNCHANGED <<groups, sessions, mutex, halfway, writes>>

\* Mutant: a node whose attachment fails is not undone.
NodeCleanupTask_none(h) == <<>>
NodeCleanupTask(h) == <<[undo |-> "node", h |-> h]>>

create_node(t, rid) ==
    LET h == FreshNode IN
    \/ /\ pi_mc("node_create", TRUE, bm_mc_node_create(h, rid, th[t].nodes[rid].ports), "SUCCESS")
          /\ th' = [th EXCEPT ![t].pc = "attach", ![t].rid = rid, ![t].nodes[rid].h = h,
                              ![t].tasks = @ \o NodeCleanupTask(h)]
          /\ UNCHANGED halfway
       \/ /\ pi_mc("node_create", TRUE, FALSE, "TARGET_ERROR")
          /\ Cleanup(t) /\ Halfway(t)

attach_node(t) ==
    LET g == th[t].id  h == th[t].nodes[th[t].rid].h
        legal == g \in DOMAIN hw_groups /\ h \in DOMAIN hw_nodes
    IN
    /\ At(t, "attach")
    /\ \/ /\ pi_mc("attach", legal, bm_mc_node_associate(g, h), "SUCCESS")
          /\ th' = [th EXCEPT ![t].pc = "node", ![t].todo = @ \ {th[t].rid},
                              ![t].tasks = Append(@, [undo |-> "detach", h |-> h])]
          /\ UNCHANGED halfway
       \/ /\ pi_mc("attach", legal, FALSE, "TARGET_ERROR")
          /\ Cleanup(t) /\ Halfway(t)
    /\ UNCHANGED <<groups, sessions, mutex, writes>>

KeepsPorts(old, new) == old = new

\* A node the old group has: it is taken over, and erased from the old group.
keep_or_modify_node(t, rid) ==
    LET g == th[t].id
        old == groups[g].nodes[rid]
        ports == th[t].nodes[rid].ports
        legal == old.h \in DOMAIN hw_nodes
        taken == /\ groups' = [groups EXCEPT ![g].nodes = Without(@, rid)]
                 /\ th' = [th EXCEPT ![t].todo = @ \ {rid}, ![t].nodes[rid].h = old.h]
                 /\ UNCHANGED halfway
    IN  \/ KeepsPorts(old.ports, ports) /\ taken /\ UNCHANGED <<target, failed>>
        \/ /\ ~KeepsPorts(old.ports, ports)
           /\ pi_mc("node_modify", legal, bm_mc_node_update(old.h, ports), "SUCCESS")
           /\ taken
        \/ /\ ~KeepsPorts(old.ports, ports)
           /\ pi_mc("node_modify", legal, FALSE, "TARGET_ERROR")
           /\ Cleanup(t) /\ Halfway(t) /\ UNCHANGED groups

(* The loop over the nodes of the new group, in any order (the map is not  *)
(* ordered), then the end of the scope: the cleanup tasks are dropped.     *)
Node(t) ==
    /\ At(t, "node")
    /\ LET g == th[t].id
           old == IF th[t].op = "MODIFY" THEN groups[g].nodes ELSE NoFn
       IN
       \/ \E rid \in th[t].todo :
             \/ rid \notin DOMAIN old /\ create_node(t, rid) /\ UNCHANGED <<groups, writes>>
             \/ rid \in DOMAIN old /\ keep_or_modify_node(t, rid) /\ UNCHANGED writes
          /\ UNCHANGED mutex
       \/ /\ th[t].todo = {} /\ th[t].op = "INSERT"
          /\ groups' = With(groups, g, [nodes |-> th[t].nodes])
          /\ McReturn(t, "OK")
          /\ UNCHANGED <<target, failed, halfway, writes>>
       \/ /\ th[t].todo = {} /\ th[t].op = "MODIFY"
          /\ th' = [th EXCEPT ![t].pc = "purge", ![t].todo = DOMAIN old, ![t].tasks = <<>>]
          /\ UNCHANGED <<groups, mutex, target, failed, halfway, writes>>
    /\ UNCHANGED sessions

(* detach_and_delete_node, for the nodes that only the old group has, or   *)
(* for those of a group that is deleted; then the group itself.            *)
detach_node(t) ==
    LET g == th[t].id IN
    /\ At(t, "purge")
    /\ \E rid \in th[t].todo :
        LET h == groups[g].nodes[rid].h
            legal == g \in DOMAIN hw_groups /\ h \in hw_groups[g]
        IN  \/ /\ pi_mc("detach", legal, bm_mc_node_dissociate(g, h), "SUCCESS")
               /\ th' = [th EXCEPT ![t].pc = "delete", ![t].rid = rid]
               /\ UNCHANGED <<mutex, halfway>>
            \/ /\ pi_mc("detach", legal, FALSE, "TARGET_ERROR")
               /\ McReturn(t, "UNKNOWN") /\ Halfway(t)
    /\ UNCHANGED <<groups, sessions, writes>>

delete_node(t) ==
    LET h == groups[th[t].id].nodes[th[t].rid].h IN
    /\ At(t, "delete")
    /\ \/ /\ pi_mc("node_delete", h \in DOMAIN hw_nodes, bm_mc_node_destroy(h), "SUCCESS")
          /\ th' = [th EXCEPT ![t].pc = "purge", ![t].todo = @ \ {th[t].rid}]
          /\ UNCHANGED <<mutex, halfway>>
       \/ /\ pi_mc("node_delete", h \in DOMAIN hw_nodes, FALSE, "TARGET_ERROR")
          /\ McReturn(t, "UNKNOWN") /\ Halfway(t)
    /\ UNCHANGED <<groups, sessions, writes>>

Purged(t) ==
    LET g == th[t].id IN
    /\ At(t, "purge") /\ th[t].todo = {}
    /\ \/ /\ th[t].op = "MODIFY"
          /\ groups' = [groups EXCEPT ![g].nodes = th[t].nodes]
          /\ halfway' = halfway
          /\ McReturn(t, "OK") /\ UNCHANGED <<target, failed>>
       \/ /\ th[t].op = "DELETE"
          /\ pi_mc("grp_delete", g \in DOMAIN hw_groups, bm_mc_mgrp_destroy(g), "SUCCESS")
          /\ groups' = Without(groups, g)
          /\ UNCHANGED halfway /\ McReturn(t, "OK")
       \/ /\ th[t].op = "DELETE"
          /\ pi_mc("grp_delete", g \in DOMAIN hw_groups, FALSE, "TARGET_ERROR")
          /\ McReturn(t, "UNKNOWN") /\ UNCHANGED <<groups, halfway>>
    /\ UNCHANGED <<sessions, writes>>

(* local_cleanup: the tasks in reverse order, whether or not one fails.    *)
(* With one error the status returned is that of the last task run.        *)
RunTask(t, task, st) ==
    LET g == th[t].id IN
    \/ task.undo = "group" /\ pi_mc("grp_delete", g \in DOMAIN hw_groups, bm_mc_mgrp_destroy(g), st)
    \/ task.undo = "node" /\ pi_mc("node_delete", task.h \in DOMAIN hw_nodes, bm_mc_node_destroy(task.h), st)
    \/ task.undo = "detach" /\ pi_mc("detach", task.h \in hw_groups[g], bm_mc_node_dissociate(g, task.h), st)

local_cleanup(t) ==
    /\ At(t, "cleanup")
    /\ \/ /\ th[t].tasks # <<>>
          /\ \E st \in {"SUCCESS", "TARGET_ERROR"} :
                /\ RunTask(t, Last(th[t].tasks), st)
                /\ LET errors == th[t].errors + (IF st = "SUCCESS" THEN 0 ELSE 1)
                   IN  th' = [th EXCEPT ![t].tasks = Front(@), ![t].errors = errors,
                                ![t].status = IF errors > 1 \/ st # "SUCCESS" THEN "INTERNAL"
                                              ELSE "UNKNOWN"]
          /\ UNCHANGED mutex
       \/ /\ th[t].tasks = <<>>
          /\ McReturn(t, th[t].status)
          /\ UNCHANGED <<target, failed>>
    /\ UNCHANGED <<groups, sessions, halfway, writes>>
-----------------------------------------------------------------------------
(* PreCloneMgr.                                                            *)
session_id_to_mc_group_id(s) == FirstReserved + s
validate_session_id(s) == s >= kMinCloneSessionId /\ s < kMaxCloneSessionId

\* Mutant: the lock is not given back.
Reply_locked(t, status) == th' = [th EXCEPT ![t] = Idle(status)] /\ UNCHANGED mutex
Reply(t, status) ==
    /\ th' = [th EXCEPT ![t] = Idle(status)]
    /\ mutex' = [mutex EXCEPT !.clone = Nobody]

CloneLock(t) ==
    /\ At(t, "clone") /\ mutex.clone = Nobody
    /\ IF (th[t].op = "INSERT") = (th[t].session \in sessions)
       THEN th' = [th EXCEPT ![t] = Idle(IF th[t].op = "INSERT" THEN "ALREADY_EXISTS" ELSE "NOT_FOUND")]
            /\ UNCHANGED mutex
       ELSE /\ mutex' = [mutex EXCEPT !.clone = t]
            /\ th' = [th EXCEPT ![t].pc = IF th[t].op = "DELETE" THEN "reset" ELSE "mc",
                                ![t].then = CASE th[t].op = "INSERT" -> "created"
                                              [] th[t].op = "MODIFY" -> "modified"
                                              [] OTHER -> "deleted"]
    /\ UNCHANGED <<groups, sessions, target, failed, halfway, writes>>

\* Mutant: the group of a session that could not be set is kept.
UndoCreate_kept(t) == Reply(t, "UNKNOWN")
UndoCreate(t) ==
    /\ th' = [th EXCEPT ![t].pc = "mc", ![t].op = "DELETE", ![t].then = "undone"]
    /\ UNCHANGED mutex

\* After group_create: session_set, and group_delete when that fails.
session_create(t) ==
    LET s == th[t].session IN
    \/ /\ At(t, "created") /\ th[t].status # "OK"
       /\ Reply(t, th[t].status)
       /\ UNCHANGED <<groups, sessions, target, failed, halfway, writes>>
    \/ /\ At(t, "created") /\ th[t].status = "OK" /\ th[t].cos = 0
       /\ clone_session_set(s, th[t].id)
       /\ sessions' = sessions \cup {s}
       /\ Reply(t, "OK")
       /\ UNCHANGED <<groups, halfway, writes>>
    \/ /\ At(t, "created") /\ th[t].status = "OK"
       /\ \/ th[t].cos # 0 /\ UNCHANGED <<target, failed>>
          \/ th[t].cos = 0 /\ Fails("clone_set")
       /\ UndoCreate(t)
       /\ UNCHANGED <<groups, sessions, halfway, writes>>
    \/ /\ At(t, "undone")
       /\ Reply(t, IF th[t].status = "OK" THEN "UNKNOWN" ELSE "INTERNAL")
       /\ UNCHANGED <<groups, sessions, target, failed, halfway, writes>>

session_modify(t) ==
    /\ At(t, "modified")
    /\ Reply(t, th[t].status)
    /\ UNCHANGED <<groups, sessions, target, failed, halfway, writes>>

session_delete(t) ==
    LET s == th[t].session IN
    \/ /\ At(t, "reset") /\ clone_session_reset(s)
       /\ Go(t, "mc")
       /\ UNCHANGED <<groups, sessions, mutex, halfway, writes>>
    \/ /\ At(t, "reset") /\ Fails("clone_reset")
       /\ Reply(t, "UNKNOWN")
       /\ UNCHANGED <<groups, sessions, halfway, writes>>
    \/ /\ At(t, "deleted")
       /\ sessions' = IF th[t].status = "OK" THEN sessions \ {s} ELSE sessions
       /\ Reply(t, IF th[t].status = "OK" THEN "OK" ELSE "INTERNAL")
       /\ UNCHANGED <<groups, target, failed, halfway, writes>>
-----------------------------------------------------------------------------
(* DeviceMgr::pre_write.                                                   *)
Begin(t) ==
    /\ At(t, "idle") /\ writes < MaxWrites
    /\ writes' = writes + 1
    /\ UNCHANGED <<groups, sessions, mutex, target, failed, halfway>>

GroupIdOk(g) == g < FirstReserved

pre_mc_write(t, op, g, entry) ==
    /\ Begin(t)
    /\ th' = [th EXCEPT ![t] =
                IF ~GroupIdOk(g) THEN Idle("OUT_OF_RANGE")
                ELSE [Idle("") EXCEPT !.pc = "mc", !.op = op, !.id = g, !.then = "reply",
                                      !.entry = entry]]

pre_clone_write(t, op, s, entry, cos) ==
    /\ Begin(t)
    /\ th' = [th EXCEPT ![t] =
                IF ~validate_session_id(s) THEN Idle("OUT_OF_RANGE")
                ELSE [Idle("") EXCEPT !.pc = "clone", !.op = op, !.session = s, !.entry = entry,
                                      !.cos = cos, !.id = session_id_to_mc_group_id(s)]]

Serve(t) ==
    \/ group_create(t) \/ group_modify(t) \/ group_delete(t)
    \/ group_create_(t) \/ Node(t) \/ attach_node(t) \/ detach_node(t) \/ delete_node(t)
    \/ Purged(t) \/ local_cleanup(t)
    \/ CloneLock(t) \/ session_create(t) \/ session_modify(t) \/ session_delete(t)

EntryOf(op) == IF op = "DELETE" THEN {<<>>} ELSE Replicas
Next ==
    \E t \in Thread :
        \/ Serve(t)
        \/ \E op \in {"INSERT", "MODIFY", "DELETE"} : \E entry \in EntryOf(op) :
              \/ \E g \in ClientGroup : pre_mc_write(t, op, g, entry)
              \/ \E s \in SessionId, cos \in IF op = "INSERT" THEN Cos ELSE {0} :
                    pre_clone_write(t, op, s, entry, cos)

Spec == Init /\ [][Next]_vars
FairSpec == Spec /\ \A t \in Thread : WF_vars(Serve(t))
-----------------------------------------------------------------------------
(* Properties.                                                             *)
\* A call that takes something down has failed.
UndoFailed == Range(failed) \cap {"detach", "node_delete", "grp_delete"} # {}

(* PreMcMgr::groups and the target: between operations, as long as no call *)
(* that takes something down has failed, every node the manager keeps is   *)
(* in the target with the instance and the ports the client asked for, and *)
(* attached to its group, although modifications may have failed halfway   *)
(* and node handles are used again.                                        *)
GroupsBacked ==
    (mutex.mc = Nobody /\ ~UndoFailed) =>
        \A g \in DOMAIN groups :
            /\ g \in DOMAIN hw_groups
            /\ \A rid \in DOMAIN groups[g].nodes :
                LET n == groups[g].nodes[rid] IN
                /\ n.h \in hw_groups[g] /\ n.h \in DOMAIN hw_nodes
                /\ hw_nodes[n.h].rid = rid /\ PortsOf(hw_nodes[n.h].map) = n.ports

NodesKnown(g) == {groups[g].nodes[rid].h : rid \in DOMAIN groups[g].nodes}

(* The rollback of SessionCleanup and detach_and_delete_node: between      *)
(* operations the target has no group, no node and no attachment the       *)
(* manager does not know, unless taking something down has failed; a group *)
(* whose modification failed halfway is the exception: it keeps the nodes  *)
(* that were attached, although group_modify says that it cleans them up.  *)
NothingDangles ==
    (mutex.mc = Nobody /\ ~UndoFailed) =>
        /\ DOMAIN hw_groups = DOMAIN groups
        /\ \A g \in DOMAIN groups \ halfway : hw_groups[g] = NodesKnown(g)
        /\ halfway = {} => \A h \in DOMAIN hw_nodes : \E g \in DOMAIN groups : h \in hw_groups[g]

(* Both directions: the manager and the target have the same groups.       *)
TargetMatchesGroups == GroupsBacked /\ NothingDangles

(* PreCloneMgr: between its operations the groups with reserved ids are    *)
(* those of the sessions, which the target knows with that group, although *)
(* clients write multicast groups meanwhile; a session that could not be   *)
(* set leaves no group.  It fails only when taking something down fails.   *)
SessionsOwnGroups ==
    (mutex.clone = Nobody /\ ~UndoFailed) =>
        /\ {g \in DOMAIN groups : g >= FirstReserved} = {session_id_to_mc_group_id(s) : s \in sessions}
        /\ DOMAIN hw_clone = sessions
        /\ \A s \in sessions : hw_clone[s] = session_id_to_mc_group_id(s)

(* The two mutexes are taken in one order and given back on every path:    *)
(* a Write to the packet replication engine is answered.                   *)
WritesEnd == \A t \in Thread : th[t].pc # "idle" ~> th[t].pc = "idle"
=============================================================================

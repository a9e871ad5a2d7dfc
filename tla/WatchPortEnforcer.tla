-------------------------- MODULE WatchPortEnforcer --------------------------
(***************************************************************************)
(* proto/frontend/src/watch_port_enforcer.{h,cpp} and the threads around   *)
(* it: the task queue thread that applies port events to group members,    *)
(* the RPC threads that edit groups under a WriteAccess, the RPC thread    *)
(* that changes the pipeline under an UpdateAccess, and the target that    *)
(* reports port events.  The threads meet at the lock (AccessArbitration)  *)
(* and at the task queue.                                                  *)
(***************************************************************************)
EXTENDS Naturals, Sequences, FiniteSets

CONSTANTS
    Enforcer,       \* the task queue thread
    Writer,         \* threads of Write RPCs
    Updater,        \* the threads of SetForwardingPipelineConfig
    ActProf,        \* ids of the action profiles of the P4Info
    Member,         \* group members a client programs
    Port,
    NewPort,        \* ports the target does not know yet at the start
    MaxEvents,      \* bound on port events
    MaxWrites,      \* bound on Write RPCs
    MaxUpdates      \* bound on pipeline changes

Thread == {Enforcer} \cup Writer \cup Updater
INVALID_WATCH == "INVALID_WATCH"
NotMember == "NotMember"
UP == "UP"
DOWN == "DOWN"
Unset == "unset"    \* no entry in the map

ASSUME WatchAssumption ==
    /\ IsFiniteSet(Thread) /\ Enforcer \notin Writer \cup Updater /\ Writer \cap Updater = {}
    /\ IsFiniteSet(ActProf) /\ ActProf \subseteq Nat \ {0}
    /\ Port \cap {INVALID_WATCH, NotMember} = {}

VARIABLES
    \* the lock
    read_cnt, write_cnt, update_cnt, no_write_cnt, p4_ids_busy, cv_waiters, access,
    \* the target: port status, and the group members programmed and active
    oper, hw_members, hw_active,
    \* WatchPortEnforcer
    task_queue, ports_status_cache, ports_status, members_by_port,
    act_prof_ids,       \* the local of set_port_status
    task,               \* the task being executed
    \* ActionProfMgr: the watch port it remembers for each group member
    group_members,
    \* the updater: what is left of pipeline_config_set
    updater,
    \* the last INTERNAL status returned by the enforcer's methods, and the bounds
    internal_error, events, writes, updates,
    \* history: a Write was admitted in the middle of a pipeline change
    raced,
    \* history: for each profile, the ports of which the last event did not reach it
    \* and changed the status, because set_port_status ended before
    missed

lock == <<read_cnt, write_cnt, update_cnt, no_write_cnt, p4_ids_busy, cv_waiters, access>>
target == <<oper, hw_members, hw_active>>
tables == <<ports_status, members_by_port>>
bounds == <<events, writes, updates, raced>>
vars == <<lock, target, task_queue, ports_status_cache, tables, act_prof_ids, task,
          group_members, updater, internal_error, bounds, missed>>

Arb == INSTANCE AccessArbitration
         WITH Table <- {}, OtherId <- {}, P4Infos <- {<<>>}

NoTask == [kind |-> "none"]
PortEvent(p, s) == [kind |-> "port_event", port |-> p, status |-> s]
UpdateCache(p) == [kind |-> "update_cache", port |-> p]
P4Change == [kind |-> "p4_change"]

(* A pipeline is installed, no group has members, no port was looked at.   *)
Init ==
    /\ Arb!Init
    /\ oper = [p \in Port |-> IF p \in NewPort THEN Unset ELSE UP]
    /\ hw_members = [a \in ActProf |-> {}] /\ hw_active = [a \in ActProf |-> {}]
    /\ task_queue = <<>> /\ task = NoTask /\ act_prof_ids = {}
    /\ ports_status_cache = [p \in Port |-> Unset]
    /\ ports_status = [a \in ActProf |-> [p \in Port |-> Unset]]
    /\ members_by_port = [a \in ActProf |-> [p \in Port |-> {}]]
    /\ group_members = [a \in ActProf |-> [m \in Member |-> NotMember]]
    /\ updater = "idle"
    /\ internal_error = FALSE
    /\ events = 0 /\ writes = 0 /\ updates = 0 /\ raced = FALSE
    /\ missed = [a \in ActProf |-> {}]
-----------------------------------------------------------------------------
(* The target changes the status of a port and calls port_status_event_cb, *)
(* which posts a task.                                                     *)
port_status_event_cb(p, s) ==
    /\ events < MaxEvents
    /\ oper[p] # s
    /\ oper' = [oper EXCEPT ![p] = s]
    /\ task_queue' = Append(task_queue, PortEvent(p, s))
    /\ events' = events + 1
    /\ UNCHANGED <<lock, hw_members, hw_active, ports_status_cache, tables, act_prof_ids,
                   task, group_members, updater, internal_error, writes, updates, raced, missed>>
-----------------------------------------------------------------------------
(* The task queue thread. *)

(* Mutant: the event does not reach the cache. *)
RunPortEvent_uncached ==
    /\ task = NoTask /\ task_queue # <<>> /\ Head(task_queue).kind = "port_event"
    /\ task' = Head(task_queue)
    /\ task_queue' = Tail(task_queue)
    /\ act_prof_ids' = ActProf
    /\ UNCHANGED <<lock, target, ports_status_cache, tables, group_members, updater,
                   internal_error, bounds, missed>>

(* TaskQueue::execute takes the next task; a task that does not touch the  *)
(* lock runs to its end.                                                   *)
RunPortEvent ==
    /\ task = NoTask /\ task_queue # <<>> /\ Head(task_queue).kind = "port_event"
    /\ task' = Head(task_queue)
    /\ task_queue' = Tail(task_queue)
    /\ ports_status_cache' = [ports_status_cache EXCEPT ![task'.port] = task'.status]
    /\ act_prof_ids' = ActProf
    /\ UNCHANGED <<lock, target, tables, group_members, updater, internal_error, bounds, missed>>

RunUpdateCache ==
    /\ task = NoTask /\ task_queue # <<>> /\ Head(task_queue).kind = "update_cache"
    /\ LET p == Head(task_queue).port IN
       ports_status_cache' = IF oper[p] = Unset THEN ports_status_cache
                             ELSE [ports_status_cache EXCEPT ![p] = oper[p]]
    /\ task_queue' = Tail(task_queue)
    /\ UNCHANGED <<lock, target, tables, act_prof_ids, task, group_members, updater,
                   internal_error, bounds, missed>>

RunP4Change ==
    /\ task = NoTask /\ task_queue # <<>> /\ Head(task_queue).kind = "p4_change"
    /\ ports_status' = [a \in ActProf |-> ports_status_cache]
    /\ members_by_port' = [a \in ActProf |-> [p \in Port |-> {}]]
    /\ updater' = "promised"
    /\ task_queue' = Tail(task_queue)
    /\ missed' = [a \in ActProf |-> {}]
    /\ UNCHANGED <<lock, target, ports_status_cache, act_prof_ids, task, group_members,
                   internal_error, bounds>>

(* Mutant: set_port_status waits for the update to finish. *)
CallNoWrite_wait ==
    /\ task # NoTask /\ act_prof_ids # {}
    /\ Arb!CallOneOf(Enforcer, "no_write_one_of", act_prof_ids)
    /\ UNCHANGED <<target, task_queue, ports_status_cache, tables, act_prof_ids, task,
                   group_members, updater, internal_error, bounds, missed>>

(* The loop of set_port_status: one iteration takes the lock of one of the *)
(* action profiles that are left, unless an update is going on.            *)
CallNoWrite ==
    /\ task # NoTask /\ act_prof_ids # {}
    /\ Arb!CallOneOf(Enforcer, "no_write_one_of_skip", act_prof_ids)
    /\ UNCHANGED <<target, task_queue, ports_status_cache, tables, act_prof_ids, task,
                   group_members, updater, internal_error, bounds, missed>>

GetNoWrite ==
    /\ \/ Arb!Wait(Enforcer) /\ UNCHANGED act_prof_ids
       \/ Arb!GrantNoWrite(Enforcer) /\ act_prof_ids' = act_prof_ids \ access'[Enforcer].p4_ids
       \/ Arb!SkipNoWrite(Enforcer) /\ UNCHANGED act_prof_ids
    /\ UNCHANGED <<target, task_queue, ports_status_cache, tables, task, group_members,
                   updater, internal_error, bounds, missed>>

(* The loop ends before it comes to the profiles as: those whose map holds *)
(* another status miss the event.                                          *)
EndsBefore(as) ==
    [b \in ActProf |->
        IF b \notin as THEN missed[b]
        ELSE IF ports_status[b][task.port] \in {Unset, task.status} THEN missed[b] \ {task.port}
        ELSE missed[b] \cup {task.port}]

(* "if (!access) break" *)
SkipPortEvent ==
    /\ Arb!DropNoAccess(Enforcer)
    /\ act_prof_ids' = {} /\ task' = NoTask
    /\ missed' = EndsBefore(act_prof_ids)
    /\ UNCHANGED <<target, task_queue, ports_status_cache, tables, group_members, updater,
                   internal_error, bounds>>

(* An action profile whose map already holds the status ends the loop.  An *)
(* entry that is missing from the map is created, as DOWN.                 *)
Known(s) == IF s = Unset THEN DOWN ELSE s

(* Mutant: the test for members comes before the assignment of the status. *)
SetPortStatus_unrecorded(a) ==
    /\ access[Enforcer].state = "held" /\ access[Enforcer].p4_ids = {a}
    /\ Arb!ReleaseNoWrite(Enforcer)
    /\ LET changed == Known(ports_status[a][task.port]) # task.status
           members == members_by_port[a][task.port]
       IN  /\ ports_status' = [ports_status EXCEPT
                ![a][task.port] = IF changed /\ members = {} THEN Known(@) ELSE task.status]
           /\ act_prof_ids' = IF changed THEN act_prof_ids ELSE {}
           /\ missed' = IF changed THEN [missed EXCEPT ![a] = @ \ {task.port}]
                        ELSE [EndsBefore(act_prof_ids) EXCEPT ![a] = @ \ {task.port}]
           /\ hw_active' = [hw_active EXCEPT ![a] = IF ~changed THEN @
                ELSE IF task.status = UP THEN @ \cup members ELSE @ \ members]
    /\ task' = IF act_prof_ids' = {} THEN NoTask ELSE task
    /\ UNCHANGED <<oper, hw_members, task_queue, ports_status_cache, members_by_port,
                   group_members, updater, internal_error, bounds>>

SetPortStatus(a) ==
    /\ access[Enforcer].state = "held" /\ access[Enforcer].p4_ids = {a}
    /\ Arb!ReleaseNoWrite(Enforcer)
    /\ ports_status' = [ports_status EXCEPT ![a][task.port] = task.status]
    /\ IF Known(ports_status[a][task.port]) = task.status
       THEN /\ act_prof_ids' = {} /\ UNCHANGED hw_active
            /\ missed' = [EndsBefore(act_prof_ids) EXCEPT ![a] = @ \ {task.port}]
       ELSE /\ UNCHANGED act_prof_ids
            /\ missed' = [missed EXCEPT ![a] = @ \ {task.port}]
            /\ hw_active' = [hw_active EXCEPT
                 ![a] = IF task.status = UP THEN @ \cup members_by_port[a][task.port]
                                            ELSE @ \ members_by_port[a][task.port]]
    /\ task' = IF act_prof_ids' = {} THEN NoTask ELSE task
    /\ UNCHANGED <<oper, hw_members, task_queue, ports_status_cache, members_by_port,
                   group_members, updater, internal_error, bounds>>
-----------------------------------------------------------------------------
(* get_port_status, called by a writer: looks the port up in the map of    *)
(* the action profile, else asks the target and posts UpdateCache.         *)
MustQuery(a, p) == p # INVALID_WATCH /\ ports_status[a][p] = Unset /\ oper[p] # Unset

get_port_status(a, p) ==
    CASE p = INVALID_WATCH -> UP
      [] p # INVALID_WATCH /\ ports_status[a][p] # Unset -> ports_status[a][p]
      [] OTHER -> Known(oper[p])

(* What the calls get_port_status(a, p) for the ports ps add to the map,   *)
(* and the task that one of them posts.                                    *)
Queried(a, ps) ==
    [ports_status EXCEPT ![a] = [p \in Port |-> IF p \in ps /\ MustQuery(a, p) THEN oper[p] ELSE @[p]]]
UpdateCaches(a, p) == IF MustQuery(a, p) THEN <<UpdateCache(p)>> ELSE <<>>

(* A pipeline update is between its grant and its release. *)
Updating == updater \notin {"idle", "called"}

(* A Write RPC: lock the action profile, edit a group, release. *)
CallWrite(w, a) ==
    /\ writes < MaxWrites
    /\ Arb!CallWriteRequest(w, {a}, <<>>)
    /\ writes' = writes + 1
    /\ UNCHANGED <<target, task_queue, ports_status_cache, tables, act_prof_ids, task,
                   group_members, updater, internal_error, events, updates, raced, missed>>

GetWrite(w) ==
    /\ \/ Arb!Wait(w) /\ UNCHANGED raced
       \/ Arb!GrantWrite(w) /\ raced' = (raced \/ Updating)
    /\ UNCHANGED <<target, task_queue, ports_status_cache, tables, act_prof_ids, task,
                   group_members, updater, internal_error, events, writes, updates, missed>>

Writes(w, a) ==
    /\ access[w].state = "held" /\ a \in access[w].p4_ids
    /\ Arb!ReleaseWrite(w)
    /\ UNCHANGED <<oper, ports_status_cache, act_prof_ids, task, updater, bounds, missed>>

(* group_add_member, then add_member_and_update_hw (or, with the other PI  *)
(* API, get_port_status, group_set_members and add_member).                *)
AddMember(w, a, m, watch) ==
    LET listed == watch # INVALID_WATCH /\ m \in members_by_port[a][watch]
    IN  /\ Writes(w, a)
        /\ group_members[a][m] = NotMember
        /\ group_members' = [group_members EXCEPT ![a][m] = watch]
        /\ hw_members' = [hw_members EXCEPT ![a] = @ \cup {m}]
        /\ internal_error' = listed
        /\ IF listed
           THEN hw_active' = [hw_active EXCEPT ![a] = @ \cup {m}] /\ UNCHANGED <<task_queue, tables>>
           ELSE /\ members_by_port' = [members_by_port EXCEPT
                     ![a] = [p \in Port |-> IF p = watch THEN @[p] \cup {m} ELSE @[p]]]
                /\ ports_status' = Queried(a, {watch})
                /\ task_queue' = task_queue \o UpdateCaches(a, watch)
                /\ hw_active' = [hw_active EXCEPT
                     ![a] = IF get_port_status(a, watch) = UP THEN @ \cup {m} ELSE @ \ {m}]

(* modify_member_and_update_hw.  The ActionProfMgr records the new watch   *)
(* port whatever the outcome.                                              *)
ModifyMember(w, a, m, watch) ==
    LET current == group_members[a][m]
        current_status == get_port_status(a, current)
        new_status == get_port_status(a, watch)
        lost == current # INVALID_WATCH /\ m \notin members_by_port[a][current]
        listed == watch # INVALID_WATCH /\ m \in members_by_port[a][watch]
    IN  /\ Writes(w, a)
        /\ current \notin {NotMember, watch}
        /\ group_members' = [group_members EXCEPT ![a][m] = watch]
        /\ UNCHANGED hw_members
        /\ internal_error' = (lost \/ listed)
        /\ members_by_port' = IF lost THEN members_by_port ELSE
             [members_by_port EXCEPT
                ![a] = [p \in Port |-> IF p = current THEN @[p] \ {m}
                                       ELSE IF p = watch THEN @[p] \cup {m} ELSE @[p]]]
        /\ IF lost \/ listed
           THEN UNCHANGED <<task_queue, ports_status, hw_active>>
           ELSE /\ ports_status' = Queried(a, {current, watch})
                /\ task_queue' = task_queue \o UpdateCaches(a, current) \o UpdateCaches(a, watch)
                /\ hw_active' = [hw_active EXCEPT
                     ![a] = IF current # INVALID_WATCH /\ current_status = new_status THEN @
                            ELSE IF new_status = UP THEN @ \cup {m} ELSE @ \ {m}]

(* delete_member, then group_remove_member *)
DeleteMember(w, a, m) ==
    LET current == group_members[a][m]
        found == current = INVALID_WATCH \/ m \in members_by_port[a][current]
    IN  /\ Writes(w, a)
        /\ current # NotMember
        /\ internal_error' = ~found
        /\ UNCHANGED <<task_queue, ports_status>>
        /\ IF found
           THEN /\ group_members' = [group_members EXCEPT ![a][m] = NotMember]
                /\ members_by_port' = [members_by_port EXCEPT
                     ![a] = [p \in Port |-> IF p = current THEN @[p] \ {m} ELSE @[p]]]
                /\ hw_members' = [hw_members EXCEPT ![a] = @ \ {m}]
                /\ hw_active' = [hw_active EXCEPT ![a] = @ \ {m}]
           ELSE UNCHANGED <<group_members, members_by_port, hw_members, hw_active>>
-----------------------------------------------------------------------------
(* SetForwardingPipelineConfig, from the UpdateAccess to its release. *)
CallUpdate(u) ==
    /\ updates < MaxUpdates
    /\ updater = "idle"
    /\ Arb!CallGlobal(u, "update")
    /\ updater' = "called"
    /\ updates' = updates + 1
    /\ UNCHANGED <<target, task_queue, ports_status_cache, tables, act_prof_ids, task,
                   group_members, internal_error, events, writes, raced, missed>>

GetUpdate(u) ==
    /\ \/ Arb!Wait(u) /\ UNCHANGED updater
       \/ Arb!GrantUpdate(u) /\ updater' = "granted"
    /\ UNCHANGED <<target, task_queue, ports_status_cache, tables, act_prof_ids, task,
                   group_members, internal_error, bounds, missed>>

(* pi_update_device_start wipes the state of the target. *)
UpdateDeviceStart(u) ==
    /\ updater = "granted"
    /\ hw_members' = [a \in ActProf |-> {}] /\ hw_active' = [a \in ActProf |-> {}]
    /\ updater' = "started"
    /\ UNCHANGED <<lock, oper, task_queue, ports_status_cache, tables, act_prof_ids, task,
                   group_members, internal_error, bounds, missed>>

(* WatchPortEnforcer::p4_change: post the task and wait for its promise. *)
PostP4Change(u) ==
    /\ updater = "started"
    /\ task_queue' = Append(task_queue, P4Change)
    /\ updater' = "waiting"
    /\ UNCHANGED <<lock, target, ports_status_cache, tables, act_prof_ids, task,
                   group_members, internal_error, bounds, missed>>

(* DeviceMgr::p4_change then drops the ActionProfMgr objects. *)
ClearActionProfs(u) ==
    /\ updater = "promised"
    /\ group_members' = [a \in ActProf |-> [m \in Member |-> NotMember]]
    /\ updater' = "changed"
    /\ UNCHANGED <<lock, target, task_queue, ports_status_cache, tables, act_prof_ids, task,
                   internal_error, bounds, missed>>

EndUpdate(u) ==
    /\ updater = "changed"
    /\ Arb!ReleaseUpdate(u)
    /\ updater' = "idle"
    /\ UNCHANGED <<target, task_queue, ports_status_cache, tables, act_prof_ids, task,
                   group_members, internal_error, bounds, missed>>
-----------------------------------------------------------------------------
EnforcerStep ==
    \/ RunPortEvent \/ RunUpdateCache \/ RunP4Change
    \/ CallNoWrite \/ GetNoWrite \/ SkipPortEvent
    \/ \E a \in ActProf : SetPortStatus(a)

WriterStep(w) ==
    \/ GetWrite(w)
    \/ \E a \in ActProf, m \in Member :
         \/ \E watch \in Port \cup {INVALID_WATCH} :
              AddMember(w, a, m, watch) \/ ModifyMember(w, a, m, watch)
         \/ DeleteMember(w, a, m)

UpdaterStep(u) ==
    \/ GetUpdate(u) \/ UpdateDeviceStart(u) \/ PostP4Change(u)
    \/ ClearActionProfs(u) \/ EndUpdate(u)

Next ==
    \/ \E p \in Port, s \in {UP, DOWN} : port_status_event_cb(p, s)
    \/ EnforcerStep
    \/ \E w \in Writer : WriterStep(w) \/ \E a \in ActProf : CallWrite(w, a)
    \/ \E u \in Updater : UpdaterStep(u) \/ CallUpdate(u)

Spec == Init /\ [][Next]_vars

(* Every thread that can take its next step takes it. *)
FairSpec ==
    /\ Spec
    /\ WF_vars(EnforcerStep)
    /\ \A w \in Writer : WF_vars(WriterStep(w))
    /\ \A u \in Updater : WF_vars(UpdaterStep(u))
-----------------------------------------------------------------------------
(* Properties. *)

Status == {UP, DOWN}
Watch == Port \cup {INVALID_WATCH}

(* Every variable keeps its type. *)
TypeOK ==
    /\ Arb!TypeOK
    /\ oper \in [Port -> Status \cup {Unset}]
    /\ hw_members \in [ActProf -> SUBSET Member]
    /\ hw_active \in [ActProf -> SUBSET Member]
    /\ ports_status_cache \in [Port -> Status \cup {Unset}]
    /\ ports_status \in [ActProf -> [Port -> Status \cup {Unset}]]
    /\ members_by_port \in [ActProf -> [Port -> SUBSET Member]]
    /\ group_members \in [ActProf -> [Member -> Watch \cup {NotMember}]]
    /\ act_prof_ids \subseteq ActProf
    /\ task = NoTask \/ task.kind = "port_event"
    /\ internal_error \in BOOLEAN /\ raced \in BOOLEAN /\ missed \in [ActProf -> SUBSET Port]

(* Nothing is left to do: no task, no RPC. *)
AtRest ==
    /\ task = NoTask /\ task_queue = <<>> /\ updater = "idle"
    /\ \A th \in Thread : access[th].state = "idle"

(* Outside of an update, a member with a watch port is active on the       *)
(* target exactly when the map of its action profile says that the port is *)
(* up; pipeline changes keep it so, unless a Write slips into one.         *)
ActiveIffStatusUp ==
    ~Updating /\ ~raced => \A a \in ActProf, p \in Port : \A m \in members_by_port[a][p] :
        m \in hw_members[a] /\ (m \in hw_active[a] <=> ports_status[a][p] = UP)

(* What the profile a promises for the members that watch the port p: they *)
(* are in their group on the target, and active exactly when the port is   *)
(* up now.                                                                 *)
ActiveIffOperUp(a, p) ==
    \A m \in members_by_port[a][p] :
        m \in hw_members[a] /\ (m \in hw_active[a] <=> oper[p] = UP)

(* "we guarantee consistency between a port oper status and a member       *)
(* activation status" (watch_port_enforcer.h:165).  Once the tasks have    *)
(* run, whatever events, Writes and pipeline changes came in which order,  *)
(* the members of every profile follow the status that the port has on the *)
(* target.  The exception is a profile whose map the last event of the     *)
(* port should have changed and did not reach: the loop ends at the first  *)
(* profile for which the status is no news, or which has no entry for a    *)
(* port that goes down (watch_port_enforcer.cpp:172), and at an update     *)
(* (:163).                                                                 *)
MembersFollowOper ==
    AtRest /\ ~raced => \A a \in ActProf, p \in Port : p \notin missed[a] => ActiveIffOperUp(a, p)

(* The lazy cache that seeds the maps after a pipeline change is right     *)
(* about every port it knows once the tasks have run.                      *)
CacheCurrentAtRest ==
    AtRest => \A p \in Port : ports_status_cache[p] \in {Unset, oper[p]}

(* The enforcer knows a member under the watch port that the ActionProfMgr *)
(* remembers, and under no other; and delete_member, which "really should  *)
(* not fail" (watch_port_enforcer.h:79), does not: again unless a Write     *)
(* slips into a pipeline change.                                           *)
EnforcerAgreesWithManager ==
    /\ internal_error => raced
    /\ ~Updating /\ ~raced => \A a \in ActProf, m \in Member, p \in Port :
          m \in members_by_port[a][p] <=> group_members[a][m] = p

(* The promises together, for every order of Writes, pipeline changes and  *)
(* port events; the variables keep their types.                            *)
MembersFollowPorts ==
    TypeOK /\ ActiveIffStatusUp /\ MembersFollowOper /\ EnforcerAgreesWithManager

(* set_port_status must not wait for the update: "waiting for the lock     *)
(* would put us in a potential deadlock situation".  An update that was    *)
(* granted its access finishes, although p4_change waits for the task      *)
(* queue thread.                                                           *)
UpdateFinishes == Updating ~> ~Updating

(* A port event that the task queue thread starts on is dealt with,        *)
(* whatever the RPC threads lock in the meantime.                          *)
PortEventHandled == task # NoTask ~> task = NoTask

(* Neither the update nor the task waits for the other for ever.           *)
NobodyWaitsForEver == UpdateFinishes /\ PortEventHandled
=============================================================================

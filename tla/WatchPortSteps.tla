-------------------------- MODULE WatchPortSteps ---------------------------
(***************************************************************************)
(* Proofs about WatchPortEnforcer, for any number of threads, action       *)
(* profiles, members and ports and for any values of the bounds: the types,*)
(* the lazy cache of port statuses behind the task queue, the ports that   *)
(* the maps know, and what a step does to the lock.                        *)
(***************************************************************************)
EXTENDS WatchPortEnforcer, TLAPS

(* The type of the Access objects. *)
AccessType == access \in [Thread -> [state : {"idle", "called", "held", "no_access"},
                                     op : Arb!Op, p4_ids : SUBSET ActProf]]

-----------------------------------------------------------------------------
(* The types, with what TypeOK leaves out: the tasks, and the phases of    *)
(* the updater.                                                            *)
Event == [kind : {"port_event"}, port : Port, status : Status]
CacheTask == [kind : {"update_cache"}, port : Port]
Task == Event \cup CacheTask \cup {P4Change}
Phase == {"idle", "called", "granted", "started", "waiting", "promised", "changed"}

TargetType ==
    /\ oper \in [Port -> Status \cup {Unset}]
    /\ hw_members \in [ActProf -> SUBSET Member]
    /\ hw_active \in [ActProf -> SUBSET Member]

TablesType ==
    /\ ports_status_cache \in [Port -> Status \cup {Unset}]
    /\ ports_status \in [ActProf -> [Port -> Status \cup {Unset}]]
    /\ members_by_port \in [ActProf -> [Port -> SUBSET Member]]
    /\ group_members \in [ActProf -> [Member -> Watch \cup {NotMember}]]

TasksType ==
    /\ act_prof_ids \subseteq ActProf
    /\ task \in Event \cup {NoTask}
    /\ task_queue \in Seq(Task)
    /\ updater \in Phase
    /\ internal_error \in BOOLEAN /\ raced \in BOOLEAN

DataType == TargetType /\ TablesType /\ TasksType

(* The first task, and what is left of the queue. *)
LEMMA HeadTail ==
    ASSUME task_queue \in Seq(Task), task_queue # <<>>
    PROVE  /\ Head(task_queue) \in Task
           /\ Tail(task_queue) \in Seq(Task)
           /\ Len(task_queue) \in Nat \ {0} /\ DOMAIN task_queue = 1 .. Len(task_queue)
           /\ Head(task_queue) = task_queue[1]
           /\ Len(Tail(task_queue)) = Len(task_queue) - 1
           /\ DOMAIN Tail(task_queue) = 1 .. (Len(task_queue) - 1)
           /\ \A i \in DOMAIN Tail(task_queue) : Tail(task_queue)[i] = task_queue[i + 1]
  <1> DEFINE T == Task
  <1> HIDE DEF T
  <1>1. task_queue \in Seq(T) /\ task_queue # <<>>
    BY DEF T
  <1>2. /\ Head(task_queue) \in T
        /\ Tail(task_queue) \in Seq(T)
        /\ Len(task_queue) \in Nat \ {0} /\ DOMAIN task_queue = 1 .. Len(task_queue)
        /\ Head(task_queue) = task_queue[1]
        /\ Len(Tail(task_queue)) = Len(task_queue) - 1
        /\ DOMAIN Tail(task_queue) = 1 .. (Len(task_queue) - 1)
        /\ \A i \in DOMAIN Tail(task_queue) : Tail(task_queue)[i] = task_queue[i + 1]
    BY <1>1, SMTT(60)
  <1>3. QED
    BY <1>2 DEF T

(* A task is one of three kinds. *)
LEMMA TaskKinds ==
    ASSUME NEW t \in Task
    PROVE  /\ t.kind = "port_event" => t \in Event /\ t.port \in Port /\ t.status \in Status
           /\ t.kind = "update_cache" => t.port \in Port
           /\ t.kind = "p4_change" <=> t = P4Change
  BY SMTT(60) DEF Task, Event, CacheTask, P4Change

(* UpdateCaches posts UpdateCache tasks, if any. *)
LEMMA CacheTasks ==
    ASSUME NEW a, NEW p \in Watch
    PROVE  UpdateCaches(a, p) \in Seq(CacheTask)
  <1>1. CASE MustQuery(a, p)
    <2>1. p \in Port
      BY <1>1 DEF MustQuery, Watch
    <2>2. UpdateCache(p) \in CacheTask
      BY <2>1 DEF UpdateCache, CacheTask
    <2>3. QED
      BY <1>1, <2>2 DEF UpdateCaches
  <1>2. CASE ~MustQuery(a, p)
    BY <1>2 DEF UpdateCaches
  <1>3. QED
    BY <1>1, <1>2

(* The tasks that the Writes post are no port events and no p4_change. *)
LEMMA PostCaches ==
    ASSUME NEW q \in Seq(Task), NEW r \in Seq(CacheTask)
    PROVE  /\ q \o r \in Seq(Task)
           /\ \A i \in DOMAIN q : i \in DOMAIN (q \o r) /\ (q \o r)[i] = q[i]
           /\ \A i \in DOMAIN (q \o r) : i \in DOMAIN q \/ (q \o r)[i].kind = "update_cache"
  <1>1. /\ \A i \in DOMAIN r : r[i] \in CacheTask
        /\ CacheTask \subseteq Task
    BY SMTT(60) DEF Task
  <1>2. \A c \in CacheTask : c.kind = "update_cache"
    BY SMTT(60) DEF CacheTask
  <1>3. r \in Seq(Task)
    BY <1>1, SMTT(60)
  <1>4. /\ q \o r \in Seq(Task)
        /\ \A i \in DOMAIN q : i \in DOMAIN (q \o r) /\ (q \o r)[i] = q[i]
        /\ \A i \in DOMAIN (q \o r) : i \in DOMAIN q \/ (i - Len(q) \in DOMAIN r /\ (q \o r)[i] = r[i - Len(q)])
    BY <1>3, SMTT(60)
  <1>5. QED
    BY <1>1, <1>2, <1>4

(* What a Write does to the queue. *)
Posted ==
    /\ task_queue' \in Seq(Task)
    /\ \A i \in DOMAIN task_queue : i \in DOMAIN task_queue' /\ task_queue'[i] = task_queue[i]
    /\ \A i \in DOMAIN task_queue' :
         i \in DOMAIN task_queue \/ task_queue'[i].kind = "update_cache"

LEMMA AddPosts ==
    ASSUME DataType, NEW w \in Writer, NEW a \in ActProf, NEW m \in Member, NEW watch \in Watch,
           AddMember(w, a, m, watch)
    PROVE  Posted
  <1>0. task_queue \in Seq(Task)
    BY DEF DataType, TasksType
  <1>1. CASE UNCHANGED task_queue
    BY <1>0, <1>1 DEF Posted
  <1>2. CASE task_queue' = task_queue \o UpdateCaches(a, watch)
    <2>1. UpdateCaches(a, watch) \in Seq(CacheTask)
      BY CacheTasks
    <2>2. QED
      BY <1>0, <1>2, <2>1, PostCaches DEF Posted
  <1>3. QED
    BY <1>1, <1>2, ZenonT(60) DEF AddMember

LEMMA ModifyPosts ==
    ASSUME DataType, NEW w \in Writer, NEW a \in ActProf, NEW m \in Member, NEW watch \in Watch,
           ModifyMember(w, a, m, watch)
    PROVE  Posted
  <1>0. task_queue \in Seq(Task)
    BY DEF DataType, TasksType
  <1>1. CASE UNCHANGED task_queue
    BY <1>0, <1>1 DEF Posted
  <1>2. CASE task_queue' = task_queue \o UpdateCaches(a, group_members[a][m])
                                     \o UpdateCaches(a, watch)
    <2>1. group_members[a][m] \in Watch
      BY SMTT(60) DEF ModifyMember, DataType, TablesType
    <2>2. task_queue \o UpdateCaches(a, group_members[a][m]) \in Seq(Task)
      BY <1>0, <2>1, CacheTasks, PostCaches
    <2>3. /\ UpdateCaches(a, group_members[a][m]) \in Seq(CacheTask)
          /\ UpdateCaches(a, watch) \in Seq(CacheTask)
      BY <1>0, <2>1, CacheTasks
    <2> DEFINE q == task_queue \o UpdateCaches(a, group_members[a][m])
    <2>4. /\ \A i \in DOMAIN task_queue : i \in DOMAIN q /\ q[i] = task_queue[i]
          /\ \A i \in DOMAIN q : i \in DOMAIN task_queue \/ q[i].kind = "update_cache"
      BY <1>0, <2>3, PostCaches
    <2>5. q \in Seq(Task) /\ task_queue' = q \o UpdateCaches(a, watch)
      BY <1>2, <2>2
    <2> HIDE DEF q
    <2>6. /\ task_queue' \in Seq(Task)
          /\ \A i \in DOMAIN q : i \in DOMAIN task_queue' /\ task_queue'[i] = q[i]
          /\ \A i \in DOMAIN task_queue' : i \in DOMAIN q \/ task_queue'[i].kind = "update_cache"
      BY <2>3, <2>5, PostCaches
    <2>7. QED
      BY <2>4, <2>6, ZenonT(60) DEF Posted
  <1>3. QED
    BY <1>1, <1>2, ZenonT(60) DEF ModifyMember

-----------------------------------------------------------------------------
(* Who makes which call: a Write RPC a write_access of its request, an     *)
(* update an update_access, and the task queue thread, while it runs a     *)
(* port event, a no_write_access that skips updates.                       *)
RolesInv ==
    /\ \A w \in Writer : access[w].state # "idle" => access[w].op = "write_request"
    /\ \A u \in Updater : access[u].state # "idle"
                            => access[u].op = "update" /\ access[u].state # "no_access"
    /\ access[Enforcer].state # "idle" => access[Enforcer].op = "no_write_one_of_skip"
                                          /\ task # NoTask

(* The types are kept by the target and by the task queue thread. *)
LEMMA EnforcerTypes ==
    ASSUME DataType, RolesInv,
           \/ EnforcerStep
           \/ \E p \in Port, s \in {UP, DOWN} : port_status_event_cb(p, s)
    PROVE  DataType'
  <1>0. TargetType /\ TablesType /\ TasksType
    BY DEF DataType
  <1>1. CASE \E p \in Port, s \in {UP, DOWN} : port_status_event_cb(p, s)
    <2>1. PICK p \in Port, s \in {UP, DOWN} : port_status_event_cb(p, s)
      BY <1>1
    <2>2. PortEvent(p, s) \in Task
      BY <2>1 DEF PortEvent, Task, Event, Status
    <2>3. task_queue' \in Seq(Task)
      BY <1>0, <2>1, <2>2 DEF port_status_event_cb, TasksType
    <2>4. TargetType'
      BY <1>0, <2>1 DEF port_status_event_cb, TargetType, Status
    <2>5. TablesType' /\ TasksType'
      BY <1>0, <2>1, <2>3 DEF port_status_event_cb, TablesType, TasksType, tables
    <2>6. QED
      BY <2>4, <2>5 DEF DataType
  <1>2. CASE RunPortEvent
    <2>1. Head(task_queue) \in Event /\ Tail(task_queue) \in Seq(Task)
      BY <1>0, <1>2, HeadTail, TaskKinds DEF RunPortEvent, TasksType
    <2>2. TasksType'
      BY <1>0, <1>2, <2>1 DEF RunPortEvent, TasksType, bounds
    <2>3. task'.port \in Port /\ task'.status \in Status
      BY <1>2, <2>1 DEF RunPortEvent, Event
    <2>4. TargetType' /\ TablesType'
      BY <1>0, <1>2, <2>3 DEF RunPortEvent, TargetType, TablesType, target, tables
    <2>5. QED
      BY <2>2, <2>4 DEF DataType
  <1>3. CASE RunUpdateCache
    <2>1. Head(task_queue).port \in Port /\ Tail(task_queue) \in Seq(Task)
      BY <1>0, <1>3, HeadTail, TaskKinds DEF RunUpdateCache, TasksType
    <2>2. TasksType'
      BY <1>0, <1>3, <2>1 DEF RunUpdateCache, TasksType, bounds
    <2>3. TargetType' /\ TablesType'
      BY <1>0, <1>3, <2>1 DEF RunUpdateCache, TargetType, TablesType, target, tables
    <2>4. QED
      BY <2>2, <2>3 DEF DataType
  <1>4. CASE RunP4Change
    <2>1. Tail(task_queue) \in Seq(Task)
      BY <1>0, <1>4, HeadTail DEF RunP4Change, TasksType
    <2>2. TasksType'
      BY <1>0, <1>4, <2>1 DEF RunP4Change, TasksType, bounds, Phase
    <2>3. TargetType' /\ TablesType'
      BY <1>0, <1>4, ZenonT(60) DEF RunP4Change, TargetType, TablesType, target
    <2>4. QED
      BY <2>2, <2>3 DEF DataType
  <1>5. CASE CallNoWrite \/ GetNoWrite \/ SkipPortEvent
    <2>1. TasksType'
      BY <1>0, <1>5, ZenonT(60) DEF CallNoWrite, GetNoWrite, SkipPortEvent, TasksType, bounds
    <2>2. TargetType' /\ TablesType'
      BY <1>0, <1>5 DEF CallNoWrite, GetNoWrite, SkipPortEvent, TargetType, TablesType,
             target, tables
    <2>3. QED
      BY <2>1, <2>2 DEF DataType
  <1>6. ASSUME NEW a \in ActProf, SetPortStatus(a)
        PROVE  DataType'
    <2>1. task \in Event
      BY <1>0, <1>6, SMTT(60) DEF SetPortStatus, RolesInv, TasksType
    <2>2. task.port \in Port /\ task.status \in Status
      BY <2>1 DEF Event
    <2>3. TasksType'
      BY <1>0, <1>6 DEF SetPortStatus, TasksType, bounds
    <2>4. TablesType'
      BY <1>0, <1>6, <2>2 DEF SetPortStatus, TablesType
    <2>5. hw_active' \in [ActProf -> SUBSET Member]
      <3>1. members_by_port[a][task.port] \subseteq Member
        BY <1>0, <2>2 DEF TablesType
      <3>2. QED
        BY <1>0, <1>6, <3>1 DEF SetPortStatus, TargetType
    <2>6. TargetType'
      BY <1>0, <1>6, <2>5 DEF SetPortStatus, TargetType
    <2>7. QED
      BY <2>3, <2>4, <2>6 DEF DataType
  <1>7. QED
    BY <1>1, <1>2, <1>3, <1>4, <1>5, <1>6 DEF EnforcerStep

(* Queries keep the map well-typed. *)
LEMMA QueriedType ==
    ASSUME TargetType, TablesType, NEW a \in ActProf, NEW ps
    PROVE  Queried(a, ps) \in [ActProf -> [Port -> Status \cup {Unset}]]
  BY SMTT(60) DEF TargetType, TablesType, Queried

(* The types are kept by the Writes. *)
LEMMA WriterTypes ==
    ASSUME DataType, NEW w \in Writer,
           WriterStep(w) \/ \E a \in ActProf : CallWrite(w, a)
    PROVE  DataType'
  <1>0. TargetType /\ TablesType /\ TasksType
    BY DEF DataType
  <1>1. CASE GetWrite(w) \/ \E a \in ActProf : CallWrite(w, a)
    <2>1. raced' \in BOOLEAN
      BY <1>0, <1>1, ZenonT(60) DEF TasksType, GetWrite, CallWrite
    <2>2. TasksType'
      BY <1>0, <1>1, <2>1, ZenonT(60) DEF GetWrite, CallWrite, TasksType
    <2>3. TargetType' /\ TablesType'
      BY <1>0, <1>1, ZenonT(60) DEF GetWrite, CallWrite, TargetType, TablesType, target, tables
    <2>4. QED
      BY <2>2, <2>3 DEF DataType
  <1>2. ASSUME NEW a \in ActProf, NEW m \in Member, NEW watch \in Watch,
               AddMember(w, a, m, watch)
        PROVE  DataType'
    <2>1. task_queue' \in Seq(Task)
      BY <1>2, AddPosts DEF Posted
    <2>2. internal_error' \in BOOLEAN
      BY <1>2, ZenonT(60) DEF AddMember
    <2>3. TasksType'
      BY <1>0, <1>2, <2>1, <2>2 DEF AddMember, Writes, TasksType, bounds
    <2>4. TargetType'
      BY <1>0, <1>2, SMTT(60) DEF AddMember, Writes, TargetType
    <2>5. /\ ports_status_cache' \in [Port -> Status \cup {Unset}]
          /\ group_members' \in [ActProf -> [Member -> Watch \cup {NotMember}]]
      BY <1>0, <1>2 DEF AddMember, Writes, TablesType
    <2>6. ports_status' \in [ActProf -> [Port -> Status \cup {Unset}]]
      BY <1>0, <1>2, QueriedType DEF AddMember, TablesType, tables
    <2>7. members_by_port' \in [ActProf -> [Port -> SUBSET Member]]
      <3>1. members_by_port[a] \in [Port -> SUBSET Member]
        BY <1>0 DEF TablesType
      <3>2. [p \in Port |-> IF p = watch THEN members_by_port[a][p] \cup {m}
                            ELSE members_by_port[a][p]] \in [Port -> SUBSET Member]
        BY <3>1
      <3>3. QED
        BY <1>0, <1>2, <3>2, ZenonT(60) DEF AddMember, TablesType, tables
    <2>8. QED
      BY <2>3, <2>4, <2>5, <2>6, <2>7, ZenonT(60) DEF DataType, TablesType
  <1>3. ASSUME NEW a \in ActProf, NEW m \in Member, NEW watch \in Watch,
               ModifyMember(w, a, m, watch)
        PROVE  DataType'
    <2>1. task_queue' \in Seq(Task)
      BY <1>3, ModifyPosts DEF Posted
    <2>2. internal_error' \in BOOLEAN
      BY <1>3, ZenonT(60) DEF ModifyMember
    <2>3. TasksType'
      BY <1>0, <1>3, <2>1, <2>2, ZenonT(60) DEF ModifyMember, Writes, TasksType, bounds
    <2>4. TargetType'
      BY <1>0, <1>3 DEF ModifyMember, Writes, TargetType
    <2>5. /\ ports_status_cache' \in [Port -> Status \cup {Unset}]
          /\ group_members' \in [ActProf -> [Member -> Watch \cup {NotMember}]]
      BY <1>0, <1>3, ZenonT(60) DEF ModifyMember, Writes, TablesType
    <2>6. ports_status' \in [ActProf -> [Port -> Status \cup {Unset}]]
      BY <1>0, <1>3, QueriedType, SMTT(60) DEF ModifyMember, TablesType
    <2>7. members_by_port' \in [ActProf -> [Port -> SUBSET Member]]
      <3>1. members_by_port[a] \in [Port -> SUBSET Member]
        BY <1>0 DEF TablesType
      <3>2. [p \in Port |-> IF p = group_members[a][m] THEN members_by_port[a][p] \ {m}
                            ELSE IF p = watch THEN members_by_port[a][p] \cup {m}
                            ELSE members_by_port[a][p]] \in [Port -> SUBSET Member]
        BY <3>1
      <3>3. QED
        BY <1>0, <1>3, <3>2, ZenonT(60) DEF ModifyMember, TablesType
    <2>8. QED
      BY <2>3, <2>4, <2>5, <2>6, <2>7 DEF DataType, TablesType
  <1>4. ASSUME NEW a \in ActProf, NEW m \in Member, DeleteMember(w, a, m)
        PROVE  DataType'
    <2>1. internal_error' \in BOOLEAN
      BY <1>4, ZenonT(60) DEF DeleteMember
    <2>2. TasksType'
      BY <1>0, <1>4, <2>1 DEF DeleteMember, Writes, TasksType, bounds
    <2>3. TargetType'
      BY <1>0, <1>4, ZenonT(60) DEF DeleteMember, Writes, TargetType
    <2>4. TablesType'
      <3>1. members_by_port[a] \in [Port -> SUBSET Member]
        BY <1>0 DEF TablesType
      <3>2. [p \in Port |-> IF p = group_members[a][m] THEN members_by_port[a][p] \ {m}
                            ELSE members_by_port[a][p]] \in [Port -> SUBSET Member]
        BY <3>1
      <3>3. members_by_port' \in [ActProf -> [Port -> SUBSET Member]]
        BY <1>0, <1>4, <3>2, ZenonT(60) DEF DeleteMember, TablesType
      <3>4. group_members' \in [ActProf -> [Member -> Watch \cup {NotMember}]]
        <4>1. \/ UNCHANGED group_members
              \/ group_members' = [group_members EXCEPT ![a][m] = NotMember]
          BY <1>4, ZenonT(60) DEF DeleteMember
        <4>2. [group_members[a] EXCEPT ![m] = NotMember] \in [Member -> Watch \cup {NotMember}]
          BY <1>0 DEF TablesType
        <4>3. [group_members EXCEPT ![a] = [group_members[a] EXCEPT ![m] = NotMember]]
                \in [ActProf -> [Member -> Watch \cup {NotMember}]]
          BY <1>0, <4>2 DEF TablesType
        <4>4. QED
          BY <1>0, <4>1, <4>3, ZenonT(60) DEF TablesType
      <3>5. QED
        BY <1>0, <1>4, <3>3, <3>4 DEF DeleteMember, Writes, TablesType
    <2>5. QED
      BY <2>2, <2>3, <2>4 DEF DataType
  <1>5. QED
    BY <1>1, <1>2, <1>3, <1>4 DEF WriterStep, Watch

(* The types are kept by the pipeline changes. *)
LEMMA UpdaterTypes ==
    ASSUME DataType, NEW u \in Updater, UpdaterStep(u) \/ CallUpdate(u)
    PROVE  DataType'
  <1>0. TargetType /\ TablesType /\ TasksType
    BY DEF DataType
  <1>1. CASE CallUpdate(u) \/ GetUpdate(u) \/ EndUpdate(u)
    <2>1. TasksType'
      BY <1>0, <1>1 DEF CallUpdate, GetUpdate, EndUpdate, TasksType, bounds, Phase
    <2>2. TargetType' /\ TablesType'
      BY <1>0, <1>1 DEF CallUpdate, GetUpdate, EndUpdate, TargetType, TablesType, target, tables
    <2>3. QED
      BY <2>1, <2>2 DEF DataType
  <1>2. CASE UpdateDeviceStart(u) \/ ClearActionProfs(u)
    <2>1. TasksType'
      BY <1>0, <1>2 DEF UpdateDeviceStart, ClearActionProfs, TasksType, bounds, Phase
    <2>2. TargetType' /\ TablesType'
      BY <1>0, <1>2 DEF UpdateDeviceStart, ClearActionProfs, TargetType, TablesType, target, tables
    <2>3. QED
      BY <2>1, <2>2 DEF DataType
  <1>3. CASE PostP4Change(u)
    <2>1. P4Change \in Task
      BY DEF Task
    <2>2. task_queue' \in Seq(Task)
      BY <1>0, <1>3, <2>1 DEF PostP4Change, TasksType
    <2>3. TasksType'
      BY <1>0, <1>3, <2>2 DEF PostP4Change, TasksType, bounds, Phase
    <2>4. TargetType' /\ TablesType'
      BY <1>0, <1>3 DEF PostP4Change, TargetType, TablesType, target, tables
    <2>5. QED
      BY <2>3, <2>4 DEF DataType
  <1>4. QED
    BY <1>1, <1>2, <1>3 DEF UpdaterStep

LEMMA DataStep ==
    ASSUME DataType, RolesInv, [Next]_vars
    PROVE  DataType'
  <1>1. CASE UNCHANGED vars
    BY <1>1, ZenonT(60) DEF vars, target, tables, bounds, DataType, TargetType, TablesType, TasksType
  <1>2. QED
    BY <1>1, EnforcerTypes, WriterTypes, UpdaterTypes, ZenonT(60) DEF Next

-----------------------------------------------------------------------------
(* The lazy cache.  The last port event of a port that is still queued     *)
(* carries the status of the port; when there is none, what the cache      *)
(* knows of the port is current.                                           *)
EventsOf(q, p) == {i \in DOMAIN q : q[i].kind = "port_event" /\ q[i].port = p}

CacheInv ==
    \A p \in Port :
        /\ EventsOf(task_queue, p) = {} => ports_status_cache[p] \in {Unset, oper[p]}
        /\ \A i \in EventsOf(task_queue, p) :
             (\A j \in EventsOf(task_queue, p) : j <= i) => task_queue[i].status = oper[p]

(* A new port event is the last one of its port. *)
LEMMA EventCache ==
    ASSUME DataType, CacheInv, NEW p \in Port, NEW s \in {UP, DOWN}, port_status_event_cb(p, s)
    PROVE  CacheInv'
  <1> DEFINE n == Len(task_queue)
  <1>1. task_queue \in Seq(Task) /\ PortEvent(p, s) \in Task
    BY DEF DataType, TasksType, PortEvent, Task, Event, Status
  <1>2. /\ n \in Nat /\ DOMAIN task_queue = 1 .. n /\ DOMAIN task_queue' = 1 .. (n + 1)
        /\ task_queue'[n + 1] = PortEvent(p, s)
        /\ \A i \in 1 .. n : task_queue'[i] = task_queue[i]
    BY <1>1, SMTT(60) DEF port_status_event_cb
  <1>3. PortEvent(p, s).kind = "port_event" /\ PortEvent(p, s).port = p /\ PortEvent(p, s).status = s
    BY DEF PortEvent
  <1>4. /\ oper' = [oper EXCEPT ![p] = s] /\ ports_status_cache' = ports_status_cache
        /\ oper \in [Port -> Status \cup {Unset}]
    BY DEF port_status_event_cb, DataType, TargetType
  <1> SUFFICES ASSUME NEW r \in Port
               PROVE  /\ EventsOf(task_queue', r) = {} => ports_status_cache'[r] \in {Unset, oper'[r]}
                      /\ \A i \in EventsOf(task_queue', r) :
                           (\A j \in EventsOf(task_queue', r) : j <= i)
                             => task_queue'[i].status = oper'[r]
    BY DEF CacheInv
  <1> HIDE DEF n
  <1>5. CASE r = p
    <2>1. n + 1 \in EventsOf(task_queue', r)
      BY <1>2, <1>3, <1>5 DEF EventsOf
    <2>2. ASSUME NEW i \in EventsOf(task_queue', r), \A j \in EventsOf(task_queue', r) : j <= i
          PROVE  i = n + 1
      BY <1>2, <2>1, <2>2, SMTT(60) DEF EventsOf
    <2>3. QED
      BY <1>2, <1>3, <1>4, <1>5, <2>1, <2>2, SMTT(60)
  <1>6. CASE r # p
    <2>1. EventsOf(task_queue', r) = EventsOf(task_queue, r)
      BY <1>2, <1>3, <1>6 DEF EventsOf
    <2>2. \A i \in EventsOf(task_queue, r) : task_queue'[i] = task_queue[i]
      BY <1>2 DEF EventsOf
    <2>3. oper'[r] = oper[r]
      BY <1>4, <1>6
    <2>4. QED
      BY <1>4, <2>1, <2>2, <2>3 DEF CacheInv
  <1>7. QED
    BY <1>5, <1>6

(* Taking the first task shifts the others. *)
LEMMA ShiftEvents ==
    ASSUME task_queue \in Seq(Task), task_queue # <<>>, task_queue' = Tail(task_queue), NEW p
    PROVE  /\ \A i \in EventsOf(task_queue', p) :
                i + 1 \in EventsOf(task_queue, p) /\ task_queue'[i] = task_queue[i + 1]
           /\ \A i \in EventsOf(task_queue, p) : i = 1 \/ i - 1 \in EventsOf(task_queue', p)
           /\ EventsOf(task_queue, p) \subseteq Nat
           /\ EventsOf(task_queue', p) \subseteq Nat \ {0}
  <1>1. /\ Len(task_queue) \in Nat \ {0} /\ DOMAIN task_queue = 1 .. Len(task_queue)
        /\ DOMAIN task_queue' = 1 .. (Len(task_queue) - 1)
        /\ \A i \in DOMAIN task_queue' : task_queue'[i] = task_queue[i + 1]
    BY HeadTail
  <1>2. QED
    BY <1>1, SMTT(60) DEF EventsOf

(* A task run from the queue leaves the cache right: a port event because  *)
(* it is the last one of its port or another one follows, an UpdateCache   *)
(* because it asks the target.                                             *)
LEMMA TailCache ==
    ASSUME DataType, CacheInv, RunPortEvent \/ RunUpdateCache \/ RunP4Change
    PROVE  CacheInv'
  <1>1. /\ task_queue \in Seq(Task) /\ task_queue # <<>> /\ task_queue' = Tail(task_queue)
        /\ oper' = oper /\ oper \in [Port -> Status \cup {Unset}]
        /\ ports_status_cache \in [Port -> Status \cup {Unset}]
    BY DEF RunPortEvent, RunUpdateCache, RunP4Change, DataType, TargetType, TablesType, TasksType, target
  <1>2. Head(task_queue) = task_queue[1] /\ 1 \in DOMAIN task_queue /\ Head(task_queue) \in Task
    BY <1>1, HeadTail, SMTT(60)
  <1> SUFFICES ASSUME NEW r \in Port
               PROVE  /\ EventsOf(task_queue', r) = {} => ports_status_cache'[r] \in {Unset, oper'[r]}
                      /\ \A i \in EventsOf(task_queue', r) :
                           (\A j \in EventsOf(task_queue', r) : j <= i)
                             => task_queue'[i].status = oper'[r]
    BY DEF CacheInv
  <1>3. /\ \A i \in EventsOf(task_queue', r) :
             i + 1 \in EventsOf(task_queue, r) /\ task_queue'[i] = task_queue[i + 1]
        /\ \A i \in EventsOf(task_queue, r) : i = 1 \/ i - 1 \in EventsOf(task_queue', r)
        /\ EventsOf(task_queue, r) \subseteq Nat
        /\ EventsOf(task_queue', r) \subseteq Nat \ {0}
    BY <1>1, ShiftEvents, ZenonT(60)
  <1>4. ASSUME NEW i \in EventsOf(task_queue', r), \A j \in EventsOf(task_queue', r) : j <= i
        PROVE  task_queue'[i].status = oper'[r]
    <2>1. i + 1 \in EventsOf(task_queue, r) /\ task_queue'[i] = task_queue[i + 1]
      BY <1>3, <1>4
    <2>2. \A j \in EventsOf(task_queue, r) : j <= i + 1
      BY <1>3, <1>4
    <2>3. QED
      BY <1>1, <2>1, <2>2, ZenonT(60) DEF CacheInv
  <1>5. ASSUME EventsOf(task_queue', r) = {}
        PROVE  ports_status_cache'[r] \in {Unset, oper'[r]}
    <2>1. \A i \in EventsOf(task_queue, r) : i = 1
      BY <1>3, <1>5, ZenonT(60)
    <2>2. CASE EventsOf(task_queue, r) = {}
      <3>1. ports_status_cache[r] \in {Unset, oper[r]}
        BY <2>2 DEF CacheInv
      <3>2. ~(Head(task_queue).kind = "port_event" /\ Head(task_queue).port = r)
        BY <1>2, <2>2 DEF EventsOf
      <3>3. QED
        BY <1>1, <3>1, <3>2 DEF RunPortEvent, RunUpdateCache, RunP4Change
    <2>3. CASE EventsOf(task_queue, r) # {}
      <3>1. 1 \in EventsOf(task_queue, r)
        BY <2>1, <2>3
      <3>2. task_queue[1].status = oper[r]
        BY <2>1, <3>1 DEF CacheInv
      <3>3. task_queue[1].kind = "port_event" /\ task_queue[1].port = r
        BY <3>1, ZenonT(60) DEF EventsOf
      <3>4. ports_status_cache' = [ports_status_cache EXCEPT ![r] = task_queue[1].status]
        BY <1>2, <3>3, ZenonT(60) DEF RunPortEvent, RunUpdateCache, RunP4Change
      <3>5. QED
        BY <1>1, <3>2, <3>4
    <2>4. QED
      BY <2>2, <2>3
  <1>6. QED
    BY <1>4, <1>5, ZenonT(60)

(* The tasks that Writes and pipeline changes post are no port events. *)
LEMMA PostedCache ==
    ASSUME CacheInv, UNCHANGED <<oper, ports_status_cache>>,
           \A i \in DOMAIN task_queue : i \in DOMAIN task_queue' /\ task_queue'[i] = task_queue[i],
           \A i \in DOMAIN task_queue' :
               i \in DOMAIN task_queue \/ task_queue'[i].kind # "port_event"
    PROVE  CacheInv'
  <1>1. \A p : EventsOf(task_queue', p) = EventsOf(task_queue, p)
    BY DEF EventsOf
  <1>2. \A p : \A i \in EventsOf(task_queue, p) : task_queue'[i] = task_queue[i]
    BY DEF EventsOf
  <1>3. QED
    BY <1>1, <1>2 DEF CacheInv

LEMMA CacheStep ==
    ASSUME DataType, CacheInv, [Next]_vars
    PROVE  CacheInv'
  <1>0. task_queue \in Seq(Task)
    BY DEF DataType, TasksType
  <1>1. ASSUME UNCHANGED <<oper, ports_status_cache, task_queue>>
        PROVE  CacheInv'
    BY <1>1, ZenonT(60) DEF CacheInv
  <1>2. CASE UNCHANGED vars
    BY <1>1, <1>2 DEF vars, target
  <1>3. CASE \E p \in Port, s \in {UP, DOWN} : port_status_event_cb(p, s)
    BY <1>3, EventCache
  <1>4. CASE EnforcerStep
    <2>1. CASE RunPortEvent \/ RunUpdateCache \/ RunP4Change
      BY <2>1, TailCache, ZenonT(60)
    <2>2. CASE CallNoWrite \/ GetNoWrite \/ SkipPortEvent
      BY <1>1, <2>2 DEF CallNoWrite, GetNoWrite, SkipPortEvent, target
    <2>3. CASE \E a \in ActProf : SetPortStatus(a)
      BY <1>1, <2>3 DEF SetPortStatus
    <2>4. QED
      BY <1>4, <2>1, <2>2, <2>3 DEF EnforcerStep
  <1>5. ASSUME NEW w \in Writer, WriterStep(w) \/ \E a \in ActProf : CallWrite(w, a)
        PROVE  CacheInv'
    <2>1. CASE GetWrite(w) \/ \E a \in ActProf : CallWrite(w, a)
      BY <1>1, <2>1, ZenonT(60) DEF GetWrite, CallWrite, target
    <2>2. ASSUME NEW a \in ActProf, NEW m \in Member, NEW watch \in Watch,
                 AddMember(w, a, m, watch) \/ ModifyMember(w, a, m, watch)
          PROVE  CacheInv'
      <3>1. Posted
        BY <2>2, AddPosts, ModifyPosts
      <3>2. UNCHANGED <<oper, ports_status_cache>>
        BY <2>2, ZenonT(60) DEF AddMember, ModifyMember, Writes
      <3>3. \A i \in DOMAIN task_queue' :
               i \in DOMAIN task_queue \/ task_queue'[i].kind # "port_event"
        BY <3>1, ZenonT(60) DEF Posted
      <3>4. QED
        BY <3>1, <3>2, <3>3, PostedCache DEF Posted
    <2>3. ASSUME NEW a \in ActProf, NEW m \in Member, DeleteMember(w, a, m)
          PROVE  CacheInv'
      BY <1>1, <2>3, ZenonT(60) DEF DeleteMember, Writes
    <2>4. QED
      BY <1>5, <2>1, <2>2, <2>3 DEF WriterStep, Watch
  <1>6. ASSUME NEW u \in Updater, UpdaterStep(u) \/ CallUpdate(u)
        PROVE  CacheInv'
    <2>1. CASE PostP4Change(u)
      <3>1. /\ \A i \in DOMAIN task_queue : i \in DOMAIN task_queue' /\ task_queue'[i] = task_queue[i]
            /\ \A i \in DOMAIN task_queue' : i \in DOMAIN task_queue \/ task_queue'[i] = P4Change
        BY <1>0, <2>1, SMTT(60) DEF PostP4Change
      <3>2. P4Change.kind # "port_event" /\ UNCHANGED <<oper, ports_status_cache>>
        BY <2>1, ZenonT(60) DEF P4Change, PostP4Change, target
      <3>3. QED
        BY <3>1, <3>2, PostedCache
    <2>2. QED
      BY <1>1, <1>6, <2>1, ZenonT(60) DEF UpdaterStep, CallUpdate, GetUpdate, UpdateDeviceStart,
             ClearActionProfs, EndUpdate, target
  <1>7. QED
    BY <1>2, <1>3, <1>4, <1>5, <1>6 DEF Next

-----------------------------------------------------------------------------
(* The target knows every port, so the map knows the port of every member. *)
KnownInv ==
    /\ \A p \in Port : oper[p] # Unset
    /\ \A a \in ActProf, p \in Port : members_by_port[a][p] # {} => ports_status[a][p] # Unset

(* What a query leaves in the map. *)
LEMMA QueriedAt ==
    ASSUME DataType, KnownInv, NEW a \in ActProf, NEW ps
    PROVE  \A b \in ActProf, p \in Port :
             /\ Queried(a, ps)[b][p] = IF b = a /\ p \in ps /\ ports_status[a][p] = Unset
                                       THEN oper[p] ELSE ports_status[b][p]
             /\ ports_status[b][p] # Unset => Queried(a, ps)[b][p] = ports_status[b][p]
             /\ Queried(a, ps)[b][p] = Unset => ports_status[b][p] = Unset
             /\ p \in ps => Queried(a, ps)[a][p] # Unset /\ Queried(a, ps)[a][p] = get_port_status(a, p)
  <1> SUFFICES ASSUME NEW b \in ActProf, NEW p \in Port
               PROVE  /\ Queried(a, ps)[b][p] = IF b = a /\ p \in ps /\ ports_status[a][p] = Unset
                                                THEN oper[p] ELSE ports_status[b][p]
                      /\ p \in ps => get_port_status(a, p) = IF ports_status[a][p] = Unset
                                                             THEN oper[p] ELSE ports_status[a][p]
    BY ZenonT(60) DEF KnownInv
  <1>1. p # INVALID_WATCH /\ oper[p] # Unset
    BY WatchAssumption DEF WatchAssumption, KnownInv
  <1>2. get_port_status(a, p) = IF ports_status[a][p] = Unset THEN oper[p] ELSE ports_status[a][p]
    BY <1>1, ZenonT(60) DEF get_port_status, Known
  <1>3. MustQuery(a, p) <=> ports_status[a][p] = Unset
    BY <1>1, SMTT(60) DEF MustQuery
  <1>4. Queried(a, ps)[b][p] = IF b = a /\ p \in ps /\ MustQuery(a, p)
                               THEN oper[p] ELSE ports_status[b][p]
    BY ZenonT(60) DEF Queried, DataType, TablesType
  <1>5. QED
    BY <1>2, <1>3, <1>4, ZenonT(60)

(* A member only comes to a port that has been looked up. *)
LEMMA KnownKept ==
    ASSUME DataType, KnownInv, UNCHANGED oper, NEW a \in ActProf, NEW ps,
           UNCHANGED ports_status \/ ports_status' = Queried(a, ps),
           \A b \in ActProf, p \in Port : members_by_port'[b][p] # {} =>
               \/ members_by_port[b][p] # {}
               \/ b = a /\ p \in ps /\ ports_status' = Queried(a, ps)
    PROVE  KnownInv'
  <1>1. ASSUME NEW b \in ActProf, NEW p \in Port, members_by_port'[b][p] # {}
        PROVE  ports_status'[b][p] # Unset
    <2>1. CASE members_by_port[b][p] # {}
      <3>1. ports_status[b][p] # Unset
        BY <2>1, ZenonT(60) DEF KnownInv
      <3>2. Queried(a, ps)[b][p] = ports_status[b][p]
        BY <3>1, QueriedAt, SMTT(60)
      <3>3. QED
        BY <3>1, <3>2, ZenonT(60)
    <2>2. CASE b = a /\ p \in ps /\ ports_status' = Queried(a, ps)
      BY <2>2, QueriedAt
    <2>3. QED
      BY <1>1, <2>1, <2>2, ZenonT(60)
  <1>2. QED
    BY <1>1, SMTT(60) DEF KnownInv

LEMMA AddKnown ==
    ASSUME DataType, KnownInv, NEW w \in Writer, NEW a \in ActProf, NEW m \in Member,
           NEW watch \in Watch, AddMember(w, a, m, watch)
    PROVE  KnownInv'
  <1>0. members_by_port \in [ActProf -> [Port -> SUBSET Member]]
    BY DEF DataType, TablesType
  <1>1. UNCHANGED oper
    BY ZenonT(60) DEF AddMember, Writes
  <1>2. CASE UNCHANGED tables
    BY <1>1, <1>2, ZenonT(60) DEF KnownInv, tables
  <1>3. CASE /\ members_by_port' = [members_by_port EXCEPT
                  ![a] = [p \in Port |-> IF p = watch THEN @[p] \cup {m} ELSE @[p]]]
             /\ ports_status' = Queried(a, {watch})
    <2>1. \A b \in ActProf, p \in Port :
             members_by_port'[b][p] # {} => members_by_port[b][p] # {} \/ (b = a /\ p \in {watch})
      BY <1>0, <1>3, SMTT(60)
    <2>2. QED
      BY <1>1, <1>3, <2>1, KnownKept, ZenonT(60)
  <1>4. QED
    BY <1>2, <1>3, ZenonT(60) DEF AddMember

LEMMA ModifyKnown ==
    ASSUME DataType, KnownInv, NEW w \in Writer, NEW a \in ActProf, NEW m \in Member,
           NEW watch \in Watch, ModifyMember(w, a, m, watch)
    PROVE  KnownInv'
  <1> DEFINE current == group_members[a][m]
             moved == [members_by_port EXCEPT
                         ![a] = [p \in Port |-> IF p = current THEN @[p] \ {m}
                                                ELSE IF p = watch THEN @[p] \cup {m} ELSE @[p]]]
  <1>0. members_by_port \in [ActProf -> [Port -> SUBSET Member]]
    BY DEF DataType, TablesType
  <1>1. UNCHANGED oper
    BY ZenonT(60) DEF ModifyMember, Writes
  <1>2. \/ UNCHANGED <<members_by_port, ports_status>>
        \/ members_by_port' = moved /\ UNCHANGED ports_status /\ m \in members_by_port[a][watch]
        \/ members_by_port' = moved /\ ports_status' = Queried(a, {current, watch})
    BY ZenonT(60) DEF ModifyMember
  <1> HIDE DEF current
  <1>3. \A b \in ActProf, p \in Port :
           moved[b][p] # {} => members_by_port[b][p] # {} \/ (b = a /\ p = watch)
    <2>1. moved[a] = [p \in Port |-> IF p = current THEN members_by_port[a][p] \ {m}
                                     ELSE IF p = watch THEN members_by_port[a][p] \cup {m}
                                     ELSE members_by_port[a][p]]
      BY <1>0, ZenonT(60)
    <2>2. \A b \in ActProf \ {a} : moved[b] = members_by_port[b]
      BY <1>0, ZenonT(60)
    <2> HIDE DEF moved
    <2>3. \A p \in Port : moved[a][p] # {} => members_by_port[a][p] # {} \/ p = watch
      BY <2>1, SMTT(60)
    <2>4. QED
      BY <2>2, <2>3, SMTT(60)
  <1> HIDE DEF moved
  <1>4. CASE UNCHANGED <<members_by_port, ports_status>>
    BY <1>1, <1>4, ZenonT(60) DEF KnownInv
  <1>5. CASE members_by_port' = moved /\ UNCHANGED ports_status /\ m \in members_by_port[a][watch]
    <2>1. \A b \in ActProf, p \in Port : members_by_port'[b][p] # {} => members_by_port[b][p] # {}
      BY <1>3, <1>5, SMTT(60)
    <2>2. QED
      BY <1>1, <1>5, <2>1, ZenonT(60) DEF KnownInv
  <1>6. CASE members_by_port' = moved /\ ports_status' = Queried(a, {current, watch})
    <2>1. \A b \in ActProf, p \in Port : members_by_port'[b][p] # {} =>
             members_by_port[b][p] # {} \/ (b = a /\ p \in {current, watch})
      BY <1>3, <1>6, SMTT(60)
    <2>2. QED
      BY <1>1, <1>6, <2>1, KnownKept, ZenonT(60)
  <1>7. QED
    BY <1>2, <1>4, <1>5, <1>6, ZenonT(60)

LEMMA DeleteKnown ==
    ASSUME DataType, KnownInv, NEW w \in Writer, NEW a \in ActProf, NEW m \in Member,
           DeleteMember(w, a, m)
    PROVE  KnownInv'
  <1>0. members_by_port \in [ActProf -> [Port -> SUBSET Member]]
    BY DEF DataType, TablesType
  <1>1. UNCHANGED <<oper, ports_status>>
    BY ZenonT(60) DEF DeleteMember, Writes
  <1>2. \/ UNCHANGED members_by_port
        \/ members_by_port' = [members_by_port EXCEPT
              ![a] = [p \in Port |-> IF p = group_members[a][m] THEN @[p] \ {m} ELSE @[p]]]
    BY ZenonT(60) DEF DeleteMember
  <1>3. \A b \in ActProf, p \in Port : members_by_port'[b][p] # {} => members_by_port[b][p] # {}
    BY <1>0, <1>2, SMTT(60)
  <1>4. QED
    BY <1>1, <1>3, ZenonT(60) DEF KnownInv

LEMMA KnownStep ==
    ASSUME DataType, RolesInv, KnownInv, [Next]_vars
    PROVE  KnownInv'
  <1>1. ASSUME UNCHANGED <<oper, tables>>
        PROVE  KnownInv'
    BY <1>1, SMTT(60) DEF KnownInv, tables
  <1>2. CASE UNCHANGED vars
    BY <1>1, <1>2, ZenonT(60) DEF vars, target
  <1>3. CASE \E p \in Port, s \in {UP, DOWN} : port_status_event_cb(p, s)
    BY <1>3, SMTT(60) DEF port_status_event_cb, KnownInv, DataType, TargetType, tables, UP, DOWN, Unset
  <1>4. CASE EnforcerStep
    <2>1. CASE RunPortEvent \/ RunUpdateCache \/ CallNoWrite \/ GetNoWrite \/ SkipPortEvent
      BY <1>1, <2>1, ZenonT(60) DEF RunPortEvent, RunUpdateCache, CallNoWrite, GetNoWrite, SkipPortEvent, target
    <2>2. CASE RunP4Change
      BY <2>2, ZenonT(60) DEF RunP4Change, KnownInv, target
    <2>3. ASSUME NEW a \in ActProf, SetPortStatus(a)
          PROVE  KnownInv'
      <3>1. task.status \in Status /\ task.port \in Port
        <4>1. task \in Event
          BY <2>3, ZenonT(60) DEF SetPortStatus, RolesInv, DataType, TasksType
        <4>2. QED
          BY <4>1, SMTT(60) DEF Event
      <3>2. /\ UNCHANGED <<oper, members_by_port>>
            /\ ports_status' = [ports_status EXCEPT ![a][task.port] = task.status]
            /\ ports_status \in [ActProf -> [Port -> Status \cup {Unset}]]
        BY <2>3 DEF SetPortStatus, DataType, TablesType
      <3>3. \A b \in ActProf, p \in Port : ports_status[b][p] # Unset => ports_status'[b][p] # Unset
        BY <3>1, <3>2, SMTT(60) DEF Status, UP, DOWN, Unset
      <3>4. QED
        BY <3>2, <3>3 DEF KnownInv
    <2>4. QED
      BY <1>4, <2>1, <2>2, <2>3, SMTT(60) DEF EnforcerStep
  <1>5. ASSUME NEW w \in Writer, WriterStep(w) \/ \E a \in ActProf : CallWrite(w, a)
        PROVE  KnownInv'
    <2>1. CASE GetWrite(w) \/ \E a \in ActProf : CallWrite(w, a)
      BY <1>1, <2>1, ZenonT(60) DEF GetWrite, CallWrite, target
    <2>2. QED
      BY <1>5, <2>1, AddKnown, ModifyKnown, DeleteKnown, ZenonT(60) DEF WriterStep, Watch
  <1>6. CASE \E u \in Updater : UpdaterStep(u) \/ CallUpdate(u)
    BY <1>1, <1>6 DEF UpdaterStep, CallUpdate, GetUpdate, UpdateDeviceStart, PostP4Change,
           ClearActionProfs, EndUpdate, target
  <1>7. QED
    BY <1>2, <1>3, <1>4, <1>5, <1>6, ZenonT(60) DEF Next

-----------------------------------------------------------------------------
(* A step of the lock leaves the Access objects of the other threads alone. *)
Only(th) == \A other \in Thread \ {th} : access'[other] = access[other]

LEMMA AccessSet ==
    ASSUME AccessType, NEW th \in Thread, NEW obj, access' = [access EXCEPT ![th] = obj]
    PROVE  access'[th] = obj /\ Only(th)
  BY ZenonT(60) DEF AccessType, Only

LEMMA AccessGranted ==
    ASSUME AccessType, NEW th \in Thread, NEW ids, Arb!Granted(th, ids)
    PROVE  access'[th].state = "held" /\ access'[th].op = access[th].op /\ Only(th)
  <1>1. access' = [access EXCEPT ![th] = [state |-> "held", op |-> access[th].op, p4_ids |-> ids]]
    BY SMTT(60) DEF Arb!Granted, AccessType
  <1>2. access'[th] = [state |-> "held", op |-> access[th].op, p4_ids |-> ids] /\ Only(th)
    BY <1>1, AccessSet, ZenonT(60)
  <1>3. QED
    BY <1>2

LEMMA AccessDropped ==
    ASSUME AccessType, NEW th \in Thread, access' = [access EXCEPT ![th] = Arb!NoAccess]
    PROVE  access'[th].state = "idle" /\ Only(th)
  <1>1. access'[th] = Arb!NoAccess /\ Only(th)
    BY AccessSet, ZenonT(60)
  <1>2. QED
    BY <1>1 DEF Arb!NoAccess

(* What a step of the lock does to the Access object of its thread. *)
LEMMA AccessEffect ==
    ASSUME NEW th \in Thread, AccessType
    PROVE  /\ \A op, ids : Arb!Call(th, op, ids) =>
                /\ access[th].state = "idle"
                /\ access' = [access EXCEPT ![th] = [state |-> "called", op |-> op, p4_ids |-> ids]]
           /\ Arb!Wait(th) => UNCHANGED access
           /\ Arb!GrantWrite(th) \/ Arb!GrantNoWrite(th) \/ Arb!GrantUpdate(th) =>
                /\ access[th].state = "called" /\ access'[th].state = "held"
                /\ access'[th].op = access[th].op /\ Only(th)
           /\ Arb!SkipNoWrite(th) =>
                /\ access[th].state = "called" /\ access'[th].state = "no_access"
                /\ access'[th].op = access[th].op /\ Only(th)
           /\ Arb!ReleaseWrite(th) \/ Arb!ReleaseNoWrite(th) \/ Arb!ReleaseUpdate(th) =>
                /\ access[th].state = "held" /\ access'[th].state = "idle" /\ Only(th)
           /\ Arb!DropNoAccess(th) =>
                /\ access[th].state = "no_access" /\ access'[th].state = "idle" /\ Only(th)
  <1>1. \A op, ids : Arb!Call(th, op, ids) =>
          /\ access[th].state = "idle"
          /\ access' = [access EXCEPT ![th] = [state |-> "called", op |-> op, p4_ids |-> ids]]
    BY ZenonT(60) DEF Arb!Call
  <1>2. Arb!Wait(th) => UNCHANGED access
    BY ZenonT(60) DEF Arb!Wait
  <1>3. /\ Arb!GrantWrite(th) => access[th].state = "called" /\ \E ids : Arb!Granted(th, ids)
        /\ Arb!GrantUpdate(th) => access[th].state = "called" /\ \E ids : Arb!Granted(th, ids)
        /\ Arb!GrantNoWrite(th) => access[th].state = "called" /\ \E ids : Arb!Granted(th, ids)
    BY ZenonT(60) DEF Arb!GrantWrite, Arb!GrantNoWrite, Arb!GrantUpdate, Arb!Running
  <1>4. ASSUME Arb!SkipNoWrite(th)
        PROVE  /\ access[th].state = "called" /\ access'[th].state = "no_access"
               /\ access'[th].op = access[th].op /\ Only(th)
    <2>1. /\ access[th].state = "called"
          /\ access' = [access EXCEPT ![th] = [state |-> "no_access", op |-> access[th].op, p4_ids |-> {}]]
      BY <1>4, SMTT(60) DEF AccessType, Arb!SkipNoWrite, Arb!Running
    <2>2. access'[th] = [state |-> "no_access", op |-> access[th].op, p4_ids |-> {}] /\ Only(th)
      BY <2>1, AccessSet, ZenonT(60)
    <2>3. QED
      BY <2>1, <2>2
  <1>5. Arb!ReleaseWrite(th) \/ Arb!ReleaseNoWrite(th) \/ Arb!ReleaseUpdate(th) =>
          access[th].state = "held" /\ access' = [access EXCEPT ![th] = Arb!NoAccess]
    BY ZenonT(60) DEF Arb!ReleaseWrite, Arb!ReleaseNoWrite, Arb!ReleaseUpdate, Arb!Released, Arb!Holders
  <1>6. Arb!DropNoAccess(th) =>
          access[th].state = "no_access" /\ access' = [access EXCEPT ![th] = Arb!NoAccess]
    BY ZenonT(60) DEF Arb!DropNoAccess
  <1>7. /\ \A ids : Arb!Granted(th, ids) =>
              access'[th].state = "held" /\ access'[th].op = access[th].op /\ Only(th)
        /\ access' = [access EXCEPT ![th] = Arb!NoAccess] => access'[th].state = "idle" /\ Only(th)
    BY AccessGranted, AccessDropped
  <1>8. QED
    BY <1>1, <1>2, <1>3, <1>4, <1>5, <1>6, <1>7, ZenonT(60)

LEMMA OnlyOwn ==
    ASSUME NEW th \in Thread, AccessType, (\E op, ids : Arb!Call(th, op, ids)) \/ Arb!Wait(th)
    PROVE  Only(th)
  <1>1. CASE Arb!Wait(th)
    BY <1>1, AccessEffect DEF Only
  <1>2. CASE \E op, ids : Arb!Call(th, op, ids)
    BY <1>2, AccessEffect, AccessSet, ZenonT(60)
  <1>3. QED
    BY <1>1, <1>2, ZenonT(60)

(* The threads are three different kinds of threads. *)
LEMMA Kinds ==
    /\ Enforcer \in Thread /\ Writer \subseteq Thread /\ Updater \subseteq Thread
    /\ Enforcer \notin Writer /\ Enforcer \notin Updater
    /\ \A w \in Writer : w \notin Updater
  BY WatchAssumption, SMTT(60) DEF WatchAssumption, Thread

(* A step of a writer, seen from the lock. *)
LEMMA WriterMoves ==
    ASSUME AccessType, NEW w \in Writer, WriterStep(w) \/ \E a \in ActProf : CallWrite(w, a)
    PROVE  /\ Only(w) /\ UNCHANGED <<task, updater>>
           /\ \/ access[w].state = "idle" /\ access'[w].state = "called"
                 /\ access'[w].op = "write_request" /\ UNCHANGED raced
              \/ UNCHANGED access /\ UNCHANGED raced
              \/ access[w].state = "called" /\ access'[w].state = "held"
                 /\ access'[w].op = access[w].op /\ (raced \/ Updating => raced')
              \/ access[w].state = "held" /\ access'[w].state = "idle" /\ UNCHANGED raced
  <1>0. w \in Thread
    BY Kinds, ZenonT(60)
  <1>1. ASSUME NEW a \in ActProf, CallWrite(w, a)
        PROVE  /\ Only(w) /\ UNCHANGED <<task, updater>>
               /\ access[w].state = "idle" /\ access'[w].state = "called"
               /\ access'[w].op = "write_request" /\ UNCHANGED raced
    <2>1. Arb!Call(w, "write_request", Arb!WriteRequestIds({a}, <<>>))
      BY <1>1 DEF CallWrite, Arb!CallWriteRequest
    <2>2. Only(w)
      BY <1>0, <2>1, OnlyOwn, ZenonT(60)
    <2>3. /\ access[w].state = "idle"
          /\ access' = [access EXCEPT ![w] = [state |-> "called", op |-> "write_request",
                                               p4_ids |-> Arb!WriteRequestIds({a}, <<>>)]]
      BY <1>0, <2>1, AccessEffect, ZenonT(60)
    <2>4. QED
      BY <1>0, <1>1, <2>2, <2>3, ZenonT(60) DEF CallWrite, AccessType
  <1>2. CASE Arb!Wait(w) /\ GetWrite(w) /\ UNCHANGED raced
    BY <1>0, <1>2, OnlyOwn, AccessEffect, ZenonT(60) DEF GetWrite
  <1>3. CASE Arb!GrantWrite(w) /\ GetWrite(w) /\ raced' = (raced \/ Updating)
    <2>1. raced \/ Updating => raced'
      BY <1>3, ZenonT(60)
    <2>2. QED
      BY <1>0, <1>3, <2>1, AccessEffect, ZenonT(60) DEF GetWrite
  <1>4. ASSUME NEW a \in ActProf, Writes(w, a)
        PROVE  /\ Only(w) /\ UNCHANGED <<task, updater>>
               /\ access[w].state = "held" /\ access'[w].state = "idle" /\ UNCHANGED raced
    BY <1>0, <1>4, AccessEffect, ZenonT(60) DEF Writes, bounds
  <1>5. ASSUME NEW a \in ActProf, NEW m \in Member, NEW watch \in Watch,
               AddMember(w, a, m, watch) \/ ModifyMember(w, a, m, watch)
        PROVE  Writes(w, a)
    BY <1>5, ZenonT(60) DEF AddMember, ModifyMember
  <1>6. ASSUME NEW a \in ActProf, NEW m \in Member, DeleteMember(w, a, m)
        PROVE  Writes(w, a)
    BY <1>6, ZenonT(60) DEF DeleteMember
  <1>7. CASE \E a \in ActProf : Writes(w, a)
    BY <1>4, <1>7, ZenonT(60)
  <1>8. CASE \E a \in ActProf : CallWrite(w, a)
    BY <1>1, <1>8, SMTT(60)
  <1>9. QED
    BY <1>2, <1>3, <1>5, <1>6, <1>7, <1>8, ZenonT(60) DEF WriterStep, Watch, GetWrite

(* A step of an updater, seen from the lock. *)
LEMMA UpdaterMoves ==
    ASSUME AccessType, NEW u \in Updater, UpdaterStep(u) \/ CallUpdate(u)
    PROVE  /\ Only(u) /\ UNCHANGED <<task, raced>>
           /\ \/ access[u].state = "idle" /\ access'[u].state = "called"
                 /\ access'[u].op = "update" /\ updater = "idle" /\ updater' = "called"
              \/ UNCHANGED <<access, updater>>
              \/ access[u].state = "called" /\ access'[u].state = "held"
                 /\ access'[u].op = access[u].op /\ updater' = "granted" /\ write_cnt = 0
              \/ UNCHANGED access /\ updater = "granted" /\ updater' = "started"
              \/ UNCHANGED access /\ updater = "started" /\ updater' = "waiting"
              \/ UNCHANGED access /\ updater = "promised" /\ updater' = "changed"
              \/ access[u].state = "held" /\ access'[u].state = "idle"
                 /\ updater = "changed" /\ updater' = "idle"
  <1>0. u \in Thread
    BY Kinds, ZenonT(60)
  <1>1. CASE CallUpdate(u)
    <2>1. Arb!Call(u, "update", {})
      BY <1>1 DEF CallUpdate, Arb!CallGlobal
    <2>2. Only(u)
      BY <1>0, <2>1, OnlyOwn, ZenonT(60)
    <2>3. /\ access[u].state = "idle"
          /\ access' = [access EXCEPT ![u] = [state |-> "called", op |-> "update", p4_ids |-> {}]]
      BY <1>0, <2>1, AccessEffect, ZenonT(60)
    <2>4. QED
      BY <1>0, <1>1, <2>2, <2>3, ZenonT(60) DEF CallUpdate, AccessType
  <1>2. CASE Arb!Wait(u) /\ GetUpdate(u) /\ UNCHANGED updater
    BY <1>0, <1>2, OnlyOwn, AccessEffect, ZenonT(60) DEF GetUpdate, bounds
  <1>3. CASE Arb!GrantUpdate(u) /\ GetUpdate(u) /\ updater' = "granted"
    <2>1. write_cnt = 0
      BY <1>3, ZenonT(60) DEF Arb!GrantUpdate, Arb!Ready, Arb!UpdateReady, Arb!NoWriteOp, Arb!SkipOp
    <2>2. QED
      BY <1>0, <1>3, <2>1, AccessEffect, ZenonT(60) DEF GetUpdate, bounds
  <1>4. CASE EndUpdate(u)
    BY <1>0, <1>4, AccessEffect, ZenonT(60) DEF EndUpdate, bounds
  <1>5. CASE UpdateDeviceStart(u) \/ PostP4Change(u) \/ ClearActionProfs(u)
    BY <1>5, ZenonT(60) DEF UpdateDeviceStart, PostP4Change, ClearActionProfs, bounds, lock, Only
  <1>6. QED
    BY <1>1, <1>2, <1>3, <1>4, <1>5, ZenonT(60) DEF UpdaterStep, GetUpdate

(* A step of the task queue thread, seen from the lock. *)
LEMMA EnforcerMoves ==
    ASSUME DataType, AccessType, EnforcerStep
    PROVE  /\ Only(Enforcer) /\ UNCHANGED raced /\ (RunP4Change \/ UNCHANGED updater)
           /\ \/ UNCHANGED access /\ (task' # NoTask \/ UNCHANGED task)
              \/ access[Enforcer].state = "idle" /\ access'[Enforcer].op = "no_write_one_of_skip"
                 /\ task # NoTask /\ UNCHANGED task
              \/ access[Enforcer].state = "called" /\ access'[Enforcer].op = access[Enforcer].op
                 /\ UNCHANGED task
              \/ access'[Enforcer].state = "idle"
  <1>0. Enforcer \in Thread
    BY Kinds, ZenonT(60)
  <1>1. CASE RunPortEvent
    <2>1. Head(task_queue).kind = "port_event" /\ NoTask.kind = "none"
      BY <1>1 DEF RunPortEvent, NoTask
    <2>2. task' # NoTask
      BY <1>1, <2>1, ZenonT(60) DEF RunPortEvent
    <2>3. QED
      BY <1>1, <2>2, ZenonT(60) DEF RunPortEvent, lock, bounds, Only
  <1>2. CASE RunUpdateCache \/ RunP4Change
    BY <1>2, ZenonT(60) DEF RunUpdateCache, RunP4Change, lock, bounds, Only
  <1>3. CASE CallNoWrite
    <2>1. Arb!Call(Enforcer, "no_write_one_of_skip", act_prof_ids)
      BY <1>3 DEF CallNoWrite, Arb!CallOneOf
    <2>2. Only(Enforcer)
      BY <1>0, <2>1, OnlyOwn, ZenonT(60)
    <2>3. /\ access[Enforcer].state = "idle"
          /\ access' = [access EXCEPT ![Enforcer] =
                [state |-> "called", op |-> "no_write_one_of_skip", p4_ids |-> act_prof_ids]]
      BY <1>0, <2>1, AccessEffect, ZenonT(60)
    <2>4. access'[Enforcer].op = "no_write_one_of_skip"
      BY <1>0, <2>3, SMTT(60) DEF AccessType
    <2>5. task # NoTask /\ UNCHANGED <<task, raced, updater>>
      BY <1>3, ZenonT(60) DEF CallNoWrite, bounds
    <2>6. QED
      BY <2>2, <2>3, <2>4, <2>5, ZenonT(60)
  <1>4. CASE GetNoWrite
    BY <1>0, <1>4, OnlyOwn, AccessEffect, ZenonT(60) DEF GetNoWrite, bounds
  <1>5. CASE SkipPortEvent
    BY <1>0, <1>5, AccessEffect, ZenonT(60) DEF SkipPortEvent, bounds
  <1>6. CASE \E a \in ActProf : SetPortStatus(a)
    BY <1>0, <1>6, AccessEffect, ZenonT(60) DEF SetPortStatus, bounds
  <1>7. QED
    BY <1>1, <1>2, <1>3, <1>4, <1>5, <1>6, ZenonT(60) DEF EnforcerStep
=============================================================================

------------------------- MODULE WatchPortMembers --------------------------
(***************************************************************************)
(* Proofs about WatchPortEnforcer: the threads that take part in a         *)
(* pipeline change, and the members of the groups during one.              *)
(***************************************************************************)
EXTENDS WatchPortSteps

-----------------------------------------------------------------------------
(* The update in progress.  p4_change waits for the one task it posted.    *)
ChangeInv ==
    \A i \in DOMAIN task_queue : task_queue[i] = P4Change =>
        /\ updater = "waiting"
        /\ \A j \in DOMAIN task_queue : task_queue[j] = P4Change => i = j

(* Running the task finds the updater waiting, and leaves no other. *)
LEMMA ChangeRuns ==
    ASSUME DataType, ChangeInv, RunP4Change
    PROVE  /\ updater = "waiting" /\ updater' = "promised"
           /\ \A i \in DOMAIN task_queue' : task_queue'[i] # P4Change
  <1>1. /\ task_queue \in Seq(Task) /\ task_queue # <<>> /\ task_queue' = Tail(task_queue)
        /\ Head(task_queue).kind = "p4_change"
    BY DEF RunP4Change, DataType, TasksType
  <1>2. /\ Len(task_queue) \in Nat \ {0} /\ DOMAIN task_queue = 1 .. Len(task_queue)
        /\ Head(task_queue) = task_queue[1] /\ Head(task_queue) \in Task
        /\ DOMAIN task_queue' = 1 .. (Len(task_queue) - 1)
        /\ \A i \in DOMAIN task_queue' : task_queue'[i] = task_queue[i + 1]
    BY <1>1, HeadTail
  <1>3. task_queue[1] = P4Change /\ 1 \in DOMAIN task_queue
    BY <1>1, <1>2, TaskKinds
  <1>4. updater = "waiting" /\ \A j \in DOMAIN task_queue : task_queue[j] = P4Change => j = 1
    BY <1>3, ZenonT(60) DEF ChangeInv
  <1>5. ASSUME NEW i \in DOMAIN task_queue'
        PROVE  task_queue'[i] # P4Change
    <2>1. i + 1 \in DOMAIN task_queue /\ i + 1 # 1 /\ task_queue'[i] = task_queue[i + 1]
      BY <1>2, <1>5
    <2>2. QED
      BY <1>4, <2>1
  <1>6. QED
    BY <1>4, <1>5 DEF RunP4Change

(* Nobody else posts a P4Change, or leaves the updater without it. *)
LEMMA ChangeKept ==
    ASSUME ChangeInv, updater = "waiting" => updater' = "waiting",
           \A i \in DOMAIN task_queue : i \in DOMAIN task_queue' /\ task_queue'[i] = task_queue[i],
           \A i \in DOMAIN task_queue' : i \in DOMAIN task_queue \/ task_queue'[i] # P4Change
    PROVE  ChangeInv'
  <1>1. \A i \in DOMAIN task_queue' : task_queue'[i] = P4Change
           => i \in DOMAIN task_queue /\ task_queue[i] = P4Change
    BY ZenonT(60)
  <1>2. QED
    BY <1>1, ZenonT(60) DEF ChangeInv

LEMMA ChangeShifts ==
    ASSUME DataType, ChangeInv, task_queue # <<>>, task_queue' = Tail(task_queue), UNCHANGED updater
    PROVE  ChangeInv'
  <1>1. /\ Len(task_queue) \in Nat \ {0} /\ DOMAIN task_queue = 1 .. Len(task_queue)
        /\ DOMAIN task_queue' = 1 .. (Len(task_queue) - 1)
        /\ \A i \in DOMAIN task_queue' : task_queue'[i] = task_queue[i + 1]
    BY HeadTail DEF DataType, TasksType
  <1>2. ASSUME NEW i \in DOMAIN task_queue', task_queue'[i] = P4Change
        PROVE  /\ updater' = "waiting"
               /\ \A j \in DOMAIN task_queue' : task_queue'[j] = P4Change => i = j
    <2>1. i + 1 \in DOMAIN task_queue /\ task_queue[i + 1] = P4Change
      BY <1>1, <1>2
    <2>2. /\ updater = "waiting"
          /\ \A j \in DOMAIN task_queue : task_queue[j] = P4Change => i + 1 = j
      BY <2>1 DEF ChangeInv
    <2>3. ASSUME NEW j \in DOMAIN task_queue', task_queue'[j] = P4Change
          PROVE  i = j
      <3>1. j + 1 \in DOMAIN task_queue /\ task_queue[j + 1] = P4Change
        BY <1>1, <2>3
      <3>2. i + 1 = j + 1 /\ i \in Nat /\ j \in Nat
        BY <1>1, <2>2, <3>1
      <3>3. QED
        BY <3>2
    <2>4. QED
      BY <2>2, <2>3
  <1>3. QED
    BY <1>2 DEF ChangeInv

(* One update at a time, and it is where updater says. *)
UpdaterInv ==
    /\ \A u \in Updater : access[u].state = "held" => Updating
    /\ \A u \in Updater : access[u].state = "called" => updater = "called"
    /\ \A u, v \in Updater : access[u].state # "idle" /\ access[v].state # "idle" => u = v

(* No Write is in an update that none has raced. *)
RacedInv == Updating /\ ~raced => \A w \in Writer : access[w].state # "held"

ThreadsInv == RolesInv /\ UpdaterInv /\ RacedInv /\ ChangeInv

(* write_cnt is 0 only when no Write holds its access. *)
WriteCntInv ==
    write_cnt = 0 => \A th \in Thread :
        ~(access[th].state = "held" /\ access[th].op = "write_request")

LEMMA EnforcerThreads ==
    ASSUME DataType, AccessType, ThreadsInv, EnforcerStep
    PROVE  RolesInv' /\ UpdaterInv' /\ RacedInv'
  <1>1. /\ Only(Enforcer) /\ UNCHANGED raced
        /\ UNCHANGED updater \/ (updater = "waiting" /\ updater' = "promised")
    BY EnforcerMoves, ChangeRuns DEF ThreadsInv
  <1>2. /\ \A w \in Writer : access'[w] = access[w]
        /\ \A u \in Updater : access'[u] = access[u]
    BY <1>1, Kinds, ZenonT(60) DEF Only
  <1>3. RolesInv'
    <2>1. access'[Enforcer].state # "idle" => /\ access'[Enforcer].op = "no_write_one_of_skip"
                                              /\ task' # NoTask
      BY EnforcerMoves, SMTT(60) DEF ThreadsInv, RolesInv
    <2>2. QED
      BY <1>2, <2>1, ZenonT(60) DEF ThreadsInv, RolesInv
  <1>4. UpdaterInv' /\ RacedInv'
    BY <1>1, <1>2, ZenonT(60) DEF ThreadsInv, UpdaterInv, RacedInv, Updating
  <1>5. QED
    BY <1>3, <1>4

LEMMA WriterThreads ==
    ASSUME AccessType, ThreadsInv, NEW w \in Writer,
           WriterStep(w) \/ \E a \in ActProf : CallWrite(w, a)
    PROVE  RolesInv' /\ UpdaterInv' /\ RacedInv'
  <1>1. Only(w) /\ UNCHANGED <<task, updater>>
    BY WriterMoves
  <1>2. /\ access'[Enforcer] = access[Enforcer]
        /\ \A v \in Writer \ {w} : access'[v] = access[v]
        /\ \A u \in Updater : access'[u] = access[u]
    BY <1>1, Kinds, ZenonT(60) DEF Only
  <1>3. RolesInv'
    <2>1. access'[w].state # "idle" => access'[w].op = "write_request"
      BY WriterMoves, ZenonT(60) DEF ThreadsInv, RolesInv
    <2>2. QED
      BY <1>1, <1>2, <2>1, ZenonT(60) DEF ThreadsInv, RolesInv
  <1>4. UpdaterInv'
    BY <1>1, <1>2, ZenonT(60) DEF ThreadsInv, UpdaterInv, Updating
  <1>5. RacedInv'
    <2>1. CASE raced' \/ ~Updating'
      BY <2>1, ZenonT(60) DEF RacedInv
    <2>2. CASE ~raced' /\ Updating'
      <3>1. Updating /\ ~raced /\ access'[w].state # "held"
        BY <1>1, <2>2, WriterMoves, ZenonT(60) DEF ThreadsInv, RacedInv, Updating
      <3>2. QED
        BY <1>2, <3>1, ZenonT(60) DEF ThreadsInv, RacedInv
    <2>3. QED
      BY <2>1, <2>2, ZenonT(60)
  <1>6. QED
    BY <1>3, <1>4, <1>5, ZenonT(60)

LEMMA UpdaterThreads ==
    ASSUME AccessType, ThreadsInv, WriteCntInv, NEW u \in Updater,
           UpdaterStep(u) \/ CallUpdate(u)
    PROVE  RolesInv' /\ UpdaterInv' /\ RacedInv'
  <1>1. Only(u) /\ UNCHANGED <<task, raced>>
    BY UpdaterMoves
  <1>2. /\ access'[Enforcer] = access[Enforcer]
        /\ \A w \in Writer : access'[w] = access[w]
        /\ \A v \in Updater \ {u} : access'[v] = access[v]
    BY <1>1, Kinds, ZenonT(60) DEF Only
  <1>3. \A th \in Thread : access[th].state \in {"idle", "called", "held", "no_access"}
    BY ZenonT(60) DEF AccessType
  <1>4. RolesInv'
    <2>1. access'[u].state # "idle" => access'[u].op = "update" /\ access'[u].state # "no_access"
      BY UpdaterMoves, ZenonT(60) DEF ThreadsInv, RolesInv
    <2>2. QED
      BY <1>1, <1>2, <2>1, ZenonT(60) DEF ThreadsInv, RolesInv
  <1>5. UpdaterInv'
    <2>1. CASE UNCHANGED access /\ (UNCHANGED updater \/ (Updating /\ Updating'))
      BY <2>1, ZenonT(60) DEF ThreadsInv, UpdaterInv, Updating
    <2>2. CASE access[u].state = "idle" /\ access'[u].state = "called"
               /\ updater = "idle" /\ updater' = "called"
      <3>1. \A v \in Updater : access[v].state = "idle"
        BY <1>3, <2>2, Kinds, ZenonT(60) DEF ThreadsInv, UpdaterInv, RolesInv, Updating
      <3>2. QED
        BY <1>2, <2>2, <3>1, ZenonT(60) DEF UpdaterInv
    <2>3. CASE access[u].state \in {"called", "held"}
               /\ \/ access'[u].state = "held" /\ updater' = "granted"
                  \/ access'[u].state = "idle"
      <3>1. \A v \in Updater \ {u} : access'[v].state = "idle"
        BY <1>2, <2>3, ZenonT(60) DEF ThreadsInv, UpdaterInv
      <3>2. QED
        BY <2>3, <3>1, ZenonT(60) DEF UpdaterInv, Updating
    <2>4. QED
      BY <2>1, <2>2, <2>3, UpdaterMoves, ZenonT(60) DEF Updating
  <1>6. RacedInv'
    <2>1. CASE Updating' => Updating
      BY <1>1, <1>2, <2>1, ZenonT(60) DEF ThreadsInv, RacedInv
    <2>2. CASE write_cnt = 0
      BY <1>2, <2>2, Kinds, ZenonT(60) DEF WriteCntInv, ThreadsInv, RolesInv, RacedInv
    <2>3. QED
      BY <2>1, <2>2, UpdaterMoves, ZenonT(60) DEF Updating
  <1>7. QED
    BY <1>4, <1>5, <1>6, ZenonT(60)

LEMMA ChangeStep ==
    ASSUME DataType, AccessType, ThreadsInv, [Next]_vars
    PROVE  ChangeInv'
  <1>0. ChangeInv /\ UpdaterInv /\ task_queue \in Seq(Task)
    BY DEF ThreadsInv, DataType, TasksType
  <1>1. ASSUME UNCHANGED task_queue, updater = "waiting" => updater' = "waiting"
        PROVE  ChangeInv'
    BY <1>0, <1>1, ChangeKept, ZenonT(60)
  <1>2. CASE UNCHANGED vars
    BY <1>1, <1>2, ZenonT(60) DEF vars
  <1>3. ASSUME NEW p \in Port, NEW s \in {UP, DOWN}, port_status_event_cb(p, s)
        PROVE  ChangeInv'
    <2>1. PortEvent(p, s) # P4Change /\ PortEvent(p, s) \in Task
      BY <1>3 DEF PortEvent, P4Change, Task, Event, Status
    <2>2. task_queue' = Append(task_queue, PortEvent(p, s)) /\ UNCHANGED updater
      BY <1>3, ZenonT(60) DEF port_status_event_cb
    <2>3. /\ \A i \in DOMAIN task_queue : i \in DOMAIN task_queue' /\ task_queue'[i] = task_queue[i]
          /\ \A i \in DOMAIN task_queue' : i \in DOMAIN task_queue \/ task_queue'[i] = PortEvent(p, s)
      BY <1>0, <2>1, <2>2, SMTT(60)
    <2>4. QED
      BY <1>0, <2>1, <2>2, <2>3, ChangeKept, ZenonT(60)
  <1>4. CASE EnforcerStep
    <2>1. CASE RunPortEvent \/ RunUpdateCache
      <3>1. task_queue # <<>> /\ task_queue' = Tail(task_queue) /\ UNCHANGED updater
        BY <2>1, SMTT(60) DEF RunPortEvent, RunUpdateCache
      <3>2. QED
        BY <1>0, <3>1, ChangeShifts, ZenonT(60)
    <2>2. CASE RunP4Change
      BY <1>0, <2>2, ChangeRuns, ZenonT(60) DEF ChangeInv
    <2>3. CASE CallNoWrite \/ GetNoWrite \/ SkipPortEvent
      BY <1>1, <2>3, ZenonT(60) DEF CallNoWrite, GetNoWrite, SkipPortEvent
    <2>4. CASE \E a \in ActProf : SetPortStatus(a)
      BY <1>1, <2>4, SMTT(60) DEF SetPortStatus
    <2>5. QED
      BY <1>4, <2>1, <2>2, <2>3, <2>4, ZenonT(60) DEF EnforcerStep
  <1>5. ASSUME NEW w \in Writer, WriterStep(w) \/ \E a \in ActProf : CallWrite(w, a)
        PROVE  ChangeInv'
    <2>1. UNCHANGED updater
      BY <1>5, WriterMoves, SMTT(60)
    <2>2. CASE GetWrite(w) \/ \E a \in ActProf : CallWrite(w, a)
      BY <1>1, <2>1, <2>2, ZenonT(60) DEF GetWrite, CallWrite
    <2>3. ASSUME NEW a \in ActProf, NEW m \in Member, NEW watch \in Watch,
                 AddMember(w, a, m, watch) \/ ModifyMember(w, a, m, watch)
          PROVE  ChangeInv'
      <3>1. Posted
        BY <2>3, AddPosts, ModifyPosts, ZenonT(60)
      <3>2. \A i \in DOMAIN task_queue' : i \in DOMAIN task_queue \/ task_queue'[i] # P4Change
        BY <3>1 DEF Posted, P4Change
      <3>3. QED
        BY <1>0, <2>1, <3>1, <3>2, ChangeKept, ZenonT(60) DEF Posted
    <2>4. ASSUME NEW a \in ActProf, NEW m \in Member, DeleteMember(w, a, m)
          PROVE  ChangeInv'
      <3>1. UNCHANGED task_queue
        BY <2>4, ZenonT(60) DEF DeleteMember
      <3>2. QED
        BY <1>1, <2>1, <3>1
    <2>5. QED
      BY <1>5, <2>2, <2>3, <2>4, ZenonT(60) DEF WriterStep, Watch
  <1>6. ASSUME NEW u \in Updater, UpdaterStep(u) \/ CallUpdate(u)
        PROVE  ChangeInv'
    <2>1. CASE PostP4Change(u)
      <3>1. /\ updater = "started" /\ updater' = "waiting"
            /\ task_queue' = Append(task_queue, P4Change)
        BY <2>1 DEF PostP4Change
      <3>2. \A i \in DOMAIN task_queue : task_queue[i] # P4Change
        BY <1>0, <3>1 DEF ChangeInv
      <3>3. P4Change \in Task
        BY SMTT(60) DEF Task
      <3>4. \A i \in DOMAIN task_queue' : task_queue'[i] = P4Change => i = Len(task_queue) + 1
        BY <1>0, <3>1, <3>2, <3>3, SMTT(60)
      <3>5. QED
        BY <3>1, <3>4 DEF ChangeInv
    <2>2. CASE CallUpdate(u) \/ UpdateDeviceStart(u) \/ ClearActionProfs(u) \/ EndUpdate(u)
      BY <1>1, <2>2, SMTT(60) DEF CallUpdate, UpdateDeviceStart, ClearActionProfs, EndUpdate
    <2>3. CASE GetUpdate(u)
      <3>1. CASE UNCHANGED updater
        BY <1>1, <2>3, <3>1, SMTT(60) DEF GetUpdate
      <3>2. CASE Arb!GrantUpdate(u)
        <4>1. updater = "called"
          BY <1>0, <3>2, AccessEffect, Kinds, ZenonT(60) DEF UpdaterInv
        <4>2. QED
          BY <1>1, <2>3, <4>1, ZenonT(60) DEF GetUpdate
      <3>3. QED
        BY <2>3, <3>1, <3>2, ZenonT(60) DEF GetUpdate
    <2>4. QED
      BY <1>6, <2>1, <2>2, <2>3, ZenonT(60) DEF UpdaterStep
  <1>7. QED
    BY <1>2, <1>3, <1>4, <1>5, <1>6, ZenonT(60) DEF Next

LEMMA ThreadsStep ==
    ASSUME DataType, AccessType, WriteCntInv, ThreadsInv, [Next]_vars
    PROVE  ThreadsInv'
  <1>1. ASSUME UNCHANGED <<access, task, updater, raced>>
        PROVE  RolesInv' /\ UpdaterInv' /\ RacedInv'
    BY <1>1, SMTT(60) DEF ThreadsInv, RolesInv, UpdaterInv, RacedInv, Updating
  <1>2. CASE UNCHANGED vars
    BY <1>1, <1>2, ChangeStep, ZenonT(60) DEF vars, lock, bounds, ThreadsInv
  <1>3. CASE \E p \in Port, s \in {UP, DOWN} : port_status_event_cb(p, s)
    BY <1>1, <1>3, ChangeStep, ZenonT(60) DEF port_status_event_cb, lock, ThreadsInv
  <1>4. CASE EnforcerStep
    BY <1>4, EnforcerThreads, ChangeStep, ZenonT(60) DEF ThreadsInv
  <1>5. CASE \E w \in Writer : WriterStep(w) \/ \E a \in ActProf : CallWrite(w, a)
    BY <1>5, WriterThreads, ChangeStep, ZenonT(60) DEF ThreadsInv
  <1>6. CASE \E u \in Updater : UpdaterStep(u) \/ CallUpdate(u)
    BY <1>6, UpdaterThreads, ChangeStep DEF ThreadsInv
  <1>7. QED
    BY <1>2, <1>3, <1>4, <1>5, <1>6, ZenonT(60) DEF Next

-----------------------------------------------------------------------------
(* The members.  The enforcer and the ActionProfMgr agree on the watch     *)
(* ports, the members are on the target, and they are active as the map of *)
(* their action profile says.                                              *)
Agree ==
    \A a \in ActProf, m \in Member, p \in Port :
        m \in members_by_port[a][p] <=> group_members[a][m] = p

InHw ==
    \A a \in ActProf, m \in Member : group_members[a][m] # NotMember => m \in hw_members[a]

Active ==
    \A a \in ActProf, p \in Port : \A m \in members_by_port[a][p] :
        m \in hw_active[a] <=> ports_status[a][p] = UP

(* What group_add_member does when the enforcer and the manager agree. *)
LEMMA AddAgrees ==
    ASSUME DataType, KnownInv, Agree, InHw, Active,
           NEW w \in Writer, NEW a \in ActProf, NEW m \in Member, NEW watch \in Watch,
           AddMember(w, a, m, watch)
    PROVE  ~internal_error' /\ Agree' /\ InHw' /\ Active'
  <1>0. /\ group_members \in [ActProf -> [Member -> Watch \cup {NotMember}]]
        /\ members_by_port \in [ActProf -> [Port -> SUBSET Member]]
        /\ hw_members \in [ActProf -> SUBSET Member] /\ hw_active \in [ActProf -> SUBSET Member]
    BY DEF DataType, TargetType, TablesType
  <1>1. group_members[a][m] = NotMember /\ \A p \in Port : p # NotMember /\ p # INVALID_WATCH
    BY WatchAssumption, ZenonT(60) DEF AddMember, WatchAssumption
  <1>2. \A p \in Port : m \notin members_by_port[a][p]
    BY <1>1, SMTT(60) DEF Agree
  <1>3. ~(watch # INVALID_WATCH /\ m \in members_by_port[a][watch])
    BY <1>2 DEF Watch
  <1>4. /\ ~internal_error'
        /\ group_members' = [group_members EXCEPT ![a][m] = watch]
        /\ hw_members' = [hw_members EXCEPT ![a] = @ \cup {m}]
        /\ members_by_port' = [members_by_port EXCEPT
                ![a] = [p \in Port |-> IF p = watch THEN @[p] \cup {m} ELSE @[p]]]
        /\ ports_status' = Queried(a, {watch})
        /\ hw_active' = [hw_active EXCEPT
                ![a] = IF get_port_status(a, watch) = UP THEN @ \cup {m} ELSE @ \ {m}]
    BY <1>3, ZenonT(60) DEF AddMember
  <1>5. \A b \in ActProf, p \in Port : \A n :
           n \in members_by_port'[b][p]
             <=> n \in members_by_port[b][p] \/ (b = a /\ p = watch /\ n = m)
    <2>1. \A b \in ActProf, p \in Port :
            members_by_port'[b][p] = IF b = a /\ p = watch THEN members_by_port[b][p] \cup {m}
                                     ELSE members_by_port[b][p]
      BY <1>0, <1>4, ZenonT(60)
    <2>2. ASSUME NEW b \in ActProf, NEW p \in Port
          PROVE  \A n : n \in members_by_port'[b][p]
                         <=> n \in members_by_port[b][p] \/ (b = a /\ p = watch /\ n = m)
      <3>1. CASE b = a /\ p = watch
        BY <2>1, <3>1, ZenonT(60)
      <3>2. CASE ~(b = a /\ p = watch)
        BY <2>1, <3>2, ZenonT(60)
      <3>3. QED
        BY <3>1, <3>2
    <2>3. QED
      BY <2>2, ZenonT(60)
  <1>6. \A b \in ActProf, n \in Member :
           group_members'[b][n] = IF b = a /\ n = m THEN watch ELSE group_members[b][n]
    BY <1>0, <1>4, ZenonT(60)
  <1>7. ASSUME NEW b \in ActProf, NEW n \in Member, NEW p \in Port
        PROVE  n \in members_by_port'[b][p] <=> group_members'[b][n] = p
    <2>1. n \in members_by_port[b][p] <=> group_members[b][n] = p
      BY ZenonT(60) DEF Agree
    <2>2. CASE b = a /\ n = m
      BY <1>1, <1>2, <1>5, <1>6, <2>2, ZenonT(60)
    <2>3. CASE ~(b = a /\ n = m)
      BY <1>5, <1>6, <2>1, <2>3, ZenonT(60)
    <2>4. QED
      BY <2>2, <2>3
  <1>8. InHw'
    BY <1>0, <1>4, <1>6, SMTT(60) DEF InHw
  <1>9. ASSUME NEW b \in ActProf, NEW p \in Port, NEW n \in members_by_port'[b][p]
        PROVE  n \in hw_active'[b] <=> ports_status'[b][p] = UP
    <2>1. CASE b = a /\ n = m
      <3>1. p = watch
        BY <1>2, <1>5, <1>9, <2>1, ZenonT(60)
      <3>2. ports_status'[a][p] = get_port_status(a, watch)
        BY <1>4, <3>1, QueriedAt, SMTT(60)
      <3>3. n \in hw_active'[b] <=> get_port_status(a, watch) = UP
        BY <1>0, <1>4, <2>1, ZenonT(60)
      <3>4. QED
        BY <2>1, <3>2, <3>3, ZenonT(60)
    <2>2. CASE ~(b = a /\ n = m)
      <3>1. n \in members_by_port[b][p]
        BY <1>5, <1>9, <2>2, SMTT(60)
      <3>2. n \in hw_active'[b] <=> n \in hw_active[b]
        BY <1>0, <1>4, <2>2, ZenonT(60)
      <3>3. ports_status[b][p] # Unset
        BY <3>1, ZenonT(60) DEF KnownInv
      <3>4. ports_status'[b][p] = ports_status[b][p]
        BY <1>4, <3>3, QueriedAt
      <3>5. QED
        BY <3>1, <3>2, <3>4, ZenonT(60) DEF Active
    <2>3. QED
      BY <2>1, <2>2, ZenonT(60)
  <1>10. QED
    BY <1>4, <1>7, <1>8, <1>9, ZenonT(60) DEF Agree, Active

(* What group_modify_member does then: m moves from one port to another.   *)
LEMMA ModifyAgrees ==
    ASSUME DataType, KnownInv, Agree, InHw, Active,
           NEW w \in Writer, NEW a \in ActProf, NEW m \in Member, NEW watch \in Watch,
           ModifyMember(w, a, m, watch)
    PROVE  ~internal_error' /\ Agree' /\ InHw' /\ Active'
  <1> DEFINE current == group_members[a][m]
  <1>0. /\ group_members \in [ActProf -> [Member -> Watch \cup {NotMember}]]
        /\ members_by_port \in [ActProf -> [Port -> SUBSET Member]]
        /\ hw_members \in [ActProf -> SUBSET Member] /\ hw_active \in [ActProf -> SUBSET Member]
    BY DEF DataType, TargetType, TablesType
  <1>1. /\ current # NotMember /\ current # watch /\ current \in Watch
        /\ \A p \in Port : p # INVALID_WATCH
    BY <1>0, WatchAssumption, SMTT(60) DEF ModifyMember, WatchAssumption
  <1>2. \A p \in Port : m \in members_by_port[a][p] <=> p = current
    BY ZenonT(60) DEF Agree
  <1>3. /\ ~(current # INVALID_WATCH /\ m \notin members_by_port[a][current])
        /\ ~(watch # INVALID_WATCH /\ m \in members_by_port[a][watch])
    BY <1>1, <1>2, SMTT(60) DEF Watch
  <1>4. /\ ~internal_error'
        /\ group_members' = [group_members EXCEPT ![a][m] = watch]
        /\ UNCHANGED hw_members
        /\ members_by_port' = [members_by_port EXCEPT
             ![a] = [p \in Port |-> IF p = current THEN @[p] \ {m}
                                    ELSE IF p = watch THEN @[p] \cup {m} ELSE @[p]]]
        /\ ports_status' = Queried(a, {current, watch})
        /\ hw_active' = [hw_active EXCEPT
             ![a] = IF current # INVALID_WATCH /\ get_port_status(a, current) = get_port_status(a, watch)
                    THEN @
                    ELSE IF get_port_status(a, watch) = UP THEN @ \cup {m} ELSE @ \ {m}]
    BY <1>3, ZenonT(60) DEF ModifyMember
  <1> HIDE DEF current
  <1>5. \A b \in ActProf, p \in Port : \A n :
           n \in members_by_port'[b][p] <=> IF b = a /\ n = m THEN p = watch
                                            ELSE n \in members_by_port[b][p]
    <2>1. \A b \in ActProf, p \in Port :
            members_by_port'[b][p] = IF b = a /\ p = current THEN members_by_port[b][p] \ {m}
                                     ELSE IF b = a /\ p = watch THEN members_by_port[b][p] \cup {m}
                                     ELSE members_by_port[b][p]
      <3>1. members_by_port'[a] = [p \in Port |-> IF p = current THEN members_by_port[a][p] \ {m}
                                                  ELSE IF p = watch THEN members_by_port[a][p] \cup {m}
                                                  ELSE members_by_port[a][p]]
        BY <1>0, <1>4, ZenonT(60)
      <3>2. \A b \in ActProf \ {a} : members_by_port'[b] = members_by_port[b]
        BY <1>0, <1>4, ZenonT(60)
      <3>3. QED
        BY <3>1, <3>2, ZenonT(60)
    <2>2. ASSUME NEW b \in ActProf, NEW p \in Port, NEW n
          PROVE  n \in members_by_port'[b][p] <=> IF b = a /\ n = m THEN p = watch
                                                  ELSE n \in members_by_port[b][p]
      <3>1. CASE b = a /\ p = current
        BY <1>1, <2>1, <3>1, ZenonT(60)
      <3>2. CASE b = a /\ p # current /\ p = watch
        BY <2>1, <3>2, ZenonT(60)
      <3>3. CASE b # a \/ (p # current /\ p # watch)
        <4>1. members_by_port'[b][p] = members_by_port[b][p]
          BY <2>1, <3>3, ZenonT(60)
        <4>2. b = a => m \notin members_by_port[b][p]
          BY <1>2, <3>3, ZenonT(60)
        <4>3. QED
          BY <3>3, <4>1, <4>2, ZenonT(60)
      <3>4. QED
        BY <3>1, <3>2, <3>3, ZenonT(60)
    <2>3. QED
      BY <2>2, ZenonT(60)
  <1>6. \A b \in ActProf, n \in Member :
           group_members'[b][n] = IF b = a /\ n = m THEN watch ELSE group_members[b][n]
    BY <1>0, <1>4, ZenonT(60)
  <1>7. ASSUME NEW b \in ActProf, NEW n \in Member, NEW p \in Port
        PROVE  n \in members_by_port'[b][p] <=> group_members'[b][n] = p
    <2>1. n \in members_by_port[b][p] <=> group_members[b][n] = p
      BY Zenon DEF Agree
    <2>2. QED
      BY <1>5, <1>6, <2>1, ZenonT(60)
  <1>8. InHw'
    BY <1>1, <1>4, <1>6, ZenonT(60) DEF InHw, current
  <1>9. ASSUME NEW b \in ActProf, NEW p \in Port, NEW n \in members_by_port'[b][p]
        PROVE  n \in hw_active'[b] <=> ports_status'[b][p] = UP
    <2>1. CASE b = a /\ n = m
      <3>1. p = watch
        BY <1>5, <1>9, <2>1, ZenonT(60)
      <3>2. ports_status'[a][p] = get_port_status(a, watch)
        BY <1>4, <3>1, QueriedAt, SMTT(60)
      <3>3. CASE current # INVALID_WATCH /\ get_port_status(a, current) = get_port_status(a, watch)
        <4>1. current \in Port /\ m \in members_by_port[a][current]
          BY <1>1, <1>2, <3>3, ZenonT(60) DEF Watch
        <4>2. ports_status[a][current] # Unset
          BY <4>1, ZenonT(60) DEF KnownInv
        <4>3. get_port_status(a, current) = ports_status[a][current]
          BY <3>3, <4>2, ZenonT(60) DEF get_port_status
        <4>4. m \in hw_active[a] <=> get_port_status(a, watch) = UP
          BY <3>3, <4>1, <4>3, ZenonT(60) DEF Active
        <4>5. hw_active'[a] = hw_active[a]
          BY <1>0, <1>4, <3>3, ZenonT(60)
        <4>6. QED
          BY <2>1, <3>2, <4>4, <4>5, ZenonT(60)
      <3>4. CASE ~(current # INVALID_WATCH /\ get_port_status(a, current) = get_port_status(a, watch))
        <4>1. hw_active'[a] = IF get_port_status(a, watch) = UP THEN hw_active[a] \cup {m}
                              ELSE hw_active[a] \ {m}
          BY <1>0, <1>4, <3>4, ZenonT(60)
        <4>2. m \in hw_active'[a] <=> get_port_status(a, watch) = UP
          BY <4>1, ZenonT(60)
        <4>3. QED
          BY <2>1, <3>2, <4>2, ZenonT(60)
      <3>5. QED
        BY <3>3, <3>4, ZenonT(60)
    <2>2. CASE ~(b = a /\ n = m)
      <3>1. n \in members_by_port[b][p]
        BY <1>5, <1>9, <2>2, ZenonT(60)
      <3>2. n \in hw_active'[b] <=> n \in hw_active[b]
        BY <1>0, <1>4, <2>2, ZenonT(60)
      <3>3. ports_status[b][p] # Unset
        BY <3>1 DEF KnownInv
      <3>4. ports_status'[b][p] = ports_status[b][p]
        BY <1>4, <3>3, QueriedAt, SMTT(60)
      <3>5. QED
        BY <3>1, <3>2, <3>4, ZenonT(60) DEF Active
    <2>3. QED
      BY <2>1, <2>2
  <1>10. QED
    BY <1>4, <1>7, <1>8, <1>9, ZenonT(60) DEF Agree, Active

(* What group_remove_member does then. *)
LEMMA DeleteAgrees ==
    ASSUME DataType, Agree, InHw, Active,
           NEW w \in Writer, NEW a \in ActProf, NEW m \in Member, DeleteMember(w, a, m)
    PROVE  ~internal_error' /\ Agree' /\ InHw' /\ Active'
  <1> DEFINE current == group_members[a][m]
  <1>0. /\ group_members \in [ActProf -> [Member -> Watch \cup {NotMember}]]
        /\ members_by_port \in [ActProf -> [Port -> SUBSET Member]]
        /\ hw_members \in [ActProf -> SUBSET Member] /\ hw_active \in [ActProf -> SUBSET Member]
    BY ZenonT(60) DEF DataType, TargetType, TablesType
  <1>1. current # NotMember /\ current \in Watch /\ \A p \in Port : p # NotMember
    BY <1>0, WatchAssumption, SMTT(60) DEF DeleteMember, WatchAssumption
  <1>2. \A p \in Port : m \in members_by_port[a][p] <=> p = current
    BY ZenonT(60) DEF Agree
  <1>3. current = INVALID_WATCH \/ m \in members_by_port[a][current]
    BY <1>1, <1>2, ZenonT(60) DEF Watch
  <1>4. /\ ~internal_error' /\ UNCHANGED ports_status
        /\ group_members' = [group_members EXCEPT ![a][m] = NotMember]
        /\ members_by_port' = [members_by_port EXCEPT
             ![a] = [p \in Port |-> IF p = current THEN @[p] \ {m} ELSE @[p]]]
        /\ hw_members' = [hw_members EXCEPT ![a] = @ \ {m}]
        /\ hw_active' = [hw_active EXCEPT ![a] = @ \ {m}]
    BY <1>3, ZenonT(60) DEF DeleteMember
  <1> HIDE DEF current
  <1>5. \A b \in ActProf, p \in Port : \A n :
           n \in members_by_port'[b][p] <=> ~(b = a /\ n = m) /\ n \in members_by_port[b][p]
    <2>1. \A b \in ActProf, p \in Port :
            members_by_port'[b][p] = IF b = a /\ p = current THEN members_by_port[b][p] \ {m}
                                     ELSE members_by_port[b][p]
      BY <1>0, <1>4, ZenonT(60)
    <2>2. ASSUME NEW b \in ActProf, NEW p \in Port, NEW n
          PROVE  n \in members_by_port'[b][p] <=> ~(b = a /\ n = m) /\ n \in members_by_port[b][p]
      <3>1. CASE b = a /\ p = current
        BY <2>1, <3>1, ZenonT(60)
      <3>2. CASE ~(b = a /\ p = current)
        <4>1. members_by_port'[b][p] = members_by_port[b][p]
          BY <2>1, <3>2, ZenonT(60)
        <4>2. b = a => m \notin members_by_port[b][p]
          BY <1>2, <3>2, ZenonT(60)
        <4>3. QED
          BY <4>1, <4>2, ZenonT(60)
      <3>3. QED
        BY <3>1, <3>2, ZenonT(60)
    <2>3. QED
      BY <2>2, ZenonT(60)
  <1>6. \A b \in ActProf, n \in Member :
           group_members'[b][n] = IF b = a /\ n = m THEN NotMember ELSE group_members[b][n]
    BY <1>0, <1>4, ZenonT(60)
  <1>7. ASSUME NEW b \in ActProf, NEW n \in Member, NEW p \in Port
        PROVE  n \in members_by_port'[b][p] <=> group_members'[b][n] = p
    <2>1. n \in members_by_port[b][p] <=> group_members[b][n] = p
      BY ZenonT(60) DEF Agree
    <2>2. QED
      BY <1>1, <1>5, <1>6, <2>1, SMTT(60)
  <1>8. ASSUME NEW b \in ActProf, NEW n \in Member, group_members'[b][n] # NotMember
        PROVE  n \in hw_members'[b]
    <2>1. ~(b = a /\ n = m) /\ n \in hw_members[b]
      BY <1>6, <1>8, ZenonT(60) DEF InHw
    <2>2. QED
      BY <1>0, <1>4, <2>1, ZenonT(60)
  <1>9. ASSUME NEW b \in ActProf, NEW p \in Port, NEW n \in members_by_port'[b][p]
        PROVE  n \in hw_active'[b] <=> ports_status'[b][p] = UP
    <2>1. ~(b = a /\ n = m) /\ n \in members_by_port[b][p]
      BY <1>5, <1>9, ZenonT(60)
    <2>2. n \in hw_active'[b] <=> n \in hw_active[b]
      BY <1>0, <1>4, <2>1, ZenonT(60)
    <2>3. QED
      BY <1>4, <2>1, <2>2, ZenonT(60) DEF Active
  <1>10. QED
    BY <1>4, <1>7, <1>8, <1>9, ZenonT(60) DEF Agree, InHw, Active

(* What set_port_status does then: the members of the port, and no others, *)
(* follow it.  A port without an entry in the map has no members, so that  *)
(* an entry created as DOWN is no missed change.                           *)
LEMMA SetAgrees ==
    ASSUME DataType, RolesInv, KnownInv, Agree, Active, NEW a \in ActProf, SetPortStatus(a)
    PROVE  Active'
  <1>0. /\ members_by_port \in [ActProf -> [Port -> SUBSET Member]]
        /\ hw_active \in [ActProf -> SUBSET Member]
        /\ ports_status \in [ActProf -> [Port -> Status \cup {Unset}]]
    BY DEF DataType, TargetType, TablesType
  <1>1. task.port \in Port /\ task.status \in Status
    <2>1. task \in Event
      BY ZenonT(60) DEF SetPortStatus, RolesInv, DataType, TasksType
    <2>2. QED
      BY <2>1, ZenonT(60) DEF Event
  <1>2. UNCHANGED members_by_port /\ ports_status' = [ports_status EXCEPT ![a][task.port] = task.status]
    BY ZenonT(60) DEF SetPortStatus
  <1>3. \A b \in ActProf, p \in Port :
           ports_status'[b][p] = IF b = a /\ p = task.port THEN task.status ELSE ports_status[b][p]
    BY <1>0, <1>1, <1>2, SMTT(60)
  <1>4. CASE Known(ports_status[a][task.port]) = task.status
    <2>1. UNCHANGED hw_active
      BY <1>4, ZenonT(60) DEF SetPortStatus
    <2>2. members_by_port[a][task.port] # {} => ports_status[a][task.port] = task.status
      BY <1>1, <1>4, SMTT(60) DEF KnownInv, Known
    <2>3. ASSUME NEW b \in ActProf, NEW p \in Port, NEW n \in members_by_port[b][p]
          PROVE  n \in hw_active'[b] <=> ports_status'[b][p] = UP
      <3>1. ports_status'[b][p] = ports_status[b][p]
        BY <1>3, <2>2, <2>3, ZenonT(60)
      <3>2. n \in hw_active[b] <=> ports_status[b][p] = UP
        BY <2>3, ZenonT(60) DEF Active
      <3>3. QED
        BY <2>1, <3>1, <3>2, ZenonT(60)
    <2>4. QED
      BY <1>2, <2>3, ZenonT(60) DEF Active
  <1>5. CASE Known(ports_status[a][task.port]) # task.status
    <2>1. hw_active' = [hw_active EXCEPT
              ![a] = IF task.status = UP THEN @ \cup members_by_port[a][task.port]
                                         ELSE @ \ members_by_port[a][task.port]]
      BY <1>5, ZenonT(60) DEF SetPortStatus
    <2>2. ASSUME NEW b \in ActProf, NEW p \in Port, NEW n \in members_by_port[b][p]
          PROVE  n \in hw_active'[b] <=> ports_status'[b][p] = UP
      <3>1. CASE b = a /\ p = task.port
        <4>1. ports_status'[b][p] = task.status
          BY <1>3, <3>1, ZenonT(60)
        <4>2. hw_active'[a] = IF task.status = UP THEN hw_active[a] \cup members_by_port[a][task.port]
                              ELSE hw_active[a] \ members_by_port[a][task.port]
          BY <1>0, <2>1, SMTT(60)
        <4>3. QED
          BY <2>2, <3>1, <4>1, <4>2, ZenonT(60)
      <3>2. CASE ~(b = a /\ p = task.port)
        <4>1. b = a => n \notin members_by_port[a][task.port]
          BY <1>0, <1>1, <2>2, <3>2, SMTT(60) DEF Agree
        <4>2. n \in hw_active'[b] <=> n \in hw_active[b]
          BY <1>0, <2>1, <4>1, ZenonT(60)
        <4>3. ports_status'[b][p] = ports_status[b][p]
          BY <1>3, <3>2, SMTT(60)
        <4>4. QED
          BY <2>2, <4>2, <4>3, ZenonT(60) DEF Active
      <3>3. QED
        BY <3>1, <3>2
    <2>3. QED
      BY <1>2, <2>2, ZenonT(60) DEF Active
  <1>6. QED
    BY <1>4, <1>5, ZenonT(60)

-----------------------------------------------------------------------------
(* What holds of the members in each phase of a pipeline change, as long   *)
(* as no Write slips into one: from its start the target is empty, from    *)
(* the p4_change task the enforcer is, and at the end the ActionProfMgr is.*)
Phases ==
    ~raced =>
        /\ ~internal_error
        /\ updater \in {"idle", "called", "granted"} => Agree /\ InHw /\ Active
        /\ updater \in {"promised", "changed"} =>
              \A a \in ActProf, p \in Port : members_by_port[a][p] = {}
        /\ updater = "changed" => \A a \in ActProf, m \in Member : group_members[a][m] = NotMember

(* Steps that leave the members alone. *)
LEMMA PhaseQuiet ==
    ASSUME Phases, raced => raced',
           UNCHANGED <<hw_members, hw_active, tables, group_members, internal_error, updater>>
    PROVE  Phases'
  <1>1. /\ Agree => Agree'
        /\ InHw => InHw'
        /\ Active => Active'
    BY ZenonT(60) DEF Agree, InHw, Active, tables
  <1>2. QED
    BY <1>1, ZenonT(60) DEF Phases, tables

LEMMA EnforcerPhases ==
    ASSUME DataType, ThreadsInv, KnownInv, Phases, EnforcerStep
    PROVE  Phases'
  <1>1. CASE RunPortEvent \/ RunUpdateCache \/ CallNoWrite \/ GetNoWrite \/ SkipPortEvent
    BY <1>1, PhaseQuiet DEF RunPortEvent, RunUpdateCache, CallNoWrite, GetNoWrite, SkipPortEvent,
           target, bounds
  <1>2. CASE RunP4Change
    <2>1. /\ updater' = "promised" /\ UNCHANGED <<internal_error, raced>>
          /\ \A a \in ActProf, p \in Port : members_by_port'[a][p] = {}
      BY <1>2 DEF RunP4Change, bounds
    <2>2. QED
      BY <2>1, ZenonT(60) DEF Phases
  <1>3. ASSUME NEW a \in ActProf, SetPortStatus(a)
        PROVE  Phases'
    <2>1. UNCHANGED <<hw_members, members_by_port, group_members, updater, internal_error, raced>>
      BY <1>3, ZenonT(60) DEF SetPortStatus, bounds
    <2>2. /\ Agree => Agree'
          /\ InHw => InHw'
      BY <2>1 DEF Agree, InHw
    <2>3. Agree /\ Active => Active'
      BY <1>3, SetAgrees DEF ThreadsInv
    <2>4. QED
      BY <2>1, <2>2, <2>3, ZenonT(60) DEF Phases
  <1>4. QED
    BY <1>1, <1>2, <1>3, ZenonT(60) DEF EnforcerStep

LEMMA WriterPhases ==
    ASSUME DataType, AccessType, ThreadsInv, KnownInv, Phases, NEW w \in Writer,
           WriterStep(w) \/ \E a \in ActProf : CallWrite(w, a)
    PROVE  Phases'
  <1>1. CASE GetWrite(w) \/ \E a \in ActProf : CallWrite(w, a)
    <2>1. raced => raced'
      BY <1>1, ZenonT(60) DEF GetWrite, CallWrite
    <2>2. QED
      BY <1>1, <2>1, PhaseQuiet, ZenonT(60) DEF GetWrite, CallWrite, target
  <1>2. ASSUME NEW a \in ActProf, Writes(w, a), ~raced'
        PROVE  /\ ~raced /\ updater' \in {"idle", "called"}
               /\ Agree /\ InHw /\ Active
    <2>1. UNCHANGED <<raced, updater>> /\ access[w].state = "held"
      BY <1>2, ZenonT(60) DEF Writes, bounds
    <2>2. ~raced
      BY <1>2, <2>1, ZenonT(60)
    <2>3. ~Updating
      BY <2>1, <2>2, ZenonT(60) DEF ThreadsInv, RacedInv
    <2>4. QED
      BY <2>1, <2>2, <2>3, ZenonT(60) DEF Updating, Phases
  <1>3. ASSUME NEW a \in ActProf, Writes(w, a),
               Agree /\ InHw /\ Active => ~internal_error' /\ Agree' /\ InHw' /\ Active'
        PROVE  Phases'
    <2>1. CASE raced'
      BY <2>1, ZenonT(60) DEF Phases
    <2>2. CASE ~raced'
      <3>1. updater' \in {"idle", "called"} /\ ~internal_error' /\ Agree' /\ InHw' /\ Active'
        BY <1>2, <1>3, <2>2, ZenonT(60)
      <3>2. updater' \notin {"promised", "changed"} /\ updater' # "changed"
        BY <3>1
      <3>3. QED
        BY <3>1, <3>2, ZenonT(60) DEF Phases
    <2>3. QED
      BY <2>1, <2>2
  <1>4. ASSUME NEW a \in ActProf, NEW m \in Member, NEW watch \in Watch, AddMember(w, a, m, watch)
        PROVE  Phases'
    <2>1. Writes(w, a)
      BY <1>4, ZenonT(60) DEF AddMember
    <2>2. QED
      BY <1>3, <1>4, <2>1, AddAgrees, ZenonT(60)
  <1>5. ASSUME NEW a \in ActProf, NEW m \in Member, NEW watch \in Watch, ModifyMember(w, a, m, watch)
        PROVE  Phases'
    <2>1. Writes(w, a)
      BY <1>5, ZenonT(60) DEF ModifyMember
    <2>2. QED
      BY <1>3, <1>5, <2>1, ModifyAgrees, ZenonT(60)
  <1>6. ASSUME NEW a \in ActProf, NEW m \in Member, DeleteMember(w, a, m)
        PROVE  Phases'
    <2>1. Writes(w, a)
      BY <1>6, ZenonT(60) DEF DeleteMember
    <2>2. QED
      BY <1>3, <1>6, <2>1, DeleteAgrees, ZenonT(60)
  <1>7. QED
    BY <1>1, <1>4, <1>5, <1>6, ZenonT(60) DEF WriterStep, Watch

LEMMA UpdaterPhases ==
    ASSUME DataType, AccessType, ThreadsInv, Phases, NEW u \in Updater,
           UpdaterStep(u) \/ CallUpdate(u)
    PROVE  Phases'
  <1>1. ASSUME UNCHANGED <<hw_members, hw_active, tables, group_members, internal_error, raced>>,
               updater \in {"idle", "called"}, updater' \in {"called", "granted"}
        PROVE  Phases'
    <2>1. /\ Agree => Agree'
          /\ InHw => InHw'
          /\ Active => Active'
      BY <1>1, ZenonT(60) DEF Agree, InHw, Active, tables
    <2>2. updater' \notin {"promised", "changed"} /\ updater' # "changed"
      BY <1>1, SMTT(60)
    <2>3. QED
      BY <1>1, <2>1, <2>2, ZenonT(60) DEF Phases
  <1>2. CASE CallUpdate(u)
    BY <1>1, <1>2, SMTT(60) DEF CallUpdate, target
  <1>3. CASE GetUpdate(u)
    <2>1. CASE UNCHANGED updater
      BY <1>3, <2>1, PhaseQuiet, SMTT(60) DEF GetUpdate, target, bounds
    <2>2. CASE Arb!GrantUpdate(u) /\ updater' = "granted"
      <3>1. updater = "called"
        BY <2>2, AccessEffect, Kinds, SMTT(60) DEF ThreadsInv, UpdaterInv
      <3>2. QED
        BY <1>1, <1>3, <2>2, <3>1, ZenonT(60) DEF GetUpdate, target, bounds
    <2>3. QED
      BY <1>3, <2>1, <2>2, ZenonT(60) DEF GetUpdate
  <1>4. CASE UpdateDeviceStart(u) \/ PostP4Change(u)
    <2>1. updater' \in {"started", "waiting"} /\ UNCHANGED <<internal_error, raced>>
      BY <1>4, ZenonT(60) DEF UpdateDeviceStart, PostP4Change, bounds
    <2>2. QED
      BY <2>1, ZenonT(60) DEF Phases
  <1>5. CASE ClearActionProfs(u)
    <2>1. /\ updater = "promised" /\ updater' = "changed"
          /\ UNCHANGED <<members_by_port, internal_error, raced>>
          /\ \A a \in ActProf, m \in Member : group_members'[a][m] = NotMember
      BY <1>5 DEF ClearActionProfs, tables, bounds
    <2>2. QED
      BY <2>1, SMTT(60) DEF Phases
  <1>6. CASE EndUpdate(u)
    <2>1. /\ updater = "changed" /\ updater' = "idle"
          /\ UNCHANGED <<members_by_port, group_members, internal_error, raced>>
      BY <1>6, ZenonT(60) DEF EndUpdate, tables, bounds
    <2>2. ASSUME ~raced
          PROVE  Agree' /\ InHw' /\ Active'
      <3>1. /\ \A a \in ActProf, p \in Port : members_by_port[a][p] = {}
            /\ \A a \in ActProf, m \in Member : group_members[a][m] = NotMember
        BY <2>1, <2>2, SMTT(60) DEF Phases
      <3>2. \A p \in Port : p # NotMember
        BY WatchAssumption DEF WatchAssumption
      <3>3. QED
        BY <2>1, <3>1, <3>2, ZenonT(60) DEF Agree, InHw, Active
    <2>3. QED
      BY <2>1, <2>2, ZenonT(60) DEF Phases
  <1>7. QED
    BY <1>2, <1>3, <1>4, <1>5, <1>6, ZenonT(60) DEF UpdaterStep

LEMMA PhaseStep ==
    ASSUME DataType, AccessType, ThreadsInv, KnownInv, Phases, [Next]_vars
    PROVE  Phases'
  <1>1. CASE UNCHANGED vars
    BY <1>1, PhaseQuiet, SMTT(60) DEF vars, target, bounds
  <1>2. CASE \E p \in Port, s \in {UP, DOWN} : port_status_event_cb(p, s)
    BY <1>2, PhaseQuiet DEF port_status_event_cb
  <1>3. QED
    BY <1>1, <1>2, EnforcerPhases, WriterPhases, UpdaterPhases, ZenonT(60) DEF Next
=============================================================================

------------------------- MODULE DigestConfigProofs -------------------------
(***************************************************************************)
(* Proofs about DigestMgr: a configuration takes effect, in the sweeps of  *)
(* the manager and on the target, although sweeps are cancelled through    *)
(* pointers that may be stale and writers overlap.                         *)
(***************************************************************************)
EXTENDS DigestMgrProofs

(* SweepsFollowConfig, with the pointer that leads to the sweep. *)
SweepType == [kind : {"max", "ack"}, cancelled : BOOLEAN]
SweepMap(sw) == sw \in [DOMAIN sw -> SweepType]
NewSweep(kind) == [kind |-> kind, cancelled |-> FALSE]
LiveIn(sw, kind) == {a \in DOMAIN sw : sw[a].kind = kind /\ ~sw[a].cancelled}
SweepsInv ==
    /\ SweepMap(sweeps)
    /\ misfired \in BOOLEAN
    /\ LiveIn(sweeps, "max") = IF config.max_timeout /\ ~misfired THEN {task_max_timeout} ELSE {}
    /\ LiveIn(sweeps, "ack") = IF config.ack_timeout THEN {task_ack_timeout} ELSE {}

(* A config_write task is that of one writer, who waits for it; if nothing  *)
(* overlaps the Write, no pipeline change is queued behind the task.       *)
Writes == {i \in DOMAIN task_queue : task_queue[i].kind = "config_write"}
WritesPosted ==
    \A i \in Writes :
      /\ writer[task_queue[i].writer].pc = "waiting"
      /\ \A j \in Writes : j # i => task_queue[j].writer # task_queue[i].writer
      /\ writer[task_queue[i].writer].alone =>
           \A j \in DOMAIN task_queue : j > i => task_queue[j].kind # "p4_change"
DeletesEmpty == \A w \in Writer : writer[w].type = "DELETE" => writer[w].config = NoConfig

(* A Write that overlaps nothing finds the manager configured as it asked  *)
(* when it goes on to the target.                                          *)
AloneInv ==
    \A w \in Writer : ~Idle(w) /\ writer[w].alone =>
      /\ ~updating /\ \A v \in Writer \ {w} : Idle(v)
      /\ writer[w].pc = "configured" =>
           ~Posted("p4_change") /\ (~aborted => config = writer[w].config)

(* TargetFollows, and what the target was given during a pipeline change.  *)
TargetInv ==
    /\ updating \in BOOLEAN /\ strayed \in BOOLEAN
    /\ updating => ~Posted("p4_change")
    /\ ~strayed /\ (updating \/ Posted("p4_change")) => hw_config = pi_config(NoConfig)
    /\ ~strayed /\ ~updating /\ ~Posted("p4_change") /\ (\A w \in Writer : writer[w].pc # "configured")
         => hw_config = pi_config(config)

WriterInv == WritesPosted /\ DeletesEmpty /\ AloneInv /\ TargetInv

-----------------------------------------------------------------------------
(* task->cancel(), and a new task at a free address. *)

LEMMA CancelledLive ==
    ASSUME NEW sw, SweepMap(sw), NEW p
    PROVE  /\ DOMAIN Cancelled(sw, p) = DOMAIN sw
           /\ SweepMap(Cancelled(sw, p))
           /\ \A kind : LiveIn(Cancelled(sw, p), kind) = LiveIn(sw, kind) \ {p}
  <1> DEFINE New(a) == [sw[a] EXCEPT !.cancelled = @ \/ a = p]
  <1>1. ASSUME NEW a \in DOMAIN sw
        PROVE  /\ New(a) \in SweepType /\ New(a).kind = sw[a].kind
               /\ New(a).cancelled <=> sw[a].cancelled \/ a = p
    <2>1. sw[a] \in SweepType
      BY DEF SweepMap
    <2>2. New(a) \in SweepType
      BY <2>1, ZenonT(60) DEF SweepType
    <2>3. New(a).kind = sw[a].kind
      BY <2>1, SMTT(60) DEF SweepType
    <2>4. New(a).cancelled <=> sw[a].cancelled \/ a = p
      <3>1. DOMAIN sw[a] = {"kind", "cancelled"}
        BY <2>1 DEF SweepType
      <3>2. New(a).cancelled = (sw[a].cancelled \/ a = p)
        BY <3>1, ZenonT(60)
      <3>3. QED
        BY <3>2, ZenonT(60)
    <2>5. QED
      BY <2>2, <2>3, <2>4, SMTT(60)
  <1>2. Cancelled(sw, p) = [a \in DOMAIN sw |-> New(a)]
    BY DEF Cancelled
  <1> HIDE DEF New
  <1>3. QED
    BY <1>1, <1>2, SMTT(60) DEF LiveIn, SweepMap

LEMMA WithLive ==
    ASSUME NEW sw, SweepMap(sw), NEW p, p \notin DOMAIN sw, NEW k \in {"max", "ack"}
    PROVE  /\ DOMAIN With(sw, p, NewSweep(k)) = DOMAIN sw \cup {p}
           /\ SweepMap(With(sw, p, NewSweep(k)))
           /\ LiveIn(With(sw, p, NewSweep(k)), k) = LiveIn(sw, k) \cup {p}
  <1> DEFINE new == NewSweep(k)
             sw2 == With(sw, p, new)
  <1>1. new \in SweepType /\ new.kind = k /\ new.cancelled = FALSE
    BY SMTT(60) DEF SweepType, NewSweep
  <1> HIDE DEF new
  <1>2. /\ DOMAIN sw2 = DOMAIN sw \cup {p} /\ sw2[p] = new
        /\ \A a \in DOMAIN sw : sw2[a] = sw[a]
        /\ SweepMap(sw2)
    BY <1>1, SMTT(60) DEF With, SweepMap
  <1> HIDE DEF sw2
  <1>3. LiveIn(sw2, k) = LiveIn(sw, k) \cup {p}
    BY <1>1, <1>2, SMTT(60) DEF LiveIn
  <1>4. QED
    BY <1>2, <1>3 DEF sw2, new

LEMMA WithOther ==
    ASSUME NEW sw, NEW p, p \notin DOMAIN sw, NEW v, NEW kind, v.kind # kind
    PROVE  LiveIn(With(sw, p, v), kind) = LiveIn(sw, kind)
  BY SMTT(60) DEF LiveIn, With

(* set_max_timeout_ns and set_ack_timeout_ns.  What cancel() finds through *)
(* a stale pointer is at worst the sweep that is about to be replaced, or  *)
(* the one just started, which is what misfired records.                   *)
LEMMA SetTimeoutsSweeps ==
    ASSUME SweepsInv, NEW c \in ConfigType, SetTimeouts(c), config' = c
    PROVE  SweepsInv'
  <1> DEFINE one == Cancelled(sweeps, task_max_timeout)
             Two(a) == IF c.max_timeout THEN With(one, a, NewSweep("max")) ELSE one
             Three(a) == Cancelled(Two(a), task_ack_timeout)
             Four(a, b) == IF c.ack_timeout THEN With(Three(a), b, NewSweep("ack"))
                           ELSE Three(a)
  <1>1. PICK a \in IF c.max_timeout THEN Alloc(DOMAIN one) ELSE {task_max_timeout} :
          \E b \in IF c.ack_timeout THEN Alloc(DOMAIN Three(a)) ELSE {task_ack_timeout} :
            /\ sweeps' = Four(a, b)
            /\ task_max_timeout' = a /\ task_ack_timeout' = b
            /\ misfired' = (c.max_timeout /\ a = task_ack_timeout)
    BY DEF SetTimeouts, NewSweep
  <1>2. PICK b \in IF c.ack_timeout THEN Alloc(DOMAIN Three(a)) ELSE {task_ack_timeout} :
            /\ sweeps' = Four(a, b)
            /\ task_max_timeout' = a /\ task_ack_timeout' = b
            /\ misfired' = (c.max_timeout /\ a = task_ack_timeout)
    BY <1>1
  <1>3. \A used, x : x \in Alloc(used) => x \notin used
    BY DEF Alloc
  <1>4. c.max_timeout \in BOOLEAN /\ c.ack_timeout \in BOOLEAN
    BY SMTT(60) DEF ConfigType
  <1>5. /\ SweepMap(one)
        /\ LiveIn(one, "max") = {} /\ LiveIn(one, "ack") \subseteq {task_ack_timeout}
    <2>1. /\ SweepMap(one)
          /\ LiveIn(one, "max") = LiveIn(sweeps, "max") \ {task_max_timeout}
          /\ LiveIn(one, "ack") = LiveIn(sweeps, "ack") \ {task_max_timeout}
      BY CancelledLive DEF SweepsInv
    <2>2. /\ LiveIn(sweeps, "max") \subseteq {task_max_timeout}
          /\ LiveIn(sweeps, "ack") \subseteq {task_ack_timeout}
      BY DEF SweepsInv
    <2> HIDE DEF one
    <2>3. QED
      BY <2>1, <2>2, SMTT(60)
  <1>6. c.max_timeout => a \notin DOMAIN one
    BY <1>3, ZenonT(60)
  <1> HIDE DEF one
  <1>7. /\ SweepMap(Two(a))
        /\ LiveIn(Two(a), "max") = IF c.max_timeout THEN {a} ELSE {}
        /\ LiveIn(Two(a), "ack") \subseteq {task_ack_timeout}
    <2>1. CASE c.max_timeout
      <3>1. Two(a) = With(one, a, NewSweep("max"))
        BY <2>1
      <3>2. /\ SweepMap(With(one, a, NewSweep("max")))
            /\ LiveIn(With(one, a, NewSweep("max")), "max") = LiveIn(one, "max") \cup {a}
            /\ LiveIn(With(one, a, NewSweep("max")), "ack") = LiveIn(one, "ack")
        <4>1. SweepMap(one) /\ a \notin DOMAIN one
          BY <1>5, <1>6, <2>1, ZenonT(60)
        <4>2. NewSweep("max").kind # "ack"
          BY DEF NewSweep
        <4>3. LiveIn(With(one, a, NewSweep("max")), "ack") = LiveIn(one, "ack")
          BY <4>1, <4>2, WithOther
        <4>4. QED
          BY <4>1, <4>3, WithLive, ZenonT(60)
      <3> HIDE DEF Two
      <3>3. QED
        BY <1>5, <2>1, <3>1, <3>2, ZenonT(60)
    <2>2. CASE ~c.max_timeout
      BY <1>5, <2>2
    <2>3. QED
      BY <1>4, <2>1, <2>2, ZenonT(60)
  <1> HIDE DEF Two
  <1>8. /\ SweepMap(Three(a))
        /\ LiveIn(Three(a), "max") = LiveIn(Two(a), "max") \ {task_ack_timeout}
        /\ LiveIn(Three(a), "ack") = {}
    <2>1. /\ SweepMap(Three(a))
          /\ LiveIn(Three(a), "max") = LiveIn(Two(a), "max") \ {task_ack_timeout}
          /\ LiveIn(Three(a), "ack") = LiveIn(Two(a), "ack") \ {task_ack_timeout}
      BY <1>7, CancelledLive
    <2> HIDE DEF Three
    <2>2. QED
      BY <1>7, <2>1
  <1>9. c.ack_timeout => b \notin DOMAIN Three(a)
    BY <1>3, ZenonT(60)
  <1> HIDE DEF Three
  <1>10. /\ SweepMap(Four(a, b))
         /\ LiveIn(Four(a, b), "max") = LiveIn(Three(a), "max")
         /\ LiveIn(Four(a, b), "ack") = IF c.ack_timeout THEN {b} ELSE {}
    <2>1. CASE c.ack_timeout
      <3>1. Four(a, b) = With(Three(a), b, NewSweep("ack"))
        BY <2>1, SMTT(60)
      <3>2. /\ SweepMap(With(Three(a), b, NewSweep("ack")))
            /\ LiveIn(With(Three(a), b, NewSweep("ack")), "ack") = LiveIn(Three(a), "ack") \cup {b}
            /\ LiveIn(With(Three(a), b, NewSweep("ack")), "max") = LiveIn(Three(a), "max")
        <4>1. SweepMap(Three(a)) /\ b \notin DOMAIN Three(a)
          BY <1>8, <1>9, <2>1
        <4>2. NewSweep("ack").kind # "max"
          BY DEF NewSweep
        <4>3. LiveIn(With(Three(a), b, NewSweep("ack")), "max") = LiveIn(Three(a), "max")
          BY <4>1, <4>2, WithOther
        <4>4. QED
          BY <4>1, <4>3, WithLive, ZenonT(60)
      <3> HIDE DEF Four
      <3>3. QED
        BY <1>8, <2>1, <3>1, <3>2, ZenonT(60)
    <2>2. CASE ~c.ack_timeout
      BY <1>8, <2>2, ZenonT(60)
    <2>3. QED
      BY <1>4, <2>1, <2>2, ZenonT(60)
  <1> HIDE DEF Four
  <1>11. LiveIn(sweeps', "max") = IF c.max_timeout /\ ~misfired' THEN {a} ELSE {}
    <2>1. LiveIn(sweeps', "max") = (IF c.max_timeout THEN {a} ELSE {}) \ {task_ack_timeout}
      BY <1>2, <1>7, <1>8, <1>10, ZenonT(60)
    <2>2. CASE c.max_timeout /\ a # task_ack_timeout
      BY <1>2, <2>1, <2>2, ZenonT(60)
    <2>3. CASE c.max_timeout /\ a = task_ack_timeout
      BY <1>2, <2>1, <2>3, ZenonT(60)
    <2>4. CASE ~c.max_timeout
      BY <1>2, <2>1, <2>4, ZenonT(60)
    <2>5. QED
      BY <1>4, <2>2, <2>3, <2>4, ZenonT(60)
  <1>12. QED
    BY <1>2, <1>4, <1>10, <1>11 DEF SweepsInv

(* Tasks::cancel(), and the destructor of Tasks. *)
LEMMA CancelBoth ==
    ASSUME SweepsInv, config' = NoConfig, misfired' = FALSE,
           sweeps' = Cancelled(Cancelled(sweeps, task_ack_timeout), task_max_timeout)
    PROVE  SweepsInv'
  <1> DEFINE one == Cancelled(sweeps, task_ack_timeout)
  <1>1. SweepMap(one) /\ \A kind : LiveIn(one, kind) = LiveIn(sweeps, kind) \ {task_ack_timeout}
    BY CancelledLive DEF SweepsInv
  <1> HIDE DEF one
  <1>2. SweepMap(sweeps') /\ \A kind : LiveIn(sweeps', kind) = LiveIn(one, kind) \ {task_max_timeout}
    BY <1>1, CancelledLive DEF one
  <1>3. LiveIn(sweeps', "max") = {} /\ LiveIn(sweeps', "ack") = {}
    BY <1>1, <1>2 DEF SweepsInv
  <1>4. ~NoConfig.max_timeout /\ ~NoConfig.ack_timeout
    BY DEF NoConfig
  <1>5. QED
    BY <1>2, <1>3, <1>4, ZenonT(60) DEF SweepsInv

LEMMA SweepsConfigWrite == CacheInv /\ SweepsInv /\ TaskConfigWrite => SweepsInv'
  <1> SUFFICES ASSUME CacheInv, SweepsInv, TaskConfigWrite PROVE SweepsInv'
    OBVIOUS
  <1> DEFINE w == Head(task_queue).writer
  <1>1. \/ UNCHANGED <<config, tasks>>
        \/ config' = writer[w].config /\ SetTimeouts(config')
        \/ Reset
    BY DEF TaskConfigWrite
  <1>2. CASE UNCHANGED <<config, tasks>>
    BY <1>2, SMTT(60) DEF SweepsInv, tasks
  <1>3. CASE config' = writer[w].config /\ SetTimeouts(config')
    <2>1. config' \in Config \cup {NoConfig}
      BY NextStep DEF Next, RunTask, CacheInv, TypeOK
    <2>2. config' \in ConfigType
      <3>1. NoConfig \in ConfigType
        BY SMTT(60) DEF NoConfig, ConfigType
      <3>2. QED
        BY <2>1, <3>1, ConfigAssumption, SMTT(60)
    <2>3. QED
      BY <1>3, <2>2, SetTimeoutsSweeps, ZenonT(60)
  <1>4. CASE Reset
    <2>1. CASE UNCHANGED <<config, tasks>>
      BY <2>1 DEF SweepsInv, tasks
    <2>2. CASE config' = NoConfig /\ CancelTasks
      BY <2>2, CancelBoth, ZenonT(60) DEF CancelTasks
    <2>3. QED
      BY <1>4, <2>1, <2>2, ZenonT(60) DEF Reset
  <1>5. QED
    BY <1>1, <1>2, <1>3, <1>4

LEMMA SweepsFree == ASSUME SweepsInv, NEW a, FreeSweep(a) PROVE SweepsInv'
  <1>1. /\ sweeps[a].cancelled
        /\ sweeps' = [b \in DOMAIN sweeps \ {a} |-> sweeps[b]]
        /\ UNCHANGED <<config, misfired, task_ack_timeout, task_max_timeout>>
    BY DEF FreeSweep
  <1>2. SweepMap(sweeps')
    BY <1>1, ZenonT(60) DEF SweepsInv, SweepMap
  <1>3. LiveIn(sweeps', "max") = LiveIn(sweeps, "max") /\ LiveIn(sweeps', "ack") = LiveIn(sweeps, "ack")
    BY <1>1, SMTT(60) DEF LiveIn
  <1>4. QED
    BY <1>1, <1>2, <1>3, ZenonT(60) DEF SweepsInv

LEMMA SweepsStep == CacheInv /\ SweepsInv /\ [Next]_vars => SweepsInv'
  <1> SUFFICES ASSUME CacheInv, SweepsInv, [Next]_vars PROVE SweepsInv'
    OBVIOUS
  <1>1. CASE UNCHANGED <<config, tasks>>
    BY <1>1 DEF SweepsInv, tasks
  <1>2. CASE TaskP4Change
    BY <1>2, CancelBoth, ZenonT(60) DEF TaskP4Change, NewDigest
  <1>3. ASSUME NEW a, Sweep(a, "max") \/ Sweep(a, "ack"), UNCHANGED sweeps PROVE SweepsInv'
    BY <1>3 DEF Sweep, SweepsInv
  <1>4. ASSUME NEW a \in Addr, RunSweep(a) PROVE SweepsInv'
    BY <1>3, <1>4, SweepsFree DEF RunSweep, TaskMaxTimeout, TaskAckTimeout
  <1>5. CASE RunTask
    BY <1>1, <1>2, <1>5, SweepsConfigWrite, ZenonT(60) DEF RunTask, learn, TaskAck, TaskRegisterCb
  <1>6. CASE UNCHANGED vars
    BY <1>1, <1>6, SMTT(60) DEF vars
  <1>7. QED
    BY <1>1, <1>4, <1>5, <1>6, ZenonT(60) DEF Next, digest_cb, ack, config_write, pi_learn_config_set, p4_change,
         pi_update_device_start, StreamChannelNext, stream_message_response_register_cb

LEMMA SweepsInit == Init => SweepsInv
  <1> SUFFICES ASSUME Init PROVE SweepsInv
    OBVIOUS
  <1>1. sweeps = NoFn /\ config = NoConfig /\ misfired = FALSE
    BY DEF Init
  <1>2. SweepMap(NoFn) /\ \A kind : LiveIn(NoFn, kind) = {}
    BY SMTT(60) DEF NoFn, SweepMap, LiveIn
  <1>3. ~NoConfig.max_timeout /\ ~NoConfig.ack_timeout
    BY DEF NoConfig
  <1>4. QED
    BY <1>1, <1>2, <1>3, ZenonT(60) DEF SweepsInv

-----------------------------------------------------------------------------
(* The queue, the writers and the target. *)

LEMMA PostQueue ==
    ASSUME task_queue \in Seq(Task), NEW t, Post(t)
    PROVE  /\ Len(task_queue) \in Nat /\ DOMAIN task_queue = 1..Len(task_queue)
           /\ DOMAIN task_queue' = DOMAIN task_queue \cup {Len(task_queue) + 1}
           /\ \A i \in DOMAIN task_queue : task_queue'[i] = task_queue[i] /\ i # Len(task_queue) + 1
           /\ task_queue'[Len(task_queue) + 1] = t
           /\ \A k : Posted(k)' <=> Posted(k) \/ t.kind = k
  <1>1. task_queue' = Append(task_queue, t)
    BY DEF Post
  <1>2. /\ Len(task_queue) \in Nat /\ DOMAIN task_queue = 1..Len(task_queue)
        /\ DOMAIN task_queue' = 1..(Len(task_queue) + 1)
        /\ \A i \in DOMAIN task_queue : task_queue'[i] = task_queue[i]
        /\ task_queue'[Len(task_queue) + 1] = t
    BY <1>1, SMTT(60)
  <1>3. /\ DOMAIN task_queue' = DOMAIN task_queue \cup {Len(task_queue) + 1}
        /\ \A i \in DOMAIN task_queue : i # Len(task_queue) + 1
    BY <1>2, SMTT(60)
  <1>4. \A k : Posted(k)' <=> Posted(k) \/ t.kind = k
    BY <1>2, <1>3 DEF Posted
  <1>5. QED
    BY <1>2, <1>3, <1>4

LEMMA RunQueue ==
    ASSUME task_queue \in Seq(Task), NEW kind, RunsTask(kind)
    PROVE  /\ Head(task_queue) = task_queue[1] /\ task_queue[1].kind = kind /\ 1 \in DOMAIN task_queue
           /\ \A i \in DOMAIN task_queue' : /\ i \in Nat \ {0} /\ i + 1 \in DOMAIN task_queue
                                            /\ task_queue'[i] = task_queue[i + 1]
           /\ \A i \in DOMAIN task_queue : i \in Nat \ {0} /\ task_queue[i] \in Task
           /\ Posted(kind)
           /\ \A k : Posted(k)' => Posted(k)
           /\ \A k : k # kind /\ Posted(k) => Posted(k)'
  <1>1. /\ Len(task_queue) \in Nat /\ Len(task_queue) > 0 /\ DOMAIN task_queue = 1..Len(task_queue)
        /\ Head(task_queue) = task_queue[1] /\ task_queue[1].kind = kind
        /\ task_queue' = Tail(task_queue)
    BY SMTT(60) DEF RunsTask
  <1>2. /\ DOMAIN task_queue' = 1..(Len(task_queue) - 1)
        /\ \A i \in 1..(Len(task_queue) - 1) : task_queue'[i] = task_queue[i + 1]
    BY <1>1, SMTT(60)
  <1>3. \A i \in DOMAIN task_queue' : /\ i \in Nat \ {0} /\ i + 1 \in DOMAIN task_queue
                                      /\ task_queue'[i] = task_queue[i + 1]
    BY <1>1, <1>2, SMTT(60)
  <1>4. 1 \in DOMAIN task_queue /\ \A i \in DOMAIN task_queue : i \in Nat \ {0} /\ task_queue[i] \in Task
    BY <1>1, SMTT(60)
  <1>5. Posted(kind)
    BY <1>1, <1>4, SMTT(60) DEF Posted
  <1>6. \A k : Posted(k)' => Posted(k)
    BY <1>3, SMTT(60) DEF Posted
  <1>7. ASSUME NEW k, k # kind, Posted(k) PROVE Posted(k)'
    <2>1. PICK i \in DOMAIN task_queue : task_queue[i].kind = k
      BY <1>7, ZenonT(60) DEF Posted
    <2>2. i # 1 /\ i - 1 \in DOMAIN task_queue' /\ (i - 1) + 1 = i
      BY <1>1, <1>2, <1>7, <2>1, SMTT(60)
    <2>3. QED
      BY <1>3, <2>1, <2>2, ZenonT(60) DEF Posted
  <1>8. QED
    BY <1>1, <1>3, <1>4, <1>5, <1>6, <1>7, ZenonT(60)

(* Running a task: the writers of the other tasks do not change. *)
LEMMA WritesRun ==
    ASSUME task_queue \in Seq(Task), WritesPosted, NEW kind, RunsTask(kind),
           \A v \in Writer : (kind = "config_write" => v # Head(task_queue).writer)
                               /\ writer[v].pc = "waiting" => writer'[v] = writer[v]
    PROVE  WritesPosted'
  <1>1. /\ Head(task_queue) = task_queue[1] /\ task_queue[1].kind = kind /\ 1 \in DOMAIN task_queue
        /\ \A i \in DOMAIN task_queue' : /\ i \in Nat \ {0} /\ i + 1 \in DOMAIN task_queue
                                         /\ task_queue'[i] = task_queue[i + 1]
        /\ \A i \in DOMAIN task_queue : i \in Nat \ {0} /\ task_queue[i] \in Task
    BY RunQueue, SMTT(60)
  <1>2. \A t \in Task : t.kind = "config_write" => t.writer \in Writer
    BY SMTT(60) DEF Task
  <1>3. \A i \in Writes' : i + 1 \in Writes /\ task_queue'[i] = task_queue[i + 1] /\ i \in Nat \ {0}
    BY <1>1, ZenonT(60) DEF Writes
  <1>4. kind = "config_write" => 1 \in Writes
    BY <1>1, ZenonT(60) DEF Writes
  <1>5. ASSUME NEW i \in Writes'
        PROVE  /\ writer'[task_queue'[i].writer] = writer[task_queue[i + 1].writer]
               /\ task_queue'[i].writer = task_queue[i + 1].writer
    <2>1. i + 1 \in Writes /\ i + 1 # 1 /\ task_queue'[i] = task_queue[i + 1]
      BY <1>3, SMTT(60)
    <2>2. task_queue[i + 1].writer \in Writer
      BY <1>1, <1>2, <2>1, ZenonT(60) DEF Writes
    <2>3. QED
      BY <1>1, <1>4, <2>1, <2>2, SMTT(60) DEF WritesPosted
  <1>6. ASSUME NEW i \in Writes'
        PROVE  /\ writer'[task_queue'[i].writer].pc = "waiting"
               /\ \A j \in Writes' : j # i => task_queue'[j].writer # task_queue'[i].writer
    BY <1>3, <1>5, SMTT(60) DEF WritesPosted
  <1>7. ASSUME NEW i \in Writes', writer'[task_queue'[i].writer].alone, NEW j \in DOMAIN task_queue', j > i
        PROVE  task_queue'[j].kind # "p4_change"
    <2>1. i + 1 \in Writes /\ writer[task_queue[i + 1].writer].alone
      BY <1>3, <1>5, <1>7, ZenonT(60)
    <2>2. j + 1 \in DOMAIN task_queue /\ task_queue'[j] = task_queue[j + 1] /\ j + 1 > i + 1
      BY <1>1, <1>3, <1>7, SMTT(60)
    <2>3. QED
      BY <2>1, <2>2, ZenonT(60) DEF WritesPosted
  <1>8. QED
    BY <1>6, <1>7, SMTT(60) DEF WritesPosted

(* Posting a task: those of the writers that wait stay as they were. *)
LEMMA WritesPost ==
    ASSUME task_queue \in Seq(Task), WritesPosted, NEW t, Post(t),
           \A v \in Writer : writer[v].pc = "waiting" =>
             /\ writer'[v].pc = "waiting"
             /\ writer'[v].alone => writer[v].alone /\ t.kind # "p4_change",
           t.kind = "config_write" => /\ writer[t.writer].pc # "waiting"
                                      /\ writer'[t.writer].pc = "waiting"
    PROVE  WritesPosted'
  <1> DEFINE n == Len(task_queue) + 1
  <1>1. /\ Len(task_queue) \in Nat /\ DOMAIN task_queue = 1..Len(task_queue)
        /\ DOMAIN task_queue' = DOMAIN task_queue \cup {n}
        /\ \A i \in DOMAIN task_queue : task_queue'[i] = task_queue[i] /\ i # n
        /\ task_queue'[n] = t
    BY PostQueue, ZenonT(60)
  <1>2. \A x \in Task : x.kind = "config_write" => x.writer \in Writer
    BY ZenonT(60) DEF Task
  <1>3. n \in Nat /\ \A i \in DOMAIN task_queue : task_queue[i] \in Task /\ i < n /\ i \in Nat
    BY <1>1, SMTT(60)
  <1> HIDE DEF n
  <1>4. \A i \in Writes : task_queue[i].writer \in Writer /\ task_queue'[i] = task_queue[i]
    BY <1>1, <1>2, <1>3, ZenonT(60) DEF Writes
  <1>5. \A i \in Writes' : i \in Writes \/ (i = n /\ t.kind = "config_write")
    BY <1>1, ZenonT(60) DEF Writes
  <1>6. \A i \in Writes' : writer'[task_queue'[i].writer].pc = "waiting"
    BY <1>1, <1>4, <1>5 DEF WritesPosted
  <1>7. \A i, j \in Writes' : j # i => task_queue'[j].writer # task_queue'[i].writer
    BY <1>1, <1>4, <1>5 DEF WritesPosted
  <1>8. ASSUME NEW i \in Writes', writer'[task_queue'[i].writer].alone, NEW j \in DOMAIN task_queue', j > i
        PROVE  task_queue'[j].kind # "p4_change"
    <2>1. i # n
      <3>1. j \in Nat /\ (j < n \/ j = n)
        BY <1>1, <1>3, ZenonT(60)
      <3>2. QED
        BY <1>3, <1>8, <3>1, SMTT(60)
    <2>2. /\ i \in Writes /\ writer[task_queue[i].writer].pc = "waiting"
          /\ writer[task_queue[i].writer].alone /\ t.kind # "p4_change"
      BY <1>4, <1>5, <1>8, <2>1, ZenonT(60) DEF WritesPosted
    <2>3. QED
      BY <1>1, <1>8, <2>2, ZenonT(60) DEF WritesPosted
  <1>9. QED
    BY <1>6, <1>7, <1>8, ZenonT(60) DEF WritesPosted

(* A step that leaves the writers and the configurations alone. *)
LEMMA WriterOutside ==
    ASSUME WriterInv, UNCHANGED <<writer, updating, hw_config, config, aborted, strayed>>, WritesPosted',
           Posted("p4_change")' <=> Posted("p4_change")
    PROVE  WriterInv'
  BY SMTT(60) DEF WriterInv, DeletesEmpty, AloneInv, TargetInv, Idle

LEMMA ConfigWriteTarget ==
    ASSUME CacheInv, WriterInv, NEW w \in Writer, NEW type \in {"INSERT", "MODIFY", "DELETE"},
           NEW c \in Config \cup {NoConfig}, type = "DELETE" => c = NoConfig, config_write(w, type, c)
    PROVE  WriterInv'
  <1> DEFINE t == [kind |-> "config_write", writer |-> w]
             new == [pc |-> "waiting", type |-> type, config |-> c,
                     alone |-> ~updating /\ \A u \in Writer : Idle(u)]
  <1>1. /\ writer' = [v \in Writer |-> IF v = w THEN new ELSE [writer[v] EXCEPT !.alone = Idle(v)]]
        /\ Idle(w) /\ Post(t)
        /\ UNCHANGED <<updating, hw_config, config, aborted, strayed>>
    BY SMTT(60) DEF config_write
  <1>2. /\ t.kind = "config_write" /\ t.writer = w
        /\ new.pc = "waiting" /\ new.type = type /\ new.config = c
        /\ new.alone <=> (~updating /\ \A u \in Writer : Idle(u))
    BY ZenonT(60)
  <1>3. \A v \in Writer \ {w} : /\ writer'[v].pc = writer[v].pc /\ writer'[v].type = writer[v].type
                                /\ writer'[v].config = writer[v].config
                                /\ writer'[v].alone <=> Idle(v)
    <2> HIDE DEF new
    <2>1. \A r \in WriterType, b \in BOOLEAN :
            LET q == [r EXCEPT !.alone = b] IN
            q.pc = r.pc /\ q.type = r.type /\ q.config = r.config /\ q.alone = b
      BY SMTT(60) DEF WriterType
    <2>2. QED
      BY <1>1, <2>1, WriterFacts, ZenonT(60) DEF CacheInv
  <1>4. writer'[w] = new
    BY <1>1
  <1> HIDE DEF new, t
  <1>5. WritesPosted'
    <2>1. \A v \in Writer : writer[v].pc = "waiting" =>
             /\ writer'[v].pc = "waiting"
             /\ writer'[v].alone => writer[v].alone /\ t.kind # "p4_change"
      BY <1>1, <1>2, <1>3, ZenonT(60) DEF Idle
    <2>2. QED
      BY <1>1, <1>2, <1>4, <2>1, WritesPost DEF CacheInv, DataType, WriterInv, Idle
  <1>6. Posted("p4_change")' <=> Posted("p4_change")
    BY <1>1, <1>2, PostQueue DEF CacheInv, DataType
  <1>7. DeletesEmpty'
    BY <1>2, <1>3, <1>4 DEF WriterInv, DeletesEmpty
  <1>8. AloneInv'
    <2>1. \A v \in Writer \ {w} : ~Idle(v)' => ~writer'[v].alone
      BY <1>3, SMTT(60) DEF Idle
    <2>2. writer'[w].alone => ~updating' /\ \A v \in Writer \ {w} : Idle(v)'
      BY <1>1, <1>2, <1>3, <1>4, SMTT(60) DEF Idle
    <2>3. writer'[w].pc # "configured"
      BY <1>2, <1>4, SMTT(60)
    <2>4. QED
      BY <2>1, <2>2, <2>3 DEF AloneInv
  <1>9. TargetInv'
    BY <1>1, <1>2, <1>3, <1>4, <1>6, SMTT(60) DEF WriterInv, TargetInv, Idle
  <1>10. QED
    BY <1>5, <1>7, <1>8, <1>9, ZenonT(60) DEF WriterInv

(* A Write reaches the manager: it is refused, or the manager is           *)
(* configured as it asks and the writer goes on to the target.             *)
LEMMA TaskConfigWriteTarget == CacheInv /\ WriterInv /\ TaskConfigWrite => WriterInv'
  <1> SUFFICES ASSUME CacheInv, WriterInv, TaskConfigWrite PROVE WriterInv'
    OBVIOUS
  <1> DEFINE w == Head(task_queue).writer
             refused == config.set = (writer[w].type = "INSERT")
             next == [writer[w] EXCEPT !.pc = "configured"]
  <1>1. /\ RunsTask("config_write")
        /\ writer' = [writer EXCEPT ![w] = IF refused THEN IdleWriter ELSE next]
        /\ \/ refused /\ UNCHANGED <<config, aborted>>
           \/ ~refused /\ config' = writer[w].config
           \/ ~refused /\ writer[w].type = "DELETE" /\ Reset
        /\ UNCHANGED <<updating, hw_config, strayed>>
    BY DEF TaskConfigWrite
  <1>2. task_queue \in Seq(Task) /\ writer \in [Writer -> WriterType]
    BY ZenonT(60) DEF CacheInv, DataType
  <1>3. /\ w \in Writer /\ writer[w] \in WriterType /\ writer[w].pc = "waiting" /\ 1 \in Writes
        /\ w = task_queue[1].writer
    <2>1. \A t \in Task : t.kind = "config_write" => t.writer \in Writer
      BY ZenonT(60) DEF Task
    <2>2. /\ Head(task_queue) = task_queue[1] /\ task_queue[1].kind = "config_write"
          /\ 1 \in DOMAIN task_queue /\ task_queue[1] \in Task
      BY <1>1, <1>2, RunQueue, ZenonT(60)
    <2>3. w \in Writer /\ 1 \in Writes /\ w = task_queue[1].writer
      BY <2>1, <2>2, ZenonT(60) DEF Writes
    <2>4. writer[w] \in WriterType
      BY <1>2, <2>3, ZenonT(60)
    <2>5. QED
      BY <2>3, <2>4, ZenonT(60) DEF WriterInv, WritesPosted
  <1>4. /\ next.pc = "configured" /\ next.type = writer[w].type /\ next.config = writer[w].config
        /\ next.alone = writer[w].alone
    <2> HIDE DEF w
    <2>1. QED
      BY <1>3, ZenonT(60) DEF WriterType
  <1>5. ~refused => aborted' \/ config' = writer[w].config
    BY <1>1, <1>3, ZenonT(60) DEF Reset, WriterInv, DeletesEmpty
  <1>6. refused => UNCHANGED <<config, aborted>>
    BY <1>1, SMTT(60)
  <1> HIDE DEF w, refused, next
  <1>7. \A v \in Writer \ {w} : writer'[v] = writer[v]
    BY <1>1, <1>2, ZenonT(60)
  <1>8. (refused /\ writer'[w] = IdleWriter) \/ (~refused /\ writer'[w] = next)
    BY <1>1, <1>2, <1>3, ZenonT(60)
  <1>9. /\ IdleWriter.pc = "idle" /\ IdleWriter.type = "INSERT"
    BY SMTT(60) DEF IdleWriter
  <1>10. WritesPosted'
    BY <1>1, <1>2, <1>7, WritesRun, ZenonT(60) DEF WriterInv, w
  <1>11. Posted("p4_change")' <=> Posted("p4_change")
    BY <1>1, <1>2, RunQueue, ZenonT(60)
  <1>12. writer[w].alone => ~Posted("p4_change")'
    <2>1. \A i \in DOMAIN task_queue' : /\ i \in Nat \ {0} /\ i + 1 \in DOMAIN task_queue
                                        /\ task_queue'[i] = task_queue[i + 1]
      BY <1>1, <1>2, RunQueue, ZenonT(60)
    <2>2. writer[w].alone => \A j \in DOMAIN task_queue : j > 1 => task_queue[j].kind # "p4_change"
      BY <1>3, SMTT(60) DEF WriterInv, WritesPosted
    <2>3. \A i \in DOMAIN task_queue' : i + 1 > 1
      BY <2>1, SMTT(60)
    <2>4. QED
      BY <2>1, <2>2, <2>3, ZenonT(60) DEF Posted
  <1>13. DeletesEmpty'
    BY <1>4, <1>7, <1>8, <1>9, ZenonT(60) DEF WriterInv, DeletesEmpty
  <1>14. AloneInv'
    <2>1. ~Idle(w)
      BY <1>3, ZenonT(60) DEF Idle
    <2>2. \A v \in Writer \ {w} : ~Idle(v) => ~writer[v].alone
      BY <1>3, <2>1, SMTT(60) DEF WriterInv, AloneInv
    <2>3. \A v \in Writer \ {w} : ~Idle(v)' => ~writer'[v].alone
      BY <1>7, <2>2, ZenonT(60) DEF Idle
    <2>4. CASE refused
      BY <1>8, <1>9, <2>3, <2>4, ZenonT(60) DEF AloneInv, Idle
    <2>5. CASE ~refused
      <3>1. writer[w].alone => ~updating' /\ \A v \in Writer \ {w} : Idle(v)'
        BY <1>1, <1>3, <1>7, <2>1, SMTT(60) DEF WriterInv, AloneInv, Idle
      <3>2. writer'[w].alone = writer[w].alone /\ writer'[w].config = writer[w].config
        BY <1>4, <1>8, <2>5, ZenonT(60)
      <3>3. QED
        BY <1>5, <1>12, <2>3, <2>5, <3>1, <3>2, ZenonT(60) DEF AloneInv
    <2>6. QED
      BY <2>4, <2>5, ZenonT(60)
  <1>15. TargetInv'
    <2>1. CASE refused
      <3>1. (\A v \in Writer : writer'[v].pc # "configured") => (\A v \in Writer : writer[v].pc # "configured")
        BY <1>3, <1>7, ZenonT(60)
      <3>2. QED
        BY <1>1, <1>6, <1>11, <2>1, <3>1, ZenonT(60) DEF WriterInv, TargetInv
    <2>2. CASE ~refused
      <3>1. ~ \A v \in Writer : writer'[v].pc # "configured"
        BY <1>3, <1>4, <1>8, <2>2, ZenonT(60)
      <3>2. QED
        BY <1>1, <1>11, <3>1, ZenonT(60) DEF WriterInv, TargetInv
    <2>3. QED
      BY <2>1, <2>2
  <1>16. QED
    BY <1>10, <1>13, <1>14, <1>15, ZenonT(60) DEF WriterInv

(* The target is told.  strayed is FALSE afterwards only if nothing        *)
(* overlapped, and then the manager is still configured as the Write asked. *)
LEMMA LearnConfigSetTarget ==
    ASSUME CacheInv, WriterInv, NEW w \in Writer, NEW ok \in BOOLEAN, pi_learn_config_set(w, ok)
    PROVE  WriterInv'
  <1>1. /\ ~aborted /\ writer[w].pc = "configured"
        /\ writer' = [writer EXCEPT ![w] = IdleWriter]
        /\ hw_config' = IF ok THEN pi_config(writer[w].config) ELSE hw_config
        /\ strayed' = (~ok \/ ~writer[w].alone)
        /\ UNCHANGED <<task_queue, updating, config, aborted>>
    BY ZenonT(60) DEF pi_learn_config_set
  <1>2. writer'[w] = IdleWriter /\ \A v \in Writer \ {w} : writer'[v] = writer[v]
    BY <1>1, SMTT(60) DEF CacheInv, DataType
  <1>3. IdleWriter.pc = "idle" /\ IdleWriter.type = "INSERT"
    BY ZenonT(60) DEF IdleWriter
  <1>4. WritesPosted'
    <2>1. \A t \in Task : t.kind = "config_write" => t.writer \in Writer
      BY SMTT(60) DEF Task
    <2>2. \A i \in Writes : task_queue[i].writer \in Writer
      BY <2>1, SMTT(60) DEF Writes, CacheInv, DataType
    <2>3. \A i \in Writes : writer'[task_queue[i].writer] = writer[task_queue[i].writer]
      BY <1>1, <1>2, <2>2, ZenonT(60) DEF WriterInv, WritesPosted
    <2>4. QED
      BY <1>1, <2>3, SMTT(60) DEF WriterInv, WritesPosted, Writes
  <1>5. Posted("p4_change")' <=> Posted("p4_change")
    BY <1>1, ZenonT(60) DEF Posted
  <1>6. DeletesEmpty'
    BY <1>2, <1>3, ZenonT(60) DEF WriterInv, DeletesEmpty
  <1>7. AloneInv'
    <2>1. Idle(w)' /\ \A v \in Writer \ {w} : Idle(v)' <=> Idle(v)
      BY <1>2, <1>3, ZenonT(60) DEF Idle
    <2>2. QED
      BY <1>1, <1>2, <1>5, <2>1, ZenonT(60) DEF WriterInv, AloneInv
  <1>8. TargetInv'
    <2>1. ~Idle(w)
      BY <1>1, SMTT(60) DEF Idle
    <2>2. ASSUME ~strayed'
          PROVE  /\ ~updating' /\ ~Posted("p4_change")' /\ hw_config' = pi_config(config')
      BY <1>1, <1>5, <2>1, <2>2, ZenonT(60) DEF WriterInv, AloneInv
    <2>3. strayed' \in BOOLEAN /\ updating' \in BOOLEAN
      BY <1>1 DEF WriterInv, TargetInv
    <2>4. QED
      BY <1>1, <1>5, <2>2, <2>3, ZenonT(60) DEF WriterInv, TargetInv
  <1>9. QED
    BY <1>4, <1>6, <1>7, <1>8, ZenonT(60) DEF WriterInv

(* A pipeline change, from the wiping of the target to the task it posts.  *)
LEMMA UpdateStartTarget == CacheInv /\ WriterInv /\ pi_update_device_start => WriterInv'
  <1> SUFFICES ASSUME CacheInv, WriterInv, pi_update_device_start PROVE WriterInv'
    OBVIOUS
  <1>1. /\ ~Posted("p4_change") /\ \A w \in Writer : Idle(w)
        /\ updating' = TRUE /\ hw_config' = pi_config(NoConfig) /\ strayed' = FALSE
        /\ UNCHANGED <<task_queue, writer, config, aborted>>
    BY ZenonT(60) DEF pi_update_device_start
  <1>2. WritesPosted' /\ DeletesEmpty'
    BY <1>1 DEF WriterInv, WritesPosted, Writes, DeletesEmpty
  <1>3. AloneInv'
    BY <1>1 DEF AloneInv, Idle
  <1>4. TargetInv'
    BY <1>1, ZenonT(60) DEF TargetInv, Posted
  <1>5. QED
    BY <1>2, <1>3, <1>4 DEF WriterInv

LEMMA P4ChangeTarget ==
    ASSUME CacheInv, WriterInv, NEW ok \in BOOLEAN, p4_change(ok) PROVE WriterInv'
  <1> DEFINE t == [kind |-> "p4_change"]
  <1>1. /\ updating /\ updating' = FALSE
        /\ IF ok THEN Post(t) ELSE UNCHANGED task_queue
        /\ writer' = [w \in Writer |-> [writer[w] EXCEPT !.alone = Idle(w)]]
        /\ strayed' = (strayed \/ ~ok)
        /\ UNCHANGED <<hw_config, config, aborted>>
    BY DEF p4_change
  <1>2. t.kind = "p4_change"
    OBVIOUS
  <1> HIDE DEF t
  <1>3. \A v \in Writer : /\ writer'[v].pc = writer[v].pc /\ writer'[v].type = writer[v].type
                          /\ writer'[v].config = writer[v].config
                          /\ writer'[v].alone <=> Idle(v)
    <2>1. \A r \in WriterType, b \in BOOLEAN :
            LET q == [r EXCEPT !.alone = b] IN
            q.pc = r.pc /\ q.type = r.type /\ q.config = r.config /\ q.alone = b
      BY SMTT(60) DEF WriterType
    <2>2. QED
      BY <1>1, <2>1, WriterFacts, ZenonT(60) DEF CacheInv
  <1>4. \A v \in Writer : writer[v].pc = "waiting" => writer'[v].pc = "waiting" /\ ~writer'[v].alone
    BY <1>3 DEF Idle
  <1>5. WritesPosted'
    <2>1. CASE ok
      <3>1. Post(t) /\ t.kind # "config_write" /\ task_queue \in Seq(Task)
        BY <1>1, <1>2, <2>1, ZenonT(60) DEF CacheInv, DataType
      <3>2. QED
        BY <1>4, <3>1, WritesPost DEF WriterInv
    <2>2. CASE ~ok
      <3>1. \A x \in Task : x.kind = "config_write" => x.writer \in Writer
        BY SMTT(60) DEF Task
      <3>2. \A i \in Writes : task_queue[i].writer \in Writer
        BY <3>1, SMTT(60) DEF Writes, CacheInv, DataType
      <3>3. UNCHANGED task_queue
        BY <1>1, <2>2, ZenonT(60)
      <3>4. QED
        BY <1>4, <3>2, <3>3, SMTT(60) DEF WriterInv, WritesPosted, Writes
    <2>3. QED
      BY <2>1, <2>2
  <1>6. DeletesEmpty'
    BY <1>3, ZenonT(60) DEF WriterInv, DeletesEmpty
  <1>7. AloneInv'
    BY <1>3 DEF AloneInv, Idle
  <1>8. TargetInv'
    <2>1. strayed' \in BOOLEAN /\ updating' \in BOOLEAN
      BY <1>1, ZenonT(60) DEF WriterInv, TargetInv
    <2>2. ~strayed' => hw_config' = pi_config(NoConfig) /\ Posted("p4_change")'
      BY <1>1, <1>2, PostQueue, ZenonT(60) DEF WriterInv, TargetInv, CacheInv, DataType
    <2>3. QED
      BY <1>1, <2>1, <2>2, ZenonT(60) DEF TargetInv
  <1>9. QED
    BY <1>5, <1>6, <1>7, <1>8 DEF WriterInv

(* The manager starts again: a Write that nothing overlapped is not there. *)
LEMMA TaskP4ChangeTarget == CacheInv /\ WriterInv /\ TaskP4Change => WriterInv'
  <1> SUFFICES ASSUME CacheInv, WriterInv, TaskP4Change PROVE WriterInv'
    OBVIOUS
  <1>1. /\ RunsTask("p4_change") /\ config' = NoConfig
        /\ UNCHANGED <<writer, updating, hw_config, aborted, strayed>>
    BY DEF TaskP4Change, NewDigest
  <1>2. task_queue \in Seq(Task)
    BY ZenonT(60) DEF CacheInv, DataType
  <1>3. WritesPosted'
    BY <1>1, <1>2, WritesRun, ZenonT(60) DEF WriterInv
  <1>4. Posted("p4_change") /\ (Posted("p4_change")' => Posted("p4_change"))
    BY <1>1, <1>2, RunQueue, ZenonT(60)
  <1>5. DeletesEmpty'
    BY <1>1, ZenonT(60) DEF WriterInv, DeletesEmpty
  <1>6. AloneInv'
    BY <1>1, <1>4, ZenonT(60) DEF WriterInv, AloneInv, Idle
  <1>7. TargetInv'
    BY <1>1, <1>4, ZenonT(60) DEF WriterInv, TargetInv
  <1>8. QED
    BY <1>3, <1>5, <1>6, <1>7 DEF WriterInv

(* Every other step posts or runs a task that is no concern of a writer,   *)
(* or leaves the queue alone.                                              *)
LEMMA PostTarget ==
    ASSUME CacheInv, WriterInv, UNCHANGED <<writer, updating, hw_config, config, aborted, strayed>>,
           NEW t, t.kind \notin {"config_write", "p4_change"}, Post(t)
    PROVE  WriterInv'
  <1>1. task_queue \in Seq(Task) /\ t.kind # "config_write" /\ t.kind # "p4_change"
    BY SMTT(60) DEF CacheInv, DataType
  <1>2. WritesPosted'
    BY <1>1, WritesPost, ZenonT(60) DEF WriterInv
  <1>3. Posted("p4_change")' <=> Posted("p4_change")
    BY <1>1, PostQueue, ZenonT(60)
  <1>4. QED
    BY <1>2, <1>3, WriterOutside, ZenonT(60)

LEMMA RunTarget ==
    ASSUME CacheInv, WriterInv, UNCHANGED <<writer, updating, hw_config, config, aborted, strayed>>,
           NEW kind \in {"new_digest", "ack", "register_cb"}, RunsTask(kind)
    PROVE  WriterInv'
  <1>1. task_queue \in Seq(Task) /\ kind # "p4_change"
    BY ZenonT(60) DEF CacheInv, DataType
  <1>2. WritesPosted'
    BY <1>1, WritesRun, SMTT(60) DEF WriterInv
  <1>3. Posted("p4_change")' <=> Posted("p4_change")
    BY <1>1, RunQueue, ZenonT(60)
  <1>4. QED
    BY <1>2, <1>3, WriterOutside, ZenonT(60)

LEMMA StillTarget ==
    ASSUME WriterInv, UNCHANGED <<task_queue, writer, updating, hw_config, config, aborted, strayed>>
    PROVE  WriterInv'
  <1>1. WritesPosted'
    <2>1. Writes' = Writes
      BY ZenonT(60) DEF Writes
    <2>2. QED
      BY <2>1, SMTT(60) DEF WriterInv, WritesPosted
  <1>2. Posted("p4_change")' <=> Posted("p4_change")
    BY ZenonT(60) DEF Posted
  <1>3. QED
    BY <1>1, <1>2, WriterOutside, ZenonT(60)

LEMMA WriterStep == CacheInv /\ WriterInv /\ [Next]_vars => WriterInv'
  <1> SUFFICES ASSUME CacheInv, WriterInv, [Next]_vars PROVE WriterInv'
    OBVIOUS
  <1>1. CASE UNCHANGED vars
    BY <1>1, StillTarget, ZenonT(60) DEF vars
  <1>2. ASSUME NEW m \in Msg, NEW samples \in SUBSET Sample, digest_cb(m, samples) PROVE WriterInv'
    <2>1. [kind |-> "new_digest", msg |-> m].kind \notin {"config_write", "p4_change"}
      BY ZenonT(60)
    <2>2. QED
      BY <1>2, <2>1, PostTarget, ZenonT(60) DEF digest_cb
  <1>3. ASSUME NEW l \in DOMAIN reported, ack(l) PROVE WriterInv'
    <2>1. [kind |-> "ack", list |-> l, request |-> request'].kind \notin {"config_write", "p4_change"}
      BY SMTT(60)
    <2>2. QED
      BY <1>3, <2>1, PostTarget, ZenonT(60) DEF ack
  <1>4. CASE stream_message_response_register_cb
    <2>1. [kind |-> "register_cb"].kind \notin {"config_write", "p4_change"}
      BY SMTT(60)
    <2>2. QED
      BY <1>4, <2>1, PostTarget, ZenonT(60) DEF stream_message_response_register_cb
  <1>5. CASE StreamChannelNext
    BY <1>5, StillTarget, ZenonT(60) DEF StreamChannelNext
  <1>6. CASE learn
    BY <1>6, RunTarget, ZenonT(60) DEF learn
  <1>7. CASE TaskAck
    BY <1>7, RunTarget, ZenonT(60) DEF TaskAck
  <1>8. CASE TaskRegisterCb
    BY <1>8, RunTarget, SMTT(60) DEF TaskRegisterCb
  <1>9. ASSUME NEW a \in Addr, RunSweep(a) PROVE WriterInv'
    BY <1>9, StillTarget, ZenonT(60) DEF RunSweep, TaskMaxTimeout, TaskAckTimeout, FreeSweep, Sweep
  <1>10. ASSUME NEW w \in Writer,
                \/ \E type \in {"INSERT", "MODIFY"}, c \in Config : config_write(w, type, c)
                \/ config_write(w, "DELETE", NoConfig)
                \/ \E ok \in BOOLEAN : pi_learn_config_set(w, ok)
         PROVE  WriterInv'
    BY <1>10, ConfigWriteTarget, LearnConfigSetTarget, SMTT(60)
  <1>11. CASE RunTask
    BY <1>6, <1>7, <1>8, <1>11, TaskConfigWriteTarget, TaskP4ChangeTarget, SMTT(60) DEF RunTask
  <1>12. CASE pi_update_device_start \/ \E ok \in BOOLEAN : p4_change(ok)
    BY <1>12, UpdateStartTarget, P4ChangeTarget, ZenonT(60)
  <1>13. QED
    BY <1>1, <1>2, <1>3, <1>4, <1>5, <1>9, <1>10, <1>11, <1>12, ZenonT(60) DEF Next

LEMMA WriterInit == Init => WriterInv
  <1> SUFFICES ASSUME Init PROVE WriterInv
    OBVIOUS
  <1>1. \A w \in Writer : writer[w] = IdleWriter
    BY SMTT(60) DEF Init
  <1>2. IdleWriter.pc = "idle" /\ IdleWriter.type = "INSERT"
    BY SMTT(60) DEF IdleWriter
  <1>3. Writes = {} /\ ~Posted("p4_change")
    BY SMTT(60) DEF Init, Writes, Posted
  <1>4. DeletesEmpty /\ AloneInv
    BY <1>1, <1>2, SMTT(60) DEF DeletesEmpty, AloneInv, Idle
  <1>5. TargetInv
    BY <1>3, ZenonT(60) DEF Init, TargetInv
  <1>6. QED
    BY <1>3, <1>4, <1>5, ZenonT(60) DEF WriterInv, WritesPosted

-----------------------------------------------------------------------------
(* A configuration takes effect: between tasks exactly the sweeps it asks  *)
(* for are alive, whatever addresses the allocator hands out again, but    *)
(* for the one that a stale pointer cancelled at its start; and once a     *)
(* Write that overlapped nothing has ended, the target is configured as    *)
(* the manager is, for any number of writers and pipeline changes.         *)
THEOREM ConfigInEffect == Spec => []ConfigTakesEffect
  <1>1. SweepsInv => SweepsFollowConfig
    <2> SUFFICES ASSUME SweepsInv PROVE SweepsFollowConfig
      OBVIOUS
    <2>1. Live("max") = LiveIn(sweeps, "max") /\ Live("ack") = LiveIn(sweeps, "ack")
      BY DEF Live, LiveIn
    <2>2. QED
      BY <2>1, ZenonT(60) DEF SweepsInv, SweepsFollowConfig
  <1>2. WriterInv => TargetFollows
    BY DEF WriterInv, TargetInv, TargetFollows, Idle
  <1>3. SweepsInv /\ WriterInv => ConfigTakesEffect
    BY <1>1, <1>2, SMTT(60) DEF ConfigTakesEffect
  <1>4. Init => CacheInv /\ SweepsInv /\ WriterInv
    BY InitStep, SweepsInit, WriterInit, SMTT(60)
  <1>5. CacheInv /\ SweepsInv /\ WriterInv /\ [Next]_vars => (CacheInv /\ SweepsInv /\ WriterInv)'
    BY NextStep, SweepsStep, WriterStep, SMTT(60)
  <1>6. QED
    BY <1>3, <1>4, <1>5, PTL DEF Spec
=============================================================================

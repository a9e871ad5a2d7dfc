--------------------------- MODULE TaskQueueProofs ---------------------------
(***************************************************************************)
(* TasksAreSafe holds for every set of tasks, delays, interval and size:   *)
(* the invariant, and the proof that every step keeps it.                  *)
(***************************************************************************)
EXTENDS TaskQueue, TLAPS

Busy == pc \in {"popped", "running"}
Entry == [task : Task, execute_tp : 0..Never]

(* Where the tasks are.  A task waits in the queue at most once, not while *)
(* it is being executed, and only after it was posted.                     *)
Placed ==
    /\ \A e \in queue : post[e.task].at = "done"
    /\ Busy => /\ task \in Entry
               /\ post[task.task].at = "done"
               /\ \A e \in queue : e.task # task.task

(* A task that was called and is not periodic does not come back.          *)
Spent ==
    \A t \in Task \ Periodic :
      runs[t] > 0 => /\ post[t].at = "done"
                     /\ \A e \in queue : e.task # t
                     /\ ~(pc = "popped" /\ task.task = t)

(* The inductive invariant.                                                *)
Inv ==
    /\ TasksAreSafe
    /\ post \in [Task -> [at : {"none", "read", "done"}, tp : 0..Never]]
    /\ stop_processing \in BOOLEAN
    /\ Placed
    /\ Spent

(* The constants make Never a time point later than those of every task.   *)
LEMMA NeverIsLater ==
    /\ Never \in Nat /\ MaxTime \in Nat /\ interval \in Nat
    /\ \A n \in 0..MaxTime : n + interval \in 0..Never
    /\ \A n \in 0..MaxTime, d \in Delay : n + d \in 0..Never
BY TaskQueueAssumption DEF TaskQueueAssumption, Never

(* The queue starts empty and its thread awake. *)
LEMMA InvInit == Init => Inv
<1> SUFFICES ASSUME Init PROVE Inv
  OBVIOUS
<1>1. TypeOK
  BY NeverIsLater DEF Init, TypeOK
<1>2. SleepsPastNoTask /\ CalledOnce
  BY DEF Init, SleepsPastNoTask, CalledOnce
<1>3. post \in [Task -> [at : {"none", "read", "done"}, tp : 0..Never]]
  BY NeverIsLater DEF Init
<1>4. Placed /\ Spent
  BY DEF Init, Placed, Spent, Busy
<1> QED
  BY <1>1, <1>2, <1>3, <1>4, ZenonT(60) DEF Init, Inv, TasksAreSafe

(* A task that enters the queue wakes the thread and was not in it before. *)
LEMMA PushKeeps ==
    ASSUME Inv, NEW t \in Task, post[t].at = "read",
           queue' = queue \cup {[task |-> t, execute_tp |-> post[t].tp]},
           pc' = Notified,
           post' = [post EXCEPT ![t].at = "done"],
           UNCHANGED <<now, stop_processing, wake_tp, task, cancelled, runs>>
    PROVE  Inv'
<1> DEFINE new == [task |-> t, execute_tp |-> post[t].tp]
<1>1. new \in Entry /\ new.task = t
  BY DEF Inv, Entry
<1>2. post' \in [Task -> [at : {"none", "read", "done"}, tp : 0..Never]]
      /\ post'[t].at = "done" /\ \A u \in Task \ {t} : post'[u] = post[u]
  BY DEF Inv
<1>3. \A e \in queue : e.task # t
  BY DEF Inv, Placed
<1>4. TypeOK'
  BY <1>1, <1>3 DEF Inv, TasksAreSafe, TypeOK, Notified, Entry
<1>5. SleepsPastNoTask' /\ CalledOnce'
  BY DEF Inv, TasksAreSafe, SleepsPastNoTask, CalledOnce, Notified, TypeOK
<1>6. Busy' <=> Busy
  BY DEF Notified, Busy
<1>7. Busy => task.task # t
  BY DEF Inv, Placed
<1>8. Placed'
  BY <1>1, <1>2, <1>3, <1>6, <1>7 DEF Inv, Placed, TasksAreSafe, TypeOK, Entry
<1>9. Spent'
  BY <1>1, <1>2, <1>3, <1>7 DEF Inv, Spent, Notified, Busy, TasksAreSafe, TypeOK
<1> QED
  BY <1>2, <1>4, <1>5, <1>8, <1>9 DEF Inv, TasksAreSafe

(* Every step of the callers keeps the invariant. *)
LEMMA CallersKeep ==
    ASSUME Inv, NEW t \in Task, ReadClock(t) \/ push_task(t) \/ push_task_or_drop(t) \/ cancel(t)
    PROVE  Inv'
<1>1. CASE ReadClock(t)
  <2>1. PICK d \in Delay : post' = [post EXCEPT ![t] = [at |-> "read", tp |-> now + d]]
    BY <1>1, ZenonT(60) DEF ReadClock
  <2>2. now + d \in 0..Never
    BY NeverIsLater DEF Inv, TasksAreSafe, TypeOK
  <2>3. post' \in [Task -> [at : {"none", "read", "done"}, tp : 0..Never]]
    BY <2>1, <2>2 DEF Inv
  <2>4. \A u \in Task : post[u].at = "done" => post'[u].at = "done"
    BY <1>1, <2>1 DEF Inv, ReadClock
  <2> QED
    BY <1>1, <2>3, <2>4 DEF ReadClock, Inv, TasksAreSafe, TypeOK, SleepsPastNoTask, CalledOnce,
       Placed, Spent, Busy, Entry
<1>2. CASE push_task(t)
  BY <1>2, PushKeeps, ZenonT(60) DEF push_task
<1>3. CASE push_task_or_drop(t)
  <2>1. CASE Cardinality(queue) >= max_size
    <3>1. post' \in [Task -> [at : {"none", "read", "done"}, tp : 0..Never]]
      BY <1>3 DEF Inv, push_task_or_drop
    <3>2. \A u \in Task : post[u].at = "done" => post'[u].at = "done"
      BY <1>3 DEF Inv, push_task_or_drop
    <3> QED
      BY <1>3, <2>1, <3>1, <3>2 DEF push_task_or_drop, Inv, TasksAreSafe, TypeOK,
         SleepsPastNoTask, CalledOnce, Placed, Spent, Busy, Entry
  <2>2. CASE ~(Cardinality(queue) >= max_size)
    BY <1>3, <2>2, PushKeeps, ZenonT(60) DEF push_task_or_drop
  <2> QED
    BY <2>1, <2>2, SMTT(60)
<1>4. CASE cancel(t)
  BY <1>4 DEF cancel, Inv, TasksAreSafe, TypeOK, SleepsPastNoTask, CalledOnce, Placed, Spent, Busy
<1> QED
  BY <1>1, <1>2, <1>3, <1>4, SMTT(60)

(* Every step of the thread of the queue keeps the invariant. *)
LEMMA ExecuteKeeps ==
    ASSUME Inv, Execute
    PROVE  Inv'
<1>1. CASE Exit
  BY <1>1 DEF Exit, Inv, TasksAreSafe, TypeOK, SleepsPastNoTask, CalledOnce, Placed, Spent, Busy
<1>2. CASE Sleep
  <2>1. wake_tp' \in 0..Never /\ \A e \in queue : wake_tp' <= e.execute_tp
    BY <1>2, NeverIsLater DEF Sleep, Top, Inv, TasksAreSafe, TypeOK
  <2> QED
    BY <1>2, <2>1 DEF Sleep, Inv, TasksAreSafe, TypeOK, SleepsPastNoTask, CalledOnce, Placed,
       Spent, Busy
<1>3. CASE TimeOut
  BY <1>3 DEF TimeOut, Inv, TasksAreSafe, TypeOK, SleepsPastNoTask, CalledOnce, Placed, Spent, Busy
<1>4. CASE Pop
  <2>1. PICK e \in queue : queue' = queue \ {e} /\ task' = e
    BY <1>4 DEF Pop, Top
  <2>2. e \in Entry /\ post[e.task].at = "done" /\ \A f \in queue \ {e} : f.task # e.task
    BY DEF Inv, Placed, TasksAreSafe, TypeOK, Entry
  <2>3. pc' = "popped" /\ UNCHANGED <<now, stop_processing, wake_tp, post, cancelled, runs>>
    BY <1>4 DEF Pop
  <2>4. TasksAreSafe'
    BY <2>1, <2>3, SMTT(60) DEF Inv, TasksAreSafe, TypeOK, SleepsPastNoTask, CalledOnce
  <2>5. Placed' /\ Spent'
    BY <2>1, <2>2, <2>3 DEF Inv, Placed, Spent, Busy, TasksAreSafe, TypeOK
  <2> QED
    BY <2>3, <2>4, <2>5 DEF Inv
<1>5. CASE Call
  <2>1. CASE task.task \in cancelled
    BY <1>5, <2>1 DEF Call, Inv, TasksAreSafe, TypeOK, SleepsPastNoTask, CalledOnce, Placed, Spent,
       Busy
  <2>2. CASE task.task \notin cancelled
    <3>1. task.task \in Task /\ task \in Entry
      BY <1>5 DEF Call, Inv, Placed, Busy, Entry
    <3>2. runs' = [runs EXCEPT ![task.task] = IF @ < 2 THEN @ + 1 ELSE @]
          /\ pc' = "running" /\ task' = task
          /\ UNCHANGED <<now, queue, stop_processing, wake_tp, post, cancelled>>
      BY <1>5, <2>2, SMTT(60) DEF Call
    <3>3. /\ runs' \in [Task -> 0..2]
          /\ \A t \in Task \ {task.task} : runs'[t] = runs[t]
          /\ task.task \notin Periodic => runs'[task.task] = 1
      BY <1>5, <3>1, <3>2 DEF Call, Inv, Spent, TasksAreSafe, TypeOK
    <3>4. TasksAreSafe'
      <4>1. TypeOK'
        BY <3>2, <3>3 DEF Inv, TasksAreSafe, TypeOK
      <4>2. SleepsPastNoTask'
        BY <3>2 DEF SleepsPastNoTask
      <4>3. CalledOnce'
        BY <3>1, <3>3, SMTT(60) DEF Inv, TasksAreSafe, CalledOnce
      <4> QED
        BY <4>1, <4>2, <4>3, SMTT(60) DEF TasksAreSafe
    <3>5. Placed'
      BY <1>5, <3>1, <3>2, SMTT(60) DEF Call, Inv, Placed, Busy
    <3>6. Spent'
      BY <1>5, <3>1, <3>2, <3>3 DEF Call, Inv, Placed, Spent, Busy
    <3> QED
      BY <3>2, <3>4, <3>5, <3>6 DEF Inv
  <2> QED
    BY <2>1, <2>2, SMTT(60)
<1>6. CASE Return
  <2>1. task \in Entry /\ task.task \in Task /\ post[task.task].at = "done"
        /\ \A e \in queue : e.task # task.task
    BY <1>6 DEF Return, Inv, Placed, Busy, Entry
  <2>2. pc' = "awake" /\ UNCHANGED <<now, stop_processing, wake_tp, post, cancelled, runs>>
    BY <1>6 DEF Return
  <2>3. CASE task.task \in Periodic
    <3> DEFINE new == [task |-> task.task, execute_tp |-> now + interval]
    <3>1. queue' = queue \cup {new}
      BY <1>6, <2>3 DEF Return
    <3>2. new \in Entry /\ new.task = task.task
      BY <2>1, NeverIsLater, ZenonT(60) DEF Entry, Inv, TasksAreSafe, TypeOK
    <3>3. TasksAreSafe'
      BY <2>1, <2>2, <3>1, <3>2 DEF Inv, TasksAreSafe, TypeOK, SleepsPastNoTask, CalledOnce, Entry
    <3>4. Placed' /\ Spent'
      BY <2>1, <2>2, <2>3, <3>1, <3>2 DEF Inv, Placed, Spent, Busy
    <3> QED
      BY <2>2, <3>3, <3>4 DEF Inv
  <2>4. CASE task.task \notin Periodic
    BY <1>6, <2>2, <2>4 DEF Return, Inv, TasksAreSafe, TypeOK, SleepsPastNoTask, CalledOnce,
       Placed, Spent, Busy
  <2> QED
    BY <2>3, <2>4
<1> QED
  BY <1>1, <1>2, <1>3, <1>4, <1>5, <1>6 DEF Execute

(* However many threads post, cancel and stop, and whatever the delays:    *)
(* the thread of task_queue.h sleeps past no task, calls no one-shot task  *)
(* twice, and no task is ever queued twice.                                *)
THEOREM QueueIsSafe == Spec => []TasksAreSafe
<1>1. ASSUME Inv, [Next]_vars PROVE Inv'
  <2>1. CASE Tick
    BY <1>1, <2>1, NeverIsLater DEF Tick, Inv, TasksAreSafe, TypeOK, SleepsPastNoTask, CalledOnce,
       Placed, Spent, Busy
  <2>2. CASE \E t \in Task : ReadClock(t) \/ push_task(t) \/ push_task_or_drop(t) \/ cancel(t)
    BY <1>1, <2>2, CallersKeep, SMTT(60)
  <2>3. CASE stop
    BY <1>1, <2>3 DEF stop, Notified, Inv, TasksAreSafe, TypeOK, SleepsPastNoTask, CalledOnce,
       Placed, Spent, Busy
  <2>4. CASE Execute
    BY <1>1, <2>4, ExecuteKeeps, SMTT(60)
  <2>5. CASE UNCHANGED vars
    BY <1>1, <2>5 DEF vars, Inv, TasksAreSafe, TypeOK, SleepsPastNoTask, CalledOnce, Placed, Spent,
       Busy
  <2> QED
    BY <1>1, <2>1, <2>2, <2>3, <2>4, <2>5, SMTT(60) DEF Next
<1>2. Inv => TasksAreSafe
  BY DEF Inv
<1> QED
  BY InvInit, <1>1, <1>2, PTL DEF Spec
=============================================================================

------------------------------ MODULE TaskQueue ------------------------------
(***************************************************************************)
(* proto/frontend/src/task_queue.h: the queue behind the watch port, the   *)
(* digest and the idle timeout threads.  Threads post tasks with the time  *)
(* at which they are due, one thread executes them, stop() ends it.        *)
(* Time is counted in ticks of the clock; several things may happen in one *)
(* tick.                                                                   *)
(***************************************************************************)
EXTENDS Integers, FiniteSets

CONSTANTS
    OneShot,    \* tasks posted with execute_task / _in / _at
    Droppable,  \* tasks posted with execute_task_or_drop
    Periodic,   \* cancellable tasks posted with execute_periodic_task
    Delay,      \* the delays a caller may ask for
    MaxDelay,   \* the longest a duration can express
    interval,   \* of the periodic tasks
    max_size,   \* of execute_task_or_drop
    MaxTime     \* bound on the clock

Task == OneShot \cup Droppable \cup Periodic
Never == MaxTime + interval + MaxDelay + 1  \* later than every time point

ASSUME TaskQueueAssumption ==
    /\ MaxDelay \in Nat /\ Delay \subseteq 0..MaxDelay /\ 0 \in Delay
    /\ interval \in Nat \ {0} /\ max_size \in Nat /\ MaxTime \in Nat

VARIABLES
    now,              \* Clock::now()
    queue,            \* set of [task, execute_tp]
    stop_processing,
    pc,               \* of the thread in execute(): awake, asleep, popped, running, exited
    wake_tp,          \* when the sleeping thread wakes by itself
    task,             \* the entry that was popped and is being executed
    post,             \* post[t]: how far the caller who posts t is, and the time it read
    cancelled,        \* tasks on which cancel() was called
    runs              \* runs[t]: how often t was called, up to 2

vars == <<now, queue, stop_processing, pc, wake_tp, task, post, cancelled, runs>>

None == [task |-> "none", execute_tp |-> 0]

Init ==
    /\ now = 0 /\ queue = {} /\ stop_processing = FALSE
    /\ pc = "awake" /\ wake_tp = Never /\ task = None
    /\ post = [t \in Task |-> [at |-> "none", tp |-> 0]]
    /\ cancelled = {} /\ runs = [t \in Task |-> 0]
-----------------------------------------------------------------------------
Tick ==
    /\ now < MaxTime
    /\ now' = now + 1
    /\ UNCHANGED <<queue, stop_processing, pc, wake_tp, task, post, cancelled, runs>>

(* The caller reads the clock before it takes the mutex. *)
ReadClock(t) ==
    /\ post[t].at = "none"
    /\ \E d \in Delay : post' = [post EXCEPT ![t] = [at |-> "read", tp |-> now + d]]
    /\ UNCHANGED <<now, queue, stop_processing, pc, wake_tp, task, cancelled, runs>>

(* cv.notify_one *)
Notified == IF pc = "asleep" THEN "awake" ELSE pc

(* Mutant: the thread is only woken when it has nothing to wait for. *)
push_task_if_empty(t) ==
    /\ post[t].at = "read"
    /\ queue' = queue \cup {[task |-> t, execute_tp |-> post[t].tp]}
    /\ pc' = IF queue = {} THEN Notified ELSE pc
    /\ post' = [post EXCEPT ![t].at = "done"]
    /\ UNCHANGED <<now, stop_processing, wake_tp, task, cancelled, runs>>

push_task(t) ==
    /\ t \in OneShot \cup Periodic
    /\ post[t].at = "read"
    /\ queue' = queue \cup {[task |-> t, execute_tp |-> post[t].tp]}
    /\ pc' = Notified
    /\ post' = [post EXCEPT ![t].at = "done"]
    /\ UNCHANGED <<now, stop_processing, wake_tp, task, cancelled, runs>>

push_task_or_drop(t) ==
    /\ t \in Droppable
    /\ post[t].at = "read"
    /\ IF Cardinality(queue) >= max_size
       THEN UNCHANGED <<queue, pc>>
       ELSE queue' = queue \cup {[task |-> t, execute_tp |-> post[t].tp]} /\ pc' = Notified
    /\ post' = [post EXCEPT ![t].at = "done"]
    /\ UNCHANGED <<now, stop_processing, wake_tp, task, cancelled, runs>>

cancel(t) ==
    /\ t \in Periodic \ cancelled
    /\ cancelled' = cancelled \cup {t}
    /\ UNCHANGED <<now, queue, stop_processing, pc, wake_tp, task, post, runs>>

(* Mutant: the sleeping thread is not told. *)
stop_quiet ==
    /\ ~stop_processing
    /\ stop_processing' = TRUE
    /\ UNCHANGED <<now, queue, pc, wake_tp, task, post, cancelled, runs>>

stop ==
    /\ ~stop_processing
    /\ stop_processing' = TRUE
    /\ pc' = Notified
    /\ UNCHANGED <<now, queue, wake_tp, task, post, cancelled, runs>>
-----------------------------------------------------------------------------
(* The thread in execute(), with the mutex. *)
Top == {e \in queue : \A other \in queue : e.execute_tp <= other.execute_tp}

Exit ==
    /\ pc = "awake" /\ stop_processing
    /\ pc' = "exited"
    /\ UNCHANGED <<now, queue, stop_processing, wake_tp, task, post, cancelled, runs>>

(* cv.wait, or cv.wait_until the next task is due. *)
Sleep ==
    /\ pc = "awake" /\ ~stop_processing
    /\ \/ queue = {} /\ wake_tp' = Never
       \/ \E e \in Top : e.execute_tp > now /\ wake_tp' = e.execute_tp
    /\ pc' = "asleep"
    /\ UNCHANGED <<now, queue, stop_processing, task, post, cancelled, runs>>

TimeOut ==
    /\ pc = "asleep" /\ wake_tp <= now
    /\ pc' = "awake"
    /\ UNCHANGED <<now, queue, stop_processing, wake_tp, task, post, cancelled, runs>>

(* Equal time points leave the priority queue in any order. *)
Pop ==
    /\ pc = "awake" /\ ~stop_processing
    /\ \E e \in Top :
         /\ e.execute_tp <= now
         /\ queue' = queue \ {e}
         /\ task' = e
    /\ pc' = "popped"
    /\ UNCHANGED <<now, stop_processing, wake_tp, post, cancelled, runs>>

(* A task that is not cancelled is called, without the mutex. *)
Call ==
    /\ pc = "popped"
    /\ IF task.task \in cancelled
       THEN pc' = "awake" /\ task' = None /\ UNCHANGED runs
       ELSE /\ runs' = [runs EXCEPT ![task.task] = IF @ < 2 THEN @ + 1 ELSE @]
            /\ pc' = "running"
            /\ UNCHANGED task
    /\ UNCHANGED <<now, queue, stop_processing, wake_tp, post, cancelled>>

(* A PeriodicTask posts itself again when the user's task returns. *)
Return ==
    /\ pc = "running"
    /\ pc' = "awake"
    /\ queue' = IF task.task \in Periodic
                THEN queue \cup {[task |-> task.task, execute_tp |-> now + interval]}
                ELSE queue
    /\ task' = None
    /\ UNCHANGED <<now, stop_processing, wake_tp, post, cancelled, runs>>
-----------------------------------------------------------------------------
Execute == Exit \/ Sleep \/ TimeOut \/ Pop \/ Call \/ Return

Next ==
    \/ Tick
    \/ \E t \in Task : ReadClock(t) \/ push_task(t) \/ push_task_or_drop(t) \/ cancel(t)
    \/ stop
    \/ Execute

Spec == Init /\ [][Next]_vars

(* Time passes, the thread runs, and a call to push_task ends. *)
FairSpec ==
    /\ Spec
    /\ WF_vars(Execute) /\ WF_vars(Tick)
    /\ \A t \in Task : WF_vars(push_task(t) \/ push_task_or_drop(t))
-----------------------------------------------------------------------------
(* Every variable keeps its type, and a task is queued at most once. *)
TypeOK ==
    /\ now \in 0..MaxTime /\ wake_tp \in 0..Never
    /\ pc \in {"awake", "asleep", "popped", "running", "exited"}
    /\ queue \subseteq [task : Task, execute_tp : 0..Never]
    /\ \A e1, e2 \in queue : e1.task = e2.task => e1 = e2
    /\ cancelled \subseteq Periodic
    /\ runs \in [Task -> 0..2]

(* The sleeping thread sleeps past no task, although tasks with earlier    *)
(* time points are posted while it waits for a later one.                  *)
SleepsPastNoTask ==
    pc = "asleep" => ~stop_processing /\ \A e \in queue : wake_tp <= e.execute_tp

(* A task that is not periodic is called at most once.                     *)
CalledOnce == \A t \in Task \ Periodic : runs[t] <= 1

(* What threads post is neither slept past nor called twice, however they  *)
(* interleave with the thread of the queue; the variables keep their       *)
(* types.                                                                  *)
TasksAreSafe == TypeOK /\ SleepsPastNoTask /\ CalledOnce

(* Every task that falls due is called, unless the queue is stopped first, *)
(* however periodic tasks and later posts interleave.                      *)
DueIsCalled ==
    \A t \in OneShot :
        (\E e \in queue : e.task = t /\ e.execute_tp <= MaxTime)
            ~> (runs[t] > 0 \/ stop_processing)

(* stop() makes execute() return, so that the join of the owner's          *)
(* destructor ends, whatever is left in the queue.                         *)
StopEndsExecute == stop_processing ~> pc = "exited"

(* The thread of the queue never stops short: what falls due is called,    *)
(* and a stop ends it.                                                     *)
ExecuteProgresses == DueIsCalled /\ StopEndsExecute
=============================================================================

------------------------------ MODULE DigestMgr ------------------------------
(***************************************************************************)
(* proto/frontend/src/digest_mgr.cpp for one digest: learn messages of the *)
(* target are gathered in lists that go to the client, and a cache keeps a *)
(* sample from being reported again until its list is acked or expires.    *)
(*                                                                         *)
(* All of the state belongs to the thread of the task queue: the target,   *)
(* the stream and the RPCs post tasks, which it runs one at a time and in  *)
(* order; two periodic sweeps run between them.  The cache and the lists   *)
(* point into the memory of the messages, and the manager points to sweep  *)
(* tasks that the queue owns and frees.                                    *)
(***************************************************************************)
EXTENDS Naturals, Sequences, FiniteSets, FiniteSetsExt

CONSTANTS
    Sample,         \* what the target learns
    MaxWriters,     \* bound on the threads of Write RPCs with a DigestEntry
    Addr,           \* addresses of sweep tasks: a set of numbers
    Config,         \* the configurations that are written
    MaxQueue,       \* bound on the tasks that are posted at a time
    MaxMsgs,        \* bound on pi_learn_msg_t objects of the target
    MaxInputs       \* bound on learn messages, stream messages, Writes and pipeline changes

(* A timeout is zero or not; max_list_size 0 is no limit. *)
ConfigType == [set : BOOLEAN, max_timeout : BOOLEAN, ack_timeout : BOOLEAN, max_list_size : Nat]
NoConfig == [set |-> FALSE, max_timeout |-> FALSE, ack_timeout |-> FALSE, max_list_size |-> 0]

ASSUME ConfigAssumption == Config \subseteq {c \in ConfigType : c.set}
ASSUME AddrAssumption == Addr \subseteq Nat \ {0}

Msg == 1..MaxMsgs
Writer == 1..MaxWriters

(* What pi_learn_config_set gives the target: not the ack timeout. *)
pi_config(c) == [set |-> c.set, max_timeout |-> c.max_timeout, max_list_size |-> c.max_list_size]

VARIABLES
    msg,            \* of each message: where it is, and its samples
    task_queue,
    request,        \* serial number of the message the StreamChannel loop read last
    writer,         \* the Write RPCs
    updating,       \* pipeline_config_set has wiped the target, p4_change is to come
    hw_config,      \* the configuration the target was given
    cb,             \* the stream callback is registered
    \* DigestData
    config, cache, list_id_to_data, data, list_id, current_list_data, timeout_bit,
    \* Tasks, and the sweep tasks in the queue by their address
    task_ack_timeout, task_max_timeout, sweeps,
    aborted,        \* assert(cache.empty()) failed
    reported,       \* history: the samples of each list the client was sent
    strayed,        \* history: the last config_write overlapped another, or failed on
                    \* the target; or DeviceMgr ignored that p4_change failed
    misfired,       \* history: a stale pointer cancelled the sweep just started
    inputs

digest == <<cache, list_id_to_data, data, list_id, current_list_data, timeout_bit>>
tasks == <<task_ack_timeout, task_max_timeout, sweeps, misfired>>
vars == <<msg, task_queue, request, writer, updating, hw_config, cb, config, digest, tasks, aborted,
          reported, strayed, inputs>>

Null == 0
NoFn == [x \in {} |-> 0]
With(f, x, v) == [y \in DOMAIN f \cup {x} |-> IF y = x THEN v ELSE f[y]]
EmptyList == [samples |-> {}, msgs |-> {}]
IdleWriter == [pc |-> "idle", type |-> "INSERT", config |-> NoConfig, alone |-> TRUE]
Idle(w) == writer[w].pc = "idle"
Posted(kind) == \E i \in DOMAIN task_queue : task_queue[i].kind = kind

NewDigest ==
    /\ config' = NoConfig /\ cache' = NoFn /\ list_id_to_data' = NoFn
    /\ data' = {} /\ list_id' = 1 /\ current_list_data' = EmptyList /\ timeout_bit' = FALSE

(* The first pipeline was set, the callback not yet registered. *)
Init ==
    /\ msg = [m \in Msg |-> [at |-> "target", samples |-> {}]]
    /\ task_queue = <<>> /\ request = 0
    /\ writer = [w \in Writer |-> IdleWriter]
    /\ updating = FALSE /\ hw_config = pi_config(NoConfig) /\ cb = FALSE
    /\ config = NoConfig /\ cache = NoFn /\ list_id_to_data = NoFn
    /\ data = {} /\ list_id = 1 /\ current_list_data = EmptyList /\ timeout_bit = FALSE
    /\ task_ack_timeout = Null /\ task_max_timeout = Null /\ sweeps = NoFn
    /\ aborted = FALSE /\ reported = NoFn /\ strayed = FALSE /\ misfired = FALSE
    /\ inputs = 0

Post(task) ==
    /\ Len(task_queue) < MaxQueue
    /\ task_queue' = Append(task_queue, task)
Input == ~aborted /\ inputs < MaxInputs /\ inputs' = inputs + 1
RunsTask(kind) ==
    /\ ~aborted /\ task_queue # <<>> /\ Head(task_queue).kind = kind
    /\ task_queue' = Tail(task_queue)
-----------------------------------------------------------------------------
(* The target has learned samples: digest_cb posts TaskNewDigest. *)
digest_cb(m, samples) ==
    /\ Input /\ msg[m].at = "target" /\ samples # {}
    /\ \A k \in 1..(m - 1) : msg[k].at # "target"   \* numbered as they arrive
    /\ msg' = [msg EXCEPT ![m] = [at |-> "queue", samples |-> samples]]
    /\ Post([kind |-> "new_digest", msg |-> m])
    /\ UNCHANGED <<request, writer, updating, hw_config, cb, config, digest, tasks, aborted, reported,
                   strayed>>

pi_learn_msg_done(ms) == msg' = [m \in Msg |-> IF m \in ms THEN [msg[m] EXCEPT !.at = "done"]
                                               ELSE msg[m]]

(* Mutant: the list that was sent stays current. *)
send_digest_keep(samples, list) ==
    /\ reported' = With(reported, list_id, samples)
    /\ list_id_to_data' = With(list_id_to_data, list_id,
                               [samples |-> list.samples, msgs |-> list.msgs, timeout_bit |-> FALSE])
    /\ current_list_data' = list
    /\ list_id' = list_id + 1
    /\ data' = {} /\ timeout_bit' = FALSE

(* send_digest, with the list that is current when it is called. *)
send_digest(samples, list) ==
    /\ reported' = IF cb THEN With(reported, list_id, samples) ELSE reported
    /\ list_id_to_data' = IF list.samples = {} THEN list_id_to_data
                          ELSE With(list_id_to_data, list_id,
                                    [samples |-> list.samples, msgs |-> list.msgs,
                                     timeout_bit |-> FALSE])
    /\ current_list_data' = EmptyList
    /\ list_id' = list_id + 1
    /\ data' = {} /\ timeout_bit' = FALSE

(* TaskNewDigest: learn(). *)
learn ==
    LET m == Head(task_queue).msg
        fresh == IF config.ack_timeout THEN msg[m].samples \ DOMAIN cache ELSE {}
        added == IF config.ack_timeout THEN fresh ELSE msg[m].samples
        list == [samples |-> current_list_data.samples \cup fresh,
                 msgs |-> current_list_data.msgs \cup (IF fresh # {} THEN {m} ELSE {})]
        full == \/ config.max_list_size # 0
                   /\ Cardinality(list.samples) >= config.max_list_size
                \/ ~config.max_timeout
    IN
    /\ RunsTask("new_digest")
    /\ IF ~cb \/ ~config.set
       THEN pi_learn_msg_done({m}) /\ UNCHANGED <<digest, reported>>
       ELSE /\ cache' = [s \in DOMAIN cache \cup fresh |-> IF s \in fresh THEN m ELSE cache[s]]
            /\ IF fresh # {} THEN msg' = [msg EXCEPT ![m].at = "list"] ELSE pi_learn_msg_done({m})
            /\ IF added # {} /\ full
               THEN send_digest(data \cup added, list)
               ELSE /\ data' = data \cup added
                    /\ current_list_data' = list
                    /\ UNCHANGED <<list_id_to_data, list_id, timeout_bit, reported>>
    /\ UNCHANGED <<request, writer, updating, hw_config, cb, config, tasks, aborted, strayed, inputs>>
-----------------------------------------------------------------------------
(* purge_cache of the lists ids, and their erasure. *)
purge_cache(ids) ==
    LET samples == UNION {list_id_to_data[l].samples : l \in ids} IN
    /\ cache' = [s \in DOMAIN cache \ samples |-> cache[s]]
    /\ pi_learn_msg_done(UNION {list_id_to_data[l].msgs : l \in ids})

(* The stream loop reads an ack into its request, and TaskAck holds a       *)
(* reference to it.                                                        *)
ack(l) ==
    /\ Input /\ l \in DOMAIN reported
    /\ request' = request + 1
    /\ Post([kind |-> "ack", list |-> l, request |-> request'])
    /\ UNCHANGED <<msg, writer, updating, hw_config, cb, config, digest, tasks, aborted, reported, strayed>>

(* It reads another message, or the stream ends: the ack is freed. *)
StreamChannelNext ==
    /\ Input /\ Posted("ack")
    /\ request' = request + 1
    /\ UNCHANGED <<msg, task_queue, writer, updating, hw_config, cb, config, digest, tasks, aborted,
                   reported, strayed>>

(* What a TaskAck reads once its ack was freed is undefined: the id of any *)
(* list, or of none.                                                       *)
TaskAck ==
    /\ RunsTask("ack")
    /\ \E ids \in SUBSET DOMAIN list_id_to_data :
         /\ IF Head(task_queue).request = request
            THEN ids = {Head(task_queue).list} \cap DOMAIN list_id_to_data
            ELSE Cardinality(ids) <= 1
         /\ purge_cache(ids)
         /\ list_id_to_data' = [l \in DOMAIN list_id_to_data \ ids |-> list_id_to_data[l]]
    /\ UNCHANGED <<request, writer, updating, hw_config, cb, config, data, list_id, current_list_data,
                   timeout_bit, tasks, aborted, reported, strayed, inputs>>
-----------------------------------------------------------------------------
(* The sweeps.  The queue frees a task that it finds cancelled. *)
Sweep(a, kind) ==
    /\ ~aborted /\ a \in DOMAIN sweeps /\ sweeps[a].kind = kind
    /\ UNCHANGED <<task_queue, request, writer, updating, hw_config, cb, config, task_ack_timeout,
                   task_max_timeout, misfired, aborted, strayed, inputs>>

FreeSweep(a) ==
    /\ ~aborted /\ a \in DOMAIN sweeps /\ sweeps[a].cancelled
    /\ sweeps' = [b \in DOMAIN sweeps \ {a} |-> sweeps[b]]
    /\ UNCHANGED <<msg, task_queue, request, writer, updating, hw_config, cb, config, digest,
                   task_ack_timeout, task_max_timeout, misfired, aborted, reported, strayed,
                   inputs>>

(* Mutant: looks at the cache pointers, not at the data of the digest. *)
TaskMaxTimeout_cached(a) ==
    /\ Sweep(a, "max") /\ ~sweeps[a].cancelled
    /\ current_list_data.samples # {}
    /\ IF timeout_bit
       THEN send_digest(data, current_list_data)
       ELSE /\ timeout_bit' = TRUE
            /\ UNCHANGED <<list_id_to_data, data, list_id, current_list_data, reported>>
    /\ UNCHANGED <<msg, cache, sweeps>>

(* TaskMaxTimeout: send_digest_if_needed(). *)
TaskMaxTimeout(a) ==
    /\ Sweep(a, "max") /\ ~sweeps[a].cancelled
    /\ data # {}
    /\ IF timeout_bit
       THEN send_digest(data, current_list_data)
       ELSE /\ timeout_bit' = TRUE
            /\ UNCHANGED <<list_id_to_data, data, list_id, current_list_data, reported>>
    /\ UNCHANGED <<msg, cache, sweeps>>

(* TaskAckTimeout: purge_cache_if_needed(). *)
TaskAckTimeout(a) ==
    LET old == {l \in DOMAIN list_id_to_data : list_id_to_data[l].timeout_bit} IN
    /\ Sweep(a, "ack") /\ ~sweeps[a].cancelled
    /\ purge_cache(old)
    /\ list_id_to_data' = [l \in DOMAIN list_id_to_data \ old |->
                             [list_id_to_data[l] EXCEPT !.timeout_bit = TRUE]]
    /\ UNCHANGED <<data, list_id, current_list_data, timeout_bit, reported, sweeps>>

(* task->cancel() through a pointer that may outlive its task: it sets the *)
(* flag of the sweep task that is at the address now, if any.              *)
Cancelled(sw, ptr) == [a \in DOMAIN sw |-> [sw[a] EXCEPT !.cancelled = @ \/ a = ptr]]

(* The allocator hands out any free address.  Those that no pointer holds  *)
(* are alike: the least stands for all.                                    *)
Alloc(used) ==
    LET held == {task_max_timeout, task_ack_timeout}
        rest == {a \in Addr \ used : a \notin held}
    IN  {a \in Addr \ used : a \in held \/ a = Min(rest)}

(* set_max_timeout_ns, then set_ack_timeout_ns: with timeout 0 a sweep is  *)
(* cancelled and the pointer kept.                                         *)
SetTimeouts(c) ==
    LET one == Cancelled(sweeps, task_max_timeout) IN
    \E a \in IF c.max_timeout THEN Alloc(DOMAIN one) ELSE {task_max_timeout} :
      LET two == IF c.max_timeout THEN With(one, a, [kind |-> "max", cancelled |-> FALSE])
                 ELSE one
          three == Cancelled(two, task_ack_timeout)
      IN  \E b \in IF c.ack_timeout THEN Alloc(DOMAIN three) ELSE {task_ack_timeout} :
            /\ sweeps' = IF c.ack_timeout
                         THEN With(three, b, [kind |-> "ack", cancelled |-> FALSE])
                         ELSE three
            /\ task_max_timeout' = a
            /\ task_ack_timeout' = b
            /\ misfired' = (c.max_timeout /\ a = task_ack_timeout)

(* Mutant: the sweep of max_timeout_ns is not cancelled. *)
CancelTasks_ack ==
    /\ sweeps' = Cancelled(sweeps, task_ack_timeout)
    /\ task_ack_timeout' = Null
    /\ misfired' = FALSE
    /\ UNCHANGED task_max_timeout

(* Tasks::cancel() resets task_ack_timeout twice, and never task_max_timeout. *)
CancelTasks ==
    /\ sweeps' = Cancelled(Cancelled(sweeps, task_ack_timeout), task_max_timeout)
    /\ task_ack_timeout' = Null
    /\ misfired' = FALSE
    /\ UNCHANGED task_max_timeout
-----------------------------------------------------------------------------
(* config_write: post TaskConfigWrite, wait for its status, then configure *)
(* the target.  A DigestEntry locks nothing: writers overlap.              *)
config_write(w, type, c) ==
    /\ Input
    /\ Idle(w) /\ \A v \in 1..(w - 1) : ~Idle(v)   \* threads are alike
    /\ writer' = [v \in Writer |->
         IF v = w THEN [pc |-> "waiting", type |-> type, config |-> c,
                        alone |-> ~updating /\ \A u \in Writer : Idle(u)]
         ELSE [writer[v] EXCEPT !.alone = Idle(v)]]
    /\ Post([kind |-> "config_write", writer |-> w])
    /\ UNCHANGED <<msg, request, updating, hw_config, cb, config, digest, tasks, aborted, reported,
                   strayed>>

(* reset() *)
Reset ==
    LET purged == UNION {list_id_to_data[l].samples : l \in DOMAIN list_id_to_data} IN
    IF DOMAIN cache \ purged # {}   \* assert(cache.empty())
    THEN aborted' = TRUE /\ UNCHANGED <<msg, config, digest, tasks>>
    ELSE /\ purge_cache(DOMAIN list_id_to_data)
         /\ config' = NoConfig /\ list_id_to_data' = NoFn
         /\ data' = {} /\ current_list_data' = EmptyList /\ timeout_bit' = FALSE
         /\ CancelTasks
         /\ UNCHANGED <<list_id, aborted>>

TaskConfigWrite ==
    LET w == Head(task_queue).writer
        type == writer[w].type
        refused == config.set = (type = "INSERT")   \* ALREADY_EXISTS, NOT_FOUND
    IN
    /\ RunsTask("config_write")
    /\ writer' = [writer EXCEPT ![w] = IF refused THEN IdleWriter ELSE [@ EXCEPT !.pc = "configured"]]
    /\ \/ refused /\ UNCHANGED <<msg, config, digest, tasks, aborted>>
       \/ /\ ~refused /\ type \in {"INSERT", "MODIFY"}
          /\ config' = writer[w].config
          /\ SetTimeouts(config')
          /\ UNCHANGED <<msg, digest, aborted>>
       \/ ~refused /\ type = "DELETE" /\ Reset
    /\ UNCHANGED <<request, updating, hw_config, cb, reported, strayed, inputs>>

(* The target is told; it may fail. *)
pi_learn_config_set(w, ok) ==
    /\ ~aborted /\ writer[w].pc = "configured"
    /\ writer' = [writer EXCEPT ![w] = IdleWriter]
    /\ hw_config' = IF ok THEN pi_config(writer[w].config) ELSE hw_config
    /\ strayed' = (~ok \/ ~writer[w].alone)
    /\ UNCHANGED <<msg, task_queue, request, updating, cb, config, digest, tasks, aborted,
                   reported, inputs>>
-----------------------------------------------------------------------------
(* pipeline_config_set waits for the Writes to end and wipes the target;   *)
(* its UpdateAccess does not keep new Write requests out.                  *)
pi_update_device_start ==
    /\ Input /\ ~updating /\ ~Posted("p4_change")
    /\ \A w \in Writer : Idle(w)
    /\ updating' = TRUE
    /\ hw_config' = pi_config(NoConfig)
    /\ strayed' = FALSE
    /\ UNCHANGED <<msg, task_queue, request, writer, cb, config, digest, tasks, aborted, reported>>

(* It ignores the status of p4_change, which fails before it posts a task  *)
(* if it cannot convert a type of the new P4Info.                          *)
p4_change(ok) ==
    /\ ~aborted /\ updating
    /\ updating' = FALSE
    /\ IF ok THEN Post([kind |-> "p4_change"]) ELSE UNCHANGED task_queue
    /\ writer' = [w \in Writer |-> [writer[w] EXCEPT !.alone = Idle(w)]]
    /\ strayed' = (strayed \/ ~ok)
    /\ UNCHANGED <<msg, request, hw_config, cb, config, digest, tasks, aborted, reported, inputs>>

(* The old DigestData and the messages of its lists are dropped, then the  *)
(* destructor of the old Tasks cancels the sweeps.                         *)
TaskP4Change ==
    /\ RunsTask("p4_change")
    /\ NewDigest
    /\ msg' = [m \in Msg |-> IF msg[m].at = "list" THEN [msg[m] EXCEPT !.at = "leaked"]
                             ELSE msg[m]]
    /\ sweeps' = Cancelled(Cancelled(sweeps, task_ack_timeout), task_max_timeout)
    /\ task_ack_timeout' = Null /\ task_max_timeout' = Null /\ misfired' = FALSE
    /\ reported' = NoFn
    /\ UNCHANGED <<request, writer, updating, hw_config, cb, aborted, strayed, inputs>>

stream_message_response_register_cb ==
    /\ ~aborted /\ ~cb
    /\ ~Posted("register_cb") /\ ~Posted("p4_change") /\ ~updating
    /\ Post([kind |-> "register_cb"])
    /\ UNCHANGED <<msg, request, writer, updating, hw_config, cb, config, digest, tasks, aborted, reported,
                   strayed, inputs>>

TaskRegisterCb ==
    /\ RunsTask("register_cb")
    /\ cb' = TRUE
    /\ UNCHANGED <<msg, request, writer, updating, hw_config, config, digest, tasks, aborted, reported,
                   strayed, inputs>>
-----------------------------------------------------------------------------
RunTask ==
    \/ learn \/ TaskAck \/ TaskConfigWrite \/ TaskP4Change \/ TaskRegisterCb

RunSweep(a) == TaskMaxTimeout(a) \/ TaskAckTimeout(a) \/ FreeSweep(a)

Next ==
    \/ \E m \in Msg, samples \in SUBSET Sample : digest_cb(m, samples)
    \/ \E l \in DOMAIN reported : ack(l)
    \/ \E w \in Writer :
         \/ \E type \in {"INSERT", "MODIFY"}, c \in Config : config_write(w, type, c)
         \/ config_write(w, "DELETE", NoConfig)
         \/ \E ok \in BOOLEAN : pi_learn_config_set(w, ok)
    \/ \E ok \in BOOLEAN : p4_change(ok)
    \/ pi_update_device_start \/ StreamChannelNext \/ stream_message_response_register_cb
    \/ RunTask
    \/ \E a \in Addr : RunSweep(a)

Spec == Init /\ [][Next]_vars

(* The thread of the queue takes a posted task off it, which only RunTask  *)
(* does, and runs the sweeps that are due.                                 *)
TakesTask == Len(task_queue') < Len(task_queue)
FairSpec ==
    /\ Spec
    /\ []<>(aborted \/ task_queue = <<>>) \/ []<><<TakesTask>>_vars
    /\ WF_vars(\E a \in Addr : RunSweep(a))
-----------------------------------------------------------------------------
Lists == DOMAIN list_id_to_data
Owned(l) == list_id_to_data[l].msgs
Live(kind) == {a \in DOMAIN sweeps : sweeps[a].kind = kind /\ ~sweeps[a].cancelled}

(* Every variable keeps its type. *)
TypeOK ==
    /\ msg \in [Msg -> [at : {"target", "queue", "list", "done", "leaked"},
                        samples : SUBSET Sample]]
    /\ config \in Config \cup {NoConfig}
    /\ hw_config \in {pi_config(c) : c \in Config \cup {NoConfig}}
    /\ DOMAIN cache \subseteq Sample /\ data \subseteq Sample
    /\ DOMAIN list_id_to_data \subseteq 1..(list_id - 1)   \* ids that were used
    /\ DOMAIN sweeps \subseteq Addr
    /\ {task_ack_timeout, task_max_timeout} \subseteq Addr \cup {Null}

(* The memory of the cache: each cached sample lies in a message that has  *)
(* not been given back, and that message belongs to the one list (sent, or *)
(* being built) whose end erases the sample.  No message has two owners.   *)
CacheBacked ==
    /\ \A s \in DOMAIN cache :
         /\ msg[cache[s]].at = "list"
         /\ \/ s \in current_list_data.samples /\ cache[s] \in current_list_data.msgs
            \/ \E l \in Lists : s \in list_id_to_data[l].samples /\ cache[s] \in Owned(l)
    /\ \A l \in Lists : \A m \in Owned(l) :
         /\ msg[m].at = "list" /\ m \notin current_list_data.msgs
         /\ \A k \in Lists \ {l} : m \notin Owned(k)

(* A sample is kept from the client only while a list that the client was  *)
(* sent, or is about to be sent, holds it, and only one list does: nothing *)
(* learned while the digest is configured is lost or reported twice.       *)
SuppressedIsReported ==
    /\ \A s \in DOMAIN cache :
         \/ s \in current_list_data.samples /\ s \in data
         \/ \E l \in Lists : s \in list_id_to_data[l].samples /\ s \in reported[l]
    /\ \A l \in Lists :
         /\ list_id_to_data[l].samples \subseteq DOMAIN cache
         /\ list_id_to_data[l].samples \cap current_list_data.samples = {}
         /\ \A k \in Lists \ {l} :
              list_id_to_data[l].samples \cap list_id_to_data[k].samples = {}

(* assert(cache.empty()) fails only on a DELETE that comes while samples   *)
(* are buffered for the next list: their cache entries are not purged.     *)
AbortsOnBuffered == aborted => data # {}

(* The cache is right about memory and about the client; the variables     *)
(* keep their types.                                                       *)
CacheIsSound == TypeOK /\ CacheBacked /\ SuppressedIsReported /\ AbortsOnBuffered

(* Exactly the sweeps that the configuration asks for are alive, although  *)
(* tasks are cancelled through pointers that may be stale; unless, at its  *)
(* start, the sweep of max_timeout_ns was given the address that the stale *)
(* pointer of the other holds.  None works on a digest that was reset or   *)
(* replaced.                                                               *)
SweepsFollowConfig ==
    /\ IF config.max_timeout /\ ~misfired
       THEN \E sweep \in Live("max") : Live("max") = {sweep} ELSE Live("max") = {}
    /\ IF config.ack_timeout
       THEN \E sweep \in Live("ack") : Live("ack") = {sweep} ELSE Live("ack") = {}

(* The target is configured as the manager is, between Writes, once a      *)
(* Write has succeeded that overlapped no other and no pipeline change.    *)
TargetFollows ==
    (~strayed /\ ~updating /\ ~Posted("p4_change") /\ (\A w \in Writer : Idle(w)))
      => hw_config = pi_config(config)

(* A configuration takes effect, in the manager and on the target.         *)
ConfigTakesEffect == SweepsFollowConfig /\ TargetFollows

(* "a sample should not be buffered for more than max_timeout_ns": what is *)
(* buffered gets sent while that sweep is armed.                           *)
Armed == config.max_timeout /\ ~misfired /\ ~aborted
BufferedIsSent == (data # {} /\ Armed) ~> (data = {} \/ ~Armed)

(* "a cache entry should be cleared if unacked for more than               *)
(* ack_timeout_ns": a list ends even if the client never acks it.          *)
Expiring == config.ack_timeout /\ ~aborted
UnackedExpires == \A l \in Msg : (l \in Lists /\ Expiring) ~> (l \notin Lists \/ ~Expiring)

(* Neither a buffered sample nor an unacknowledged list stays for ever.    *)
TimeoutsAct == BufferedIsSent /\ UnackedExpires
=============================================================================

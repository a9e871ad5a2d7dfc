-------------------------- MODULE DigestMgrProofs --------------------------
(***************************************************************************)
(* Proofs about DigestMgr, for any samples, messages, addresses of sweep   *)
(* tasks, configurations and bounds: the cache of a digest is right about  *)
(* the memory it points into and about what the client was sent.           *)
(***************************************************************************)
EXTENDS DigestMgr, TLAPS

ListData == [samples : SUBSET Sample, msgs : SUBSET Msg, timeout_bit : BOOLEAN]
WriterType ==
    [pc : {"idle", "waiting", "configured"}, type : {"INSERT", "MODIFY", "DELETE"},
     config : Config \cup {NoConfig}, alone : BOOLEAN]
Task ==
    [kind : {"new_digest"}, msg : Msg] \cup [kind : {"ack"}, list : Nat, request : Nat]
    \cup [kind : {"config_write"}, writer : Writer] \cup [kind : {"p4_change", "register_cb"}]

(* The types of what TypeOK says nothing of. *)
DataType ==
    /\ task_queue \in Seq(Task)
    /\ writer \in [Writer -> WriterType]
    /\ cache \in [DOMAIN cache -> Msg]
    /\ list_id \in Nat \ {0}
    /\ list_id_to_data \in [DOMAIN list_id_to_data -> ListData]
    /\ current_list_data \in [samples : SUBSET Sample, msgs : SUBSET Msg]
    /\ DOMAIN reported \subseteq Nat
    /\ request \in Nat /\ cb \in BOOLEAN /\ aborted \in BOOLEAN /\ timeout_bit \in BOOLEAN

(* A message waits in the queue in one task, and belongs to nobody else.   *)
Digests == {i \in DOMAIN task_queue : task_queue[i].kind = "new_digest"}
QueuedOnce ==
    /\ \A i \in Digests : msg[task_queue[i].msg].at = "queue"
    /\ \A i, j \in Digests : i # j => task_queue[i].msg # task_queue[j].msg

(* CacheBacked as a relation between the messages ms, the cache ca, the    *)
(* lists li that were sent and the list cu that is being built, whose      *)
(* messages live too.                                                      *)
Backed(ms, ca, li, cu) ==
    /\ \A s \in DOMAIN ca :
         /\ ms[ca[s]].at = "list"
         /\ \/ s \in cu.samples /\ ca[s] \in cu.msgs
            \/ \E l \in DOMAIN li : s \in li[l].samples /\ ca[s] \in li[l].msgs
    /\ \A l \in DOMAIN li : \A m \in li[l].msgs :
         /\ ms[m].at = "list" /\ m \notin cu.msgs
         /\ \A k \in DOMAIN li \ {l} : m \notin li[k].msgs
    /\ \A m \in cu.msgs : ms[m].at = "list"

(* SuppressedIsReported in the same way, with what is buffered, da, and    *)
(* what was sent, re: everything in a list is cached and in its report.    *)
Announced(ca, li, cu, da, re) ==
    /\ cu.samples \subseteq da /\ cu.samples \subseteq DOMAIN ca
    /\ \A l \in DOMAIN li :
         /\ l \in DOMAIN re /\ li[l].samples \subseteq re[l]
         /\ li[l].samples \subseteq DOMAIN ca
         /\ li[l].samples \cap cu.samples = {}
         /\ \A k \in DOMAIN li \ {l} : li[l].samples \cap li[k].samples = {}

Mem(ms, ca, li, cu, da, re) == Backed(ms, ca, li, cu) /\ Announced(ca, li, cu, da, re)
InMsg(ca, li, cu) ==
    /\ \A s \in DOMAIN ca : ca[s] \in Msg
    /\ \A l \in DOMAIN li : li[l].msgs \subseteq Msg
    /\ cu.msgs \subseteq Msg
MemInv == Mem(msg, cache, list_id_to_data, current_list_data, data, reported)

(* The inductive invariant. *)
CacheInv ==
    /\ TypeOK /\ DataType
    /\ QueuedOnce
    /\ MemInv
    /\ data # {} => cb
    /\ AbortsOnBuffered

-----------------------------------------------------------------------------
(* What the lists and the cache go through, whatever task does it.         *)

(* MemInv is what the property says, and what makes it inductive.          *)
LEMMA MemImplies == MemInv => CacheBacked /\ SuppressedIsReported
  BY SMTT(60) DEF MemInv, Mem, Backed, Announced, CacheBacked, SuppressedIsReported, Lists, Owned

LEMMA Typed == DataType => InMsg(cache, list_id_to_data, current_list_data)
  BY SMTT(60) DEF DataType, ListData, InMsg

(* A learn message whose samples are not all cached is kept, and its new   *)
(* samples go into the cache and into the current list; one that has none  *)
(* is given back.                                                          *)
LEMMA LearnMem ==
    ASSUME MemInv, DataType, NEW m, NEW fresh, NEW da,
           fresh \cap DOMAIN cache = {}, msg[m].at # "list",
           fresh # {} => msg'[m].at = "list",
           \A k \in Msg : msg[k].at = "list" => msg'[k].at = "list",
           data \subseteq da, fresh \subseteq da
    PROVE  Mem(msg', [s \in DOMAIN cache \cup fresh |-> IF s \in fresh THEN m ELSE cache[s]],
               list_id_to_data,
               [samples |-> current_list_data.samples \cup fresh,
                msgs |-> current_list_data.msgs \cup (IF fresh # {} THEN {m} ELSE {})], da, reported)
  <1> DEFINE ca == [s \in DOMAIN cache \cup fresh |-> IF s \in fresh THEN m ELSE cache[s]]
             cu == [samples |-> current_list_data.samples \cup fresh,
                    msgs |-> current_list_data.msgs \cup (IF fresh # {} THEN {m} ELSE {})]
             li == list_id_to_data
  <1>1. Backed(msg', ca, li, cu)
    <2> USE Typed DEF MemInv, Mem, Backed, InMsg
    <2>1. ASSUME NEW s \in DOMAIN ca
          PROVE  /\ msg'[ca[s]].at = "list"
                 /\ \/ s \in cu.samples /\ ca[s] \in cu.msgs
                    \/ \E l \in DOMAIN li : s \in li[l].samples /\ ca[s] \in li[l].msgs
      BY SMTT(60)
    <2>2. \A l \in DOMAIN li : \A k \in li[l].msgs : msg'[k].at = "list" /\ k \notin cu.msgs
      BY SMTT(60)
    <2>3. \A k \in cu.msgs : msg'[k].at = "list"
      BY SMTT(60)
    <2>4. QED
      BY <2>1, <2>2, <2>3, SMTT(60)
  <1>2. Announced(ca, li, cu, da, reported)
    BY SMTT(60) DEF MemInv, Mem, Announced
  <1>3. QED
    BY <1>1, <1>2 DEF Mem

(* send_digest: the current list joins the lists that were sent, under an  *)
(* id none of them has, unless nothing of it is cached.                    *)
LEMMA SendMem ==
    ASSUME NEW ms, NEW ca, NEW li, NEW cu, NEW da, NEW re, NEW id, NEW list,
           Mem(ms, ca, li, cu, da, re), id \notin DOMAIN li,
           list.samples = cu.samples, list.msgs = cu.msgs
    PROVE  Mem(ms, ca, IF cu.samples = {} THEN li ELSE With(li, id, list), EmptyList, {},
               With(re, id, da))
  <1> DEFINE li2 == With(li, id, list)
             re2 == With(re, id, da)
  <1>1. /\ DOMAIN li2 = DOMAIN li \cup {id}
        /\ li2[id] = list /\ \A l \in DOMAIN li : li2[l] = li[l]
    BY SMTT(60) DEF With
  <1>2. /\ DOMAIN re2 = DOMAIN re \cup {id}
        /\ re2[id] = da /\ \A l \in DOMAIN re \ {id} : re2[l] = re[l]
    BY ZenonT(60) DEF With
  <1> HIDE DEF li2, re2
  <1>3. CASE cu.samples = {}
    BY <1>2, <1>3, SMTT(60) DEF Mem, Backed, Announced, EmptyList, re2
  <1>4. CASE cu.samples # {}
    <2>1. Backed(ms, ca, li2, EmptyList)
      BY <1>1, SMTT(60) DEF Mem, Backed, EmptyList
    <2>2. Announced(ca, li2, EmptyList, {}, re2)
      BY <1>1, <1>2, SMTT(60) DEF Mem, Announced, EmptyList
    <2>3. QED
      BY <1>4, <2>1, <2>2 DEF Mem, li2, re2
  <1>5. QED
    BY <1>3, <1>4

-----------------------------------------------------------------------------
(* The queue of the thread. *)

(* Posting a task that is not about a message. *)
LEMMA PostKeeps ==
    ASSUME task_queue \in Seq(Task), QueuedOnce, NEW t \in Task, t.kind # "new_digest", Post(t),
           msg' = msg
    PROVE  task_queue' \in Seq(Task) /\ QueuedOnce'
  <1>1. task_queue' = Append(task_queue, t)
    BY DEF Post
  <1>2. task_queue' \in Seq(Task)
    BY <1>1
  <1>3. Digests' = Digests /\ \A i \in Digests : task_queue'[i] = task_queue[i]
    BY <1>1, SMTT(60) DEF Digests
  <1>4. QED
    BY <1>2, <1>3, SMTT(60) DEF QueuedOnce

(* Running one: the messages of the other tasks stay where they are. *)
LEMMA RunKeeps ==
    ASSUME task_queue \in Seq(Task), QueuedOnce, NEW kind, RunsTask(kind),
           \A m \in Msg : msg[m].at = "queue" /\ (kind = "new_digest" => m # Head(task_queue).msg)
                             => msg'[m].at = "queue"
    PROVE  /\ task_queue' \in Seq(Task) /\ QueuedOnce'
           /\ Head(task_queue) \in Task /\ Head(task_queue).kind = kind
           /\ kind = "new_digest" => Head(task_queue).msg \in Msg /\ msg[Head(task_queue).msg].at = "queue"
  <1>1. /\ Len(task_queue) \in Nat /\ Len(task_queue) > 0
        /\ Head(task_queue) = task_queue[1] /\ task_queue[1].kind = kind
        /\ task_queue' = Tail(task_queue)
    BY SMTT(60) DEF RunsTask
  <1>2. /\ task_queue' \in Seq(Task) /\ Len(task_queue') = Len(task_queue) - 1
        /\ \A i \in 1..Len(task_queue') : task_queue'[i] = task_queue[i + 1]
    BY <1>1, SMTT(60)
  <1>3. \A i \in DOMAIN task_queue : task_queue[i] \in Task
    BY SMTT(60)
  <1>4. \A t \in Task : t.kind = "new_digest" => t.msg \in Msg
    BY SMTT(60) DEF Task
  <1>5. \A i \in Digests' : i + 1 \in Digests /\ task_queue'[i] = task_queue[i + 1] /\ i \in Nat /\ i # 0
    BY <1>1, <1>2, SMTT(60) DEF Digests
  <1>6. kind = "new_digest" => 1 \in Digests
    BY <1>1, SMTT(60) DEF Digests
  <1>7. \A i \in Digests' : msg'[task_queue'[i].msg].at = "queue"
    BY <1>1, <1>3, <1>4, <1>5, <1>6, SMTT(60) DEF QueuedOnce, Digests
  <1>8. \A i, j \in Digests' : i # j => task_queue'[i].msg # task_queue'[j].msg
    BY <1>5, SMTT(60) DEF QueuedOnce
  <1>9. QED
    BY <1>1, <1>2, <1>3, <1>4, <1>6, <1>7, <1>8, SMTT(60) DEF QueuedOnce, Digests

(* A step that leaves the digest and the messages alone. *)
LEMMA Outside ==
    ASSUME CacheInv, UNCHANGED <<msg, config, digest, reported, aborted>>,
           cb \in BOOLEAN => cb' \in BOOLEAN, cb => cb',
           task_queue' \in Seq(Task), QueuedOnce', writer' \in [Writer -> WriterType], request' \in Nat,
           hw_config' \in {pi_config(c) : c \in Config \cup {NoConfig}},
           DOMAIN sweeps' \subseteq Addr,
           {task_ack_timeout', task_max_timeout'} \subseteq Addr \cup {Null}
    PROVE  CacheInv'
  <1>1. MemInv'
    BY DEF CacheInv, MemInv, digest
  <1>2. TypeOK' /\ DataType'
    BY ZenonT(60) DEF CacheInv, TypeOK, DataType, digest
  <1>3. QED
    BY <1>1, <1>2, SMTT(60) DEF CacheInv, AbortsOnBuffered, digest

(* The target has learned something.  The message was in its hands. *)
LEMMA DigestCbStep ==
    ASSUME CacheInv, NEW m \in Msg, NEW samples \in SUBSET Sample, digest_cb(m, samples)
    PROVE  CacheInv'
  <1> DEFINE t == [kind |-> "new_digest", msg |-> m]
  <1>1. /\ msg' = [msg EXCEPT ![m] = [at |-> "queue", samples |-> samples]]
        /\ task_queue' = Append(task_queue, t)
        /\ msg[m].at = "target"
        /\ UNCHANGED <<request, writer, hw_config, cb, config, digest, tasks, aborted, reported>>
    BY DEF digest_cb, Post
  <1>2. /\ msg' \in [Msg -> [at : {"target", "queue", "list", "done", "leaked"}, samples : SUBSET Sample]]
        /\ msg'[m].at = "queue" /\ \A k \in Msg \ {m} : msg'[k] = msg[k]
    BY <1>1, SMTT(60) DEF CacheInv, TypeOK
  <1>3. t \in Task /\ task_queue' \in Seq(Task)
    BY <1>1, SMTT(60) DEF CacheInv, DataType, Task
  <1>4. TypeOK' /\ DataType'
    BY <1>1, <1>2, <1>3, ZenonT(60) DEF CacheInv, TypeOK, DataType, digest, tasks
  <1>5. QueuedOnce'
    <2>1. /\ Len(task_queue) \in Nat
          /\ \A i \in DOMAIN task_queue : task_queue'[i] = task_queue[i] /\ task_queue[i] \in Task
          /\ task_queue'[Len(task_queue) + 1] = t
          /\ DOMAIN task_queue' = DOMAIN task_queue \cup {Len(task_queue) + 1}
          /\ DOMAIN task_queue = 1..Len(task_queue)
      BY <1>1, <1>3, SMTT(60) DEF CacheInv, DataType
    <2>2. \A x \in Task : x.kind = "new_digest" => x.msg \in Msg
      BY SMTT(60) DEF Task
    <2>3. Digests' = Digests \cup {Len(task_queue) + 1}
      BY <2>1, SMTT(60) DEF Digests
    <2>4. \A i \in Digests : task_queue[i].msg \in Msg \ {m} /\ task_queue'[i] = task_queue[i]
      BY <1>1, <2>1, <2>2, ZenonT(60) DEF CacheInv, QueuedOnce, Digests
    <2>5. QED
      BY <1>2, <2>1, <2>3, <2>4, SMTT(60) DEF CacheInv, QueuedOnce
  <1>6. MemInv'
    <2>1. InMsg(cache, list_id_to_data, current_list_data)
      BY Typed DEF CacheInv
    <2>2. \A k \in Msg : msg[k].at = "list" => msg'[k].at = "list"
      BY <1>1, <1>2, SMTT(60)
    <2>3. QED
      BY <1>1, <2>1, <2>2, SMTT(60) DEF CacheInv, MemInv, Mem, Backed, InMsg, Announced, digest
  <1>7. QED
    BY <1>1, <1>4, <1>5, <1>6, SMTT(60) DEF CacheInv, AbortsOnBuffered, digest

-----------------------------------------------------------------------------
(* The tasks. *)

(* Giving messages back. *)
LEMMA Done ==
    ASSUME TypeOK, NEW ms, pi_learn_msg_done(ms)
    PROVE  /\ msg' \in [Msg -> [at : {"target", "queue", "list", "done", "leaked"}, samples : SUBSET Sample]]
           /\ \A k \in Msg : k \notin ms => msg'[k] = msg[k]
  BY SMTT(60) DEF TypeOK, pi_learn_msg_done

(* send_digest: what is sent is what is buffered, with the current list. *)
LEMMA SendStep ==
    ASSUME CacheInv, NEW samples \in SUBSET Sample, samples # {},
           NEW list \in [samples : SUBSET Sample, msgs : SUBSET Msg],
           cb, send_digest(samples, list),
           Mem(msg', cache', list_id_to_data, list, samples, reported)
    PROVE  /\ MemInv'
           /\ data' = {} /\ list_id' \in Nat \ {0} /\ timeout_bit' \in BOOLEAN
           /\ DOMAIN list_id_to_data' \subseteq 1..(list_id' - 1)
           /\ DOMAIN reported' \subseteq Nat
           /\ list_id_to_data' \in [DOMAIN list_id_to_data' -> ListData]
           /\ current_list_data' \in [samples : SUBSET Sample, msgs : SUBSET Msg]
  <1> DEFINE new == [samples |-> list.samples, msgs |-> list.msgs, timeout_bit |-> FALSE]
  <1>1. /\ reported' = With(reported, list_id, samples)
        /\ list_id_to_data' = IF list.samples = {} THEN list_id_to_data
                              ELSE With(list_id_to_data, list_id, new)
        /\ current_list_data' = EmptyList /\ list_id' = list_id + 1
        /\ data' = {} /\ timeout_bit' = FALSE
    BY ZenonT(60) DEF send_digest
  <1>2. /\ list_id \in Nat \ {0} /\ DOMAIN list_id_to_data \subseteq 1..(list_id - 1)
        /\ DOMAIN reported \subseteq Nat
        /\ list_id_to_data \in [DOMAIN list_id_to_data -> ListData] /\ new \in ListData
    BY SMTT(60) DEF CacheInv, TypeOK, DataType, ListData
  <1>3. list_id \notin DOMAIN list_id_to_data
    BY <1>2, SMTT(60)
  <1>4. MemInv'
    <2>1. new.samples = list.samples /\ new.msgs = list.msgs
      OBVIOUS
    <2> HIDE DEF new
    <2>2. QED
      BY <1>1, <1>3, <2>1, SendMem, ZenonT(60) DEF MemInv
  <1> HIDE DEF new
  <1>5. /\ DOMAIN list_id_to_data' \subseteq 1..(list_id' - 1) /\ DOMAIN reported' \subseteq Nat
        /\ list_id_to_data' \in [DOMAIN list_id_to_data' -> ListData]
    BY <1>1, <1>2, SMTT(60) DEF With
  <1>6. EmptyList \in [samples : SUBSET Sample, msgs : SUBSET Msg]
    BY SMTT(60) DEF EmptyList
  <1>7. list_id' \in Nat \ {0} /\ timeout_bit' \in BOOLEAN /\ data' = {}
    <2>1. list_id \in Nat /\ list_id' = list_id + 1
      BY <1>1, <1>2
    <2>2. list_id' \in Nat \ {0}
      BY <2>1, SMTT(60)
    <2>3. QED
      BY <1>1, <2>2, ZenonT(60)
  <1>8. QED
    BY <1>1, <1>4, <1>5, <1>6, <1>7, ZenonT(60)

(* TaskNewDigest: the message was in the queue; it is given back, or kept   *)
(* by the current list.                                                    *)
LEMMA LearnStep == CacheInv /\ learn => CacheInv'
  <1> SUFFICES ASSUME CacheInv, learn PROVE CacheInv'
    BY ZenonT(60)
  <1> DEFINE m == Head(task_queue).msg
             fresh == IF config.ack_timeout THEN msg[m].samples \ DOMAIN cache ELSE {}
             added == IF config.ack_timeout THEN fresh ELSE msg[m].samples
             list == [samples |-> current_list_data.samples \cup fresh,
                      msgs |-> current_list_data.msgs \cup (IF fresh # {} THEN {m} ELSE {})]
             da == data \cup added
             MsgType == [Msg -> [at : {"target", "queue", "list", "done", "leaked"}, samples : SUBSET Sample]]
  <1>1. /\ RunsTask("new_digest")
        /\ UNCHANGED <<request, writer, hw_config, cb, config, tasks, aborted>>
    BY DEF learn
  <1>2. task_queue \in Seq(Task) /\ QueuedOnce /\ msg \in MsgType
    BY DEF CacheInv, DataType, TypeOK
  <1>3. CASE ~cb \/ ~config.set
    <2>1. pi_learn_msg_done({m}) /\ UNCHANGED <<digest, reported>>
      BY <1>3 DEF learn
    <2>2. msg' \in MsgType /\ \A k \in Msg : k \notin {m} => msg'[k] = msg[k]
      BY <2>1, Done, ZenonT(60) DEF CacheInv
    <2> HIDE DEF MsgType
    <2>3. /\ task_queue' \in Seq(Task) /\ QueuedOnce' /\ m \in Msg /\ msg[m].at = "queue"
      BY <1>1, <1>2, <2>2, RunKeeps
    <2> HIDE DEF m
    <2>4. \A k \in Msg : msg[k].at = "list" => msg'[k].at = "list"
      BY <2>2, <2>3, ZenonT(60)
    <2>5. MemInv'
      BY <2>1, <2>4, Typed, SMTT(60) DEF CacheInv, MemInv, Mem, Backed, Announced, InMsg, digest
    <2>6. TypeOK' /\ DataType'
      BY <1>1, <2>1, <2>2, <2>3, ZenonT(60) DEF CacheInv, TypeOK, DataType, digest, tasks, MsgType
    <2>7. QED
      BY <1>1, <2>1, <2>3, <2>5, <2>6, ZenonT(60) DEF CacheInv, AbortsOnBuffered, digest
  <1>4. CASE cb /\ config.set
    <2>1. /\ cache' = [s \in DOMAIN cache \cup fresh |-> IF s \in fresh THEN m ELSE cache[s]]
          /\ IF fresh # {} THEN msg' = [msg EXCEPT ![m].at = "list"] ELSE pi_learn_msg_done({m})
          /\ \/ added # {} /\ send_digest(da, list)
             \/ /\ data' = da /\ current_list_data' = list
                /\ UNCHANGED <<list_id_to_data, list_id, timeout_bit, reported>>
      BY <1>4, ZenonT(60) DEF learn
    <2>2. /\ msg' \in MsgType /\ \A k \in Msg : k # m => msg'[k] = msg[k]
          /\ fresh # {} /\ m \in Msg => msg'[m].at = "list"
      <3> HIDE DEF fresh, m
      <3>1. CASE fresh # {}
        BY <1>2, <2>1, <3>1, SMTT(60)
      <3>2. CASE fresh = {}
        BY <2>1, <3>2, Done DEF CacheInv
      <3>3. QED
        BY <3>1, <3>2
    <2>3. /\ task_queue' \in Seq(Task) /\ QueuedOnce' /\ m \in Msg /\ msg[m].at = "queue"
      <3> HIDE DEF MsgType
      <3>1. QED
        BY <1>1, <1>2, <2>2, RunKeeps, ZenonT(60)
    <2>4. /\ fresh \cap DOMAIN cache = {} /\ fresh \in SUBSET Sample /\ added \in SUBSET Sample
          /\ fresh \subseteq added
      <3> HIDE DEF m
      <3>1. msg[m].samples \in SUBSET Sample
        BY <1>2, <2>3, SMTT(60)
      <3>2. QED
        BY <3>1, SMTT(60)
    <2> HIDE DEF m, fresh, added, MsgType
    <2>5. \A k \in Msg : msg[k].at = "list" => msg'[k].at = "list"
      BY <2>2, <2>3, SMTT(60)
    <2>6. Mem(msg', cache', list_id_to_data, list, da, reported)
      <3>1. data \subseteq da /\ fresh \subseteq da
        BY <2>4
      <3>2. msg[m].at # "list" /\ (fresh # {} => msg'[m].at = "list")
        BY <2>2, <2>3
      <3>3. DataType /\ MemInv
        BY SMTT(60) DEF CacheInv
      <3> HIDE DEF da
      <3>4. Mem(msg', [s \in DOMAIN cache \cup fresh |-> IF s \in fresh THEN m ELSE cache[s]],
                list_id_to_data,
                [samples |-> current_list_data.samples \cup fresh,
                 msgs |-> current_list_data.msgs \cup (IF fresh # {} THEN {m} ELSE {})], da, reported)
        BY <2>4, <2>5, <3>1, <3>2, <3>3, LearnMem, ZenonT(60)
      <3>5. QED
        BY <2>1, <3>4
    <2>7. /\ list \in [samples : SUBSET Sample, msgs : SUBSET Msg] /\ da \in SUBSET Sample
          /\ cache' \in [DOMAIN cache' -> Msg] /\ DOMAIN cache' \subseteq Sample
      BY <2>1, <2>3, <2>4, SMTT(60) DEF CacheInv, TypeOK, DataType
    <2> HIDE DEF list
    <2>8. CASE added # {} /\ send_digest(da, list)
      <3>1. da # {}
        BY <2>8
      <3> HIDE DEF da
      <3>2. /\ MemInv'
            /\ data' = {} /\ list_id' \in Nat \ {0} /\ timeout_bit' \in BOOLEAN
            /\ DOMAIN list_id_to_data' \subseteq 1..(list_id' - 1)
            /\ DOMAIN reported' \subseteq Nat
            /\ list_id_to_data' \in [DOMAIN list_id_to_data' -> ListData]
            /\ current_list_data' \in [samples : SUBSET Sample, msgs : SUBSET Msg]
        BY <1>4, <2>6, <2>7, <2>8, <3>1, SendStep, ZenonT(60)
      <3>3. TypeOK' /\ DataType'
        BY <1>1, <2>2, <2>3, <2>7, <3>2, ZenonT(60) DEF CacheInv, TypeOK, DataType, tasks, MsgType
      <3>4. ~aborted
        BY <1>1 DEF RunsTask
      <3>5. QED
        BY <1>1, <2>3, <3>2, <3>3, <3>4, SMTT(60) DEF CacheInv, AbortsOnBuffered
    <2>9. CASE /\ data' = da /\ current_list_data' = list
               /\ UNCHANGED <<list_id_to_data, list_id, timeout_bit, reported>>
      <3>1. MemInv'
        BY <2>6, <2>9, ZenonT(60) DEF MemInv
      <3> HIDE DEF da
      <3>2. TypeOK' /\ DataType'
        BY <1>1, <2>2, <2>3, <2>7, <2>9, ZenonT(60) DEF CacheInv, TypeOK, DataType, tasks, MsgType
      <3>3. ~aborted
        BY <1>1 DEF RunsTask
      <3>4. QED
        BY <1>1, <1>4, <2>3, <3>1, <3>2, <3>3, SMTT(60) DEF CacheInv, AbortsOnBuffered
    <2>10. QED
      BY <2>1, <2>8, <2>9, ZenonT(60)
  <1>5. QED
    BY <1>3, <1>4

(* purge_cache: the samples of the lists leave the cache, their messages   *)
(* are given back, and the messages that wait in the queue stay there.     *)
LEMMA Purged ==
    ASSUME CacheInv, NEW ids \in SUBSET DOMAIN list_id_to_data, purge_cache(ids)
    PROVE  /\ msg' \in [Msg -> [at : {"target", "queue", "list", "done", "leaked"}, samples : SUBSET Sample]]
           /\ \A k \in Msg : (\A l \in ids : k \notin list_id_to_data[l].msgs) => msg'[k] = msg[k]
           /\ \A k \in Msg : msg[k].at = "queue" => msg'[k].at = "queue"
           /\ \A s : s \in DOMAIN cache' <=> s \in DOMAIN cache /\ \A l \in ids : s \notin list_id_to_data[l].samples
           /\ \A s \in DOMAIN cache' : cache'[s] = cache[s]
           /\ cache' \in [DOMAIN cache' -> Msg] /\ DOMAIN cache' \subseteq Sample
  <1>1. /\ cache' = [s \in DOMAIN cache \ UNION {list_id_to_data[l].samples : l \in ids} |-> cache[s]]
        /\ pi_learn_msg_done(UNION {list_id_to_data[l].msgs : l \in ids})
    BY DEF purge_cache
  <1>2. /\ \A s : s \in DOMAIN cache' <=> s \in DOMAIN cache /\ \A l \in ids : s \notin list_id_to_data[l].samples
        /\ \A s \in DOMAIN cache' : cache'[s] = cache[s]
    BY <1>1, ZenonT(60)
  <1>3. cache' \in [DOMAIN cache' -> Msg] /\ DOMAIN cache' \subseteq Sample
    BY <1>1, <1>2, ZenonT(60) DEF CacheInv, DataType, TypeOK
  <1>4. /\ msg' \in [Msg -> [at : {"target", "queue", "list", "done", "leaked"}, samples : SUBSET Sample]]
        /\ \A k \in Msg : k \notin UNION {list_id_to_data[l].msgs : l \in ids} => msg'[k] = msg[k]
    BY <1>1, Done DEF CacheInv
  <1>5. \A k \in Msg : (\A l \in ids : k \notin list_id_to_data[l].msgs) => msg'[k] = msg[k]
    BY <1>4, ZenonT(60)
  <1>6. \A k \in Msg : msg[k].at = "queue" => msg'[k].at = "queue"
    BY <1>5, ZenonT(60) DEF CacheInv, MemInv, Mem, Backed
  <1>7. QED
    BY <1>2, <1>3, <1>4, <1>5, <1>6

(* The end of some lists, by ack or expiry: no other list notices. *)
LEMMA PurgeMem ==
    ASSUME CacheInv, NEW ids \in SUBSET DOMAIN list_id_to_data, purge_cache(ids),
           DOMAIN list_id_to_data' = DOMAIN list_id_to_data \ ids,
           \A l \in DOMAIN list_id_to_data' :
             /\ list_id_to_data'[l].samples = list_id_to_data[l].samples
             /\ list_id_to_data'[l].msgs = list_id_to_data[l].msgs,
           UNCHANGED <<current_list_data, data, reported>>
    PROVE  MemInv'
  <1> DEFINE li == list_id_to_data
             cu == current_list_data
  <1>1. /\ \A k \in Msg : (\A l \in ids : k \notin li[l].msgs) => msg'[k] = msg[k]
        /\ \A s : s \in DOMAIN cache' <=> s \in DOMAIN cache /\ \A l \in ids : s \notin li[l].samples
        /\ \A s \in DOMAIN cache' : cache'[s] = cache[s]
    BY Purged, ZenonT(60)
  <1>2. InMsg(cache, li, cu)
    BY Typed, SMTT(60) DEF CacheInv
  <1>3. Backed(msg', cache', li', cu)
    <2> USE DEF CacheInv, MemInv, Mem, Backed, InMsg
    <2>1. ASSUME NEW s \in DOMAIN cache'
          PROVE  /\ msg'[cache'[s]].at = "list"
                 /\ \/ s \in cu.samples /\ cache'[s] \in cu.msgs
                    \/ \E l \in DOMAIN li' : s \in li'[l].samples /\ cache'[s] \in li'[l].msgs
      BY <1>1, <1>2, SMTT(60)
    <2>2. \A l \in DOMAIN li' : \A m \in li'[l].msgs :
             /\ msg'[m].at = "list" /\ m \notin cu.msgs
             /\ \A k \in DOMAIN li' \ {l} : m \notin li'[k].msgs
      BY <1>1, <1>2, SMTT(60)
    <2>3. \A m \in cu.msgs : msg'[m].at = "list"
      BY <1>1, <1>2, ZenonT(60)
    <2>4. QED
      BY <2>1, <2>2, <2>3, ZenonT(60)
  <1>4. Announced(cache', li', cu, data, reported)
    BY <1>1, SMTT(60) DEF CacheInv, MemInv, Mem, Announced
  <1>5. QED
    BY <1>3, <1>4 DEF MemInv, Mem

(* Whatever list a TaskAck takes for the one that was acked. *)
LEMMA TaskAckStep == CacheInv /\ TaskAck => CacheInv'
  <1> SUFFICES ASSUME CacheInv, TaskAck PROVE CacheInv'
    OBVIOUS
  <1>1. PICK ids \in SUBSET DOMAIN list_id_to_data :
          /\ purge_cache(ids)
          /\ list_id_to_data' = [l \in DOMAIN list_id_to_data \ ids |-> list_id_to_data[l]]
    BY DEF TaskAck
  <1>2. /\ RunsTask("ack")
        /\ UNCHANGED <<request, writer, hw_config, cb, config, data, list_id, current_list_data,
                       timeout_bit, tasks, aborted, reported>>
    BY DEF TaskAck
  <1>3. /\ msg' \in [Msg -> [at : {"target", "queue", "list", "done", "leaked"}, samples : SUBSET Sample]]
        /\ \A k \in Msg : msg[k].at = "queue" => msg'[k].at = "queue"
        /\ cache' \in [DOMAIN cache' -> Msg] /\ DOMAIN cache' \subseteq Sample
    BY <1>1, Purged
  <1>4. MemInv'
    BY <1>1, <1>2, PurgeMem, SMTT(60)
  <1>5. task_queue' \in Seq(Task) /\ QueuedOnce'
    BY <1>2, <1>3, RunKeeps, SMTT(60) DEF CacheInv, DataType
  <1>6. TypeOK' /\ DataType'
    BY <1>1, <1>2, <1>3, <1>5, ZenonT(60) DEF CacheInv, TypeOK, DataType, tasks
  <1>7. QED
    BY <1>2, <1>4, <1>5, <1>6, SMTT(60) DEF CacheInv, AbortsOnBuffered

(* What a sweep leaves alone. *)
LEMMA SweepKeeps ==
    ASSUME CacheInv, NEW a, NEW kind, Sweep(a, kind),
           \A k \in Msg : msg[k].at = "queue" => msg'[k].at = "queue"
    PROVE  /\ QueuedOnce' /\ ~aborted
           /\ UNCHANGED <<task_queue, request, writer, hw_config, cb, config, task_ack_timeout,
                          task_max_timeout, aborted>>
  <1>1. /\ ~aborted
        /\ UNCHANGED <<task_queue, request, writer, hw_config, cb, config, task_ack_timeout,
                       task_max_timeout, aborted>>
    BY DEF Sweep
  <1>2. \A t \in Task : t.kind = "new_digest" => t.msg \in Msg
    BY SMTT(60) DEF Task
  <1>3. \A i \in Digests : task_queue[i].msg \in Msg
    BY <1>2, SMTT(60) DEF CacheInv, DataType, Digests
  <1>4. QED
    BY <1>1, <1>3, SMTT(60) DEF CacheInv, QueuedOnce, Digests

(* Lists that have expired. *)
LEMMA TaskAckTimeoutStep ==
    ASSUME CacheInv, NEW a, TaskAckTimeout(a) PROVE CacheInv'
  <1> DEFINE old == {l \in DOMAIN list_id_to_data : list_id_to_data[l].timeout_bit}
  <1>1. /\ Sweep(a, "ack") /\ purge_cache(old)
        /\ list_id_to_data' = [l \in DOMAIN list_id_to_data \ old |->
                                 [list_id_to_data[l] EXCEPT !.timeout_bit = TRUE]]
        /\ UNCHANGED <<data, list_id, current_list_data, timeout_bit, reported, sweeps>>
    BY DEF TaskAckTimeout
  <1>2. old \in SUBSET DOMAIN list_id_to_data
    OBVIOUS
  <1> HIDE DEF old
  <1>3. /\ msg' \in [Msg -> [at : {"target", "queue", "list", "done", "leaked"}, samples : SUBSET Sample]]
        /\ \A k \in Msg : msg[k].at = "queue" => msg'[k].at = "queue"
        /\ cache' \in [DOMAIN cache' -> Msg] /\ DOMAIN cache' \subseteq Sample
    BY <1>1, <1>2, Purged, SMTT(60)
  <1>4. /\ DOMAIN list_id_to_data' = DOMAIN list_id_to_data \ old
        /\ \A l \in DOMAIN list_id_to_data' :
             /\ list_id_to_data'[l] \in ListData
             /\ list_id_to_data'[l].samples = list_id_to_data[l].samples
             /\ list_id_to_data'[l].msgs = list_id_to_data[l].msgs
    <2> DEFINE Old(r) == [r EXCEPT !.timeout_bit = TRUE]
    <2>1. ASSUME NEW r \in ListData
          PROVE  Old(r) \in ListData /\ Old(r).samples = r.samples /\ Old(r).msgs = r.msgs
      <3>1. Old(r).samples = r.samples /\ Old(r).msgs = r.msgs /\ Old(r).timeout_bit = TRUE
        BY SMTT(60) DEF ListData
      <3>2. Old(r) \in ListData
        BY ZenonT(60) DEF ListData
      <3>3. QED
        BY <3>1, <3>2
    <2>2. /\ DOMAIN list_id_to_data' = DOMAIN list_id_to_data \ old
          /\ \A l \in DOMAIN list_id_to_data' : list_id_to_data'[l] = Old(list_id_to_data[l])
      BY <1>1
    <2>3. \A l \in DOMAIN list_id_to_data : list_id_to_data[l] \in ListData
      BY DEF CacheInv, DataType
    <2> HIDE DEF Old
    <2>4. QED
      BY <2>1, <2>2, <2>3
  <1>5. MemInv'
    BY <1>1, <1>2, <1>4, PurgeMem
  <1>6. /\ QueuedOnce' /\ ~aborted
        /\ UNCHANGED <<task_queue, request, writer, hw_config, cb, config, task_ack_timeout,
                       task_max_timeout, aborted>>
    BY <1>1, <1>3, SweepKeeps
  <1>7. list_id_to_data' \in [DOMAIN list_id_to_data' -> ListData]
    BY <1>1, <1>4, SMTT(60)
  <1>8. TypeOK' /\ DataType'
    BY <1>1, <1>3, <1>4, <1>6, <1>7, SMTT(60) DEF CacheInv, TypeOK, DataType
  <1>9. QED
    BY <1>1, <1>5, <1>6, <1>8, SMTT(60) DEF CacheInv, AbortsOnBuffered

(* What was buffered too long is sent. *)
LEMMA TaskMaxTimeoutStep ==
    ASSUME CacheInv, NEW a, TaskMaxTimeout(a) PROVE CacheInv'
  <1>1. /\ Sweep(a, "max") /\ data # {}
        /\ \/ send_digest(data, current_list_data)
           \/ /\ timeout_bit' = TRUE
              /\ UNCHANGED <<list_id_to_data, data, list_id, current_list_data, reported>>
        /\ UNCHANGED <<msg, cache, sweeps>>
    BY DEF TaskMaxTimeout
  <1>2. /\ QueuedOnce' /\ ~aborted
        /\ UNCHANGED <<task_queue, request, writer, hw_config, cb, config, task_ack_timeout,
                       task_max_timeout, aborted>>
    BY <1>1, SweepKeeps
  <1>3. CASE send_digest(data, current_list_data)
    <2>1. /\ cb /\ data \in SUBSET Sample
          /\ current_list_data \in [samples : SUBSET Sample, msgs : SUBSET Msg]
          /\ Mem(msg', cache', list_id_to_data, current_list_data, data, reported)
      BY <1>1 DEF CacheInv, TypeOK, DataType, MemInv
    <2>2. /\ MemInv'
          /\ data' = {} /\ list_id' \in Nat \ {0} /\ timeout_bit' \in BOOLEAN
          /\ DOMAIN list_id_to_data' \subseteq 1..(list_id' - 1)
          /\ DOMAIN reported' \subseteq Nat
          /\ list_id_to_data' \in [DOMAIN list_id_to_data' -> ListData]
          /\ current_list_data' \in [samples : SUBSET Sample, msgs : SUBSET Msg]
      BY <1>1, <1>3, <2>1, SendStep, ZenonT(60)
    <2>3. TypeOK' /\ DataType'
      BY <1>1, <1>2, <2>2, ZenonT(60) DEF CacheInv, TypeOK, DataType
    <2>4. QED
      BY <1>2, <2>2, <2>3, ZenonT(60) DEF CacheInv, AbortsOnBuffered
  <1>4. CASE /\ timeout_bit' = TRUE
             /\ UNCHANGED <<list_id_to_data, data, list_id, current_list_data, reported>>
    <2>1. MemInv'
      BY <1>1, <1>4 DEF CacheInv, MemInv
    <2>2. TypeOK' /\ DataType'
      BY <1>1, <1>2, <1>4, ZenonT(60) DEF CacheInv, TypeOK, DataType
    <2>3. QED
      BY <1>2, <1>4, <2>1, <2>2, ZenonT(60) DEF CacheInv, AbortsOnBuffered
  <1>5. QED
    BY <1>1, <1>3, <1>4, ZenonT(60)

-----------------------------------------------------------------------------
(* Configuration, and the steps that do not touch the digest. *)

LEMMA SetTimeoutsType ==
    ASSUME TypeOK, NEW c, SetTimeouts(c)
    PROVE  DOMAIN sweeps' \subseteq Addr /\ {task_ack_timeout', task_max_timeout'} \subseteq Addr \cup {Null}
  <1> DEFINE one == Cancelled(sweeps, task_max_timeout)
             Two(a) == IF c.max_timeout THEN With(one, a, [kind |-> "max", cancelled |-> FALSE]) ELSE one
             Three(a) == Cancelled(Two(a), task_ack_timeout)
  <1>1. PICK a \in IF c.max_timeout THEN Alloc(DOMAIN one) ELSE {task_max_timeout} :
          \E b \in IF c.ack_timeout THEN Alloc(DOMAIN Three(a)) ELSE {task_ack_timeout} :
            /\ sweeps' = IF c.ack_timeout THEN With(Three(a), b, [kind |-> "ack", cancelled |-> FALSE])
                         ELSE Three(a)
            /\ task_max_timeout' = a /\ task_ack_timeout' = b
    BY ZenonT(60) DEF SetTimeouts
  <1>2. PICK b \in IF c.ack_timeout THEN Alloc(DOMAIN Three(a)) ELSE {task_ack_timeout} :
            /\ sweeps' = IF c.ack_timeout THEN With(Three(a), b, [kind |-> "ack", cancelled |-> FALSE])
                         ELSE Three(a)
            /\ task_max_timeout' = a /\ task_ack_timeout' = b
    BY <1>1, SMTT(60)
  <1>3. \A used : Alloc(used) \subseteq Addr
    BY ZenonT(60) DEF Alloc
  <1>4. /\ a \in Addr \cup {Null} /\ (c.max_timeout => a \in Addr)
        /\ b \in Addr \cup {Null} /\ (c.ack_timeout => b \in Addr)
    BY <1>2, <1>3 DEF TypeOK
  <1>6. \A f, p : DOMAIN Cancelled(f, p) = DOMAIN f
    BY SMTT(60) DEF Cancelled
  <1>7. DOMAIN one \subseteq Addr
    BY <1>6, ZenonT(60) DEF TypeOK
  <1> HIDE DEF one
  <1>8. DOMAIN Two(a) \subseteq Addr
    <2>1. CASE c.max_timeout
      <3>1. DOMAIN Two(a) = DOMAIN one \cup {a}
        BY <2>1, ZenonT(60) DEF With
      <3>2. QED
        BY <1>4, <1>7, <2>1, <3>1, SMTT(60)
    <2>2. CASE ~c.max_timeout
      BY <1>7, <2>2, ZenonT(60)
    <2>3. QED
      BY <2>1, <2>2, ZenonT(60)
  <1> HIDE DEF Two
  <1>9. DOMAIN Three(a) \subseteq Addr
    BY <1>6, <1>8, ZenonT(60)
  <1> HIDE DEF Three
  <1>10. DOMAIN sweeps' \subseteq Addr
    <2>1. CASE c.ack_timeout
      <3>1. DOMAIN sweeps' = DOMAIN Three(a) \cup {b}
        BY <1>2, <2>1, ZenonT(60) DEF With
      <3>2. QED
        BY <1>4, <1>9, <2>1, <3>1, ZenonT(60)
    <2>2. CASE ~c.ack_timeout
      BY <1>2, <1>9, <2>2, ZenonT(60)
    <2>3. QED
      BY <2>1, <2>2, ZenonT(60)
  <1>11. QED
    BY <1>2, <1>4, <1>10, ZenonT(60)

(* reset() of a digest whose lists back everything that is cached; it      *)
(* aborts only if something is buffered.                                   *)
LEMMA ResetStep ==
    ASSUME CacheInv, RunsTask("config_write"), Reset,
           UNCHANGED <<request, hw_config, cb, reported>>, writer' \in [Writer -> WriterType]
    PROVE  CacheInv'
  <1> DEFINE ids == DOMAIN list_id_to_data
             purged == UNION {list_id_to_data[l].samples : l \in ids}
  <1>1. CASE DOMAIN cache \ purged # {}
    <2>1. aborted' = TRUE /\ UNCHANGED <<msg, config, digest, tasks>>
      BY <1>1, ZenonT(60) DEF Reset
    <2>2. data # {}
      <3>1. PICK s \in DOMAIN cache : \A l \in ids : s \notin list_id_to_data[l].samples
        BY <1>1, SMTT(60)
      <3>2. QED
        BY <3>1 DEF CacheInv, MemInv, Mem, Backed, Announced
    <2>3. task_queue' \in Seq(Task) /\ QueuedOnce'
      BY <2>1, RunKeeps, ZenonT(60) DEF CacheInv, DataType
    <2>4. TypeOK' /\ DataType'
      BY <2>1, <2>3, ZenonT(60) DEF CacheInv, TypeOK, DataType, digest, tasks
    <2>5. MemInv'
      BY <2>1, SMTT(60) DEF CacheInv, MemInv, digest
    <2>6. QED
      BY <2>1, <2>2, <2>3, <2>4, <2>5, ZenonT(60) DEF CacheInv, AbortsOnBuffered, digest
  <1>2. CASE DOMAIN cache \ purged = {}
    <2>1. /\ purge_cache(ids)
          /\ config' = NoConfig /\ list_id_to_data' = NoFn
          /\ data' = {} /\ current_list_data' = EmptyList /\ timeout_bit' = FALSE
          /\ CancelTasks
          /\ UNCHANGED <<list_id, aborted>>
      BY <1>2, ZenonT(60) DEF Reset
    <2>2. /\ msg' \in [Msg -> [at : {"target", "queue", "list", "done", "leaked"}, samples : SUBSET Sample]]
          /\ \A k \in Msg : msg[k].at = "queue" => msg'[k].at = "queue"
          /\ cache' \in [DOMAIN cache' -> Msg] /\ DOMAIN cache' \subseteq Sample
          /\ \A s : s \in DOMAIN cache' <=> s \in DOMAIN cache /\ \A l \in ids : s \notin list_id_to_data[l].samples
      BY <2>1, Purged
    <2>3. DOMAIN cache' = {}
      <3>1. \A s \in DOMAIN cache : \E l \in ids : s \in list_id_to_data[l].samples
        BY <1>2
      <3>2. QED
        BY <2>2, <3>1, ZenonT(60)
    <2>4. MemInv'
      BY <2>1, <2>3, ZenonT(60) DEF MemInv, Mem, Backed, Announced, EmptyList, NoFn
    <2>5. task_queue' \in Seq(Task) /\ QueuedOnce'
      BY <2>2, RunKeeps DEF CacheInv, DataType
    <2>6. /\ DOMAIN sweeps' = DOMAIN sweeps
          /\ task_ack_timeout' = Null /\ task_max_timeout' = task_max_timeout
      BY <2>1, ZenonT(60) DEF CancelTasks, Cancelled
    <2>7. TypeOK'
      BY <2>1, <2>2, <2>6, ZenonT(60) DEF CacheInv, TypeOK, NoFn
    <2>8. EmptyList \in [samples : SUBSET Sample, msgs : SUBSET Msg] /\ NoFn \in [DOMAIN NoFn -> ListData]
      BY SMTT(60) DEF EmptyList, NoFn
    <2>9. DataType'
      BY <2>1, <2>2, <2>5, <2>8, ZenonT(60) DEF CacheInv, DataType, RunsTask
    <2>10. ~aborted
      BY DEF RunsTask
    <2>11. QED
      BY <2>1, <2>4, <2>5, <2>7, <2>9, <2>10, ZenonT(60) DEF CacheInv, AbortsOnBuffered
  <1>3. QED
    BY <1>1, <1>2

LEMMA TaskConfigWriteStep == CacheInv /\ TaskConfigWrite => CacheInv'
  <1> SUFFICES ASSUME CacheInv, TaskConfigWrite PROVE CacheInv'
    OBVIOUS
  <1> DEFINE w == Head(task_queue).writer
             refused == config.set = (writer[w].type = "INSERT")
  <1>1. /\ RunsTask("config_write")
        /\ writer' = [writer EXCEPT ![w] = IF refused THEN IdleWriter ELSE [@ EXCEPT !.pc = "configured"]]
        /\ \/ UNCHANGED <<msg, config, digest, tasks, aborted>>
           \/ /\ config' = writer[w].config
              /\ SetTimeouts(config')
              /\ UNCHANGED <<msg, digest, aborted>>
           \/ Reset
        /\ UNCHANGED <<request, hw_config, cb, reported>>
    BY DEF TaskConfigWrite
  <1>2. w \in Writer /\ task_queue \in Seq(Task) /\ QueuedOnce
    <2>1. \A t \in Task : t.kind = "config_write" => t.writer \in Writer
      BY SMTT(60) DEF Task
    <2>2. Head(task_queue) \in Task /\ task_queue \in Seq(Task) /\ Head(task_queue).kind = "config_write"
      BY <1>1, SMTT(60) DEF CacheInv, DataType, RunsTask
    <2>3. QED
      BY <2>1, <2>2, ZenonT(60) DEF CacheInv
  <1>3. writer' \in [Writer -> WriterType] /\ writer[w].config \in Config \cup {NoConfig}
    <2> HIDE DEF w, refused
    <2>1. writer \in [Writer -> WriterType] /\ writer[w] \in WriterType
      BY <1>2, ZenonT(60) DEF CacheInv, DataType
    <2>2. writer[w].config \in Config \cup {NoConfig} /\ IdleWriter \in WriterType
      BY <2>1, SMTT(60) DEF WriterType, IdleWriter
    <2>3. [writer[w] EXCEPT !.pc = "configured"] \in WriterType
      BY <2>1, ZenonT(60) DEF WriterType
    <2>4. QED
      BY <1>1, <2>1, <2>2, <2>3, ZenonT(60)
  <1>4. CASE UNCHANGED <<msg, config, digest, tasks, aborted>>
    <2>1. task_queue' \in Seq(Task) /\ QueuedOnce'
      BY <1>1, <1>2, <1>4, RunKeeps
    <2>2. QED
      BY <1>1, <1>3, <1>4, <2>1, Outside, ZenonT(60) DEF CacheInv, TypeOK, DataType, tasks
  <1>5. CASE /\ config' = writer[w].config
             /\ SetTimeouts(config')
             /\ UNCHANGED <<msg, digest, aborted>>
    <2>1. task_queue' \in Seq(Task) /\ QueuedOnce'
      BY <1>1, <1>2, <1>5, RunKeeps, ZenonT(60)
    <2>2. DOMAIN sweeps' \subseteq Addr /\ {task_ack_timeout', task_max_timeout'} \subseteq Addr \cup {Null}
      BY <1>5, SetTimeoutsType, ZenonT(60) DEF CacheInv
    <2>3. MemInv'
      BY <1>1, <1>5, ZenonT(60) DEF CacheInv, MemInv, digest
    <2> HIDE DEF w, refused
    <2>4. TypeOK' /\ DataType'
      BY <1>1, <1>3, <1>5, <2>1, <2>2, ZenonT(60) DEF CacheInv, TypeOK, DataType, digest
    <2>5. QED
      BY <1>1, <1>5, <2>1, <2>3, <2>4, SMTT(60) DEF CacheInv, AbortsOnBuffered, digest
  <1>6. CASE Reset
    BY <1>1, <1>3, <1>6, ResetStep
  <1>7. QED
    BY <1>1, <1>4, <1>5, <1>6, ZenonT(60)

(* A new pipeline: everything starts again, but for what is in the queue. *)
LEMMA TaskP4ChangeStep == CacheInv /\ TaskP4Change => CacheInv'
  <1> SUFFICES ASSUME CacheInv, TaskP4Change PROVE CacheInv'
    OBVIOUS
  <1>1. /\ RunsTask("p4_change")
        /\ config' = NoConfig /\ cache' = NoFn /\ list_id_to_data' = NoFn
        /\ data' = {} /\ list_id' = 1 /\ current_list_data' = EmptyList /\ timeout_bit' = FALSE
        /\ msg' = [m \in Msg |-> IF msg[m].at = "list" THEN [msg[m] EXCEPT !.at = "leaked"] ELSE msg[m]]
        /\ DOMAIN sweeps' = DOMAIN sweeps
        /\ task_ack_timeout' = Null /\ task_max_timeout' = Null
        /\ reported' = NoFn
        /\ UNCHANGED <<request, writer, hw_config, cb, aborted>>
    BY ZenonT(60) DEF TaskP4Change, NewDigest, Cancelled
  <1>2. /\ msg' \in [Msg -> [at : {"target", "queue", "list", "done", "leaked"}, samples : SUBSET Sample]]
        /\ \A k \in Msg : msg[k].at = "queue" => msg'[k].at = "queue"
    BY <1>1, ZenonT(60) DEF CacheInv, TypeOK
  <1>3. task_queue' \in Seq(Task) /\ QueuedOnce'
    BY <1>1, <1>2, RunKeeps DEF CacheInv, DataType
  <1>4. MemInv'
    BY <1>1, SMTT(60) DEF MemInv, Mem, Backed, Announced, EmptyList, NoFn
  <1>5. TypeOK'
    BY <1>1, <1>2, ZenonT(60) DEF CacheInv, TypeOK, NoFn
  <1>6. /\ EmptyList \in [samples : SUBSET Sample, msgs : SUBSET Msg]
        /\ NoFn \in [DOMAIN NoFn -> ListData] /\ NoFn \in [DOMAIN NoFn -> Msg]
        /\ DOMAIN NoFn \subseteq Nat /\ 1 \in Nat \ {0}
    BY SMTT(60) DEF EmptyList, NoFn
  <1>7. DataType'
    BY <1>1, <1>3, <1>6, ZenonT(60) DEF CacheInv, DataType
  <1>8. ~aborted
    BY <1>1 DEF RunsTask
  <1>9. QED
    BY <1>1, <1>3, <1>4, <1>5, <1>7, <1>8, ZenonT(60) DEF CacheInv, AbortsOnBuffered

(* The Write RPCs: what becomes of a writer is one again. *)
LEMMA WriterFacts ==
    ASSUME DataType
    PROVE  /\ \A w \in Writer : writer[w] \in WriterType
           /\ \A w \in Writer, b \in BOOLEAN : [writer[w] EXCEPT !.alone = b] \in WriterType
           /\ IdleWriter \in WriterType
           /\ \A w \in Writer : Idle(w) \in BOOLEAN
  <1>1. \A w \in Writer : writer[w] \in WriterType
    BY DEF DataType
  <1>2. \A r \in WriterType, b \in BOOLEAN : [r EXCEPT !.alone = b] \in WriterType
    BY ZenonT(60) DEF WriterType
  <1>3. IdleWriter \in WriterType
    BY SMTT(60) DEF IdleWriter, WriterType
  <1>4. QED
    BY <1>1, <1>2, <1>3 DEF Idle

LEMMA ConfigWriteStep ==
    ASSUME CacheInv, NEW w \in Writer, NEW type \in {"INSERT", "MODIFY", "DELETE"},
           NEW c \in Config \cup {NoConfig}, config_write(w, type, c)
    PROVE  CacheInv'
  <1> DEFINE t == [kind |-> "config_write", writer |-> w]
             new == [pc |-> "waiting", type |-> type, config |-> c,
                     alone |-> ~updating /\ \A u \in Writer : Idle(u)]
  <1>1. /\ writer' = [v \in Writer |-> IF v = w THEN new ELSE [writer[v] EXCEPT !.alone = Idle(v)]]
        /\ Post(t)
        /\ UNCHANGED <<msg, request, hw_config, cb, config, digest, tasks, aborted, reported>>
    BY ZenonT(60) DEF config_write
  <1>2. t \in Task /\ t.kind # "new_digest" /\ new \in WriterType
    BY SMTT(60) DEF Task, WriterType
  <1> HIDE DEF t, new
  <1>3. task_queue' \in Seq(Task) /\ QueuedOnce'
    BY <1>1, <1>2, PostKeeps DEF CacheInv, DataType
  <1>4. writer' \in [Writer -> WriterType]
    <2>1. \A v \in Writer : [writer[v] EXCEPT !.alone = Idle(v)] \in WriterType
      BY WriterFacts, ZenonT(60) DEF CacheInv
    <2>2. QED
      BY <1>1, <1>2, <2>1, ZenonT(60)
  <1>5. QED
    BY <1>1, <1>3, <1>4, Outside, ZenonT(60) DEF CacheInv, TypeOK, DataType, tasks

LEMMA LearnConfigSetStep ==
    ASSUME CacheInv, NEW w \in Writer, NEW ok \in BOOLEAN, pi_learn_config_set(w, ok)
    PROVE  CacheInv'
  <1>1. /\ writer' = [writer EXCEPT ![w] = IdleWriter]
        /\ hw_config' = IF ok THEN pi_config(writer[w].config) ELSE hw_config
        /\ UNCHANGED <<msg, task_queue, request, cb, config, digest, tasks, aborted, reported>>
    BY DEF pi_learn_config_set
  <1>2. writer' \in [Writer -> WriterType]
    BY <1>1, WriterFacts DEF CacheInv, DataType
  <1>3. writer[w].config \in Config \cup {NoConfig}
    BY WriterFacts, ZenonT(60) DEF CacheInv, WriterType
  <1>4. hw_config' \in {pi_config(c) : c \in Config \cup {NoConfig}}
    BY <1>1, <1>3, ZenonT(60) DEF CacheInv, TypeOK
  <1>5. QueuedOnce'
    BY <1>1 DEF CacheInv, QueuedOnce, Digests
  <1>6. QED
    BY <1>1, <1>2, <1>4, <1>5, Outside, ZenonT(60) DEF CacheInv, TypeOK, DataType, tasks

LEMMA P4ChangeStep ==
    ASSUME CacheInv, NEW ok \in BOOLEAN, p4_change(ok) PROVE CacheInv'
  <1> DEFINE t == [kind |-> "p4_change"]
  <1>1. /\ writer' = [w \in Writer |-> [writer[w] EXCEPT !.alone = Idle(w)]]
        /\ Post(t) \/ UNCHANGED task_queue
        /\ UNCHANGED <<msg, request, hw_config, cb, config, digest, tasks, aborted, reported>>
    BY DEF p4_change
  <1>2. t \in Task /\ t.kind # "new_digest"
    BY SMTT(60) DEF Task
  <1> HIDE DEF t
  <1>3. task_queue' \in Seq(Task) /\ QueuedOnce'
    BY <1>1, <1>2, PostKeeps DEF CacheInv, DataType, QueuedOnce, Digests
  <1>4. writer' \in [Writer -> WriterType]
    BY <1>1, WriterFacts DEF CacheInv
  <1>5. QED
    BY <1>1, <1>3, <1>4, Outside, ZenonT(60) DEF CacheInv, TypeOK, DataType, tasks

(* The stream, the callback, the freeing of sweeps and the start of a      *)
(* pipeline change.                                                        *)
LEMMA QuietStep ==
    ASSUME CacheInv,
           \/ \E l \in DOMAIN reported : ack(l)
           \/ StreamChannelNext \/ stream_message_response_register_cb \/ TaskRegisterCb
           \/ pi_update_device_start
           \/ \E a \in Addr : FreeSweep(a)
    PROVE  CacheInv'
  <1>0. /\ task_queue \in Seq(Task) /\ QueuedOnce /\ writer \in [Writer -> WriterType] /\ request \in Nat
        /\ hw_config \in {pi_config(c) : c \in Config \cup {NoConfig}} /\ DOMAIN sweeps \subseteq Addr
        /\ {task_ack_timeout, task_max_timeout} \subseteq Addr \cup {Null}
    BY DEF CacheInv, TypeOK, DataType
  <1>1. ASSUME NEW l \in DOMAIN reported, ack(l) PROVE CacheInv'
    <2> DEFINE t == [kind |-> "ack", list |-> l, request |-> request']
    <2>1. /\ request' = request + 1 /\ Post(t)
          /\ UNCHANGED <<msg, writer, hw_config, cb, config, digest, tasks, aborted, reported>>
      BY <1>1, ZenonT(60) DEF ack
    <2>2. t \in Task /\ t.kind # "new_digest" /\ request' \in Nat
      BY <1>0, <2>1, SMTT(60) DEF Task
    <2> HIDE DEF t
    <2>3. task_queue' \in Seq(Task) /\ QueuedOnce'
      BY <2>1, <2>2, <1>0, PostKeeps, ZenonT(60)
    <2>4. QED
      BY <1>0, <2>1, <2>2, <2>3, Outside, ZenonT(60) DEF tasks
  <1>2. CASE StreamChannelNext
    <2>1. /\ request' = request + 1
          /\ UNCHANGED <<msg, task_queue, writer, hw_config, cb, config, digest, tasks, aborted, reported>>
      BY <1>2, ZenonT(60) DEF StreamChannelNext
    <2>2. QueuedOnce' /\ request' \in Nat
      BY <1>0, <2>1, SMTT(60) DEF QueuedOnce, Digests
    <2>3. QED
      BY <1>0, <2>1, <2>2, Outside DEF tasks
  <1>3. CASE stream_message_response_register_cb
    <2> DEFINE t == [kind |-> "register_cb"]
    <2>1. /\ Post(t)
          /\ UNCHANGED <<msg, request, writer, hw_config, cb, config, digest, tasks, aborted, reported>>
      BY <1>3, ZenonT(60) DEF stream_message_response_register_cb
    <2>2. t \in Task /\ t.kind # "new_digest"
      BY SMTT(60) DEF Task
    <2> HIDE DEF t
    <2>3. task_queue' \in Seq(Task) /\ QueuedOnce'
      BY <2>1, <2>2, <1>0, PostKeeps, ZenonT(60)
    <2>4. QED
      BY <1>0, <2>1, <2>3, Outside, ZenonT(60) DEF tasks
  <1>4. CASE TaskRegisterCb
    <2>1. /\ RunsTask("register_cb") /\ cb' = TRUE
          /\ UNCHANGED <<msg, request, writer, hw_config, config, digest, tasks, aborted, reported>>
      BY <1>4, ZenonT(60) DEF TaskRegisterCb
    <2>2. task_queue' \in Seq(Task) /\ QueuedOnce'
      BY <2>1, <1>0, RunKeeps, ZenonT(60)
    <2>3. QED
      BY <1>0, <2>1, <2>2, Outside DEF tasks
  <1>5. CASE pi_update_device_start
    <2>1. /\ hw_config' = pi_config(NoConfig)
          /\ UNCHANGED <<msg, task_queue, request, writer, cb, config, digest, tasks, aborted, reported>>
      BY <1>5, SMTT(60) DEF pi_update_device_start
    <2>2. QueuedOnce'
      BY <1>0, <2>1, ZenonT(60) DEF QueuedOnce, Digests
    <2>3. QED
      BY <1>0, <2>1, <2>2, Outside, ZenonT(60) DEF tasks
  <1>6. ASSUME NEW a \in Addr, FreeSweep(a) PROVE CacheInv'
    <2>1. /\ DOMAIN sweeps' \subseteq DOMAIN sweeps
          /\ UNCHANGED <<msg, task_queue, request, writer, hw_config, cb, config, digest, aborted,
                         reported, task_ack_timeout, task_max_timeout>>
      BY <1>6, ZenonT(60) DEF FreeSweep
    <2>2. QueuedOnce'
      BY <1>0, <2>1, ZenonT(60) DEF QueuedOnce, Digests
    <2>3. QED
      BY <1>0, <2>1, <2>2, Outside, ZenonT(60) DEF tasks
  <1>7. QED
    BY <1>1, <1>2, <1>3, <1>4, <1>5, <1>6, ZenonT(60)

-----------------------------------------------------------------------------
LEMMA InitStep == Init => CacheInv
  <1> SUFFICES ASSUME Init PROVE CacheInv
    BY ZenonT(60)
  <1> USE DEF Init, NoFn, EmptyList
  <1>1. TypeOK
    BY SMTT(60) DEF TypeOK
  <1>2. DataType
    <2>1. IdleWriter \in WriterType
      BY ZenonT(60) DEF IdleWriter, WriterType
    <2>2. /\ current_list_data \in [samples : SUBSET Sample, msgs : SUBSET Msg]
          /\ list_id_to_data \in [DOMAIN list_id_to_data -> ListData] /\ cache \in [DOMAIN cache -> Msg]
          /\ DOMAIN reported \subseteq Nat /\ list_id \in Nat \ {0} /\ request \in Nat
      BY SMTT(60)
    <2>3. writer \in [Writer -> WriterType] /\ task_queue \in Seq(Task)
      BY <2>1, SMTT(60)
    <2>4. QED
      BY <2>2, <2>3, ZenonT(60) DEF DataType
  <1>3. MemInv
    BY ZenonT(60) DEF MemInv, Mem, Backed, Announced
  <1>4. QueuedOnce
    <2>1. task_queue = <<>>
      BY ZenonT(60)
    <2>2. Digests = {}
      <3> HIDE DEF Init
      <3> QED BY <2>1, SMTT(60) DEF Digests
    <2>3. QED
      BY <2>2, ZenonT(60) DEF QueuedOnce
  <1>5. QED
    BY <1>1, <1>2, <1>3, <1>4 DEF CacheInv, AbortsOnBuffered

LEMMA NextStep == CacheInv /\ [Next]_vars => CacheInv'
  <1> SUFFICES ASSUME CacheInv, [Next]_vars PROVE CacheInv'
    BY ZenonT(60)
  <1>1. CASE UNCHANGED vars
    <2>1. TypeOK' /\ DataType'
      BY <1>1, ZenonT(60) DEF vars, digest, tasks, CacheInv, TypeOK, DataType
    <2>2. QueuedOnce' /\ MemInv' /\ (data' # {} => cb') /\ AbortsOnBuffered'
      BY <1>1, ZenonT(60) DEF vars, digest, tasks, CacheInv, QueuedOnce, Digests, MemInv, AbortsOnBuffered
    <2>3. QED
      BY <2>1, <2>2, ZenonT(60) DEF CacheInv
  <1>2. CASE \E m \in Msg, samples \in SUBSET Sample : digest_cb(m, samples)
    BY <1>2, DigestCbStep
  <1>3. ASSUME NEW w \in Writer,
               \/ \E type \in {"INSERT", "MODIFY"}, c \in Config : config_write(w, type, c)
               \/ config_write(w, "DELETE", NoConfig)
               \/ \E ok \in BOOLEAN : pi_learn_config_set(w, ok)
        PROVE  CacheInv'
    BY <1>3, ConfigWriteStep, LearnConfigSetStep
  <1>4. CASE \E ok \in BOOLEAN : p4_change(ok)
    BY <1>4, P4ChangeStep
  <1>5. CASE RunTask
    BY <1>5, LearnStep, TaskAckStep, TaskConfigWriteStep, TaskP4ChangeStep, QuietStep, SMTT(60) DEF RunTask
  <1>6. CASE \E a \in Addr : RunSweep(a)
    BY <1>6, TaskMaxTimeoutStep, TaskAckTimeoutStep, QuietStep DEF RunSweep
  <1>7. QED
    BY <1>1, <1>2, <1>3, <1>4, <1>5, <1>6, QuietStep DEF Next

(* The cache of a digest is always sound: each sample it suppresses lies   *)
(* in memory that the manager still owns and is in exactly one list that   *)
(* the client was sent or is about to be sent, whatever the order of learn *)
(* messages, acks read from freed memory, sweeps, Writes and pipeline      *)
(* changes; assert(cache.empty()) fails only if samples are buffered.      *)
THEOREM CacheSound == Spec => []CacheIsSound
  <1>1. CacheInv => CacheIsSound
    BY MemImplies DEF CacheInv, CacheIsSound
  <1>2. QED
    BY InitStep, NextStep, <1>1, PTL DEF Spec
=============================================================================

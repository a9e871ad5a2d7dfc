---------------------------- MODULE DirectTables ----------------------------
(***************************************************************************)
(* One match table with direct actions, down the whole stack: the table    *)
(* operations of DeviceMgr (proto/frontend/src/device_mgr.cpp) with their  *)
(* TableInfoStore, the C++ front end's MatchTable, the checks of           *)
(* src/pi_tables.c, the Netcope NP4 target (targets/np4), which keeps one  *)
(* copy of the table in each of its ATOMs, and the IdleTimeoutBuffer,      *)
(* which keeps a second store of its own, on its own thread, and batches   *)
(* the idle notifications of the target for the controller.                *)
(*                                                                         *)
(* Access arbitration lets one Write, Read or pipeline change at the table *)
(* in at a time (AccessArbitration), so one operation is in progress; its  *)
(* target call and the bookkeeping after it are two steps, between which   *)
(* the thread of the buffer and the notifications of the target run.       *)
(***************************************************************************)
EXTENDS Integers, Sequences, FiniteSets, SequencesExt, Functions

CONSTANTS
    Configs,            \* what the process is linked with and programmed for: see Init
    Mf,                 \* the match fields, without the priority
    Bodies,             \* what clients write: act, info, res (0: not given)
    InitialAct,         \* the default action of the program
    Priorities,         \* what clients give for ternary tables
    DEFAULT_PRIORITY,   \* what NP4 reports for every rule that has a priority
    Capacity,           \* rules per table
    QueueMax,           \* max_queue_size
    MaxFailures, MaxNotes   \* bounds; a configuration bounds the writes

VARIABLES
    cfg,        \* target, match kind, number of ATOMs, whether the table ages
    rules,      \* the target: per ATOM, the rule at each index
    dflt,       \* the target: per ATOM, the default entry
    store,      \* DeviceMgr's table_info_store
    op,         \* the operation in progress
    istore,     \* the idle buffer's table_info_store
    queue,      \* its task queue
    senders,    \* TaskSendNotifications waiting for max_buffering_ns
    notes,      \* its notifications message
    cb,         \* its callback and the one registered with PI are set
    aged,       \* the target: rules found idle and not yet notified
    wrote,      \* history: what the client's writes that succeeded said of each key
    uneven,     \* history: a call failed when some ATOMs had done it
    budget

target == <<rules, dflt>>
idle == <<istore, queue, senders, notes, cb, aged>>
vars == <<cfg, target, store, op, idle, wrote, uneven, budget>>

NoFn == [x \in {} |-> 0]
With(f, x, v) == [y \in DOMAIN f \cup {x} |-> IF y = x THEN v ELSE f[y]]
Without(f, x) == Restrict(f, DOMAIN f \ {x})

NoRule == [mf |-> "none"]
Default == [mf |-> "default", prio |-> 0]
Atoms == 1..cfg.atoms
Slots == 0..Capacity - 1
Quiet == [pc |-> "idle"]
Then(pc) == [op EXCEPT !.pc = pc]
Spend(what) == budget[what] > 0 /\ budget' = [budget EXCEPT ![what] = @ - 1]

\* construct_match_key: a priority for ternary tables, none for the others.
Keys == [mf : Mf, prio : IF cfg.kind = "ternary" THEN Priorities ELSE {0}]
-----------------------------------------------------------------------------
(* The NP4 rule table: a new rule takes the lowest free index, a key has   *)
(* one rule, and the priority is not part of the key.  The other target    *)
(* stands for one with ageing and priorities.                              *)
SameKey(r, k) == r.mf = k.mf /\ (cfg.target = "np4" \/ r.prio = k.prio)
IndexesOf(tab, k) == {i \in Slots : tab[i] # NoRule /\ SameKey(tab[i], k)}
FreeSlots(tab) == {i \in Slots : tab[i] = NoRule}
Lowest(s) == CHOOSE i \in s : \A j \in s : i <= j
Size(tab) == Capacity - Cardinality(FreeSlots(tab))

\* A target with direct resources sets the ones given; NP4 ignores them.
DirectRes(old, res) == IF cfg.target = "np4" \/ res = 0 THEN old ELSE res

\* Each ATOM in turn does the call, up to the first that cannot or throws.
Throws == \* a fault the model adds, at most MaxFailures times
    {0} \cup (IF budget.failures > 0 THEN Atoms ELSE {})

FirstBad(bad, t) ==
    LET stop == {a \in Atoms : bad[a] \/ a = t} IN IF stop = {} THEN 0 ELSE Lowest(stop)

EachAtom(tab, new, stop) == [a \in DOMAIN tab |-> IF stop = 0 \/ a < stop THEN new[a] ELSE tab[a]]

InsertRule(tab, r) == IF FreeSlots(tab) = {} THEN tab ELSE [tab EXCEPT ![Lowest(FreeSlots(tab))] = r]

EntryAdd(k, r, t) ==
    LET bad  == [a \in Atoms |-> FreeSlots(rules[a]) = {} \/ IndexesOf(rules[a], k) # {}]
        stop == FirstBad(bad, t)
    IN  /\ rules' = EachAtom(rules, [a \in Atoms |-> InsertRule(rules[a], r)], stop)
        /\ UNCHANGED dflt
        /\ uneven' = (uneven \/ stop > 1)
        /\ op' = IF stop > 0 THEN Then("failed")
                 ELSE [Then("added") EXCEPT !.handle = Lowest(FreeSlots(rules[1]))]

EntryDelete(i, t) ==
    LET stop == FirstBad([a \in Atoms |-> rules[a][i] = NoRule], t)
    IN  /\ rules' = EachAtom(rules, [a \in Atoms |-> [rules[a] EXCEPT ![i] = NoRule]], stop)
        /\ UNCHANGED dflt
        /\ uneven' = (uneven \/ stop > 1)
        /\ op' = Then(IF stop > 0 THEN "failed" ELSE "deleted")

\* The index of the key in the first ATOM serves for all of them.
EntryDeleteWKey(k, t) ==
    IF IndexesOf(rules[1], k) = {}
    THEN op' = Then("failed") /\ UNCHANGED <<target, uneven>>
    ELSE EntryDelete(Lowest(IndexesOf(rules[1], k)), t)

EntryModify(i, act, res, ttl, t) ==
    LET Changed(r) == [r EXCEPT !.act = act, !.res = DirectRes(@, res), !.ttl = ttl]
        stop == FirstBad([a \in Atoms |-> rules[a][i] = NoRule], t)
    IN  /\ rules' = EachAtom(rules, [a \in Atoms |-> IF rules[a][i] = NoRule THEN rules[a]
                                                     ELSE [rules[a] EXCEPT ![i] = Changed(@)]], stop)
        /\ UNCHANGED dflt
        /\ uneven' = (uneven \/ stop > 1)
        /\ op' = Then(IF stop > 0 THEN "failed" ELSE "modified")

EntryModifyWKey(k, act, res, ttl, t) ==
    IF IndexesOf(rules[1], k) = {}
    THEN op' = Then("failed") /\ UNCHANGED <<target, uneven>>
    ELSE EntryModify(Lowest(IndexesOf(rules[1], k)), act, res, ttl, t)

DefaultActionSet(e, t) ==
    LET stop == FirstBad([a \in Atoms |-> FALSE], t)
    IN  /\ dflt' = EachAtom(dflt, [a \in Atoms |-> e], stop)
        /\ UNCHANGED rules
        /\ uneven' = (uneven \/ stop > 1)
        /\ op' = Then(IF stop > 0 THEN "failed" ELSE "modified")

DefaultActionReset(t) == DefaultActionSet([dflt[1] EXCEPT !.act = InitialAct], t)
DefaultActionGetHandle == Capacity
-----------------------------------------------------------------------------
(* The operations of DeviceMgr.  `info' is what only the stores keep: the  *)
(* idle timeout (0: does not age) and the controller metadata.             *)
NoInfo == [ttl |-> 0, meta |-> 0]

Init ==
    /\ cfg \in Configs
    /\ rules = [a \in Atoms |-> [i \in Slots |-> NoRule]]
    /\ dflt = [a \in Atoms |-> [act |-> InitialAct, res |-> 0]]
    /\ store = With(NoFn, Default, [handle |-> DefaultActionGetHandle, info |-> NoInfo])
    /\ op = Quiet
    /\ istore = NoFn /\ queue = <<>> /\ senders = 0 /\ notes = <<>> /\ aged = {}
    /\ cb = [buffer |-> FALSE, pi |-> FALSE]
    /\ uneven = FALSE /\ wrote = With(NoFn, Default, [act |-> InitialAct, info |-> NoInfo, res |-> 0])
    /\ budget = [writes |-> cfg.writes, failures |-> MaxFailures, notes |-> MaxNotes]

\* The operation ends; the code is what the client gets.
Returns(code) == op' = Quiet

\* A request that passed construct_match_key, validate_action and validate_entry_ttl.
Request(what, k, b) ==
    /\ op.pc = "idle"
    /\ b.info.ttl = 0 \/ cfg.idle
    /\ Spend("writes")
    /\ op' = [pc |-> what, key |-> k, act |-> b.act, info |-> b.info, res |-> b.res, handle |-> 0]
    /\ UNCHANGED <<cfg, target, store, idle, wrote, uneven>>

Refuse(code) ==
    Returns(code) /\ UNCHANGED <<cfg, target, store, idle, wrote, uneven, budget>>

\* The target call of the operation, with the ATOM at which it is made to fail.
Calls(Call(_)) ==
    \E t \in Throws :
        /\ Call(t)
        /\ budget' = IF t = 0 THEN budget ELSE [budget EXCEPT !.failures = @ - 1]
        /\ UNCHANGED <<cfg, store, idle, wrote>>

table_insert ==
    /\ op.pc = "insert"
    /\ \/ op.key = Default /\ Refuse("INVALID_ARGUMENT")
       \/ op.key # Default /\ op.key \in DOMAIN store /\ Refuse("ALREADY_EXISTS")
       \/ /\ op.key # Default /\ op.key \notin DOMAIN store
          /\ Calls(LAMBDA t : EntryAdd(op.key, [mf |-> op.key.mf, prio |-> op.key.prio, act |-> op.act,
                                                res |-> DirectRes(0, op.res), ttl |-> op.info.ttl], t))

table_modify ==
    /\ op.pc = "modify"
    /\ \/ op.key \notin DOMAIN store /\ Refuse("NOT_FOUND")
       \/ /\ op.key \in DOMAIN store /\ op.key = Default
          /\ Calls(LAMBDA t : DefaultActionSet([act |-> op.act, res |-> DirectRes(dflt[1].res, op.res)], t))
       \/ /\ op.key \in DOMAIN store /\ op.key # Default
          /\ Calls(LAMBDA t : EntryModifyWKey(op.key, op.act, op.res, op.info.ttl, t))

\* A MODIFY of the default entry without an action.
table_reset == op.pc = "reset" /\ Calls(DefaultActionReset)

table_delete ==
    /\ op.pc = "delete"
    /\ \/ op.key = Default /\ Refuse("INVALID_ARGUMENT")
       \/ op.key # Default /\ op.key \notin DOMAIN store /\ Refuse("NOT_FOUND")
       \/ /\ op.key # Default /\ op.key \in DOMAIN store
          /\ Calls(LAMBDA t : EntryDeleteWKey(op.key, t))

Post(tasks) == queue' = queue \o tasks /\ UNCHANGED <<istore, senders, notes, cb, aged>>

\* Nothing for tables that do not support idle timeouts.
Task(t, k, info) == [t |-> t, key |-> k, info |-> info]
For(task) == IF cfg.idle THEN <<task>> ELSE <<>>

\* Mutant: the buffer is not told of a deletion.
TellDelete_not(k) == <<>>
TellDelete(k) == For(Task("delete", k, NoInfo))


\* After the target call: the store, then a task for the idle buffer.
add_entry ==
    /\ op.pc = "added"
    /\ store' = With(store, op.key, [handle |-> op.handle, info |-> op.info])
    /\ Post(For(Task("insert", op.key, op.info)))
    /\ wrote' = With(wrote, op.key, [act |-> op.act, info |-> op.info, res |-> DirectRes(0, op.res)])
    /\ Returns("OK")
    /\ UNCHANGED <<cfg, target, uneven, budget>>

\* Mutant: the store keeps the timeout and metadata of the insertion.
change_entry_stale ==
    /\ op.pc = "modified"
    /\ Post(For(Task("modify", op.key, op.info)))
    /\ wrote' = [wrote EXCEPT ![op.key] = [act |-> op.act, info |-> op.info, res |-> DirectRes(@.res, op.res)]]
    /\ Returns("OK")
    /\ UNCHANGED <<cfg, target, store, uneven, budget>>

change_entry ==
    /\ op.pc = "modified"
    /\ store' = [store EXCEPT ![op.key].info = op.info]
    /\ Post(For(Task("modify", op.key, op.info)))
    /\ wrote' = [wrote EXCEPT ![op.key] = [act |-> op.act, info |-> op.info, res |-> DirectRes(@.res, op.res)]]
    /\ Returns("OK")
    /\ UNCHANGED <<cfg, target, uneven, budget>>

remove_entry ==
    /\ op.pc = "deleted"
    /\ store' = Without(store, op.key)
    /\ Post(TellDelete(op.key))
    /\ wrote' = Without(wrote, op.key)
    /\ Returns("OK")
    /\ UNCHANGED <<cfg, target, uneven, budget>>

TargetError == op.pc = "failed" /\ Refuse("UNKNOWN")

\* Direct counters and meters go to the target by the handle in the store.
\* NP4 does not implement them.
HasDirect == cfg.target # "np4"
HandleOf(k) == store[k].handle

DirectSet(h, v) ==
    IF h = DefaultActionGetHandle
    THEN dflt' = [a \in Atoms |-> [dflt[a] EXCEPT !.res = v]] /\ UNCHANGED rules
    ELSE rules' = [a \in Atoms |-> [rules[a] EXCEPT ![h].res = v]] /\ UNCHANGED dflt

direct_counter_write(k, v) ==
    /\ op.pc = "idle" /\ Spend("writes")
    /\ k \in DOMAIN store /\ HasDirect
    /\ DirectSet(HandleOf(k), v)
    /\ wrote' = [wrote EXCEPT ![k].res = v]
    /\ UNCHANGED <<cfg, store, op, idle, uneven>>

direct_meter_write(k, v) ==
    /\ op.pc = "idle" /\ Spend("writes")
    /\ k \in DOMAIN store /\ HasDirect
    /\ DirectSet(HandleOf(k), v)
    /\ wrote' = [wrote EXCEPT ![k].res = v]
    /\ UNCHANGED <<cfg, store, op, idle, uneven>>

\* Reads of a direct resource, by the same handle.
direct_counter_read_one(k) ==
    IF HandleOf(k) = DefaultActionGetHandle THEN dflt[1].res ELSE rules[1][HandleOf(k)].res
-----------------------------------------------------------------------------
(* Reads.  NP4 computes the size of the buffer in one pass over the table  *)
(* and fills it in a second; sizes are in units of half an entry, one for  *)
(* the fixed fields and one for the action.  A Read changes nothing: what  *)
(* it may return is an operator on the state.                              *)
CalcRuleDataSize(tab, i) == IF tab[i] = NoRule THEN 0 ELSE 1

CalcTableDataSize(tab, n, i) ==
    LET found == {j \in Slots : tab[j] # NoRule}
    IN  IF n = 0 THEN 0
        ELSE IF n > 1 THEN n + (IF Cardinality(found) < n THEN Cardinality(found) ELSE n)
        ELSE n + CalcRuleDataSize(tab, i)

NeedsPriority == cfg.kind \in {"lpm", "ternary"}

\* What a rule is reported as: NP4 made up the priority and has no resources.
CopyRuleData(r) ==
    [key |-> [mf |-> r.mf,
              prio |-> IF cfg.target # "np4" THEN r.prio
                       ELSE IF NeedsPriority THEN DEFAULT_PRIORITY ELSE 0],
     act |-> r.act, res |-> r.res]

\* A fetch: how many entries, the room for them, and the entries copied.
EntryFetch ==
    LET tab == rules[1] IN
    [num |-> Size(tab), room |-> CalcTableDataSize(tab, Size(tab), 0),
     entries |-> {CopyRuleData(tab[i]) : i \in {j \in Slots : tab[j] # NoRule}}]

\* NP4 leaves num_entries as malloc gave it; any other target sets it to one.
EntryFetchWKey(i, num) ==
    [num |-> num, room |-> CalcTableDataSize(rules[1], num, i), entries |-> {CopyRuleData(rules[1][i])}]

EntryFetchOne(i) == EntryFetchWKey(i, 1)

Overruns(f) == cfg.target = "np4" /\ f.room < 2 * Cardinality(f.entries)

\* pi_table_entries_next takes num entries out of the buffer, whatever was put in.
Readable(f) == ~Overruns(f) /\ f.num = Cardinality(f.entries)

\* pi_table_entry_get_remaining_ttl is not implemented on NP4.
TellsTtl == cfg.target # "np4"

Lookup(k) == store[k].info

\* The answer made of what was fetched; hit: with time_since_last_hit.
Answer(f, hit) ==
    LET es == f.entries IN
    IF ~Readable(f) THEN [status |-> "UNDEFINED"]
    ELSE IF \E e \in es : e.key \notin DOMAIN store THEN [status |-> "INTERNAL"]
    ELSE IF hit /\ ~TellsTtl /\ \E e \in es : Lookup(e.key).ttl > 0 THEN [status |-> "UNKNOWN"]
    ELSE [status |-> "OK",
          entries |-> {[key |-> e.key, act |-> e.act, res |-> e.res, info |-> Lookup(e.key)] : e \in es}]

DefaultActionGet == dflt[1]

\* Of the store only the metadata is returned: default entries do not age.
table_read_default(hit) ==
    IF hit THEN [status |-> "INVALID_ARGUMENT"]
    ELSE [status |-> "OK",
          entries |-> {[key |-> Default, act |-> DefaultActionGet.act, res |-> DefaultActionGet.res,
                        info |-> [ttl |-> 0, meta |-> Lookup(Default).meta]]}]

\* The possible answers for one key, and for the whole table.
table_read_one(k, hit) ==
    IF IndexesOf(rules[1], k) = {} THEN {[status |-> "UNKNOWN"]}
    ELSE {Answer(EntryFetchWKey(Lowest(IndexesOf(rules[1], k)), num), hit) :
              num \in IF cfg.target = "np4" THEN 0..2 ELSE {1}}

table_read(hit) == {Answer(EntryFetch, hit)}
-----------------------------------------------------------------------------
(* The idle buffer: its thread runs the tasks one by one, in order; the    *)
(* delayed sender runs on it too.                                          *)
Apply(st, task) ==
    CASE task.t = "insert" -> IF task.key \in DOMAIN st THEN st ELSE With(st, task.key, task.info)
      [] task.t = "modify" -> IF task.key \in DOMAIN st THEN [st EXCEPT ![task.key] = task.info] ELSE st
      [] task.t = "delete" -> Without(st, task.key)
      [] task.t = "p4_change" -> NoFn
      [] OTHER -> st

TaskSendNotifications == notes' = IF cb.buffer THEN <<>> ELSE notes

\* Mutant: the sender is armed by the second notification of a batch.
First_second == Len(notes) = 1
First == notes = <<>>

TaskHandleNotification(k) ==
    IF k \in DOMAIN istore /\ istore[k].ttl > 0
    THEN /\ notes' = Append(notes, [key |-> k, info |-> istore[k]])
         /\ senders' = senders + IF First THEN 1 ELSE 0
    ELSE UNCHANGED <<notes, senders>>

RunTask ==
    /\ queue # <<>>
    /\ queue' = Tail(queue)
    /\ istore' = Apply(istore, Head(queue))
    /\ \/ Head(queue).t = "notify" /\ TaskHandleNotification(Head(queue).key) /\ UNCHANGED <<cb, op>>
       \/ Head(queue).t = "p4_change" /\ TaskSendNotifications /\ op' = Then("drained") /\ UNCHANGED <<senders, cb>>
       \/ Head(queue).t = "register" /\ cb' = [cb EXCEPT !.buffer = TRUE] /\ op' = Then("registered") /\ UNCHANGED <<senders, notes>>
       \/ Head(queue).t \in {"insert", "modify", "delete"} /\ UNCHANGED <<senders, notes, cb, op>>
    /\ UNCHANGED <<cfg, target, store, aged, wrote, uneven, budget>>

SenderDue ==
    /\ senders > 0
    /\ senders' = senders - 1
    /\ TaskSendNotifications
    /\ UNCHANGED <<cfg, target, store, op, istore, queue, cb, aged, wrote, uneven, budget>>

\* idle_timeout_register_cb: the buffer first, and its answer, then PI.
register_cb ==
    /\ op.pc = "idle" /\ cb = [buffer |-> FALSE, pi |-> FALSE]
    /\ op' = [pc |-> "registering"]
    /\ Post(<<Task("register", Default, NoInfo)>>)
    /\ UNCHANGED <<cfg, target, store, wrote, uneven, budget>>

pi_table_idle_timeout_register_cb ==
    /\ op.pc = "registered"
    /\ cb' = [cb EXCEPT !.pi = TRUE]
    /\ op' = Quiet
    /\ UNCHANGED <<cfg, target, store, istore, queue, senders, notes, aged, wrote, uneven, budget>>

\* The target finds a rule idle, and tells PI some time later.
RuleAges(i) ==
    /\ cfg.target = "ageing" /\ rules[1][i] # NoRule /\ rules[1][i].ttl > 0
    /\ Spend("notes")
    /\ aged' = aged \cup {[mf |-> rules[1][i].mf, prio |-> rules[1][i].prio]}
    /\ UNCHANGED <<cfg, target, store, op, istore, queue, senders, notes, cb, wrote, uneven>>

handle_notification(k) ==
    queue' = IF Len(queue) < QueueMax THEN Append(queue, Task("notify", k, NoInfo)) ELSE queue

\* pi_table_idle_timeout_notify: without a callback, or with the queue full, it is lost.
Notify(k) ==
    /\ k \in aged /\ op.pc \notin {"changing", "drained"}
    /\ aged' = aged \ {k}
    /\ IF cb.pi THEN handle_notification(k) ELSE UNCHANGED queue
    /\ UNCHANGED <<cfg, target, store, op, istore, senders, notes, cb, wrote, uneven, budget>>
-----------------------------------------------------------------------------
(* A pipeline change as far as the table goes.  The target with ageing     *)
(* starts afresh, and silent, in pi_update_device_start; NP4 resets its    *)
(* ATOMs in pi_update_device_end, and only logs it when that fails.        *)
Cleared == [a \in Atoms |-> [i \in Slots |-> NoRule]]
Initial == [a \in Atoms |-> [act |-> InitialAct, res |-> 0]]

p4_change ==
    /\ op.pc = "idle" /\ Spend("writes")
    /\ op' = [pc |-> "changing"]
    /\ IF cfg.target = "np4" THEN UNCHANGED <<target, aged>>
       ELSE rules' = Cleared /\ dflt' = Initial /\ aged' = {}
    /\ queue' = Append(queue, Task("p4_change", Default, NoInfo))
    /\ UNCHANGED <<cfg, store, istore, senders, notes, cb, wrote, uneven>>

ResetStore == With(NoFn, Default, [handle |-> DefaultActionGetHandle, info |-> NoInfo])

p4_change_store ==
    /\ op.pc = "drained"
    /\ store' = ResetStore
    /\ op' = Then("ending")
    /\ wrote' = With(NoFn, Default, [act |-> InitialAct, info |-> NoInfo, res |-> 0])
    /\ UNCHANGED <<cfg, target, idle, uneven, budget>>

pi_update_device_end ==
    /\ op.pc = "ending"
    /\ \E t \in IF cfg.target = "np4" THEN Throws ELSE {0} :
        /\ IF cfg.target = "np4"
           THEN /\ rules' = [a \in Atoms |-> IF a = t THEN rules[a] ELSE Cleared[a]]
                /\ dflt' = [a \in Atoms |-> IF a = t THEN dflt[a] ELSE Initial[a]]
           ELSE UNCHANGED target
        /\ uneven' = (uneven \/ t > 0)
        /\ budget' = IF t = 0 THEN budget ELSE [budget EXCEPT !.failures = @ - 1]
    /\ Returns("OK")
    /\ UNCHANGED <<cfg, store, idle, wrote>>
-----------------------------------------------------------------------------
Next ==
    \/ \E k \in Keys \cup {Default}, b \in Bodies : Request("insert", k, b) \/ Request("modify", k, b)
    \/ \E k \in Keys \cup {Default} : Request("delete", k, [act |-> InitialAct, info |-> NoInfo, res |-> 0])
    \/ Request("reset", Default, [act |-> InitialAct, info |-> NoInfo, res |-> 0])
    \/ table_insert \/ table_modify \/ table_reset \/ table_delete
    \/ add_entry \/ change_entry \/ remove_entry \/ TargetError
    \/ \E k \in Keys \cup {Default} : direct_counter_write(k, 1) \/ direct_meter_write(k, 2)
    \/ RunTask \/ SenderDue \/ register_cb \/ pi_table_idle_timeout_register_cb
    \/ \E i \in Slots : RuleAges(i)
    \/ \E k \in aged : Notify(k)
    \/ p4_change \/ p4_change_store \/ pi_update_device_end

Spec == Init /\ [][Next]_vars

\* The thread of the buffer runs its tasks and timers, and nothing blocks it.
FairSpec == Spec /\ WF_vars(RunTask) /\ WF_vars(SenderDue)
-----------------------------------------------------------------------------
Between == {"idle", "insert", "modify", "delete", "reset", "failed", "registering", "registered"}

(* Unless a call failed with some ATOMs written, the table of every ATOM   *)
(* is what the client's successful writes made it, each entry at the index *)
(* the store has as its handle: handles given out by one ATOM are good in  *)
(* all of them, through deletions and reuse of indexes.                    *)
TableIsWhatWasWritten ==
    ~uneven /\ op.pc \in Between =>
        /\ DOMAIN store = DOMAIN wrote
        /\ \A a \in Atoms :
            /\ dflt[a] = [act |-> wrote[Default].act, res |-> wrote[Default].res]
            /\ Size(rules[a]) = Cardinality(DOMAIN store) - 1
            /\ \A k \in DOMAIN store \ {Default} :
                rules[a][store[k].handle] = [mf |-> k.mf, prio |-> k.prio, act |-> wrote[k].act,
                                             ttl |-> wrote[k].info.ttl, res |-> wrote[k].res]

\* NP4 reports this entry under a priority other than the one it was written with.
Renamed(k) == cfg.target = "np4" /\ NeedsPriority /\ k.prio # DEFAULT_PRIORITY

(* Every Read succeeds and returns exactly what was written: of the table, *)
(* of one entry, and of the default entry (but for its idle timeout, which *)
(* is not returned).  The code falls short of it on NP4 only, and there in *)
(* no other cases than these: an entry the target reports under another    *)
(* priority is not found in the store, so that a Read that meets it fails  *)
(* (all entries of LPM tables, ternary ones but for one priority);         *)
(* time_since_last_hit of an entry that ages cannot be had; the whole table*)
(* is fetched into too small a buffer when it holds one rule and that is   *)
(* not at index 0; and a fetch by key works if malloc left a one in        *)
(* num_entries.  No Read returns an entry that was not written.  All this  *)
(* holds until some ATOMs have done a call that failed in another.         *)
ReadReturnsWritten ==
    LET Entry(k) == [key |-> k, act |-> wrote[k].act, res |-> wrote[k].res, info |-> wrote[k].info]
        entries == DOMAIN wrote \ {Default}
        Sound(r) == r.status = "OK" => r.entries \subseteq {Entry(k) : k \in entries}
        Right(r, keys, hit) ==
            \/ r.status = "OK" /\ r.entries = {Entry(k) : k \in keys}
            \/ r.status = "INTERNAL" /\ \E k \in keys : Renamed(k)
            \/ r.status = "UNKNOWN" /\ hit /\ ~TellsTtl /\ \E k \in keys : wrote[k].info.ttl > 0
        Misplaced(keys) == cfg.target = "np4" /\ \E k \in keys : keys = {k} /\ HandleOf(k) # 0
        SameDefault(r) == \E e \in r.entries :
            r.entries = {e} /\ [e EXCEPT !.info.ttl = wrote[Default].info.ttl] = Entry(Default)
    IN  op.pc = "idle" /\ ~uneven =>
           /\ SameDefault(table_read_default(FALSE))
           /\ \A k \in DOMAIN wrote : direct_counter_read_one(k) = wrote[k].res
           /\ \A hit \in {FALSE, cfg.idle} :
                /\ \A r \in table_read(hit) :
                    Right(r, entries, hit) \/ (r.status = "UNDEFINED" /\ Misplaced(entries))
                /\ \A k \in entries :
                    /\ Right(Answer(EntryFetchOne(HandleOf(k)), hit), {k}, hit)
                    /\ \A r \in table_read_one(k, hit) :
                        Right(r, {k}, hit) \/ (r.status = "UNDEFINED" /\ cfg.target = "np4")
                /\ \A k \in Keys : \A r \in table_read_one(k, hit) : Sound(r)

(* A Write takes effect as asked, and a Read returns it.                   *)
WrittenIsRead == TableIsWhatWasWritten /\ ReadReturnsWritten

(* The buffer's own store, once the tasks in its queue have run, is the    *)
(* store of DeviceMgr without the default entry, however the two threads   *)
(* are interleaved.                                                        *)
IdleStoreFollows ==
    cfg.idle /\ op.pc \notin {"changing", "drained"} =>
        FoldLeft(Apply, istore, queue) =
            [k \in DOMAIN store \ {Default} |-> store[k].info]

(* An idle notification that was buffered is sent to the controller.       *)
NotesAreSent == notes # <<>> ~> notes = <<>>
=============================================================================

----------------------------- MODULE OneShotTable -----------------------------
(***************************************************************************)
(* Writes to an indirect table whose entries carry an action set (one-shot *)
(* programming): table_insert, table_modify and table_delete of            *)
(* device_mgr.cpp, ActionProfAccessOneshot and the choice between one-shot *)
(* and manual programming of action_prof_mgr.cpp, and the rollback of      *)
(* common.h (SessionCleanup).                                              *)
(*                                                                         *)
(* One update becomes many calls to the target, any of which may fail; a   *)
(* step is one such call with the bookkeeping around it.  Updates do not   *)
(* interleave: a Write holds the lock of its table.                        *)
(***************************************************************************)
EXTENDS Integers, Sequences, FiniteSets, SequencesExt

CONSTANTS
    Key,            \* match keys
    MemberId,       \* ids of members programmed by hand
    MemberH, GroupH,\* the handles the target has to give
    Port, Down,     \* watch ports, and those that are down
    MaxActions,     \* bound on the actions of a set
    MaxWeight,      \* bound on their weights
    max_group_size, \* of the P4Info; 0: unspecified
    Refuses,        \* "in_group", "in_entry": whether the target refuses to
                    \* delete what a group, or an entry, still uses
    Failing,        \* the target calls that may fail
    MaxFailures, MaxOps

ASSUME OneShotAssumption ==
    /\ Down \subseteq Port
    /\ Refuses \subseteq {"in_group", "in_entry"}

VARIABLES
    table_info_store,   \* of each entry: is_oneshot, oneshot_group_handle
    selector_usage,     \* ActionProfMgr: how the profile is programmed
    group_members,      \* ActionProfAccessOneshot: the members of each group
    member_map,         \* ActionProfAccessManual: the handle of each member
    watched,            \* the watch port enforcer: <<group, member, port>>
    hw_entries, hw_members, hw_groups,  \* the target
    cleanup_tasks, cleanup_scopes,      \* SessionCleanup
    op,                 \* the update in progress
    threw,              \* an assert failed
    pi_api_choice,      \* fixed when the manager is constructed
    dirty,              \* history: a call of some rollback, or a deactivation, failed
    written,            \* the action set last written for each entry
    failures, ops

target == <<hw_entries, hw_members, hw_groups>>
cleanup == <<cleanup_tasks, cleanup_scopes>>
manager == <<selector_usage, group_members, member_map>>
history == <<dirty, written>>
vars == <<table_info_store, manager, watched, target, cleanup, op, threw, history,
          pi_api_choice, failures, ops>>

INVALID_WATCH == "INVALID_WATCH"
NoFn == [x \in {} |-> 0]
Without(f, x) == [y \in DOMAIN f \ {x} |-> f[y]]
With(f, x, v) == [y \in DOMAIN f \cup {x} |-> IF y = x THEN v ELSE f[y]]

(* An action set: a list of actions, each with a weight and a watch port.  *)
(* The position of an action stands for what it does.                      *)
ActionSpec == [weight : 0..MaxWeight, watch : Port \cup {INVALID_WATCH}]
ActionSet == UNION {[1..n -> ActionSpec] : n \in 0..MaxActions}

SumOfWeights(set) == FoldSeq(LAMBDA a, sum : a.weight + sum, 0, set)

(* Mutant: every copy of an action holds its weight. *)
Copies_all(a, pos) ==
    [i \in 1..a.weight |-> [weight |-> a.weight, watch |-> a.watch, action |-> pos]]

(* The members to create: one for each unit of weight, the first of an     *)
(* action holding its weight and the others 0.                             *)
Copies(a, pos) ==
    [i \in 1..a.weight |->
        [weight |-> IF i = 1 THEN a.weight ELSE 0, watch |-> a.watch, action |-> pos]]
MembersToCreate(set) == FlattenSeq([pos \in DOMAIN set |-> Copies(set[pos], pos)])

ManualEntry == [is_oneshot |-> FALSE, group |-> {}]
OneShotEntry(g) == [is_oneshot |-> TRUE, group |-> {g}]
The(S) == CHOOSE x \in S : TRUE

Idle(status) ==
    [pc |-> "idle", update |-> "none", key |-> {}, set |-> <<>>, late_error |-> FALSE,
     todo |-> <<>>, members |-> <<>>, group |-> {}, i |-> 0,
     status |-> status, error_cnt |-> 0, last |-> "OK"]

Init ==
    /\ table_info_store = NoFn
    /\ selector_usage = "UNSPECIFIED" /\ group_members = NoFn /\ member_map = NoFn
    /\ watched = {}
    /\ hw_entries = NoFn /\ hw_members = NoFn /\ hw_groups = NoFn
    /\ cleanup_tasks = <<>> /\ cleanup_scopes = <<>>
    /\ op = Idle("OK")
    /\ threw = FALSE /\ dirty = FALSE /\ written = NoFn
    /\ pi_api_choice \in {"INDIVIDUAL_ADDS_AND_REMOVES", "SET_MEMBERSHIP"}
    /\ failures = 0 /\ ops = 0

Begin == op.pc = "idle" /\ ~threw /\ ops < MaxOps /\ ops' = ops + 1 /\ UNCHANGED pi_api_choice
InOp(pc) == op.pc = pc /\ ~threw /\ UNCHANGED <<ops, pi_api_choice>>
Ok == UNCHANGED failures
Fails(call) == call \in Failing /\ failures < MaxFailures /\ failures' = failures + 1

(* The update returns a status, and write_ calls local_cleanup. *)
Return(status) == op' = [op EXCEPT !.pc = "cleanup", !.status = status, !.i = 0]
-----------------------------------------------------------------------------
(* SessionCleanup. *)
Task(kind, g, m, p) == [kind |-> kind, group |-> g, member |-> m, port |-> p]
OneShotCleanup(g) == Task("oneshot", {g}, {}, INVALID_WATCH)

Popped == SubSeq(cleanup_tasks, 1, Last(cleanup_scopes))

cleanup_scope_pop ==
    /\ cleanup_tasks' = Popped
    /\ cleanup_scopes' = Front(cleanup_scopes)

cleanup_task_push(task) ==
    /\ cleanup_tasks' = Append(cleanup_tasks, task)
    /\ UNCHANGED cleanup_scopes
-----------------------------------------------------------------------------
(* check_selector_usage<T>: a profile without members or groups changes    *)
(* mode; its access object is replaced by an empty one.                    *)
PimpEmpty == IF selector_usage = "ONESHOT" THEN group_members = NoFn ELSE member_map = NoFn
MayUse(usage) == selector_usage \in {usage, "UNSPECIFIED"} \/ PimpEmpty
SwitchTo(usage) ==
    /\ selector_usage' = usage
    /\ group_members' = IF usage = selector_usage THEN group_members ELSE NoFn
    /\ member_map' = IF usage = selector_usage THEN member_map ELSE NoFn
-----------------------------------------------------------------------------
(* The target. *)
InGroup(m) == \E g \in DOMAIN hw_groups : m \in hw_groups[g]
InEntry(h) == \E k \in DOMAIN hw_entries : hw_entries[k] = h
RefusesMember(m) ==
    \/ m \notin DOMAIN hw_members
    \/ "in_group" \in Refuses /\ InGroup(m)
    \/ "in_entry" \in Refuses /\ InEntry(m)
RefusesGroup(g) == g \notin DOMAIN hw_groups \/ ("in_entry" \in Refuses /\ InEntry(g))

TargetCreatesMember(m, a) ==
    m \in MemberH \ DOMAIN hw_members /\ hw_members' = With(hw_members, m, a) /\ Ok
TargetHasNoMember == MemberH \subseteq DOMAIN hw_members /\ Ok
TargetDeletesMember(m) == ~RefusesMember(m) /\ hw_members' = Without(hw_members, m) /\ Ok
TargetKeepsMember(m) ==
    UNCHANGED hw_members /\ ((RefusesMember(m) /\ Ok) \/ Fails("member_delete"))
TargetDeletesGroup(g) == ~RefusesGroup(g) /\ hw_groups' = Without(hw_groups, g) /\ Ok
TargetKeepsGroup(g) ==
    UNCHANGED hw_groups /\ ((RefusesGroup(g) /\ Ok) \/ Fails("group_delete"))
-----------------------------------------------------------------------------
(* table_insert and table_modify with an action set: the checks, up to the *)
(* first call to the target.  late_error stands for an entry whose direct  *)
(* resources or idle timeout are found invalid after the group is created. *)
Refused(set) ==
    IF ~MayUse("ONESHOT") THEN "INVALID_ARGUMENT"
    ELSE IF set = <<>> THEN "UNIMPLEMENTED"
    ELSE IF \E i \in DOMAIN set : set[i].weight = 0 THEN "INVALID_ARGUMENT"
    ELSE IF max_group_size > 0 /\ SumOfWeights(set) > max_group_size THEN "RESOURCE_EXHAUSTED"
    ELSE "OK"

BeginOneShot(update, k, set, late_error) ==
    LET refused == Refused(set)
        start == [Idle("OK") EXCEPT !.pc = "members", !.update = update, !.key = {k},
                      !.set = set, !.late_error = late_error, !.todo = MembersToCreate(set)]
    IN
    /\ Begin
    /\ IF MayUse("ONESHOT") THEN SwitchTo("ONESHOT") ELSE UNCHANGED manager
    /\ IF refused = "OK"
       THEN op' = start /\ cleanup_scopes' = <<0, 0>>
       ELSE op' = [Idle(refused) EXCEPT !.pc = "cleanup"] /\ cleanup_scopes' = <<0>>
    /\ UNCHANGED <<table_info_store, watched, target, cleanup_tasks, threw, history, failures>>

table_insert(k, set, late_error) == BeginOneShot("insert", k, set, late_error)
table_modify(k, set, late_error) == BeginOneShot("modify", k, set, late_error)

(* ActionProfAccessOneshot::group_create. *)
CreateMember ==
    /\ InOp("members") /\ op.todo # <<>>
    /\ LET copy == Head(op.todo) IN
       \/ \E m \in MemberH :
             /\ TargetCreatesMember(m, copy.action)
             /\ op' = [op EXCEPT !.todo = Tail(@),
                           !.members = Append(@, [member_h |-> m, weight |-> copy.weight,
                                                  watch |-> copy.watch])]
             /\ cleanup_task_push(Task("member", {}, {m}, INVALID_WATCH))
       \/ /\ TargetHasNoMember \/ Fails("member_create")
          /\ Return("UNKNOWN")
          /\ UNCHANGED <<hw_members, cleanup>>
    /\ UNCHANGED <<table_info_store, manager, watched, hw_entries, hw_groups, threw, history>>

(* Mutant: no cleanup task for the group. *)
CreateGroup_nopush ==
    /\ InOp("members") /\ op.todo = <<>>
    /\ \/ \E g \in GroupH \ DOMAIN hw_groups :
             /\ Ok
             /\ hw_groups' = With(hw_groups, g, {})
             /\ op' = [op EXCEPT !.pc = "membership", !.group = {g}]
       \/ /\ (GroupH \subseteq DOMAIN hw_groups /\ Ok) \/ Fails("group_create")
          /\ Return("UNKNOWN")
          /\ UNCHANGED hw_groups
    /\ UNCHANGED <<table_info_store, manager, watched, hw_entries, hw_members, cleanup, threw,
                   history>>

CreateGroup ==
    /\ InOp("members") /\ op.todo = <<>>
    /\ \/ \E g \in GroupH \ DOMAIN hw_groups :
             /\ Ok
             /\ hw_groups' = With(hw_groups, g, {})
             /\ op' = [op EXCEPT !.pc = "membership", !.group = {g}]
             /\ cleanup_task_push(Task("group", {g}, {}, INVALID_WATCH))
       \/ /\ (GroupH \subseteq DOMAIN hw_groups /\ Ok) \/ Fails("group_create")
          /\ Return("UNKNOWN")
          /\ UNCHANGED <<hw_groups, cleanup>>
    /\ UNCHANGED <<table_info_store, manager, watched, hw_entries, hw_members, threw, history>>

TheGroup == The(op.group)
TheKey == The(op.key)
Watch(g, mbr) == IF mbr.watch = INVALID_WATCH THEN {} ELSE {<<g, mbr.member_h, mbr.watch>>}
WatchTask(g, mbr) == Task("watch", {g}, {mbr.member_h}, mbr.watch)

(* group_create_helper with INDIVIDUAL_ADDS_AND_REMOVES: the call that adds *)
(* a member, then add_member_and_update_hw, which deactivates the member   *)
(* when its port is down.                                                  *)
AddMember ==
    LET g == TheGroup
        mbr == op.members[op.i + 1]
    IN
    /\ InOp("membership") /\ op.i < Len(op.members)
    /\ pi_api_choice = "INDIVIDUAL_ADDS_AND_REMOVES"
    /\ \/ /\ Fails("group_add_member")
          /\ Return("UNKNOWN")
          /\ UNCHANGED <<hw_groups, watched, cleanup, dirty>>
       \/ /\ hw_groups' = [hw_groups EXCEPT ![g] = @ \cup {mbr.member_h}]
          /\ watched' = watched \cup Watch(g, mbr)
          /\ IF Watch(g, mbr) \cap watched = {}
             THEN \/ /\ Ok
                     /\ op' = [op EXCEPT !.i = @ + 1]
                     /\ cleanup_task_push(WatchTask(g, mbr))
                     /\ UNCHANGED dirty
                  \/ /\ mbr.watch \in Down /\ Fails("deactivate")
                     /\ Return("INTERNAL")
                     /\ dirty' = TRUE
                     /\ UNCHANGED cleanup
             ELSE Ok /\ Return("INTERNAL") /\ UNCHANGED <<cleanup, dirty>>
    /\ UNCHANGED <<table_info_store, manager, hw_entries, hw_members, threw, written>>

(* group_create_helper with SET_MEMBERSHIP: one call, then the enforcer is *)
(* told, member by member, until one is already there.                     *)
SetMembers ==
    LET g == TheGroup
        n == Len(op.members)
        stops == {i \in 1..n : Watch(g, op.members[i]) \cap watched # {}}
        added == CHOOSE i \in 0..n : (\A j \in 1..i : j \notin stops)
                                     /\ (i = n \/ i + 1 \in stops)
    IN
    /\ InOp("membership") /\ op.i < n
    /\ pi_api_choice = "SET_MEMBERSHIP"
    /\ \/ /\ Fails("group_set_members")
          /\ Return("UNKNOWN")
          /\ UNCHANGED <<hw_groups, watched, cleanup>>
       \/ /\ Ok
          /\ hw_groups' = [hw_groups EXCEPT ![g] = {op.members[i].member_h : i \in 1..n}]
          /\ watched' = watched \cup UNION {Watch(g, op.members[i]) : i \in 1..added}
          /\ cleanup_tasks' =
                cleanup_tasks \o [i \in 1..added |-> WatchTask(g, op.members[i])]
          /\ UNCHANGED cleanup_scopes
          /\ IF added = n THEN op' = [op EXCEPT !.i = n] ELSE Return("INTERNAL")
    /\ UNCHANGED <<table_info_store, manager, hw_entries, hw_members, threw, history>>

(* The end of group_create, construct_action_entry_oneshot, and the checks *)
(* before the call that writes the entry.                                  *)
GroupCreated ==
    LET exists == TheKey \in DOMAIN table_info_store IN
    /\ InOp("membership") /\ op.i = Len(op.members)
    /\ threw' = (TheGroup \in DOMAIN group_members)
    /\ group_members' = With(group_members, TheGroup, op.members)
    /\ cleanup_tasks' = Append(Popped, OneShotCleanup(TheGroup))
    /\ cleanup_scopes' = Front(cleanup_scopes)
    /\ IF op.late_error THEN Return("INVALID_ARGUMENT")
       ELSE IF op.update = "insert" /\ exists THEN Return("ALREADY_EXISTS")
       ELSE IF op.update = "modify" /\ ~exists THEN Return("NOT_FOUND")
       ELSE op' = [op EXCEPT !.pc = op.update]
    /\ UNCHANGED <<table_info_store, selector_usage, member_map, watched, target, history,
                   failures>>

(* mt.entry_add, mt.entry_modify_wkey. *)
EntryFails ==
    /\ InOp("insert") \/ InOp("modify")
    /\ Fails("entry")
    /\ Return("UNKNOWN")
    /\ UNCHANGED <<table_info_store, manager, watched, target, cleanup, threw, history>>

EntryAdd ==
    /\ InOp("insert") /\ Ok
    /\ hw_entries' = With(hw_entries, TheKey, TheGroup)
    /\ table_info_store' = With(table_info_store, TheKey, OneShotEntry(TheGroup))
    /\ cleanup_scope_pop
    /\ written' = With(written, TheKey, op.set)
    /\ Return("OK")
    /\ UNCHANGED <<manager, watched, hw_members, hw_groups, threw, dirty>>

(* Mutant: the scheduled deletion is not moved to the old group. *)
EntryModify_new ==
    /\ InOp("modify") /\ Ok
    /\ hw_entries' = [hw_entries EXCEPT ![TheKey] = TheGroup]
    /\ table_info_store' = [table_info_store EXCEPT ![TheKey].group = {TheGroup}]
    /\ written' = With(written, TheKey, op.set)
    /\ Return("OK")
    /\ UNCHANGED <<manager, watched, hw_members, hw_groups, cleanup, threw, dirty>>

(* The task that would delete the new group deletes the old one instead. *)
EntryModify ==
    LET data == table_info_store[TheKey] IN
    /\ InOp("modify") /\ Ok
    /\ hw_entries' = [hw_entries EXCEPT ![TheKey] = TheGroup]
    /\ threw' = ~data.is_oneshot
    /\ cleanup_tasks' = [cleanup_tasks EXCEPT ![Len(cleanup_tasks)].group = data.group]
    /\ table_info_store' = [table_info_store EXCEPT ![TheKey].group = {TheGroup}]
    /\ written' = With(written, TheKey, op.set)
    /\ Return("OK")
    /\ UNCHANGED <<manager, watched, hw_members, hw_groups, cleanup_scopes, dirty>>

(* table_delete: the entry goes first, its group by a cleanup task. *)
table_delete(k) ==
    /\ Begin
    /\ \/ /\ k \notin DOMAIN table_info_store /\ Ok
          /\ op' = Idle("NOT_FOUND")
          /\ UNCHANGED <<table_info_store, manager, hw_entries, cleanup, threw, written>>
       \/ /\ k \in DOMAIN table_info_store /\ Fails("entry")
          /\ op' = Idle("UNKNOWN")
          /\ UNCHANGED <<table_info_store, manager, hw_entries, cleanup, threw, written>>
       \/ /\ k \in DOMAIN table_info_store /\ Ok
          /\ hw_entries' = Without(hw_entries, k)
          /\ table_info_store' = Without(table_info_store, k)
          /\ written' = Without(written, k)
          /\ op' = [Idle("OK") EXCEPT !.pc = "cleanup"]
          /\ IF table_info_store[k].is_oneshot
             THEN /\ threw' = ~MayUse("ONESHOT")
                  /\ SwitchTo("ONESHOT")
                  /\ cleanup_scopes' = <<0>>
                  /\ cleanup_tasks' = <<OneShotCleanup(The(table_info_store[k].group))>>
             ELSE UNCHANGED <<manager, cleanup, threw>>
    /\ UNCHANGED <<watched, hw_members, hw_groups, dirty>>
-----------------------------------------------------------------------------
(* local_cleanup: the tasks in reverse order; the reply of the update.     *)
TaskDone(error) ==
    /\ cleanup_tasks' = Front(cleanup_tasks)
    /\ op' = [op EXCEPT !.i = 0, !.last = IF error THEN "INTERNAL" ELSE "OK",
                  !.error_cnt = @ + (IF error THEN 1 ELSE 0)]
    /\ dirty' = (dirty \/ error)

InCleanup(kind) ==
    InOp("cleanup") /\ cleanup_tasks # <<>> /\ Last(cleanup_tasks).kind = kind

CleanupMember ==
    LET m == The(Last(cleanup_tasks).member) IN
    /\ InCleanup("member")
    /\ \/ TargetDeletesMember(m) /\ TaskDone(FALSE)
       \/ TargetKeepsMember(m) /\ TaskDone(TRUE)
    /\ UNCHANGED <<table_info_store, manager, watched, hw_entries, hw_groups, cleanup_scopes,
                   threw, written>>

CleanupGroup ==
    LET g == The(Last(cleanup_tasks).group) IN
    /\ InCleanup("group")
    /\ \/ TargetDeletesGroup(g) /\ TaskDone(FALSE)
       \/ TargetKeepsGroup(g) /\ TaskDone(TRUE)
    /\ UNCHANGED <<table_info_store, manager, watched, hw_entries, hw_members, cleanup_scopes,
                   threw, written>>

CleanupWatchPort ==
    LET t == Last(cleanup_tasks)
        w == IF t.port = INVALID_WATCH THEN {} ELSE {<<The(t.group), The(t.member), t.port>>}
    IN
    /\ InCleanup("watch")
    /\ watched' = watched \ w
    /\ TaskDone(~(w \subseteq watched))
    /\ UNCHANGED <<table_info_store, manager, target, cleanup_scopes, threw, written, failures>>

(* OneShotCleanup: ActionProfAccessOneshot::group_delete, the members and  *)
(* then the group, giving up at the first error.                           *)
CleanupOneShot ==
    LET g == The(Last(cleanup_tasks).group)
        mbrs == group_members[g]
        mbr == mbrs[op.i + 1]
    IN
    /\ InCleanup("oneshot")
    /\ IF g \notin DOMAIN group_members
       THEN threw' = TRUE /\ UNCHANGED <<group_members, watched, hw_members, hw_groups, cleanup_tasks,
                                        op, dirty, failures>>
       ELSE UNCHANGED threw /\
         \/ /\ op.i < Len(mbrs)
            /\ \/ /\ TargetDeletesMember(mbr.member_h)
                  /\ watched' = watched \ Watch(g, mbr)
                  /\ IF Watch(g, mbr) \subseteq watched
                     THEN op' = [op EXCEPT !.i = @ + 1] /\ UNCHANGED <<cleanup_tasks, dirty>>
                     ELSE TaskDone(TRUE)
               \/ /\ TargetKeepsMember(mbr.member_h)
                  /\ TaskDone(TRUE)
                  /\ UNCHANGED watched
            /\ UNCHANGED <<group_members, hw_groups>>
         \/ /\ op.i = Len(mbrs)
            /\ \/ /\ TargetDeletesGroup(g)
                  /\ group_members' = Without(group_members, g)
                  /\ TaskDone(FALSE)
               \/ TargetKeepsGroup(g) /\ TaskDone(TRUE) /\ UNCHANGED group_members
            /\ UNCHANGED <<hw_members, watched>>
    /\ UNCHANGED <<table_info_store, selector_usage, member_map, hw_entries, cleanup_scopes, written>>

CleanupStatus ==
    IF op.error_cnt = 0 THEN "OK" ELSE IF op.error_cnt = 1 THEN op.last ELSE "INTERNAL"

CleanupDone ==
    /\ InOp("cleanup") /\ cleanup_tasks = <<>>
    /\ cleanup_scopes' = <<>>
    /\ op' = Idle(IF CleanupStatus = "OK" THEN op.status ELSE CleanupStatus)
    /\ UNCHANGED <<table_info_store, manager, watched, target, cleanup_tasks, threw, history,
                   failures>>
-----------------------------------------------------------------------------
(* Members programmed by hand, and entries that name one.  Each of these   *)
(* calls manual() first, which may change the mode even when the call then *)
(* fails.                                                                  *)
Manual(effect) ==
    /\ Begin
    /\ \/ /\ ~MayUse("MANUAL") /\ Ok
          /\ op' = Idle("INVALID_ARGUMENT")
          /\ UNCHANGED <<table_info_store, manager, target>>
       \/ /\ MayUse("MANUAL")
          /\ selector_usage' = "MANUAL" /\ group_members' = NoFn
          /\ effect
    /\ UNCHANGED <<watched, cleanup, threw, history>>

ManualError(status) ==
    Ok /\ op' = Idle(status) /\ UNCHANGED <<table_info_store, member_map, target>>

member_create(id) ==
    Manual(
       \/ id \in DOMAIN member_map /\ ManualError("ALREADY_EXISTS")
       \/ /\ id \notin DOMAIN member_map
          /\ \/ \E m \in MemberH :
                   /\ TargetCreatesMember(m, 0)
                   /\ member_map' = With(member_map, id, m)
                   /\ op' = Idle("OK")
             \/ /\ TargetHasNoMember \/ Fails("member_create")
                /\ op' = Idle("UNKNOWN")
                /\ UNCHANGED <<member_map, hw_members>>
          /\ UNCHANGED <<table_info_store, hw_entries, hw_groups>>)

member_delete(id) ==
    Manual(
       \/ id \notin DOMAIN member_map /\ ManualError("NOT_FOUND")
       \/ /\ id \in DOMAIN member_map
          /\ \/ /\ TargetDeletesMember(member_map[id])
                /\ member_map' = Without(member_map, id)
                /\ op' = Idle("OK")
             \/ /\ TargetKeepsMember(member_map[id])
                /\ op' = Idle("UNKNOWN")
                /\ UNCHANGED member_map
          /\ UNCHANGED <<table_info_store, hw_entries, hw_groups>>)

(* table_insert and table_modify with the id of a member: is_oneshot is    *)
(* decided by the insert alone.                                            *)
WriteMemberEntry(k, id, missing, data) ==
    Manual(
       \/ id \notin DOMAIN member_map /\ ManualError("INVALID_ARGUMENT")
       \/ id \in DOMAIN member_map /\ missing # "OK" /\ ManualError(missing)
       \/ /\ id \in DOMAIN member_map /\ missing = "OK"
          /\ \/ /\ Ok
                /\ hw_entries' = With(hw_entries, k, member_map[id])
                /\ table_info_store' = With(table_info_store, k, data)
                /\ op' = Idle("OK")
             \/ /\ Fails("entry")
                /\ op' = Idle("UNKNOWN")
                /\ UNCHANGED <<table_info_store, hw_entries>>
          /\ UNCHANGED <<member_map, hw_members, hw_groups>>)

table_insert_member(k, id) ==
    WriteMemberEntry(k, id,
        IF k \in DOMAIN table_info_store THEN "ALREADY_EXISTS" ELSE "OK", ManualEntry)

table_modify_member(k, id) ==
    IF k \in DOMAIN table_info_store
    THEN WriteMemberEntry(k, id, "OK", table_info_store[k])
    ELSE WriteMemberEntry(k, id, "NOT_FOUND", ManualEntry)
-----------------------------------------------------------------------------
Quiescent == ((op.pc = "idle" /\ ops = MaxOps) \/ threw) /\ UNCHANGED vars

Next ==
    \/ \E k \in Key, set \in ActionSet, late_error \in BOOLEAN :
          table_insert(k, set, late_error) \/ table_modify(k, set, late_error)
    \/ \E k \in Key : table_delete(k)
    \/ CreateMember \/ CreateGroup \/ AddMember \/ SetMembers \/ GroupCreated
    \/ EntryFails \/ EntryAdd \/ EntryModify
    \/ CleanupMember \/ CleanupGroup \/ CleanupWatchPort \/ CleanupOneShot \/ CleanupDone
    \/ \E id \in MemberId : member_create(id) \/ member_delete(id)
    \/ \E k \in Key, id \in MemberId : table_insert_member(k, id) \/ table_modify_member(k, id)
    \/ Quiescent

Spec == Init /\ [][Next]_vars
-----------------------------------------------------------------------------
(* Reads: build_action_profile_action_set_map goes through every group on  *)
(* the target and gives up on the whole table at the first one it cannot   *)
(* account for.                                                            *)
Accounted(g) ==
    /\ g \in DOMAIN group_members
    /\ Cardinality(hw_groups[g]) = Len(group_members[g])
    /\ \A i \in DOMAIN group_members[g] :
          group_members[g][i].weight # 0 => group_members[g][i].member_h \in DOMAIN hw_members

ReadActionSet(g) ==
    LET shown == SelectSeq(group_members[g], LAMBDA mbr : mbr.weight # 0) IN
    [i \in DOMAIN shown |-> [weight |-> shown[i].weight, watch |-> shown[i].watch,
                             action |-> hw_members[shown[i].member_h]]]

AsRead(set) ==
    [i \in DOMAIN set |-> [weight |-> set[i].weight, watch |-> set[i].watch, action |-> i]]
-----------------------------------------------------------------------------
Settled == op.pc = "idle" /\ ~threw
OneShotKeys == {k \in DOMAIN table_info_store : table_info_store[k].is_oneshot}
Groups(k) == table_info_store[k].group
HandlesOf(g) == {group_members[g][i].member_h : i \in DOMAIN group_members[g]}
WatchesOf(g) == UNION {Watch(g, group_members[g][i]) : i \in DOMAIN group_members[g]}

(* The variables range over what the code can store in them. *)
TypeOK ==
    /\ DOMAIN table_info_store \subseteq Key /\ DOMAIN hw_entries \subseteq Key
    /\ selector_usage \in {"UNSPECIFIED", "MANUAL", "ONESHOT"}
    /\ DOMAIN group_members \subseteq GroupH /\ DOMAIN hw_groups \subseteq GroupH
    /\ DOMAIN hw_members \subseteq MemberH
    /\ \A g \in DOMAIN hw_groups : hw_groups[g] \subseteq MemberH
    /\ DOMAIN member_map \subseteq MemberId
    /\ watched \subseteq GroupH \X MemberH \X Port
    /\ \A i \in DOMAIN cleanup_scopes : cleanup_scopes[i] \in 0..Len(cleanup_tasks)

(* Between updates, and whatever failed before (rollbacks included): the   *)
(* entries the manager remembers are those of the target, an entry made    *)
(* with an action set points to the group it remembers, that group and its *)
(* members are on the target and known to the manager, and no two entries  *)
(* share one.  So an entry never forwards through a group that a rollback  *)
(* or another entry's update took away.  And no assert of table_modify,    *)
(* table_delete or the group functions fails: one-shot and manual          *)
(* programming are never mixed.  The variables keep their types.           *)
EntriesForward ==
    /\ TypeOK /\ ~threw
    /\ Settled =>
        /\ DOMAIN table_info_store = DOMAIN hw_entries
        /\ \A k \in OneShotKeys :
              /\ Groups(k) = {hw_entries[k]}
              /\ hw_entries[k] \in DOMAIN group_members \cap DOMAIN hw_groups
              /\ HandlesOf(hw_entries[k]) = hw_groups[hw_entries[k]]
              /\ HandlesOf(hw_entries[k]) \subseteq DOMAIN hw_members
              /\ WatchesOf(hw_entries[k]) \subseteq watched
        /\ \A k, l \in OneShotKeys : k # l => Groups(k) # Groups(l)

(* As long as no rollback and no deactivation failed, the target and the   *)
(* enforcer hold nothing but the groups of the entries, their members, and *)
(* the members made by hand: an update that fails half-way is undone       *)
(* completely.                                                             *)
NothingDangles ==
    (Settled /\ ~dirty) =>
        LET used == {The(Groups(k)) : k \in OneShotKeys} IN
        /\ DOMAIN hw_groups = used /\ DOMAIN group_members = used
        /\ DOMAIN hw_members = UNION {HandlesOf(g) : g \in used}
                               \cup {member_map[id] : id \in DOMAIN member_map}
        /\ watched = UNION {WatchesOf(g) : g \in used}

(* A read gives back the action set that was written: weights, watch ports *)
(* and order ("read-write symmetry", device_mgr.cpp:956).                  *)
ReadWriteSymmetry ==
    (Settled /\ ~dirty /\ selector_usage = "ONESHOT") =>
        /\ \A g \in DOMAIN hw_groups : Accounted(g)
        /\ \A k \in OneShotKeys : ReadActionSet(hw_entries[k]) = AsRead(written[k])
=============================================================================

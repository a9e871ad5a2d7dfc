--------------------------- MODULE ActionProfManual ---------------------------
(***************************************************************************)
(* ActionProfAccessManual of proto/frontend/src/action_prof_mgr.{h,cpp}:   *)
(* the members and groups of one action profile that a client programs     *)
(* itself.  A member of weight w in a group is programmed as w copies of   *)
(* it, so the manager keeps for each member as many copies as the highest  *)
(* weight it has in any group, and counts how many groups use each weight. *)
(*                                                                         *)
(* A Write holds the lock of the action profile for the whole operation,   *)
(* so operations do not interleave; one step is one call to the target,    *)
(* which may fail, with the bookkeeping around it.                         *)
(***************************************************************************)
EXTENDS Integers, Sequences, FiniteSets, SequencesExt

CONSTANTS
    Member,             \* ids (naturals: updates go through them in order)
    Group,
    Port, Action,
    MaxWeight,          \* bound on weights
    max_group_size,     \* of the P4Info; 0: unspecified
    Failing,            \* the target calls that may fail
    MaxFailures, MaxOps

ASSUME ManualAssumption ==
    /\ Member \subseteq Nat
    /\ IsFiniteSet(Member) /\ IsFiniteSet(Group)
    /\ MaxWeight \in Nat \ {0} /\ max_group_size \in Nat

VARIABLES
    members,    \* member_map: the copies, the weight counts, the action
    groups,     \* group_members and group_bimap
    hw_members, \* the target: the action of each member (a copy of a member id)
    hw_groups,  \* the target: the members of each group
    watched,    \* the watch port enforcer: <<group, copy, port>>
    op,         \* the operation in progress
    threw,      \* std::map::at threw, or an assert failed
    pi_api_choice,  \* fixed when the manager is constructed
    failed,     \* history: the target calls that failed
    ops

target == <<hw_members, hw_groups>>
bounds == <<failed, ops>>
vars == <<members, groups, target, watched, op, threw, pi_api_choice, bounds>>

INVALID_WATCH == "INVALID_WATCH"
Weight == 1..MaxWeight
Info == [weight : Weight, watch : Port \cup {INVALID_WATCH}]
Membership == UNION {[S -> Info] : S \in SUBSET Member}
Handle(m, i) == <<m, i>>
NoFn == [x \in {} |-> 0]
Without(f, x) == [y \in DOMAIN f \ {x} |-> f[y]]
With(f, x, v) == [y \in DOMAIN f \cup {x} |-> IF y = x THEN v ELSE f[y]]

WeightOf(ms, m) == IF m \in DOMAIN ms THEN ms[m].weight ELSE 0
WatchOf(ms, m) == IF m \in DOMAIN ms THEN ms[m].watch ELSE INVALID_WATCH
Ordered(S) == SetToSortSeq(S, <)

Idle(status) ==
    [pc |-> "idle", status |-> status, group |-> 0, current |-> NoFn, desired |-> NoFn,
     todo |-> <<>>, purge |-> <<>>, i |-> 0, end_weight |-> 0]

Init ==
    /\ members = NoFn /\ groups = NoFn
    /\ hw_members = NoFn /\ hw_groups = NoFn
    /\ watched = {}
    /\ op = Idle("OK")
    /\ threw = FALSE
    /\ pi_api_choice \in {"INDIVIDUAL_ADDS_AND_REMOVES", "SET_MEMBERSHIP"}
    /\ failed = <<>> /\ ops = 0

Begin == op.pc = "idle" /\ ~threw /\ ops < MaxOps /\ ops' = ops + 1 /\ UNCHANGED pi_api_choice
InOp(pc) == op.pc = pc /\ ~threw /\ UNCHANGED <<ops, pi_api_choice>>
Ok == UNCHANGED failed
Fails(call) == call \in Failing /\ Len(failed) < MaxFailures /\ failed' = Append(failed, call)
Return(status) == op' = Idle(status)
-----------------------------------------------------------------------------
(* Members. *)
OneCount == [w \in Weight |-> IF w = 1 THEN 1 ELSE 0]

member_create(m, a) ==
    /\ Begin /\ m \notin DOMAIN members
    /\ \/ /\ Ok
          /\ hw_members' = With(hw_members, Handle(m, 0), a)
          /\ members' = With(members, m, [copies |-> 1, weight_counts |-> OneCount, action |-> a])
          /\ Return("OK")
       \/ Fails("member_create") /\ Return("UNKNOWN") /\ UNCHANGED <<members, hw_members>>
    /\ UNCHANGED <<groups, hw_groups, watched, threw>>

member_modify(m, a) ==
    /\ Begin /\ m \in DOMAIN members /\ a # members[m].action
    /\ op' = [Idle("OK") EXCEPT !.pc = "member_modify", !.todo = <<m>>, !.desired = a]
    /\ UNCHANGED <<members, groups, target, watched, threw, failed>>

MemberModifyCopy ==
    LET m == Head(op.todo) IN
    /\ InOp("member_modify")
    /\ \/ /\ op.i < members[m].copies /\ Ok
          /\ hw_members' = [hw_members EXCEPT ![Handle(m, op.i)] = op.desired]
          /\ op' = [op EXCEPT !.i = @ + 1]
          /\ UNCHANGED members
       \/ /\ op.i < members[m].copies /\ Fails("member_modify")
          /\ Return("UNKNOWN")
          /\ UNCHANGED <<members, hw_members>>
       \/ /\ op.i = members[m].copies /\ Ok
          /\ members' = [members EXCEPT ![m].action = op.desired]
          /\ Return("OK")
          /\ UNCHANGED hw_members
    /\ UNCHANGED <<groups, hw_groups, watched, threw>>

(* pi_act_prof_mbr_delete: refused while a group uses the copy. *)
InUse(h) == \E g \in DOMAIN hw_groups : h \in hw_groups[g]
TargetDeletes(h) ==
    ~InUse(h) /\ h \in DOMAIN hw_members /\ hw_members' = Without(hw_members, h) /\ Ok
TargetRefuses(h) ==
    /\ UNCHANGED hw_members
    /\ \/ (InUse(h) \/ h \notin DOMAIN hw_members) /\ Ok
       \/ Fails("member_delete")

member_delete(m) ==
    /\ Begin /\ m \in DOMAIN members
    /\ op' = [Idle("OK") EXCEPT !.pc = "member_delete", !.todo = <<m>>]
    /\ UNCHANGED <<members, groups, target, watched, threw, failed>>

MemberDeleteCopy ==
    LET m == Head(op.todo) IN
    /\ InOp("member_delete")
    /\ \/ /\ op.i < members[m].copies
          /\ \/ TargetDeletes(Handle(m, op.i)) /\ op' = [op EXCEPT !.i = @ + 1]
             \/ TargetRefuses(Handle(m, op.i)) /\ Return("UNKNOWN")
          /\ UNCHANGED members
       \/ /\ op.i = members[m].copies /\ Ok
          /\ members' = Without(members, m)
          /\ Return("OK")
          /\ UNCHANGED hw_members
    /\ UNCHANGED <<groups, hw_groups, watched, threw>>
-----------------------------------------------------------------------------
(* Copies of a member that is in a group with weight > 1. *)

(* create_missing_weighted_members: the assert on the member (there, and   *)
(* with the copies its current weight needs), then one copy.               *)
HandlesCover(m) == m \in DOMAIN members /\ members[m].copies >= WeightOf(op.current, m)
AssertHandles(m) ==
    ~HandlesCover(m) /\ threw' = TRUE /\ UNCHANGED <<members, hw_members, op, failed>>
Missing(m) == members[m].copies < WeightOf(op.desired, m)
CreateCopy(m) ==
    /\ HandlesCover(m) /\ Missing(m) /\ UNCHANGED threw
    /\ \/ /\ Ok
          /\ hw_members' = With(hw_members, Handle(m, members[m].copies), members[m].action)
          /\ members' = [members EXCEPT ![m].copies = @ + 1]
          /\ UNCHANGED op
       \/ Fails("member_create") /\ Return("UNKNOWN") /\ UNCHANGED <<members, hw_members>>

(* purge_unused_weighted_members: the highest weight with a count *)
new_max_weight(m) ==
    CHOOSE w \in Weight : members[m].weight_counts[w] # 0
      /\ \A v \in Weight : members[m].weight_counts[v] # 0 => v <= w

(* One round of its loop for the head of op.purge, then the next member.   *)
PurgeCopy ==
    LET m == Head(op.purge) h == Handle(m, members[m].copies - 1) IN
    /\ \E pc \in {"purge", "delete_purge"} : InOp(pc)
    /\ op.purge # <<>>
    /\ \/ /\ members[m].copies > new_max_weight(m)
          /\ \/ /\ TargetDeletes(h)
                /\ members' = [members EXCEPT ![m].copies = @ - 1]
                /\ UNCHANGED op
             \/ TargetRefuses(h) /\ Return("INTERNAL") /\ UNCHANGED members
       \/ /\ members[m].copies <= new_max_weight(m) /\ Ok
          /\ op' = [op EXCEPT !.purge = Tail(@)]
          /\ UNCHANGED <<members, hw_members>>
    /\ UNCHANGED <<groups, hw_groups, watched, threw>>

(* All members of the update are purged: group_update_members returns the  *)
(* status it has so far; group_delete goes on with its next member.        *)
PurgeDone ==
    /\ op.purge = <<>>
    /\ \/ InOp("purge") /\ Return(op.status)
       \/ InOp("delete_purge") /\ op' = [op EXCEPT !.pc = "group_delete"]
    /\ UNCHANGED <<members, groups, target, watched, threw, failed>>
-----------------------------------------------------------------------------
(* group_update_members: the checks, then the updates in the order of the  *)
(* member ids (compute_membership_update).                                 *)
SumOfWeights(ms) == FoldFunction(+, 0, [m \in DOMAIN ms |-> ms[m].weight])
TooBig(ms, max_size_user) ==
    LET max_size == IF max_size_user = 0 THEN max_group_size ELSE max_size_user
    IN max_size > 0 /\ SumOfWeights(ms) > max_size

group_update_members(g, gs, ms) ==
    LET ids == Ordered(DOMAIN gs[g].members \cup DOMAIN ms) IN
    IF TooBig(ms, gs[g].max_size_user) THEN Return("RESOURCE_EXHAUSTED")
    ELSE IF ~(DOMAIN ms \subseteq DOMAIN members) THEN Return("NOT_FOUND")
    ELSE op' = [Idle("OK") EXCEPT
                  !.pc = IF pi_api_choice = "SET_MEMBERSHIP" THEN "set_create" ELSE "create",
                  !.group = g, !.current = gs[g].members, !.desired = ms,
                  !.todo = ids, !.purge = ids]

group_create(g, max_size, ms) ==
    /\ Begin /\ g \notin DOMAIN groups
    /\ ~(max_group_size > 0 /\ max_size > max_group_size)
    /\ \/ /\ Ok
          /\ hw_groups' = With(hw_groups, g, {})
          /\ groups' = With(groups, g, [max_size_user |-> max_size, members |-> NoFn])
          /\ group_update_members(g, groups', ms)
       \/ Fails("group_create") /\ Return("UNKNOWN") /\ UNCHANGED <<groups, hw_groups>>
    /\ UNCHANGED <<members, hw_members, watched, threw>>

group_modify(g, ms) ==
    /\ Begin /\ g \in DOMAIN groups
    /\ group_update_members(g, groups, ms)
    /\ UNCHANGED <<members, groups, target, watched, threw, failed>>

(* The entry of the update being applied. *)
M == Head(op.todo)
current_weight == WeightOf(op.current, M)
new_weight == WeightOf(op.desired, M)
current_watch == WatchOf(op.current, M)
new_watch == WatchOf(op.desired, M)

Watch(h, p) == IF p = INVALID_WATCH THEN {} ELSE {<<op.group, h, p>>}
Count(m, w, n) ==
    IF w > 0 THEN [members EXCEPT ![m].weight_counts[w] = @ + n] ELSE members

(* A call on a group the target does not have (any more) fails. *)
GroupOnTarget == op.group \in DOMAIN hw_groups
GroupCallFails(call) == (~GroupOnTarget /\ Ok) \/ (GroupOnTarget /\ Fails(call))

(* INDIVIDUAL_ADDS_AND_REMOVES *)
CreateMissing ==
    /\ InOp("create") /\ op.todo # <<>>
    /\ \/ CreateCopy(M)
       \/ AssertHandles(M)
       \/ /\ HandlesCover(M) /\ ~Missing(M) /\ Ok /\ UNCHANGED threw
          /\ members' = Count(M, current_weight, -1)
          /\ op' = [op EXCEPT !.pc = "remove", !.i = current_weight - 1,
                              !.end_weight = current_weight]
          /\ UNCHANGED hw_members
    /\ UNCHANGED <<groups, hw_groups, watched>>

(* delete_member fails when the enforcer does not know the copy. *)
RemoveMember ==
    LET h == Handle(M, op.i)
        w == Watch(h, current_watch)
        weight == WeightOf(groups[op.group].members, M)
    IN
    /\ InOp("remove") /\ op.i >= new_weight
    /\ watched' = watched \ w
    /\ \/ /\ w \subseteq watched /\ GroupOnTarget /\ Ok
          /\ hw_groups' = [hw_groups EXCEPT ![op.group] = @ \ {h}]
          /\ groups' = [groups EXCEPT ![op.group].members =
                          IF weight = 1 THEN Without(@, M) ELSE [@ EXCEPT ![M].weight = @ - 1]]
          /\ op' = [op EXCEPT !.i = @ - 1, !.end_weight = @ - 1]
       \/ /\ w \subseteq watched /\ GroupCallFails("group_remove_member")
          /\ op' = [op EXCEPT !.pc = "count", !.status = "UNKNOWN"]
          /\ UNCHANGED <<groups, hw_groups>>
       \/ /\ ~(w \subseteq watched) /\ Ok
          /\ op' = [op EXCEPT !.pc = "count", !.status = "INTERNAL"]
          /\ UNCHANGED <<groups, hw_groups>>
    /\ UNCHANGED <<members, hw_members, threw>>

RemovesDone ==
    /\ InOp("remove") /\ op.i < new_weight
    /\ op' = [op EXCEPT !.pc = "add", !.i = current_weight]
    /\ UNCHANGED <<members, groups, target, watched, threw, failed>>

(* Mutant: the membership is recorded before the target is called. *)
AddMember_eager ==
    LET h == Handle(M, op.i) weight == WeightOf(groups[op.group].members, M) IN
    /\ InOp("add") /\ op.i < new_weight
    /\ groups' = [groups EXCEPT ![op.group].members =
                    With(@, M, [weight |-> weight + 1, watch |-> new_watch])]
    /\ \/ /\ Ok
          /\ hw_groups' = [hw_groups EXCEPT ![op.group] = @ \cup {h}]
          /\ watched' = watched \cup Watch(h, new_watch)
          /\ op' = [op EXCEPT !.i = @ + 1, !.end_weight = @ + 1]
       \/ /\ Fails("group_add_member")
          /\ op' = [op EXCEPT !.pc = "count", !.status = "UNKNOWN"]
          /\ UNCHANGED <<hw_groups, watched>>
    /\ UNCHANGED <<members, hw_members, threw>>

(* group_add_member, then add_member_and_update_hw, which deactivates the  *)
(* copy if its port is down.                                               *)
AddMember ==
    LET h == Handle(M, op.i) weight == WeightOf(groups[op.group].members, M) IN
    /\ InOp("add") /\ op.i < new_weight
    /\ \/ /\ GroupOnTarget
          /\ hw_groups' = [hw_groups EXCEPT ![op.group] = @ \cup {h}]
          /\ groups' = [groups EXCEPT ![op.group].members =
                          With(@, M, [weight |-> weight + 1, watch |-> new_watch])]
          /\ watched' = watched \cup Watch(h, new_watch)
          /\ \/ Ok /\ op' = [op EXCEPT !.i = @ + 1, !.end_weight = @ + 1]
             \/ /\ new_watch # INVALID_WATCH /\ Fails("activate")
                /\ op' = [op EXCEPT !.pc = "count", !.end_weight = @ + 1, !.status = "UNKNOWN"]
       \/ /\ GroupCallFails("group_add_member")
          /\ op' = [op EXCEPT !.pc = "count", !.status = "UNKNOWN"]
          /\ UNCHANGED <<groups, hw_groups, watched>>
    /\ UNCHANGED <<members, hw_members, threw>>

AddsDone ==
    /\ InOp("add") /\ op.i >= new_weight
    /\ op' = [op EXCEPT !.pc = IF new_watch # current_watch THEN "watch" ELSE "count", !.i = 0]
    /\ UNCHANGED <<members, groups, target, watched, threw, failed>>

Kept == IF current_weight < new_weight THEN current_weight ELSE new_weight

(* modify_member_and_update_hw for the copies that were there.             *)
ModifyWatch ==
    LET h == Handle(M, op.i) w == Watch(h, current_watch) IN
    /\ InOp("watch") /\ op.status = "OK" /\ op.i < Kept
    /\ \/ /\ w \subseteq watched
          /\ watched' = (watched \ w) \cup Watch(h, new_watch)
          /\ \/ Ok /\ op' = [op EXCEPT !.i = @ + 1]
             \/ Fails("activate") /\ op' = [op EXCEPT !.status = "UNKNOWN"]
       \/ /\ ~(w \subseteq watched) /\ Ok
          /\ op' = [op EXCEPT !.status = "INTERNAL"]
          /\ UNCHANGED watched
    /\ UNCHANGED <<members, groups, target, threw>>

(* current_membership.at(m.id).watch = m.new_watch, whatever the status.   *)
ModifyWatchDone ==
    /\ InOp("watch") /\ (op.status # "OK" \/ op.i = Kept) /\ Ok
    /\ IF M \in DOMAIN groups[op.group].members
       THEN /\ groups' = [groups EXCEPT ![op.group].members[M].watch = new_watch]
            /\ op' = [op EXCEPT !.pc = "count"]
            /\ UNCHANGED threw
       ELSE threw' = TRUE /\ UNCHANGED <<groups, op>>
    /\ UNCHANGED <<members, target, watched>>

(* Mutant: the weight asked for is counted, not the one reached. *)
CountWeight_new ==
    /\ InOp("count") /\ Ok
    /\ members' = Count(M, new_weight, 1)
    /\ op' = IF op.status = "OK" /\ Len(op.todo) > 1
             THEN [op EXCEPT !.pc = "create", !.todo = Tail(@)]
             ELSE [op EXCEPT !.pc = "purge", !.todo = <<>>]
    /\ UNCHANGED <<groups, target, watched, threw>>

CountWeight ==
    /\ InOp("count") /\ Ok
    /\ members' = Count(M, op.end_weight, 1)
    /\ op' = IF op.status = "OK" /\ Len(op.todo) > 1
             THEN [op EXCEPT !.pc = "create", !.todo = Tail(@)]
             ELSE [op EXCEPT !.pc = "purge", !.todo = <<>>]
    /\ UNCHANGED <<groups, target, watched, threw>>
-----------------------------------------------------------------------------
(* SET_MEMBERSHIP *)
SetCreateMissing ==
    /\ InOp("set_create") /\ op.todo # <<>>
    /\ \/ CreateCopy(M)
       \/ M \in DOMAIN members /\ AssertHandles(M)
       \/ /\ M \notin DOMAIN members /\ Ok
          /\ Return("NOT_FOUND")
          /\ UNCHANGED <<members, hw_members, threw>>
       \/ /\ HandlesCover(M) /\ ~Missing(M) /\ Ok /\ UNCHANGED threw
          /\ op' = [op EXCEPT !.todo = Tail(@)]
          /\ UNCHANGED <<members, hw_members>>
    /\ UNCHANGED <<groups, hw_groups, watched>>

(* What a membership puts into a group, and into the enforcer. *)
CopiesOf(ms) == UNION {{Handle(m, i) : i \in 0..ms[m].weight - 1} : m \in DOMAIN ms}
WatchesOf(g, ms) ==
    {<<g, h, ms[h[1]].watch>> : h \in {k \in CopiesOf(ms) : ms[k[1]].watch # INVALID_WATCH}}

(* Mutant: the membership is recorded whatever the target answers. *)
SetMembers_always ==
    /\ InOp("set_create") /\ op.todo = <<>>
    /\ groups' = [groups EXCEPT ![op.group].members = op.desired]
    /\ \/ /\ Ok
          /\ hw_groups' = [hw_groups EXCEPT ![op.group] = CopiesOf(op.desired)]
          /\ op' = [op EXCEPT !.pc = "purge"]
       \/ /\ Fails("group_set_members")
          /\ op' = [op EXCEPT !.pc = "purge", !.status = "UNKNOWN"]
          /\ UNCHANGED hw_groups
    /\ UNCHANGED <<members, hw_members, watched, threw>>

(* group_set_members; on success the counts, the enforcer's entries and    *)
(* the membership follow without a call to the target.  An entry that the  *)
(* enforcer does not have is an INTERNAL error, and skips the purge.       *)
SetMembers ==
    LET old == WatchesOf(op.group, op.current) \ WatchesOf(op.group, op.desired)
        new == WatchesOf(op.group, op.desired) \ WatchesOf(op.group, op.current)
        lost == {w[2] : w \in old \ watched}
    IN
    /\ InOp("set_create") /\ op.todo = <<>>
    /\ \/ /\ GroupOnTarget /\ Ok
          /\ hw_groups' = [hw_groups EXCEPT ![op.group] = CopiesOf(op.desired)]
          /\ groups' = [groups EXCEPT ![op.group].members = op.desired]
          /\ watched' = (watched \ old) \cup {w \in new : w[2] \notin lost}
          /\ members' = [m \in DOMAIN members |->
                           [members[m] EXCEPT !.weight_counts =
                              [w \in Weight |-> @[w]
                                 - (IF WeightOf(op.current, m) = w THEN 1 ELSE 0)
                                 + (IF WeightOf(op.desired, m) = w THEN 1 ELSE 0)]]]
          /\ IF lost = {} THEN op' = [op EXCEPT !.pc = "purge"] ELSE Return("INTERNAL")
       \/ /\ GroupCallFails("group_set_members")
          /\ op' = [op EXCEPT !.pc = "purge", !.status = "UNKNOWN"]
          /\ UNCHANGED <<members, groups, hw_groups, watched>>
    /\ UNCHANGED <<hw_members, threw>>

(* An update that changes nothing has no entries. *)
NothingToDo ==
    /\ InOp("create") /\ op.todo = <<>>
    /\ op' = [op EXCEPT !.pc = "purge"]
    /\ UNCHANGED <<members, groups, target, watched, threw, failed>>
-----------------------------------------------------------------------------
group_delete(g) ==
    /\ Begin /\ g \in DOMAIN groups
    /\ \/ /\ g \in DOMAIN hw_groups /\ Ok
          /\ hw_groups' = Without(hw_groups, g)
          /\ op' = [Idle("OK") EXCEPT !.pc = "group_delete", !.group = g,
                      !.current = groups[g].members, !.todo = Ordered(DOMAIN groups[g].members)]
       \/ /\ g \notin DOMAIN hw_groups /\ Ok
          /\ Return("UNKNOWN") /\ UNCHANGED hw_groups
       \/ Fails("group_delete") /\ Return("UNKNOWN") /\ UNCHANGED hw_groups
    /\ UNCHANGED <<members, groups, hw_members, watched, threw>>

(* The body of its loop: the count, the enforcer's entries, the purge.     *)
GroupDeleteMember ==
    LET mine == {w \in WatchesOf(op.group, op.current) : w[2][1] = M} IN
    /\ InOp("group_delete") /\ op.todo # <<>> /\ Ok
    /\ members' = Count(M, current_weight, -1)
    /\ watched' = watched \ mine
    /\ IF mine \subseteq watched
       THEN op' = [op EXCEPT !.pc = "delete_purge", !.purge = <<M>>, !.todo = Tail(@)]
       ELSE Return("INTERNAL")
    /\ UNCHANGED <<groups, target, threw>>

GroupDeleteDone ==
    /\ InOp("group_delete") /\ op.todo = <<>> /\ Ok
    /\ groups' = Without(groups, op.group)
    /\ Return("OK")
    /\ UNCHANGED <<members, target, watched, threw>>
-----------------------------------------------------------------------------
Next ==
    \/ \E m \in Member, a \in Action : member_create(m, a) \/ member_modify(m, a)
    \/ \E m \in Member : member_delete(m)
    \/ \E g \in Group, ms \in Membership, max_size \in 0..max_group_size :
         group_create(g, max_size, ms)
    \/ \E g \in Group, ms \in Membership : group_modify(g, ms)
    \/ \E g \in Group : group_delete(g)
    \/ MemberModifyCopy \/ MemberDeleteCopy
    \/ CreateMissing \/ RemoveMember \/ RemovesDone \/ AddMember \/ AddsDone
    \/ ModifyWatch \/ ModifyWatchDone \/ CountWeight \/ NothingToDo
    \/ SetCreateMissing \/ SetMembers
    \/ PurgeCopy \/ PurgeDone
    \/ GroupDeleteMember \/ GroupDeleteDone

Spec == Init /\ [][Next]_vars
-----------------------------------------------------------------------------
AtRest == op.pc = "idle" /\ ~threw

Failed(calls) == \E i \in DOMAIN failed : failed[i] \in calls

(* The calls whose failure leaves an operation half-way with nothing to    *)
(* resume it: the copies purged by a deletion, the member a group keeps    *)
(* although the enforcer forgot it, the member that was added but not      *)
(* deactivated.                                                            *)
Unrecovered == Failed({"member_delete", "group_remove_member", "activate"})

(* Every variable keeps its type: in particular no member of the manager   *)
(* is left without a copy.                                                 *)
TypeOK ==
    /\ DOMAIN members \subseteq Member /\ DOMAIN groups \subseteq Group
    /\ \A m \in DOMAIN members : members[m].copies \in Weight
    /\ \A g \in DOMAIN groups : groups[g].members \in Membership
    /\ DOMAIN hw_members \subseteq Member \X (0..MaxWeight - 1)
    /\ watched \subseteq Group \X (Member \X (0..MaxWeight - 1)) \X Port

(* The copies the manager knows are the members the target has, with the   *)
(* action of the member: no operation loses or leaks a copy, whatever call *)
(* fails (member_modify apart, which changes the copies one by one).       *)
CopiesMatchTarget ==
    AtRest /\ ~Failed({"member_modify"}) => hw_members = [h \in UNION {{Handle(m, i) : i \in 0..members[m].copies - 1}
                                            : m \in DOMAIN members} |-> members[h[1]].action]

(* The membership and the weights the manager records for a group are what *)
(* the target has, also after an update in which a create, an add or a set *)
(* failed half-way.                                                        *)
MembershipMatchesTarget ==
    AtRest /\ ~Unrecovered => hw_groups = [g \in DOMAIN groups |-> CopiesOf(groups[g].members)]

GroupsUsing(m, w) == {g \in DOMAIN groups : WeightOf(groups[g].members, m) = w}

(* weight_counts counts the groups that use each weight of a member, plus  *)
(* one for the weight 1 of the member itself, and there are copies enough  *)
(* for the highest: purging cannot take a copy that is in use, also after  *)
(* a create, an add or a set failed half-way.                              *)
WeightCountsRight ==
    AtRest /\ ~Unrecovered => \A m \in DOMAIN members, w \in Weight :
      /\ members[m].weight_counts[w]
           = Cardinality(GroupsUsing(m, w)) + (IF w = 1 THEN 1 ELSE 0)
      /\ GroupsUsing(m, w) # {} => members[m].copies >= w

(* As long as no call failed, no copy is kept that no group needs. *)
NoSpareCopies ==
    AtRest /\ failed = <<>> =>
      \A m \in DOMAIN members :
        members[m].copies = 1 \/ GroupsUsing(m, members[m].copies) # {}

(* Whatever calls failed, the manager knows every member, group and group  *)
(* membership that the target has: nothing is left dangling.               *)
TargetIsKnown ==
    AtRest =>
      /\ \A h \in DOMAIN hw_members : h[1] \in DOMAIN members /\ h[2] < members[h[1]].copies
      /\ \A g \in DOMAIN hw_groups :
           g \in DOMAIN groups /\ hw_groups[g] \subseteq CopiesOf(groups[g].members)

(* The enforcer knows exactly the copies that have a watch port, so that   *)
(* "no reason to fail, we are just updating the watch_port_enforcer"       *)
(* (action_prof_mgr.cpp:684) is true of every later removal.               *)
EnforcerFollows ==
    AtRest /\ ~Unrecovered => watched = UNION {WatchesOf(g, groups[g].members) : g \in DOMAIN groups}

(* action_profile_group_read_one: the weights are counted from the copies  *)
(* of the target; every member gets the watch port of the copy read last.  *)
action_profile_group_read_one(g, last) ==
    [m \in {h[1] : h \in hw_groups[g]} |->
       [weight |-> Cardinality({h \in hw_groups[g] : h[1] = m}),
        watch |-> groups[g].members[last[1]].watch]]

(* A group whose members have one watch port is read as it was written, in *)
(* whatever order the target returns the copies.                           *)
GroupsReadBack ==
    AtRest /\ ~Unrecovered =>
      \A g \in DOMAIN groups :
        Cardinality({groups[g].members[m].watch : m \in DOMAIN groups[g].members}) = 1 =>
          \A last \in hw_groups[g] : action_profile_group_read_one(g, last) = groups[g].members

(* What the manager knows, and what a client reads, is what the target     *)
(* has.                                                                    *)
TargetMatches ==
    CopiesMatchTarget /\ MembershipMatchesTarget /\ TargetIsKnown /\ GroupsReadBack

(* The weights are counted right and no more copies are kept than that;    *)
(* the variables keep their types.                                         *)
CopiesAreCounted == TypeOK /\ WeightCountsRight /\ NoSpareCopies
=============================================================================

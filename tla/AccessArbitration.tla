-------------------------- MODULE AccessArbitration --------------------------
(***************************************************************************)
(* The lock of the P4Runtime frontend: proto/frontend/src/                 *)
(* access_arbitration.{h,cpp}.  Every RPC of a device, and the thread that *)
(* enforces watch ports, goes through it.                                  *)
(*                                                                         *)
(* A thread constructs an Access object (the call), which takes the mutex  *)
(* and waits on the condition variable until the predicate of its overload *)
(* holds; the destructor releases.  One step of the model is one critical  *)
(* section of the mutex: evaluating the predicate and either granting or   *)
(* joining the waiters, or releasing and waking every waiter.              *)
(***************************************************************************)
EXTENDS Integers, FiniteSets

CONSTANTS
    Thread,     \* threads that construct Access objects
    Table,      \* ids of P4 tables
    ActProf,    \* ids of action profiles
    OtherId,    \* ids of meters, counters, registers, value sets
    P4Infos     \* the P4Infos a caller may pass: the action profile, if any,
                \* that implements each table the P4Info knows

PI_INVALID_ID == 0
P4Id == Table \cup ActProf \cup OtherId

ASSUME AccessAssumption ==
    /\ IsFiniteSet(Thread)
    /\ P4Id \subseteq Nat \ {PI_INVALID_ID}
    /\ IsFiniteSet(P4Id)
    /\ \A p4info \in P4Infos :
         /\ DOMAIN p4info \subseteq Table
         /\ \A t \in DOMAIN p4info : p4info[t] \in ActProf \cup {PI_INVALID_ID}

VARIABLES
    read_cnt, write_cnt, update_cnt, no_write_cnt,
    p4_ids_busy,
    cv_waiters,  \* threads blocked in cv.wait
    access       \* access[th]: the Access object th has under construction or owns

arbitration == <<read_cnt, write_cnt, update_cnt, no_write_cnt, p4_ids_busy>>
vars == <<read_cnt, write_cnt, update_cnt, no_write_cnt, p4_ids_busy,
          cv_waiters, access>>

(* The overloads of the four Access constructors. *)
WriteOp   == {"write_request", "write_id"}
NoWriteOp == {"no_write", "no_write_skip", "no_write_one_of", "no_write_one_of_skip"}
OneOfOp   == {"no_write_one_of", "no_write_one_of_skip"}
SkipOp    == {"no_write_skip", "no_write_one_of_skip"}
Op == WriteOp \cup NoWriteOp \cup {"read", "update"}

(* idle: no object; called: in the constructor; held: constructed, with an *)
(* arbitrator; no_access: constructed, arbitrator is nullptr.               *)
AccessState == {"idle", "called", "held", "no_access"}
NoAccess == [state |-> "idle", op |-> "read", p4_ids |-> {}]

Holders(ops) == {th \in Thread : access[th].state = "held" /\ access[th].op \in ops}
IdHolders == Holders(WriteOp \cup NoWriteOp)

Init ==
    /\ read_cnt = 0 /\ write_cnt = 0 /\ update_cnt = 0 /\ no_write_cnt = 0
    /\ p4_ids_busy = {}
    /\ cv_waiters = {}
    /\ access = [th \in Thread |-> NoAccess]
-----------------------------------------------------------------------------
(* What write_access(request, p4info) locks: the ids the updates name      *)
(* (entities without an id, such as digests and multicast groups, name     *)
(* none) and the action profile implementing each table p4info knows.      *)
WriteRequestIds(ids, p4info) ==
    ids \cup {p4info[t] : t \in {u \in ids \cap DOMAIN p4info : p4info[u] # PI_INVALID_ID}}

(* A thread enters a constructor.  The request overload computes its ids   *)
(* before it takes the mutex.                                              *)
Call(th, op, ids) ==
    /\ access[th].state = "idle"
    /\ access' = [access EXCEPT ![th] = [state |-> "called", op |-> op, p4_ids |-> ids]]
    /\ UNCHANGED <<arbitration, cv_waiters>>

CallWriteRequest(th, ids, p4info) == Call(th, "write_request", WriteRequestIds(ids, p4info))
CallOneId(th, op, id) == op \in {"write_id", "no_write", "no_write_skip"} /\ Call(th, op, {id})
CallGlobal(th, op) == op \in {"read", "update"} /\ Call(th, op, {})

(* one_of: an empty set of candidates is answered without taking the mutex. *)
CallOneOf(th, op, ids) ==
    /\ op \in OneOfOp
    /\ \/ ids # {} /\ Call(th, op, ids)
       \/ /\ ids = {}
          /\ access[th].state = "idle"
          /\ access' = [access EXCEPT ![th] = [state |-> "no_access", op |-> op, p4_ids |-> {}]]
          /\ UNCHANGED <<arbitration, cv_waiters>>
-----------------------------------------------------------------------------
(* The predicates given to cv.wait, one per overload. *)
NotBusy(ids) == ids \ p4_ids_busy

(* Mutants: a predicate that forgets a counter. *)
WriteIdReady_update(ids)    == read_cnt = 0 /\ p4_ids_busy \cap ids = {}
ReadReady_update            == write_cnt = 0

WriteRequestReady(ids) == read_cnt = 0 /\ p4_ids_busy \cap ids = {}
WriteIdReady(ids)      == read_cnt = 0 /\ update_cnt = 0 /\ p4_ids_busy \cap ids = {}
NoWriteReady(ids)      == update_cnt = 0 /\ NotBusy(ids) # {}
NoWriteSkipReady(ids)  == update_cnt # 0 \/ NotBusy(ids) # {}
ReadReady              == write_cnt = 0 /\ update_cnt = 0
UpdateReady            == write_cnt = 0 /\ read_cnt = 0 /\ no_write_cnt = 0 /\ update_cnt = 0

Ready(th) ==
    LET op == access[th].op
        ids == access[th].p4_ids
    IN  \/ op = "write_request" /\ WriteRequestReady(ids)
        \/ op = "write_id" /\ WriteIdReady(ids)
        \/ op \in NoWriteOp \ SkipOp /\ NoWriteReady(ids)
        \/ op \in SkipOp /\ NoWriteSkipReady(ids)
        \/ op = "read" /\ ReadReady
        \/ op = "update" /\ UpdateReady

(* th runs inside the constructor: it holds the mutex and is not blocked. *)
Running(th) == access[th].state = "called" /\ th \notin cv_waiters

Wait(th) ==
    /\ Running(th)
    /\ ~Ready(th)
    /\ cv_waiters' = cv_waiters \cup {th}
    /\ UNCHANGED <<arbitration, access>>

Granted(th, ids) ==
    access' = [access EXCEPT ![th] = [state |-> "held", op |-> @.op, p4_ids |-> ids]]

GrantWrite(th) ==
    /\ Running(th) /\ Ready(th) /\ access[th].op \in WriteOp
    /\ write_cnt' = write_cnt + 1
    /\ p4_ids_busy' = p4_ids_busy \cup access[th].p4_ids
    /\ Granted(th, access[th].p4_ids)
    /\ UNCHANGED <<read_cnt, update_cnt, no_write_cnt, cv_waiters>>

(* The four no_write_access overloads; one_of takes the smallest candidate *)
(* that is not busy (find_not_in_set).                                     *)
GrantNoWrite(th) ==
    /\ Running(th) /\ Ready(th) /\ access[th].op \in NoWriteOp
    /\ update_cnt = 0
    /\ no_write_cnt' = no_write_cnt + 1
    /\ \E id \in NotBusy(access[th].p4_ids) :
         /\ \A other \in NotBusy(access[th].p4_ids) : id <= other
         /\ p4_ids_busy' = p4_ids_busy \cup {id}
         /\ Granted(th, {id})
    /\ UNCHANGED <<read_cnt, write_cnt, update_cnt, cv_waiters>>

(* skip_if_update: the object is constructed without access. *)
SkipNoWrite(th) ==
    /\ Running(th) /\ Ready(th) /\ access[th].op \in SkipOp
    /\ update_cnt # 0
    /\ access' = [access EXCEPT ![th] = [state |-> "no_access", op |-> @.op, p4_ids |-> {}]]
    /\ UNCHANGED <<arbitration, cv_waiters>>

GrantRead(th) ==
    /\ Running(th) /\ Ready(th) /\ access[th].op = "read"
    /\ read_cnt' = read_cnt + 1
    /\ Granted(th, {})
    /\ UNCHANGED <<write_cnt, update_cnt, no_write_cnt, p4_ids_busy, cv_waiters>>

GrantUpdate(th) ==
    /\ Running(th) /\ Ready(th) /\ access[th].op = "update"
    /\ update_cnt' = update_cnt + 1
    /\ Granted(th, {})
    /\ UNCHANGED <<read_cnt, write_cnt, no_write_cnt, p4_ids_busy, cv_waiters>>
-----------------------------------------------------------------------------
(* The destructors: undo the grant and notify_all. *)
Released(th) ==
    /\ access' = [access EXCEPT ![th] = NoAccess]
    /\ cv_waiters' = {}

ReleaseWrite(th) ==
    /\ th \in Holders(WriteOp)
    /\ write_cnt' = write_cnt - 1
    /\ p4_ids_busy' = p4_ids_busy \ access[th].p4_ids
    /\ Released(th)
    /\ UNCHANGED <<read_cnt, update_cnt, no_write_cnt>>

(* Mutant: a release that notifies nobody. *)
ReleaseNoWrite_quiet(th) ==
    /\ th \in Holders(NoWriteOp)
    /\ no_write_cnt' = no_write_cnt - 1
    /\ p4_ids_busy' = p4_ids_busy \ access[th].p4_ids
    /\ access' = [access EXCEPT ![th] = NoAccess]
    /\ UNCHANGED <<read_cnt, write_cnt, update_cnt, cv_waiters>>

ReleaseNoWrite(th) ==
    /\ th \in Holders(NoWriteOp)
    /\ no_write_cnt' = no_write_cnt - 1
    /\ p4_ids_busy' = p4_ids_busy \ access[th].p4_ids
    /\ Released(th)
    /\ UNCHANGED <<read_cnt, write_cnt, update_cnt>>

ReleaseRead(th) ==
    /\ th \in Holders({"read"})
    /\ read_cnt' = read_cnt - 1
    /\ Released(th)
    /\ UNCHANGED <<write_cnt, update_cnt, no_write_cnt, p4_ids_busy>>

ReleaseUpdate(th) ==
    /\ th \in Holders({"update"})
    /\ update_cnt' = update_cnt - 1
    /\ Released(th)
    /\ UNCHANGED <<read_cnt, write_cnt, no_write_cnt, p4_ids_busy>>

DropNoAccess(th) ==
    /\ access[th].state = "no_access"
    /\ access' = [access EXCEPT ![th] = NoAccess]
    /\ UNCHANGED <<arbitration, cv_waiters>>
-----------------------------------------------------------------------------
Construct(th) ==
    \/ \E ids \in SUBSET P4Id, p4info \in P4Infos : CallWriteRequest(th, ids, p4info)
    \/ \E op \in Op, id \in P4Id : CallOneId(th, op, id)
    \/ \E op \in Op, ids \in SUBSET ActProf : CallOneOf(th, op, ids)
    \/ \E op \in Op : CallGlobal(th, op)

Acquire(th) ==
    \/ GrantWrite(th) \/ GrantNoWrite(th) \/ SkipNoWrite(th)
    \/ GrantRead(th) \/ GrantUpdate(th)

Destroy(th) ==
    \/ ReleaseWrite(th) \/ ReleaseNoWrite(th) \/ ReleaseRead(th)
    \/ ReleaseUpdate(th) \/ DropNoAccess(th)

Next == \E th \in Thread : Construct(th) \/ Wait(th) \/ Acquire(th) \/ Destroy(th)

Spec == Init /\ [][Next]_vars

(* A thread that can run in its constructor runs, and an Access object     *)
(* leaves its scope: neither needs any other thread's help.                *)
FairSpec ==
    /\ Spec
    /\ \A th \in Thread : WF_vars(Wait(th) \/ Acquire(th)) /\ WF_vars(Destroy(th))
-----------------------------------------------------------------------------
(* Properties. *)

(* Every variable keeps its type: counters, ids and Access objects.  The   *)
(* counters are natural numbers, which is the validate_state() the code    *)
(* asserts after each critical section.                                    *)
TypeOK ==
    /\ read_cnt \in Nat /\ write_cnt \in Nat /\ update_cnt \in Nat /\ no_write_cnt \in Nat
    /\ p4_ids_busy \subseteq P4Id
    /\ access \in [Thread -> [state : AccessState, op : Op, p4_ids : SUBSET P4Id]]
    /\ cv_waiters \subseteq {th \in Thread : access[th].state = "called"}

(* Each counter counts the live Access objects of its kind, however calls, *)
(* skips and releases interleave: no release is lost or done twice.        *)
CountersCountHolders ==
    /\ read_cnt = Cardinality(Holders({"read"}))
    /\ write_cnt = Cardinality(Holders(WriteOp))
    /\ update_cnt = Cardinality(Holders({"update"}))
    /\ no_write_cnt = Cardinality(Holders(NoWriteOp))

(* "WriteAccess: exclusive access to a specific set of P4Info objects":    *)
(* two WriteAccess / NoWriteAccess objects never share an id, and          *)
(* p4_ids_busy is exactly what they hold, so that the erase loop of one    *)
(* release never frees an id another thread still relies on.               *)
IdsHeldOnce ==
    /\ \A t1, t2 \in IdHolders :
         t1 # t2 => access[t1].p4_ids \cap access[t2].p4_ids = {}
    /\ \A id \in P4Id :
         id \in p4_ids_busy <=> \E th \in IdHolders : id \in access[th].p4_ids

(* "it is not possible to have a concurrent WriteAccess instance" while a  *)
(* ReadAccess exists, whatever ids the writer holds.                       *)
ReadersExcludeWriters == Holders({"read"}) = {} \/ Holders(WriteOp) = {}

(* While a pipeline update holds its access, the only other accesses alive *)
(* are write requests: readers, watch-port tasks and other updates are     *)
(* kept out.                                                               *)
UpdateExcludesAllButRequests ==
    \A u \in Holders({"update"}) : Holders(Op \ {"write_request"}) = {u}

(* No lost wakeup: a thread asleep on the condition variable is one whose  *)
(* predicate is false.  Grants do not notify, and skip_if_update waits for *)
(* an update to START, so this depends on which grants can coexist.        *)
NoLostWakeup == \A th \in cv_waiters : ~Ready(th)

(* An update is granted only at a moment when no access object is alive.   *)
UpdateGrantedAlone ==
    [][Holders({"update"})' \subseteq Holders({"update"}) \/ Holders(Op) = {}]_vars

(* If constructors stop being called, every thread blocked in one gets out *)
(* of it: the notify_all of the releases is enough to drain the waiters.   *)
NoMoreCalls == <>[][\A th \in Thread : ~Construct(th)]_vars
WaitersDrain == NoMoreCalls => \A th \in Thread : []<>(access[th].state # "called")
=============================================================================

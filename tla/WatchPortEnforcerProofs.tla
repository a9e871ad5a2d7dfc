----------------------- MODULE WatchPortEnforcerProofs -----------------------
(***************************************************************************)
(* MembersFollowPorts and CacheCurrentAtRest, for any number of threads,   *)
(* action profiles, members and ports and for any values of the bounds:    *)
(* the lock, put together with WatchPortSteps and WatchPortMembers.        *)
(***************************************************************************)
EXTENDS WatchPortMembers, FiniteSetTheorems

-----------------------------------------------------------------------------
(* The lock.  Each counter counts the Access objects of its kind.          *)
LockInv ==
    /\ Arb!TypeOK
    /\ write_cnt = Cardinality(Arb!Holders(Arb!WriteOp))
    /\ no_write_cnt = Cardinality(Arb!Holders(Arb!NoWriteOp))
    /\ update_cnt = Cardinality(Arb!Holders({"update"}))

LEMMA HoldersFinite ==
    ASSUME NEW ops
    PROVE  /\ IsFiniteSet(Arb!Holders(ops))
           /\ Cardinality(Arb!Holders(ops)) \in Nat
           /\ Cardinality(Arb!Holders(ops)) = 0 <=> Arb!Holders(ops) = {}
  <1>1. IsFiniteSet(Thread) /\ Arb!Holders(ops) \subseteq Thread
    BY WatchAssumption DEF WatchAssumption, Arb!Holders
  <1>2. IsFiniteSet(Arb!Holders(ops))
    BY <1>1, FS_Subset, ZenonT(60)
  <1>3. QED
    BY <1>2, FS_CardinalityType, FS_EmptySet, ZenonT(60)

(* What is used of it: the types, and that write_cnt counts the writers.   *)
LEMMA LockFacts ==
    ASSUME LockInv
    PROVE  AccessType /\ WriteCntInv
  <1>1. AccessType
    BY DEF LockInv, Arb!TypeOK, Arb!AccessState, Arb!P4Id, AccessType
  <1>2. WriteCntInv
    <2>1. write_cnt = 0 => Arb!Holders(Arb!WriteOp) = {}
      BY HoldersFinite, ZenonT(60) DEF LockInv
    <2>2. QED
      BY <2>1, ZenonT(60) DEF WriteCntInv, Arb!Holders, Arb!WriteOp
  <1>3. QED
    BY <1>1, <1>2, ZenonT(60)

(* The holders when one thread gets, or gives up, its access. *)
LEMMA HolderAdded ==
    ASSUME AccessType, AccessType', NEW th \in Thread, Only(th), NEW ops, access[th].op \in ops,
           access[th].state # "held", access'[th].state = "held", access'[th].op = access[th].op
    PROVE  Cardinality(Arb!Holders(ops))' = Cardinality(Arb!Holders(ops)) + 1
  <1>1. th \notin Arb!Holders(ops) /\ Arb!Holders(ops)' = Arb!Holders(ops) \cup {th}
    BY ZenonT(60) DEF Only, Arb!Holders
  <1>2. QED
    BY <1>1, HoldersFinite, FS_AddElement, ZenonT(60)

LEMMA HolderRemoved ==
    ASSUME AccessType, AccessType', NEW th \in Thread, Only(th), NEW ops, access[th].op \in ops,
           access[th].state = "held", access'[th].state # "held"
    PROVE  /\ Cardinality(Arb!Holders(ops))' = Cardinality(Arb!Holders(ops)) - 1
           /\ Cardinality(Arb!Holders(ops)) # 0
  <1>1. th \in Arb!Holders(ops) /\ Arb!Holders(ops)' = Arb!Holders(ops) \ {th}
    BY DEF Only, Arb!Holders
  <1>2. QED
    BY <1>1, HoldersFinite, FS_RemoveElement, ZenonT(60)

LEMMA HoldersKept ==
    ASSUME AccessType, AccessType', NEW th \in Thread, Only(th), NEW ops,
           \/ access[th].state # "held" /\ access'[th].state # "held"
           \/ access[th].op \notin ops /\ access'[th].state # "held"
           \/ access[th].op \notin ops /\ access'[th].op = access[th].op
    PROVE  Cardinality(Arb!Holders(ops))' = Cardinality(Arb!Holders(ops))
  <1>1. Arb!Holders(ops)' = Arb!Holders(ops)
    BY ZenonT(60) DEF Only, Arb!Holders
  <1>2. QED
    BY <1>1, ZenonT(60)

(* The Access object of a thread changes; its waiters are those of before, *)
(* which th is none of, or nobody.                                         *)
LEMMA LockTypes ==
    ASSUME LockInv, NEW th \in Thread,
           NEW obj \in [state : Arb!AccessState, op : Arb!Op, p4_ids : SUBSET ActProf],
           access' = [access EXCEPT ![th] = obj],
           \/ UNCHANGED cv_waiters /\ (access[th].state # "called" \/ th \notin cv_waiters)
           \/ cv_waiters' = {},
           p4_ids_busy' \subseteq ActProf
    PROVE  /\ AccessType' /\ Only(th) /\ access'[th] = obj
           /\ (read_cnt' \in Nat /\ write_cnt' \in Nat /\ update_cnt' \in Nat /\ no_write_cnt' \in Nat)
                => Arb!TypeOK'
  <1>1. AccessType /\ Arb!P4Id = ActProf
    BY LockFacts, ZenonT(60) DEF Arb!P4Id
  <1>2. AccessType'
    BY <1>1, ZenonT(60) DEF AccessType, Arb!AccessState
  <1>3. Only(th) /\ access'[th] = obj
    BY <1>1, AccessSet, ZenonT(60)
  <1>4. cv_waiters' \subseteq {t \in Thread : access'[t].state = "called"}
    <2>1. cv_waiters \subseteq {t \in Thread : access[t].state = "called"}
      BY ZenonT(60) DEF LockInv, Arb!TypeOK
    <2>2. QED
      BY <1>3, <2>1, ZenonT(60) DEF Only
  <1>5. /\ access' \in [Thread -> [state : Arb!AccessState, op : Arb!Op, p4_ids : SUBSET Arb!P4Id]]
        /\ p4_ids_busy' \subseteq Arb!P4Id
    BY <1>1, <1>2, ZenonT(60) DEF AccessType, Arb!AccessState
  <1>6. QED
    BY <1>2, <1>3, <1>4, <1>5, ZenonT(60) DEF Arb!TypeOK

(* Every step of the lock that the threads make keeps the counters right. *)
LEMMA LockCalls ==
    ASSUME LockInv, NEW th \in Thread,
           \E op \in Arb!Op, ids \in SUBSET ActProf : Arb!Call(th, op, ids)
    PROVE  LockInv'
  <1>1. PICK op \in Arb!Op, ids \in SUBSET ActProf : Arb!Call(th, op, ids)
    OBVIOUS
  <1>2. /\ access[th].state = "idle"
        /\ access' = [access EXCEPT ![th] = [state |-> "called", op |-> op, p4_ids |-> ids]]
        /\ UNCHANGED <<read_cnt, write_cnt, update_cnt, no_write_cnt, p4_ids_busy, cv_waiters>>
    BY <1>1, ZenonT(60) DEF Arb!Call, Arb!arbitration
  <1>3. p4_ids_busy \subseteq ActProf
    BY ZenonT(60) DEF LockInv, Arb!TypeOK, Arb!P4Id
  <1>4. [state |-> "called", op |-> op, p4_ids |-> ids]
          \in [state : Arb!AccessState, op : Arb!Op, p4_ids : SUBSET ActProf]
    BY ZenonT(60) DEF Arb!AccessState
  <1>5. /\ AccessType' /\ Only(th) /\ access'[th].state = "called" /\ Arb!TypeOK'
    BY <1>2, <1>3, <1>4, LockTypes, ZenonT(60) DEF LockInv, Arb!TypeOK
  <1>6. \A ops : Cardinality(Arb!Holders(ops))' = Cardinality(Arb!Holders(ops))
    BY <1>2, <1>5, LockFacts, HoldersKept, ZenonT(60)
  <1>7. QED
    BY <1>2, <1>5, <1>6, ZenonT(60) DEF LockInv

LEMMA LockGrants ==
    ASSUME LockInv, NEW th \in Thread,
           \/ Arb!GrantWrite(th) \/ Arb!GrantNoWrite(th) \/ Arb!GrantUpdate(th) \/ Arb!SkipNoWrite(th)
    PROVE  LockInv'
  <1>1. /\ AccessType /\ Arb!P4Id = ActProf /\ p4_ids_busy \subseteq ActProf
        /\ access[th].op \in Arb!Op /\ access[th].p4_ids \subseteq ActProf
        /\ read_cnt \in Nat /\ write_cnt \in Nat /\ update_cnt \in Nat /\ no_write_cnt \in Nat
    BY LockFacts, ZenonT(60) DEF LockInv, Arb!TypeOK, Arb!P4Id
  <1>2. \A st \in {"held", "no_access"}, ids \in SUBSET ActProf :
          [state |-> st, op |-> access[th].op, p4_ids |-> ids]
            \in [state : Arb!AccessState, op : Arb!Op, p4_ids : SUBSET ActProf]
    BY <1>1, ZenonT(60) DEF Arb!AccessState
  <1>3. access[th].state = "called" /\ th \notin cv_waiters
    BY ZenonT(60) DEF Arb!GrantWrite, Arb!GrantNoWrite, Arb!GrantUpdate, Arb!SkipNoWrite, Arb!Running
  <1>4. ASSUME NEW ids \in SUBSET ActProf, Arb!Granted(th, ids), UNCHANGED cv_waiters,
               p4_ids_busy' \subseteq ActProf
        PROVE  /\ AccessType' /\ Only(th)
               /\ access'[th].state = "held" /\ access'[th].op = access[th].op
               /\ (read_cnt' \in Nat /\ write_cnt' \in Nat /\ update_cnt' \in Nat /\ no_write_cnt' \in Nat)
                     => Arb!TypeOK'
               /\ \A ops : Cardinality(Arb!Holders(ops))' =
                              Cardinality(Arb!Holders(ops)) + (IF access[th].op \in ops THEN 1 ELSE 0)
    <2>1. access' = [access EXCEPT ![th] = [state |-> "held", op |-> access[th].op, p4_ids |-> ids]]
      BY <1>1, <1>4, ZenonT(60) DEF Arb!Granted, AccessType
    <2>2. /\ AccessType' /\ Only(th)
          /\ access'[th] = [state |-> "held", op |-> access[th].op, p4_ids |-> ids]
          /\ (read_cnt' \in Nat /\ write_cnt' \in Nat /\ update_cnt' \in Nat /\ no_write_cnt' \in Nat)
                => Arb!TypeOK'
      BY <1>1, <1>2, <1>3, <1>4, <2>1, LockTypes, ZenonT(60)
    <2>3. access'[th].state = "held" /\ access'[th].op = access[th].op
      BY <2>2
    <2>4. \A ops : Cardinality(Arb!Holders(ops)) \in Nat
      BY HoldersFinite, ZenonT(60)
    <2>5. ASSUME NEW ops, access[th].op \in ops
          PROVE  Cardinality(Arb!Holders(ops))' = Cardinality(Arb!Holders(ops)) + 1
      BY <1>1, <1>3, <2>2, <2>3, <2>5, HolderAdded, ZenonT(60)
    <2>6. ASSUME NEW ops, access[th].op \notin ops
          PROVE  Cardinality(Arb!Holders(ops))' = Cardinality(Arb!Holders(ops))
      BY <1>1, <2>2, <2>3, <2>6, HoldersKept, ZenonT(60)
    <2>7. QED
      BY <2>2, <2>3, <2>4, <2>5, <2>6
  <1>5. /\ \A op \in Arb!WriteOp : op \notin Arb!NoWriteOp /\ op \notin {"update"}
        /\ \A op \in Arb!NoWriteOp : op \notin Arb!WriteOp /\ op \notin {"update"}
        /\ "update" \notin Arb!WriteOp /\ "update" \notin Arb!NoWriteOp
    BY ZenonT(60) DEF Arb!WriteOp, Arb!NoWriteOp
  <1>6. CASE Arb!GrantWrite(th)
    <2>1. /\ access[th].op \in Arb!WriteOp /\ write_cnt' = write_cnt + 1
          /\ UNCHANGED <<read_cnt, update_cnt, no_write_cnt, cv_waiters>>
          /\ p4_ids_busy' = p4_ids_busy \cup access[th].p4_ids /\ Arb!Granted(th, access[th].p4_ids)
      BY <1>6, ZenonT(60) DEF Arb!GrantWrite
    <2>2. p4_ids_busy' \subseteq ActProf
      BY <1>1, <2>1, ZenonT(60)
    <2>3. Arb!TypeOK'
      BY <1>1, <1>4, <2>1, <2>2, SMTT(60)
    <2>4. \A ops : Cardinality(Arb!Holders(ops))' =
                     Cardinality(Arb!Holders(ops)) + (IF access[th].op \in ops THEN 1 ELSE 0)
      BY <1>1, <1>4, <2>1, <2>2, ZenonT(60)
    <2>5. QED
      BY <1>1, <1>5, <2>1, <2>3, <2>4, SMTT(60) DEF LockInv
  <1>7. CASE Arb!GrantNoWrite(th)
    <2>1. PICK id \in access[th].p4_ids : p4_ids_busy' = p4_ids_busy \cup {id} /\ Arb!Granted(th, {id})
      BY <1>7, ZenonT(60) DEF Arb!GrantNoWrite, Arb!NotBusy
    <2>2. /\ access[th].op \in Arb!NoWriteOp /\ no_write_cnt' = no_write_cnt + 1
          /\ UNCHANGED <<read_cnt, update_cnt, write_cnt, cv_waiters>>
      BY <1>7, ZenonT(60) DEF Arb!GrantNoWrite
    <2>3. p4_ids_busy' \subseteq ActProf /\ {id} \in SUBSET ActProf
      BY <1>1, <2>1, ZenonT(60)
    <2>4. Arb!TypeOK'
      BY <1>1, <1>4, <2>1, <2>2, <2>3, SMTT(60)
    <2>5. \A ops : Cardinality(Arb!Holders(ops))' =
                     Cardinality(Arb!Holders(ops)) + (IF access[th].op \in ops THEN 1 ELSE 0)
      BY <1>1, <1>4, <2>1, <2>2, <2>3, ZenonT(60)
    <2>6. QED
      BY <1>1, <1>5, <2>2, <2>4, <2>5, SMTT(60) DEF LockInv
  <1>8. CASE Arb!GrantUpdate(th)
    <2>1. /\ access[th].op = "update" /\ update_cnt' = update_cnt + 1 /\ Arb!Granted(th, {})
          /\ UNCHANGED <<read_cnt, write_cnt, no_write_cnt, p4_ids_busy, cv_waiters>>
      BY <1>8, ZenonT(60) DEF Arb!GrantUpdate
    <2>2. Arb!TypeOK'
      BY <1>1, <1>2, <1>4, <2>1, SMTT(60)
    <2>3. \A ops : Cardinality(Arb!Holders(ops))' =
                     Cardinality(Arb!Holders(ops)) + (IF access[th].op \in ops THEN 1 ELSE 0)
      BY <1>1, <1>2, <1>4, <2>1, ZenonT(60)
    <2>4. QED
      BY <1>1, <1>5, <2>1, <2>2, <2>3, SMTT(60) DEF LockInv
  <1>9. CASE Arb!SkipNoWrite(th)
    <2>1. access' = [access EXCEPT ![th] = [state |-> "no_access", op |-> access[th].op, p4_ids |-> {}]]
      BY <1>1, <1>9, ZenonT(60) DEF Arb!SkipNoWrite, AccessType
    <2>2. /\ p4_ids_busy' \subseteq ActProf /\ UNCHANGED cv_waiters
          /\ read_cnt' \in Nat /\ write_cnt' \in Nat /\ update_cnt' \in Nat /\ no_write_cnt' \in Nat
          /\ UNCHANGED <<write_cnt, update_cnt, no_write_cnt>>
      BY <1>1, <1>9, ZenonT(60) DEF Arb!SkipNoWrite, Arb!arbitration
    <2>3. [state |-> "no_access", op |-> access[th].op, p4_ids |-> {}]
            \in [state : Arb!AccessState, op : Arb!Op, p4_ids : SUBSET ActProf]
      BY <1>2, ZenonT(60)
    <2>4. /\ AccessType' /\ Only(th) /\ Arb!TypeOK'
          /\ access'[th] = [state |-> "no_access", op |-> access[th].op, p4_ids |-> {}]
      BY <1>3, <2>1, <2>2, <2>3, LockTypes, ZenonT(60)
    <2>5. access'[th].state = "no_access"
      BY <2>4
    <2>6. \A ops : Cardinality(Arb!Holders(ops))' = Cardinality(Arb!Holders(ops))
      BY <1>1, <1>3, <2>4, <2>5, HoldersKept, ZenonT(60)
    <2>7. QED
      BY <2>2, <2>4, <2>6, ZenonT(60) DEF LockInv
  <1>10. QED
    BY <1>6, <1>7, <1>8, <1>9, ZenonT(60)

LEMMA LockReleases ==
    ASSUME LockInv, NEW th \in Thread,
           \/ Arb!ReleaseWrite(th) \/ Arb!ReleaseNoWrite(th) \/ Arb!ReleaseUpdate(th) \/ Arb!DropNoAccess(th)
    PROVE  LockInv'
  <1>1. /\ AccessType /\ Arb!P4Id = ActProf /\ p4_ids_busy \subseteq ActProf
        /\ read_cnt \in Nat /\ write_cnt \in Nat /\ update_cnt \in Nat /\ no_write_cnt \in Nat
    BY LockFacts, ZenonT(60) DEF LockInv, Arb!TypeOK, Arb!P4Id
  <1>2. [state |-> "idle", op |-> "read", p4_ids |-> {}]
          \in [state : Arb!AccessState, op : Arb!Op, p4_ids : SUBSET ActProf]
    BY ZenonT(60) DEF Arb!AccessState, Arb!Op
  <1>3. access' = [access EXCEPT ![th] = [state |-> "idle", op |-> "read", p4_ids |-> {}]]
    BY ZenonT(60) DEF Arb!ReleaseWrite, Arb!ReleaseNoWrite, Arb!ReleaseUpdate, Arb!DropNoAccess, Arb!Released, Arb!NoAccess
  <1>4. p4_ids_busy' \subseteq ActProf
    BY <1>1, ZenonT(60) DEF Arb!ReleaseWrite, Arb!ReleaseNoWrite, Arb!ReleaseUpdate, Arb!DropNoAccess, Arb!arbitration
  <1>5. \/ UNCHANGED cv_waiters /\ (access[th].state # "called" \/ th \notin cv_waiters)
        \/ cv_waiters' = {}
    BY DEF Arb!ReleaseWrite, Arb!ReleaseNoWrite, Arb!ReleaseUpdate, Arb!DropNoAccess, Arb!Released
  <1>6. /\ AccessType' /\ Only(th)
        /\ access'[th] = [state |-> "idle", op |-> "read", p4_ids |-> {}]
        /\ (read_cnt' \in Nat /\ write_cnt' \in Nat /\ update_cnt' \in Nat /\ no_write_cnt' \in Nat)
             => Arb!TypeOK'
    BY <1>1, <1>2, <1>3, <1>4, <1>5, LockTypes, ZenonT(60)
  <1>7. access'[th].state = "idle"
    BY <1>6
  <1>8. ASSUME NEW ops, access[th].state # "held" \/ access[th].op \notin ops
        PROVE  Cardinality(Arb!Holders(ops))' = Cardinality(Arb!Holders(ops))
    BY <1>1, <1>6, <1>7, <1>8, HoldersKept, ZenonT(60)
  <1>9. ASSUME NEW ops, access[th].state = "held", access[th].op \in ops
        PROVE  /\ Cardinality(Arb!Holders(ops))' = Cardinality(Arb!Holders(ops)) - 1
               /\ Cardinality(Arb!Holders(ops)) # 0
    BY <1>1, <1>6, <1>7, <1>9, HolderRemoved, ZenonT(60)
  <1>10. /\ \A op \in Arb!WriteOp : op \notin Arb!NoWriteOp /\ op \notin {"update"}
         /\ \A op \in Arb!NoWriteOp : op \notin Arb!WriteOp /\ op \notin {"update"}
         /\ "update" \notin Arb!WriteOp /\ "update" \notin Arb!NoWriteOp /\ "update" \in {"update"}
    BY ZenonT(60) DEF Arb!WriteOp, Arb!NoWriteOp
  <1>11. CASE Arb!ReleaseWrite(th)
    <2>1. /\ access[th].state = "held" /\ access[th].op \in Arb!WriteOp /\ write_cnt' = write_cnt - 1
          /\ UNCHANGED <<read_cnt, update_cnt, no_write_cnt>>
      BY <1>11, ZenonT(60) DEF Arb!ReleaseWrite, Arb!Holders
    <2>2. QED
      BY <1>1, <1>6, <1>8, <1>9, <1>10, <2>1, SMTT(60) DEF LockInv
  <1>12. CASE Arb!ReleaseNoWrite(th)
    <2>1. /\ access[th].state = "held" /\ access[th].op \in Arb!NoWriteOp
          /\ no_write_cnt' = no_write_cnt - 1 /\ UNCHANGED <<read_cnt, update_cnt, write_cnt>>
      BY <1>12, ZenonT(60) DEF Arb!ReleaseNoWrite, Arb!Holders
    <2>2. QED
      BY <1>1, <1>6, <1>8, <1>9, <1>10, <2>1, SMTT(60) DEF LockInv
  <1>13. CASE Arb!ReleaseUpdate(th)
    <2>1. /\ access[th].state = "held" /\ access[th].op = "update"
          /\ update_cnt' = update_cnt - 1 /\ UNCHANGED <<read_cnt, no_write_cnt, write_cnt>>
      BY <1>13, ZenonT(60) DEF Arb!ReleaseUpdate, Arb!Holders
    <2>2. QED
      BY <1>1, <1>6, <1>8, <1>9, <1>10, <2>1, SMTT(60) DEF LockInv
  <1>14. CASE Arb!DropNoAccess(th)
    <2>1. /\ access[th].state # "held" /\ UNCHANGED <<read_cnt, update_cnt, no_write_cnt, write_cnt>>
      BY <1>14, ZenonT(60) DEF Arb!DropNoAccess, Arb!arbitration
    <2>2. QED
      BY <1>1, <1>6, <1>8, <2>1, ZenonT(60) DEF LockInv
  <1>15. QED
    BY <1>11, <1>12, <1>13, <1>14

(* The counters stay right, whatever the threads do. *)
LEMMA LockStep ==
    ASSUME LockInv, act_prof_ids \subseteq ActProf, [Next]_vars
    PROVE  LockInv'
  <1>1. AccessType /\ Enforcer \in Thread /\ Writer \subseteq Thread /\ Updater \subseteq Thread
    BY LockFacts, Kinds, ZenonT(60)
  <1>2. ASSUME UNCHANGED lock
        PROVE  LockInv'
    BY <1>2, ZenonT(60) DEF lock, LockInv, Arb!TypeOK, Arb!Holders
  <1>3. ASSUME NEW th \in Thread, Arb!Wait(th)
        PROVE  LockInv'
    <2>1. UNCHANGED <<read_cnt, write_cnt, update_cnt, no_write_cnt, p4_ids_busy, access>>
      BY <1>3, ZenonT(60) DEF Arb!Wait, Arb!arbitration
    <2>2. cv_waiters' \subseteq {t \in Thread : access[t].state = "called"}
      BY <1>3, ZenonT(60) DEF Arb!Wait, Arb!Running, LockInv, Arb!TypeOK
    <2>3. QED
      BY <2>1, <2>2, ZenonT(60) DEF LockInv, Arb!TypeOK, Arb!Holders
  <1>4. "no_write_one_of_skip" \in Arb!Op /\ "write_request" \in Arb!Op /\ "update" \in Arb!Op
    BY DEF Arb!Op, Arb!WriteOp, Arb!NoWriteOp
  <1>5. CASE UNCHANGED vars
    BY <1>2, <1>5, ZenonT(60) DEF vars
  <1>6. CASE \E p \in Port, s \in {UP, DOWN} : port_status_event_cb(p, s)
    BY <1>2, <1>6, ZenonT(60) DEF port_status_event_cb
  <1>7. CASE EnforcerStep
    <2>1. CASE RunPortEvent \/ RunUpdateCache \/ RunP4Change
      BY <1>2, <2>1, ZenonT(60) DEF RunPortEvent, RunUpdateCache, RunP4Change
    <2>2. CASE CallNoWrite
      <3>1. Arb!Call(Enforcer, "no_write_one_of_skip", act_prof_ids)
        BY <2>2 DEF CallNoWrite, Arb!CallOneOf
      <3>2. QED
        BY <1>1, <1>4, <3>1, LockCalls, ZenonT(60)
    <2>3. CASE GetNoWrite
      BY <1>1, <1>3, <2>3, LockGrants, ZenonT(60) DEF GetNoWrite
    <2>4. CASE SkipPortEvent
      BY <1>1, <2>4, LockReleases, ZenonT(60) DEF SkipPortEvent
    <2>5. CASE \E a \in ActProf : SetPortStatus(a)
      BY <1>1, <2>5, LockReleases, ZenonT(60) DEF SetPortStatus
    <2>6. QED
      BY <1>7, <2>1, <2>2, <2>3, <2>4, <2>5, ZenonT(60) DEF EnforcerStep
  <1>8. ASSUME NEW w \in Writer, WriterStep(w) \/ \E a \in ActProf : CallWrite(w, a)
        PROVE  LockInv'
    <2>0. w \in Thread
      BY <1>1
    <2>1. ASSUME NEW a \in ActProf, CallWrite(w, a)
          PROVE  LockInv'
      <3>1. Arb!Call(w, "write_request", {a})
        BY <2>1 DEF CallWrite, Arb!CallWriteRequest, Arb!WriteRequestIds
      <3>2. QED
        BY <1>4, <2>0, <3>1, LockCalls, ZenonT(60)
    <2>2. CASE GetWrite(w)
      BY <1>3, <2>0, <2>2, LockGrants, ZenonT(60) DEF GetWrite
    <2>3. ASSUME NEW a \in ActProf, NEW m \in Member, NEW watch \in Port \cup {INVALID_WATCH},
                 AddMember(w, a, m, watch) \/ ModifyMember(w, a, m, watch)
          PROVE  Arb!ReleaseWrite(w)
      BY <2>3, ZenonT(60) DEF AddMember, ModifyMember, Writes
    <2>4. ASSUME NEW a \in ActProf, NEW m \in Member, DeleteMember(w, a, m)
          PROVE  Arb!ReleaseWrite(w)
      BY <2>4, ZenonT(60) DEF DeleteMember, Writes
    <2>5. Arb!ReleaseWrite(w) => LockInv'
      BY <2>0, LockReleases
    <2>6. QED
      BY <1>8, <2>1, <2>2, <2>3, <2>4, <2>5, ZenonT(60) DEF WriterStep
  <1>9. ASSUME NEW u \in Updater, UpdaterStep(u) \/ CallUpdate(u)
        PROVE  LockInv'
    <2>0. u \in Thread
      BY <1>1
    <2>1. CASE CallUpdate(u)
      <3>1. Arb!Call(u, "update", {})
        BY <2>1 DEF CallUpdate, Arb!CallGlobal
      <3>2. QED
        BY <1>4, <2>0, <3>1, LockCalls, ZenonT(60)
    <2>2. CASE GetUpdate(u)
      BY <1>3, <2>0, <2>2, LockGrants, ZenonT(60) DEF GetUpdate
    <2>3. CASE EndUpdate(u)
      BY <2>0, <2>3, LockReleases, ZenonT(60) DEF EndUpdate
    <2>4. CASE UpdateDeviceStart(u) \/ PostP4Change(u) \/ ClearActionProfs(u)
      BY <1>2, <2>4, ZenonT(60) DEF UpdateDeviceStart, PostP4Change, ClearActionProfs
    <2>5. QED
      BY <1>9, <2>1, <2>2, <2>3, <2>4, ZenonT(60) DEF UpdaterStep
  <1>10. QED
    BY <1>5, <1>6, <1>7, <1>8, <1>9, ZenonT(60) DEF Next

-----------------------------------------------------------------------------
(* The maps.  The event being handled carries the status of its port,      *)
(* unless another one waits.  A profile that has not missed an event knows *)
(* the status that the port has on the target, unless an event waits or    *)
(* the one being handled has still to come to the profile.                 *)
ToCome == act_prof_ids \cup
          (IF access[Enforcer].state = "held" THEN access[Enforcer].p4_ids ELSE {})

TaskCurrent ==
    task # NoTask /\ EventsOf(task_queue, task.port) = {} => task.status = oper[task.port]

MapCurrent(a, p) ==
    \/ ports_status[a][p] \in {Unset, oper[p]}
    \/ task # NoTask /\ task.port = p /\ a \in ToCome

StatusInv ==
    /\ missed \in [ActProf -> SUBSET Port]
    /\ TaskCurrent
    /\ \A a \in ActProf, p \in Port :
         p \notin missed[a] /\ EventsOf(task_queue, p) = {} => MapCurrent(a, p)

(* Queries of the target bring nothing but its status into a map. *)
LEMMA QueriedCurrent ==
    ASSUME DataType, NEW a \in ActProf, NEW ps, NEW b \in ActProf, NEW p \in Port
    PROVE  Queried(a, ps)[b][p] \in {ports_status[b][p], oper[p]}
  BY SMTT(60) DEF Queried, DataType, TablesType

(* Steps of the other threads: the event is left alone, the queue gets no  *)
(* port event, and the maps get what a query returns.                      *)
LEMMA StatusKept ==
    ASSUME StatusInv, UNCHANGED <<missed, task, oper, act_prof_ids>>,
           access'[Enforcer] = access[Enforcer],
           \A p : EventsOf(task_queue', p) = EventsOf(task_queue, p),
           \A a \in ActProf, p \in Port : ports_status'[a][p] \in {ports_status[a][p], oper[p]}
    PROVE  StatusInv'
  <1>1. ToCome' = ToCome
    BY ZenonT(60) DEF ToCome
  <1>2. TaskCurrent'
    BY ZenonT(60) DEF StatusInv, TaskCurrent
  <1>3. \A a \in ActProf, p \in Port : MapCurrent(a, p) => MapCurrent(a, p)'
    BY <1>1, SMTT(60) DEF MapCurrent
  <1>4. QED
    BY <1>2, <1>3, ZenonT(60) DEF StatusInv

(* The tasks that Writes and pipeline changes post are no port events. *)
LEMMA PostedEvents ==
    ASSUME \A i \in DOMAIN task_queue : i \in DOMAIN task_queue' /\ task_queue'[i] = task_queue[i],
           \A i \in DOMAIN task_queue' :
               i \in DOMAIN task_queue \/ task_queue'[i].kind # "port_event"
    PROVE  \A p : EventsOf(task_queue', p) = EventsOf(task_queue, p)
  BY DEF EventsOf

(* A new event is waited for. *)
LEMMA StatusEvent ==
    ASSUME DataType, StatusInv, NEW q \in Port, NEW s \in {UP, DOWN}, port_status_event_cb(q, s)
    PROVE  StatusInv'
  <1>1. /\ UNCHANGED <<missed, task, ports_status, act_prof_ids, access>>
        /\ \A p \in Port : p # q => oper'[p] = oper[p]
    BY ZenonT(60) DEF port_status_event_cb, lock, tables, DataType, TargetType
  <1>2. task_queue \in Seq(Task) /\ task_queue' = Append(task_queue, PortEvent(q, s))
    BY DEF port_status_event_cb, DataType, TasksType
  <1>3. PortEvent(q, s).kind = "port_event" /\ PortEvent(q, s).port = q
    BY DEF PortEvent
  <1>4. /\ Len(task_queue) + 1 \in DOMAIN task_queue'
        /\ task_queue'[Len(task_queue) + 1] = PortEvent(q, s)
        /\ \A i \in DOMAIN task_queue : i \in DOMAIN task_queue' /\ task_queue'[i] = task_queue[i]
    BY <1>2, SMTT(60)
  <1>5. /\ EventsOf(task_queue', q) # {}
        /\ \A p : EventsOf(task_queue', p) = {} => EventsOf(task_queue, p) = {}
    BY <1>3, <1>4, ZenonT(60) DEF EventsOf
  <1>6. ToCome' = ToCome
    BY <1>1, ZenonT(60) DEF ToCome
  <1>7. task # NoTask => task.port \in Port
    BY SMTT(60) DEF DataType, TasksType, Event
  <1>8. TaskCurrent'
    BY <1>1, <1>5, <1>7, ZenonT(60) DEF StatusInv, TaskCurrent
  <1>9. ASSUME NEW a \in ActProf, NEW p \in Port, p \notin missed'[a], EventsOf(task_queue', p) = {}
        PROVE  MapCurrent(a, p)'
    <2>1. p # q /\ MapCurrent(a, p)
      BY <1>1, <1>5, <1>9, ZenonT(60) DEF StatusInv
    <2>2. QED
      BY <1>1, <1>6, <2>1, ZenonT(60) DEF MapCurrent
  <1>10. QED
    BY <1>1, <1>8, <1>9, ZenonT(60) DEF StatusInv

(* Taking a task from the queue: an event that is the last of its port     *)
(* carries the port's status, and has to come to all profiles.             *)
LEMMA StatusRun ==
    ASSUME DataType, CacheInv, StatusInv, RunPortEvent \/ RunUpdateCache
    PROVE  StatusInv'
  <1>1. /\ task_queue \in Seq(Task) /\ task_queue # <<>> /\ task_queue' = Tail(task_queue)
        /\ task = NoTask /\ UNCHANGED <<missed, oper, ports_status>>
    BY DEF RunPortEvent, RunUpdateCache, DataType, TasksType, target, tables
  <1>2. Head(task_queue) = task_queue[1] /\ 1 \in DOMAIN task_queue /\ Head(task_queue) \in Task
    BY <1>1, HeadTail, SMTT(60)
  <1>3. \A p : /\ \A i \in EventsOf(task_queue', p) : i + 1 \in EventsOf(task_queue, p)
               /\ \A i \in EventsOf(task_queue, p) : i = 1 \/ i - 1 \in EventsOf(task_queue', p)
               /\ EventsOf(task_queue, p) \subseteq Nat
    BY <1>1, ShiftEvents, ZenonT(60)
  <1>4. \A a \in ActProf, p \in Port : p \notin missed[a] /\ EventsOf(task_queue, p) = {}
                                         => ports_status[a][p] \in {Unset, oper[p]}
    BY <1>1, ZenonT(60) DEF StatusInv, MapCurrent
  <1>5. CASE RunPortEvent
    <2> DEFINE q == task_queue[1].port
    <2>1. /\ task' = task_queue[1] /\ act_prof_ids' = ActProf /\ task_queue[1].kind = "port_event"
          /\ q \in Port
      BY <1>2, <1>5, TaskKinds, ZenonT(60) DEF RunPortEvent
    <2>2. 1 \in EventsOf(task_queue, q)
      BY <1>2, <2>1, ZenonT(60) DEF EventsOf
    <2>3. task' # NoTask
      <3>1. NoTask.kind = "none"
        BY DEF NoTask
      <3>2. QED
        BY <2>1, <3>1
    <2>4. TaskCurrent'
      <3>1. ASSUME EventsOf(task_queue', q) = {}
            PROVE  task_queue[1].status = oper[q]
        <4>1. \A i \in EventsOf(task_queue, q) : i = 1
          BY <1>3, <3>1, ZenonT(60)
        <4>2. \A i \in EventsOf(task_queue, q) : i <= 1
          BY <4>1
        <4>3. QED
          BY <2>1, <2>2, <4>2, ZenonT(60) DEF CacheInv
      <3>2. QED
        BY <1>1, <2>1, <3>1, ZenonT(60) DEF TaskCurrent
    <2>5. ASSUME NEW a \in ActProf, NEW p \in Port, p \notin missed'[a], EventsOf(task_queue', p) = {}
          PROVE  MapCurrent(a, p)'
      <3>1. CASE p = q
        <4>1. a \in ToCome'
          BY <2>1, ZenonT(60) DEF ToCome
        <4>2. QED
          BY <2>1, <2>3, <3>1, <4>1, ZenonT(60) DEF MapCurrent
      <3>2. CASE p # q
        <4>1. 1 \notin EventsOf(task_queue, p)
          BY <3>2, ZenonT(60) DEF EventsOf
        <4>2. EventsOf(task_queue, p) = {}
          BY <1>3, <2>5, <4>1, ZenonT(60)
        <4>3. QED
          BY <1>1, <1>4, <2>5, <4>2, ZenonT(60) DEF MapCurrent
      <3>3. QED
        BY <3>1, <3>2
    <2>6. QED
      BY <1>1, <2>4, <2>5, ZenonT(60) DEF StatusInv
  <1>6. CASE RunUpdateCache
    <2>1. task' = NoTask /\ task_queue[1].kind # "port_event"
      <3>1. task_queue[1].kind = "update_cache" /\ UNCHANGED task
        BY <1>2, <1>6, ZenonT(60) DEF RunUpdateCache
      <3>2. QED
        BY <1>1, <3>1
    <2>2. \A p : EventsOf(task_queue', p) = {} => EventsOf(task_queue, p) = {}
      <3>1. \A p : 1 \notin EventsOf(task_queue, p)
        BY <2>1, ZenonT(60) DEF EventsOf
      <3>2. QED
        BY <1>3, <3>1, ZenonT(60)
    <2>3. QED
      BY <1>1, <1>4, <2>1, <2>2, ZenonT(60) DEF StatusInv, TaskCurrent, MapCurrent
  <1>7. QED
    BY <1>5, <1>6

(* A pipeline change fills the maps from the cache, which is current. *)
LEMMA StatusChange ==
    ASSUME DataType, CacheInv, CacheInv', RunP4Change
    PROVE  StatusInv'
  <1>1. /\ task' = NoTask /\ missed' = [a \in ActProf |-> {}]
        /\ ports_status' = [a \in ActProf |-> ports_status_cache']
    BY ZenonT(60) DEF RunP4Change
  <1>2. \A a \in ActProf, p \in Port : EventsOf(task_queue', p) = {}
                                         => ports_status'[a][p] \in {Unset, oper'[p]}
    BY <1>1, ZenonT(60) DEF CacheInv
  <1>3. QED
    BY <1>1, <1>2, ZenonT(60) DEF StatusInv, TaskCurrent, MapCurrent

(* Taking the lock of a profile leaves it to come. *)
LEMMA StatusLock ==
    ASSUME DataType, AccessType, StatusInv, CallNoWrite \/ GetNoWrite
    PROVE  StatusInv'
  <1>1. UNCHANGED <<missed, task, oper, ports_status, task_queue>>
    BY ZenonT(60) DEF CallNoWrite, GetNoWrite, target, tables
  <1>2. ToCome \subseteq ToCome'
    <2>0. Enforcer \in Thread
      BY Kinds, ZenonT(60)
    <2>1. CASE CallNoWrite
      <3>1. Arb!Call(Enforcer, "no_write_one_of_skip", act_prof_ids) /\ UNCHANGED act_prof_ids
        BY <2>1, ZenonT(60) DEF CallNoWrite, Arb!CallOneOf
      <3>2. access[Enforcer].state = "idle"
        BY <2>0, <3>1, AccessEffect, ZenonT(60)
      <3>3. QED
        BY <3>1, <3>2 DEF ToCome
    <2>2. CASE Arb!Wait(Enforcer) /\ UNCHANGED act_prof_ids
      BY <2>0, <2>2, AccessEffect, ZenonT(60) DEF ToCome
    <2>3. CASE Arb!GrantNoWrite(Enforcer) /\ act_prof_ids' = act_prof_ids \ access'[Enforcer].p4_ids
      <3>1. access[Enforcer].state = "called" /\ access'[Enforcer].state = "held"
        BY <2>0, <2>3, AccessEffect, ZenonT(60)
      <3>2. QED
        BY <2>3, <3>1 DEF ToCome
    <2>4. CASE Arb!SkipNoWrite(Enforcer) /\ UNCHANGED act_prof_ids
      <3>1. access[Enforcer].state = "called"
        BY <2>0, <2>4, AccessEffect, ZenonT(60)
      <3>2. QED
        BY <2>4, <3>1 DEF ToCome
    <2>5. QED
      BY <2>1, <2>2, <2>3, <2>4, ZenonT(60) DEF GetNoWrite
  <1>3. \A a \in ActProf, p \in Port : MapCurrent(a, p) => MapCurrent(a, p)'
    BY <1>1, <1>2, ZenonT(60) DEF MapCurrent
  <1>4. TaskCurrent'
    BY <1>1, ZenonT(60) DEF StatusInv, TaskCurrent
  <1>5. QED
    BY <1>1, <1>3, <1>4, ZenonT(60) DEF StatusInv

(* What is marked as missed when the loop ends before it comes to as. *)
LEMMA EndsBeforeAt ==
    ASSUME StatusInv, task.port \in Port, NEW as \in SUBSET ActProf
    PROVE  /\ EndsBefore(as) \in [ActProf -> SUBSET Port]
           /\ \A b \in ActProf, p \in Port : p \notin EndsBefore(as)[b] =>
                \/ b \in as /\ p = task.port /\ ports_status[b][p] \in {Unset, task.status}
                \/ ~(b \in as /\ p = task.port) /\ p \notin missed[b]
  <1>1. \A b \in ActProf : EndsBefore(as)[b] =
          IF b \notin as THEN missed[b]
          ELSE IF ports_status[b][task.port] \in {Unset, task.status} THEN missed[b] \ {task.port}
          ELSE missed[b] \cup {task.port}
    BY ZenonT(60) DEF EndsBefore
  <1>2. \A b \in ActProf : missed[b] \in SUBSET Port
    BY ZenonT(60) DEF StatusInv
  <1>3. \A b \in ActProf : (IF b \notin as THEN missed[b]
          ELSE IF ports_status[b][task.port] \in {Unset, task.status} THEN missed[b] \ {task.port}
          ELSE missed[b] \cup {task.port}) \in SUBSET Port
    BY <1>2, ZenonT(60)
  <1>4. EndsBefore(as) \in [ActProf -> SUBSET Port]
    BY <1>3, ZenonT(60) DEF EndsBefore
  <1>5. ASSUME NEW b \in ActProf, NEW p \in Port, p \notin EndsBefore(as)[b]
        PROVE  \/ b \in as /\ p = task.port /\ ports_status[b][p] \in {Unset, task.status}
               \/ ~(b \in as /\ p = task.port) /\ p \notin missed[b]
    <2>1. CASE b \notin as
      BY <1>1, <1>5, <2>1, ZenonT(60)
    <2>2. CASE b \in as /\ ports_status[b][task.port] \in {Unset, task.status}
      BY <1>1, <1>5, <2>2, ZenonT(60)
    <2>3. CASE b \in as /\ ports_status[b][task.port] \notin {Unset, task.status}
      BY <1>1, <1>5, <2>3, ZenonT(60)
    <2>4. QED
      BY <2>1, <2>2, <2>3, ZenonT(60)
  <1>6. QED
    BY <1>4, <1>5, ZenonT(60)

(* The update in progress ends the loop: the profiles to come are marked,  *)
(* or know the status.                                                     *)
LEMMA StatusSkip ==
    ASSUME DataType, RolesInv, AccessType, StatusInv, SkipPortEvent
    PROVE  StatusInv'
  <1>0. access[Enforcer].state = "no_access"
    BY Kinds, AccessEffect, ZenonT(60) DEF SkipPortEvent
  <1>1. /\ task' = NoTask /\ missed' = EndsBefore(act_prof_ids)
        /\ UNCHANGED <<oper, ports_status, task_queue>> /\ act_prof_ids \in SUBSET ActProf
    BY ZenonT(60) DEF SkipPortEvent, target, tables, DataType, TasksType
  <1>2. task # NoTask
    BY <1>0 DEF RolesInv
  <1>3. task.port \in Port
    BY <1>2, SMTT(60) DEF DataType, TasksType, Event
  <1>4. ToCome = act_prof_ids
    BY <1>0 DEF ToCome
  <1>5. ASSUME NEW a \in ActProf, NEW p \in Port, p \notin missed'[a], EventsOf(task_queue', p) = {}
        PROVE  MapCurrent(a, p)'
    <2>1. CASE a \in act_prof_ids /\ p = task.port /\ ports_status[a][p] \in {Unset, task.status}
      <3>1. task.status = oper[p]
        BY <1>1, <1>2, <1>5, <2>1, ZenonT(60) DEF StatusInv, TaskCurrent
      <3>2. QED
        BY <1>1, <2>1, <3>1, ZenonT(60) DEF MapCurrent
    <2>2. CASE ~(a \in act_prof_ids /\ p = task.port) /\ p \notin missed[a]
      <3>1. MapCurrent(a, p)
        BY <1>1, <1>5, <2>2, ZenonT(60) DEF StatusInv
      <3>2. QED
        BY <1>1, <1>4, <2>2, <3>1, ZenonT(60) DEF MapCurrent
    <2>3. QED
      BY <1>1, <1>3, <1>5, <2>1, <2>2, EndsBeforeAt, ZenonT(60)
  <1>6. missed' \in [ActProf -> SUBSET Port] /\ TaskCurrent'
    BY <1>1, <1>3, EndsBeforeAt, ZenonT(60) DEF TaskCurrent
  <1>7. QED
    BY <1>5, <1>6, ZenonT(60) DEF StatusInv

(* The event comes to the profile a: its map has the status, and the       *)
(* others are still to come, or are marked when the loop ends.             *)
LEMMA StatusSet ==
    ASSUME DataType, RolesInv, AccessType, StatusInv, NEW a \in ActProf, SetPortStatus(a)
    PROVE  StatusInv'
  <1> DEFINE q == task.port
             left == IF Known(ports_status[a][q]) = task.status
                     THEN EndsBefore(act_prof_ids) ELSE missed
  <1>1. /\ access[Enforcer].state = "held" /\ access[Enforcer].p4_ids = {a}
        /\ task # NoTask
    BY ZenonT(60) DEF SetPortStatus, RolesInv
  <1>2. q \in Port /\ task.status \in Status
    BY <1>1, SMTT(60) DEF DataType, TasksType, Event
  <1>3. ToCome = act_prof_ids \cup {a} /\ act_prof_ids \in SUBSET ActProf
    BY <1>1, ZenonT(60) DEF ToCome, DataType, TasksType
  <1>4. /\ missed' = [left EXCEPT ![a] = @ \ {q}]
        /\ act_prof_ids' = IF Known(ports_status[a][q]) = task.status THEN {} ELSE act_prof_ids
    BY ZenonT(60) DEF SetPortStatus
  <1>5. /\ ports_status' = [ports_status EXCEPT ![a][q] = task.status]
        /\ ports_status \in [ActProf -> [Port -> Status \cup {Unset}]]
        /\ UNCHANGED <<oper, task_queue>>
        /\ task' = IF act_prof_ids' = {} THEN NoTask ELSE task
    BY ZenonT(60) DEF SetPortStatus, DataType, TablesType
  <1>6. left \in [ActProf -> SUBSET Port]
    BY <1>2, <1>3, EndsBeforeAt, ZenonT(60) DEF StatusInv
  <1>7. missed' \in [ActProf -> SUBSET Port]
    BY <1>4, <1>6, SMTT(60)
  <1>8. \A b \in ActProf, p \in Port : p \notin missed'[b] => (b = a /\ p = q) \/ p \notin left[b]
    BY <1>4, <1>6, SMTT(60)
  <1>9. /\ ports_status'[a][q] = task.status
        /\ \A b \in ActProf, p \in Port : ~(b = a /\ p = q) => ports_status'[b][p] = ports_status[b][p]
    BY <1>2, <1>5, SMTT(60)
  <1>10. TaskCurrent'
    BY <1>5, ZenonT(60) DEF StatusInv, TaskCurrent
  <1>11. ASSUME NEW b \in ActProf, NEW p \in Port, p \notin missed'[b], EventsOf(task_queue', p) = {}
         PROVE  MapCurrent(b, p)'
    <2>0. p = q => task.status = oper[p]
      BY <1>1, <1>5, <1>11, ZenonT(60) DEF StatusInv, TaskCurrent
    <2>1. CASE b = a /\ p = q
      BY <1>5, <1>9, <2>0, <2>1, ZenonT(60) DEF MapCurrent
    <2>2. CASE ~(b = a /\ p = q) /\ p \notin left[b]
      <3>1. CASE Known(ports_status[a][q]) = task.status
        <4>1. \/ p = q /\ ports_status[b][p] \in {Unset, task.status}
              \/ ~(b \in act_prof_ids /\ p = q) /\ p \notin missed[b]
          BY <1>2, <1>3, <2>2, <3>1, EndsBeforeAt, ZenonT(60)
        <4>2. CASE p = q /\ ports_status[b][p] \in {Unset, task.status}
          BY <1>5, <1>9, <2>0, <2>2, <4>2, ZenonT(60) DEF MapCurrent
        <4>3. CASE ~(b \in act_prof_ids /\ p = q) /\ p \notin missed[b]
          <5>1. MapCurrent(b, p)
            BY <1>5, <1>11, <4>3, ZenonT(60) DEF StatusInv
          <5>2. QED
            BY <1>3, <1>5, <1>9, <2>2, <4>3, <5>1, ZenonT(60) DEF MapCurrent
        <4>4. QED
          BY <4>1, <4>2, <4>3, ZenonT(60)
      <3>2. CASE Known(ports_status[a][q]) # task.status
        <4>1. MapCurrent(b, p) /\ UNCHANGED act_prof_ids
          BY <1>4, <1>5, <1>11, <2>2, <3>2, ZenonT(60) DEF StatusInv
        <4>2. b \in ToCome /\ p = q => b \in act_prof_ids
          BY <1>3, <2>2, ZenonT(60)
        <4>3. b \in act_prof_ids => task' = task /\ b \in ToCome'
          BY <1>5, <4>1, ZenonT(60) DEF ToCome
        <4>4. QED
          BY <1>1, <1>5, <1>9, <2>2, <4>1, <4>2, <4>3, ZenonT(60) DEF MapCurrent
      <3>3. QED
        BY <3>1, <3>2, ZenonT(60)
    <2>3. QED
      BY <1>8, <1>11, <2>1, <2>2, ZenonT(60)
  <1>12. QED
    BY <1>7, <1>10, <1>11, ZenonT(60) DEF StatusInv

LEMMA StatusStep ==
    ASSUME DataType, RolesInv, AccessType, CacheInv, CacheInv', StatusInv, [Next]_vars
    PROVE  StatusInv'
  <1>0. Enforcer \in Thread /\ Enforcer \notin Writer /\ Enforcer \notin Updater
    BY Kinds, ZenonT(60)
  <1>1. CASE UNCHANGED vars
    BY <1>1, StatusKept, ZenonT(60) DEF vars, lock, target, tables
  <1>2. CASE \E p \in Port, s \in {UP, DOWN} : port_status_event_cb(p, s)
    BY <1>2, StatusEvent, ZenonT(60)
  <1>3. CASE EnforcerStep
    BY <1>3, StatusRun, StatusChange, StatusLock, StatusSkip, StatusSet, ZenonT(60) DEF EnforcerStep
  <1>4. ASSUME NEW w \in Writer, WriterStep(w) \/ \E a \in ActProf : CallWrite(w, a)
        PROVE  StatusInv'
    <2>1. access'[Enforcer] = access[Enforcer]
      BY <1>0, <1>4, WriterMoves, ZenonT(60) DEF Only
    <2>2. CASE GetWrite(w) \/ \E a \in ActProf : CallWrite(w, a)
      BY <2>1, <2>2, StatusKept, ZenonT(60) DEF GetWrite, CallWrite, target, tables
    <2>3. ASSUME NEW a \in ActProf, NEW m \in Member, NEW watch \in Watch,
                 AddMember(w, a, m, watch) \/ ModifyMember(w, a, m, watch)
          PROVE  StatusInv'
      <3>1. Posted
        BY <2>3, AddPosts, ModifyPosts, ZenonT(60)
      <3>2. \A p : EventsOf(task_queue', p) = EventsOf(task_queue, p)
        <4>1. \A i \in DOMAIN task_queue' :
                 i \in DOMAIN task_queue \/ task_queue'[i].kind # "port_event"
          BY <3>1, ZenonT(60) DEF Posted
        <4>2. QED
          BY <3>1, <4>1, PostedEvents, ZenonT(60) DEF Posted
      <3>3. UNCHANGED <<missed, task, oper, act_prof_ids>>
        BY <2>3, ZenonT(60) DEF AddMember, ModifyMember, Writes
      <3>4. \/ UNCHANGED ports_status
            \/ \E ps : ports_status' = Queried(a, ps)
        BY <2>3, ZenonT(60) DEF AddMember, ModifyMember, tables
      <3>5. \A b \in ActProf, p \in Port : ports_status'[b][p] \in {ports_status[b][p], oper[p]}
        BY <3>4, QueriedCurrent, ZenonT(60)
      <3>6. QED
        BY <2>1, <3>2, <3>3, <3>5, StatusKept, ZenonT(60)
    <2>4. ASSUME NEW a \in ActProf, NEW m \in Member, DeleteMember(w, a, m)
          PROVE  StatusInv'
      BY <2>1, <2>4, StatusKept, ZenonT(60) DEF DeleteMember, Writes
    <2>5. QED
      BY <1>4, <2>2, <2>3, <2>4, ZenonT(60) DEF WriterStep, Watch
  <1>5. ASSUME NEW u \in Updater, UpdaterStep(u) \/ CallUpdate(u)
        PROVE  StatusInv'
    <2>1. access'[Enforcer] = access[Enforcer]
      BY <1>0, <1>5, UpdaterMoves, ZenonT(60) DEF Only
    <2>2. CASE PostP4Change(u)
      <3>1. task_queue \in Seq(Task) /\ task_queue' = Append(task_queue, P4Change)
        BY <2>2 DEF PostP4Change, DataType, TasksType
      <3>2. /\ \A i \in DOMAIN task_queue : i \in DOMAIN task_queue' /\ task_queue'[i] = task_queue[i]
            /\ \A i \in DOMAIN task_queue' : i \in DOMAIN task_queue \/ task_queue'[i] = P4Change
        BY <3>1, SMTT(60)
      <3>3. P4Change.kind # "port_event"
        BY DEF P4Change
      <3>4. \A p : EventsOf(task_queue', p) = EventsOf(task_queue, p)
        BY <3>2, <3>3, PostedEvents, ZenonT(60)
      <3>5. QED
        BY <2>1, <2>2, <3>4, StatusKept, ZenonT(60) DEF PostP4Change, target, tables
    <2>3. CASE ~PostP4Change(u)
      BY <1>5, <2>1, <2>3, StatusKept, ZenonT(60) DEF UpdaterStep, CallUpdate, GetUpdate,
             UpdateDeviceStart, ClearActionProfs, EndUpdate, target, tables
    <2>4. QED
      BY <2>2, <2>3
  <1>6. QED
    BY <1>1, <1>2, <1>3, <1>4, <1>5, ZenonT(60) DEF Next

-----------------------------------------------------------------------------
(* The inductive invariants: of the cache and the maps, and of the members. *)
WatchInv == LockInv /\ DataType /\ ThreadsInv /\ CacheInv /\ StatusInv
MembersInv == WatchInv /\ KnownInv /\ Phases

LEMMA WatchInit == Init => WatchInv
  <1> SUFFICES ASSUME Init
               PROVE  WatchInv
    OBVIOUS
  <1>0. \A th \in Thread : access[th].state = "idle"
    BY SMTT(60) DEF Init, Arb!Init, Arb!NoAccess
  <1>1. LockInv
    <2>1. Arb!TypeOK
      BY ZenonT(60) DEF Init, Arb!Init, Arb!NoAccess, Arb!TypeOK, Arb!AccessState, Arb!Op
    <2>2. \A ops : Arb!Holders(ops) = {}
      BY <1>0 DEF Arb!Holders
    <2>3. Cardinality({}) = 0
      BY FS_EmptySet, ZenonT(60)
    <2>4. write_cnt = 0 /\ no_write_cnt = 0 /\ update_cnt = 0
      BY ZenonT(60) DEF Init, Arb!Init
    <2>5. QED
      BY <2>1, <2>2, <2>3, <2>4, ZenonT(60) DEF LockInv
  <1>2. DataType
    <2>1. TargetType
      BY ZenonT(60) DEF Init, TargetType, Status
    <2>2. TablesType
      BY ZenonT(60) DEF Init, TablesType
    <2>3. TasksType
      <3>1. <<>> \in Seq(Task)
        OBVIOUS
      <3>2. updater \in Phase /\ task \in Event \cup {NoTask} /\ act_prof_ids \subseteq ActProf
        BY ZenonT(60) DEF Init, Phase
      <3>3. internal_error \in BOOLEAN /\ raced \in BOOLEAN /\ task_queue \in Seq(Task)
        BY <3>1, ZenonT(60) DEF Init
      <3>4. QED
        BY <3>2, <3>3, ZenonT(60) DEF TasksType
    <2>4. QED
      BY <2>1, <2>2, <2>3, ZenonT(60) DEF DataType
  <1>3. RolesInv /\ UpdaterInv /\ RacedInv
    BY <1>0, Kinds, ZenonT(60) DEF Init, RolesInv, UpdaterInv, RacedInv, Updating
  <1>4. ChangeInv /\ CacheInv
    BY SMTT(60) DEF Init, ChangeInv, CacheInv, EventsOf
  <1>5. StatusInv
    BY ZenonT(60) DEF Init, StatusInv, TaskCurrent, MapCurrent
  <1>6. QED
    BY <1>1, <1>2, <1>3, <1>4, <1>5, ZenonT(60) DEF WatchInv, ThreadsInv

LEMMA WatchStep == WatchInv /\ [Next]_vars => WatchInv'
  <1> SUFFICES ASSUME WatchInv, [Next]_vars
               PROVE  WatchInv'
    OBVIOUS
  <1>1. LockInv /\ DataType /\ ThreadsInv /\ CacheInv /\ StatusInv /\ RolesInv
    BY DEF WatchInv, ThreadsInv
  <1>2. AccessType /\ WriteCntInv
    BY <1>1, LockFacts, ZenonT(60)
  <1>3. LockInv'
    BY <1>1, LockStep, ZenonT(60) DEF DataType, TasksType
  <1>4. DataType' /\ ThreadsInv' /\ CacheInv'
    BY <1>1, <1>2, DataStep, ThreadsStep, CacheStep, ZenonT(60)
  <1>5. StatusInv'
    BY <1>1, <1>2, <1>4, StatusStep, ZenonT(60)
  <1>6. QED
    BY <1>3, <1>4, <1>5, ZenonT(60) DEF WatchInv

LEMMA MembersStep == MembersInv /\ [Next]_vars => MembersInv'
  <1> SUFFICES ASSUME MembersInv, [Next]_vars
               PROVE  MembersInv'
    OBVIOUS
  <1>1. WatchInv /\ KnownInv /\ Phases
    BY DEF MembersInv
  <1>2. DataType /\ ThreadsInv /\ RolesInv /\ AccessType
    BY <1>1, LockFacts, ZenonT(60) DEF WatchInv, ThreadsInv
  <1>3. QED
    BY <1>1, <1>2, WatchStep, KnownStep, PhaseStep, ZenonT(60) DEF MembersInv

(* The cache that seeds the maps after a pipeline change is right about    *)
(* every port it knows once the tasks have run, in whatever order port     *)
(* events, queries of the target and pipeline changes came.                *)
THEOREM CacheCurrent == Spec => []CacheCurrentAtRest
  <1>1. WatchInv => CacheCurrentAtRest
    BY SMTT(60) DEF WatchInv, CacheInv, EventsOf, CacheCurrentAtRest, AtRest
  <1>2. QED
    BY <1>1, WatchInit, WatchStep, PTL DEF Spec

(* On a target that knows its ports, and for every order of Writes, port   *)
(* events and pipeline changes in which no Write slips into a pipeline     *)
(* change: once the tasks have run, a member is active exactly when its    *)
(* watch port is up on the target, unless set_port_status ended before it  *)
(* came to its action profile; before that, it is active exactly when the  *)
(* map of the profile says so; the enforcer and the ActionProfMgr agree on *)
(* who watches what, and no method of the enforcer returns INTERNAL.       *)
THEOREM MembersFollow ==
    ASSUME NewPort = {}
    PROVE  Spec => []MembersFollowPorts
  <1>1. Init => MembersInv
    <2> SUFFICES ASSUME Init
                 PROVE  KnownInv /\ Phases
      BY WatchInit, ZenonT(60) DEF MembersInv
    <2>1. \A p \in Port : p # NotMember
      BY WatchAssumption, ZenonT(60) DEF WatchAssumption
    <2>2. KnownInv
      BY ZenonT(60) DEF Init, KnownInv, UP, Unset
    <2>3. Agree /\ InHw /\ Active
      BY <2>1, ZenonT(60) DEF Init, Agree, InHw, Active
    <2>4. QED
      BY <2>2, <2>3, ZenonT(60) DEF Init, Phases
  <1>2. MembersInv => MembersFollowPorts
    <2> SUFFICES ASSUME MembersInv
                 PROVE  MembersFollowPorts
      OBVIOUS
    <2>1. Arb!TypeOK /\ DataType /\ Phases /\ StatusInv
      BY ZenonT(60) DEF MembersInv, WatchInv, LockInv
    <2>2. TypeOK
      <3>1. task = NoTask \/ task.kind = "port_event"
        BY <2>1, ZenonT(60) DEF DataType, TasksType, Event
      <3>2. QED
        BY <2>1, <3>1, ZenonT(60) DEF TypeOK, StatusInv, DataType, TargetType, TablesType, TasksType
    <2>3. ~Updating => updater \in {"idle", "called", "granted"}
      BY DEF Updating
    <2>4. ActiveIffStatusUp
      <3>1. ASSUME ~Updating, ~raced, NEW a \in ActProf, NEW p \in Port, NEW m \in members_by_port[a][p]
            PROVE  m \in hw_members[a] /\ (m \in hw_active[a] <=> ports_status[a][p] = UP)
        <4>1. Agree /\ InHw /\ Active
          BY <2>1, <2>3, <3>1, ZenonT(60) DEF Phases
        <4>2. m \in Member /\ p # NotMember
          BY <2>1, <3>1, WatchAssumption, SMTT(60) DEF WatchAssumption, DataType, TablesType
        <4>3. group_members[a][m] = p
          BY <3>1, <4>1, <4>2, ZenonT(60) DEF Agree
        <4>4. QED
          BY <3>1, <4>1, <4>2, <4>3, ZenonT(60) DEF InHw, Active
      <3>2. QED
        BY <3>1, ZenonT(60) DEF ActiveIffStatusUp
    <2>5. EnforcerAgreesWithManager
      BY <2>1, <2>3, ZenonT(60) DEF Phases, Agree, EnforcerAgreesWithManager
    <2>6. MembersFollowOper
      <3> SUFFICES ASSUME AtRest, ~raced, NEW a \in ActProf, NEW p \in Port, p \notin missed[a],
                          NEW m \in members_by_port[a][p]
                   PROVE  m \in hw_members[a] /\ (m \in hw_active[a] <=> oper[p] = UP)
        BY ZenonT(60) DEF MembersFollowOper, ActiveIffOperUp
      <3>1. task = NoTask /\ EventsOf(task_queue, p) = {} /\ ~Updating
        BY SMTT(60) DEF AtRest, EventsOf, Updating
      <3>2. ports_status[a][p] \in {Unset, oper[p]}
        BY <2>1, <3>1, ZenonT(60) DEF StatusInv, MapCurrent
      <3>3. ports_status[a][p] # Unset
        BY ZenonT(60) DEF MembersInv, KnownInv
      <3>4. QED
        BY <2>4, <3>1, <3>2, <3>3, ZenonT(60) DEF ActiveIffStatusUp
    <2>7. QED
      BY <2>2, <2>4, <2>5, <2>6, ZenonT(60) DEF MembersFollowPorts
  <1>3. QED
    BY <1>1, <1>2, MembersStep, PTL DEF Spec
=============================================================================

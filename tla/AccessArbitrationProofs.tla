---------------------- MODULE AccessArbitrationProofs -----------------------
(***************************************************************************)
(* Proofs about AccessArbitration, for any finite set of threads and ids:  *)
(* its invariants, and that it implements AccessPolicy.                    *)
(***************************************************************************)
EXTENDS AccessRefinement, FiniteSetTheorems, TLAPS

(* A no_write_access call in progress has at least one candidate id: the   *)
(* one_of overloads answer an empty set before they reach the mutex.       *)
CandidatesNonEmpty ==
    \A th \in Thread :
        access[th].state = "called" /\ access[th].op \in NoWriteOp => access[th].p4_ids # {}

(* The inductive invariant.  NoLostWakeup needs CandidatesNonEmpty and     *)
(* IdsHeldOnce when an update is granted, the others need the counters to  *)
(* count the holders.                                                      *)
IInv ==
    /\ TypeOK
    /\ CountersCountHolders
    /\ IdsHeldOnce
    /\ ReadersExcludeWriters
    /\ UpdateExcludesAllButRequests
    /\ CandidatesNonEmpty
    /\ NoLostWakeup

-----------------------------------------------------------------------------
(* The set of holders is a finite set of threads, so that a counter that   *)
(* equals its cardinality is zero exactly when nobody holds.               *)
LEMMA HoldersFinite ==
    ASSUME NEW ops
    PROVE  /\ IsFiniteSet(Holders(ops))
           /\ Cardinality(Holders(ops)) \in Nat
           /\ Cardinality(Holders(ops)) = 0 <=> Holders(ops) = {}
  <1>1. Holders(ops) \subseteq Thread
    BY DEF Holders
  <1>2. IsFiniteSet(Holders(ops))
    BY <1>1, AccessAssumption, FS_Subset, SMTT(60) DEF AccessAssumption
  <1>3. QED
    BY <1>2, FS_CardinalityType, FS_EmptySet

(* Granting th an access adds th to the holders of its kind only. *)
LEMMA GrantHolders ==
    ASSUME TypeOK, NEW th \in Thread, NEW ids, access[th].state = "called",
           Granted(th, ids), NEW ops
    PROVE  /\ th \notin Holders(ops)
           /\ access[th].op \in ops => Holders(ops)' = Holders(ops) \cup {th}
           /\ access[th].op \notin ops => Holders(ops)' = Holders(ops)
  BY DEF TypeOK, Granted, Holders

(* Releasing th's access removes th from the holders of its kind only. *)
LEMMA ReleaseHolders ==
    ASSUME TypeOK, NEW th \in Thread, access[th].state = "held", Released(th), NEW ops
    PROVE  /\ access[th].op \in ops => th \in Holders(ops)
           /\ access[th].op \in ops => Holders(ops)' = Holders(ops) \ {th}
           /\ access[th].op \notin ops => Holders(ops)' = Holders(ops)
  BY DEF TypeOK, Released, NoAccess, Holders

(* A step by which th neither gains nor gives up an access changes no set  *)
(* of holders.                                                             *)
LEMMA SameHolders ==
    ASSUME TypeOK, NEW th \in Thread, access[th].state # "held",
           NEW rec, rec.state # "held", access' = [access EXCEPT ![th] = rec], NEW ops
    PROVE  Holders(ops)' = Holders(ops)
  BY DEF TypeOK, Holders

(* IdsHeldOnce is kept by a step that leaves the id holders alone, *)
LEMMA SameIds ==
    ASSUME IdsHeldOnce, p4_ids_busy' = p4_ids_busy,
           IdHolders' = IdHolders,
           \A h \in IdHolders : access'[h] = access[h]
    PROVE  IdsHeldOnce'
  BY SMTT(60) DEF IdsHeldOnce

(* and by one that gives free ids to a new holder. *)
LEMMA MoreIds ==
    ASSUME IdsHeldOnce, NEW th \in Thread, NEW ids \in SUBSET P4Id,
           th \notin IdHolders,
           IdHolders' = IdHolders \cup {th},
           \A h \in IdHolders : access'[h] = access[h],
           \A h \in IdHolders : access[h].p4_ids \subseteq P4Id,
           access'[th].p4_ids = ids, p4_ids_busy \cap ids = {},
           p4_ids_busy' = p4_ids_busy \cup ids
    PROVE  IdsHeldOnce'
  <1>1. \A h \in IdHolders : access[h].p4_ids \cap ids = {}
    BY DEF IdsHeldOnce
  <1>2. ASSUME NEW h1 \in IdHolders \cup {th}, NEW h2 \in IdHolders \cup {th}, h1 # h2
        PROVE  access'[h1].p4_ids \cap access'[h2].p4_ids = {}
    BY <1>1, <1>2, SMTT(60) DEF IdsHeldOnce
  <1>3. \A i \in P4Id : i \in p4_ids_busy' <=> \E h \in IdHolders \cup {th} : i \in access'[h].p4_ids
    BY DEF IdsHeldOnce
  <1>4. QED
    BY <1>2, <1>3, SMTT(60) DEF IdsHeldOnce

(* or that takes the ids of a holder back. *)
LEMMA FewerIds ==
    ASSUME IdsHeldOnce, NEW th \in IdHolders,
           IdHolders' = IdHolders \ {th},
           \A h \in IdHolders \ {th} : access'[h] = access[h],
           p4_ids_busy' = p4_ids_busy \ access[th].p4_ids
    PROVE  IdsHeldOnce'
  BY DEF IdsHeldOnce

-----------------------------------------------------------------------------
(* Constructing an Access object, dropping one that has no access and      *)
(* skipping leave the lock as it is.                                       *)
LEMMA QuietStep ==
    ASSUME IInv, NEW th \in Thread, access[th].state # "held", th \notin cv_waiters,
           NEW rec \in [state : AccessState, op : Op, p4_ids : SUBSET P4Id],
           rec.state # "held",
           rec.state = "called" /\ rec.op \in NoWriteOp => rec.p4_ids # {},
           access' = [access EXCEPT ![th] = rec],
           UNCHANGED <<arbitration, cv_waiters>>
    PROVE  IInv'
  <1> USE DEF IInv, arbitration
  <1>1. \A ops : Holders(ops)' = Holders(ops)
    BY SameHolders, ZenonT(60)
  <1>2. TypeOK'
    BY DEF TypeOK
  <1>3. CountersCountHolders'
    BY <1>1 DEF CountersCountHolders
  <1>4. IdsHeldOnce'
    <2>0. IdHolders' = IdHolders /\ p4_ids_busy' = p4_ids_busy
      BY <1>1 DEF IdHolders
    <2>1. \A h \in IdHolders : access'[h] = access[h]
      BY DEF IdHolders, Holders, TypeOK
    <2>2. QED
      BY <2>0, <2>1, SameIds, SMTT(60)
  <1>5. ReadersExcludeWriters' /\ UpdateExcludesAllButRequests'
    BY <1>1, SMTT(60) DEF ReadersExcludeWriters, UpdateExcludesAllButRequests
  <1>6. CandidatesNonEmpty'
    BY SMTT(60) DEF CandidatesNonEmpty, TypeOK
  <1>7. NoLostWakeup'
    BY DEF NoLostWakeup, TypeOK, Ready, WriteRequestReady, WriteIdReady, NoWriteReady,
           NoWriteSkipReady, NotBusy, ReadReady, UpdateReady
  <1>8. QED
    BY <1>2, <1>3, <1>4, <1>5, <1>6, <1>7, SMTT(60)

(* WriteAccess granted. *)
LEMMA GrantWriteStep ==
    ASSUME IInv, NEW th \in Thread, GrantWrite(th)
    PROVE  IInv'
  <1> USE DEF IInv
  <1>1. /\ access[th].state = "called" /\ access[th].op \in WriteOp /\ th \notin cv_waiters
        /\ Granted(th, access[th].p4_ids) /\ access[th].p4_ids \subseteq P4Id
        /\ read_cnt = 0 /\ p4_ids_busy \cap access[th].p4_ids = {}
        /\ (access[th].op = "write_id" => update_cnt = 0)
        /\ write_cnt' = write_cnt + 1 /\ p4_ids_busy' = p4_ids_busy \cup access[th].p4_ids
        /\ UNCHANGED <<read_cnt, update_cnt, no_write_cnt, cv_waiters>>
    BY ZenonT(60) DEF GrantWrite, Running, Ready, WriteRequestReady, WriteIdReady, WriteOp, NoWriteOp,
           SkipOp, TypeOK
  <1>2. /\ Holders({"read"})' = Holders({"read"})
        /\ Holders({"update"})' = Holders({"update"})
        /\ Holders(NoWriteOp)' = Holders(NoWriteOp)
        /\ Holders(WriteOp)' = Holders(WriteOp) \cup {th} /\ th \notin Holders(WriteOp)
        /\ IdHolders' = IdHolders \cup {th}
        /\ th \notin IdHolders
    BY <1>1, GrantHolders, SMTT(60) DEF WriteOp, NoWriteOp, IdHolders
  <1>3. TypeOK'
    BY <1>1 DEF TypeOK, Granted, AccessState
  <1>4. CountersCountHolders'
    BY <1>1, <1>2, HoldersFinite, FS_AddElement, ZenonT(60) DEF CountersCountHolders
  <1>5. IdsHeldOnce'
    <2>1. /\ access'[th].p4_ids = access[th].p4_ids
          /\ \A h \in IdHolders : access'[h] = access[h] /\ access[h].p4_ids \subseteq P4Id
      BY <1>1, <1>2 DEF IdHolders, Holders, TypeOK, Granted
    <2>2. QED
      BY <1>1, <1>2, <2>1, MoreIds
  <1>6. ReadersExcludeWriters'
    BY <1>1, <1>2, HoldersFinite, ZenonT(60) DEF CountersCountHolders, ReadersExcludeWriters
  <1>7. UpdateExcludesAllButRequests'
    <2>1. CASE access[th].op = "write_id"
      BY <1>1, <1>2, <2>1, HoldersFinite
         DEF CountersCountHolders, UpdateExcludesAllButRequests
    <2>2. CASE access[th].op = "write_request"
      <3>1. Holders(Op \ {"write_request"})' = Holders(Op \ {"write_request"})
        BY <1>1, <2>2, GrantHolders
      <3>2. QED
        BY <1>2, <3>1 DEF UpdateExcludesAllButRequests
    <2>3. QED
      BY <1>1, <2>1, <2>2 DEF WriteOp
  <1>8. CandidatesNonEmpty'
    BY <1>1 DEF CandidatesNonEmpty, TypeOK, Granted
  <1>9. NoLostWakeup'
    <2>1. \A w \in cv_waiters : access'[w] = access[w]
      BY <1>1 DEF TypeOK, Granted
    <2>2. QED
      BY <1>1, <2>1 DEF NoLostWakeup, TypeOK, Ready, WriteRequestReady, WriteIdReady,
         NoWriteReady, NoWriteSkipReady, NotBusy, ReadReady, UpdateReady
  <1>10. QED
    BY <1>3, <1>4, <1>5, <1>6, <1>7, <1>8, <1>9, ZenonT(60)

(* NoWriteAccess granted, by any of its four overloads. *)
LEMMA GrantNoWriteStep ==
    ASSUME IInv, NEW th \in Thread, GrantNoWrite(th)
    PROVE  IInv'
  <1> USE DEF IInv
  <1>1. PICK id \in NotBusy(access[th].p4_ids) :
            p4_ids_busy' = p4_ids_busy \cup {id} /\ Granted(th, {id})
    BY ZenonT(60) DEF GrantNoWrite
  <1>2. /\ access[th].state = "called" /\ access[th].op \in NoWriteOp /\ th \notin cv_waiters
        /\ update_cnt = 0 /\ no_write_cnt' = no_write_cnt + 1
        /\ id \in P4Id /\ id \notin p4_ids_busy
        /\ UNCHANGED <<read_cnt, write_cnt, update_cnt, cv_waiters>>
    BY <1>1 DEF GrantNoWrite, Running, NotBusy, TypeOK
  <1>3. /\ Holders({"read"})' = Holders({"read"})
        /\ Holders({"update"})' = Holders({"update"})
        /\ Holders(WriteOp)' = Holders(WriteOp)
        /\ Holders(NoWriteOp)' = Holders(NoWriteOp) \cup {th} /\ th \notin Holders(NoWriteOp)
        /\ IdHolders' = IdHolders \cup {th}
        /\ th \notin IdHolders
    BY <1>1, <1>2, GrantHolders, ZenonT(60) DEF WriteOp, NoWriteOp, IdHolders
  <1>4. TypeOK'
    BY <1>1, <1>2 DEF TypeOK, Granted, AccessState
  <1>5. CountersCountHolders'
    BY <1>2, <1>3, HoldersFinite, FS_AddElement, ZenonT(60) DEF CountersCountHolders
  <1>6. IdsHeldOnce'
    <2>1. /\ access'[th].p4_ids = {id}
          /\ \A h \in IdHolders : access'[h] = access[h] /\ access[h].p4_ids \subseteq P4Id
      BY <1>1, <1>3 DEF IdHolders, Holders, TypeOK, Granted
    <2>2. QED
      BY <1>1, <1>2, <1>3, <2>1, MoreIds
  <1>7. ReadersExcludeWriters' /\ UpdateExcludesAllButRequests'
    BY <1>2, <1>3, HoldersFinite, ZenonT(60)
       DEF CountersCountHolders, ReadersExcludeWriters, UpdateExcludesAllButRequests
  <1>8. CandidatesNonEmpty'
    BY <1>1 DEF CandidatesNonEmpty, TypeOK, Granted
  <1>9. NoLostWakeup'
    <2>1. \A w \in cv_waiters : access'[w] = access[w]
      BY <1>1, <1>2, SMTT(60) DEF TypeOK, Granted
    <2>2. QED
      BY <1>1, <1>2, <2>1, SMTT(60) DEF NoLostWakeup, TypeOK, Ready, WriteRequestReady, WriteIdReady,
         NoWriteReady, NoWriteSkipReady, NotBusy, ReadReady, UpdateReady
  <1>10. QED
    BY <1>4, <1>5, <1>6, <1>7, <1>8, <1>9

(* ReadAccess granted. *)
LEMMA GrantReadStep ==
    ASSUME IInv, NEW th \in Thread, GrantRead(th)
    PROVE  IInv'
  <1> USE DEF IInv
  <1>1. /\ access[th].state = "called" /\ access[th].op = "read" /\ th \notin cv_waiters
        /\ Granted(th, {}) /\ write_cnt = 0 /\ update_cnt = 0
        /\ read_cnt' = read_cnt + 1
        /\ UNCHANGED <<write_cnt, update_cnt, no_write_cnt, p4_ids_busy, cv_waiters>>
    BY SMTT(60) DEF GrantRead, Running, Ready, ReadReady, NoWriteOp, SkipOp, TypeOK
  <1>2. /\ Holders({"read"})' = Holders({"read"}) \cup {th} /\ th \notin Holders({"read"})
        /\ Holders({"update"})' = Holders({"update"})
        /\ Holders(WriteOp)' = Holders(WriteOp)
        /\ Holders(NoWriteOp)' = Holders(NoWriteOp)
        /\ IdHolders' = IdHolders
    BY <1>1, GrantHolders, SMTT(60) DEF WriteOp, NoWriteOp, IdHolders
  <1>3. TypeOK'
    BY <1>1 DEF TypeOK, Granted, AccessState
  <1>4. CountersCountHolders'
    BY <1>1, <1>2, HoldersFinite, FS_AddElement, ZenonT(60) DEF CountersCountHolders
  <1>5. IdsHeldOnce'
    <2>1. \A h \in IdHolders : access'[h] = access[h]
      BY <1>1 DEF IdHolders, Holders, TypeOK, Granted
    <2>2. QED
      BY <1>1, <1>2, <2>1, SameIds
  <1>6. ReadersExcludeWriters' /\ UpdateExcludesAllButRequests'
    BY <1>1, <1>2, HoldersFinite, ZenonT(60)
       DEF CountersCountHolders, ReadersExcludeWriters, UpdateExcludesAllButRequests
  <1>7. CandidatesNonEmpty'
    BY <1>1 DEF CandidatesNonEmpty, TypeOK, Granted
  <1>8. NoLostWakeup'
    <2>1. \A w \in cv_waiters : access'[w] = access[w]
      BY <1>1 DEF TypeOK, Granted
    <2>2. QED
      BY <1>1, <2>1 DEF NoLostWakeup, TypeOK, Ready, WriteRequestReady, WriteIdReady,
         NoWriteReady, NoWriteSkipReady, NotBusy, ReadReady, UpdateReady
  <1>9. QED
    BY <1>3, <1>4, <1>5, <1>6, <1>7, <1>8, SMTT(60)

(* When no write and no no-write access is alive, no id is busy. *)
LEMMA NoHolderNoBusyId ==
    ASSUME IInv, write_cnt = 0, no_write_cnt = 0
    PROVE  p4_ids_busy = {}
  <1>1. Holders(WriteOp) = {} /\ Holders(NoWriteOp) = {}
    BY HoldersFinite, ZenonT(60) DEF IInv, CountersCountHolders
  <1>2. IdHolders = {}
    BY <1>1 DEF IdHolders, Holders
  <1>3. QED
    BY <1>2 DEF IInv, IdsHeldOnce, TypeOK

(* UpdateAccess granted.  A skip_if_update waiter would become ready here  *)
(* with nobody to notify it: there is none, because a waiter with a        *)
(* candidate id sleeps only while some access is alive.                    *)
LEMMA GrantUpdateStep ==
    ASSUME IInv, NEW th \in Thread, GrantUpdate(th)
    PROVE  IInv' /\ Holders(Op) = {}
  <1> USE DEF IInv
  <1>1. /\ access[th].state = "called" /\ access[th].op = "update" /\ th \notin cv_waiters
        /\ Granted(th, {})
        /\ write_cnt = 0 /\ update_cnt = 0 /\ read_cnt = 0 /\ no_write_cnt = 0
        /\ update_cnt' = update_cnt + 1
        /\ UNCHANGED <<read_cnt, write_cnt, no_write_cnt, p4_ids_busy, cv_waiters>>
    BY DEF GrantUpdate, Running, Ready, UpdateReady, NoWriteOp, SkipOp, TypeOK
  <1>2. /\ Holders({"update"})' = Holders({"update"}) \cup {th} /\ th \notin Holders({"update"})
        /\ Holders({"read"})' = Holders({"read"})
        /\ Holders(WriteOp)' = Holders(WriteOp)
        /\ Holders(NoWriteOp)' = Holders(NoWriteOp)
        /\ IdHolders' = IdHolders
        /\ Holders(Op \ {"write_request"})' = Holders(Op \ {"write_request"}) \cup {th}
    BY <1>1, GrantHolders DEF WriteOp, NoWriteOp, IdHolders, Op
  <1>3. /\ Holders({"read"}) = {} /\ Holders(WriteOp) = {}
        /\ Holders({"update"}) = {} /\ Holders(NoWriteOp) = {}
    BY <1>1, HoldersFinite, ZenonT(60) DEF CountersCountHolders
  <1>4. Holders(Op) = {} /\ Holders(Op \ {"write_request"}) = {}
    BY <1>3 DEF Holders, Op
  <1>5. TypeOK'
    BY <1>1 DEF TypeOK, Granted, AccessState
  <1>6. CountersCountHolders'
    <2>1. Cardinality(Holders({"update"}) \cup {th}) = Cardinality(Holders({"update"})) + 1
      BY <1>2, HoldersFinite, FS_AddElement, ZenonT(60)
    <2>2. QED
      BY <1>1, <1>2, <2>1, ZenonT(60) DEF CountersCountHolders
  <1>7. IdsHeldOnce'
    <2>1. \A h \in IdHolders : access'[h] = access[h]
      BY <1>1 DEF IdHolders, Holders, TypeOK, Granted
    <2>2. QED
      BY <1>1, <1>2, <2>1, SameIds, ZenonT(60)
  <1>8. ReadersExcludeWriters' /\ UpdateExcludesAllButRequests'
    BY <1>2, <1>3, <1>4, ZenonT(60) DEF ReadersExcludeWriters, UpdateExcludesAllButRequests
  <1>9. CandidatesNonEmpty'
    BY <1>1 DEF CandidatesNonEmpty, TypeOK, Granted
  <1>10. NoLostWakeup'
    <2>1. \A w \in cv_waiters : access'[w] = access[w]
      BY <1>1, ZenonT(60) DEF TypeOK, Granted
    <2>2. \A w \in cv_waiters : access[w].op \notin SkipOp
      BY <1>1, NoHolderNoBusyId, SMTT(60) DEF NoLostWakeup, CandidatesNonEmpty, TypeOK, Ready,
         NoWriteSkipReady, NotBusy, SkipOp, NoWriteOp
    <2>3. QED
      BY <1>1, <2>1, <2>2, ZenonT(60) DEF NoLostWakeup, TypeOK, Ready, WriteRequestReady, WriteIdReady,
         NoWriteReady, NotBusy, ReadReady, UpdateReady
  <1>11. QED
    BY <1>4, <1>5, <1>6, <1>7, <1>8, <1>9, <1>10

-----------------------------------------------------------------------------
(* A release wakes every waiter, so NoLostWakeup is immediate; what is     *)
(* left of an access is nobody's, so the other conjuncts only weaken.      *)
LEMMA ReleaseCommon ==
    ASSUME IInv, NEW th \in Thread, access[th].state = "held", Released(th)
    PROVE  /\ access' \in [Thread -> [state : AccessState, op : Op, p4_ids : SUBSET P4Id]]
           /\ cv_waiters' = {}
           /\ ReadersExcludeWriters' /\ UpdateExcludesAllButRequests'
           /\ CandidatesNonEmpty' /\ NoLostWakeup'
           /\ \A h \in Thread \ {th} : access'[h] = access[h]
  <1> USE DEF IInv
  <1>1. /\ access' = [access EXCEPT ![th] = NoAccess] /\ cv_waiters' = {}
        /\ NoAccess \in [state : AccessState, op : Op, p4_ids : SUBSET P4Id]
    BY ZenonT(60) DEF Released, NoAccess, AccessState, Op
  <1>2. /\ access' \in [Thread -> [state : AccessState, op : Op, p4_ids : SUBSET P4Id]]
        /\ \A h \in Thread \ {th} : access'[h] = access[h]
        /\ access'[th].state = "idle"
    BY <1>1, SMTT(60) DEF TypeOK, NoAccess
  <1>3. \A ops : Holders(ops)' = Holders(ops) \ {th}
    BY <1>2, SMTT(60) DEF Holders
  <1>4. ReadersExcludeWriters'
    BY <1>3, SMTT(60) DEF ReadersExcludeWriters
  <1>5. UpdateExcludesAllButRequests'
    BY <1>3, SMTT(60) DEF UpdateExcludesAllButRequests
  <1>6. CandidatesNonEmpty' /\ NoLostWakeup'
    BY <1>1, <1>2, ZenonT(60) DEF CandidatesNonEmpty, NoLostWakeup
  <1>7. QED
    BY <1>1, <1>2, <1>4, <1>5, <1>6, ZenonT(60)

(* Giving back the WriteAccess of a set of ids preserves the invariant. *)
LEMMA ReleaseWriteStep ==
    ASSUME IInv, NEW th \in Thread, ReleaseWrite(th)
    PROVE  IInv'
  <1> USE DEF IInv
  <1>1. /\ access[th].state = "held" /\ access[th].op \in WriteOp /\ Released(th)
        /\ write_cnt' = write_cnt - 1 /\ p4_ids_busy' = p4_ids_busy \ access[th].p4_ids
        /\ UNCHANGED <<read_cnt, update_cnt, no_write_cnt>>
    BY ZenonT(60) DEF ReleaseWrite, Holders
  <1>2. /\ Holders({"read"})' = Holders({"read"})
        /\ Holders({"update"})' = Holders({"update"})
        /\ Holders(NoWriteOp)' = Holders(NoWriteOp)
        /\ Holders(WriteOp)' = Holders(WriteOp) \ {th} /\ th \in Holders(WriteOp)
        /\ IdHolders' = IdHolders \ {th} /\ th \in IdHolders
    BY <1>1, ReleaseHolders, ZenonT(60) DEF WriteOp, NoWriteOp, IdHolders
  <1>3. Cardinality(Holders(WriteOp)') = write_cnt - 1 /\ write_cnt - 1 \in Nat
    BY <1>2, HoldersFinite, FS_RemoveElement, FS_CardinalityType, SMTT(60) DEF CountersCountHolders
  <1>4. TypeOK'
    BY <1>1, <1>3, ReleaseCommon, SMTT(60) DEF TypeOK
  <1>5. CountersCountHolders'
    BY <1>1, <1>2, <1>3, ZenonT(60) DEF CountersCountHolders
  <1>6. IdsHeldOnce'
    BY <1>1, <1>2, ReleaseCommon, FewerIds, ZenonT(60) DEF IdHolders, Holders
  <1>7. QED
    BY <1>1, <1>4, <1>5, <1>6, ReleaseCommon, ZenonT(60)

(* Giving back a NoWriteAccess preserves the invariant. *)
LEMMA ReleaseNoWriteStep ==
    ASSUME IInv, NEW th \in Thread, ReleaseNoWrite(th)
    PROVE  IInv'
  <1> USE DEF IInv
  <1>1. /\ access[th].state = "held" /\ access[th].op \in NoWriteOp /\ Released(th)
        /\ no_write_cnt' = no_write_cnt - 1
        /\ p4_ids_busy' = p4_ids_busy \ access[th].p4_ids
        /\ UNCHANGED <<read_cnt, write_cnt, update_cnt>>
    BY ZenonT(60) DEF ReleaseNoWrite, Holders
  <1>2. /\ Holders({"read"})' = Holders({"read"})
        /\ Holders({"update"})' = Holders({"update"})
        /\ Holders(WriteOp)' = Holders(WriteOp)
        /\ Holders(NoWriteOp)' = Holders(NoWriteOp) \ {th} /\ th \in Holders(NoWriteOp)
        /\ IdHolders' = IdHolders \ {th} /\ th \in IdHolders
    BY <1>1, ReleaseHolders, ZenonT(60) DEF WriteOp, NoWriteOp, IdHolders
  <1>3. Cardinality(Holders(NoWriteOp)') = no_write_cnt - 1 /\ no_write_cnt - 1 \in Nat
    BY <1>2, HoldersFinite, FS_RemoveElement, FS_CardinalityType, SMTT(60) DEF CountersCountHolders
  <1>4. TypeOK'
    BY <1>1, <1>3, ReleaseCommon, SMTT(60) DEF TypeOK
  <1>5. CountersCountHolders'
    BY <1>1, <1>2, <1>3, ZenonT(60) DEF CountersCountHolders
  <1>6. IdsHeldOnce'
    BY <1>1, <1>2, ReleaseCommon, FewerIds, ZenonT(60) DEF IdHolders, Holders
  <1>7. QED
    BY <1>1, <1>4, <1>5, <1>6, ReleaseCommon, ZenonT(60)

(* Giving back a ReadAccess preserves the invariant. *)
LEMMA ReleaseReadStep ==
    ASSUME IInv, NEW th \in Thread, ReleaseRead(th)
    PROVE  IInv'
  <1> USE DEF IInv
  <1>1. /\ access[th].state = "held" /\ access[th].op = "read" /\ Released(th)
        /\ read_cnt' = read_cnt - 1
        /\ UNCHANGED <<write_cnt, update_cnt, no_write_cnt, p4_ids_busy>>
    BY SMTT(60) DEF ReleaseRead, Holders
  <1>2. /\ Holders({"read"})' = Holders({"read"}) \ {th} /\ th \in Holders({"read"})
        /\ Holders({"update"})' = Holders({"update"})
        /\ Holders(WriteOp)' = Holders(WriteOp)
        /\ Holders(NoWriteOp)' = Holders(NoWriteOp)
        /\ IdHolders' = IdHolders /\ th \notin IdHolders
    BY <1>1, ReleaseHolders, ZenonT(60) DEF WriteOp, NoWriteOp, IdHolders, Holders
  <1>3. Cardinality(Holders({"read"})') = read_cnt - 1 /\ read_cnt - 1 \in Nat
    BY <1>2, HoldersFinite, FS_RemoveElement, FS_CardinalityType, SMTT(60) DEF CountersCountHolders
  <1>4. TypeOK'
    BY <1>1, <1>3, ReleaseCommon, SMTT(60) DEF TypeOK
  <1>5. CountersCountHolders'
    BY <1>1, <1>2, <1>3, ZenonT(60) DEF CountersCountHolders
  <1>6. IdsHeldOnce'
    BY <1>1, <1>2, ReleaseCommon, SameIds, SMTT(60) DEF IdHolders, Holders
  <1>7. QED
    BY <1>1, <1>4, <1>5, <1>6, ReleaseCommon, ZenonT(60)

(* Giving back the UpdateAccess preserves the invariant. *)
LEMMA ReleaseUpdateStep ==
    ASSUME IInv, NEW th \in Thread, ReleaseUpdate(th)
    PROVE  IInv'
  <1> USE DEF IInv
  <1>1. /\ access[th].state = "held" /\ access[th].op = "update" /\ Released(th)
        /\ update_cnt' = update_cnt - 1
        /\ UNCHANGED <<read_cnt, write_cnt, no_write_cnt, p4_ids_busy>>
    BY DEF ReleaseUpdate, Holders
  <1>2. /\ Holders({"update"})' = Holders({"update"}) \ {th} /\ th \in Holders({"update"})
        /\ Holders({"read"})' = Holders({"read"})
        /\ Holders(WriteOp)' = Holders(WriteOp)
        /\ Holders(NoWriteOp)' = Holders(NoWriteOp)
        /\ IdHolders' = IdHolders /\ th \notin IdHolders
    BY <1>1, ReleaseHolders, ZenonT(60) DEF WriteOp, NoWriteOp, IdHolders, Holders
  <1>3. Cardinality(Holders({"update"})') = update_cnt - 1 /\ update_cnt - 1 \in Nat
    BY <1>2, HoldersFinite, FS_RemoveElement, FS_CardinalityType, SMTT(60) DEF CountersCountHolders
  <1>4. TypeOK'
    BY <1>1, <1>3, ReleaseCommon, ZenonT(60) DEF TypeOK
  <1>5. CountersCountHolders'
    BY <1>1, <1>2, <1>3, ZenonT(60) DEF CountersCountHolders
  <1>6. IdsHeldOnce'
    BY <1>1, <1>2, ReleaseCommon, SameIds, SMTT(60) DEF IdHolders, Holders
  <1>7. QED
    BY <1>1, <1>4, <1>5, <1>6, ReleaseCommon, ZenonT(60)

-----------------------------------------------------------------------------
(* Entering a constructor. *)
LEMMA ConstructStep ==
    ASSUME IInv, NEW th \in Thread, Construct(th)
    PROVE  IInv'
  <1>1. access[th].state = "idle" /\ th \notin cv_waiters
    BY DEF Construct, CallWriteRequest, CallOneId, CallOneOf, CallGlobal, Call, IInv, TypeOK
  <1>2. ASSUME NEW op \in Op, NEW ids \in SUBSET P4Id, op \in NoWriteOp => ids # {},
               Call(th, op, ids)
        PROVE  IInv'
    <2> DEFINE rec == [state |-> "called", op |-> op, p4_ids |-> ids]
    <2>1. rec \in [state : AccessState, op : Op, p4_ids : SUBSET P4Id]
      BY DEF AccessState
    <2>2. QED
      BY <1>1, <1>2, <2>1, QuietStep, ZenonT(60) DEF Call
  <1>3. ASSUME NEW ids \in SUBSET P4Id, NEW p4info \in P4Infos, CallWriteRequest(th, ids, p4info)
        PROVE  IInv'
    <2>1. WriteRequestIds(ids, p4info) \in SUBSET P4Id
      BY AccessAssumption DEF AccessAssumption, WriteRequestIds, P4Id
    <2>2. "write_request" \in Op /\ "write_request" \notin NoWriteOp
      BY DEF Op, WriteOp, NoWriteOp
    <2>3. QED
      BY <1>2, <1>3, <2>1, <2>2, ZenonT(60) DEF CallWriteRequest
  <1>4. ASSUME NEW op \in Op, NEW id \in P4Id, CallOneId(th, op, id)
        PROVE  IInv'
    BY <1>2, <1>4, SMTT(60) DEF CallOneId
  <1>5. ASSUME NEW op \in Op, NEW ids \in SUBSET ActProf, CallOneOf(th, op, ids)
        PROVE  IInv'
    <2>1. ids \in SUBSET P4Id
      BY SMTT(60) DEF P4Id
    <2>2. CASE ids # {}
      BY <1>2, <1>5, <2>1, <2>2, SMTT(60) DEF CallOneOf
    <2>3. CASE ids = {}
      <3> DEFINE rec == [state |-> "no_access", op |-> op, p4_ids |-> {}]
      <3>1. rec \in [state : AccessState, op : Op, p4_ids : SUBSET P4Id]
        BY SMTT(60) DEF AccessState
      <3>2. access' = [access EXCEPT ![th] = rec] /\ UNCHANGED <<arbitration, cv_waiters>>
        BY <1>5, <2>3, SMTT(60) DEF CallOneOf
      <3>3. QED
        BY <1>1, <3>1, <3>2, QuietStep, ZenonT(60)
    <2>4. QED
      BY <2>2, <2>3, SMTT(60)
  <1>6. ASSUME NEW op \in Op, CallGlobal(th, op)
        PROVE  IInv'
    BY <1>2, <1>6, ZenonT(60) DEF CallGlobal, NoWriteOp
  <1>7. QED
    BY <1>3, <1>4, <1>5, <1>6, ZenonT(60) DEF Construct

(* Blocking on the condition variable, with the predicate false. *)
LEMMA WaitStep ==
    ASSUME IInv, NEW th \in Thread, Wait(th)
    PROVE  IInv'
  <1> USE DEF IInv, Wait, Running, arbitration
  <1>1. TypeOK'
    BY SMTT(60) DEF TypeOK
  <1>2. \A ops : Holders(ops)' = Holders(ops)
    BY ZenonT(60) DEF Holders
  <1>3. CountersCountHolders'
    BY <1>2, ZenonT(60) DEF CountersCountHolders
  <1>4. IdsHeldOnce'
    BY <1>2, SameIds, SMTT(60) DEF IdHolders
  <1>5. ReadersExcludeWriters' /\ UpdateExcludesAllButRequests'
    BY <1>2, ZenonT(60) DEF ReadersExcludeWriters, UpdateExcludesAllButRequests
  <1>6. CandidatesNonEmpty'
    BY ZenonT(60) DEF CandidatesNonEmpty
  <1>7. NoLostWakeup'
    BY DEF NoLostWakeup, Ready, WriteRequestReady, WriteIdReady, NoWriteReady,
           NoWriteSkipReady, NotBusy, ReadReady, UpdateReady
  <1>8. QED
    BY <1>1, <1>3, <1>4, <1>5, <1>6, <1>7, ZenonT(60)

(* Constructing an object without access, and destroying one. *)
LEMMA NoAccessStep ==
    ASSUME IInv, NEW th \in Thread, SkipNoWrite(th) \/ DropNoAccess(th)
    PROVE  IInv'
  <1>1. CASE SkipNoWrite(th)
    <2> DEFINE rec == [state |-> "no_access", op |-> access[th].op, p4_ids |-> {}]
    <2>1. /\ access[th].state # "held" /\ th \notin cv_waiters
          /\ access' = [access EXCEPT ![th] = rec] /\ UNCHANGED <<arbitration, cv_waiters>>
      BY <1>1, ZenonT(60) DEF SkipNoWrite, Running, IInv, TypeOK
    <2>2. rec \in [state : AccessState, op : Op, p4_ids : SUBSET P4Id]
      BY DEF AccessState, IInv, TypeOK
    <2>3. QED
      BY <2>1, <2>2, QuietStep, ZenonT(60)
  <1>2. CASE DropNoAccess(th)
    <2>1. NoAccess \in [state : AccessState, op : Op, p4_ids : SUBSET P4Id]
      BY SMTT(60) DEF NoAccess, AccessState, Op
    <2>2. access[th].state = "no_access" /\ th \notin cv_waiters
      BY <1>2, SMTT(60) DEF DropNoAccess, IInv, TypeOK
    <2>3. QED
      BY <1>2, <2>1, <2>2, QuietStep, ZenonT(60) DEF DropNoAccess, NoAccess
  <1>3. QED
    BY <1>1, <1>2, SMTT(60)

(* The invariant holds when nobody holds or waits for anything. *)
LEMMA InitStep == Init => IInv
  <1> SUFFICES ASSUME Init PROVE IInv
    BY SMTT(60)
  <1>1. \A ops : Holders(ops) = {}
    BY ZenonT(60) DEF Init, NoAccess, Holders
  <1>2. TypeOK
    BY SMTT(60) DEF Init, TypeOK, NoAccess, AccessState, Op
  <1>3. CountersCountHolders
    BY <1>1, FS_EmptySet, ZenonT(60) DEF Init, CountersCountHolders
  <1>4. IdsHeldOnce /\ ReadersExcludeWriters /\ UpdateExcludesAllButRequests
    BY <1>1, SMTT(60) DEF Init, IdHolders, IdsHeldOnce, ReadersExcludeWriters, UpdateExcludesAllButRequests
  <1>5. CandidatesNonEmpty /\ NoLostWakeup
    BY SMTT(60) DEF Init, NoAccess, CandidatesNonEmpty, NoLostWakeup
  <1>6. QED
    BY <1>2, <1>3, <1>4, <1>5, SMTT(60) DEF IInv

(* Every step of every thread preserves the inductive invariant. *)
LEMMA NextStep == IInv /\ [Next]_vars => IInv'
  <1> SUFFICES ASSUME IInv, [Next]_vars PROVE IInv'
    BY SMTT(60)
  <1>1. ASSUME NEW th \in Thread, Construct(th) \/ Wait(th) \/ Acquire(th) \/ Destroy(th)
        PROVE  IInv'
    BY <1>1, ConstructStep, WaitStep, NoAccessStep, GrantWriteStep, GrantNoWriteStep,
       GrantReadStep, GrantUpdateStep, ReleaseWriteStep, ReleaseNoWriteStep,
       ReleaseReadStep, ReleaseUpdateStep, ZenonT(60) DEF Acquire, Destroy
  <1>2. CASE UNCHANGED vars
    <2> USE <1>2 DEF IInv, vars
    <2>1. \A ops : Holders(ops)' = Holders(ops)
      BY ZenonT(60) DEF Holders
    <2>2. TypeOK' /\ CountersCountHolders' /\ ReadersExcludeWriters'
                  /\ UpdateExcludesAllButRequests'
      BY <2>1, SMTT(60) DEF TypeOK, CountersCountHolders, ReadersExcludeWriters,
                  UpdateExcludesAllButRequests
    <2>3. IdsHeldOnce'
      BY <2>1, SameIds, ZenonT(60) DEF IdHolders
    <2>4. CandidatesNonEmpty' /\ NoLostWakeup'
      BY DEF CandidatesNonEmpty, NoLostWakeup, Ready, WriteRequestReady, WriteIdReady,
             NoWriteReady, NoWriteSkipReady, NotBusy, ReadReady, UpdateReady
    <2>5. QED
      BY <2>2, <2>3, <2>4, SMTT(60)
  <1>3. QED
    BY <1>1, <1>2, SMTT(60) DEF Next

-----------------------------------------------------------------------------
(* The inductive invariant holds in every reachable state of the lock.     *)
THEOREM Invariance == Spec => []IInv
  BY InitStep, NextStep, PTL DEF Spec

(* The counters never go negative (validate_state in the code) and every   *)
(* variable keeps its type.                                                *)
THEOREM TypeCorrect == Spec => []TypeOK
  <1>1. IInv => TypeOK
    BY SMTT(60) DEF IInv
  <1>2. QED
    BY <1>1, Invariance, PTL

(* read_cnt, write_cnt, update_cnt and no_write_cnt count the live Access  *)
(* objects of their kind.                                                  *)
THEOREM CountersCorrect == Spec => []CountersCountHolders
  <1>1. IInv => CountersCountHolders
    BY SMTT(60) DEF IInv
  <1>2. QED
    BY <1>1, Invariance, PTL

(* No two live Access objects lock the same P4 object, and p4_ids_busy is  *)
(* exactly what the live ones lock.                                        *)
THEOREM MutualExclusion == Spec => []IdsHeldOnce
  <1>1. IInv => IdsHeldOnce
    BY SMTT(60) DEF IInv
  <1>2. QED
    BY <1>1, Invariance, PTL

(* A ReadAccess and a WriteAccess are never alive together. *)
THEOREM ReadWriteExclusion == Spec => []ReadersExcludeWriters
  <1>1. IInv => ReadersExcludeWriters
    BY ZenonT(60) DEF IInv
  <1>2. QED
    BY <1>1, Invariance, PTL

(* During a pipeline update only write requests can be alive. *)
THEOREM UpdateExclusion == Spec => []UpdateExcludesAllButRequests
  <1>1. IInv => UpdateExcludesAllButRequests
    BY SMTT(60) DEF IInv
  <1>2. QED
    BY <1>1, Invariance, PTL

(* A thread asleep on the condition variable has a false predicate: the    *)
(* notify_all calls of the releases are all the wakeups that are needed.   *)
THEOREM NoWakeupIsLost == Spec => []NoLostWakeup
  <1>1. IInv => NoLostWakeup
    BY SMTT(60) DEF IInv
  <1>2. QED
    BY <1>1, Invariance, PTL

(* A step other than the grant of an update makes nobody an updater. *)
LEMMA NoNewUpdater ==
    ASSUME IInv, NEW th \in Thread,
           Construct(th) \/ Wait(th) \/ Acquire(th) \/ Destroy(th), ~GrantUpdate(th)
    PROVE  Holders({"update"})' \subseteq Holders({"update"})
  <1> USE DEF IInv
  <1>1. CASE Construct(th)
    BY <1>1, SMTT(60) DEF Construct, CallWriteRequest, CallOneId, CallOneOf, CallGlobal, Call,
                Holders, TypeOK
  <1>2. CASE Wait(th)
    BY <1>2, SMTT(60) DEF Wait, Holders
  <1>3. CASE GrantWrite(th) \/ GrantRead(th)
    BY <1>3, GrantHolders, ZenonT(60) DEF GrantWrite, GrantRead, Running, WriteOp
  <1>4. CASE GrantNoWrite(th)
    BY <1>4, GrantHolders, ZenonT(60) DEF GrantNoWrite, Running, NoWriteOp
  <1>5. CASE SkipNoWrite(th) \/ DropNoAccess(th)
    BY <1>5, SMTT(60) DEF SkipNoWrite, DropNoAccess, NoAccess, Holders, TypeOK
  <1>6. CASE ReleaseWrite(th) \/ ReleaseNoWrite(th) \/ ReleaseRead(th) \/ ReleaseUpdate(th)
    BY <1>6, SMTT(60) DEF ReleaseWrite, ReleaseNoWrite, ReleaseRead, ReleaseUpdate, Released,
                NoAccess, Holders, TypeOK
  <1>7. QED
    BY <1>1, <1>2, <1>3, <1>4, <1>5, <1>6, ZenonT(60) DEF Acquire, Destroy

(* An UpdateAccess is only ever granted when no Access object is alive. *)
THEOREM UpdateAlone == Spec => UpdateGrantedAlone
  <1>1. ASSUME IInv, [Next]_vars
        PROVE  [Holders({"update"})' \subseteq Holders({"update"}) \/ Holders(Op) = {}]_vars
    <2>1. ASSUME NEW th \in Thread, Construct(th) \/ Wait(th) \/ Acquire(th) \/ Destroy(th)
          PROVE  Holders({"update"})' \subseteq Holders({"update"}) \/ Holders(Op) = {}
      BY <1>1, <2>1, NoNewUpdater, GrantUpdateStep, ZenonT(60)
    <2>2. QED
      BY <1>1, <2>1, ZenonT(60) DEF Next
  <1>2. QED
    BY <1>1, Invariance, PTL DEF Spec, UpdateGrantedAlone

-----------------------------------------------------------------------------
(* The refinement.  What a live access admits follows from the counters:   *)
(* a counter that is 0 rules out its kind, a free id rules out a conflict. *)
held == [th \in Thread |-> HeldBy(th)]

(* What a thread holds in the lock is what it holds in the policy. *)
LEMMA KindOfHeld ==
    ASSUME NEW op \in Op
    PROVE  /\ KindOf(op) \in Policy!Kind
           /\ op \in WriteOp => KindOf(op) \in {"request", "write"}
           /\ op = "write_request" => KindOf(op) = "request"
           /\ op \in NoWriteOp => KindOf(op) = "no_write"
           /\ op \in {"read", "update"} => KindOf(op) = op
  BY ZenonT(60) DEF Op, WriteOp, NoWriteOp, KindOf, Policy!Kind

(* If every live access admits the one th is granted, the grant is a step  *)
(* of the policy.                                                          *)
LEMMA GrantRefines ==
    ASSUME IInv, NEW th \in Thread, NEW ids \in SUBSET P4Id,
           access[th].state = "called", Granted(th, ids),
           \A h \in Holders(Op) : Policy!Admits(HeldBy(h), [kind |-> KindOf(access[th].op), p4_ids |-> ids])
    PROVE  Policy!Next
  <1> DEFINE g == [kind |-> KindOf(access[th].op), p4_ids |-> ids]
  <1>1. access[th].op \in Op /\ g \in Policy!Access
    BY KindOfHeld, ZenonT(60) DEF IInv, TypeOK, Policy!Access
  <1>2. held[th] = Policy!Nothing
    BY SMTT(60) DEF held, HeldBy, Policy!Nothing
  <1>3. \A other \in Thread : held[other] # Policy!Nothing => Policy!Admits(held[other], g)
    <2>1. \A other \in Thread : held[other] # Policy!Nothing => other \in Holders(Op)
      BY SMTT(60) DEF held, HeldBy, Policy!Nothing, Holders, IInv, TypeOK
    <2>2. QED
      BY <2>1, ZenonT(60) DEF held
  <1>4. held' = [held EXCEPT ![th] = g]
    BY ZenonT(60) DEF held, HeldBy, Granted, IInv, TypeOK
  <1>5. Policy!Acquire(th, g)
    BY <1>2, <1>3, <1>4, ZenonT(60) DEF Policy!Acquire, held
  <1>6. QED
    BY <1>1, <1>5, SMTT(60) DEF Policy!Next

(* What a live access looks like in the policy. *)
LEMMA HeldKinds ==
    ASSUME IInv, NEW h \in Holders(Op)
    PROVE  /\ HeldBy(h) = [kind |-> KindOf(access[h].op), p4_ids |-> access[h].p4_ids]
           /\ access[h].op \in Op
           /\ h \in IdHolders \/ h \in Holders({"read"}) \/ h \in Holders({"update"})
           /\ h \in IdHolders => access[h].op \in WriteOp \cup NoWriteOp
           /\ access[h].op \in WriteOp => h \in Holders(WriteOp)
           /\ h \in Holders({"read"}) => access[h].op = "read"
           /\ h \in Holders({"update"}) => access[h].op = "update"
  BY ZenonT(60) DEF Holders, HeldBy, IdHolders, Op, IInv, TypeOK

(* A write_access that returns is a grant of the policy. *)
LEMMA GrantWriteRefines ==
    ASSUME IInv, NEW th \in Thread, GrantWrite(th)
    PROVE  Policy!Next
  <1>1. /\ access[th].state = "called" /\ access[th].op \in WriteOp
        /\ Granted(th, access[th].p4_ids) /\ access[th].p4_ids \in SUBSET P4Id
        /\ read_cnt = 0 /\ p4_ids_busy \cap access[th].p4_ids = {}
        /\ (access[th].op = "write_id" => update_cnt = 0)
    BY DEF GrantWrite, Running, Ready, WriteRequestReady, WriteIdReady, WriteOp, NoWriteOp,
           SkipOp, IInv, TypeOK
  <1>2. /\ Holders({"read"}) = {}
        /\ access[th].op = "write_id" => Holders({"update"}) = {}
    BY <1>1, HoldersFinite, ZenonT(60) DEF IInv, CountersCountHolders
  <1>3. \A h \in IdHolders : access[h].p4_ids \cap access[th].p4_ids = {}
    BY <1>1, ZenonT(60) DEF IInv, IdsHeldOnce
  <1>4. ASSUME NEW h \in Holders(Op)
        PROVE  Policy!Admits(HeldBy(h),
                   [kind |-> KindOf(access[th].op), p4_ids |-> access[th].p4_ids])
    <2>1. CASE h \in IdHolders
      <3>1. KindOf(access[h].op) \in {"request", "write", "no_write"}
        BY <2>1, HeldKinds, KindOfHeld, ZenonT(60)
      <3>2. KindOf(access[th].op) \in {"request", "write", "no_write"}
        BY <1>1, KindOfHeld, ZenonT(60) DEF Op
      <3>3. QED
        BY <1>3, <2>1, <3>1, <3>2, HeldKinds, SMTT(60) DEF Policy!Admits
    <2>2. CASE h \in Holders({"update"})
      <3>1. access[th].op = "write_request"
        BY <1>1, <1>2, <2>2, SMTT(60) DEF WriteOp
      <3>2. KindOf(access[th].op) = "request" /\ KindOf(access[h].op) = "update"
        BY <2>2, <3>1, HeldKinds, KindOfHeld, ZenonT(60) DEF Op, WriteOp
      <3>3. QED
        BY <3>2, HeldKinds, SMTT(60) DEF Policy!Admits
    <2>3. QED
      BY <1>2, <2>1, <2>2, HeldKinds, ZenonT(60)
  <1>5. QED
    BY <1>1, <1>4, GrantRefines, ZenonT(60)

(* A no_write_access that returns is a grant of the policy. *)
LEMMA GrantNoWriteRefines ==
    ASSUME IInv, NEW th \in Thread, GrantNoWrite(th)
    PROVE  Policy!Next
  <1>1. PICK id \in NotBusy(access[th].p4_ids) : Granted(th, {id})
    BY ZenonT(60) DEF GrantNoWrite
  <1>2. /\ access[th].state = "called" /\ access[th].op \in NoWriteOp
        /\ update_cnt = 0 /\ id \in P4Id /\ id \notin p4_ids_busy /\ {id} \in SUBSET P4Id
    BY DEF GrantNoWrite, Running, NotBusy, IInv, TypeOK
  <1>3. Holders({"update"}) = {}
    BY <1>2, HoldersFinite, ZenonT(60) DEF IInv, CountersCountHolders
  <1>4. \A h \in IdHolders : access[h].p4_ids \cap {id} = {}
    BY <1>2, SMTT(60) DEF IInv, IdsHeldOnce
  <1>5. KindOf(access[th].op) = "no_write"
    BY <1>2, KindOfHeld, ZenonT(60) DEF Op
  <1>6. ASSUME NEW h \in Holders(Op)
        PROVE  Policy!Admits(HeldBy(h), [kind |-> KindOf(access[th].op), p4_ids |-> {id}])
    <2>1. CASE h \in IdHolders
      <3>1. KindOf(access[h].op) \in {"request", "write", "no_write"}
        BY <2>1, HeldKinds, KindOfHeld, ZenonT(60)
      <3>2. QED
        BY <1>4, <1>5, <2>1, <3>1, HeldKinds, SMTT(60) DEF Policy!Admits
    <2>2. CASE h \in Holders({"read"})
      BY <1>5, <2>2, HeldKinds, KindOfHeld, SMTT(60) DEF Policy!Admits
    <2>3. QED
      BY <1>3, <2>1, <2>2, HeldKinds, ZenonT(60)
  <1>7. QED
    BY <1>1, <1>2, <1>6, GrantRefines, ZenonT(60)

(* A read_access that returns is a grant of the policy. *)
LEMMA GrantReadRefines ==
    ASSUME IInv, NEW th \in Thread, GrantRead(th)
    PROVE  Policy!Next
  <1>1. /\ access[th].state = "called" /\ access[th].op = "read"
        /\ Granted(th, {}) /\ write_cnt = 0 /\ update_cnt = 0
    BY DEF GrantRead, Running, Ready, ReadReady, NoWriteOp, SkipOp
  <1>2. Holders({"update"}) = {} /\ Holders(WriteOp) = {}
    BY <1>1, HoldersFinite, ZenonT(60) DEF IInv, CountersCountHolders
  <1>3. KindOf(access[th].op) = "read"
    BY <1>1, KindOfHeld, ZenonT(60) DEF Op
  <1>4. ASSUME NEW h \in Holders(Op)
        PROVE  Policy!Admits(HeldBy(h), [kind |-> KindOf(access[th].op), p4_ids |-> {}])
    <2>1. KindOf(access[h].op) \in {"read", "no_write"}
      BY <1>2, HeldKinds, KindOfHeld, ZenonT(60)
    <2>2. HeldBy(h) = [kind |-> KindOf(access[h].op), p4_ids |-> access[h].p4_ids]
      BY HeldKinds, ZenonT(60)
    <2>3. HeldBy(h).kind = KindOf(access[h].op)
      BY <2>2, SMTT(60)
    <2>4. QED
      BY <1>3, <2>1, <2>3, ZenonT(60) DEF Policy!Admits
  <1>5. QED
    BY <1>1, <1>4, GrantRefines, ZenonT(60)

(* An update_access that returns is a grant of the policy. *)
LEMMA GrantUpdateRefines ==
    ASSUME IInv, NEW th \in Thread, GrantUpdate(th)
    PROVE  Policy!Next
  <1>1. access[th].state = "called" /\ Granted(th, {}) /\ Holders(Op) = {}
    BY GrantUpdateStep, SMTT(60) DEF GrantUpdate, Running
  <1>2. QED
    BY <1>1, GrantRefines, ZenonT(60)

(* A release of the lock is a release of the policy. *)
LEMMA ReleaseRefines ==
    ASSUME IInv, NEW th \in Thread, access[th].state = "held", Released(th)
    PROVE  Policy!Next
  <1>1. held[th] # Policy!Nothing
    <2>1. KindOf(access[th].op) \in Policy!Kind
      BY KindOfHeld DEF IInv, TypeOK
    <2>2. QED
      BY <2>1, ZenonT(60) DEF held, HeldBy, Policy!Nothing, Policy!Kind
  <1>2. held' = [held EXCEPT ![th] = Policy!Nothing]
    BY ZenonT(60) DEF held, HeldBy, Released, NoAccess, IInv, TypeOK, Policy!Nothing
  <1>3. QED
    BY <1>1, <1>2, ZenonT(60) DEF Policy!Next, Policy!Release, held

(* The other steps are invisible to the policy. *)
LEMMA QuietRefines ==
    ASSUME IInv, NEW th \in Thread, access[th].state # "held",
           NEW rec, rec.state # "held", access' = [access EXCEPT ![th] = rec]
    PROVE  held' = held
  BY DEF held, HeldBy, IInv, TypeOK

(* The lock implements the policy. *)
THEOREM Refinement == Spec => ImplementsPolicy
  <1>1. Init => Policy!Init
    BY DEF Init, NoAccess, HeldBy, Policy!Init, Policy!Nothing
  <1>2. ASSUME IInv, [Next]_vars
        PROVE  Policy!Next \/ UNCHANGED held
    <2>1. ASSUME NEW th \in Thread, Construct(th)
          PROVE  UNCHANGED held
      BY <1>2, <2>1, QuietRefines, ZenonT(60)
         DEF Construct, CallWriteRequest, CallOneId, CallOneOf, CallGlobal, Call
    <2>2. ASSUME NEW th \in Thread, Wait(th) \/ UNCHANGED vars
          PROVE  UNCHANGED held
      BY <2>2, SMTT(60) DEF Wait, vars, held, HeldBy
    <2>3. ASSUME NEW th \in Thread, Acquire(th)
          PROVE  Policy!Next \/ UNCHANGED held
      <3>1. CASE SkipNoWrite(th)
        BY <1>2, <3>1, QuietRefines, ZenonT(60) DEF SkipNoWrite, Running
      <3>2. QED
        BY <1>2, <2>3, <3>1, GrantWriteRefines, GrantNoWriteRefines, GrantReadRefines,
           GrantUpdateRefines, ZenonT(60) DEF Acquire
    <2>4. ASSUME NEW th \in Thread, Destroy(th)
          PROVE  Policy!Next \/ UNCHANGED held
      <3>1. CASE DropNoAccess(th)
        BY <1>2, <3>1, QuietRefines, ZenonT(60) DEF DropNoAccess, NoAccess
      <3>2. QED
        BY <1>2, <2>4, <3>1, ReleaseRefines, SMTT(60)
           DEF Destroy, ReleaseWrite, ReleaseNoWrite, ReleaseRead, ReleaseUpdate, Holders
    <2>5. CASE UNCHANGED vars
      BY <2>5 DEF vars, held, HeldBy
    <2>6. QED
      BY <1>2, <2>1, <2>2, <2>3, <2>4, <2>5, ZenonT(60) DEF Next
  <1>3. QED
    BY <1>1, <1>2, Invariance, PTL DEF Spec, ImplementsPolicy, Policy!Spec, held
=============================================================================

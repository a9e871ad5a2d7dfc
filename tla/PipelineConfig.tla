--------------------------- MODULE PipelineConfig ---------------------------
(***************************************************************************)
(* SetForwardingPipelineConfig from DeviceMgr (device_mgr.cpp) down: the   *)
(* registry of devices in the PI core (pi.c, vector.c, device_map.c,       *)
(* cb_mgr.c) and the two update phases on a target.  Targets: NP4 (targets/*)
(* np4), with or without its DPDK receive thread, and "mock", a target that*)
(* drops its entries in the first phase, keeps what is written between the *)
(* phases and delivers packets at any time.  Beside the SET, a Write that  *)
(* access_arbitration lets in during an update, packet-in callbacks, and   *)
(* the destruction of a DeviceMgr.  A pi_p4info_t is a number, 0 is NULL.  *)
(***************************************************************************)
EXTENDS DeviceVector, FiniteSets, SequencesExt

CONSTANTS Devices, Configs, WithPacketIn, Fits,
          Setups, MaxFailures
ASSUME SetupAssumption == \A s \in Setups : s.devs \subseteq Devices /\ s.configs \subseteq Configs /\ s.calls \in Nat

VARIABLES
    cfg,        \* the setup: target, devices, SET actions, bounds on calls and packets
    op,         \* the SET or the destructor that is running
    fe,         \* per device, the members of DeviceMgrImp
    tgt,        \* per device, the target's side
    map, slots, size,   \* device_map (0: absent) and device_arr (memory, size)
    cbs, holder,        \* packet_cb_mgr and the owner of packet_cb_mutex
    live, conf,         \* the p4infos not destroyed; the config each came from
    wr, rx,             \* the writer; per device, the packet callback
    last,       \* per device, "none", "ok" or "torn": the last install
    touched,    \* per device, entries were written in a window that loses them
    shifted,    \* device_arr lost an element that was not its last
    orphans,    \* devices whose registered callback is that of a DeviceMgr that is gone
    aborted, failures, packets, calls

core == <<map, slots, size>>
vars == <<cfg, op, fe, tgt, core, cbs, holder, live, conf, wr, rx, last, touched, shifted, orphans, aborted, failures, packets, calls>>

(***************************************************************************)
(* The PI core: device_arr, device_map and the callbacks                   *)
(***************************************************************************)
Zeroed == [dev |-> "none", p4info |-> 0]
device_map_get(d) == map[d]
device_map_exists(d) == map[d] # 0
device_map_add(d, slot) == map' = [map EXCEPT ![d] = slot]
device_map_remove(d) == map' = [map EXCEPT ![d] = 0]
pi_get_device_info(d) == IF device_map_get(d) = 0 THEN Zeroed ELSE slots[device_map_get(d)]
pi_is_device_assigned(d) == device_map_exists(d)
pi_update_device_config_start(d, s, m, p) == [s EXCEPT ![m[d]].dev = d]
pi_update_device_config(d, s, m, p) == [s EXCEPT ![m[d]] = [dev |-> d, p4info |-> p]]
CbMutexFree == holder = "none"
cb_mgr_get_or_default(d) == cbs[d]
cb_mgr_add(d) == cbs' = [cbs EXCEPT ![d] = fe[d].gen]
cb_mgr_rm(d) == cbs' = [cbs EXCEPT ![d] = 0]

pi_create_device_config(d, p) ==
    /\ device_map_add(d, size + 1)
    /\ size' = size + 1
    /\ slots' = pi_update_device_config(d, vector_push_back_empty(slots, size, Zeroed), map', p)

(***************************************************************************)
(* NP4: DeviceMgr, Device and DPDKDevice                                   *)
(***************************************************************************)
Gone == [there |-> FALSE, p4info |-> 0, np4 |-> FALSE, dpdk |-> FALSE, thread |-> FALSE, ents |-> {}]
AssignDevice == [Gone EXCEPT !.there = TRUE]
IsNp4 == cfg.target \in {"np4", "np4dpdk"}
SetP4Info(t, p) == [t EXCEPT !.p4info = p]
\* The DPDK port of the first load still owns the mbuf pool's name when the
\* second creates its own: the second fails and takes the first one with it.
PortInit(t) == ~t.dpdk
DropsRunningThread(t) == cfg.target = "np4dpdk" /\ t.dpdk /\ t.thread
LoadDevice_unset(t) == [t EXCEPT !.dpdk = FALSE]
LoadDevice(t) == [t EXCEPT !.np4 = TRUE, !.dpdk = cfg.target = "np4dpdk" /\ PortInit(t)]
LoadFails(t) == cfg.target = "np4dpdk" /\ ~PortInit(t)
Reset(t) == [t EXCEPT !.ents = {}]
DPDKStart(t) == [t EXCEPT !.thread = t.dpdk]
StartAborts(t) == ~t.np4 \/ (t.dpdk /\ t.thread)
StopAborts(t) == t.dpdk /\ ~t.thread
Delivers(t) == t.there /\ (cfg.target = "mock" \/ t.thread)

(***************************************************************************)
(* DeviceMgrImp                                                            *)
(***************************************************************************)
NewMgr == [alive |-> TRUE, gen |-> 1, p4info |-> 0, idle |-> 0, profs |-> 0, tables |-> 0, kept |-> {},
           proto |-> 0, saved |-> 0, set |-> FALSE, mutate |-> 0, cb |-> FALSE]
Quiet == [pc |-> "idle", dev |-> "none", act |-> "none", tmp |-> 0, saved |-> {}]
NoWrite == [pc |-> "idle", dev |-> "none", ent |-> "none"]

Init ==
    /\ cfg \in Setups
    /\ op = Quiet /\ wr = NoWrite
    /\ fe = [d \in Devices |-> NewMgr] /\ tgt = [d \in Devices |-> Gone]
    /\ map = [d \in Devices |-> 0] /\ slots = <<>> /\ size = 0
    /\ cbs = [d \in Devices |-> 0] /\ holder = "none"
    /\ live = {} /\ conf = <<>>
    /\ rx = [d \in Devices |-> "idle"]
    /\ last = [d \in Devices |-> "none"] /\ touched = [d \in Devices |-> FALSE]
    /\ shifted = FALSE /\ orphans = {} /\ aborted = "no" /\ failures = 0 /\ packets = 0 /\ calls = 0

Running == aborted = "no"
At(pc) == Running /\ op.pc = pc
Goto(pc) == op' = [op EXCEPT !.pc = pc]
Fail == failures < MaxFailures /\ failures' = failures + 1
D == op.dev
Loads == op.act \in {"VERIFY_AND_SAVE", "VERIFY_AND_COMMIT", "RECONCILE_AND_COMMIT"}
pi_destroy_config(p) == live' = live \ {p}
Abort(why) == aborted' = why

(***************************************************************************)
(* pipeline_config_set                                                     *)
(***************************************************************************)
Call == calls < cfg.calls /\ calls' = calls + 1
Unwritten == UNCHANGED <<cfg, wr, rx, packets, calls, holder>>

\* UNSPECIFIED and a p4info that cannot be imported return with nothing
\* changed; VERIFY returns and keeps the p4info it imported.
SetBegin(d, a, c) ==
    /\ At("idle") /\ fe[d].alive /\ Call
    /\ op' = [pc |-> IF a = "VERIFY" THEN "register" ELSE "access", dev |-> d, act |-> a,
              tmp |-> IF a = "COMMIT" THEN 0 ELSE Len(conf) + 1, saved |-> {}]
    /\ IF a = "COMMIT" THEN UNCHANGED <<conf, live>>
                       ELSE conf' = Append(conf, c) /\ live' = live \cup {Len(conf) + 1}
    /\ UNCHANGED <<cfg, fe, tgt, core, cbs, holder, wr, rx, last, touched, shifted, orphans, aborted, failures, packets>>

\* UpdateAccess waits for the Writes that were let in before it.
SetAccess ==
    /\ At("access") /\ wr.dev # D
    /\ Goto(IF Loads THEN "assign" ELSE "end")
    /\ UNCHANGED <<fe, tgt, core, cbs, live, conf, last, touched, shifted, orphans, aborted, failures>> /\ Unwritten

\* A failed call of the target: the p4info is destroyed, the call returns.
GiveUp == Fail /\ pi_destroy_config(op.tmp) /\ Goto("register")

SetAssign ==
    /\ At("assign")
    /\ \/ pi_is_device_assigned(D) /\ Goto("save") /\ UNCHANGED <<tgt, core, live, failures>>
       \/ /\ ~pi_is_device_assigned(D)
          /\ \/ /\ pi_create_device_config(D, 0)
                /\ tgt' = [tgt EXCEPT ![D] = AssignDevice]
                /\ Goto("save") /\ UNCHANGED <<live, failures>>
             \/ GiveUp /\ UNCHANGED <<tgt, core>>
    /\ UNCHANGED <<fe, cbs, conf, last, touched, shifted, orphans, aborted>> /\ Unwritten

\* save_forwarding_state walks the p4info in force, which may be NULL.
save_forwarding_state ==
    /\ At("save")
    /\ \/ op.act # "RECONCILE_AND_COMMIT" /\ Goto("start") /\ UNCHANGED <<live, aborted, failures>>
       \/ /\ op.act = "RECONCILE_AND_COMMIT" /\ fe[D].p4info = 0
          /\ Abort("no config") /\ UNCHANGED <<op, live, failures>>
       \/ /\ op.act = "RECONCILE_AND_COMMIT" /\ fe[D].p4info # 0
          /\ \/ op' = [op EXCEPT !.pc = "start", !.saved = tgt[D].ents] /\ UNCHANGED <<live, failures>>
             \/ GiveUp
          /\ UNCHANGED aborted
    /\ UNCHANGED <<fe, tgt, core, cbs, conf, last, touched, shifted, orphans>> /\ Unwritten

\* _pi_update_device_start: NP4 takes the new p4info before it loads.
Started_old(t) == IF IsNp4 THEN LoadDevice(t) ELSE [t EXCEPT !.ents = {}]
Started(t) == IF IsNp4 THEN LoadDevice(SetP4Info(t, op.tmp)) ELSE [SetP4Info(t, op.tmp) EXCEPT !.ents = {}]
Unloaded(t) == IF IsNp4 THEN SetP4Info(t, op.tmp) ELSE t

pi_update_device_start ==
    /\ At("start")
    /\ \/ /\ DropsRunningThread(tgt[D]) /\ Abort("terminate")
          /\ UNCHANGED <<op, tgt, slots, live, last, touched, failures>>
       \/ /\ ~DropsRunningThread(tgt[D]) /\ LoadFails(tgt[D])
          /\ tgt' = [tgt EXCEPT ![D] = Started(@)]
          /\ pi_destroy_config(op.tmp) /\ Goto("register")
          /\ last' = [last EXCEPT ![D] = "torn"]
          /\ UNCHANGED <<slots, touched, aborted, failures>>
       \/ /\ ~LoadFails(tgt[D]) /\ GiveUp
          /\ tgt' = [tgt EXCEPT ![D] = Unloaded(@)]
          /\ last' = [last EXCEPT ![D] = IF IsNp4 THEN "torn" ELSE @]
          /\ UNCHANGED <<slots, touched, aborted>>
       \/ /\ ~LoadFails(tgt[D])
          /\ tgt' = [tgt EXCEPT ![D] = Started(@)]
          /\ slots' = pi_update_device_config(D, slots, map, op.tmp)
          /\ touched' = [touched EXCEPT ![D] = tgt'[D].ents # {}]
          /\ Goto("tables") /\ UNCHANGED <<live, last, aborted, failures>>
    /\ UNCHANGED <<fe, map, size, cbs, conf, shifted, orphans>> /\ Unwritten

(***************************************************************************)
(* p4_change.  An error returns with what was done so far in place.        *)
(***************************************************************************)
Torn == Fail /\ last' = [last EXCEPT ![D] = "torn"] /\ Goto("register")
Onward(pc) == Goto(pc) /\ UNCHANGED <<last, failures>>

ChangeTables ==
    /\ At("tables")
    /\ \E ok \in BOOLEAN :
          /\ IF ok THEN Onward("profs") ELSE Torn
          /\ fe' = [fe EXCEPT ![D].idle = op.tmp, ![D].kept = {}, ![D].tables = IF ok THEN op.tmp ELSE 0]
    /\ UNCHANGED <<tgt, core, cbs, live, conf, touched, shifted, orphans, aborted>> /\ Unwritten

ChangeProfs ==
    /\ At("profs")
    /\ \E ok \in BOOLEAN :
          /\ IF ok THEN Onward("packet_io") ELSE Torn
          /\ fe' = [fe EXCEPT ![D].profs = IF ok THEN op.tmp ELSE 0]
    /\ UNCHANGED <<tgt, core, cbs, live, conf, touched, shifted, orphans, aborted>> /\ Unwritten

MutatorOf(i) == IF conf[i] \in WithPacketIn THEN i ELSE 0
ChangePacketIo ==
    /\ At("packet_io") /\ Onward("p4info")
    /\ fe' = [fe EXCEPT ![D].mutate = MutatorOf(op.tmp)]
    /\ UNCHANGED <<tgt, core, cbs, live, conf, touched, shifted, orphans, aborted>> /\ Unwritten

ChangeP4Info ==
    /\ At("p4info") /\ Onward("config")
    /\ fe' = [fe EXCEPT ![D].p4info = op.tmp, ![D].proto = op.tmp]
    /\ pi_destroy_config(fe[D].p4info)
    /\ UNCHANGED <<tgt, core, cbs, conf, touched, shifted, orphans, aborted>> /\ Unwritten

AfterChange_unreplayed == IF op.act = "VERIFY_AND_SAVE" THEN "register" ELSE "end"
AfterChange == CASE op.act = "VERIFY_AND_SAVE" -> "register"
                 [] op.act = "VERIFY_AND_COMMIT" -> "end"
                 [] OTHER -> "replay"
change_config ==
    /\ At("config")
    /\ \E ok \in BOOLEAN :
          /\ fe' = [fe EXCEPT ![D].saved = IF ok THEN op.tmp ELSE 0, ![D].set = @ \/ ok]
          /\ IF ok THEN /\ Goto(AfterChange) /\ UNCHANGED failures
                        /\ last' = [last EXCEPT ![D] = IF op.act = "VERIFY_AND_SAVE" THEN "ok" ELSE @]
                   ELSE Torn
    /\ UNCHANGED <<tgt, core, cbs, live, conf, touched, shifted, orphans, aborted>> /\ Unwritten

\* write_ continues past an update that fails; any error ends the SET.
Replayable == {e \in op.saved : conf[fe[D].p4info] \in Fits[e]}
SetReplay ==
    /\ At("replay")
    /\ fe' = [fe EXCEPT ![D].kept = @ \cup Replayable]
    /\ tgt' = [tgt EXCEPT ![D].ents = @ \cup Replayable]
    /\ IF Replayable = op.saved
          THEN Goto("end") /\ UNCHANGED last
          ELSE Goto("register") /\ last' = [last EXCEPT ![D] = "torn"]
    /\ UNCHANGED <<core, cbs, live, conf, touched, shifted, orphans, aborted, failures>> /\ Unwritten

\* _pi_update_device_end; NP4 resets every ATOM and starts its thread.
Finished == last' = [last EXCEPT ![D] = IF Loads THEN "ok" ELSE @] /\ Goto("register")
pi_update_device_end ==
    /\ At("end")
    /\ \/ /\ ~tgt[D].there /\ Goto("register") /\ UNCHANGED <<tgt, last, touched, aborted, failures>>
       \/ /\ tgt[D].there /\ IsNp4 /\ StartAborts(tgt[D])
          /\ Abort(IF tgt[D].np4 THEN "terminate" ELSE "null")
          /\ UNCHANGED <<op, tgt, last, touched, failures>>
       \/ /\ tgt[D].there /\ IsNp4 /\ ~StartAborts(tgt[D])
          /\ tgt' = [tgt EXCEPT ![D] = DPDKStart(Reset(@))]
          /\ touched' = [touched EXCEPT ![D] = fe[D].kept # {}]
          /\ Finished /\ UNCHANGED <<aborted, failures>>
       \/ /\ tgt[D].there /\ ~IsNp4
          /\ \/ Finished /\ UNCHANGED failures
             \/ Fail /\ Goto("register") /\ last' = [last EXCEPT ![D] = IF Loads THEN "torn" ELSE @]
          /\ UNCHANGED <<tgt, touched, aborted>>
    /\ UNCHANGED <<fe, core, cbs, live, conf, shifted, orphans>> /\ Unwritten

\* The server registers the stream callback after every SET.
packet_in_register_cb ==
    /\ At("register") /\ Goto("register_pi")
    /\ fe' = [fe EXCEPT ![D].cb = TRUE]
    /\ UNCHANGED <<tgt, core, cbs, live, conf, last, touched, shifted, orphans, aborted, failures>> /\ Unwritten

pi_packetin_register_cb ==
    /\ At("register_pi") /\ CbMutexFree
    /\ cb_mgr_add(D) /\ op' = Quiet
    /\ orphans' = orphans \ {D}
    /\ UNCHANGED <<fe, tgt, core, live, conf, last, touched, shifted, aborted, failures>> /\ Unwritten

(***************************************************************************)
(* ~DeviceMgrImp, and the DeviceMgr made for the same device afterwards    *)
(***************************************************************************)
Destroy(d) ==
    /\ At("idle") /\ fe[d].alive /\ wr.dev # d /\ Call /\ cfg.destroys
    /\ op' = [Quiet EXCEPT !.pc = "remove", !.dev = d]
    /\ UNCHANGED <<cfg, fe, tgt, core, cbs, holder, live, conf, wr, rx, last, touched, shifted, orphans, aborted, failures, packets>>

\* Stop joins the receive thread, which first returns from its callback.
CanStop(d) == tgt[d].thread => rx[d] = "idle"
\* A device that is not assigned keeps its callback.
pi_remove_device ==
    /\ At("remove") /\ CanStop(D)
    /\ IF ~pi_is_device_assigned(D)
          THEN /\ Goto("free") /\ orphans' = orphans \cup {d \in {D} : cbs[d] # 0}
               /\ UNCHANGED <<tgt, core, shifted, aborted>>
       ELSE IF StopAborts(tgt[D])
          THEN Abort("terminate") /\ UNCHANGED <<op, tgt, core, shifted, orphans>>
       ELSE IF vector_remove_asserts(size, map[D])
          THEN Abort("assert") /\ UNCHANGED <<op, tgt, core, shifted, orphans>>
       ELSE /\ tgt' = [tgt EXCEPT ![D] = Gone]
            /\ slots' = vector_remove(slots, size, RemovedIndex(map[D]))
            /\ size' = size - 1 /\ device_map_remove(D)
            /\ shifted' = (shifted \/ size > 1)
            /\ Goto("deregister") /\ UNCHANGED <<orphans, aborted>>
    /\ UNCHANGED <<fe, cbs, live, conf, last, touched, failures>> /\ Unwritten

pi_packetin_deregister_cb ==
    /\ At("deregister") /\ CbMutexFree
    /\ cb_mgr_rm(D) /\ Goto("free")
    /\ UNCHANGED <<fe, tgt, core, live, conf, last, touched, shifted, orphans, aborted, failures>> /\ Unwritten

DestroyMembers ==
    /\ At("free") /\ pi_destroy_config(fe[D].p4info)
    /\ fe' = [fe EXCEPT ![D] = [NewMgr EXCEPT !.alive = FALSE, !.gen = fe[D].gen]]
    /\ last' = [last EXCEPT ![D] = "none"] /\ op' = Quiet
    /\ UNCHANGED <<tgt, core, cbs, conf, touched, shifted, orphans, aborted, failures>> /\ Unwritten

Create(d) ==
    /\ At("idle") /\ ~fe[d].alive /\ Call
    /\ fe' = [fe EXCEPT ![d] = [NewMgr EXCEPT !.gen = fe[d].gen + 1]]
    /\ UNCHANGED <<cfg, op, tgt, core, cbs, holder, live, conf, wr, rx, last, touched, shifted, orphans, aborted, failures, packets>>

(***************************************************************************)
(* A Write request: access_arbitration does not make it wait for an update.*)
(* table_insert adds to the target, then to the store.                     *)
(***************************************************************************)
Overlaps(d) == op.dev = d /\ op.pc \in {"assign", "save", "start", "tables", "profs", "packet_io", "p4info", "config", "replay", "end"}
Writable(d, e) == fe[d].p4info # 0 /\ conf[fe[d].p4info] \in Fits[e]
                  /\ fe[d].tables # 0 /\ conf[fe[d].tables] \in Fits[e] /\ e \notin fe[d].kept
WriteTarget(d, e) ==
    /\ Running /\ wr.pc = "idle" /\ fe[d].alive /\ Writable(d, e) /\ tgt[d].there /\ op.pc # "remove"
    /\ wr' = [pc |-> "store", dev |-> d, ent |-> e]
    /\ tgt' = [tgt EXCEPT ![d].ents = @ \cup {e}]
    /\ touched' = [touched EXCEPT ![d] = @ \/ Overlaps(d)]
    /\ UNCHANGED <<cfg, op, fe, core, cbs, holder, live, conf, rx, last, shifted, orphans, aborted, failures, packets, calls>>

WriteStore ==
    /\ Running /\ wr.pc = "store"
    /\ fe' = [fe EXCEPT ![wr.dev].kept = IF fe[wr.dev].tables = 0 THEN @ ELSE @ \cup {wr.ent}]
    /\ touched' = [touched EXCEPT ![wr.dev] = @ \/ Overlaps(wr.dev) \/ wr.ent \notin tgt[wr.dev].ents]
    /\ wr' = NoWrite
    /\ UNCHANGED <<cfg, op, tgt, core, cbs, holder, live, conf, rx, last, shifted, orphans, aborted, failures, packets, calls>>

(***************************************************************************)
(* pi_packetin_receive and packet_in_cb, on the target's thread.  The core *)
(* holds packet_cb_mutex for as long as the callback runs.                 *)
(***************************************************************************)
RxUnchanged == UNCHANGED <<cfg, op, fe, tgt, core, cbs, live, conf, wr, last, touched, shifted, orphans, failures, calls>>

pi_packetin_receive(d) ==
    /\ Running /\ rx[d] = "idle" /\ Delivers(tgt[d]) /\ CbMutexFree /\ cb_mgr_get_or_default(d) # 0
    /\ packets < cfg.packets /\ packets' = packets + 1
    /\ rx' = [rx EXCEPT ![d] = "in"] /\ holder' = d
    /\ UNCHANGED aborted /\ RxUnchanged

\* packet_in_mutate is tested before its mutex is taken.  The cookie is the
\* PacketIOMgr that registered; the memory of one that is gone may be in use
\* by the next.
packet_in_cb(d) ==
    /\ Running /\ rx[d] = "in"
    /\ \/ rx' = [rx EXCEPT ![d] = IF fe[d].mutate # 0 THEN "seen" ELSE "call"] /\ UNCHANGED aborted
       \/ cb_mgr_get_or_default(d) # fe[d].gen /\ Abort("freed") /\ UNCHANGED rx
    /\ UNCHANGED <<holder, packets>> /\ RxUnchanged

PacketInMutate(d) ==
    /\ Running /\ rx[d] = "seen"
    /\ IF fe[d].mutate = 0 THEN Abort("mutate") /\ UNCHANGED rx
       ELSE rx' = [rx EXCEPT ![d] = "call"] /\ UNCHANGED aborted
    /\ UNCHANGED <<holder, packets>> /\ RxUnchanged

CbReturns(d) ==
    /\ Running /\ rx[d] \in {"call", "seen"} /\ (rx[d] = "seen" => fe[d].mutate # 0)
    /\ rx' = [rx EXCEPT ![d] = "idle"] /\ holder' = "none"
    /\ UNCHANGED <<aborted, packets>> /\ RxUnchanged

Next ==
    \/ \E d \in cfg.devs :
          \/ \E a \in cfg.acts, c \in cfg.configs : SetBegin(d, a, c)
          \/ Destroy(d) \/ Create(d)
          \/ \E e \in cfg.ents : WriteTarget(d, e)
          \/ pi_packetin_receive(d) \/ packet_in_cb(d) \/ PacketInMutate(d) \/ CbReturns(d)
    \/ SetAccess \/ SetAssign \/ save_forwarding_state \/ pi_update_device_start
    \/ ChangeTables \/ ChangeProfs \/ ChangePacketIo \/ ChangeP4Info \/ change_config
    \/ SetReplay \/ pi_update_device_end \/ packet_in_register_cb \/ pi_packetin_register_cb
    \/ pi_remove_device \/ pi_packetin_deregister_cb \/ DestroyMembers
    \/ WriteStore

Spec == Init /\ [][Next]_vars

(***************************************************************************)
(* Properties                                                              *)
(***************************************************************************)
Settled(d) == op.dev # d /\ fe[d].alive

\* pipeline_config_get: the p4info and the device config it answers with.
pipeline_config_get(d) == IF fe[d].set THEN {fe[d].proto, fe[d].saved} ELSE {}

\* After a SET that returned OK, and whatever SETs failed before it, every
\* layer works from the one p4info that was imported for it: the frontend's
\* members, the answer of pipeline_config_get, the PI core and the target.
LayersAgree ==
    ~shifted => \A d \in cfg.devs : (Settled(d) /\ last[d] = "ok") =>
        /\ {fe[d].idle, fe[d].profs, fe[d].tables} = {fe[d].p4info}
        /\ pipeline_config_get(d) = {fe[d].p4info}
        /\ pi_get_device_info(d).p4info = fe[d].p4info
        /\ tgt[d].p4info = fe[d].p4info

\* No layer keeps a pointer to a p4info that was destroyed, also between the
\* steps of p4_change; NP4 does once its first phase has failed ("torn"),
\* since it takes the pointer before it loads.
PointersLive ==
    ~shifted => \A d \in cfg.devs : fe[d].alive =>
        /\ {fe[d].p4info, fe[d].idle, fe[d].profs, pi_get_device_info(d).p4info} \subseteq live \cup {0}
        /\ last[d] # "torn" => tgt[d].p4info \in live \cup {0}

\* The header parser of d is gone because the config in force, or the one that
\* a SET is installing, has no packet_in header.
HeaderDropped(d) ==
    \/ fe[d].p4info # 0 /\ conf[fe[d].p4info] \notin WithPacketIn
    \/ op.dev = d /\ op.tmp # 0 /\ conf[op.tmp] \notin WithPacketIn

\* A packet-in callback runs in the DeviceMgr that registered it, while that
\* is alive and has its stream callback, and finds the header parser it saw.
\* Two cases of the code are left out.  A SET registers the callback also when
\* it assigned no device (VERIFY, or a failed assignment); pi_remove_device
\* then returns before it deregisters, and until the next SET of the next
\* DeviceMgr registers again a packet is given to the freed one (orphans, which
\* has no device whose registered callback is that of the DeviceMgr in use).
\* And a config without a packet_in header may take the parser away between
\* the test and the use (HeaderDropped), which ends the process.
CallbackSafe ==
    \A d \in cfg.devs :
        /\ (rx[d] # "idle" /\ d \notin orphans) => fe[d].alive /\ fe[d].cb /\ cbs[d] = fe[d].gen
        /\ (rx[d] = "seen" /\ fe[d].mutate = 0) => d \in orphans \/ HeaderDropped(d)
        /\ d \in orphans => cbs[d] # fe[d].gen \/ op.dev = d \/ ~fe[d].alive

\* The entry the core's map has for a device is the device's own, as long as
\* the array has not lost an element before another one.
RegistryOwn ==
    ~shifted => /\ size = Cardinality({d \in Devices : map[d] # 0})
                /\ \A d \in Devices : map[d] # 0 => map[d] <= size /\ slots[map[d]].dev = d

\* The layers agree on the devices and on the config of each.
LayersAndRegistryAgree == LayersAgree /\ RegistryOwn

\* No call uses a p4info that was destroyed and no callback a DeviceMgr or a
\* header parser that is gone, with the exceptions of the two parts: NP4 after
\* a failed first phase, a callback that pi_remove_device left registered, and
\* the change to a config without a packet_in header.
NothingStale == PointersLive /\ CallbackSafe

\* After a SET that returned OK the store and the target hold the same
\* entries, unless a Write ran during the SET, or NP4 still has the rules of
\* before the first phase or dropped new ones in the second; and a RECONCILE
\* about to commit has put back everything it saved.
StoreBacked ==
    \A d \in cfg.devs : (~touched[d] /\ wr.dev # d) =>
        /\ (Settled(d) /\ last[d] = "ok") => fe[d].kept = tgt[d].ents
        /\ (op.dev = d /\ op.pc = "end") => op.saved \subseteq tgt[d].ents

\* The process ends only in these sequences of calls: a device removed while
\* another is assigned; NP4 with a receive thread, whose second first phase
\* or second commit meets the first thread, or that is removed unstarted; a
\* COMMIT on NP4 with nothing loaded; a RECONCILE with no config in force; a
\* packet that meets the change to a config without a packet_in header; a
\* packet that is given to a DeviceMgr destroyed with no device assigned.
AbortsExplained ==
    /\ aborted = "assert" => Cardinality({d \in Devices : map[d] # 0}) > 1 \/ shifted
    /\ aborted = "terminate" => cfg.target = "np4dpdk" /\ (calls > 1)
    /\ aborted = "null" => op.act = "COMMIT" /\ last[D] # "ok" /\ fe[D].p4info = 0
    /\ aborted = "no config" => op.act = "RECONCILE_AND_COMMIT" /\ last[D] # "ok"
    /\ aborted = "mutate" => \E d \in cfg.devs : rx[d] = "seen" /\ (HeaderDropped(d) \/ d \in orphans)
    /\ aborted = "freed" => \E d \in orphans : rx[d] = "in"
=============================================================================

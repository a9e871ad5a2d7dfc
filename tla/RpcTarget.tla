------------------------------ MODULE RpcTarget ------------------------------
(***************************************************************************)
(* PI over RPC: applications linked with the RPC target (targets/rpc), each*)
(* with a nanomsg REQ socket all its threads share, and one RPC server that*)
(* drives bmv2 switches.  A call takes an id, sends its request, waits for *)
(* a reply; the server handles one request at a time.  A request may be    *)
(* sent again by nanomsg, a reply may be lost, the server may stop and be  *)
(* started again.  Packet-ins come back over a PUB socket.                 *)
(***************************************************************************)
EXTENDS RpcWire, FiniteSets

CONSTANTS Devices, Setups, MatchTypes, Impl, ConstDefault, ParamBytes, Ports, Refused, Inexact
ASSUME SetupAssumption == \A s \in Setups : s.clients # {} /\ s.max \in Nat /\ s.faults \in Nat
Server == INSTANCE RpcServer
CONSTANT NoThread

VARIABLES
    setup,      \* the applications, their threads, the calls they make, the bounds
    cl,         \* per client: state.init, state.req_id, device_map_mutex, the registry
    th,         \* per thread: where it is, its request id, its call, what it returned
    sock,       \* per client, the REQ socket: state, request sent, reply to be read
    q,          \* per client, the requests on their way to the server
    sv,         \* the server process and, behind it, the switches
    died,       \* what ended the server or a client, "" while it runs
    ask,        \* per device, the contents the requests that were executed ask for
    runs, resent, clash, robbed, want,    \* per thread, about its current call
    stale,      \* per client, devices changed behind its back, or by a request sent twice
    hist,       \* what happened: connections that failed, destroy, restart
    air, sent, got,     \* packets: on their way to a client, published, delivered
    calls, faults

work == <<ask, runs, want, stale>>
vars == <<setup, cl, th, sock, q, sv, died, work, resent, clash, robbed, hist, air, sent, got, calls, faults>>

Threads == DOMAIN setup.threads
Of(t) == setup.threads[t]
Siblings(t) == {u \in Threads : Of(u) = Of(t)} \ {t}

(***************************************************************************)
(* Requests: what each function of targets/rpc writes after the header     *)
(***************************************************************************)
Tgt(d) == [dev_id |-> d, mask |-> "all"]
At(a) == emit_session_handle(0) \o emit_dev_tgt(Tgt(a.d))
On(a) == emit_session_handle(0) \o emit_dev_id(a.d)
_pi_assign_device(a) ==
    emit_dev_id(a.d) \o <<a.p4info>> \o emit_uint32(Len(a.extra)) \o FlattenSeq(a.extra)
_pi_update_device_start(a) == emit_dev_id(a.d) \o <<a.p4info>> \o emit_uint32(1) \o <<a.p4info>>
_pi_update_device_end(a) == emit_dev_id(a.d)
_pi_remove_device(a) == emit_dev_id(a.d)
_pi_session_cleanup(a) == emit_session_handle(0)
_pi_batch_begin(a) == emit_session_handle(0)
_pi_batch_end(a) == emit_session_handle(0) \o emit_uint32(1)
_pi_packetout_send(a) == emit_dev_id(a.d) \o emit_uint32(Len(a.pkt)) \o a.pkt
_pi_learn_msg_ack(a) == On(a) \o emit_p4_id("digest") \o emit_learn_msg_id(a.h)
_pi_table_entry_add(a) == At(a) \o emit_p4_id(a.t) \o emit_match_key(a.k) \o emit_table_entry(a.e) \o emit_uint32(0)
_pi_table_default_action_set(a) == At(a) \o emit_p4_id(a.t) \o emit_table_entry(a.e)
_pi_table_default_action_reset(a) == At(a) \o emit_p4_id(a.t)
_pi_table_default_action_get(a) == At(a) \o emit_p4_id(a.t)
_pi_table_entry_delete(a) == On(a) \o emit_p4_id(a.t) \o emit_entry_handle(a.h)
_pi_table_entry_delete_wkey(a) == At(a) \o emit_p4_id(a.t) \o emit_match_key(a.k)
_pi_table_entry_modify(a) == On(a) \o emit_p4_id(a.t) \o emit_entry_handle(a.h) \o emit_table_entry(a.e)
_pi_table_entry_modify_wkey(a) == At(a) \o emit_p4_id(a.t) \o emit_match_key(a.k) \o emit_table_entry(a.e)
_pi_table_entries_fetch(a) == At(a) \o emit_p4_id(a.t)
_pi_act_prof_mbr_create(a) == At(a) \o emit_p4_id("ap") \o emit_action_data(a.ad)
_pi_act_prof_mbr_delete(a) == On(a) \o emit_p4_id("ap") \o emit_indirect_handle(a.h)
_pi_act_prof_mbr_modify(a) == On(a) \o emit_p4_id("ap") \o emit_indirect_handle(a.h) \o emit_action_data(a.ad)
_pi_act_prof_grp_create(a) == At(a) \o emit_p4_id("ap") \o emit_uint32(2)
_pi_act_prof_grp_delete(a) == On(a) \o emit_p4_id("ap") \o emit_indirect_handle(a.g)
grp_add_remove_mbr(a) == On(a) \o emit_p4_id("ap") \o emit_indirect_handle(a.g) \o emit_indirect_handle(a.h)
_pi_act_prof_entries_fetch(a) == At(a) \o emit_p4_id("ap")
counter_read(a) == At(a) \o emit_p4_id("ctr") \o emit_uint64(a.h) \o emit_uint32(0)
counter_write(a) == At(a) \o emit_p4_id("ctr") \o emit_uint64(a.h) \o emit_counter_data(a.c)
meter_read(a) == At(a) \o emit_p4_id("mtr") \o emit_uint64(a.h)
\* The core puts the unit and the type of the P4Info in place of DEFAULT.
pi_meter_set(m) == [m EXCEPT !.unit = IF @ = "DEFAULT" THEN "BYTES" ELSE @, !.type = IF @ = "DEFAULT" THEN "UNAWARE" ELSE @]
meter_set(a) == At(a) \o emit_p4_id("mtr") \o emit_uint64(a.h) \o emit_meter_spec(pi_meter_set(a.m))

Request(op, a) ==
    CASE op \in {"INIT", "DESTROY", "SESSION_INIT"} -> <<>>
      [] op = "ASSIGN_DEVICE" -> _pi_assign_device(a)
      [] op = "UPDATE_DEVICE_START" -> _pi_update_device_start(a)
      [] op = "UPDATE_DEVICE_END" -> _pi_update_device_end(a)
      [] op = "REMOVE_DEVICE" -> _pi_remove_device(a)
      [] op = "SESSION_CLEANUP" -> _pi_session_cleanup(a)
      [] op = "BATCH_BEGIN" -> _pi_batch_begin(a)
      [] op = "BATCH_END" -> _pi_batch_end(a)
      [] op = "PACKETOUT_SEND" -> _pi_packetout_send(a)
      [] op = "LEARN_MSG_ACK" -> _pi_learn_msg_ack(a)
      [] op = "TABLE_ENTRY_ADD" -> _pi_table_entry_add(a)
      [] op = "TABLE_DEFAULT_ACTION_SET" -> _pi_table_default_action_set(a)
      [] op = "TABLE_DEFAULT_ACTION_RESET" -> _pi_table_default_action_reset(a)
      [] op = "TABLE_DEFAULT_ACTION_GET" -> _pi_table_default_action_get(a)
      [] op = "TABLE_ENTRY_DELETE" -> _pi_table_entry_delete(a)
      [] op = "TABLE_ENTRY_DELETE_WKEY" -> _pi_table_entry_delete_wkey(a)
      [] op = "TABLE_ENTRY_MODIFY" -> _pi_table_entry_modify(a)
      [] op = "TABLE_ENTRY_MODIFY_WKEY" -> _pi_table_entry_modify_wkey(a)
      [] op = "TABLE_ENTRIES_FETCH" -> _pi_table_entries_fetch(a)
      [] op = "ACT_PROF_MBR_CREATE" -> _pi_act_prof_mbr_create(a)
      [] op = "ACT_PROF_MBR_DELETE" -> _pi_act_prof_mbr_delete(a)
      [] op = "ACT_PROF_MBR_MODIFY" -> _pi_act_prof_mbr_modify(a)
      [] op = "ACT_PROF_GRP_CREATE" -> _pi_act_prof_grp_create(a)
      [] op = "ACT_PROF_GRP_DELETE" -> _pi_act_prof_grp_delete(a)
      [] op \in {"ACT_PROF_GRP_ADD_MBR", "ACT_PROF_GRP_REMOVE_MBR"} -> grp_add_remove_mbr(a)
      [] op = "ACT_PROF_ENTRIES_FETCH" -> _pi_act_prof_entries_fetch(a)
      [] op \in {"COUNTER_READ", "COUNTER_READ_DIRECT"} -> counter_read(a)
      [] op \in {"COUNTER_WRITE", "COUNTER_WRITE_DIRECT"} -> counter_write(a)
      [] op \in {"METER_READ", "METER_READ_DIRECT"} -> meter_read(a)
      [] op \in {"METER_SET", "METER_SET_DIRECT"} -> meter_set(a)

\* Answered by the client alone; a fetch of one member or group is said to
\* have succeeded although nothing was fetched.
LocalStatus(op) == IF op = "ACT_PROF_MBR_FETCH" THEN "SUCCESS" ELSE "RPC_NOT_IMPLEMENTED"
Local == {"ACT_PROF_MBR_FETCH", "GRP_SET_MBRS", "LEARN_CONFIG_SET", "MC_GRP_CREATE", "CLONE_SESSION_SET", "IDLE_TIMEOUT_CONFIG_SET"}

(***************************************************************************)
(* Replies                                                                 *)
(***************************************************************************)
\* A reply of a fixed size is read into a struct of that size (0: of any size).
Checked(id, rep, size, Decode(_)) ==
    IF size # 0 /\ Len(rep) # size THEN [st |-> "RPC_TRANSPORT_ERROR", v |-> <<>>]
    ELSE LET st == retrieve_rep_hdr(rep, id) IN [st |-> st, v |-> IF st = "SUCCESS" THEN Decode(Rest(rep, 2)) ELSE <<>>]
wait_for_status(id, rep) == Checked(id, rep, 2, LAMBDA r : <<>>)
wait_for_handle(id, rep) == Checked(id, rep, 4, LAMBDA r : retrieve_uint64(r).v)
wait_for_indirect_handle(id, rep) == Checked(id, rep, 4, LAMBDA r : retrieve_uint64(r).v)
wait_for_session(id, rep) == Checked(id, rep, 3, LAMBDA r : r[1])
wait_for_counter_data(id, rep) == Checked(id, rep, 7, LAMBDA r : retrieve_counter_data(r).v)
wait_for_meter_spec(id, rep) == Checked(id, rep, 10, LAMBDA r : retrieve_meter_spec(r).v)

\* pi_table_entries_next of the core over the buffer of a fetch.
FetchedEntries(rep) ==
    LET One(acc, i) ==
            LET so == acc
                at == Rest(rep, so.s)
                e == retrieve_table_entry(Rest(at, 3 + rep[2]))
            IN Got(so.v \cup {[h |-> retrieve_uint64(at).v, k |-> [priority |-> at[3], data |-> SubSeq(at, 4, 3 + rep[2])], e |-> e.v]},
                   so.s + 5 + rep[2] + e.s)
    IN FoldLeft(One, Got({}, 3), [i \in 1..rep[1] |-> i]).v
FetchedProfile(rep) ==
    LET Member(acc, i) == LET so == acc
                              at == Rest(rep, so.s)
                              r == retrieve_action_data(Rest(at, 2))
                          IN Got(so.v \cup {<<retrieve_uint64(at).v, r.v>>}, so.s + 2 + r.s)
        ms == FoldLeft(Member, Got({}, 3), [i \in 1..rep[1] |-> i])
        gs == 3 + rep[3] + 1
        hs == gs + rep[gs] + 1
        Handle(j) == retrieve_uint64(Rest(rep, hs + 2 * j)).v
        Group(i) == LET at == Rest(rep, gs + 4 * (i - 1))
                    IN <<retrieve_uint64(at).v, {Handle(j) : j \in at[4]..(at[4] + at[3] - 1)}>>
    IN [mbrs |-> ms.v, grps |-> {Group(i) : i \in 1..rep[2]}]

wait_for_reply(op, id, rep) ==
    CASE op = "TABLE_ENTRY_ADD" -> wait_for_handle(id, rep)
      [] op \in {"ACT_PROF_MBR_CREATE", "ACT_PROF_GRP_CREATE"} -> wait_for_indirect_handle(id, rep)
      [] op = "SESSION_INIT" -> wait_for_session(id, rep)
      [] op \in {"COUNTER_READ", "COUNTER_READ_DIRECT"} -> wait_for_counter_data(id, rep)
      [] op \in {"METER_READ", "METER_READ_DIRECT"} -> wait_for_meter_spec(id, rep)
      [] op = "INIT" -> Checked(id, rep, 0, LAMBDA r : <<>>)
      [] op = "TABLE_DEFAULT_ACTION_GET" -> Checked(id, rep, 0, LAMBDA r : retrieve_table_entry(r).v)
      [] op = "TABLE_ENTRIES_FETCH" -> Checked(id, rep, 0, FetchedEntries)
      [] op = "ACT_PROF_ENTRIES_FETCH" -> Checked(id, rep, 0, FetchedProfile)
      [] OTHER -> wait_for_status(id, rep)

\* The text of a device's P4Info is not skipped: from the second device on
\* the id and the version are bytes of the first one's P4Info.
process_state_sync(reg, rep) ==
    LET Sync(r, d, version, p4info) ==
            LET so == IF Server!pi_is_device_assigned(r, d) THEN r ELSE Server!pi_create_device_config(r, d)
            IN [so EXCEPT !.slots[so.map[d]] = [@ EXCEPT !.version = version, !.p4info = p4info]]
        First(x) == Sync(reg, x[1], x[2], x[3])
    IN IF rep[1] = 0 THEN reg
       ELSE LET one == First(Fields(<<"u64", "u32", "u32">>, Rest(rep, 1)))
            IN IF rep[1] = 1 THEN one ELSE Sync(one, W * W - 1, 1, "text")

(***************************************************************************)
(* What an executed request asks for, in the terms of the caller           *)
(***************************************************************************)
Blank(config) == [config |-> config, ent |-> [t \in DOMAIN MatchTypes |-> <<>>], dflt |-> [t \in DOMAIN MatchTypes |-> [type |-> "NONE"]],
                  mbr |-> <<>>, grp |-> <<>>, ctr |-> [bytes |-> 0, packets |-> 0], mtr |-> <<>>]
Act(e) == IF e.type = "DATA" THEN [type |-> "DATA", data |-> e.data] ELSE [type |-> "INDIRECT", h |-> e.h]
Rates(m) == <<m.cir, m.cburst, m.pir, m.pburst>>
Chosen(cs, type, old, Of1(_)) == LET xs == SelectSeq(cs, LAMBDA c : c.type = type) IN IF xs = <<>> THEN old ELSE Of1(Last(xs).config)
Totals(c) == [bytes |-> c.bytes, packets |-> c.packets]
Merged(c, old) == [bytes |-> IF c.valid >= 2 THEN c.bytes ELSE old.bytes, packets |-> IF c.valid % 2 = 1 THEN c.packets ELSE old.packets]
Entry(k, e, old) == [k |-> k, e |-> Act(e), ctr |-> Chosen(e.direct, "counter", old.ctr, Totals), mtr |-> Chosen(e.direct, "meter", old.mtr, Rates)]
New(f, g) == CHOOSE h \in DOMAIN g \ DOMAIN f : TRUE
Keyed(es, k) == CHOOSE h \in DOMAIN es : es[h].k = k
Top == (W * W) \div 2

Intent(c, op, a, old, new) ==
    LET h == IF op \in {"TABLE_ENTRY_DELETE_WKEY", "TABLE_ENTRY_MODIFY_WKEY"} THEN Keyed(c.ent[a.t], a.k) ELSE a.h
    IN CASE op = "UPDATE_DEVICE_START" -> Blank(a.p4info)
         [] op = "TABLE_ENTRY_ADD" ->
              [c EXCEPT !.ent[a.t] = Server!Put(@, New(old.ent[a.t], new.ent[a.t]), Entry(a.k, a.e, [ctr |-> [bytes |-> 0, packets |-> 0], mtr |-> <<>>]))]
         [] op \in {"TABLE_ENTRY_MODIFY", "TABLE_ENTRY_MODIFY_WKEY"} -> [c EXCEPT !.ent[a.t][h] = Entry(@.k, a.e, @)]
         [] op \in {"TABLE_ENTRY_DELETE", "TABLE_ENTRY_DELETE_WKEY"} -> [c EXCEPT !.ent[a.t] = Server!Drop(@, h)]
         [] op = "TABLE_DEFAULT_ACTION_SET" -> [c EXCEPT !.dflt[a.t] = Act(a.e)]
         [] op = "TABLE_DEFAULT_ACTION_RESET" -> [c EXCEPT !.dflt[a.t] = [type |-> "NONE"]]
         [] op = "ACT_PROF_MBR_CREATE" -> [c EXCEPT !.mbr = Server!Put(@, New(old.mbr, new.mbr), a.ad)]
         [] op = "ACT_PROF_MBR_DELETE" -> [c EXCEPT !.mbr = Server!Drop(@, a.h)]
         [] op = "ACT_PROF_MBR_MODIFY" -> [c EXCEPT !.mbr[a.h] = a.ad]
         [] op = "ACT_PROF_GRP_CREATE" -> [c EXCEPT !.grp = Server!Put(@, Top + New(old.grp, new.grp), {})]
         [] op = "ACT_PROF_GRP_DELETE" -> [c EXCEPT !.grp = Server!Drop(@, a.g)]
         [] op = "ACT_PROF_GRP_ADD_MBR" -> [c EXCEPT !.grp[a.g] = @ \cup {a.h}]
         [] op = "ACT_PROF_GRP_REMOVE_MBR" -> [c EXCEPT !.grp[a.g] = @ \ {a.h}]
         [] op = "COUNTER_WRITE" -> [c EXCEPT !.ctr = Merged(a.c, @)]
         [] op = "COUNTER_WRITE_DIRECT" -> [c EXCEPT !.ent["t"][a.h].ctr = Merged(a.c, @)]
         [] op = "METER_SET" -> [c EXCEPT !.mtr = Rates(a.m)]
         [] op = "METER_SET_DIRECT" -> [c EXCEPT !.ent["t"][a.h].mtr = Rates(a.m)]
         [] OTHER -> c

\* The value a call should return, from the contents before and after it.
Answer(c, c2, op, a) ==
    CASE op = "TABLE_ENTRY_ADD" -> New(c.ent[a.t], c2.ent[a.t])
      [] op = "ACT_PROF_MBR_CREATE" -> New(c.mbr, c2.mbr)
      [] op = "ACT_PROF_GRP_CREATE" -> New(c.grp, c2.grp)
      [] op = "TABLE_ENTRIES_FETCH" -> {[h |-> h, k |-> c.ent[a.t][h].k, e |-> c.ent[a.t][h].e] : h \in DOMAIN c.ent[a.t]}
      [] op = "TABLE_DEFAULT_ACTION_GET" -> c.dflt[a.t]
      [] op = "ACT_PROF_ENTRIES_FETCH" -> [mbrs |-> {<<h, c.mbr[h]>> : h \in DOMAIN c.mbr}, grps |-> {<<g, c.grp[g]>> : g \in DOMAIN c.grp}]
      [] op = "COUNTER_READ" -> c.ctr
      [] op = "COUNTER_READ_DIRECT" -> c.ent["t"][a.h].ctr
      [] op = "METER_READ" -> c.mtr
      [] op = "METER_READ_DIRECT" -> c.ent["t"][a.h].mtr
      [] op = "SESSION_INIT" -> 0
      [] OTHER -> <<>>

\* The contents of a switch in the same terms.
ViewAct(act) ==
    CASE act.type = "NONE" -> [type |-> "NONE"]
      [] act.type = "MBR" -> [type |-> "INDIRECT", h |-> act.h]
      [] act.type = "GRP" -> [type |-> "INDIRECT", h |-> Top + act.h]
      [] act.type = "DATA" ->
            LET Full(i) == [j \in 1..ParamBytes[act.name][i] |->
                               LET n == ParamBytes[act.name][i] - Len(act.params[i]) IN IF j > n THEN act.params[i][j - n] ELSE 0]
            IN [type |-> "DATA", data |-> [id |-> act.name, data |-> FlattenSeq([i \in DOMAIN act.params |-> Full(i)])]]
ViewRates(m) == IF m = <<>> THEN <<>> ELSE <<m[1].rate, m[1].burst, m[2].rate, m[2].burst>>
ViewEntry(x) == [k |-> [priority |-> IF x.prio = -1 THEN 0 ELSE W \div 2 - 1 - x.prio, data |-> FlattenSeq([i \in DOMAIN x.key |-> x.key[i].v])],
                 e |-> ViewAct(x.act), ctr |-> x.ctr, mtr |-> ViewRates(x.mtr)]
View(sw) == [config |-> sw.config, ent |-> [t \in DOMAIN MatchTypes |-> [h \in DOMAIN sw.ent[t] |-> ViewEntry(sw.ent[t][h])]],
             dflt |-> [t \in DOMAIN MatchTypes |-> ViewAct(sw.dflt[t])], mbr |-> [h \in DOMAIN sw.mbr |-> ViewAct(sw.mbr[h]).data],
             grp |-> [g \in {Top + x : x \in DOMAIN sw.grp} |-> sw.grp[g - Top]], ctr |-> sw.ctr, mtr |-> ViewRates(sw.mtr)]

(***************************************************************************)
(* The initial states                                                      *)
(***************************************************************************)
Run(s, f, op, a) == Server!pi_rpc_server_run(s, f, op, Request(op, a))
Has(a, name) == name \in DOMAIN a
NewAsk(cs, op, a, r, s) ==
    IF ~Has(a, "d") \/ r.st # "SUCCESS" THEN cs ELSE [cs EXCEPT ![a.d] = Intent(@, op, a, s.tg.bm[a.d], r.sv.tg.bm[a.d])]
\* A direct resource that is refused leaves the entry it belongs to: r0 is the
\* call with nothing refused.
Without(op, a, r, r0, f) ==
    IF op \in {"TABLE_ENTRY_ADD", "TABLE_ENTRY_MODIFY"} /\ f = 2 /\ r0.st = "SUCCESS" THEN [r |-> [r EXCEPT !.st = "SUCCESS"], a |-> [a EXCEPT !.e.direct = <<>>]]
    ELSE [r |-> r, a |-> a]
Fresh == [sv |-> [reg |-> Server!NoDevices, tg |-> Server!TargetInit(Devices, [d \in Devices |-> Server!FreshSwitch("", FALSE)])],
          ask |-> [d \in Devices |-> Blank("")]]
Booted(calls1) ==
    LET Next1(x, c, r) == [sv |-> r.sv, ask |-> NewAsk(x.ask, c.op, c.a, r, x.sv)]
        One(x, c) == Next1(x, c, Run(x.sv, 0, c.op, c.a))
    IN FoldLeft(One, Fresh, calls1)
Resting == [pc |-> "idle", n |-> 0, id |-> 0, op |-> "none", a |-> <<>>, st |-> "none", v |-> <<>>]
NoMsg == [nid |-> 0, t |-> NoThread, n |-> 0, op |-> "none", a |-> <<>>, words |-> <<>>]
Alive(p) == died[p] = ""

Init ==
    /\ setup \in Setups
    /\ \E b \in {Booted(setup.boot)} :
          /\ sv = b.sv
          /\ ask = b.ask
          /\ cl = [c \in setup.clients |-> [init |-> setup.ready, open |-> TRUE, next |-> 0, lock |-> NoThread,
                                            reg |-> IF setup.ready THEN b.sv.reg ELSE Server!NoDevices]]
    /\ th = [t \in DOMAIN setup.threads |-> Resting]
    /\ sock = [c \in setup.clients |-> [state |-> "idle", nid |-> 0, req |-> NoMsg, rep |-> <<>>]]
    /\ q = [c \in setup.clients |-> <<>>]
    /\ died = [p \in setup.clients \cup {"server"} |-> ""]
    /\ runs = [t \in DOMAIN setup.threads |-> 0]
    /\ resent = [t \in DOMAIN setup.threads |-> 0]
    /\ clash = [t \in DOMAIN setup.threads |-> FALSE]
    /\ robbed = [t \in DOMAIN setup.threads |-> FALSE]
    /\ want = [t \in DOMAIN setup.threads |-> {}]
    /\ stale = [c \in setup.clients |-> {}]
    /\ hist = [lost |-> {}, destroyed |-> FALSE, restarted |-> FALSE, last |-> NoMsg, f |-> 0]
    /\ air = [c \in setup.clients |-> <<>>]
    /\ sent = <<>>
    /\ got = [c \in setup.clients |-> <<>>]
    /\ calls = 0
    /\ faults = 0

(***************************************************************************)
(* A call                                                                  *)
(***************************************************************************)
InFlight(t) == th[t].pc # "idle"
Known(c, d) == Server!pi_is_device_assigned(cl[c].reg, d)
\* The calls for which the core first looks up the device's P4Info.
NeedsP4Info == {"TABLE_ENTRY_ADD", "TABLE_ENTRY_MODIFY", "TABLE_DEFAULT_ACTION_SET", "TABLE_DEFAULT_ACTION_RESET", "COUNTER_READ", "COUNTER_WRITE",
                "COUNTER_READ_DIRECT", "COUNTER_WRITE_DIRECT", "METER_READ", "METER_SET", "METER_READ_DIRECT", "METER_SET_DIRECT"}
HasP4Info(c, d) == Known(c, d) /\ Server!pi_get_device_info(cl[c].reg, d).p4info # ""
Return(t, st, v) == [th EXCEPT ![t] = [@ EXCEPT !.pc = "idle", !.id = 0, !.a = <<>>, !.st = st, !.v = v]]
\* pi_assign_device and pi_remove_device hold the mutex while they wait.
Holds(op) == op \in {"ASSIGN_DEVICE", "REMOVE_DEVICE"}
EarlyStatus(c, op, a) ==
    CASE op \in Local -> LocalStatus(op)
      [] op = "ASSIGN_DEVICE" /\ Known(c, a.d) -> "DEV_ALREADY_ASSIGNED"
      [] op = "REMOVE_DEVICE" /\ ~Known(c, a.d) -> "DEV_NOT_ASSIGNED"
      [] op \in NeedsP4Info /\ ~HasP4Info(c, a.d) -> "DEV_NOT_ASSIGNED"
      [] OTHER -> ""

Begin(t) ==
    LET c == Of(t)
        same == {u \in Siblings(t) : InFlight(u) /\ th[u].id = cl[c].next}
    IN /\ ~InFlight(t) /\ Alive(c) /\ cl[c].open /\ calls < setup.max
       /\ calls' = calls + 1
       /\ \E x \in setup.calls :
             /\ (x.op = "INIT") # cl[c].init
             /\ Holds(x.op) => cl[c].lock = NoThread
             /\ runs' = [runs EXCEPT ![t] = 0]
             /\ resent' = [resent EXCEPT ![t] = 0]
             /\ robbed' = [robbed EXCEPT ![t] = FALSE]
             /\ want' = [want EXCEPT ![t] = {}]
             /\ LET early == EarlyStatus(c, x.op, x.a)
                    now == [pc |-> IF early = "" THEN "send" ELSE "idle", n |-> calls + 1, id |-> IF early = "" THEN cl[c].next ELSE 0,
                            op |-> x.op, a |-> IF early = "" THEN x.a ELSE <<>>, st |-> early, v |-> <<>>]
                IN /\ th' = [th EXCEPT ![t] = now]
                   /\ cl' = IF early # "" THEN cl
                            ELSE [cl EXCEPT ![c] = [@ EXCEPT !.init = TRUE, !.open = x.op # "DESTROY", !.lock = IF Holds(x.op) THEN t ELSE @]]
                   /\ clash' = [u \in Threads |-> IF early = "" /\ (u \in same \/ (u = t /\ same # {})) THEN TRUE
                                                  ELSE IF u = t THEN FALSE ELSE clash[u]]
       /\ UNCHANGED <<setup, sock, q, sv, died, ask, stale, hist, air, sent, got, faults>>

\* state.req_id++ of two threads may both read before either writes.  Sending
\* on a REQ socket gives up the request that was waiting for its reply.
Send(t) ==
    LET c == Of(t)
        m == [nid |-> sock[c].nid + 1, t |-> t, n |-> th[t].n, op |-> th[t].op, a |-> th[t].a,
              words |-> emit_req_hdr(th[t].id, th[t].op) \o Request(th[t].op, th[t].a)]
    IN /\ th[t].pc = "send" /\ Alive(c)
       /\ cl' = [cl EXCEPT ![c].next = th[t].id + 1]
       /\ th' = [th EXCEPT ![t].pc = "sent"]
       /\ sock' = [sock EXCEPT ![c] = [state |-> "out", nid |-> @.nid + 1, req |-> m, rep |-> <<>>]]
       /\ q' = [q EXCEPT ![c] = Append(@, m)]
       /\ robbed' = [u \in Threads |-> robbed[u] \/ (u \in Siblings(t) /\ th[u].pc \in {"sent", "wait"})]
       /\ UNCHANGED <<setup, sv, died, work, resent, clash, hist, air, sent, got, calls, faults>>

pi_device_unlock_never(lock, t) == lock
pi_device_unlock(lock, t) == IF lock = t THEN NoThread ELSE lock
\* What the core does with the status: the registry, and the mutex.
Finish(t, st, v, rep) ==
    LET c == Of(t)
        x == th[t]
        reg == cl[c].reg
        why == CASE x.op = "UPDATE_DEVICE_START" /\ st = "SUCCESS" /\ ~Known(c, x.a.d) -> "unknown device"
                 [] x.op = "REMOVE_DEVICE" /\ Server!ForgetAsserts(reg, x.a.d) -> "device array"
                 [] OTHER -> ""
    IN /\ x.op \in {"INIT", "UPDATE_DEVICE_START"} => cl[c].lock = NoThread
       /\ th' = Return(t, st, v)
       /\ died' = [died EXCEPT ![c] = why]
       /\ cl' = [cl EXCEPT ![c].lock = pi_device_unlock(@, t),
                           ![c].open = @ /\ (x.op = "INIT" => st = "SUCCESS"),
                           ![c].reg = CASE why # "" -> reg
                                        [] x.op = "REMOVE_DEVICE" -> Server!pi_forget_device(reg, x.a.d)
                                        [] st # "SUCCESS" -> reg
                                        [] x.op = "ASSIGN_DEVICE" ->
                                             Server!pi_update_device_config(Server!pi_create_device_config(reg, x.a.d), x.a.d, x.a.p4info)
                                        [] x.op = "UPDATE_DEVICE_START" -> Server!pi_update_device_config(reg, x.a.d, x.a.p4info)
                                        [] x.op = "INIT" -> process_state_sync(reg, rep)
                                        [] OTHER -> reg]
       /\ stale' = [stale EXCEPT ![c] = IF x.op = "INIT" THEN (IF st = "SUCCESS" /\ rep[1] <= 1 THEN @ ELSE Devices)
                                        ELSE IF (st = "RPC_TRANSPORT_ERROR" \/ clash[t]) /\ Has(x.a, "d") THEN @ \cup {x.a.d} ELSE @]

SendFails(t) ==
    /\ th[t].pc = "send" /\ Alive(Of(t)) /\ faults < setup.faults
    /\ faults' = faults + 1
    /\ Finish(t, "RPC_TRANSPORT_ERROR", <<>>, <<>>)
    /\ UNCHANGED <<setup, sock, q, sv, ask, runs, want, resent, clash, robbed, hist, air, sent, got, calls>>

\* nn_recv: refused at once on a socket with no request; otherwise it waits.
Wait(t) ==
    /\ th[t].pc = "sent" /\ Alive(Of(t)) /\ sock[Of(t)].state # "done"
    /\ IF sock[Of(t)].state = "idle" THEN Finish(t, "RPC_TRANSPORT_ERROR", <<>>, <<>>)
       ELSE th' = [th EXCEPT ![t].pc = "wait"] /\ UNCHANGED <<cl, died, stale>>
    /\ UNCHANGED <<setup, sock, q, sv, ask, runs, want, resent, clash, robbed, hist, air, sent, got, calls, faults>>

\* Whichever thread of the client gets there takes the reply.
Receive(t) ==
    LET c == Of(t)
        rep == sock[c].rep
        r == wait_for_reply(th[t].op, th[t].id, rep)
    IN /\ th[t].pc \in {"sent", "wait"} /\ Alive(c) /\ sock[c].state = "done"
       /\ sock' = [sock EXCEPT ![c] = [@ EXCEPT !.state = "idle", !.rep = <<>>]]
       /\ robbed' = [u \in Threads |-> robbed[u] \/ (u # t /\ u = sock[c].req.t /\ InFlight(u))]
       /\ Finish(t, r.st, r.v, Rest(rep, 2))
       /\ UNCHANGED <<setup, q, sv, ask, runs, want, resent, clash, hist, air, sent, got, calls, faults>>

(***************************************************************************)
(* The server, and nanomsg between the two                                 *)
(***************************************************************************)
Entry1(reg, d) == IF Server!pi_is_device_assigned(reg, d) THEN {Server!pi_get_device_info(reg, d)} ELSE {}
Changed(reg, reg2) == {d \in Devices : Entry1(reg, d) # Entry1(reg2, d)}
\* The loop of pi_rpc_server_run: one request, whole, and its reply, which
\* reaches the client when it still waits for this request.
Serve(c) ==
    LET m == Head(q[c])
    IN /\ q[c] # <<>> /\ Alive("server")
       /\ \E outcome \in {[f \in 0..3 |-> Server!pi_rpc_server_run(sv, f, m.words[2], Rest(m.words, 2))]}, f \in 0..3, lost \in BOOLEAN :
             LET r == outcome[f]
                 r0 == outcome[0]
                 cost == (IF f = 0 THEN 0 ELSE 1) + (IF lost THEN 1 ELSE 0)
                 current == th[m.t].n = m.n /\ InFlight(m.t)
                 part == Without(m.op, m.a, r, r0, f)
                 ask2 == NewAsk(ask, m.op, part.a, part.r, sv)
             IN /\ faults + cost <= setup.faults
                /\ f # 0 => <<r.st, r.ab>> # <<r0.st, r0.ab>>
                /\ r.ab # "" => ~lost
                /\ faults' = faults + cost
                /\ q' = [q EXCEPT ![c] = Tail(@)]
                /\ died' = [died EXCEPT !["server"] = r.ab]
                /\ sv' = IF r.ab = "" THEN r.sv ELSE sv
                /\ ask' = ask2
                /\ runs' = IF current THEN [runs EXCEPT ![m.t] = @ + 1] ELSE runs
                /\ want' = IF current /\ r.st = "SUCCESS"
                           THEN [want EXCEPT ![m.t] = @ \cup {IF Has(m.a, "d") THEN Answer(ask[m.a.d], ask2[m.a.d], m.op, m.a) ELSE Answer(<<>>, <<>>, m.op, m.a)}]
                           ELSE want
                /\ sock' = IF r.ab = "" /\ ~lost /\ sock[c].state = "out" /\ sock[c].nid = m.nid
                           THEN [sock EXCEPT ![c] = [@ EXCEPT !.state = "done", !.rep = emit_rep_hdr(m.words[1], r.st) \o r.rep]]
                           ELSE sock
                /\ stale' = [x \in setup.clients |-> IF x = c /\ m.op = "INIT" /\ sock'[c] # sock[c] THEN {}
                                                      ELSE IF x = c /\ current THEN stale[x] ELSE stale[x] \cup Changed(sv.reg, sv'.reg)]
                /\ hist' = [hist EXCEPT !.last = IF r.ab = "" THEN @ ELSE m, !.f = IF r.ab = "" THEN @ ELSE f,
                                        !.lost = IF r.st = "TARGET_TRANSPORT_ERROR" THEN @ \cup {m.a.d} ELSE @,
                                        !.destroyed = @ \/ m.op = "DESTROY"]
       /\ UNCHANGED <<setup, cl, th, resent, clash, robbed, air, sent, got, calls>>

\* nanomsg sends a request again when its reply does not come in time.
Resend(c) ==
    /\ sock[c].state = "out" /\ Alive("server")
    /\ q[c] = <<>> \/ faults < setup.faults
    /\ faults' = IF q[c] = <<>> THEN faults ELSE faults + 1
    /\ q' = [q EXCEPT ![c] = Append(@, sock[c].req)]
    /\ resent' = [resent EXCEPT ![sock[c].req.t] = @ + 1]
    /\ stale' = IF Has(sock[c].req.a, "d") THEN [stale EXCEPT ![c] = @ \cup {sock[c].req.a.d}] ELSE stale
    /\ UNCHANGED <<setup, cl, th, sock, sv, died, ask, runs, want, clash, robbed, hist, air, sent, got, calls>>

\* The server starts again with an empty registry; the switches have kept
\* their contents.
Restart ==
    /\ ~Alive("server") /\ faults < setup.faults
    /\ faults' = faults + 1
    /\ died' = [died EXCEPT !["server"] = ""]
    /\ sv' = [reg |-> Server!NoDevices, tg |-> Server!TargetInit(Devices, sv.tg.bm)]
    /\ q' = [c \in setup.clients |-> <<>>]
    /\ hist' = [hist EXCEPT !.restarted = TRUE, !.lost = {}, !.destroyed = FALSE]
    /\ UNCHANGED <<setup, cl, th, sock, work, resent, clash, robbed, air, sent, got, calls>>

(***************************************************************************)
(* Packet-ins: CpuSendRecv's thread, pi_notifications_pub.c, the receive   *)
(* loop of the client                                                      *)
(***************************************************************************)
Publish(d) ==
    LET pkt == <<Len(sent) + 1>>
    IN /\ Alive("server") /\ Len(sent) < setup.packets /\ Server!CanReceive(sv.tg, d)
       /\ sent' = Append(sent, [kind |-> "packet", dev |-> d, msg |-> 0, data |-> pkt])
       /\ \E to \in SUBSET {c \in setup.clients : cl[c].init /\ Alive(c)} :
             air' = [c \in setup.clients |-> IF c \in to THEN Append(air[c], emit_packetin(d, pkt)) ELSE air[c]]
       /\ UNCHANGED <<setup, cl, th, sock, q, sv, died, work, resent, clash, robbed, hist, got, calls, faults>>
receive_loop(msg) ==
    CASE HasTopic(msg, "PILEA|") -> handle_LEA(msg)
      [] HasTopic(msg, "PIPKT|") -> handle_PKT(msg)
      [] OTHER -> [kind |-> "ignored", dev |-> retrieve_uint64(Rest(msg, 1)).v, msg |-> 0, data |-> <<>>]
Deliver(c) ==
    /\ air[c] # <<>> /\ Alive(c)
    /\ air' = [air EXCEPT ![c] = Tail(@)]
    /\ got' = [got EXCEPT ![c] = Append(@, receive_loop(Head(air[c])))]
    /\ UNCHANGED <<setup, cl, th, sock, q, sv, died, work, resent, clash, robbed, hist, sent, calls, faults>>

Next == \/ \E t \in Threads : Begin(t) \/ Send(t) \/ SendFails(t) \/ Wait(t) \/ Receive(t)
        \/ \E c \in setup.clients : Serve(c) \/ Resend(c) \/ Deliver(c)
        \/ \E d \in Devices : Publish(d)
        \/ Restart
AllThreads == UNION {DOMAIN s.threads : s \in Setups}
AllClients == UNION {s.clients : s \in Setups}
\* Weak fairness of Send, Wait and Receive of a thread, and of Serve and
\* Resend of a client, with their guards written out.
Moves(t) == t \in Threads /\ th[t].pc # th'[t].pc
Blocked(t) == \/ th[t].pc = "wait" /\ sock[Of(t)].state # "done"
              \/ th[t].pc # "send" /\ th[t].op \in {"INIT", "UPDATE_DEVICE_START"} /\ cl[Of(t)].lock # NoThread
MustMove(t) == t \in Threads /\ InFlight(t) /\ Alive(Of(t)) /\ ~Blocked(t)
Fairness ==
    /\ \A t \in AllThreads : []<>~MustMove(t) \/ []<><<Moves(t)>>_vars
    /\ \A c \in AllClients :
          /\ []<>~(c \in setup.clients /\ q[c] # <<>> /\ Alive("server")) \/ []<><<c \in setup.clients /\ Len(q'[c]) < Len(q[c])>>_vars
          /\ []<>~(c \in setup.clients /\ q[c] = <<>> /\ sock[c].state = "out" /\ Alive("server")) \/ []<><<c \in setup.clients /\ Len(q'[c]) > Len(q[c])>>_vars
Spec == Init /\ [][Next]_vars /\ Fairness

(***************************************************************************)
(* Properties                                                              *)
(***************************************************************************)
\* A fetch gives group 0 for an entry that points to any group.
NoGroup(e) == IF e.type = "INDIRECT" THEN [e EXCEPT !.h = IF @ >= Top THEN Top ELSE @] ELSE e
Close(r, s) == r = s \/ (s \in Inexact /\ r = s - 1)
Matches(op, v, w) ==
    CASE op = "TABLE_ENTRIES_FETCH" ->
            LET Plain(xs) == {[h |-> x.h, k |-> x.k, e |-> NoGroup(x.e)] : x \in xs}
            IN Plain(v) = Plain(w)
      [] op \in {"COUNTER_READ", "COUNTER_READ_DIRECT"} -> v.bytes = w.bytes /\ v.packets = w.packets
      [] op \in {"METER_READ", "METER_READ_DIRECT"} -> Close(v.cir, w[1]) /\ v.cburst = w[2] /\ Close(v.pir, w[3]) /\ v.pburst = w[4]
      [] OTHER -> v = w
\* A call that returns SUCCESS was executed by the server, once for each time
\* its request was sent, and returns what that execution produced - across
\* both encodings, the conversions of bmv2, lost and repeated messages, and
\* other calls in between - unless another thread of the client was given the
\* same request id (state.req_id++ is not atomic).
AnswersOwn ==
    \A t \in Threads :
        LET own == runs[t] \in 1..(1 + resent[t]) /\ \E w \in want[t] : Matches(th[t].op, th[t].v, w)
        IN th[t].pc = "idle" /\ th[t].st = "SUCCESS" /\ th[t].op \notin Local => own \/ clash[t]


Quiet(c) == /\ Alive(c) /\ cl[c].open /\ cl[c].init /\ q[c] = <<>>
            /\ \A t \in Threads : Of(t) = c => ~InFlight(t)
\* The server's registry and its target agree on which devices are assigned,
\* and an assigned device has its connection; and a client with no call under
\* way agrees with the server on which devices are assigned, for every device
\* that nobody else changed and whose calls were all answered.  The entries
\* agree too - the target's P4Info is that of the device's own entry, and the
\* client's entry is the server's, version and P4Info included - as long as the
\* process never removed a device while it had another: after that removal
\* vector_remove has moved the other entries away from the slots device_map
\* knows, and nothing is said of what they hold.
RegistriesAgree ==
    Alive("server") =>
        /\ \A d \in Devices : LET g == sv.tg.dev[d]
                              IN IF Entry1(sv.reg, d) = {} THEN ~g.assigned
                                 ELSE /\ g.assigned /\ sv.tg.conn[d] = "open"
                                      /\ sv.reg.shifted \/ \E e \in Entry1(sv.reg, d) : e.dev = d /\ e.p4info = g.p4info
        /\ ~hist.restarted => \A c \in setup.clients : Quiet(c) => \A d \in Devices \ stale[c] :
               /\ Known(c, d) <=> Server!pi_is_device_assigned(sv.reg, d)
               /\ sv.reg.shifted \/ cl[c].reg.shifted \/ Entry1(cl[c].reg, d) = Entry1(sv.reg, d)

\* A client sees packets the server published, whole, in order and from the
\* right device.  Those it ignores are of devices whose id does not end in a
\* zero byte, because the topic is compared with one byte too many.
NotesFaithful ==
    \A c \in setup.clients :
        LET seen == SelectSeq(got[c], LAMBDA x : x.kind # "ignored")
        IN /\ \A i \in DOMAIN seen : \E j \in DOMAIN sent : seen[i] = sent[j]
           /\ \A i, j \in DOMAIN seen : i < j => seen[i].data[1] < seen[j].data[1]
           /\ \A i \in DOMAIN got[c] : got[c][i].kind = "ignored" => got[c][i].dev % B # 0

\* What reaches a client, reply or notification, is what the server sent it.
MessagesFaithful == AnswersOwn /\ NotesFaithful

NotFirst(reg) == \E d \in DOMAIN reg.map : reg.map[d] > 1
\* The server ends only for these reasons: a switch's connection is lost; a
\* request names a device that is not assigned; a device is assigned again
\* after its connection failed; a client has called pi_destroy; a device was
\* assigned with no P4Info; the default entry could not be read; a device that
\* is not the first of the registry's array is removed (the assertion of
\* vector_remove); an entry is written with no action; a direct meter of an
\* entry has the default unit, which the core resolves for pi_meter_set only.
\* A client ends only when its update of a device it does not know succeeds,
\* or when it removes a device that is not the first of its own array.
AbortsExplained ==
    /\ \A c \in setup.clients : CASE died[c] = "" -> TRUE
                                   [] died[c] = "unknown device" -> \E t \in Threads : Of(t) = c /\ th[t].op = "UPDATE_DEVICE_START" /\ th[t].st = "SUCCESS"
                                   [] died[c] = "device array" -> NotFirst(cl[c].reg) /\ \E t \in Threads : Of(t) = c /\ th[t].op = "REMOVE_DEVICE"
                                   [] OTHER -> FALSE
    /\ LET why == died["server"]
           m == hist.last
           known == Has(m.a, "d") /\ Server!pi_is_device_assigned(sv.reg, m.a.d)
       IN CASE why = "" -> TRUE
            [] why = "Thrift" -> hist.f = 3 /\ known
            [] why \in {"unassigned", "no connection"} -> ~known
            [] why = "connected before" -> m.op = "ASSIGN_DEVICE" /\ m.a.d \in hist.lost
            [] why = "destroyed" -> hist.destroyed
            [] why = "no p4info" -> \/ \E d \in Devices : sv.tg.dev[d].assigned /\ sv.tg.dev[d].p4info = ""
                                    \/ sv.reg.shifted
            [] why = "device array" -> m.op = "REMOVE_DEVICE" /\ known /\ sv.reg.map[m.a.d] > 1
            [] why = "entry type" -> known /\ Has(m.a, "e") /\ m.a.e.type = "NONE"
            [] why = "meter unit" -> known /\ Has(m.a, "e") /\ \E i \in DOMAIN m.a.e.direct : m.a.e.direct[i].type = "meter" /\ m.a.e.direct[i].config.unit = "DEFAULT"
            [] why = "default entry" -> m.op = "TABLE_DEFAULT_ACTION_GET" /\ hist.f = 1
            [] OTHER -> FALSE

\* A call under way returns while the server runs, whatever is lost, refused
\* or sent twice - unless another thread of the client sent a request while
\* this one waited or took its reply, or holds the mutex it needs in that state.
CallsReturn ==
    \A t \in AllThreads :
        LET undisturbed == t \in Threads /\ Alive("server") /\ Alive(Of(t)) /\ \A u \in Threads : Of(u) = Of(t) => ~robbed[u]
        IN (t \in Threads /\ InFlight(t)) ~> (~undisturbed \/ ~InFlight(t))
=============================================================================

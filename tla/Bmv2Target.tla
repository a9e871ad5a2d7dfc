----------------------------- MODULE Bmv2Target -----------------------------
(***************************************************************************)
(* The bmv2 target (targets/bmv2), as operators on its state tg:           *)
(*   dev   device_info_state (assigned, p4info; "" is NULL)                *)
(*   conn  conn_mgr_state: per device "none", "empty" (constructed, never  *)
(*         connected) or "open"                                            *)
(*   cpu   the devices of CpuSendRecv, in order                            *)
(*   bm    per device, the switch behind the Thrift connection (external)  *)
(*   alive FALSE once _pi_destroy has freed conn_mgr and CpuSendRecv       *)
(* An operation gives the new state, the status, the result and, when the  *)
(* process ends in it, why.  f is what goes wrong on the way: 1 or 2, the  *)
(* first or the second Thrift call is refused; 3, the connection is lost,  *)
(* an exception nobody catches.                                            *)
(***************************************************************************)
EXTENDS RpcWire, FiniteSets, FiniteSetsExt, Functions

CONSTANTS MatchTypes,   \* per table, the match types of its fields
          Impl,         \* per table, its action profile, or "none"
          ConstDefault, \* per table, its constant default action, or "none"
          ParamBytes,   \* per action, the size of each parameter
          Ports,        \* the Thrift ports a switch listens on
          Refused,      \* the texts that are no port number and no interface
          Inexact       \* the rates r with (r / 1e6) * 1e6 < r in double precision

Tables == DOMAIN MatchTypes
Ok(tg, v) == [tg |-> tg, st |-> "SUCCESS", v |-> v, ab |-> ""]
Err(tg, st) == [tg |-> tg, st |-> st, v |-> <<>>, ab |-> ""]
Die(tg, why) == [tg |-> tg, st |-> "none", v |-> <<>>, ab |-> why]

(***************************************************************************)
(* The switch, by the calls the target makes on it                         *)
(***************************************************************************)
NoAction == [type |-> "NONE"]
Idle == [bytes |-> 0, packets |-> 0]
FreshSwitch(config, swapping) ==
    [config |-> config, swapping |-> swapping, ent |-> [t \in Tables |-> <<>>], dflt |-> [t \in Tables |-> NoAction],
     mbr |-> <<>>, grp |-> <<>>, ctr |-> Idle, mtr |-> <<>>, nh |-> [t |-> 0, m |-> 0, g |-> 0]]
No(sw) == [ok |-> FALSE, sw |-> sw, v |-> <<>>]
Yes(sw, v) == [ok |-> TRUE, sw |-> sw, v |-> v]
Put(f, k, v) == [x \in DOMAIN f \cup {k} |-> IF x = k THEN v ELSE f[x]]
Drop(f, k) == [x \in DOMAIN f \ {k} |-> f[x]]
\* Leading zero bytes of a parameter are not kept.
StripZeros(p) == LET nz == {i \in DOMAIN p : p[i] # 0} IN IF nz = {} THEN <<>> ELSE SubSeq(p, Min(nz), Len(p))
ActionFits(sw, t, act) ==
    CASE act.type = "DATA" -> Impl[t] = "none"
      [] act.type = "MBR" -> Impl[t] # "none" /\ act.h \in DOMAIN sw.mbr
      [] act.type = "GRP" -> Impl[t] # "none" /\ act.h \in DOMAIN sw.grp
bm_mt_add_entry(sw, t, key, prio, act) ==
    IF (\E h \in DOMAIN sw.ent[t] : sw.ent[t][h].key = key /\ sw.ent[t][h].prio = prio) \/ ~ActionFits(sw, t, act) THEN No(sw)
    ELSE Yes([sw EXCEPT !.ent[t] = Put(@, sw.nh.t, [key |-> key, prio |-> prio, act |-> act, ctr |-> Idle, mtr |-> <<>>]),
                        !.nh.t = @ + 1], sw.nh.t)
bm_mt_modify_entry(sw, t, h, act) ==
    IF h \notin DOMAIN sw.ent[t] \/ ~ActionFits(sw, t, act) THEN No(sw) ELSE Yes([sw EXCEPT !.ent[t][h].act = act], <<>>)
bm_mt_delete_entry(sw, t, h) ==
    IF h \notin DOMAIN sw.ent[t] THEN No(sw) ELSE Yes([sw EXCEPT !.ent[t] = Drop(@, h)], <<>>)
bm_mt_get_entry_from_key(sw, t, key, prio) ==
    LET hs == {h \in DOMAIN sw.ent[t] : sw.ent[t][h].key = key /\ sw.ent[t][h].prio = prio}
    IN IF hs = {} THEN No(sw) ELSE Yes(sw, CHOOSE h \in hs : TRUE)
bm_mt_set_default(sw, t, act) == IF ~ActionFits(sw, t, act) THEN No(sw) ELSE Yes([sw EXCEPT !.dflt[t] = act], <<>>)
bm_mt_write_direct(sw, t, h, field, v) ==
    IF h \notin DOMAIN sw.ent[t] THEN No(sw)
    ELSE Yes([sw EXCEPT !.ent[t][h] = IF field = "ctr" THEN [@ EXCEPT !.ctr = v] ELSE [@ EXCEPT !.mtr = v]], <<>>)
InUse(sw, act) == \/ \E t \in Tables : sw.dflt[t] = act \/ \E h \in DOMAIN sw.ent[t] : sw.ent[t][h].act = act
                  \/ act.type = "MBR" /\ \E g \in DOMAIN sw.grp : act.h \in sw.grp[g]

(***************************************************************************)
(* common.h, action_helpers.cpp, direct_res_spec.cpp                       *)
(***************************************************************************)
grp_prefix == (W * W) \div 2
make_grp_h(h) == h + grp_prefix
clear_grp_h(h) == h % grp_prefix
is_grp_h(h) == h >= grp_prefix
BM_MAX_PRIORITY == W \div 2 - 1
pi_to_bm(p) == BM_MAX_PRIORITY - p
bm_to_pi(p) == BM_MAX_PRIORITY - p

Pieces(data, sizes) ==
    LET Off(i) == SumFunction([j \in 1..(i - 1) |-> sizes[j]])
    IN [i \in DOMAIN sizes |-> SubSeq(data, Off(i) + 1, Off(i) + sizes[i])]
build_action_data(ad) == Pieces(ad.data, ParamBytes[ad.id])
dump_action_data(id, params) ==
    FlattenSeq([i \in DOMAIN params |-> [j \in 1..(ParamBytes[id][i] - Len(params[i])) |-> 0] \o params[i]])
DataAction(ad) == [type |-> "DATA", name |-> ad.id, params |-> [i \in DOMAIN ParamBytes[ad.id] |-> StripZeros(build_action_data(ad)[i])]]
IndirectAction(h) == IF is_grp_h(h) THEN [type |-> "GRP", h |-> clear_grp_h(h)] ELSE [type |-> "MBR", h |-> h]
EntryAction(e) == IF e.type = "DATA" THEN DataAction(e.data) ELSE IndirectAction(e.h)

HasPackets(valid) == valid % 2 = 1
HasBytes(valid) == valid >= 2
convert_from_counter_data(c) ==
    [bytes |-> IF HasBytes(c.valid) THEN c.bytes ELSE 0, packets |-> IF HasPackets(c.valid) THEN c.packets ELSE 0]
convert_to_counter_data(v) == [valid |-> 3, bytes |-> v.bytes, packets |-> v.packets]
merge_current_value(c, v) == [valid |-> 3, bytes |-> IF HasBytes(c.valid) THEN c.bytes ELSE v.bytes,
                              packets |-> IF HasPackets(c.valid) THEN c.packets ELSE v.packets]
are_both_values_set(c) == HasBytes(c.valid) /\ HasPackets(c.valid)
convert_from_meter_spec(m) == <<[rate |-> m.cir, burst |-> m.cburst], [rate |-> m.pir, burst |-> m.pburst]>>
\* units_per_micros * 1000000. is truncated to an integer.
Back(r) == IF r \in Inexact THEN r - 1 ELSE r
convert_to_meter_spec(rates) ==
    [cir |-> Back(rates[1].rate), cburst |-> rates[1].burst, pir |-> Back(rates[2].rate), pburst |-> rates[2].burst,
     unit |-> "BYTES", type |-> "UNAWARE"]

(***************************************************************************)
(* Devices (pi_imp.cpp, conn_mgr.cpp, cpu_send_recv.cpp)                   *)
(***************************************************************************)
TargetInit(devs, bm) == [dev |-> [d \in devs |-> [assigned |-> FALSE, p4info |-> ""]], conn |-> [d \in devs |-> "none"],
                         cpu |-> <<>>, bm |-> bm, alive |-> TRUE]
conn_mgr_client_init(tg, d, port) == [tg EXCEPT !.conn[d] = IF port \in Ports THEN "open" ELSE "empty"]
conn_mgr_client_close(tg, d) == [tg EXCEPT !.conn[d] = "none"]
add_device(tg, d) == [tg EXCEPT !.cpu = Append(@, d)]
remove_device(tg, d) ==
    LET is == {i \in DOMAIN tg.cpu : tg.cpu[i] = d} IN IF is = {} THEN tg ELSE [tg EXCEPT !.cpu = RemoveAt(@, Min(is))]
send_pkt(tg, d) == d \in ToSet(tg.cpu)
CanReceive(tg, d) == tg.alive /\ d \in ToSet(tg.cpu)

\* One of the <<key, value>> pairs, taken in order: the interface is opened as
\* it is met, the last port counts.
AssignExtra(tg, d, x) ==
    CASE x[1] = "cpu_iface" /\ ~tg.alive -> Die(tg, "destroyed")
      [] x[1] \in {"port", "cpu_iface"} /\ x[2] \in Refused -> Err(tg, "INVALID_INIT_EXTRA_PARAM")
      [] x[1] = "cpu_iface" -> Ok(add_device(tg, d), <<>>)
      [] OTHER -> Ok(tg, <<>>)
_pi_assign_device(tg, d, p4info, extra) ==
    LET One(r, x) == LET so == r IN IF so.st = "SUCCESS" THEN AssignExtra(so.tg, d, x) ELSE so
        read == FoldLeft(One, Ok(tg, <<>>), extra)
        ports == SelectSeq(extra, LAMBDA x : x[1] = "port")
        conn == conn_mgr_client_init(read.tg, d, Last(ports)[2])
    IN IF tg.dev[d].assigned THEN Die(tg, "assigned twice")
       ELSE IF read.st # "SUCCESS" THEN read
       ELSE IF ports = <<>> THEN Err(read.tg, "MISSING_INIT_EXTRA_PARAM")
       ELSE IF ~tg.alive THEN Die(tg, "destroyed")
       ELSE IF tg.conn[d] # "none" THEN Die(tg, "connected before")
       ELSE IF conn.conn[d] = "empty" THEN Err(conn, "TARGET_TRANSPORT_ERROR")
       ELSE Ok([conn EXCEPT !.dev[d] = [assigned |-> TRUE, p4info |-> p4info]], <<>>)

\* A client of conn_mgr; what it finds when the device has no connection.
NoClient(tg, d, f) ==
    CASE ~tg.alive -> "destroyed" [] tg.conn[d] # "open" -> "no connection" [] f = 3 -> "Thrift" [] OTHER -> ""
Thrift(tg, d, f, r) ==
    LET why == NoClient(tg, d, f)
        done == r
    IN IF why # "" THEN Die(tg, why) ELSE IF f = 1 \/ ~done.ok THEN Err(tg, "TARGET_ERROR")
       ELSE Ok([tg EXCEPT !.bm[d] = done.sw], done.v)

bm_load_new_config(sw, config) == IF sw.swapping THEN No(sw) ELSE Yes(FreshSwitch(config, TRUE), <<>>)
bm_swap_configs(sw) == IF ~sw.swapping THEN No(sw) ELSE Yes([sw EXCEPT !.swapping = FALSE], <<>>)
_pi_update_device_start(tg, f, d, p4info, data) ==
    LET r == Thrift(tg, d, f, bm_load_new_config(tg.bm[d], data))
    IN IF r.st = "SUCCESS" THEN Ok([r.tg EXCEPT !.dev[d].p4info = p4info], <<>>) ELSE r
_pi_update_device_end(tg, f, d) == Thrift(tg, d, f, bm_swap_configs(tg.bm[d]))
_pi_remove_device(tg, d) ==
    IF ~tg.dev[d].assigned THEN Die(tg, "unassigned")
    ELSE IF ~tg.alive THEN Die(tg, "destroyed")
    ELSE Ok([remove_device(conn_mgr_client_close(tg, d), d) EXCEPT !.dev[d].assigned = FALSE], <<>>)
_pi_destroy(tg) == IF tg.alive THEN Ok([tg EXCEPT !.alive = FALSE], <<>>) ELSE Die(tg, "destroyed")
_pi_session_init(tg) == Ok(tg, 0)
_pi_session_cleanup(tg) == Ok(tg, <<>>)
_pi_batch_begin(tg) == Ok(tg, <<>>)
_pi_batch_end(tg) == Ok(tg, <<>>)
_pi_packetout_send(tg, d) ==
    IF ~tg.alive THEN Die(tg, "destroyed") ELSE IF send_pkt(tg, d) THEN Ok(tg, <<>>) ELSE Err(tg, "PACKETOUT_SEND_ERROR")
_pi_learn_msg_ack(tg) == Err(tg, "NOT_IMPLEMENTED_BY_TARGET")

\* Every operation on a table, a profile, a counter or a meter starts so.
Ready(tg, d, r) ==
    IF ~tg.dev[d].assigned THEN Die(tg, "unassigned") ELSE IF tg.dev[d].p4info = "" THEN Die(tg, "no p4info") ELSE r

(***************************************************************************)
(* Tables (pi_tables_imp.cpp)                                              *)
(***************************************************************************)
FieldWords(type) == CASE type \in {"EXACT", "VALID"} -> 1 [] type \in {"LPM", "TERNARY", "RANGE"} -> 2
NeedsPriority(t) == \E i \in DOMAIN MatchTypes[t] : MatchTypes[t][i] \in {"TERNARY", "RANGE"}
build_key(t, data) ==
    LET ps == Pieces(data, [i \in DOMAIN MatchTypes[t] |-> FieldWords(MatchTypes[t][i])])
    IN [i \in DOMAIN ps |-> [type |-> MatchTypes[t][i], v |-> IF MatchTypes[t][i] = "VALID" THEN <<IF ps[i][1] # 0 THEN 1 ELSE 0>> ELSE ps[i]]]
\* bmv2 reports -1 for a table whose fields take no priority.
Priority(t, k) == IF NeedsPriority(t) THEN pi_to_bm(k.priority) ELSE -1

\* The switch has made the entry when a resource is refused.
set_direct_resources(r, d, f, t, h, cs) ==
    LET One(acc, c) ==
            LET so == acc
                value == IF c.type = "counter" THEN convert_from_counter_data(c.config) ELSE convert_from_meter_spec(c.config)
                w == bm_mt_write_direct(so.tg.bm[d], t, h, IF c.type = "counter" THEN "ctr" ELSE "mtr", value)
            IN IF so.st # "SUCCESS" THEN so
               ELSE IF c.type = "meter" /\ c.config.unit = "DEFAULT" THEN Die(so.tg, "meter unit")
               ELSE IF f = 2 \/ ~w.ok THEN Err(so.tg, "TARGET_ERROR") ELSE [so EXCEPT !.tg.bm[d] = w.sw]
    IN FoldLeft(One, r, cs)

_pi_table_entry_add(tg, f, d, t, k, e) ==
    Ready(tg, d,
        IF k.priority > BM_MAX_PRIORITY THEN Err(tg, "UNSUPPORTED_ENTRY_PRIORITY")
        ELSE IF e.type = "NONE" THEN Die(tg, "entry type")
        ELSE LET r == Thrift(tg, d, f, bm_mt_add_entry(tg.bm[d], t, build_key(t, k.data), Priority(t, k), EntryAction(e)))
             IN set_direct_resources(r, d, f, t, r.v, e.direct))
_pi_table_default_action_set(tg, f, d, t, e) ==
    Ready(tg, d,
        IF e.type = "NONE" THEN Die(tg, "entry type")
        ELSE IF e.type = "DATA" /\ ConstDefault[t] \notin {"none", e.data.id} THEN Err(tg, "CONST_DEFAULT_ACTION")
        ELSE Thrift(tg, d, f, bm_mt_set_default(tg.bm[d], t, EntryAction(e))))
_pi_table_default_action_reset(tg, f, d, t) == Ready(tg, d, Thrift(tg, d, f, Yes([tg.bm[d] EXCEPT !.dflt[t] = NoAction], <<>>)))

retrieve_entry(act) == [type |-> "DATA", data |-> [id |-> act.name, data |-> dump_action_data(act.name, act.params)], direct |-> <<>>]
retrieve_indirect_entry(h, grp) == [type |-> "INDIRECT", h |-> IF grp THEN make_grp_h(h) ELSE h, direct |-> <<>>]
_pi_table_default_action_get(tg, f, d, t) ==
    LET act == tg.bm[d].dflt[t]
    IN Ready(tg, d, Thrift(tg, d, f, Yes(tg.bm[d],
           CASE act.type = "NONE" -> [type |-> "NONE", direct |-> <<>>]
             [] act.type = "DATA" -> retrieve_entry(act)
             [] OTHER -> retrieve_indirect_entry(act.h, act.type = "GRP"))))
_pi_table_entry_delete(tg, f, d, t, h) == Ready(tg, d, Thrift(tg, d, f, bm_mt_delete_entry(tg.bm[d], t, h)))
_pi_table_entry_modify(tg, f, d, t, h, e) ==
    Ready(tg, d,
        IF e.type = "NONE" THEN Die(tg, "entry type")
        ELSE set_direct_resources(Thrift(tg, d, f, bm_mt_modify_entry(tg.bm[d], t, h, EntryAction(e))), d, f, t, h, e.direct))
retrieve_entry_wkey(tg, f, d, t, k) ==
    Ready(tg, d, IF k.priority > BM_MAX_PRIORITY THEN Err(tg, "UNSUPPORTED_ENTRY_PRIORITY")
                 ELSE Thrift(tg, d, f, bm_mt_get_entry_from_key(tg.bm[d], t, build_key(t, k.data), Priority(t, k))))
\* The handle first, then the operation on it, which may be refused in turn.
_pi_table_entry_delete_wkey(tg, f, d, t, k) ==
    LET r == retrieve_entry_wkey(tg, f, d, t, k)
    IN IF r.st # "SUCCESS" THEN r ELSE _pi_table_entry_delete(tg, IF f = 2 THEN 1 ELSE 0, d, t, r.v)
_pi_table_entry_modify_wkey(tg, f, d, t, k, e) ==
    LET r == retrieve_entry_wkey(tg, f, d, t, k)
    IN IF r.st # "SUCCESS" THEN r ELSE _pi_table_entry_modify(tg, IF f = 2 THEN 1 ELSE 0, d, t, r.v, e)

\* mbr_handle is read where the entry holds a group: Thrift left it at 0.
FetchedHandle(act) == IF act.type = "GRP" THEN make_grp_h(0) ELSE act.h
emit_fetched(t, h, e) ==
    emit_entry_handle(h) \o emit_uint32(IF e.prio = -1 THEN 0 ELSE bm_to_pi(e.prio))
    \o FlattenSeq([i \in DOMAIN e.key |-> e.key[i].v])
    \o (IF e.act.type = "DATA" THEN emit_action_entry_type("DATA") \o emit_action_data(retrieve_entry(e.act).data)
        ELSE emit_action_entry_type("INDIRECT") \o emit_indirect_handle(FetchedHandle(e.act)))
    \o emit_uint32(0) \o emit_uint32(0)
_pi_table_entries_fetch(tg, f, d, t) ==
    LET es == tg.bm[d].ent[t]
        hs == SetToSortSeq(DOMAIN es, <)
    IN Ready(tg, d, Thrift(tg, d, f, Yes(tg.bm[d],
           [num |-> Len(hs), mkey |-> SumFunction([i \in DOMAIN MatchTypes[t] |-> FieldWords(MatchTypes[t][i])]),
            entries |-> FlattenSeq([i \in DOMAIN hs |-> emit_fetched(t, hs[i], es[hs[i]])])])))

(***************************************************************************)
(* Action profiles (pi_act_prof_imp.cpp)                                   *)
(***************************************************************************)
_pi_act_prof_mbr_create(tg, f, d, ad) ==
    LET sw == tg.bm[d]
    IN Ready(tg, d, Thrift(tg, d, f, Yes([sw EXCEPT !.mbr = Put(@, sw.nh.m, DataAction(ad)), !.nh.m = @ + 1], sw.nh.m)))
_pi_act_prof_mbr_delete(tg, f, d, h) ==
    LET sw == tg.bm[d]
    IN Ready(tg, d, Thrift(tg, d, f, IF h \notin DOMAIN sw.mbr \/ InUse(sw, [type |-> "MBR", h |-> h]) THEN No(sw)
                                     ELSE Yes([sw EXCEPT !.mbr = Drop(@, h)], <<>>)))
_pi_act_prof_mbr_modify(tg, f, d, h, ad) ==
    LET sw == tg.bm[d]
    IN Ready(tg, d, Thrift(tg, d, f, IF h \notin DOMAIN sw.mbr THEN No(sw) ELSE Yes([sw EXCEPT !.mbr[h] = DataAction(ad)], <<>>)))
_pi_act_prof_grp_create(tg, f, d) ==
    LET sw == tg.bm[d]
    IN Ready(tg, d, Thrift(tg, d, f, Yes([sw EXCEPT !.grp = Put(@, sw.nh.g, {}), !.nh.g = @ + 1], make_grp_h(sw.nh.g))))
_pi_act_prof_grp_delete(tg, f, d, gh) ==
    LET sw == tg.bm[d]
        g == clear_grp_h(gh)
    IN Ready(tg, d, Thrift(tg, d, f, IF g \notin DOMAIN sw.grp \/ InUse(sw, [type |-> "GRP", h |-> g]) THEN No(sw)
                                     ELSE Yes([sw EXCEPT !.grp = Drop(@, g)], <<>>)))
_pi_act_prof_grp_add_mbr(tg, f, d, gh, h) ==
    LET sw == tg.bm[d]
        g == clear_grp_h(gh)
    IN Ready(tg, d, Thrift(tg, d, f, IF g \notin DOMAIN sw.grp \/ h \notin DOMAIN sw.mbr \/ (g \in DOMAIN sw.grp /\ h \in sw.grp[g]) THEN No(sw)
                                     ELSE Yes([sw EXCEPT !.grp[g] = @ \cup {h}], <<>>)))
_pi_act_prof_grp_remove_mbr(tg, f, d, gh, h) ==
    LET sw == tg.bm[d]
        g == clear_grp_h(gh)
    IN Ready(tg, d, Thrift(tg, d, f, IF g \notin DOMAIN sw.grp \/ (g \in DOMAIN sw.grp /\ h \notin sw.grp[g]) THEN No(sw)
                                     ELSE Yes([sw EXCEPT !.grp[g] = @ \ {h}], <<>>)))
\* Each group says how many members it has and where they start in the one
\* list of member handles.
_pi_act_prof_entries_fetch(tg, f, d) ==
    LET sw == tg.bm[d]
        ms == SetToSortSeq(DOMAIN sw.mbr, <)
        gs == SetToSortSeq(DOMAIN sw.grp, <)
        Handles(g) == SetToSortSeq(sw.grp[g], <)
        Offset(i) == SumFunction([j \in 1..(i - 1) |-> Cardinality(sw.grp[gs[j]])])
        Member(m) == emit_indirect_handle(m)
                     \o emit_action_data([id |-> sw.mbr[m].name, data |-> dump_action_data(sw.mbr[m].name, sw.mbr[m].params)])
        Group(i) == emit_indirect_handle(make_grp_h(gs[i])) \o emit_uint32(Cardinality(sw.grp[gs[i]])) \o emit_uint32(Offset(i))
    IN Ready(tg, d, Thrift(tg, d, f, IF f = 2 THEN No(sw) ELSE Yes(sw,
           [nm |-> Len(ms), ng |-> Len(gs), members |-> FlattenSeq([i \in DOMAIN ms |-> Member(ms[i])]),
            groups |-> FlattenSeq([i \in DOMAIN gs |-> Group(i)]), handles |-> FlattenSeq([i \in DOMAIN gs |-> Handles(gs[i])])])))

(***************************************************************************)
(* Counters and meters (pi_counter_imp.cpp, pi_meter_imp.cpp): one of each,*)
(* with one cell, beside the direct ones of table entries                  *)
(***************************************************************************)
_pi_counter_read(tg, f, d) == Ready(tg, d, Thrift(tg, d, f, Yes(tg.bm[d], convert_to_counter_data(tg.bm[d].ctr))))
bm_counter_write(sw, v) == Yes([sw EXCEPT !.ctr = v], <<>>)
\* With one of the two values the other is read first, in a call of its own.
_pi_counter_write(tg, f, d, c) ==
    LET cur == _pi_counter_read(tg, f, d)
        g == IF f = 2 THEN 1 ELSE f
    IN IF are_both_values_set(c) THEN Ready(tg, d, Thrift(tg, d, f, bm_counter_write(tg.bm[d], convert_from_counter_data(c))))
       ELSE IF cur.st # "SUCCESS" THEN cur
       ELSE Thrift(tg, d, g, bm_counter_write(tg.bm[d], convert_from_counter_data(merge_current_value(c, cur.v))))
DirectTable == CHOOSE t \in Tables : Impl[t] = "none"
_pi_counter_read_direct(tg, f, d, h) ==
    LET es == tg.bm[d].ent[DirectTable]
    IN Ready(tg, d, Thrift(tg, d, f, IF h \notin DOMAIN es THEN No(tg.bm[d]) ELSE Yes(tg.bm[d], convert_to_counter_data(es[h].ctr))))
_pi_counter_write_direct(tg, f, d, h, c) ==
    LET cur == _pi_counter_read_direct(tg, f, d, h)
        g == IF f = 2 THEN 1 ELSE f
    IN IF are_both_values_set(c) THEN Ready(tg, d, Thrift(tg, d, f, bm_mt_write_direct(tg.bm[d], DirectTable, h, "ctr", convert_from_counter_data(c))))
       ELSE IF cur.st # "SUCCESS" THEN cur
       ELSE Thrift(tg, d, g, bm_mt_write_direct(tg.bm[d], DirectTable, h, "ctr", convert_from_counter_data(merge_current_value(c, cur.v))))
MeterResult(read) ==
    LET r == read
    IN IF r.st # "SUCCESS" THEN r ELSE IF r.v = <<>> THEN Err(r.tg, "METER_SPEC_NOT_SET") ELSE [r EXCEPT !.v = convert_to_meter_spec(r.v)]
_pi_meter_read(tg, f, d) == MeterResult(Ready(tg, d, Thrift(tg, d, f, Yes(tg.bm[d], tg.bm[d].mtr))))
_pi_meter_set(tg, f, d, m) ==
    Ready(tg, d, IF m.unit = "DEFAULT" THEN Die(tg, "meter unit")
                 ELSE Thrift(tg, d, f, Yes([tg.bm[d] EXCEPT !.mtr = convert_from_meter_spec(m)], <<>>)))
_pi_meter_read_direct(tg, f, d, h) ==
    LET es == tg.bm[d].ent[DirectTable]
    IN MeterResult(Ready(tg, d, Thrift(tg, d, f, IF h \notin DOMAIN es THEN No(tg.bm[d]) ELSE Yes(tg.bm[d], es[h].mtr))))
_pi_meter_set_direct(tg, f, d, h, m) ==
    Ready(tg, d, IF m.unit = "DEFAULT" THEN Die(tg, "meter unit")
                 ELSE Thrift(tg, d, f, bm_mt_write_direct(tg.bm[d], DirectTable, h, "mtr", convert_from_meter_spec(m))))
=============================================================================

------------------------------ MODULE RpcServer ------------------------------
(***************************************************************************)
(* The RPC server (src/pi_rpc_server.c) over the PI core and the bmv2      *)
(* target.  sv is the server process: reg, the device registry of the core,*)
(* and tg, the target.  A handler takes the words after the request header *)
(* and gives the new sv, the status, the words after the reply header and, *)
(* when the process ends, why.                                             *)
(***************************************************************************)
EXTENDS Bmv2Target, DeviceVector

Reply(sv, done, words) == LET r == done IN [sv |-> [sv EXCEPT !.tg = r.tg], st |-> r.st, rep |-> words, ab |-> r.ab]
send_status(sv, r) == Reply(sv, r, <<>>)
Unread == <<0, 0>>      \* an uninitialised or unset handle, sent with an error
send_entry_handle(sv, done) == LET r == done IN Reply(sv, r, IF r.st = "SUCCESS" THEN emit_entry_handle(r.v) ELSE Unread)
send_indirect_handle(sv, done) == LET r == done IN Reply(sv, r, IF r.st = "SUCCESS" THEN emit_indirect_handle(r.v) ELSE Unread)

(***************************************************************************)
(* Devices.  The core of the server is the one of any PI application: its  *)
(* registry is device_map, from the devices to their slots, and device_arr *)
(* (slots, size).  shifted records that the array lost an element that was *)
(* not its last, so that slots no longer hold the entries of their devices.*)
(***************************************************************************)
Zeroed == [dev |-> 0, version |-> 0, p4info |-> ""]
NoDevices == [map |-> <<>>, slots |-> <<>>, size |-> 0, shifted |-> FALSE]
pi_is_device_assigned(reg, d) == d \in DOMAIN reg.map
pi_get_device_info(reg, d) == reg.slots[reg.map[d]]
pi_get_devices(reg) == SubSeq(reg.slots, 1, reg.size)
pi_create_device_config(reg, d) ==
    [reg EXCEPT !.slots = vector_push_back_empty(@, reg.size, [Zeroed EXCEPT !.dev = d]), !.size = @ + 1, !.map = Put(@, d, reg.size + 1)]
pi_update_device_config(reg, d, p) ==
    [reg EXCEPT !.slots[reg.map[d]] = [dev |-> d, version |-> @.version + 1, p4info |-> p]]
pi_forget_device(reg, d) ==
    [map |-> Drop(reg.map, d), slots |-> vector_remove(reg.slots, reg.size, RemovedIndex(reg.map[d])), size |-> reg.size - 1,
     shifted |-> reg.shifted \/ reg.size > 1]
ForgetAsserts(reg, d) == vector_remove_asserts(reg.size, reg.map[d])

\* pi_serialize_config reads through the pointer, which is NULL for a device
\* that was assigned without a P4Info.
__pi_init(sv, f, req) ==
    LET ds == pi_get_devices(sv.reg)
    IN IF \E i \in DOMAIN ds : ds[i].p4info = "" THEN Reply(sv, Die(sv.tg, "no p4info"), <<>>)
       ELSE Reply(sv, Ok(sv.tg, <<>>),
                  emit_uint32(Len(ds)) \o
                  FlattenSeq([i \in DOMAIN ds |-> emit_dev_id(ds[i].dev) \o emit_uint32(ds[i].version) \o <<ds[i].p4info>>]))

pi_assign_device(sv, d, p4info, extra) ==
    LET r == _pi_assign_device(sv.tg, d, p4info, extra)
        reg == IF r.st = "SUCCESS" THEN pi_update_device_config(pi_create_device_config(sv.reg, d), d, p4info) ELSE sv.reg
    IN send_status([sv EXCEPT !.reg = reg], r)
AssignExtras(req) == [i \in 1..req[4] |-> <<req[3 + 2 * i], req[4 + 2 * i]>>]
__pi_assign_device_unchecked(sv, f, req) == pi_assign_device(sv, retrieve_uint64(req).v, req[3], AssignExtras(req))
__pi_assign_device(sv, f, req) ==
    IF pi_is_device_assigned(sv.reg, retrieve_uint64(req).v) THEN send_status(sv, Err(sv.tg, "DEV_ALREADY_ASSIGNED"))
    ELSE pi_assign_device(sv, retrieve_uint64(req).v, req[3], AssignExtras(req))
__pi_update_device_start(sv, f, req) ==
    LET d == retrieve_uint64(req).v
        r == _pi_update_device_start(sv.tg, f, d, req[3], req[5])
    IN IF ~pi_is_device_assigned(sv.reg, d) THEN send_status(sv, Err(sv.tg, "DEV_NOT_ASSIGNED"))
       ELSE send_status(IF r.st = "SUCCESS" THEN [sv EXCEPT !.reg = pi_update_device_config(sv.reg, d, req[3])] ELSE sv, r)
__pi_update_device_end(sv, f, req) == send_status(sv, _pi_update_device_end(sv.tg, f, retrieve_uint64(req).v))
__pi_remove_device_kept(sv, f, req) == send_status(sv, _pi_remove_device(sv.tg, retrieve_uint64(req).v))
\* pi_remove_device: the target first, whatever it says the registry next.
__pi_remove_device(sv, f, req) ==
    LET d == retrieve_uint64(req).v
        r == _pi_remove_device(sv.tg, d)
    IN IF ~pi_is_device_assigned(sv.reg, d) THEN send_status(sv, Err(sv.tg, "DEV_NOT_ASSIGNED"))
       ELSE IF r.ab # "" THEN send_status(sv, r)
       ELSE IF ForgetAsserts(sv.reg, d) THEN send_status(sv, Die(r.tg, "device array"))
       ELSE send_status([sv EXCEPT !.reg = pi_forget_device(sv.reg, d)], r)
__pi_destroy(sv, f, req) == send_status(sv, _pi_destroy(sv.tg))
__pi_session_init(sv, f, req) == Reply(sv, _pi_session_init(sv.tg), emit_session_handle(0))
__pi_session_cleanup(sv, f, req) == send_status(sv, _pi_session_cleanup(sv.tg))
__pi_batch_begin(sv, f, req) == send_status(sv, _pi_batch_begin(sv.tg))
__pi_batch_end(sv, f, req) == send_status(sv, _pi_batch_end(sv.tg))
__pi_packetout_send(sv, f, req) == send_status(sv, _pi_packetout_send(sv.tg, retrieve_uint64(req).v))
__pi_learn_msg_ack(sv, f, req) == send_status(sv, _pi_learn_msg_ack(sv.tg))

(***************************************************************************)
(* Tables                                                                  *)
(***************************************************************************)
WithDirect(e, direct) == [direct |-> direct] @@ e
__pi_table_entry_add(sv, f, req) ==
    LET Done(x) == send_entry_handle(sv, _pi_table_entry_add(sv.tg, f, x[2].dev_id, x[3], x[4], WithDirect(x[5], x[6])))
    IN Done(Fields(<<"u32", "dev_tgt", "u32", "match_key", "table_entry", "direct", "u32">>, req))
__pi_table_default_action_set(sv, f, req) ==
    LET Done(x) == send_status(sv, _pi_table_default_action_set(sv.tg, f, x[2].dev_id, x[3], x[4]))
    IN Done(Fields(<<"u32", "dev_tgt", "u32", "table_entry", "direct">>, req))
__pi_table_default_action_reset(sv, f, req) ==
    LET Done(x) == send_status(sv, _pi_table_default_action_reset(sv.tg, f, x[2].dev_id, x[3]))
    IN Done(Fields(<<"u32", "dev_tgt", "u32">>, req))
\* After a failure the entry is uninitialised: its type is a value the switch
\* in table_entry_size does not know, or happens to be NONE (f = 2).
__pi_table_default_action_get(sv, f, req) ==
    LET Ask(x) == _pi_table_default_action_get(sv.tg, IF f = 2 THEN 1 ELSE f, x[2].dev_id, x[3])
        Done(r) == IF r.st = "SUCCESS" THEN Reply(sv, r, emit_table_entry(r.v))
                   ELSE IF r.ab = "" /\ f = 1 THEN Reply(sv, Die(sv.tg, "default entry"), <<>>)
                   ELSE Reply(sv, r, emit_table_entry([type |-> "NONE", direct |-> <<>>]))
    IN Done(Ask(Fields(<<"u32", "dev_tgt", "u32">>, req)))
__pi_table_entry_delete(sv, f, req) ==
    LET Done(x) == send_status(sv, _pi_table_entry_delete(sv.tg, f, x[2], x[3], x[4]))
    IN Done(Fields(<<"u32", "u64", "u32", "u64">>, req))
__pi_table_entry_delete_wkey(sv, f, req) ==
    LET Done(x) == send_status(sv, _pi_table_entry_delete_wkey(sv.tg, f, x[2].dev_id, x[3], x[4]))
    IN Done(Fields(<<"u32", "dev_tgt", "u32", "match_key">>, req))
__pi_table_entry_modify(sv, f, req) ==
    LET Done(x) == send_status(sv, _pi_table_entry_modify(sv.tg, f, x[2], x[3], x[4], WithDirect(x[5], x[6])))
    IN Done(Fields(<<"u32", "u64", "u32", "u64", "table_entry", "direct">>, req))
__pi_table_entry_modify_wkey(sv, f, req) ==
    LET Done(x) == send_status(sv, _pi_table_entry_modify_wkey(sv.tg, f, x[2].dev_id, x[3], x[4], WithDirect(x[5], x[6])))
    IN Done(Fields(<<"u32", "dev_tgt", "u32", "match_key", "table_entry", "direct">>, req))
__pi_table_entries_fetch(sv, f, req) ==
    LET Ask(x) == _pi_table_entries_fetch(sv.tg, f, x[2].dev_id, x[3])
        Done(r) == Reply(sv, r, IF r.st # "SUCCESS" THEN <<>>
                                ELSE emit_uint32(r.v.num) \o emit_uint32(r.v.mkey) \o emit_uint32(Len(r.v.entries)) \o r.v.entries)
    IN Done(Ask(Fields(<<"u32", "dev_tgt", "u32">>, req)))

(***************************************************************************)
(* Action profiles, counters, meters                                       *)
(***************************************************************************)
__pi_act_prof_mbr_create(sv, f, req) ==
    LET Done(x) == send_indirect_handle(sv, _pi_act_prof_mbr_create(sv.tg, f, x[2].dev_id, x[4]))
    IN Done(Fields(<<"u32", "dev_tgt", "u32", "action_data">>, req))
__pi_act_prof_mbr_delete(sv, f, req) ==
    LET Done(x) == send_status(sv, _pi_act_prof_mbr_delete(sv.tg, f, x[2], x[4]))
    IN Done(Fields(<<"u32", "u64", "u32", "u64">>, req))
__pi_act_prof_mbr_modify(sv, f, req) ==
    LET Done(x) == send_status(sv, _pi_act_prof_mbr_modify(sv.tg, f, x[2], x[4], x[5]))
    IN Done(Fields(<<"u32", "u64", "u32", "u64", "action_data">>, req))
__pi_act_prof_grp_create(sv, f, req) ==
    LET Done(x) == send_indirect_handle(sv, _pi_act_prof_grp_create(sv.tg, f, x[2].dev_id))
    IN Done(Fields(<<"u32", "dev_tgt", "u32", "u32">>, req))
__pi_act_prof_grp_delete(sv, f, req) ==
    LET Done(x) == send_status(sv, _pi_act_prof_grp_delete(sv.tg, f, x[2], x[4]))
    IN Done(Fields(<<"u32", "u64", "u32", "u64">>, req))
grp_add_remove_mbr(sv, f, req, add) ==
    LET Done(x) == send_status(sv, IF add THEN _pi_act_prof_grp_add_mbr(sv.tg, f, x[2], x[4], x[5])
                                   ELSE _pi_act_prof_grp_remove_mbr(sv.tg, f, x[2], x[4], x[5]))
    IN Done(Fields(<<"u32", "u64", "u32", "u64", "u64">>, req))
__pi_act_prof_entries_fetch(sv, f, req) ==
    LET Ask(x) == _pi_act_prof_entries_fetch(sv.tg, f, x[2].dev_id)
        Sized(ws) == emit_uint32(Len(ws)) \o ws
        Done(r) == Reply(sv, r, IF r.st # "SUCCESS" THEN <<>>
                                ELSE emit_uint32(r.v.nm) \o emit_uint32(r.v.ng) \o Sized(r.v.members) \o Sized(r.v.groups)
                                     \o emit_uint32(Len(r.v.handles)) \o FlattenSeq([i \in DOMAIN r.v.handles |-> emit_indirect_handle(r.v.handles[i])]))
    IN Done(Ask(Fields(<<"u32", "dev_tgt", "u32">>, req)))
counter_read(sv, f, req, direct) ==
    LET Ask(x) == IF direct THEN _pi_counter_read_direct(sv.tg, f, x[2].dev_id, x[4]) ELSE _pi_counter_read(sv.tg, f, x[2].dev_id)
        Done(r) == Reply(sv, r, emit_counter_data(IF r.st = "SUCCESS" THEN r.v ELSE [valid |-> 0, bytes |-> 0, packets |-> 0]))
    IN Done(Ask(Fields(<<"u32", "dev_tgt", "u32", "u64", "u32">>, req)))
counter_write(sv, f, req, direct) ==
    LET Done(x) == send_status(sv, IF direct THEN _pi_counter_write_direct(sv.tg, f, x[2].dev_id, x[4], x[5])
                                   ELSE _pi_counter_write(sv.tg, f, x[2].dev_id, x[5]))
    IN Done(Fields(<<"u32", "dev_tgt", "u32", "u64", "counter">>, req))
NoSpec == [cir |-> 0, cburst |-> 0, pir |-> 0, pburst |-> 0, unit |-> 0, type |-> 0]
meter_read(sv, f, req, direct) ==
    LET Ask(x) == IF direct THEN _pi_meter_read_direct(sv.tg, f, x[2].dev_id, x[4]) ELSE _pi_meter_read(sv.tg, f, x[2].dev_id)
        Done(r) == Reply(sv, r, emit_meter_spec(IF r.st = "SUCCESS" THEN r.v ELSE NoSpec))
    IN Done(Ask(Fields(<<"u32", "dev_tgt", "u32", "u64">>, req)))
meter_set(sv, f, req, direct) ==
    LET Done(x) == send_status(sv, IF direct THEN _pi_meter_set_direct(sv.tg, f, x[2].dev_id, x[4], x[5])
                                   ELSE _pi_meter_set(sv.tg, f, x[2].dev_id, x[5]))
    IN Done(Fields(<<"u32", "dev_tgt", "u32", "u64", "meter">>, req))

\* The switch of pi_rpc_server_run on the type of a request.
pi_rpc_server_run(sv, f, type, req) ==
    CASE type = "INIT" -> __pi_init(sv, f, req)
      [] type = "ASSIGN_DEVICE" -> __pi_assign_device(sv, f, req)
      [] type = "UPDATE_DEVICE_START" -> __pi_update_device_start(sv, f, req)
      [] type = "UPDATE_DEVICE_END" -> __pi_update_device_end(sv, f, req)
      [] type = "REMOVE_DEVICE" -> __pi_remove_device(sv, f, req)
      [] type = "DESTROY" -> __pi_destroy(sv, f, req)
      [] type = "SESSION_INIT" -> __pi_session_init(sv, f, req)
      [] type = "SESSION_CLEANUP" -> __pi_session_cleanup(sv, f, req)
      [] type = "BATCH_BEGIN" -> __pi_batch_begin(sv, f, req)
      [] type = "BATCH_END" -> __pi_batch_end(sv, f, req)
      [] type = "PACKETOUT_SEND" -> __pi_packetout_send(sv, f, req)
      [] type = "LEARN_MSG_ACK" -> __pi_learn_msg_ack(sv, f, req)
      [] type = "TABLE_ENTRY_ADD" -> __pi_table_entry_add(sv, f, req)
      [] type = "TABLE_DEFAULT_ACTION_SET" -> __pi_table_default_action_set(sv, f, req)
      [] type = "TABLE_DEFAULT_ACTION_RESET" -> __pi_table_default_action_reset(sv, f, req)
      [] type = "TABLE_DEFAULT_ACTION_GET" -> __pi_table_default_action_get(sv, f, req)
      [] type = "TABLE_ENTRY_DELETE" -> __pi_table_entry_delete(sv, f, req)
      [] type = "TABLE_ENTRY_DELETE_WKEY" -> __pi_table_entry_delete_wkey(sv, f, req)
      [] type = "TABLE_ENTRY_MODIFY" -> __pi_table_entry_modify(sv, f, req)
      [] type = "TABLE_ENTRY_MODIFY_WKEY" -> __pi_table_entry_modify_wkey(sv, f, req)
      [] type = "TABLE_ENTRIES_FETCH" -> __pi_table_entries_fetch(sv, f, req)
      [] type = "ACT_PROF_MBR_CREATE" -> __pi_act_prof_mbr_create(sv, f, req)
      [] type = "ACT_PROF_MBR_DELETE" -> __pi_act_prof_mbr_delete(sv, f, req)
      [] type = "ACT_PROF_MBR_MODIFY" -> __pi_act_prof_mbr_modify(sv, f, req)
      [] type = "ACT_PROF_GRP_CREATE" -> __pi_act_prof_grp_create(sv, f, req)
      [] type = "ACT_PROF_GRP_DELETE" -> __pi_act_prof_grp_delete(sv, f, req)
      [] type \in {"ACT_PROF_GRP_ADD_MBR", "ACT_PROF_GRP_REMOVE_MBR"} -> grp_add_remove_mbr(sv, f, req, type = "ACT_PROF_GRP_ADD_MBR")
      [] type = "ACT_PROF_ENTRIES_FETCH" -> __pi_act_prof_entries_fetch(sv, f, req)
      [] type \in {"COUNTER_READ", "COUNTER_READ_DIRECT"} -> counter_read(sv, f, req, type = "COUNTER_READ_DIRECT")
      [] type \in {"COUNTER_WRITE", "COUNTER_WRITE_DIRECT"} -> counter_write(sv, f, req, type = "COUNTER_WRITE_DIRECT")
      [] type \in {"METER_READ", "METER_READ_DIRECT"} -> meter_read(sv, f, req, type = "METER_READ_DIRECT")
      [] type \in {"METER_SET", "METER_SET_DIRECT"} -> meter_set(sv, f, req, type = "METER_SET_DIRECT")
=============================================================================

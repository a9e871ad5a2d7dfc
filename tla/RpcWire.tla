------------------------------- MODULE RpcWire -------------------------------
(***************************************************************************)
(* The encoding of PI values in the messages between the RPC target        *)
(* (targets/rpc) and the RPC server (src/pi_rpc_server.c, serialize.c).  A *)
(* message is a sequence of 32-bit words.  A word holds a number below W, a*)
(* name (an id, a status, a type), or a whole string or blob; 64-bit values*)
(* take two words, the low one first.  A retrieve_ operator gives the value*)
(* and the words it took.                                                  *)
(***************************************************************************)
EXTENDS Integers, Sequences, SequencesExt

CONSTANTS W,    \* the number of values of a word; 2^32 in the code
          B     \* the number of values of a byte; 2^8 in the code
ASSUME WordAssumption == W \in Nat /\ B \in Nat /\ B >= 2 /\ W > B /\ W % B = 0

Got(v, s) == [v |-> v, s |-> s]
Rest(src, n) == SubSeq(src, n + 1, Len(src))

emit_uint32(v) == <<v>>
emit_uint64_low(v) == <<v % W, 0>>
emit_uint64(v) == <<v % W, v \div W>>
retrieve_uint32(src) == Got(src[1], 1)
retrieve_uint64(src) == Got(src[1] + W * src[2], 2)
emit_p4_id(v) == emit_uint32(v)
emit_status(v) == emit_uint32(v)
emit_session_handle(v) == emit_uint32(v)
emit_action_entry_type(v) == emit_uint32(v)
emit_rpc_id(v) == emit_uint32(v)
emit_rpc_type(v) == emit_uint32(v)
emit_entry_handle(v) == emit_uint64(v)
emit_indirect_handle(v) == emit_uint64(v)
emit_learn_msg_id(v) == emit_uint64(v)
emit_dev_id(v) == emit_uint64(v)
emit_dev_tgt(t) == emit_dev_id(t.dev_id) \o emit_uint32(t.mask)
retrieve_dev_tgt(src) == Got([dev_id |-> retrieve_uint64(src).v, mask |-> src[3]], 3)

emit_counter_data(c) == emit_uint32(c.valid) \o emit_uint64(c.bytes) \o emit_uint64(c.packets)
retrieve_counter_data(src) ==
    Got([valid |-> src[1], bytes |-> retrieve_uint64(Rest(src, 1)).v, packets |-> retrieve_uint64(Rest(src, 3)).v], 5)

emit_meter_spec(m) ==
    emit_uint64(m.cir) \o emit_uint32(m.cburst) \o emit_uint64(m.pir) \o emit_uint32(m.pburst)
    \o emit_uint32(m.unit) \o emit_uint32(m.type)
retrieve_meter_spec(src) ==
    Got([cir |-> retrieve_uint64(src).v, cburst |-> src[3], pir |-> retrieve_uint64(Rest(src, 3)).v,
         pburst |-> src[6], unit |-> src[7], type |-> src[8]], 8)

(***************************************************************************)
(* Composites: each starts with what its reader needs to find its end      *)
(***************************************************************************)
emit_match_key(k) == emit_uint32(k.priority) \o emit_uint32(Len(k.data)) \o k.data
retrieve_match_key(src) == Got([priority |-> src[1], data |-> SubSeq(src, 3, 2 + src[2])], 2 + src[2])

emit_action_data(a) == emit_p4_id(a.id) \o emit_uint32(Len(a.data)) \o a.data
retrieve_action_data(src) == Got([id |-> src[1], data |-> SubSeq(src, 3, 2 + src[2])], 2 + src[2])

\* The functions registered for the two types of direct resources.
pi_direct_res_emit(c) == IF c.type = "counter" THEN emit_counter_data(c.config) ELSE emit_meter_spec(c.config)
pi_direct_res_retrieve(type, src) == IF type = "counter" THEN retrieve_counter_data(src) ELSE retrieve_meter_spec(src)

emit_direct_res_config(cs) ==
    emit_uint32(Len(cs)) \o
    FlattenSeq([i \in DOMAIN cs |-> emit_p4_id(cs[i].type) \o emit_uint32(Len(pi_direct_res_emit(cs[i]))) \o pi_direct_res_emit(cs[i])])
allocate_direct_res_config(src) == src[1]
retrieve_direct_res_config(src) ==
    LET One(acc, i) ==
            LET so == acc
                at == Rest(src, so.s)
                r == pi_direct_res_retrieve(at[1], Rest(at, 2))
            IN Got(Append(so.v, [type |-> at[1], config |-> r.v]), so.s + 2 + r.s)
    IN FoldLeft(One, Got(<<>>, 1), [i \in 1..allocate_direct_res_config(src) |-> i])

emit_table_entry(e) ==
    emit_action_entry_type(e.type)
    \o (CASE e.type = "DATA" -> emit_action_data(e.data) [] e.type = "INDIRECT" -> emit_indirect_handle(e.h) [] OTHER -> <<>>)
    \o emit_direct_res_config(e.direct)
\* The reader of an entry stops before the direct resources.
retrieve_table_entry(src) ==
    CASE src[1] = "DATA" -> LET r == retrieve_action_data(Rest(src, 1)) IN Got([type |-> "DATA", data |-> r.v], 1 + r.s)
      [] src[1] = "INDIRECT" -> Got([type |-> "INDIRECT", h |-> retrieve_uint64(Rest(src, 1)).v], 3)
      [] OTHER -> Got([type |-> "NONE"], 1)

retrieve(kind, src) ==
    CASE kind = "u32" -> retrieve_uint32(src)
      [] kind = "u64" -> retrieve_uint64(src)
      [] kind = "dev_tgt" -> retrieve_dev_tgt(src)
      [] kind = "match_key" -> retrieve_match_key(src)
      [] kind = "action_data" -> retrieve_action_data(src)
      [] kind = "table_entry" -> retrieve_table_entry(src)
      [] kind = "direct" -> retrieve_direct_res_config(src)
      [] kind = "counter" -> retrieve_counter_data(src)
      [] kind = "meter" -> retrieve_meter_spec(src)

\* The values of a message, read field after field.
Fields(kinds, src) ==
    LET One(acc, kind) == LET so == acc
                              r == retrieve(kind, Rest(src, so.s))
                          IN Got(Append(so.v, r.v), so.s + r.s)
    IN FoldLeft(One, Got(<<>>, 0), kinds).v

(***************************************************************************)
(* Headers and notifications                                               *)
(***************************************************************************)
emit_req_hdr(id, type) == emit_rpc_id(id) \o emit_rpc_type(type)
emit_rep_hdr(id, status) == emit_rpc_id(id) \o emit_status(status)
retrieve_rep_hdr(rep, id) == IF rep[1] # id THEN "RPC_TRANSPORT_ERROR" ELSE rep[2]

emit_packetin(d, pkt) == <<"PIPKT|">> \o emit_dev_id(d) \o emit_uint32(Len(pkt)) \o pkt
\* memcmp over sizeof "PILEA|" bytes takes in the NUL, and with it the first
\* byte after the six of the topic: the lowest of the device's id.
HasTopic(msg, topic) == msg[1] = topic /\ msg[2] % B = 0
handle_LEA(msg) ==
    LET f == Fields(<<"u32", "dev_tgt", "u32", "u64", "u32", "u32">>, msg)
    IN [kind |-> "learn", dev |-> f[2].dev_id, msg |-> f[4], data |-> SubSeq(msg, 10, 9 + f[5] * f[6])]
handle_PKT(msg) ==
    LET f == Fields(<<"u32", "u64", "u32">>, msg)
    IN [kind |-> "packet", dev |-> f[2], msg |-> 0, data |-> SubSeq(msg, 5, 4 + f[3])]
=============================================================================

----------------------------- MODULE EntryBytes -----------------------------
(***************************************************************************)
(* What a P4Runtime table entry becomes: the match key and the action data *)
(* of a TableEntry message are validated, packed in the buffers of         *)
(* pi::MatchKey and pi::ActionData at the offsets the P4Info database      *)
(* gives, and unpacked again when the entry is read (device_mgr.cpp,       *)
(* match_key_helpers.cpp, action_helpers.cpp, common.cpp, frontends_extra).*)
(* A string is a sequence of bytes, a byte a number below 2^CHAR_BIT, and a*)
(* field match a record with its kind and the strings it carries.          *)
(***************************************************************************)
EXTENDS P4InfoDb, Bitwise

Byte == 0..(2 ^ CHAR_BIT - 1)
Zeros(n) == [i \in 1..n |-> 0]

(***************************************************************************)
(* Checks on byte strings                                                  *)
(***************************************************************************)
clz(b) == CHOOSE n \in 0..CHAR_BIT : b < 2 ^ (CHAR_BIT - n) /\ (n = CHAR_BIT \/ b >= 2 ^ (CHAR_BIT - n - 1))
ctz(b) == CHOOSE n \in 0..CHAR_BIT : b % 2 ^ n = 0 /\ (n = CHAR_BIT \/ b % 2 ^ (n + 1) # 0)
check_proto_bytestring(str, nbits) == Len(str) = nbytes(nbits) /\ clz(str[1]) >= nbytes(nbits) * CHAR_BIT - nbits
\* The zeros are counted from the width of the string, which is that of the field rounded up to bytes.
check_prefix_trailing_zeros(str, pLen) ==
    LET zeros == Len(str) * CHAR_BIT - pLen
        bytes == zeros \div CHAR_BIT
    IN /\ \A i \in (Len(str) - bytes + 1)..Len(str) : str[i] = 0
       /\ zeros % CHAR_BIT = 0 \/ ctz(str[Len(str) - bytes]) >= zeros % CHAR_BIT
range_default_lo(nbits) == Zeros(nbytes(nbits))
range_default_hi(nbits) == [i \in 1..nbytes(nbits) |-> IF i = 1 THEN get_byte0_mask(nbits) ELSE 2 ^ CHAR_BIT - 1]
ternary_match_is_dont_care(mf) == \A i \in DOMAIN mf.mask : mf.mask[i] = 0
range_match_is_dont_care(mf) ==
    mf.low = range_default_lo(Len(mf.low) * CHAR_BIT) /\ mf.high = range_default_hi(Len(mf.low) * CHAR_BIT)
\* memcmp of two strings of one length.
memcmp_le(s, t) ==
    \/ s = t
    \/ \E i \in DOMAIN s : s[i] < t[i] /\ \A j \in 1..(i - 1) : s[j] = t[j]

(***************************************************************************)
(* Validation of a match key                                               *)
(***************************************************************************)
find_mf(match, id) ==
    LET at == {i \in DOMAIN match : match[i].field_id = id}
    IN IF at = {} THEN <<>> ELSE <<match[CHOOSE i \in at : \A j \in at : i <= j]>>
validate_exact_match(mf, bitwidth) == check_proto_bytestring(mf.value, bitwidth)
validate_lpm_match(mf, bitwidth) ==
    /\ check_proto_bytestring(mf.value, bitwidth)
    /\ mf.prefix_len > 0 /\ mf.prefix_len <= bitwidth
    /\ check_prefix_trailing_zeros(mf.value, mf.prefix_len)
validate_ternary_match(mf, bitwidth) ==
    /\ check_proto_bytestring(mf.value, bitwidth) /\ check_proto_bytestring(mf.mask, bitwidth)
    /\ ~ternary_match_is_dont_care(mf)
    /\ \A i \in DOMAIN mf.value : mf.value[i] & mf.mask[i] = mf.value[i]
validate_range_match(mf, bitwidth) ==
    /\ check_proto_bytestring(mf.low, bitwidth) /\ check_proto_bytestring(mf.high, bitwidth)
    /\ ~range_match_is_dont_care(mf)
    /\ memcmp_le(mf.low, mf.high)
validate_one(info, mf) ==
    CASE info.match_type \in {"valid", "exact"} -> mf.kind = "exact" /\ validate_exact_match(mf, info.bitwidth)
      [] info.match_type = "lpm" -> mf.kind = "lpm" /\ validate_lpm_match(mf, info.bitwidth)
      [] info.match_type = "ternary" -> mf.kind = "ternary" /\ validate_ternary_match(mf, info.bitwidth)
      [] info.match_type = "range" -> mf.kind = "range" /\ validate_range_match(mf, info.bitwidth)
validate_match_key(db, t_id, match) ==
    LET ids == pi_p4info_table_get_match_fields(db, t_id)
        found == {i \in DOMAIN ids : find_mf(match, ids[i]) # <<>>}
        info(i) == pi_p4info_table_match_field_info(db, t_id, i)
    IN /\ Len(match) <= Len(ids)
       /\ \A i \in DOMAIN ids : IF i \in found THEN validate_one(info(i), find_mf(match, ids[i])[1])
                                ELSE info(i).match_type \in {"lpm", "ternary", "range"}
       /\ Cardinality(found) = Len(match)

(***************************************************************************)
(* pi::MatchKey: the bytes of the fields, all zero at first, and a priority*)
(***************************************************************************)
MatchKey(db, t_id) == [is_default |-> FALSE, priority |-> 0, data |-> Zeros(p4info_get_at(db, t_id).match_key_size)]
Copy(data, offset, s) == [i \in DOMAIN data |-> IF i - offset \in DOMAIN s THEN s[i - offset] ELSE data[i]]
Masked(s, byte0_mask) == [s EXCEPT ![1] = @ & byte0_mask]
\* A string of the wrong size is not copied.
format(data, s, info, offset) == IF Len(s) # nbytes(info.bitwidth) THEN data ELSE Copy(data, offset, Masked(s, info.byte0_mask))
emit_uint32(v) == [i \in 1..4 |-> (v \div 2 ^ (CHAR_BIT * (i - 1))) % 2 ^ CHAR_BIT]
retrieve_uint32(s) == FoldLeft(LAMBDA v, i : v + s[i] * 2 ^ (CHAR_BIT * (i - 1)), 0, <<1, 2, 3, 4>>)
set_exact(data, info, value) == format(data, value, info, info.offset)
set_lpm(data, info, value, pLen) ==
    LET d == format(data, value, info, info.offset) IN Copy(d, info.offset + nbytes(info.bitwidth), emit_uint32(pLen))
set_ternary(data, info, value, mask) ==
    LET d == format(data, value, info, info.offset) IN format(d, mask, info, info.offset + nbytes(info.bitwidth))
set_range(data, info, low, high) == set_ternary(data, info, low, high)
set_valid(data, info, valid) == Copy(data, info.offset, <<IF valid THEN 1 ELSE 0>>)
set_one(data, info, mf) ==
    CASE info.match_type = "valid" -> set_valid(data, info, mf.value # <<0>>)
      [] info.match_type = "exact" -> set_exact(data, info, mf.value)
      [] info.match_type = "lpm" -> set_lpm(data, info, mf.value, mf.prefix_len)
      [] info.match_type = "ternary" -> set_ternary(data, info, mf.value, mf.mask)
      [] info.match_type = "range" -> set_range(data, info, mf.low, mf.high)
\* A field that is left out is all zero, but a range has to be the full one.
set_missing_forgotten(data, info) == data
set_missing(data, info) ==
    IF info.match_type = "range" THEN set_range(data, info, range_default_lo(info.bitwidth), range_default_hi(info.bitwidth)) ELSE data

Refused == [code |-> "INVALID_ARGUMENT"]
construct_match_key(db, t_id, e) ==
    LET infos == p4info_get_at(db, t_id).match_fields
        need_priority == \E i \in DOMAIN infos : infos[i].match_type \in {"ternary", "range"}
        data == FoldLeft(LAMBDA d, i : LET was == d
                                           mf == find_mf(e.match, infos[i].id)
                                       IN IF mf # <<>> THEN set_one(was, infos[i], mf[1]) ELSE set_missing(was, infos[i]),
                         MatchKey(db, t_id).data, [i \in DOMAIN infos |-> i])
    IN CASE e.is_default_action ->
                IF e.match # <<>> \/ e.priority # 0 THEN Refused ELSE [code |-> "OK", key |-> [MatchKey(db, t_id) EXCEPT !.is_default = TRUE]]
         [] ~e.is_default_action /\ ~validate_match_key(db, t_id, e.match) -> Refused
         [] OTHER -> IF (~need_priority /\ e.priority > 0) \/ (need_priority /\ e.priority = 0) THEN Refused
                     ELSE [code |-> "OK", key |-> [MatchKey(db, t_id) EXCEPT !.priority = IF need_priority THEN e.priority ELSE 0, !.data = data]]

\* MatchKeyReader and the way back to a message.
read_one(data, info, offset) == SubSeq(data, offset + 1, offset + nbytes(info.bitwidth))
get_lpm(data, info) ==
    LET at == info.offset + nbytes(info.bitwidth)
    IN [field_id |-> info.id, kind |-> "lpm", value |-> read_one(data, info, info.offset), prefix_len |-> retrieve_uint32(SubSeq(data, at + 1, at + 4))]
get_pair(data, info) == <<read_one(data, info, info.offset), read_one(data, info, info.offset + nbytes(info.bitwidth))>>
parse_one(data, info) ==
    CASE info.match_type = "valid" -> <<[field_id |-> info.id, kind |-> "exact", value |-> <<IF data[info.offset + 1] # 0 THEN 1 ELSE 0>>]>>
      [] info.match_type = "exact" -> <<[field_id |-> info.id, kind |-> "exact", value |-> read_one(data, info, info.offset)]>>
      [] info.match_type = "lpm" -> LET mf == get_lpm(data, info) IN IF mf.prefix_len = 0 THEN <<>> ELSE <<mf>>
      [] info.match_type = "ternary" ->
             LET p == get_pair(data, info)
                 mf == [field_id |-> info.id, kind |-> "ternary", value |-> p[1], mask |-> p[2]]
             IN IF ternary_match_is_dont_care(mf) THEN <<>> ELSE <<mf>>
      [] info.match_type = "range" ->
             LET p == get_pair(data, info)
                 mf == [field_id |-> info.id, kind |-> "range", low |-> p[1], high |-> p[2]]
             IN IF range_match_is_dont_care(mf) THEN <<>> ELSE <<mf>>
parse_match_key(db, t_id, key) ==
    LET infos == p4info_get_at(db, t_id).match_fields
    IN [priority |-> IF key.priority > 0 THEN key.priority ELSE 0, match |-> FoldLeft(LAMBDA m, f : m \o parse_one(key.data, f), <<>>, infos)]

(***************************************************************************)
(* Action data.  Only the number of the parameters is compared, so one may *)
(* come twice in the place of another.                                     *)
(***************************************************************************)
validate_action_data(db, a_id, params) ==
    LET known == pi_p4info_action_get_params(db, a_id)
    IN /\ Len(params) = Len(known)
       /\ \A i \in DOMAIN params : /\ \E j \in DOMAIN known : known[j] = params[i].param_id
                                   /\ check_proto_bytestring(params[i].value, pi_p4info_action_param_bitwidth(db, a_id, params[i].param_id))
ActionData(db, a_id) == Zeros(pi_p4info_action_data_size(db, a_id))
set_arg(db, a_id, data, p) ==
    LET info == get_param_data_at(db, a_id, p.param_id) IN format(data, p.value, info, info.offset)
construct_action_data(db, a_id, params) ==
    IF ~validate_action_data(db, a_id, params) THEN Refused
    ELSE [code |-> "OK", data |-> FoldLeft(LAMBDA d, p : LET was == d IN set_arg(db, a_id, was, p), ActionData(db, a_id), params)]
get_arg(db, a_id, data, id) == LET info == get_param_data_at(db, a_id, id) IN read_one(data, info, info.offset)
parse_action_data(db, a_id, data) ==
    LET ids == pi_p4info_action_get_params(db, a_id) IN [i \in DOMAIN ids |-> [param_id |-> ids[i], value |-> get_arg(db, a_id, data, ids[i])]]
=============================================================================

------------------------------ MODULE P4InfoDb ------------------------------
(***************************************************************************)
(* The P4Info database (src/p4info): for each type of resource a vector    *)
(* that owns the objects, a map from ids to pointers into that vector and a*)
(* map from names and aliases to ids.  A pointer is the pair of the number *)
(* of times the vector's memory had moved and an index.  An id is the pair *)
(* of its type byte and its low bytes; a name is a number, ordered as      *)
(* strcmp orders the strings, and 0 is the empty string.                   *)
(***************************************************************************)
EXTENDS Integers, Sequences, SequencesExt, FiniteSets

CONSTANTS DEFAULT_INIT_CAPACITY,  \* of a vector created for no elements; 16 in the code
          ID_VECTOR_INLINE_IDS,   \* ids kept inside an id vector; 8 in the code
          CHAR_BIT                \* bits of a byte; 8
ASSUME CapacityAssumption == DEFAULT_INIT_CAPACITY \in Nat \ {0} /\ ID_VECTOR_INLINE_IDS \in Nat \ {0} /\ CHAR_BIT \in Nat \ {0}

Types == {"action", "table", "act_prof", "counter", "direct_counter", "meter", "direct_meter", "digest"}
PI_INVALID_ID == <<"none", 0>>
PI_GET_TYPE_ID(id) == id[1]

(***************************************************************************)
(* Vectors                                                                 *)
(***************************************************************************)
vector_create_short(n) == [capacity |-> IF n <= 1 THEN DEFAULT_INIT_CAPACITY ELSE n - 1, moved |-> 0, data |-> <<>>]
vector_create(n) == [capacity |-> IF n = 0 THEN DEFAULT_INIT_CAPACITY ELSE n, moved |-> 0, data |-> <<>>]
vector_expand(v) == [v EXCEPT !.capacity = 2 * @, !.moved = @ + 1]
vector_push_back(v, e) ==
    LET room == IF Len(v.data) = v.capacity THEN vector_expand(v) ELSE v
    IN [room EXCEPT !.data = Append(@, e)]
vector_back(v) == <<v.moved, Len(v.data)>>

\* An id vector keeps its first ids inline and moves them all to the heap when one more comes.
id_vector_init == [size |-> 0, capacity |-> 0, direct |-> [i \in 1..ID_VECTOR_INLINE_IDS |-> PI_INVALID_ID], indirect |-> <<>>]
Grown(ids, n) == ids \o [i \in 1..(n - Len(ids)) |-> PI_INVALID_ID]
id_vector_full(v) == v.size >= v.capacity
id_vector_push_back(v, id) ==
    IF v.size < ID_VECTOR_INLINE_IDS
    THEN [v EXCEPT !.direct[v.size + 1] = id, !.size = @ + 1]
    ELSE LET room == CASE v.size = ID_VECTOR_INLINE_IDS ->
                              [v EXCEPT !.capacity = 2 * ID_VECTOR_INLINE_IDS, !.indirect = Grown(v.direct, 2 * ID_VECTOR_INLINE_IDS)]
                       [] v.size > ID_VECTOR_INLINE_IDS /\ id_vector_full(v) ->
                              [v EXCEPT !.capacity = 2 * @, !.indirect = Grown(@, 2 * v.capacity)]
                       [] OTHER -> v
         IN [room EXCEPT !.indirect[v.size + 1] = id, !.size = @ + 1]
ID_VECTOR_GET(v) == SubSeq(IF v.size <= ID_VECTOR_INLINE_IDS THEN v.direct ELSE v.indirect, 1, v.size)

(***************************************************************************)
(* The generic part: resources, their names and aliases                    *)
(***************************************************************************)
Bind(f, k, v) == [x \in DOMAIN f \cup {k} |-> IF x = k THEN v ELSE f[x]]
NoRes == [is_init |-> FALSE, vec |-> vector_create(0), id_map |-> <<>>, name_map |-> <<>>]
pi_empty_config == [t \in Types |-> NoRes]
p4info_init_res(db, t, num) == [db EXCEPT ![t] = [NoRes EXCEPT !.is_init = TRUE, !.vec = vector_create(num)]]

p4info_name_map_add(map, name, id) == IF name \in DOMAIN map THEN map ELSE Bind(map, name, id)
p4info_name_map_get(map, name) == IF name \in DOMAIN map THEN map[name] ELSE PI_INVALID_ID

p4info_add_res(db, id, name, obj) ==
    LET r == db[PI_GET_TYPE_ID(id)]
        v == vector_push_back(r.vec, obj)
    IN [db EXCEPT ![PI_GET_TYPE_ID(id)] =
            [r EXCEPT !.name_map = p4info_name_map_add(@, name, id), !.vec = v, !.id_map = Bind(@, id[2], vector_back(v))]]

Pointer(db, id) == db[PI_GET_TYPE_ID(id)].id_map[id[2]]
p4info_get_at(db, id) == db[PI_GET_TYPE_ID(id)].vec.data[Pointer(db, id)[2]]
Put(db, id, obj) == [db EXCEPT ![PI_GET_TYPE_ID(id)].vec.data[Pointer(db, id)[2]] = obj]

num_res(db, t) == IF db[t].is_init THEN Len(db[t].vec.data) ELSE 0
pi_p4info_is_valid_id(db, id) ==
    PI_GET_TYPE_ID(id) \in Types /\ db[PI_GET_TYPE_ID(id)].is_init /\ id[2] \in DOMAIN db[PI_GET_TYPE_ID(id)].id_map
\* Iteration goes through the id map, in the order of the ids.
pi_p4info_any_begin(db, t) ==
    LET d == DOMAIN db[t].id_map IN IF d = {} THEN PI_INVALID_ID ELSE <<t, CHOOSE i \in d : \A j \in d : i <= j>>
pi_p4info_any_next(db, id) ==
    LET d == {j \in DOMAIN db[PI_GET_TYPE_ID(id)].id_map : j > id[2]}
    IN IF d = {} THEN PI_INVALID_ID ELSE <<id[1], CHOOSE i \in d : \A j \in d : i <= j>>
Each(db, t) ==
    LET From[n \in 0..num_res(db, t)] ==
            IF n = 0 THEN <<pi_p4info_any_begin(db, t)>> ELSE Append(From[n - 1], pi_p4info_any_next(db, Last(From[n - 1])))
        all == IF num_res(db, t) = 0 THEN <<PI_INVALID_ID>> ELSE From[num_res(db, t)]
    IN SelectSeq(all, LAMBDA id : id # PI_INVALID_ID)
pi_p4info_any_id_from_name(db, t, name) == p4info_name_map_get(db[t].name_map, name)
pi_p4info_any_name_from_id(db, id) == p4info_get_at(db, id).name
pi_p4info_add_alias(db, id, alias) ==
    LET t == PI_GET_TYPE_ID(id)
        o == p4info_get_at(db, id)
    IN IF alias \in DOMAIN db[t].name_map THEN db
       ELSE Put([db EXCEPT ![t].name_map = Bind(@, alias, id)], id, [o EXCEPT !.aliases = Append(@, alias)])
pi_p4info_add_annotation(db, id, a) ==
    LET o == p4info_get_at(db, id) IN Put(db, id, [o EXCEPT !.annotations = Append(@, a)])

(***************************************************************************)
(* Actions and digests: fields are packed, each on whole bytes             *)
(***************************************************************************)
nbytes(bitwidth) == (bitwidth + CHAR_BIT - 1) \div CHAR_BIT
get_byte0_mask(bitwidth) == IF bitwidth % CHAR_BIT = 0 THEN 2 ^ CHAR_BIT - 1 ELSE 2 ^ (bitwidth % CHAR_BIT) - 1

pi_p4info_action_init(db, n) == p4info_init_res(db, "action", n)
pi_p4info_action_add(db, id, name, n) ==
    p4info_add_res(db, id, name, [name |-> name, id |-> id, num_params |-> n, params |-> <<>>, action_data_size |-> 0,
                                  annotations |-> <<>>, aliases |-> <<>>])
pi_p4info_action_add_param(db, id, pid, name, bitwidth) ==
    LET a == p4info_get_at(db, id)
    IN Put(db, id, [a EXCEPT !.params = Append(@, [name |-> name, id |-> pid, bitwidth |-> bitwidth,
                                                   byte0_mask |-> get_byte0_mask(bitwidth), offset |-> a.action_data_size]),
                             !.action_data_size = @ + nbytes(bitwidth)])
get_param_data_at(db, id, pid) == LET ps == p4info_get_at(db, id).params IN ps[CHOOSE i \in DOMAIN ps : ps[i].id = pid]
pi_p4info_action_get_params(db, id) == [i \in DOMAIN p4info_get_at(db, id).params |-> p4info_get_at(db, id).params[i].id]
pi_p4info_action_param_id_from_name(db, id, name) ==
    LET ps == p4info_get_at(db, id).params
        at == {i \in DOMAIN ps : ps[i].name = name}
    IN IF at = {} THEN 0 ELSE ps[CHOOSE i \in at : \A j \in at : i <= j].id
pi_p4info_action_param_name_from_id(db, id, pid) == get_param_data_at(db, id, pid).name
pi_p4info_action_param_bitwidth(db, id, pid) == get_param_data_at(db, id, pid).bitwidth
pi_p4info_action_param_offset(db, id, pid) == get_param_data_at(db, id, pid).offset
pi_p4info_action_data_size(db, id) == p4info_get_at(db, id).action_data_size

pi_p4info_digest_init(db, n) == p4info_init_res(db, "digest", n)
pi_p4info_digest_add(db, id, name, n) ==
    p4info_add_res(db, id, name, [name |-> name, id |-> id, num_fields |-> n, fields |-> <<>>, digest_size |-> 0,
                                  annotations |-> <<>>, aliases |-> <<>>])
pi_p4info_digest_add_field(db, id, name, bitwidth) ==
    LET d == p4info_get_at(db, id)
    IN Put(db, id, [d EXCEPT !.fields = Append(@, [name |-> name, bitwidth |-> bitwidth]), !.digest_size = @ + nbytes(bitwidth)])
pi_p4info_digest_field_bitwidth(db, id, i) == p4info_get_at(db, id).fields[i].bitwidth
pi_p4info_digest_data_size(db, id) == p4info_get_at(db, id).digest_size

(***************************************************************************)
(* Tables                                                                  *)
(***************************************************************************)
get_match_key_size_one_field(type, bitwidth) ==
    CASE type \in {"valid", "exact"} -> nbytes(bitwidth)
      [] type = "lpm" -> nbytes(bitwidth) + 4
      [] type \in {"ternary", "range"} -> 2 * nbytes(bitwidth)

pi_p4info_table_init(db, n) == p4info_init_res(db, "table", n)
pi_p4info_table_add(db, id, name, nmf, nact, max, is_const, idle) ==
    p4info_add_res(db, id, name,
        [name |-> name, id |-> id, num_match_fields |-> nmf, num_actions |-> nact, match_fields |-> <<>>, actions |-> <<>>,
         const_default_action_id |-> PI_INVALID_ID, has_mutable_action_params |-> TRUE, implementation |-> PI_INVALID_ID,
         direct_resources |-> id_vector_init, max_size |-> max, match_key_size |-> 0, is_const |-> is_const,
         supports_idle_timeout |-> idle, annotations |-> <<>>, aliases |-> <<>>])
pi_p4info_table_add_match_field(db, id, mf, name, type, bitwidth) ==
    LET t == p4info_get_at(db, id)
    IN Put(db, id, [t EXCEPT !.match_fields = Append(@, [name |-> name, id |-> mf, match_type |-> type, bitwidth |-> bitwidth,
                                                         offset |-> t.match_key_size, byte0_mask |-> get_byte0_mask(bitwidth)]),
                             !.match_key_size = @ + get_match_key_size_one_field(type, bitwidth)])
pi_p4info_table_add_action(db, id, action, scope) ==
    LET t == p4info_get_at(db, id) IN Put(db, id, [t EXCEPT !.actions = Append(@, [id |-> action, scope |-> scope])])
pi_p4info_table_set_implementation(db, id, impl) ==
    LET t == p4info_get_at(db, id) IN Put(db, id, [t EXCEPT !.implementation = impl])
pi_p4info_table_is_action_of(db, id, action) == \E i \in DOMAIN p4info_get_at(db, id).actions : p4info_get_at(db, id).actions[i].id = action
pi_p4info_table_set_const_default_action(db, id, action) ==
    LET t == p4info_get_at(db, id)
    IN Put(db, id, [t EXCEPT !.const_default_action_id = action, !.has_mutable_action_params = FALSE])
pi_p4info_table_add_direct_resource(db, id, res) ==
    LET t == p4info_get_at(db, id) IN Put(db, id, [t EXCEPT !.direct_resources = id_vector_push_back(@, res)])

pi_p4info_table_get_match_fields(db, id) == [i \in DOMAIN p4info_get_at(db, id).match_fields |-> p4info_get_at(db, id).match_fields[i].id]
pi_p4info_table_match_field_index(db, id, mf) ==
    LET ids == pi_p4info_table_get_match_fields(db, id)
        at == {i \in DOMAIN ids : ids[i] = mf}
    IN IF at = {} THEN 0 ELSE CHOOSE i \in at : \A j \in at : i <= j
pi_p4info_table_match_field_info(db, id, i) == p4info_get_at(db, id).match_fields[i]
pi_p4info_table_match_field_offset(db, id, mf) ==
    pi_p4info_table_match_field_info(db, id, pi_p4info_table_match_field_index(db, id, mf)).offset
pi_p4info_table_match_field_bitwidth(db, id, mf) ==
    pi_p4info_table_match_field_info(db, id, pi_p4info_table_match_field_index(db, id, mf)).bitwidth
pi_p4info_table_match_field_name_from_id(db, id, mf) ==
    pi_p4info_table_match_field_info(db, id, pi_p4info_table_match_field_index(db, id, mf)).name
pi_p4info_table_match_field_id_from_name(db, id, name) ==
    LET fs == p4info_get_at(db, id).match_fields
        at == {i \in DOMAIN fs : fs[i].name = name}
    IN IF at = {} THEN 0 ELSE fs[CHOOSE i \in at : \A j \in at : i <= j].id
pi_p4info_table_get_actions(db, id) == [i \in DOMAIN p4info_get_at(db, id).actions |-> p4info_get_at(db, id).actions[i].id]
\* The first action of the table with that id.
pi_p4info_table_get_action_info(db, id, action) ==
    LET as == p4info_get_at(db, id).actions
        at == {i \in DOMAIN as : as[i].id = action}
    IN as[CHOOSE i \in at : \A j \in at : i <= j]
pi_p4info_table_get_direct_resources(db, id) == ID_VECTOR_GET(p4info_get_at(db, id).direct_resources)

(***************************************************************************)
(* Action profiles, counters and meters                                    *)
(***************************************************************************)
pi_p4info_act_prof_init(db, n) == p4info_init_res(db, "act_prof", n)
pi_p4info_act_prof_add(db, id, name, selector, max) ==
    p4info_add_res(db, id, name, [name |-> name, id |-> id, tables |-> id_vector_init, with_selector |-> selector,
                                  max_size |-> max, max_grp_size |-> 0, annotations |-> <<>>, aliases |-> <<>>])
pi_p4info_act_prof_add_table(db, id, table) ==
    LET p == p4info_get_at(db, id) IN Put(db, id, [p EXCEPT !.tables = id_vector_push_back(@, table)])
pi_p4info_act_prof_set_max_grp_size(db, id, n) == LET p == p4info_get_at(db, id) IN Put(db, id, [p EXCEPT !.max_grp_size = n])
pi_p4info_act_prof_get_tables(db, id) == ID_VECTOR_GET(p4info_get_at(db, id).tables)
\* The actions are those of the first table: the tables are taken to have the same ones.
pi_p4info_act_prof_get_actions(db, id) ==
    LET ts == pi_p4info_act_prof_get_tables(db, id) IN IF ts = <<>> THEN <<>> ELSE pi_p4info_table_get_actions(db, ts[1])
pi_p4info_act_prof_is_action_of(db, id, action) ==
    LET ts == pi_p4info_act_prof_get_tables(db, id) IN ts # <<>> /\ pi_p4info_table_is_action_of(db, ts[1], action)

pi_p4info_counter_init(db, n) == p4info_init_res(db, "counter", n)
pi_p4info_direct_counter_init(db, n) == p4info_init_res(db, "direct_counter", n)
counter_add(db, id, name, unit, size, table) ==
    p4info_add_res(db, id, name, [name |-> name, id |-> id, direct_table |-> table, counter_unit |-> unit, size |-> size,
                                  annotations |-> <<>>, aliases |-> <<>>])
pi_p4info_counter_add(db, id, name, unit, size) == counter_add(db, id, name, unit, size, PI_INVALID_ID)
pi_p4info_direct_counter_add(db, id, name, unit, size, table) == counter_add(db, id, name, unit, size, table)
pi_p4info_counter_id_from_name(db, name) ==
    LET id == p4info_name_map_get(db["counter"].name_map, name)
    IN IF id # PI_INVALID_ID THEN id ELSE p4info_name_map_get(db["direct_counter"].name_map, name)

pi_p4info_meter_init(db, n) == p4info_init_res(db, "meter", n)
pi_p4info_direct_meter_init(db, n) == p4info_init_res(db, "direct_meter", n)
meter_add(db, id, name, unit, type, size, table) ==
    p4info_add_res(db, id, name, [name |-> name, id |-> id, direct_table |-> table, meter_unit |-> unit, meter_type |-> type,
                                  size |-> size, annotations |-> <<>>, aliases |-> <<>>])
pi_p4info_meter_add(db, id, name, unit, type, size) == meter_add(db, id, name, unit, type, size, PI_INVALID_ID)
pi_p4info_direct_meter_add(db, id, name, unit, type, size, table) == meter_add(db, id, name, unit, type, size, table)
pi_p4info_meter_id_from_name(db, name) ==
    LET id == p4info_name_map_get(db["meter"].name_map, name)
    IN IF id # PI_INVALID_ID THEN id ELSE p4info_name_map_get(db["direct_meter"].name_map, name)
=============================================================================

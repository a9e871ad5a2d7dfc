---------------------------- MODULE P4InfoFormats ----------------------------
(***************************************************************************)
(* The formats a P4Info database is read from and written to: the native   *)
(* JSON (pi_serialize_config and native_json_reader.c, also what the RPC   *)
(* client sends to the RPC server), the P4Info protobuf message            *)
(* (p4info_to_and_from_proto.cpp) and the JSON of the bmv2 compiler        *)
(* (bmv2_json_reader.c), which has no ids: the reader gives them out.      *)
(* A JSON object is a record that may lack fields.  A reader returns the   *)
(* database with a status; "threw" is the exception that makes the proto   *)
(* reader return false, "exit" a call of exit and "abort" a failed assert. *)
(***************************************************************************)
EXTENDS P4InfoDb, TLC

CONSTANTS INT_MAX,     \* the largest C int; 2^31 - 1 in the code
          Indefinite,  \* what a double out of range converts to as an int, 2^31 on x86, as a size
          IdSpace      \* ids a name can hash to; 2^16 in the code

Ok(db) == [db |-> db, rc |-> "SUCCESS"]
Fail(db, why) == [db |-> db, rc |-> why]
\* op on each element while the status is good.
Over(op(_, _), so, seq) ==
    FoldLeft(LAMBDA acc, e : LET a == acc IN IF a.rc = "SUCCESS" THEN op(a, e) ELSE a, so, seq)
Adding(op(_, _), so, seq) == Over(LAMBDA a, e : [a EXCEPT !.db = op(a.db, e)], so, seq)
Has(object, keys) == keys \subseteq DOMAIN object
valueint(n) == IF n <= INT_MAX THEN n ELSE Indefinite

(***************************************************************************)
(* The native JSON                                                         *)
(***************************************************************************)
p4info_common_serialize(o) == [k \in {x \in {"annotations", "aliases"} : o[x] # <<>>} |-> o[k]]
pi_p4info_action_serialize(a) ==
    [name |-> a.name, id |-> a.id,
     params |-> [i \in DOMAIN a.params |-> [name |-> a.params[i].name, id |-> a.params[i].id, bitwidth |-> a.params[i].bitwidth]]]
pi_p4info_table_serialize_forgetful(t) ==
    [name |-> t.name, id |-> t.id,
     match_fields |-> [i \in DOMAIN t.match_fields |->
        [name |-> t.match_fields[i].name, id |-> t.match_fields[i].id, bitwidth |-> t.match_fields[i].bitwidth, match_type |-> t.match_fields[i].match_type]],
     actions |-> t.actions, implementation |-> t.implementation, direct_resources |-> ID_VECTOR_GET(t.direct_resources),
     max_size |-> t.max_size, is_const |-> t.is_const, supports_idle_timeout |-> t.supports_idle_timeout]
pi_p4info_table_serialize(t) ==
    [name |-> t.name, id |-> t.id,
     match_fields |-> [i \in DOMAIN t.match_fields |->
        [name |-> t.match_fields[i].name, id |-> t.match_fields[i].id, bitwidth |-> t.match_fields[i].bitwidth, match_type |-> t.match_fields[i].match_type]],
     actions |-> t.actions, const_default_action_id |-> t.const_default_action_id, has_mutable_action_params |-> t.has_mutable_action_params,
     implementation |-> t.implementation, direct_resources |-> ID_VECTOR_GET(t.direct_resources),
     max_size |-> t.max_size, is_const |-> t.is_const, supports_idle_timeout |-> t.supports_idle_timeout]
pi_p4info_act_prof_serialize(p) ==
    [name |-> p.name, id |-> p.id, tables |-> ID_VECTOR_GET(p.tables), with_selector |-> p.with_selector, max_size |-> p.max_size,
     max_group_size |-> p.max_grp_size]
counter_serialize(c) == [name |-> c.name, id |-> c.id, direct_table |-> c.direct_table, counter_unit |-> c.counter_unit, size |-> c.size]
meter_serialize(m) == [name |-> m.name, id |-> m.id, direct_table |-> m.direct_table, meter_unit |-> m.meter_unit, meter_type |-> m.meter_type, size |-> m.size]
pi_p4info_digest_serialize(d) == [name |-> d.name, id |-> d.id, fields |-> d.fields]
serialize_fn(t, o) ==
    CASE t = "action" -> pi_p4info_action_serialize(o)
      [] t = "table" -> pi_p4info_table_serialize(o)
      [] t = "act_prof" -> pi_p4info_act_prof_serialize(o)
      [] t \in {"counter", "direct_counter"} -> counter_serialize(o)
      [] t \in {"meter", "direct_meter"} -> meter_serialize(o)
      [] t = "digest" -> pi_p4info_digest_serialize(o)
pi_serialize_config(db) ==
    [t \in {x \in Types : db[x].is_init} |->
        [i \in DOMAIN db[t].vec.data |-> serialize_fn(t, db[t].vec.data[i]) @@ p4info_common_serialize(db[t].vec.data[i])]]

import_annotations(db, id, seq) == FoldLeft(LAMBDA d, a : LET c == d IN pi_p4info_add_annotation(c, id, a), db, seq)
import_aliases(db, id, seq) == FoldLeft(LAMBDA d, a : LET c == d IN pi_p4info_add_alias(c, id, a), db, seq)
Field(object, key, default) == IF key \in DOMAIN object THEN object[key] ELSE default
import_common(db, id, o) == import_aliases(import_annotations(db, id, Field(o, "annotations", <<>>)), id, Field(o, "aliases", <<>>))

\* What the readers of a list of objects have in common: no list is an error, and so is an object without a field it needs.
ReadList(db, root, t, keys, init(_, _), one(_, _)) ==
    IF t \notin DOMAIN root THEN Fail(db, "ERROR")
    ELSE Over(LAMBDA so, o : IF Has(o, keys) THEN one(so, o) ELSE Fail(so.db, "ERROR"), Ok(init(db, Len(root[t]))), root[t])

NativeParam(so, id, p) ==
    IF ~Has(p, {"name", "id", "bitwidth"}) THEN Fail(so.db, "ERROR")
    ELSE Ok(pi_p4info_action_add_param(so.db, id, p.id, p.name, valueint(p.bitwidth)))
read_actions(db, root) ==
    ReadList(db, root, "action", {"name", "id", "params"}, pi_p4info_action_init, LAMBDA so, a :
        LET added == Ok(pi_p4info_action_add(so.db, a.id, a.name, Len(a.params)))
            all == Over(LAMBDA s, p : NativeParam(s, a.id, p), added, a.params)
        IN IF all.rc # "SUCCESS" THEN all ELSE Ok(import_common(all.db, a.id, a)))

NativeMatchField(so, id, f) ==
    IF ~Has(f, {"name", "id", "bitwidth", "match_type"}) THEN Fail(so.db, "ERROR")
    ELSE Ok(pi_p4info_table_add_match_field(so.db, id, f.id, f.name, f.match_type, valueint(f.bitwidth)))
NativeAction(so, id, a) ==
    IF ~Has(a, {"id", "scope"}) THEN Fail(so.db, "ERROR") ELSE Ok(pi_p4info_table_add_action(so.db, id, a.id, a.scope))
SetConstDefault(so, id, action) ==
    CASE so.rc # "SUCCESS" \/ action = PI_INVALID_ID -> so
      [] ~pi_p4info_table_is_action_of(so.db, id, action) -> Fail(so.db, "abort: default action")
      [] OTHER -> Ok(pi_p4info_table_set_const_default_action(so.db, id, action))
SetImplementation(so, id, impl) ==
    IF so.rc # "SUCCESS" \/ impl = PI_INVALID_ID THEN so ELSE Ok(pi_p4info_table_set_implementation(so.db, id, impl))
AddDirect(so, id, seq) == Adding(LAMBDA d, r : pi_p4info_table_add_direct_resource(d, id, r), so, seq)
read_tables(db, root) ==
    ReadList(db, root, "table", {"name", "id", "match_fields", "actions", "max_size", "is_const"}, pi_p4info_table_init, LAMBDA so, t :
        LET added == Ok(import_common(pi_p4info_table_add(so.db, t.id, t.name, Len(t.match_fields), Len(t.actions), valueint(t.max_size), t.is_const,
                                                          Field(t, "supports_idle_timeout", FALSE)), t.id, t))
            keyed == Over(LAMBDA s, f : NativeMatchField(s, t.id, f), added, t.match_fields)
            acting == IF keyed.rc = "SUCCESS" THEN Over(LAMBDA s, a : NativeAction(s, t.id, a), keyed, t.actions) ELSE keyed
            const == SetConstDefault(acting, t.id, Field(t, "const_default_action_id", PI_INVALID_ID))
            impl == SetImplementation(const, t.id, Field(t, "implementation", PI_INVALID_ID))
        IN AddDirect(impl, t.id, Field(t, "direct_resources", <<>>)))

read_act_profs(db, root) ==
    ReadList(db, root, "act_prof", {"name", "id", "with_selector", "max_size", "tables"}, pi_p4info_act_prof_init, LAMBDA so, p :
        LET added == import_common(pi_p4info_act_prof_add(so.db, p.id, p.name, p.with_selector, valueint(p.max_size)), p.id, p)
            all == FoldLeft(LAMBDA d, t : LET c == d IN pi_p4info_act_prof_add_table(c, p.id, t), added, p.tables)
        IN Ok(IF "max_group_size" \in DOMAIN p THEN pi_p4info_act_prof_set_max_grp_size(all, p.id, valueint(p.max_group_size)) ELSE all))

read_counters_generic(so, c) ==
    LET added == IF c.direct_table # PI_INVALID_ID
                 THEN pi_p4info_direct_counter_add(so.db, c.id, c.name, c.counter_unit, valueint(c.size), c.direct_table)
                 ELSE pi_p4info_counter_add(so.db, c.id, c.name, c.counter_unit, valueint(c.size))
    IN Ok(import_common(added, c.id, c))
read_counters(db, root) == ReadList(db, root, "counter", {"name", "id", "direct_table", "counter_unit", "size"}, pi_p4info_counter_init, read_counters_generic)
read_direct_counters(db, root) ==
    ReadList(db, root, "direct_counter", {"name", "id", "direct_table", "counter_unit", "size"}, pi_p4info_direct_counter_init, read_counters_generic)

read_meters_generic(so, m) ==
    LET added == IF m.direct_table # PI_INVALID_ID
                 THEN pi_p4info_direct_meter_add(so.db, m.id, m.name, m.meter_unit, m.meter_type, valueint(m.size), m.direct_table)
                 ELSE pi_p4info_meter_add(so.db, m.id, m.name, m.meter_unit, m.meter_type, valueint(m.size))
    IN Ok(import_common(added, m.id, m))
MeterKeys == {"name", "id", "direct_table", "meter_unit", "meter_type", "size"}
read_meters(db, root) == ReadList(db, root, "meter", MeterKeys, pi_p4info_meter_init, read_meters_generic)
read_direct_meters(db, root) == ReadList(db, root, "direct_meter", MeterKeys, pi_p4info_direct_meter_init, read_meters_generic)

NativeField(so, id, f) ==
    IF ~Has(f, {"name", "bitwidth"}) THEN Fail(so.db, "ERROR") ELSE Ok(pi_p4info_digest_add_field(so.db, id, f.name, valueint(f.bitwidth)))
read_digests(db, root) ==
    ReadList(db, root, "digest", {"name", "id", "fields"}, pi_p4info_digest_init, LAMBDA so, d :
        Over(LAMBDA s, f : NativeField(s, d.id, f), Ok(import_common(pi_p4info_digest_add(so.db, d.id, d.name, Len(d.fields)), d.id, d)), d.fields))

pi_native_json_reader(root) ==
    LET r1 == read_actions(pi_empty_config, root)
        Then(so, read(_, _)) == LET s == so IN IF s.rc = "SUCCESS" THEN read(s.db, root) ELSE s
        r2 == Then(r1, read_tables)
        r3 == Then(r2, read_act_profs)
        r4 == Then(r3, read_counters)
        r5 == Then(r4, read_direct_counters)
        r6 == Then(r5, read_meters)
        r7 == Then(r6, read_direct_meters)
    IN Then(r7, read_digests)

(***************************************************************************)
(* The P4Info protobuf message.  An object has its preamble (id, name,     *)
(* alias, annotations); an unset alias is the empty string.                *)
(***************************************************************************)
import_preamble(db, o) == pi_p4info_add_alias(import_annotations(db, o.id, o.annotations), o.id, o.alias)
match_type_convert(so, f) == f.match_type \in {"exact", "lpm", "ternary", "range"}
ProtoActions(db, p) ==
    FoldLeft(LAMBDA d, a :
        LET added == pi_p4info_action_add(d, a.id, a.name, Len(a.params))
            all == FoldLeft(LAMBDA c, q : LET e == c IN pi_p4info_action_add_param(e, a.id, q.id, q.name, q.bitwidth), added, a.params)
        IN import_preamble(all, a), pi_p4info_action_init(db, Len(p.actions)), p.actions)
ProtoTables(so0, p) ==
    Over(LAMBDA so, t :
        LET added == Ok(pi_p4info_table_add(so.db, t.id, t.name, Len(t.match_fields), Len(t.action_refs), t.size, t.is_const_table,
                                            t.idle_timeout_behavior = "NOTIFY_CONTROL"))
            keyed == Over(LAMBDA s, f : IF match_type_convert(s, f) THEN Ok(pi_p4info_table_add_match_field(s.db, t.id, f.id, f.name, f.match_type, f.bitwidth))
                                        ELSE Fail(s.db, "threw"), added, t.match_fields)
            acting == Over(LAMBDA s, a : IF a.scope \in {"TABLE_AND_DEFAULT", "TABLE_ONLY", "DEFAULT_ONLY"} THEN Ok(pi_p4info_table_add_action(s.db, t.id, a.id, a.scope))
                                         ELSE Fail(s.db, "threw"), keyed, t.action_refs)
            all == AddDirect(SetImplementation(SetConstDefault(acting, t.id, t.const_default_action_id), t.id, t.implementation_id), t.id, t.direct_resource_ids)
        IN IF all.rc = "SUCCESS" THEN Ok(import_preamble(all.db, t)) ELSE all, Ok(pi_p4info_table_init(so0.db, Len(p.tables))), p.tables)
ProtoActProfs(db, p) ==
    FoldLeft(LAMBDA d, a :
        LET added == pi_p4info_act_prof_add(d, a.id, a.name, a.with_selector, a.size)
            all == FoldLeft(LAMBDA c, t : LET e == c IN pi_p4info_act_prof_add_table(e, a.id, t), added, a.table_ids)
        IN import_preamble(pi_p4info_act_prof_set_max_grp_size(all, a.id, a.max_group_size), a), pi_p4info_act_prof_init(db, Len(p.action_profiles)), p.action_profiles)
ProtoCounters(so0, p) ==
    LET good(c) == c.unit \in {"BYTES", "PACKETS", "BOTH"}
        plain == Over(LAMBDA so, c : IF good(c) THEN Ok(import_preamble(pi_p4info_counter_add(so.db, c.id, c.name, c.unit, c.size), c)) ELSE Fail(so.db, "threw"),
                      Ok(pi_p4info_counter_init(so0.db, Len(p.counters))), p.counters)
    IN IF plain.rc # "SUCCESS" THEN plain
       ELSE Over(LAMBDA so, c : IF good(c) THEN Ok(import_preamble(pi_p4info_direct_counter_add(so.db, c.id, c.name, c.unit, 0, c.direct_table_id), c))
                                ELSE Fail(so.db, "threw"),
                 Ok(pi_p4info_direct_counter_init(plain.db, Len(p.direct_counters))), p.direct_counters)
ProtoMeters(so0, p) ==
    LET good(c) == c.unit \in {"BYTES", "PACKETS"}
        plain == Over(LAMBDA so, c : IF good(c) THEN Ok(import_preamble(pi_p4info_meter_add(so.db, c.id, c.name, c.unit, "UNAWARE", c.size), c)) ELSE Fail(so.db, "threw"),
                      Ok(pi_p4info_meter_init(so0.db, Len(p.meters))), p.meters)
    IN IF plain.rc # "SUCCESS" THEN plain
       ELSE Over(LAMBDA so, c : IF good(c) THEN Ok(import_preamble(pi_p4info_direct_meter_add(so.db, c.id, c.name, c.unit, "UNAWARE", 0, c.direct_table_id), c))
                                ELSE Fail(so.db, "threw"),
                 Ok(pi_p4info_direct_meter_init(plain.db, Len(p.direct_meters))), p.direct_meters)

\* The fields of a digest: the members of a struct by name, those of a tuple and a lone bit string without names.
convert_type_spec_to_digest_fields(spec, structs) ==
    CASE spec.kind = "struct" -> IF spec.name \in DOMAIN structs THEN structs[spec.name] ELSE <<[name |-> 0, bitwidth |-> -1]>>
      [] spec.kind = "tuple" -> [i \in DOMAIN spec.members |-> [name |-> 0, bitwidth |-> spec.members[i]]]
      [] spec.kind = "bit" -> <<[name |-> 0, bitwidth |-> spec.bitwidth]>>
      [] OTHER -> <<[name |-> 0, bitwidth |-> -1]>>
ProtoDigests(so0, p) ==
    Over(LAMBDA so, d :
        LET fields == convert_type_spec_to_digest_fields(d.type_spec, p.structs)
            added == pi_p4info_digest_add(so.db, d.id, d.name, Len(fields))
            all == FoldLeft(LAMBDA c, f : LET e == c IN pi_p4info_digest_add_field(e, d.id, f.name, f.bitwidth), added, fields)
        IN IF \E i \in DOMAIN fields : fields[i].bitwidth < 0 THEN Fail(so.db, "threw") ELSE Ok(import_preamble(all, d)),
        Ok(pi_p4info_digest_init(so0.db, Len(p.digests))), p.digests)

p4info_proto_reader(p) ==
    LET tables == ProtoTables(Ok(ProtoActions(pi_empty_config, p)), p)
        Then(so, read(_, _)) == LET s == so IN IF s.rc = "SUCCESS" THEN read(s, p) ELSE s
        profs == IF tables.rc = "SUCCESS" THEN Ok(ProtoActProfs(tables.db, p)) ELSE tables
        counters == Then(profs, ProtoCounters)
        meters == Then(counters, ProtoMeters)
    IN Then(meters, ProtoDigests)

set_preamble(db, id) ==
    LET o == p4info_get_at(db, id)
    IN [id |-> id, name |-> pi_p4info_any_name_from_id(db, id), annotations |-> o.annotations, alias |-> IF o.aliases = <<>> THEN 0 ELSE o.aliases[1]]
ForEach(db, t, op(_)) == LET ids == Each(db, t) IN [i \in DOMAIN ids |-> op(ids[i]) @@ set_preamble(db, ids[i])]
p4info_serialize_actions(db) ==
    ForEach(db, "action", LAMBDA id : [params |-> LET ps == pi_p4info_action_get_params(db, id) IN [i \in DOMAIN ps |->
        [id |-> ps[i], name |-> pi_p4info_action_param_name_from_id(db, id, ps[i]), bitwidth |-> pi_p4info_action_param_bitwidth(db, id, ps[i])]]])
p4info_serialize_tables(db) ==
    ForEach(db, "table", LAMBDA id :
        LET t == p4info_get_at(db, id)
            mfs == pi_p4info_table_get_match_fields(db, id)
            acts == pi_p4info_table_get_actions(db, id)
            type(f) == IF f.match_type = "valid" THEN "exact" ELSE f.match_type
        IN [match_fields |-> [i \in DOMAIN mfs |-> LET f == pi_p4info_table_match_field_info(db, id, i)
                                                   IN [id |-> mfs[i], name |-> f.name, match_type |-> type(f), bitwidth |-> f.bitwidth]],
            action_refs |-> [i \in DOMAIN acts |-> [id |-> acts[i], scope |-> pi_p4info_table_get_action_info(db, id, acts[i]).scope]],
            const_default_action_id |-> t.const_default_action_id, implementation_id |-> t.implementation,
            direct_resource_ids |-> pi_p4info_table_get_direct_resources(db, id), size |-> t.max_size, is_const_table |-> t.is_const,
            idle_timeout_behavior |-> IF t.supports_idle_timeout THEN "NOTIFY_CONTROL" ELSE "NO_TIMEOUT"])
p4info_serialize_act_profs(db) ==
    ForEach(db, "act_prof", LAMBDA id : LET p == p4info_get_at(db, id) IN
        [table_ids |-> pi_p4info_act_prof_get_tables(db, id), with_selector |-> p.with_selector, size |-> p.max_size, max_group_size |-> p.max_grp_size])
serialize_one_counter(db, id) == [unit |-> p4info_get_at(db, id).counter_unit]
p4info_serialize_counters(db) == ForEach(db, "counter", LAMBDA id : serialize_one_counter(db, id) @@ [size |-> p4info_get_at(db, id).size])
p4info_serialize_direct_counters(db) ==
    ForEach(db, "direct_counter", LAMBDA id : serialize_one_counter(db, id) @@ [direct_table_id |-> p4info_get_at(db, id).direct_table])
serialize_one_meter(db, id) == [unit |-> p4info_get_at(db, id).meter_unit]
p4info_serialize_meters(db) == ForEach(db, "meter", LAMBDA id : serialize_one_meter(db, id) @@ [size |-> p4info_get_at(db, id).size])
p4info_serialize_direct_meters(db) ==
    ForEach(db, "direct_meter", LAMBDA id : serialize_one_meter(db, id) @@ [direct_table_id |-> p4info_get_at(db, id).direct_table])
p4info_serialize_digests(db) ==
    ForEach(db, "digest", LAMBDA id :
        [type_spec |-> [kind |-> "tuple", members |-> [i \in DOMAIN p4info_get_at(db, id).fields |-> pi_p4info_digest_field_bitwidth(db, id, i)]]])
p4info_serialize_to_proto(db) ==
    [actions |-> p4info_serialize_actions(db), tables |-> p4info_serialize_tables(db), action_profiles |-> p4info_serialize_act_profs(db),
     counters |-> p4info_serialize_counters(db), direct_counters |-> p4info_serialize_direct_counters(db),
     meters |-> p4info_serialize_meters(db), direct_meters |-> p4info_serialize_direct_meters(db), digests |-> p4info_serialize_digests(db), structs |-> <<>>]
=============================================================================

------------------------------ MODULE Bmv2Json ------------------------------
(***************************************************************************)
(* The reader of the JSON the bmv2 compilers produce                       *)
(* (config_readers/bmv2_json_reader.c).  The objects of that file have no  *)
(* ids: one is taken from the "id" pragma of the object, which may list    *)
(* several, or else derived from a hash of its name.  The state of the     *)
(* reader is the sets of reserved and of allocated ids and the widths of   *)
(* the header fields.  Every object has a name: the sort reads it before   *)
(* anything else.                                                          *)
(***************************************************************************)
EXTENDS P4InfoFormats

Start == [db |-> pi_empty_config, rc |-> "SUCCESS", reserved_ids |-> {}, allocated_ids |-> {}, fields_bitwidth |-> <<>>]
Stop(so, why) == [so EXCEPT !.rc = why]

\* The ids of the first pragma <<"id", ...>>.
find_annotation_id(o) ==
    LET ps == Field(o, "pragmas", <<>>)
        at == {i \in DOMAIN ps : ps[i][1] = "id"}
    IN IF at = {} THEN <<>> ELSE Tail(ps[CHOOSE i \in at : \A j \in at : i <= j])
is_id_reserved(so, id) == id \in so.reserved_ids
is_id_allocated(so, id) == id \in so.allocated_ids

\* Each object with ids reserves the first that is still free.  found_id is not cleared between objects.
pre_reserve_ids(so0, t, objects) ==
    LET One(acc, o) ==
            LET ids == find_annotation_id(o)
                free == {i \in DOMAIN ids : ids[i] >= IdSpace \/ <<t, ids[i]>> \notin acc.so.reserved_ids}
                first == CHOOSE i \in free : \A j \in free : i <= j
            IN CASE acc.so.rc # "SUCCESS" \/ ids = <<>> -> acc
                 [] ids # <<>> /\ free = {} -> IF acc.found_id THEN acc ELSE [acc EXCEPT !.so = Stop(@, "exit")]
                 [] OTHER -> IF ids[first] >= IdSpace THEN [acc EXCEPT !.so = Stop(@, "exit")]
                             ELSE [so |-> [acc.so EXCEPT !.reserved_ids = @ \cup {<<t, ids[first]>>}], found_id |-> TRUE]
    IN FoldLeft(LAMBDA acc, o : LET a == acc IN One(a, o), [so |-> so0, found_id |-> FALSE], objects).so

\* The first id not reserved, from the hash on.
hash_to_id(hash, t) == <<t, hash % IdSpace>>
generate_id_from_name(so, o, t, hash) ==
    LET free == {d \in 0..(IdSpace - 1) : ~is_id_reserved(so, hash_to_id(hash[o.name] + d, t))}
        id == hash_to_id(hash[o.name] + (CHOOSE d \in free : \A e \in free : d <= e), t)
    IN [id |-> id, so |-> [so EXCEPT !.reserved_ids = @ \cup {id}, !.allocated_ids = @ \cup {id}]]
request_id(so, o, t, hash) ==
    LET ids == find_annotation_id(o)
        free == {i \in DOMAIN ids : ~is_id_allocated(so, <<t, ids[i]>>)}
        first == CHOOSE i \in free : \A j \in free : i <= j
    IN CASE free = {} -> generate_id_from_name(so, o, t, hash)
         [] free # {} /\ ~is_id_reserved(so, <<t, ids[first]>>) -> [id |-> PI_INVALID_ID, so |-> Stop(so, "abort: id not reserved")]
         [] OTHER -> [id |-> <<t, ids[first]>>, so |-> [so EXCEPT !.allocated_ids = @ \cup {<<t, ids[first]>>}]]

\* The bubble sort of a linked list: next[0] is array->child, prev the link that leads to object.
SortPass_lost(next, prev, object, names) == next
RECURSIVE SortPass(_, _, _, _)
SortPass(next, prev, object, names) ==
    LET n == next[object]
    IN CASE n = 0 -> next
         [] n # 0 /\ names[object] > names[n] ->
                SortPass([next EXCEPT ![prev] = n, ![object] = next[n], ![n] = object], object, n, names)
         [] OTHER -> SortPass(next, object, n, names)
RECURSIVE SortPasses(_, _, _)
SortPasses(i, next, names) == IF i <= 0 THEN next ELSE LET once == SortPass(next, 0, next[0], names) IN SortPasses(i - 1, once, names)
sort_json_array(objects) ==
    LET n == Len(objects)
        links == SortPasses(n - 1, [i \in 0..n |-> IF i = n THEN 0 ELSE i + 1], [i \in 1..n |-> objects[i].name])
        Order[i \in 1..n] == IF i = 1 THEN links[0] ELSE links[Order[i - 1]]
    IN [i \in 1..n |-> objects[Order[i]]]

import_pragmas(db, id, o) == import_annotations(db, id, Field(o, "pragmas", <<>>))
With(so, db) == [so EXCEPT !.db = db]

\* r is what request_id returned for a.
Bmv2Action(r, a) ==
    LET param(d, i) == pi_p4info_action_add_param(d, r.id, i, a.runtime_data[i].name, valueint(a.runtime_data[i].bitwidth))
    IN CASE r.so.rc # "SUCCESS" -> r.so
         [] ~Has(a, {"runtime_data"}) -> Stop(r.so, "ERROR")
         [] OTHER -> With(r.so, import_pragmas(FoldLeft(LAMBDA d, i : LET c == d IN param(c, i), pi_p4info_action_add(r.so.db, r.id, a.name, Len(a.runtime_data)),
                                                        [i \in DOMAIN a.runtime_data |-> i]), r.id, a))
Bmv2Actions(so0, root, hash) ==
    LET all(so) == IF so.rc # "SUCCESS" THEN so
                   ELSE Over(LAMBDA x, a : Bmv2Action(request_id(x, a, "action", hash), a), With(so, pi_p4info_action_init(so.db, Len(root.actions))),
                             sort_json_array(root.actions))
    IN IF "actions" \notin DOMAIN root THEN Stop(so0, "ERROR") ELSE all(pre_reserve_ids(so0, "action", root.actions))

exclude_field(suffix) == suffix = "_padding"
\* The widths of the fields of every header instance, and a field for its validity.
read_fields(so0, root, hash) ==
    LET type(h) == {x \in Range(root.header_types) : x.name = h.header_type}
        fields(h) == SelectSeq((CHOOSE x \in type(h) : TRUE).fields, LAMBDA f : ~exclude_field(f[1]))
        one(so, h) ==
            IF type(h) = {} \/ (\E i \in DOMAIN fields(h) : fields(h)[i][1] = "$valid$") THEN Stop(so, "ERROR")
            ELSE [so EXCEPT !.fields_bitwidth =
                    Bind(FoldLeft(LAMBDA w, f : LET u == w IN Bind(u, <<h.name, f[1]>>, f[2]), @, fields(h)), <<h.name, "$valid$">>, 1)]
    IN IF ~Has(root, {"headers", "header_types"}) THEN Stop(so0, "ERROR") ELSE Over(one, so0, root.headers)

\* The objects of all pipelines, each pipeline reserving its ids in turn, sorted by name.
extract_from_pipelines(so0, root, key, t) ==
    LET bad == "pipelines" \notin DOMAIN root \/ (\E i \in DOMAIN root.pipelines : key \notin DOMAIN root.pipelines[i])
        so == Over(LAMBDA s, p : pre_reserve_ids(s, t, p[key]), so0, root.pipelines)
        all == FoldLeft(LAMBDA acc, p : acc \o p[key], <<>>, root.pipelines)
    IN IF bad THEN [so |-> Stop(so0, "ERROR"), objects |-> <<>>] ELSE [so |-> so, objects |-> SortSeq(all, LAMBDA x, y : x.name < y.name)]
Bmv2ActProf(r, p) ==
    CASE r.so.rc # "SUCCESS" -> r.so
      [] ~Has(p, {"max_size"}) -> Stop(r.so, "ERROR")
      [] OTHER -> With(r.so, pi_p4info_act_prof_add(r.so.db, r.id, p.name, "selector" \in DOMAIN p, valueint(p.max_size)))
Bmv2ActProfs(so0, root, hash) ==
    LET all(found) == IF found.so.rc # "SUCCESS" THEN found.so
                      ELSE Over(LAMBDA so, p : Bmv2ActProf(request_id(so, p, "act_prof", hash), p),
                                With(found.so, pi_p4info_act_prof_init(found.so.db, Len(found.objects))), found.objects)
    IN all(extract_from_pipelines(so0, root, "action_profiles", "act_prof"))

match_type_from_str(type) == type \in {"valid", "exact", "lpm", "ternary", "range"}
Bmv2MatchField(so, id, t, i) ==
    LET f == t.key[i]
        name == IF f.match_type = "valid" THEN <<f.target[1], "$valid$">> ELSE f.target
    IN CASE ~Has(f, {"match_type", "target"}) -> Stop(so, "ERROR")
         [] ~match_type_from_str(f.match_type) -> Stop(so, "abort: match type")
         [] name \notin DOMAIN so.fields_bitwidth -> Stop(so, "ERROR")
         [] OTHER -> With(so, pi_p4info_table_add_match_field(so.db, id, i, name, f.match_type, so.fields_bitwidth[name]))
\* acting is the reader once the table has its fields and actions.
Bmv2Implementation(acting, id, t) ==
    LET prof == pi_p4info_any_id_from_name(acting.db, "act_prof", t.action_profile)
    IN CASE acting.rc # "SUCCESS" -> acting
         [] "type" \notin DOMAIN t -> Stop(acting, "ERROR")
         [] t.type = "simple" -> acting
         [] "action_profile" \notin DOMAIN t \/ prof = PI_INVALID_ID -> Stop(acting, "ERROR")
         [] OTHER -> With(acting, pi_p4info_table_set_implementation(pi_p4info_act_prof_add_table(acting.db, prof, id), id, prof))
Bmv2Table(r, t) ==
    LET id == r.id
        added == With(r.so, import_pragmas(pi_p4info_table_add(r.so.db, id, t.name, Len(t.key), Len(t.actions), valueint(t.max_size),
                                                Field(t, "entries", <<>>) # <<>>, t.support_timeout), id, t))
        keyed == Over(LAMBDA s, i : Bmv2MatchField(s, id, t, i), added, [i \in DOMAIN t.key |-> i])
        acting == Adding(LAMBDA d, a : pi_p4info_table_add_action(d, id, pi_p4info_any_id_from_name(d, "action", a), "TABLE_AND_DEFAULT"), keyed, t.actions)
    IN CASE r.so.rc # "SUCCESS" -> r.so
         [] ~Has(t, {"key", "actions", "max_size", "support_timeout"}) -> Stop(r.so, "ERROR")
         [] OTHER -> Bmv2Implementation(acting, id, t)
Bmv2Tables(so0, root, hash) ==
    LET all(found) == IF found.so.rc # "SUCCESS" THEN found.so
                      ELSE Over(LAMBDA so, t : Bmv2Table(request_id(so, t, "table", hash), t),
                                With(found.so, pi_p4info_table_init(found.so.db, Len(found.objects))), found.objects)
    IN all(extract_from_pipelines(so0, root, "tables", "table"))

\* Counters and meters: the direct ones are told apart first, to reserve ids and count, then all are added in the order of names.
Arrays(so0, list, plain, direct, init(_, _), init_direct(_, _), one(_, _)) ==
    LET ds == SelectSeq(list, LAMBDA c : c.is_direct)
        ps == SelectSeq(list, LAMBDA c : ~c.is_direct)
        all(so) == IF so.rc # "SUCCESS" THEN so ELSE Over(one, With(so, init_direct(so.db, Len(ds))), sort_json_array(list))
        Direct(so) == IF so.rc # "SUCCESS" THEN so ELSE pre_reserve_ids(With(so, init(so.db, Len(ps))), direct, ds)
    IN IF \E i \in DOMAIN list : "is_direct" \notin DOMAIN list[i] THEN Stop(so0, "ERROR")
       ELSE all(Direct(pre_reserve_ids(so0, plain, ps)))
Bound(so, c, add(_, _), id) ==
    LET table == pi_p4info_any_id_from_name(so.db, "table", c.binding)
    IN IF "binding" \notin DOMAIN c \/ table = PI_INVALID_ID THEN Stop(so, "ERROR")
       ELSE With(so, import_pragmas(pi_p4info_table_add_direct_resource(add(so.db, table), table, id), id, c))
Bmv2Counter(r, c) ==
    CASE r.so.rc # "SUCCESS" -> r.so
      [] c.is_direct -> Bound(r.so, c, LAMBDA d, t : pi_p4info_direct_counter_add(d, r.id, c.name, "BOTH", valueint(c.size), t), r.id)
      [] OTHER -> With(r.so, import_pragmas(pi_p4info_counter_add(r.so.db, r.id, c.name, "BOTH", valueint(c.size)), r.id, c))
Bmv2Counters(so0, root, hash) ==
    LET one(so, c) == IF ~Has(c, {"size"}) THEN Stop(so, "ERROR")
                      ELSE Bmv2Counter(request_id(so, c, IF c.is_direct THEN "direct_counter" ELSE "counter", hash), c)
    IN IF "counter_arrays" \notin DOMAIN root THEN Stop(so0, "ERROR")
       ELSE Arrays(so0, root.counter_arrays, "counter", "direct_counter", pi_p4info_counter_init, pi_p4info_direct_counter_init, one)
meter_unit_from_str(unit) == unit \in {"packets", "bytes"}
Bmv2Meter(r, c) ==
    LET unit == IF c.type = "packets" THEN "PACKETS" ELSE "BYTES"
    IN CASE r.so.rc # "SUCCESS" -> r.so
         [] c.is_direct -> Bound(r.so, c, LAMBDA d, t : pi_p4info_direct_meter_add(d, r.id, c.name, unit, "UNAWARE", valueint(c.size), t), r.id)
         [] OTHER -> With(r.so, import_pragmas(pi_p4info_meter_add(r.so.db, r.id, c.name, unit, "UNAWARE", valueint(c.size)), r.id, c))
Bmv2Meters(so0, root, hash) ==
    LET one(so, c) == CASE ~Has(c, {"size", "type"}) -> Stop(so, "ERROR")
                        [] ~meter_unit_from_str(c.type) -> Stop(so, "abort: meter unit")
                        [] OTHER -> Bmv2Meter(request_id(so, c, IF c.is_direct THEN "direct_meter" ELSE "meter", hash), c)
    IN IF "meter_arrays" \notin DOMAIN root THEN Stop(so0, "ERROR")
       ELSE Arrays(so0, root.meter_arrays, "meter", "direct_meter", pi_p4info_meter_init, pi_p4info_direct_meter_init, one)
Bmv2Digests(so, root, hash) == With(so, pi_p4info_digest_init(so.db, 0))

check_json_version(root) == "version" \in DOMAIN root /\ Len(root.version) = 2 /\ root.version[1] = 2 /\ root.version[2] >= 0
pi_bmv2_json_reader(root, hash) ==
    LET Then(so, read(_, _, _)) == LET s == so IN IF s.rc = "SUCCESS" THEN read(s, root, hash) ELSE s
        fields == Then(Then(Start, Bmv2Actions), read_fields)
        tables == Then(Then(fields, Bmv2ActProfs), Bmv2Tables)
    IN IF ~check_json_version(root) THEN Stop(Start, "ERROR")
       ELSE Then(Then(Then(tables, Bmv2Counters), Bmv2Meters), Bmv2Digests)
=============================================================================

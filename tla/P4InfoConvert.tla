---------------------------- MODULE P4InfoConvert ----------------------------
(***************************************************************************)
(* A P4Info on its way between formats, as pi_convert_p4info drives it and *)
(* as DeviceMgr (proto to database), the RPC client and the RPC server     *)
(* (database to native JSON to database) do: a text is read into a         *)
(* database, the database is written out again, and so on.                 *)
(***************************************************************************)
EXTENDS Bmv2Json

CONSTANTS Sources,   \* the texts to start from: [fmt, text, hash]
          MaxHops    \* bound on the number of times a database is written

VARIABLES source, fmt, text, rc, db, was, via
vars == <<source, fmt, text, rc, db, was, via>>

NoText == [fmt |-> "none"]
Init == /\ source \in Sources
        /\ fmt = source.fmt /\ text = source.text
        /\ rc = "unread" /\ db = pi_empty_config /\ was = pi_empty_config /\ via = <<>>

pi_add_config(f, t, hash) ==
    CASE f = "proto" -> p4info_proto_reader(t)
      [] f = "native" -> pi_native_json_reader(t)
      [] f = "bmv2" -> pi_bmv2_json_reader(t, hash)

\* A database that could not be read is freed.
Read == /\ rc = "unread"
        /\ \E r \in {pi_add_config(fmt, text, source.hash)} :
              /\ rc' = r.rc
              /\ db' = IF r.rc = "SUCCESS" THEN r.db ELSE pi_empty_config
              /\ was' = IF via = <<>> THEN db' ELSE was
        /\ text' = NoText
        /\ UNCHANGED <<source, fmt, via>>

Write(f) == /\ rc = "SUCCESS" /\ Len(via) < MaxHops
            /\ text' = IF f = "native" THEN pi_serialize_config(db) ELSE p4info_serialize_to_proto(db)
            /\ fmt' = f /\ via' = Append(via, f) /\ rc' = "unread" /\ db' = pi_empty_config
            /\ UNCHANGED <<source, was>>

Next == Read \/ Write("native") \/ Write("proto")
Spec == Init /\ [][Next]_vars

(***************************************************************************)
(* What a database says of a program                                       *)
(***************************************************************************)
Named(names) == SelectSeq(names, LAMBDA n : n # 0)
Plain(t, o) ==
    CASE t = "table" -> [o EXCEPT !.direct_resources = ID_VECTOR_GET(@), !.aliases = Named(@)]
      [] t = "act_prof" -> [o EXCEPT !.tables = ID_VECTOR_GET(@), !.aliases = Named(@)]
      [] OTHER -> [o EXCEPT !.aliases = Named(@)]
View(d) == [t \in Types |-> [n \in DOMAIN d[t].id_map |-> Plain(t, p4info_get_at(d, <<t, n>>))]]

\* What each format cannot say.  The native JSON: a size that is no C int.
NativeLoss(t, o) ==
    CASE t \in {"table", "act_prof"} -> [o EXCEPT !.max_size = valueint(@)]
      [] t \in {"counter", "direct_counter", "meter", "direct_meter"} -> [o EXCEPT !.size = valueint(@)]
      [] OTHER -> o
\* The proto: a second alias, the names of the fields of a digest, the size of a direct resource, a match on validity.
ProtoLoss(t, o) ==
    LET a == [o EXCEPT !.aliases = IF @ = <<>> THEN @ ELSE <<@[1]>>]
    IN CASE t = "digest" -> [a EXCEPT !.fields = [i \in DOMAIN @ |-> [@[i] EXCEPT !.name = 0]]]
         [] t \in {"direct_counter", "direct_meter"} -> [a EXCEPT !.size = 0]
         [] t = "table" -> [a EXCEPT !.match_fields = [i \in DOMAIN @ |-> [@[i] EXCEPT !.match_type = IF @ = "valid" THEN "exact" ELSE @]]]
         [] OTHER -> a
Loss(f, v) == [t \in Types |-> [n \in DOMAIN v[t] |-> IF f = "native" THEN NativeLoss(t, v[t][n]) ELSE ProtoLoss(t, v[t][n])]]

Nameless(v) == [t \in Types |-> [n \in DOMAIN v[t] |-> [v[t][n] EXCEPT !.aliases = <<>>]]]

NamesOf(o) == {o.name} \cup (Range(o.aliases) \ {0})
\* No two objects that are looked up together share a name or an alias.
Family == {{"action"}, {"table"}, {"act_prof"}, {"counter", "direct_counter"}, {"meter", "direct_meter"}, {"digest"}}
Objects(d, ts) == {<<t, i>> \in ts \X (1..3) : i \in DOMAIN d[t].vec.data}
Obj(d, k) == d[k[1]].vec.data[k[2]]
Clean(d) == \A ts \in Family : \A k, l \in Objects(d, ts) : k # l => NamesOf(Obj(d, k)) \cap NamesOf(Obj(d, l)) = {}

(***************************************************************************)
(* Properties                                                              *)
(***************************************************************************)
\* A database that was written in the native JSON or as a proto is read back without an error, and says of every object what it said
\* before, but for what the format cannot say and for an alias that is also another object's name (pi_serialize_config, the native and the proto readers, p4info_serialize_to_proto).
ConversionsKeepProgram ==
    /\ via # <<>> => rc \in {"unread", "SUCCESS"}
    /\ (via # <<>> /\ rc = "SUCCESS") =>
        LET kept == FoldLeft(LAMBDA v, f : LET u == v IN Loss(f, u), View(was), via)
        IN IF Clean(was) THEN View(db) = kept ELSE Nameless(View(db)) = Nameless(kept)

ById(list) == SortSeq(list, LAMBDA x, y : x.id[2] < y.id[2])
Tupled(d, structs) ==
    LET fs == convert_type_spec_to_digest_fields(d.type_spec, structs)
    IN [d EXCEPT !.type_spec = [kind |-> "tuple", members |-> [i \in DOMAIN fs |-> fs[i].bitwidth]]]
Canonical(p) == [k \in DOMAIN p |-> IF k = "structs" THEN <<>>
                                    ELSE IF k = "digests" THEN ById([i \in DOMAIN p[k] |-> Tupled(p[k][i], p.structs)])
                                    ELSE ById(p[k])]
\* No name or alias of a message occurs twice among the objects that are looked up together: an alias that does is refused.
Labels(l) == UNION {{<<i, "name", l[i].name>>} \cup (IF l[i].alias = 0 THEN {} ELSE {<<i, "alias", l[i].alias>>}) : i \in DOMAIN l}
Distinct(l) == \A x, y \in Labels(l) : x # y => x[3] # y[3]
CleanText(p) == /\ Distinct(p.actions) /\ Distinct(p.tables) /\ Distinct(p.action_profiles) /\ Distinct(p.digests)
                /\ Distinct(p.counters \o p.direct_counters) /\ Distinct(p.meters \o p.direct_meters)
\* The database made from the P4Info a controller pushes answers every query with what that message says: written out again through the
\* getters it is the same message, its lists in the order of the ids (p4info_proto_reader, the getters of src/p4info).
ProtoIsKept == (source.fmt = "proto" /\ via = <<>> /\ rc = "SUCCESS" /\ CleanText(source.text)) => p4info_serialize_to_proto(db) = Canonical(source.text)

\* A program is not changed by the formats it goes through.
FormatsKeepProgram == ConversionsKeepProgram /\ ProtoIsKept

Width(f) == CASE f.match_type \in {"valid", "exact"} -> 1 [] f.match_type = "lpm" -> 1 [] OTHER -> 2
FieldBytes(f) == {f.offset + i : i \in 0..(Width(f) * nbytes(f.bitwidth) + (IF f.match_type = "lpm" THEN 4 ELSE 0) - 1)}
ParamBytes(f) == {f.offset + i : i \in 0..(nbytes(f.bitwidth) - 1)}
\* The fields tile the buffer: each byte belongs to one field.
Tiles(fields, Bytes(_), size) ==
    /\ UNION {Bytes(fields[i]) : i \in DOMAIN fields} = 0..(size - 1)
    /\ \A i, j \in DOMAIN fields : i # j => Bytes(fields[i]) \cap Bytes(fields[j]) = {}

LookUp(d, t, name) == CASE t \in {"counter", "direct_counter"} -> pi_p4info_counter_id_from_name(d, name)
                        [] t \in {"meter", "direct_meter"} -> pi_p4info_meter_id_from_name(d, name)
                        [] OTHER -> pi_p4info_any_id_from_name(d, t, name)
\* Every database a reader returns can be used: the id map points into the memory the vector has now, iteration gives every object once in the
\* order of the ids, a name or an alias leads to the object that has it, and the offsets of match fields and of action parameters lay them side
\* by side in the buffers of a match key and of action data (p4info_struct.c, vector.c, tables.c, actions.c).
DatabaseIsUsable ==
    rc = "SUCCESS" =>
        /\ \A t \in Types : /\ db[t].is_init /\ Cardinality(DOMAIN db[t].id_map) = num_res(db, t)
                            /\ \A n \in DOMAIN db[t].id_map : Pointer(db, <<t, n>>)[1] = db[t].vec.moved /\ p4info_get_at(db, <<t, n>>).id = <<t, n>>
                            /\ {id[2] : id \in Range(Each(db, t))} = DOMAIN db[t].id_map /\ Len(Each(db, t)) = num_res(db, t)
        /\ \A ts \in Family : \A k \in Objects(db, ts) : \A name \in NamesOf(Obj(db, k)) :
               LET id == LookUp(db, k[1], name)
               IN pi_p4info_is_valid_id(db, id) /\ name \in NamesOf(p4info_get_at(db, id)) /\ (Clean(db) => id = Obj(db, k).id)
        /\ \A n \in DOMAIN db["table"].id_map :
               LET t == p4info_get_at(db, <<"table", n>>)
               IN /\ Len(t.match_fields) = t.num_match_fields /\ Len(t.actions) = t.num_actions
                  /\ Tiles(t.match_fields, FieldBytes, t.match_key_size)
                  /\ \A i \in DOMAIN t.match_fields : LET f == t.match_fields[i] IN
                         /\ pi_p4info_table_match_field_offset(db, t.id, f.id) = f.offset /\ pi_p4info_table_match_field_bitwidth(db, t.id, f.id) = f.bitwidth
                         /\ pi_p4info_table_match_field_id_from_name(db, t.id, pi_p4info_table_match_field_name_from_id(db, t.id, f.id)) = f.id
        /\ \A n \in DOMAIN db["action"].id_map :
               LET a == p4info_get_at(db, <<"action", n>>)
               IN /\ Len(a.params) = a.num_params /\ Tiles(a.params, ParamBytes, pi_p4info_action_data_size(db, a.id))
                  /\ \A i \in DOMAIN a.params : /\ pi_p4info_action_param_offset(db, a.id, a.params[i].id) = a.params[i].offset
                                                /\ pi_p4info_action_param_id_from_name(db, a.id, a.params[i].name) = a.params[i].id
        /\ \A n \in DOMAIN db["act_prof"].id_map : \A id \in Range(pi_p4info_act_prof_get_actions(db, <<"act_prof", n>>)) :
               pi_p4info_act_prof_is_action_of(db, <<"act_prof", n>>, id)
        /\ \A n \in DOMAIN db["digest"].id_map :
               LET d == p4info_get_at(db, <<"digest", n>>)
               IN Len(d.fields) = d.num_fields /\ pi_p4info_digest_data_size(db, d.id) = FoldLeft(LAMBDA s, f : s + nbytes(f.bitwidth), 0, d.fields)

\* The same program with the objects of each list in the opposite order.
TurnedPipe(x) == [k \in DOMAIN x |-> Reverse(x[k])]
Turned(p) == [k \in DOMAIN p |-> CASE k \in {"actions", "counter_arrays", "meter_arrays"} -> Reverse(p[k])
                                   [] k = "pipelines" -> Reverse([i \in DOMAIN p[k] |-> TurnedPipe(p[k][i])])
                                   [] OTHER -> p[k]]
Lists(p) == {p.actions, p.counter_arrays, p.meter_arrays} \cup {x.tables : x \in Range(p.pipelines)} \cup {x.action_profiles : x \in Range(p.pipelines)}
SingleIds(p) == \A l \in Lists(p) : \A i \in DOMAIN l : Len(find_annotation_id(l[i])) <= 1
\* The ids the bmv2 reader gives out depend on the names and the id pragmas alone, not on the order of the objects in the file, so long as a
\* pragma names one id; and an object has one of the ids of its pragma unless other objects have them all (request_id, sort_json_array).
IdsAreStable ==
    (source.fmt = "bmv2" /\ via = <<>> /\ rc = "SUCCESS") =>
        /\ SingleIds(source.text) => \A r \in {pi_bmv2_json_reader(Turned(source.text), source.hash)} : r.rc = "SUCCESS" /\ View(r.db) = View(db)
        /\ \A t \in Types : \A i \in DOMAIN db[t].vec.data :
               LET o == db[t].vec.data[i]
                   ids == find_annotation_id([pragmas |-> o.annotations])
               IN (ids # <<>> /\ ~ \E j \in DOMAIN ids : o.id = <<t, ids[j]>>) => \A j \in DOMAIN ids : ids[j] \in DOMAIN db[t].id_map
=============================================================================

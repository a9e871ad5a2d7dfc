--------------------------- MODULE MCP4InfoConvert ---------------------------
(***************************************************************************)
(* P4InfoConvert for TLC: P4Info messages that vary the fields of a key,   *)
(* the parameters of an action, names and aliases, references between      *)
(* objects and sizes; native texts with a field left out or added; and bmv2*)
(* files that vary the pragmas, the hash of the names and the references.  *)
(***************************************************************************)
EXTENDS P4InfoUse

Upto(S, n) == UNION {[1..k -> S] : k \in 0..n}
Nil == PI_INVALID_ID
Pre(id, name, alias) == [id |-> id, name |-> name, alias |-> alias, annotations |-> <<>>]
Act(n, name, ws) == Pre(<<"action", n>>, name, 0) @@ [params |-> [i \in DOMAIN ws |-> [id |-> i, name |-> 20 + i, bitwidth |-> ws[i]]]]
Ref(n) == [id |-> <<"action", n>>, scope |-> "TABLE_AND_DEFAULT"]
Tab(n, name, alias) ==
    Pre(<<"table", n>>, name, alias) @@
    [match_fields |-> <<>>, action_refs |-> <<Ref(1)>>, const_default_action_id |-> Nil, implementation_id |-> Nil, direct_resource_ids |-> <<>>,
     size |-> 3, is_const_table |-> FALSE, idle_timeout_behavior |-> "NO_TIMEOUT"]
Prof(n, name) == Pre(<<"act_prof", n>>, name, 0) @@ [table_ids |-> <<>>, with_selector |-> TRUE, size |-> 2, max_group_size |-> 1]
Ctr(n, name, alias) == Pre(<<"counter", n>>, name, alias) @@ [unit |-> "BOTH", size |-> 2]
DCtr(n, name, alias) == Pre(<<"direct_counter", n>>, name, alias) @@ [unit |-> "BYTES", direct_table_id |-> <<"table", 1>>]
Mtr(n, name) == Pre(<<"meter", n>>, name, 0) @@ [unit |-> "PACKETS", size |-> 2]
DMtr(n, name) == Pre(<<"direct_meter", n>>, name, 0) @@ [unit |-> "BYTES", direct_table_id |-> <<"table", 1>>]
Dig(n, name, spec) == Pre(<<"digest", n>>, name, 0) @@ [type_spec |-> spec]
Base == [actions |-> <<Act(1, 1, <<9>>)>>, tables |-> <<Tab(1, 1, 0)>>, action_profiles |-> <<>>, counters |-> <<>>, direct_counters |-> <<>>,
         meters |-> <<>>, direct_meters |-> <<>>, digests |-> <<>>, structs |-> (7 :> <<[name |-> 31, bitwidth |-> 9], [name |-> 32, bitwidth |-> 1]>>)]
WithTable(t) == [Base EXCEPT !.tables = <<t>>]

Mfs == [match_type : {"exact", "lpm", "ternary", "range", "UNSPECIFIED"}, bitwidth : {1, 3, 4}]
Keys == {WithTable([Tab(1, 1, 0) EXCEPT !.match_fields = [i \in DOMAIN s |-> s[i] @@ [id |-> i, name |-> 10 + i]]]) : s \in Upto(Mfs, 2)}
Params == {[Base EXCEPT !.actions = <<Act(2, 2, <<>>), Act(1, 1, ws)>>] : ws \in Upto({1, 8, 9}, 3)}
Defaults == {WithTable([Tab(1, 1, 0) EXCEPT !.const_default_action_id = d, !.action_refs = r, !.is_const_table = c, !.idle_timeout_behavior = b, !.size = n]) :
                d \in {Nil, <<"action", 1>>, <<"action", 2>>}, r \in {<<>>, <<Ref(1)>>, <<Ref(1), [Ref(2) EXCEPT !.scope = "DEFAULT_ONLY"]>>, <<[Ref(1) EXCEPT !.scope = "OTHER"]>>},
                c \in BOOLEAN, b \in {"NO_TIMEOUT", "NOTIFY_CONTROL"}, n \in {3, 30}}
Namings == {[Base EXCEPT !.tables = <<Tab(i, 1, a), Tab(3 - i, 2, b)>>] : i \in {1, 2}, a \in {0, 2, 5}, b \in {0, 1, 5, 6}}
               \cup {[Base EXCEPT !.counters = <<Ctr(1, 1, a)>>, !.direct_counters = <<DCtr(1, 2, b)>>] : a \in {0, 2, 5}, b \in {0, 1, 5}}
Res == {<<"direct_counter", 1>>, <<"direct_meter", 1>>}
Refs == {[Base EXCEPT !.tables = <<[Tab(1, 1, 0) EXCEPT !.direct_resource_ids = r, !.implementation_id = <<"act_prof", 1>>], Tab(2, 2, 0)>>,
                      !.action_profiles = <<[Prof(1, 1) EXCEPT !.table_ids = ts, !.size = n, !.with_selector = w]>>,
                      !.direct_counters = <<DCtr(1, 1, 0)>>, !.direct_meters = <<DMtr(1, 1)>>] :
            r \in Upto(Res, 3), ts \in Upto({<<"table", 1>>, <<"table", 2>>}, 2), n \in {2, 30}, w \in BOOLEAN}
Specs == {[kind |-> "struct", name |-> 7], [kind |-> "struct", name |-> 8], [kind |-> "bit", bitwidth |-> 9], [kind |-> "bit", bitwidth |-> -1], [kind |-> "header"]}
             \cup {[kind |-> "tuple", members |-> m] : m \in Upto({1, 9}, 2)}
Units == {[Base EXCEPT !.counters = <<Ctr(2, 2, 0), [Ctr(1, 1, 0) EXCEPT !.unit = u, !.size = n]>>, !.meters = <<[Mtr(1, 1) EXCEPT !.unit = v]>>,
                       !.digests = <<Dig(1, 1, s)>>] : u \in {"BYTES", "NONE"}, v \in {"BYTES", "PACKETS", "NONE"}, n \in {2, 30}, s \in Specs}
ProtoDocs == Keys \cup Params \cup Defaults \cup Namings \cup Refs \cup Units

\* Native texts: one with every kind of object, without one of its lists, with an object that lacks a field, with several aliases, and with a
\* match on validity.
Full == [Base EXCEPT !.actions = <<Act(1, 1, <<9>>)>>, !.tables = <<[Tab(1, 1, 5) EXCEPT !.match_fields = <<[id |-> 1, name |-> 11, match_type |-> "lpm", bitwidth |-> 9]>>]>>,
                     !.action_profiles = <<Prof(1, 1)>>, !.counters = <<Ctr(1, 1, 0)>>, !.direct_counters = <<DCtr(1, 2, 0)>>, !.meters = <<Mtr(1, 1)>>,
                     !.direct_meters = <<DMtr(1, 2)>>, !.digests = <<Dig(1, 1, [kind |-> "struct", name |-> 7])>>]
Validity(full) == [full EXCEPT !["table"][1].match_fields[1].match_type = "valid", !["table"][1].match_fields[1].bitwidth = 1]
Drop(f, k) == [x \in DOMAIN f \ {k} |-> f[x]]
Inner == [action |-> "params", table |-> "match_fields", digest |-> "fields"]
Texts(full) == {full} \cup {Drop(full, t) : t \in Types}
                   \cup UNION {{[full EXCEPT ![t][1] = Drop(@, k)] : k \in DOMAIN full[t][1]} : t \in Types}
                   \cup UNION {{[full EXCEPT ![t][1][Inner[t]][1] = Drop(@, k)] : k \in DOMAIN full[t][1][Inner[t]][1]} : t \in DOMAIN Inner}
                   \cup {[full EXCEPT !["table"][1].actions[1] = Drop(@, k)] : k \in {"id", "scope"}}
                   \cup {[full EXCEPT !["table"][1] = [aliases |-> a, annotations |-> <<<<"x">>>>] @@ @] : a \in {<<1>>, <<5, 6>>}}
                   \cup {Validity(full)}
FullText == pi_serialize_config(p4info_proto_reader(Full).db)
NativeTexts == Texts(FullText)

\* bmv2 files
Ids(s) == IF s = <<>> THEN <<<<"x">>>> ELSE <<<<"x">>, <<"id">> \o s>>
BAct(name, s) == [name |-> name, pragmas |-> Ids(s), runtime_data |-> <<[name |-> 21, bitwidth |-> 9]>>]
BTab(name, s) == [name |-> name, pragmas |-> Ids(s), key |-> <<[match_type |-> "lpm", target |-> <<"h", "f">>], [match_type |-> "valid", target |-> <<"h">>]>>,
                  actions |-> <<1>>, max_size |-> 3, support_timeout |-> FALSE, type |-> "simple"]
BCtr(name, d, s) == [name |-> name, pragmas |-> Ids(s), is_direct |-> d, size |-> 2, binding |-> 1]
BMtr(name, d, s) == [name |-> name, pragmas |-> Ids(s), is_direct |-> d, size |-> 2, binding |-> 1, type |-> "bytes"]
Bm == [version |-> <<2, 18>>, actions |-> <<BAct(1, <<>>)>>, headers |-> <<[name |-> "h", header_type |-> "ht"]>>,
       header_types |-> <<[name |-> "ht", fields |-> <<<<"f", 9>>, <<"_padding", 7>>>>]>>,
       pipelines |-> <<[tables |-> <<BTab(1, <<>>)>>, action_profiles |-> <<>>], [tables |-> <<>>, action_profiles |-> <<>>]>>,
       counter_arrays |-> <<>>, meter_arrays |-> <<>>]
Annotations == {<<>>, <<0>>, <<1>>, <<1, 2>>, <<2, 1>>, <<4>>}
Orders == {<<1, 2, 3>>, <<3, 1, 2>>}
BmActs == {[Bm EXCEPT !.actions = [i \in 1..3 |-> BAct(o[i], s[o[i]])]] : o \in Orders, s \in [1..3 -> Annotations \ {<<2, 1>>}]}
BmRes == {[Bm EXCEPT !.counter_arrays = <<BCtr(2, d, s), BCtr(1, TRUE, <<1>>), BCtr(3, TRUE, <<>>)>>, !.meter_arrays = <<BMtr(1, d, s), BMtr(2, ~d, <<2, 1>>)>>] : d \in BOOLEAN, s \in Annotations}
BmTabs == {[Bm EXCEPT !.pipelines = <<[tables |-> <<BTab(2, s)>>, action_profiles |-> <<[name |-> 3, max_size |-> 2, pragmas |-> Ids(u)]>>],
                                      [tables |-> <<[BTab(1, u) EXCEPT !.type = "indirect_ws"] @@ [action_profile |-> 3]>>,
                                       action_profiles |-> <<[name |-> 1, max_size |-> 30, selector |-> 1]>>]>>] : s \in Annotations, u \in Annotations}
BmOdd == {Drop(Bm, k) : k \in DOMAIN Bm}
             \cup {[Bm EXCEPT !.pipelines[1].tables[1] = Drop(@, k)] : k \in DOMAIN BTab(1, <<>>) \ {"name"}}
             \cup {[Bm EXCEPT !.pipelines[1].tables[1].key[1] = k] : k \in {[match_type |-> "lpm"], [match_type |-> "hash", target |-> <<"h", "f">>], [match_type |-> "exact", target |-> <<"h", "_padding">>]}}
             \cup {[Bm EXCEPT !.pipelines[1].tables[1].type = "indirect"], [Bm EXCEPT !.header_types[1].fields[1][1] = "$valid$"], [Bm EXCEPT !.headers[1].header_type = "x"],
                   [Bm EXCEPT !.version = <<1, 0>>], [Bm EXCEPT !.pipelines[1] = Drop(@, "tables")], [Bm EXCEPT !.pipelines[1] = Drop(@, "action_profiles")],
                   [Bm EXCEPT !.pipelines[1].tables[1].actions = <<9>>], [Bm EXCEPT !.pipelines[1].tables[1] = @ @@ [entries |-> <<1>>]],
                   [Bm EXCEPT !.actions[1] = Drop(@, "runtime_data")], [Bm EXCEPT !.pipelines[1].action_profiles = <<[name |-> 1]>>]}
             \cup {[Bm EXCEPT !.counter_arrays = <<Drop(BCtr(1, TRUE, <<>>), k)>>] : k \in {"is_direct", "size", "binding"}}
             \cup {[Bm EXCEPT !.meter_arrays = <<Drop(BMtr(1, TRUE, <<>>), k)>>] : k \in {"is_direct", "size", "binding", "type"}}
             \cup {[Bm EXCEPT !.meter_arrays = <<[BMtr(1, FALSE, <<>>) EXCEPT !.type = "other"]>>], [Bm EXCEPT !.counter_arrays = <<[BCtr(1, TRUE, <<>>) EXCEPT !.binding = 7]>>]}
Hashes == {[n \in 1..3 |-> 3], [n \in 1..3 |-> 4 - n]}

Text(f, t, h) == [fmt |-> f, text |-> t, hash |-> h]
NoHash == [n \in 1..3 |-> 0]
MCSources == {Text("proto", p, NoHash) : p \in ProtoDocs} \cup {Text("native", p, NoHash) : p \in NativeTexts}
                 \cup {Text("bmv2", p, h) : p \in BmActs \cup BmTabs \cup BmRes, h \in Hashes} \cup {Text("bmv2", p, NoHash) : p \in BmOdd}

\* Entries for the tables of the messages in Keys and of a native text with a match on validity: for a table with one field every string of
\* the right length and a few of a wrong one; for a table with two fields a few matches, in any order, twice and missing.
Strings(w) == [1..nbytes(w) -> Byte]
Exacts(S) == {[kind |-> "exact", value |-> v] : v \in S}
Lpms(S, w) == {[kind |-> "lpm", value |-> v, prefix_len |-> n] : v \in S, n \in 0..(w + 1)}
Ternaries(S) == {[kind |-> "ternary", value |-> v, mask |-> m] : v \in S, m \in S}
Ranges(S) == {[kind |-> "range", low |-> v, high |-> m] : v \in S, m \in S}
MatchesOf(f, S) == {[field_id |-> f.id] @@ m : m \in
    CASE f.match_type = "lpm" -> Lpms(S, f.bitwidth) [] f.match_type = "ternary" -> Ternaries(S) [] f.match_type = "range" -> Ranges(S) [] OTHER -> Exacts(S)}
Alien(f) == {[field_id |-> f.id, kind |-> k, value |-> Zeros(n)] : k \in {"exact"}, n \in {1, 3}} \cup {[field_id |-> 9, kind |-> "exact", value |-> <<0>>]}
\* Of a second field: one match that is allowed and one that is not.
Samples(f) ==
    LET hi == range_default_hi(f.bitwidth) IN
    {[field_id |-> f.id] @@ m : m \in
        CASE f.match_type = "lpm" -> {[kind |-> "lpm", value |-> range_default_lo(f.bitwidth), prefix_len |-> n] : n \in {0, 1}}
          [] f.match_type = "ternary" -> {[kind |-> "ternary", value |-> range_default_lo(f.bitwidth), mask |-> hi], [kind |-> "ternary", value |-> hi, mask |-> range_default_lo(f.bitwidth)]}
          [] f.match_type = "range" -> {[kind |-> "range", low |-> hi, high |-> hi], [kind |-> "range", low |-> hi, high |-> range_default_lo(f.bitwidth)]}
          [] OTHER -> {[kind |-> "exact", value |-> hi], [kind |-> "exact", value |-> hi \o <<0>>]}}
Matches(t) ==
    LET fs == t.match_fields IN
    CASE Len(fs) = 0 -> {<<>>, <<[field_id |-> 9, kind |-> "exact", value |-> <<0>>]>>}
      [] Len(fs) = 1 -> {<<>>} \cup {<<m>> : m \in MatchesOf(fs[1], Strings(fs[1].bitwidth)) \cup MatchesOf(fs[1], {Zeros(1), Zeros(3)}) \cup Alien(fs[1])}
      [] OTHER -> Upto(Samples(fs[1]) \cup Samples(fs[2]), 2)
\* Priorities vary where the key does not: the first sampled matches.
Used(s) == (s.fmt = "proto" /\ s.text \in Keys) \/ (s.fmt = "native" /\ "table" \in DOMAIN s.text /\ s.text["table"][1] = Validity(FullText)["table"][1])
MCEntries(s, t) ==
    IF ~Used(s) THEN {}
    ELSE {[is_default_action |-> FALSE, priority |-> p, match |-> m] : p \in IF Len(t.match_fields) = 1 THEN {IF NeedsPriority(t) THEN 1 ELSE 0} ELSE {-1, 0, 1}, m \in Matches(t)}
         \cup {[is_default_action |-> TRUE, priority |-> p, match |-> m] : p \in {0, 1}, m \in {<<>>, <<[field_id |-> 1, kind |-> "exact", value |-> <<0>>]>>}}
Args(p) == {[param_id |-> p.id, value |-> v] : v \in {Zeros(1), Zeros(4), range_default_hi(p.bitwidth), [Zeros(nbytes(p.bitwidth)) EXCEPT ![1] = 2]}}
MCArguments(s, a) ==
    IF s.fmt # "proto" \/ s.text \notin Params THEN {}
    ELSE {<<>>} \cup UNION {[1..k -> UNION {Args(a.params[i]) : i \in DOMAIN a.params}] : k \in {Len(a.params), 1}}

\* Packets for one of the messages: headers of up to three fields, every subset of the fields in order, every value.
MCPacketHeaders(s) == IF s.fmt = "proto" /\ s.text = Base THEN {w \in Upto(1..5, 3) : SumOf(w) <= 9} ELSE {}
MCMetadata(widths) ==
    LET ids(S) == SetToSortSeq(S, LAMBDA a, b : a < b)
        values(w) == {v \in Strings(w) : Num(v) < 2 ^ w}
    IN UNION {{[i \in DOMAIN ids(S) |-> [id |-> ids(S)[i], value |-> vs[ids(S)[i]]]] :
                   vs \in {v \in [S -> UNION {values(widths[k]) : k \in S}] : \A k \in S : v[k] \in values(widths[k])}} : S \in SUBSET DOMAIN widths}
=============================================================================

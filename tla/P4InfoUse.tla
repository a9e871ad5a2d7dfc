----------------------------- MODULE P4InfoUse -----------------------------
(***************************************************************************)
(* A P4Info database in use: DeviceMgr packs the entries and the action    *)
(* data of Write messages by it and unpacks them for Read messages, and    *)
(* PacketIOMgr packs and unpacks the metadata of packets by the headers of *)
(* the same P4Info.                                                        *)
(***************************************************************************)
EXTENDS P4InfoConvert, PacketBits

CONSTANTS Entries(_, _),       \* the table entries to write to a table of a source: [is_default_action, priority, match]
          Arguments(_, _),     \* the lists of parameters for an action of a source
          PacketHeaders(_),    \* the packet headers of a source
          Metadata(_)          \* the metadata of packets with a header

VARIABLE msg   \* the last message, and what became of it

useVars == <<vars, msg>>
NoMsg == [kind |-> "none"]
UseInit == Init /\ msg = NoMsg
Convert == msg = NoMsg /\ Next /\ UNCHANGED msg
\* A device uses the database it read from the message it was given.
Ready == rc = "SUCCESS" /\ via = <<>> /\ msg = NoMsg
WriteEntry == /\ Ready
              /\ \E n \in DOMAIN db["table"].id_map : \E e \in Entries(source, p4info_get_at(db, <<"table", n>>)) :
                     msg' = [kind |-> "entry", id |-> <<"table", n>>, asked |-> e, got |-> construct_match_key(db, <<"table", n>>, e)]
              /\ UNCHANGED vars
WriteAction == /\ Ready
               /\ \E n \in DOMAIN db["action"].id_map : \E ps \in Arguments(source, p4info_get_at(db, <<"action", n>>)) :
                      msg' = [kind |-> "action", id |-> <<"action", n>>, asked |-> ps, got |-> construct_action_data(db, <<"action", n>>, ps)]
               /\ UNCHANGED vars
SendPacket == /\ Ready
              /\ \E widths \in PacketHeaders(source) : \E m \in Metadata(widths) : \E payload \in {<<>>, <<1>>} :
                     msg' = [kind |-> "packet", id |-> widths, asked |-> m, payload |-> payload, got |-> packet_out_send(widths, m, payload)]
              /\ UNCHANGED vars
UseNext == Convert \/ WriteEntry \/ WriteAction \/ SendPacket
UseSpec == UseInit /\ [][UseNext]_useVars

(***************************************************************************)
(* The meaning of strings and matches, on numbers                          *)
(***************************************************************************)
Num(s) == FoldLeft(LAMBDA n, b : n * 2 ^ CHAR_BIT + b, 0, s)
Fits(s, w) == Len(s) = nbytes(w) /\ Num(s) < 2 ^ w
Bit(n, i) == (n \div 2 ^ i) % 2
WholeBytes(f) == f.bitwidth % CHAR_BIT = 0
FullRange(f, mf) == Num(mf.low) = 0 /\ Num(mf.high) = 2 ^ f.bitwidth - 1
KindOf(f) == IF f.match_type = "valid" THEN "exact" ELSE f.match_type
\* A match P4Runtime allows for a field: it fits, matches something, has no set bit that does not count, and does not match everything.
Canonic(f, mf) ==
    /\ mf.kind = KindOf(f)
    /\ CASE mf.kind = "exact" -> Fits(mf.value, f.bitwidth)
         [] mf.kind = "lpm" -> /\ Fits(mf.value, f.bitwidth) /\ mf.prefix_len \in 1..f.bitwidth
                               /\ Num(mf.value) % 2 ^ (f.bitwidth - mf.prefix_len) = 0
         [] mf.kind = "ternary" -> /\ Fits(mf.value, f.bitwidth) /\ Fits(mf.mask, f.bitwidth) /\ Num(mf.mask) # 0
                                   /\ \A i \in 0..(f.bitwidth - 1) : Bit(Num(mf.value), i) <= Bit(Num(mf.mask), i)
         [] mf.kind = "range" -> Fits(mf.low, f.bitwidth) /\ Fits(mf.high, f.bitwidth) /\ Num(mf.low) <= Num(mf.high) /\ ~FullRange(f, mf)
\* A width that is not a whole number of bytes leaves two cases open: a range over all values, which has to be left out of an entry, may be taken
\* as a match, and a prefix may be refused.
AllValues(f, mf) == mf.kind = "range" /\ KindOf(f) = "range" /\ Fits(mf.low, f.bitwidth) /\ Fits(mf.high, f.bitwidth) /\ FullRange(f, mf)
Allowed(f, mf) == Canonic(f, mf) \/ (~WholeBytes(f) /\ AllValues(f, mf))
Certain(f, mf) == Canonic(f, mf) /\ (mf.kind = "lpm" => WholeBytes(f))
NeedsPriority(t) == \E f \in Range(t.match_fields) : f.match_type \in {"ternary", "range"}
Mentioned(match, f) == {mf \in Range(match) : mf.field_id = f.id}
EntryOf(t, e, Match(_, _)) ==
    IF e.is_default_action THEN e.match = <<>> /\ e.priority = 0
    ELSE /\ \A i, j \in DOMAIN e.match : i # j => e.match[i].field_id # e.match[j].field_id
         /\ \A i \in DOMAIN e.match : \E f \in Range(t.match_fields) : f.id = e.match[i].field_id /\ Match(f, e.match[i])
         /\ \A f \in Range(t.match_fields) : KindOf(f) = "exact" => Mentioned(e.match, f) # {}
         /\ IF NeedsPriority(t) THEN e.priority # 0 ELSE e.priority <= 0
\* What a Read may return for a field: the match that was written; for a range of such a width over all values, written or left out, the range
\* or nothing.
MayRead(match, f) ==
    IF f.match_type = "range" /\ ~WholeBytes(f) /\ \A mf \in Mentioned(match, f) : FullRange(f, mf)
    THEN {{}, {[field_id |-> f.id, kind |-> "range", low |-> range_default_lo(f.bitwidth), high |-> range_default_hi(f.bitwidth)]}}
    ELSE {Mentioned(match, f)}

(***************************************************************************)
(* Properties                                                              *)
(***************************************************************************)
\* An accepted entry has only matches P4Runtime allows, and an entry with only such matches is accepted; a Read of an accepted entry returns the
\* matches that were written, whatever their order, and no other, so no two entries that match differently share a key.  Where the width of a
\* field is not a whole number of bytes the code departs from P4Runtime in two ways, which are allowed and not asked for: a prefix may be refused,
\* and a range over all values may be accepted and read back.  An action's parameters come back as they were written unless one was given twice
\* (construct_match_key, parse_match_key, validate_action_data).
EntriesAreFaithful ==
    /\ msg.kind = "entry" =>
           LET t == p4info_get_at(db, msg.id)
           IN /\ msg.got.code = "OK" => EntryOf(t, msg.asked, Allowed)
              /\ EntryOf(t, msg.asked, Certain) => msg.got.code = "OK"
              /\ (msg.got.code = "OK" /\ ~msg.asked.is_default_action) =>
                     LET back == parse_match_key(db, msg.id, msg.got.key)
                     IN /\ Len(back.match) = Cardinality(Range(back.match))
                        /\ \A f \in Range(t.match_fields) : Mentioned(back.match, f) \in MayRead(msg.asked.match, f)
                        /\ \A mf \in Range(back.match) : \E f \in Range(t.match_fields) : f.id = mf.field_id
                        /\ back.priority = IF msg.asked.priority > 0 THEN msg.asked.priority ELSE 0
    /\ msg.kind = "action" =>
           LET a == p4info_get_at(db, msg.id)
               once == \A i, j \in DOMAIN msg.asked : i # j => msg.asked[i].param_id # msg.asked[j].param_id
               ok == /\ Len(msg.asked) = Len(a.params)
                     /\ \A i \in DOMAIN msg.asked : \E p \in Range(a.params) : p.id = msg.asked[i].param_id /\ Fits(msg.asked[i].value, p.bitwidth)
           IN /\ (msg.got.code = "OK") = ok
              /\ (ok /\ once) => LET back == parse_action_data(db, msg.id, msg.got.data)
                                 IN /\ Range(back) = Range(msg.asked)
                                    /\ \A i \in DOMAIN back : back[i].param_id = a.params[i].id

FieldBits(pkt, widths, k) ==
    LET len == compute_nbytes(widths)
        end == SumOf(SubSeq(widths, 1, k))
    IN (Num(SubSeq(pkt, 1, len)) \div 2 ^ (len * CHAR_BIT - end)) % 2 ^ widths[k]
Given(m, k) == {Num(m[i].value) : i \in {i \in DOMAIN m : m[i].id = k}}
\* A packet-out carries each metadata field in its own bits, zero for a field left out, when the fields are given in the order of the header;
\* a packet-in with these bits gives the payload and the fields back, up to the first field before which the fields' odd bits add up to more
\* than a byte (PacketOutMutate, PacketInMutate, generic_deparse, generic_extract).
PacketsAreFaithful ==
    msg.kind = "packet" =>
        LET widths == msg.id
            in == PacketIn(widths, msg.got)
            value(k) == IF Given(msg.asked, k) = {} THEN 0 ELSE CHOOSE v \in Given(msg.asked, k) : TRUE
        IN /\ \A k \in DOMAIN widths : FieldBits(msg.got, widths, k) = value(k)
           /\ Len(msg.got) = compute_nbytes(widths) + Len(msg.payload)
           /\ in.ok /\ in.payload = msg.payload
           /\ \A k \in DOMAIN widths : StartOf(widths, k).bit <= CHAR_BIT =>
                  Len(in.metadata[k]) = nbytes(widths[k]) /\ Num(in.metadata[k]) = value(k)
=============================================================================

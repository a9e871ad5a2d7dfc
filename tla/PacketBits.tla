----------------------------- MODULE PacketBits -----------------------------
(***************************************************************************)
(* The metadata headers of packet-in and packet-out messages               *)
(* (packet_io_mgr.cpp): fields of any width, side by side without padding. *)
(* A header is the sequence of the widths of its fields, and its fields are*)
(* numbered from 1.  Shifting a byte by a negative number is undefined in  *)
(* C++, and so is what a byte computed from it holds (Undefined).          *)
(***************************************************************************)
EXTENDS EntryBytes

SumOf(widths) == FoldLeft(LAMBDA s, w : s + w, 0, widths)
compute_nbytes(widths) == nbytes(SumOf(widths))

\* A byte shifted, and cut when it is stored in a char.
Undefined == -1
Shl(b, n) == IF b = Undefined \/ n < 0 THEN Undefined ELSE (b * 2 ^ n) % 2 ^ CHAR_BIT
Shr(b, n) == IF b = Undefined \/ n < 0 THEN Undefined ELSE b \div 2 ^ n
Both(a, b) == IF Undefined \in {a, b} THEN Undefined ELSE a | b
LowBits(b, n) == IF b = Undefined THEN Undefined ELSE b % 2 ^ n

\* data starts with the byte the field starts in.
generic_extract(data, bit_offset, bitwidth) ==
    LET n == nbytes(bitwidth)
        dst_offset == n * CHAR_BIT - bitwidth
        offset == bit_offset - dst_offset
        next(i) == Shr(data[i + 1], CHAR_BIT - offset)
        byte(i) == CASE offset = 0 -> data[i]
                     [] offset > 0 -> IF i < n THEN Both(Shl(data[i], offset), next(i)) ELSE Shl(data[i], offset)
                     [] offset < 0 -> IF i = 1 THEN Shr(data[1], -offset) ELSE Both(Shl(data[i - 1], CHAR_BIT + offset), Shr(data[i], -offset))
        masked(i) == IF i = 1 THEN LowBits(byte(1), CHAR_BIT - dst_offset) ELSE byte(i)
        spills == offset > 0 /\ bit_offset + bitwidth > n * CHAR_BIT
    IN IF bit_offset = 0 /\ bitwidth % CHAR_BIT = 0 THEN SubSeq(data, 1, n)
       ELSE [i \in 1..n |-> IF i = n /\ spills THEN Both(masked(i), next(i)) ELSE masked(i)]

\* The bits of the last byte are added up from field to field, and a whole byte of them is not carried.
Step(at, w) == [pos |-> at.pos + w \div CHAR_BIT, bit |-> at.bit + (w % CHAR_BIT)]
StartOf(widths, k) == FoldLeft(Step, [pos |-> 0, bit |-> 0], SubSeq(widths, 1, k - 1))
PacketIn(widths, pkt) ==
    IF Len(pkt) < compute_nbytes(widths) THEN [ok |-> FALSE]
    ELSE [ok |-> TRUE, payload |-> SubSeq(pkt, compute_nbytes(widths) + 1, Len(pkt)),
          metadata |-> [k \in DOMAIN widths |-> LET at == StartOf(widths, k)
                                                IN generic_extract(SubSeq(pkt, at.pos + 1, Len(pkt)), at.bit, widths[k])]]

\* The bits of a byte before a field.
Kept_none(byte, hdr_offset) == 0
Kept(byte, hdr_offset) == byte - (byte % 2 ^ (CHAR_BIT - hdr_offset))
\* dst starts with the byte the field starts in; only that byte keeps the bits before the field.
generic_deparse(data, bitwidth, dst, hdr_offset) ==
    LET n == nbytes(bitwidth)
        hdr_bytes == nbytes(hdr_offset + bitwidth)
        offset == n * CHAR_BIT - bitwidth - hdr_offset
        kept == Kept(dst[1], hdr_offset)
        tail_offset == hdr_bytes * CHAR_BIT - (hdr_offset + bitwidth)
        left(i) == (IF i = 1 THEN kept ELSE 0) | Shl(data[i], offset) | (IF i < hdr_bytes THEN Shr(data[i + 1], CHAR_BIT - offset) ELSE 0)
        right(i) == CASE i = 1 -> kept | Shr(data[1], -offset)
                      [] 1 < i /\ i < hdr_bytes -> Shl(data[i - 1], CHAR_BIT + offset) | Shr(data[i], -offset)
                      [] i = hdr_bytes -> (IF n = 1 THEN 0 ELSE dst[i] % 2 ^ tail_offset) | Shl(data[i - 1], CHAR_BIT + offset)
        byte(i) == CASE hdr_offset = 0 /\ bitwidth % CHAR_BIT = 0 -> data[i]
                     [] offset = 0 /\ bitwidth % CHAR_BIT # 0 -> IF i = 1 THEN kept | data[1] ELSE data[i]
                     [] offset > 0 -> left(i)
                     [] offset < 0 -> right(i)
    IN IF bitwidth = 0 THEN dst ELSE [i \in DOMAIN dst |-> IF i <= hdr_bytes THEN byte(i) ELSE dst[i]]
Id2Offset(widths, k) ==
    LET nbits == SumOf(SubSeq(widths, 1, k - 1)) IN [byte_offset |-> nbits \div CHAR_BIT, bit_offset |-> nbits % CHAR_BIT, bitwidth |-> widths[k]]
\* metadata lists fields with their values, each as long as its field needs.
PacketOut(widths, metadata, payload) ==
    LET put(pkt, m) == LET was == pkt
                           at == Id2Offset(widths, m.id)
                       IN SubSeq(was, 1, at.byte_offset) \o generic_deparse(m.value, at.bitwidth, SubSeq(was, at.byte_offset + 1, Len(was)), at.bit_offset)
    IN FoldLeft(put, Zeros(compute_nbytes(widths)), metadata) \o payload
packet_out_send(widths, metadata, payload) == IF widths = <<>> THEN payload ELSE PacketOut(widths, metadata, payload)
=============================================================================

----------------------------- MODULE PackedBits -----------------------------
(***************************************************************************)
(* Bits in bytes: redhawk.bitbuffer, and from "SDDS" on the header of an   *)
(* SDDS packet.                                                            *)
(*                                                                         *)
(* redhawk.bitbuffer: bits kept in an array of bytes, most significant bit *)
(* first.  A bitbuffer is a view [data, bits, start] of such an array, and *)
(* a slice shares the array of its buffer.  The array is copied, read and  *)
(* searched a byte at a time where it can be.                              *)
(*                                                                         *)
(* A byte has ByteBits bits (8 in the code); the shifts and masks are the  *)
(* code's, written with powers of two.  Python's indices start at 0, so    *)
(* byte k of the array is data[k + 1].                                     *)
(***************************************************************************)
EXTENDS Integers, Sequences, SequencesExt, FiniteSetsExt, TLC

CONSTANT ByteBits

Pow2(n) == 2^n
LowBits(value, n) == value % Pow2(n)
ShiftRight(value, n) == value \div Pow2(n)

bits_to_bytes(bits) == (bits + ByteBits - 1) \div ByteBits

split_index(pos) == [byte |-> pos \div ByteBits, bit |-> pos % ByteBits]

At(data, byte) == data[byte + 1]
Put(data, byte, value) == [data EXCEPT ![byte + 1] = value]

----------------------------------------------------------------------------
(* Copying                                                                 *)

write_bits(dest, dbyte, dbit, value, bits) ==
    LET shift == ByteBits - (dbit + bits)
        old == At(dest, dbyte)
        left == ShiftRight(old, shift + bits) * Pow2(shift + bits)
    IN  Put(dest, dbyte, left + LowBits(value, bits) * Pow2(shift) + LowBits(old, shift))

read_split_byte(src, sbyte, offset) ==
    LowBits(ShiftRight(At(src, sbyte) * Pow2(ByteBits) + At(src, sbyte + 1),
                       ByteBits - offset), ByteBits)

read_split_bits(src, sbyte, offset, bits) ==
    LET last == offset + bits - 1
        value == At(src, sbyte) * Pow2(ByteBits) + At(src, sbyte + last \div ByteBits)
    IN  LowBits(ShiftRight(value, 2 * ByteBits - 1 - last), bits)

IndexError == "IndexError"

\* the bits before the first whole byte of the destination; the source is read
\* here even for no bits
LeftEdge(dest, d, src, s, count) ==
    LET nbits == Min({ByteBits - d.bit, count})
        next == s.bit + nbits
    IN  IF d.bit = 0
        THEN [dest |-> dest, dbyte |-> d.byte, sbyte |-> s.byte, sbit |-> s.bit, count |-> count]
        ELSE [dest |-> IF nbits = 0 THEN dest
                       ELSE write_bits(dest, d.byte, d.bit,
                                       read_split_bits(src, s.byte, s.bit, nbits), nbits),
              dbyte |-> d.byte + 1, sbyte |-> s.byte + next \div ByteBits,
              sbit |-> next % ByteBits, count |-> count - nbits]

\* the whole bytes of the destination, aligned with the source or not
WholeBytes(h, src) ==
    LET n == h.count \div ByteBits
    IN  [h EXCEPT !.dest = [k \in DOMAIN h.dest |->
                              IF k - 1 \in h.dbyte .. (h.dbyte + n - 1)
                              THEN LET pos == k - 1 - h.dbyte
                                   IN  IF h.sbit = 0 THEN At(src, h.sbyte + pos)
                                       ELSE read_split_byte(src, h.sbyte + pos, h.sbit)
                              ELSE h.dest[k]],
                  !.dbyte = @ + n, !.sbyte = @ + n]

RightEdge_Aligned(w, src) ==
    LET remain == w.count % ByteBits
    IN  IF remain = 0 THEN w.dest
        ELSE write_bits(w.dest, w.dbyte, 0,
                        read_split_bits(src, w.sbyte, 0, remain), remain)

RightEdge(w, src) ==
    LET remain == w.count % ByteBits
    IN  IF remain = 0 THEN w.dest
        ELSE write_bits(w.dest, w.dbyte, 0,
                        read_split_bits(src, w.sbyte, w.sbit, remain), remain)

\* no bits for an unaligned place, from the end of an array: the read of the
\* left edge is beyond it
Raises(dstart, src, sstart) ==
    split_index(dstart).bit > 0 /\ split_index(sstart).byte >= Len(src)

copy_bits(dest, dstart, src, sstart, count) ==
    IF Raises(dstart, src, sstart) THEN IndexError
    ELSE RightEdge(WholeBytes(LeftEdge(dest, split_index(dstart), src, split_index(sstart),
                                       count), src), src)

----------------------------------------------------------------------------
(* Reading                                                                 *)

exploded(value) == [k \in 1..ByteBits |-> LowBits(ShiftRight(value, ByteBits - k), 1)]

\* the iterator: the rest of a byte, whole bytes, the beginning of a byte
unpack(src, start, count) ==
    LET s == split_index(start)
        n == IF s.bit > 0 THEN Min({ByteBits - s.bit, count}) ELSE 0
        first == IF s.bit > 0 THEN SubSeq(exploded(At(src, s.byte)), s.bit + 1, s.bit + n) ELSE <<>>
        byte == IF s.bit > 0 THEN s.byte + 1 ELSE s.byte
        bytes == (count - n) \div ByteBits
        remain == (count - n) % ByteBits
    IN  first
        \o FlattenSeq([k \in 1..bytes |-> exploded(At(src, byte + k - 1))])
        \o (IF remain > 0 THEN SubSeq(exploded(At(src, byte + bytes)), 1, remain) ELSE <<>>)

getbit(b, pos) ==
    LET s == split_index(b.start + pos)
    IN  LowBits(ShiftRight(At(b.data, s.byte), ByteBits - 1 - s.bit), 1)

setbit(b, pos, value) ==
    LET s == split_index(b.start + pos)
    IN  [b EXCEPT !.data = write_bits(b.data, s.byte, s.bit, value, 1)]

Bits(b) == unpack(b.data, b.start, b.bits)

\* a slice with step 1 is a view of the same array
slice(b, start, stop) == [b EXCEPT !.bits = stop - start, !.start = b.start + start]

\* a slice is assigned from a buffer of its own length
assign(b, start, end, other) ==
    [b EXCEPT !.data = copy_bits(b.data, b.start + start, other.data, other.start, end - start)]

\* from an integer or an iterable: bits packed from the left, the last byte
\* filled with zeros
iterable_to_bytes(items) ==
    [k \in 1..bits_to_bytes(Len(items)) |->
        FoldLeft(LAMBDA v, j : 2 * v + (IF j <= Len(items) THEN items[j] ELSE 0), 0,
                 [i \in 1..ByteBits |-> (k - 1) * ByteBits + i])]

bitbuffer(items) == [data |-> iterable_to_bytes(items), bits |-> Len(items), start |-> 0]
biterator(value, bits) == [k \in 1..bits |-> LowBits(ShiftRight(value, bits - k), 1)]
toInt(b) == FoldLeft(LAMBDA v, x : 2 * v + x, 0, Bits(b))

add(b, other) ==
    LET n == b.bits + other.bits
        empty == [data |-> [k \in 1..bits_to_bytes(n) |-> 0], bits |-> n, start |-> 0]
    IN  assign(assign(empty, 0, b.bits, b), b.bits, n, other)

\* an aligned view hands out the rest of its array, whatever its own length
toBytes(b) ==
    LET s == split_index(b.start)
    IN  IF s.bit = 0 THEN SubSeq(b.data, s.byte + 1, Len(b.data))
        ELSE bitbuffer(Bits(b)).data

distance(b, other) ==
    LET x == Bits(b) y == Bits(other)
    IN  Cardinality({k \in 1..Min({Len(x), Len(y)}) : x[k] # y[k]})

\* the loop ends before the last position at which the pattern fits
find(b, pattern, start, end, maxDistance) ==
    LET last == Min({end, b.bits - pattern.bits})
        found == {p \in start..(last - 1) :
                    distance(pattern, slice(b, p, p + pattern.bits)) <= maxDistance}
    IN  IF found = {} THEN -1 ELSE Min(found)

\* take, skip, take, ...; nothing when both are zero is asked for
takeskip(b, take, skip, start, end) ==
    LET x == Bits(slice(b, start, end))
        RECURSIVE From(_)
        From(k) == IF k > Len(x) THEN <<>>
                   ELSE SubSeq(x, k, Min({k + take - 1, Len(x)})) \o From(k + take + skip)
    IN  bitbuffer(From(1))

----------------------------------------------------------------------------
\* the arguments of one operation; or a header, a setter and the header after it
VARIABLE input

NumBytes == 3
Size == NumBytes * ByteBits
Full == Pow2(ByteBits) - 1

\* arrays in which every bit can be told from its neighbours
Arrays ==
    {[k \in 1..NumBytes |-> v] : v \in {0, Full}}
    \union {iterable_to_bytes([k \in 1..Size |-> IF k = j THEN 1 ELSE 0]) : j \in 1..Size}

BitsInit ==
    \E src \in Arrays, fill \in {0, Full}, d \in 0..Size, s \in 0..Size, n \in 0..Size :
        /\ d + n <= Size /\ s + n <= Size
        /\ input = [dest |-> [data |-> [k \in 1..NumBytes |-> fill], bits |-> Size, start |-> 0],
                    src |-> [data |-> src, bits |-> n, start |-> s], at |-> d]

----------------------------------------------------------------------------
\* An assigned slice holds the bits of its source and no other bit changed:
\* _copy_bits against single bits, for every alignment and length; and so does
\* a single bit that is assigned.  An assignment that raises an IndexError had
\* no bits to copy.
AssignExact ==
    LET n == input.src.bits
        after == assign(input.dest, input.at, input.at + n, input.src)
        other == 1 - getbit(input.dest, input.at)
        one == setbit(input.dest, input.at, other)
    IN  /\ IF Raises(input.at, input.src.data, input.src.start) THEN n = 0
           ELSE \A p \in 0..(Size - 1) :
              getbit(after, p) =
                  IF p \in input.at .. (input.at + n - 1) THEN getbit(input.src, p - input.at)
                  ELSE getbit(input.dest, p)
        /\ input.at < Size => \A p \in 0..(Size - 1) :
              getbit(one, p) = IF p = input.at THEN other ELSE getbit(input.dest, p)

\* A view read bit by bit, iterated, converted to a number and back, moved to
\* bytes of its own, or joined to another one is the same bits.
ViewsAgree ==
    LET b == input.src
        x == [k \in 1..b.bits |-> getbit(b, k - 1)]
    IN  /\ Bits(b) = x
        /\ b.bits <= 8 => biterator(toInt(b), b.bits) = x
        /\ Bits(bitbuffer(x)) = x
        /\ Bits(add(b, input.dest)) = x \o Bits(input.dest)
        /\ LET w == toBytes(b) IN b.bits > 0 => SubSeq(unpack(w, 0, b.bits), 1, b.bits) = x
        /\ takeskip(b, 1, 1, 0, b.bits).bits = (b.bits + 1) \div 2

\* The place that find answers is the first at which the pattern lies, of all
\* places at which it fits.  It answers -1 when there is none, but also, against
\* the comment in find and its docstring, when the only one is the last place at
\* which the pattern fits.
FindExact ==
    LET whole == [input.src EXCEPT !.bits = Size, !.start = 0]
        pattern == bitbuffer(<<1, 0>>)
        x == Bits(whole)
        places == {p \in input.at .. (Size - 2) : x[p + 1] = 1 /\ x[p + 2] = 0}
        r == find(whole, pattern, input.at, Size, 0)
    IN  IF places \subseteq {Size - 2} THEN r = -1 ELSE r = Min(places)

----------------------------------------------------------------------------
(***************************************************************************)
(* ossie.utils.sdds.sdds_pkt: an SDDS packet as ctypes structures laid     *)
(* over a buffer.  The header is the set of its bits that are 1; a field   *)
(* is the sequence of the bits it occupies, most significant first, as the *)
(* _fields_ tables place it, and is written and read through them.  Two    *)
(* structures of the time tag share their bytes (ttag_info_union).         *)
(*                                                                         *)
(* Bit 8 * k + j is bit j (0 the least significant) of byte k.             *)
(***************************************************************************)
\* a big-endian number of n bytes at byte k
BigEndian(k, n) == [i \in 1..(8 * n) |-> 8 * (k + (i - 1) \div 8) + 7 - ((i - 1) % 8)]
\* bits hi..lo of byte k
BitField(k, hi, lo) == [i \in 1..(hi - lo + 1) |-> 8 * k + hi - i + 1]
Flag(k, bit) == BitField(k, bit, bit)

\* little-endian bit fields: the first field has the lowest bits
format_identifier ==
    [dm |-> BitField(0, 2, 0), ss |-> Flag(0, 3), of |-> Flag(0, 4), pp |-> Flag(0, 5),
     sos |-> Flag(0, 6), sf |-> Flag(0, 7),
     bps |-> BitField(1, 4, 0), vw |-> Flag(1, 5), snp |-> Flag(1, 6), cx |-> Flag(1, 7)]
format_identifier_size == 2

frame_sequence(k) == [seq |-> BigEndian(k, 2)]
frame_sequence_size == 2

msptr_data(k) == [msptr |-> BigEndian(k, 2), msdelta |-> BigEndian(k + 2, 2)]

ttag_info_struct(k) ==
    [peo |-> Flag(k, 3), pi |-> Flag(k, 4), sscv |-> Flag(k, 5), ttv |-> Flag(k, 6),
     msv |-> Flag(k, 7)]
ttag_info_union_size == 4

ttag_values(k) == [ttag |-> BigEndian(k, 8), ttage |-> BigEndian(k + 8, 4)]
ttag_values_size == 12

ssc_info_struct(k) == [dfdt |-> BigEndian(k, 4), freq |-> BigEndian(k + 4, 8)]
ssc_info_size == 12

ssd_data(k) == [ssd |-> BigEndian(k, 4)]
ssd_data_size == 4

aad_data(k) == [aad |-> BigEndian(k, 20)]
aad_data_size == 20

fsn_at == format_identifier_size
ttag_at == fsn_at + frame_sequence_size
tstamp_at == ttag_at + ttag_info_union_size
ssc_at == tstamp_at + ttag_values_size
ssd_at == ssc_at + ssc_info_size
aad_at == ssd_at + ssd_data_size

sdds_header ==
    format_identifier @@ frame_sequence(fsn_at) @@ msptr_data(ttag_at)
    @@ ttag_info_struct(ttag_at) @@ ttag_values(tstamp_at) @@ ssc_info_struct(ssc_at)
    @@ ssd_data(ssd_at) @@ aad_data(aad_at)

HEADER_LEN == 56

----------------------------------------------------------------------------
(* Reading and writing.  A value is the set of its bits that are 1, the    *)
(* bit of weight 2^w as w; ctypes drops the bits that do not fit.          *)

Width(f) == Len(sdds_header[f])

\* bits[i] has the weight Len(bits) - i
get(hdr, f) ==
    LET bits == sdds_header[f]
    IN  {Len(bits) - i : i \in {i \in DOMAIN bits : bits[i] \in hdr}}

set(hdr, f, value) ==
    LET bits == sdds_header[f]
    IN  (hdr \ ToSet(bits))
        \union {bits[i] : i \in {i \in DOMAIN bits : Len(bits) - i \in value}}

BitsOf(n) == {w \in 0..15 : (n \div 2^w) % 2 = 1}
Number(value) == FoldSet(LAMBDA w, s : s + 2^w, 0, value)

\* 32 bits per sample do not fit in five bits and are written as 31
set_bps(hdr, bps) == set(hdr, "bps", BitsOf(IF bps = 32 THEN 31 ELSE bps))
get_bps(hdr) == LET b == Number(get(hdr, "bps")) IN IF b = 31 THEN 32 ELSE b

set_flag(hdr, f, on) == set(hdr, f, IF on THEN {0} ELSE {})

\* the minute second pointer has 11 bits; its field has 16 and the flags of
\* ttag_info_struct lie in the other five
set_msptr(hdr, value) == set(hdr, "msptr", value \intersect 0..10)
get_msptr(hdr) == get(hdr, "msptr")

\* rates in units of 125 MHz / 16: from 125 MHz they are written divided by
\* 16 with the very-wideband flag
WidebandRate == 16
set_rate(hdr, rate) ==
    LET wide == rate >= WidebandRate
    IN  set(set_flag(hdr, "vw", wide), "freq", BitsOf(IF wide THEN rate \div 16 ELSE rate))
get_rate(hdr) ==
    LET r == Number(get(hdr, "freq")) * (IF get(hdr, "vw") # {} THEN 16 ELSE 1)
    IN  IF get(hdr, "cx") # {} THEN r \div 2 ELSE r

----------------------------------------------------------------------------
(* Formats and payload                                                     *)

Format(dmode, bps, cplx, samples) ==
    [dmode |-> dmode, bps |-> bps, cplx |-> cplx, samples |-> samples]

FORMATS ==
    [SN |-> Format(0, 4, 0, 2048), SB |-> Format(1, 8, 0, 1024), CB |-> Format(1, 8, 1, 512),
     SI |-> Format(2, 16, 0, 512), CI |-> Format(2, 16, 1, 256), SF |-> Format(7, 32, 0, 256),
     AD4 |-> Format(5, 8, 0, 1024), AD12 |-> Format(6, 16, 0, 512)]

ok_dmode(dmode) == dmode \in {0, 1, 2, 5, 6, 7}

get_bps_for_mode(dmode) ==
    CASE dmode = 0 -> 4
      [] dmode \in {2, 6} -> 16
      [] dmode = 7 -> 32
      [] OTHER -> 8

set_dmode(hdr, dm, cplx) ==
    IF ok_dmode(dm)
    THEN set_bps(set_flag(set(hdr, "dm", BitsOf(dm)), "cx", cplx = 1), get_bps_for_mode(dm))
    ELSE hdr

set_format(hdr, fmt) ==
    IF fmt \in DOMAIN FORMATS
    THEN set_dmode(hdr, FORMATS[fmt].dmode, FORMATS[fmt].cplx)
    ELSE hdr

\* the formats in the order of a dictionary: any one of those that fit
get_format(hdr) ==
    LET fits == {f \in DOMAIN FORMATS : BitsOf(FORMATS[f].dmode) = get(hdr, "dm")}
    IN  IF fits = {} THEN {"SB"} ELSE fits

get_samples_for_bps(bps) == {FORMATS[f].samples : f \in {f \in DOMAIN FORMATS : FORMATS[f].bps = bps}}

\* the overlays of the payload: items and the bits of one
Overlay(items, width) == [items |-> items, width |-> width]
sdds_sb_payload == Overlay(1024, 8)
sdds_si_payload == Overlay(512, 16)
sdds_sn_payload == Overlay(1024, 8)
sdds_sf_payload == Overlay(256, 32)
PAYLOAD_LEN == 1024
\* the union holds scalar overlays also for the complex formats; a format
\* without an overlay cannot be read
sdds_payload ==
    [SN |-> sdds_sn_payload, SB |-> sdds_sb_payload, CB |-> sdds_sb_payload,
     SI |-> sdds_si_payload, CI |-> sdds_si_payload, SF |-> sdds_sf_payload]

\* samples get_data may return: of any format with the same bits per sample
get_data(hdr) ==
    {IF f \in DOMAIN sdds_payload THEN sdds_payload[f].items ELSE -1 :
        f \in {f \in DOMAIN FORMATS : FORMATS[f].bps = get_bps(hdr)}}

----------------------------------------------------------------------------
(* Sequence numbers                                                        *)

MAX_SEQ_NUMBER == 65536
PARITY_SEQ_NUMBER == 32

inc_fsn(hdr) == set(hdr, "seq", BitsOf((Number(get(hdr, "seq")) + 1) % MAX_SEQ_NUMBER))

\* the number of a parity packet is left out; sos is not cleared when the
\* numbers start again, the structure is never equal to 0
inc(hdr, skip_parity) ==
    LET next == inc_fsn(hdr)
    IN  IF skip_parity /\ Number(get(next, "seq")) % PARITY_SEQ_NUMBER = 31
        THEN inc_fsn(next) ELSE next

----------------------------------------------------------------------------

Fields == DOMAIN sdds_header
Setters ==
    [op : {"field"}, f : Fields \ {"msptr"}, v : {{}, {0}, 0..63}]
    \union [op : {"msptr"}, v : {{}, {0}, 0..15}]
    \union [op : {"bps"}, v : {1, 4, 8, 12, 16, 31, 32}]
    \union [op : {"rate"}, v : {1, 8, 15, 16, 32, 48}]
    \union [op : {"format"}, v : DOMAIN FORMATS]
    \union [op : {"inc"}, v : BOOLEAN]

Apply(hdr, o) ==
    CASE o.op = "field" -> set(hdr, o.f, o.v)
      [] o.op = "msptr" -> set_msptr(hdr, o.v)
      [] o.op = "bps" -> set_bps(hdr, o.v)
      [] o.op = "rate" -> set_rate(hdr, o.v)
      [] o.op = "format" -> set_format(hdr, o.v)
      [] o.op = "inc" -> inc(hdr, o.v)

HeaderBits == 0..(8 * HEADER_LEN - 1)
Headers == {{}, HeaderBits, {b \in HeaderBits : b % 2 = 0},
            set({}, "seq", BitsOf(30)), set(HeaderBits, "seq", BitsOf(65534)),
            set_flag({}, "cx", TRUE), set_flag({}, "vw", TRUE)}

HeaderInit ==
    \E h \in Headers, o \in Setters :
       input = [hdr |-> h, o |-> o, after |-> Apply(h, o)]

----------------------------------------------------------------------------
\* the fields a setter is for
Touches(o) ==
    CASE o.op = "field" -> {o.f}
      [] o.op = "msptr" -> {"msptr", "msv", "ttv", "sscv", "pi", "peo"}
      [] o.op = "bps" -> {"bps"}
      [] o.op = "rate" -> {"freq", "vw"}
      [] o.op = "format" -> {"dm", "cx", "bps"}
      [] o.op = "inc" -> {"seq"}

\* A setter changes its own field of the wire header and no other one (the
\* flags of the time tag are the exception, set_msptr writes over them), and
\* the structures fill the 56 byte header and the 1024 byte payload exactly.
FieldsApart ==
    /\ \A f \in Fields \ Touches(input.o) :
          f = "msptr" \/ get(input.after, f) = get(input.hdr, f)
    /\ UNION {ToSet(sdds_header[f]) : f \in Fields} = HeaderBits
    /\ aad_at + aad_data_size = HEADER_LEN
    /\ \A f \in DOMAIN sdds_payload :
          sdds_payload[f].items * sdds_payload[f].width = 8 * PAYLOAD_LEN

\* What a setter wrote is what the getters read back: bits per sample, rate,
\* format, pointer and sequence number.
SetThenGet ==
    LET o == input.o a == input.after
    IN  CASE o.op = "field" -> get(a, o.f) = o.v \intersect 0..(Width(o.f) - 1)
          [] o.op = "msptr" -> get_msptr(a) = o.v \intersect 0..10
          [] o.op = "bps" -> o.v # 31 => get_bps(a) = o.v
          [] o.op = "rate" -> get_rate(a) = IF get(a, "cx") = {} THEN o.v ELSE o.v \div 2
          [] o.op = "format" ->
                /\ o.v \in get_format(a)
                /\ get_bps(a) = FORMATS[o.v].bps
                /\ FORMATS[o.v].samples \in get_samples_for_bps(get_bps(a))
                /\ o.v \in DOMAIN sdds_payload => sdds_payload[o.v].items \in get_data(a)
          [] o.op = "inc" ->
                LET n == Number(get(input.hdr, "seq"))
                    next == Number(get(a, "seq"))
                IN  /\ o.v => next % PARITY_SEQ_NUMBER # 31
                    /\ \/ next = (n + 1) % MAX_SEQ_NUMBER
                       \/ o.v /\ next = (n + 2) % MAX_SEQ_NUMBER
============================================================================

------------------------------ MODULE BlueFile ------------------------------
(***************************************************************************)
(* ossie.utils.bluefile: a BLUE file on disk, written, edited in place and *)
(* read, and the writer that a port feeds.                                 *)
(*                                                                         *)
(* A file is a sequence of cells (bytes), the first Block of which are the *)
(* main header (512 bytes in the code); data starts there, the keywords    *)
(* of the extended header at the next multiple of Block after the data.    *)
(* Detached data is in a file of its own.  An element of classes 1 to 3, 5 *)
(* and 6 has Bpe cells; one of class 4 has a cell with its length and as   *)
(* many more (variable records, indexed by the keyword T4INDEX).  Class 6  *)
(* keeps the definitions of its subrecords in the keyword SUBREC_DEF.      *)
(***************************************************************************)
EXTENDS Integers, Sequences, SequencesExt, FiniteSetsExt, TLC

CONSTANTS Block,          \* cells of a block
          Bpe,            \* cells of an element
          Values,         \* element values, a number each (class 4: its length)
          MaxElements,    \* bound on the elements of a file
          MaxData,        \* bound on the elements of one write
          MaxWrites,      \* bound on the operations of a behaviour
          None

Pad == [pad |-> TRUE]
Keyword(k, v) == [key |-> k, value |-> v]
Ceiling(n) == (n + Block - 1) \div Block

VARIABLES disk,      \* None, or the header and the cells of the files
          want,      \* ghost: the elements written, None where nobody knows
          kws,       \* ghost: the keywords given
          torn,      \* ghost: what a write that failed may have damaged
          writer,    \* BlueFileWriter: header written, first packet pushed
          writes     \* operations so far

vars == <<disk, want, kws, torn, writer, writes>>

----------------------------------------------------------------------------
(* Files: cells from position 0                                            *)

Padded(cells, n) == cells \o [k \in 1..(n - Len(cells)) |-> Pad]

WriteAt(cells, pos, s) ==
    LET c == Padded(cells, pos)
    IN  SubSeq(c, 1, pos) \o s \o SubSeq(c, pos + Len(s) + 1, Len(c))

Truncated(cells, pos) == SubSeq(Padded(cells, pos), 1, pos)
ReadAt(cells, pos, n) == SubSeq(cells, pos + 1, Min({pos + n, Len(cells)}))

HeaderCells == [k \in 1..Block |-> [main |-> TRUE]]

----------------------------------------------------------------------------
(* Headers                                                                 *)

Indexed(h) == h.class = 4
BpeOf(h) == IF Indexed(h) THEN -1 ELSE Bpe

\* update_header_internals: the number of elements
SizeOf(h) == IF Indexed(h) THEN h.nrecords ELSE h.data_size \div Bpe

\* _read_ext_header: where the keywords are said to be must make sense
ReadableExt(d) ==
    LET h == d.hdr  start == h.ext_start * Block
    IN  h.ext_size > 0 =>
            /\ h.ext_start # 0
            /\ (~h.detached /\ h.data_size > 0) =>
                  IF Block < start THEN Block + h.data_size <= start
                  ELSE start + h.ext_size <= Block
            /\ start + h.ext_size <= Len(d.main)

ReadExt(d) == ReadAt(d.main, d.hdr.ext_start * Block, d.hdr.ext_size)

IsKeyword(c) == DOMAIN c = {"key", "value"}
Lookup(ext, k) ==
    LET at == {i \in DOMAIN ext : IsKeyword(ext[i]) /\ ext[i].key = k}
    IN  IF at = {} THEN None ELSE ext[Min(at)].value

Without(ext, k) == SelectSeq(ext, LAMBDA c : ~(IsKeyword(c) /\ c.key = k))

\* _update_t6subrecords, _open_t6subrecords
WithSubrecords(h, ext) ==
    IF h.class = 6 THEN <<Keyword("SUBREC_DEF", "subr")>> \o ext ELSE ext

----------------------------------------------------------------------------
(* Data                                                                    *)

\* pack_data_to_stream: one element
Packed(h, v) ==
    IF Indexed(h) THEN <<[length |-> v]>> \o [k \in 1..v |-> [of |-> v, i |-> k]]
    ELSE [k \in 1..Bpe |-> [of |-> v, i |-> k]]

PackedAll(h, data) == FlattenSeq([k \in DOMAIN data |-> Packed(h, data[k])])

\* the places of the records, to append to T4INDEX
Offsets(h, pos, data) ==
    [k \in DOMAIN data |-> pos + Len(PackedAll(h, SubSeq(data, 1, k - 1)))]

\* unpack_data_from_stream: None for an element that nobody wrote so
Element(h, cells, pos) ==
    LET v == {w \in Values : ReadAt(cells, pos, Len(Packed(h, w))) = Packed(h, w)}
    IN  IF v = {} THEN None ELSE CHOOSE w \in v : TRUE

RECURSIVE Records(_, _, _, _)
Records(h, cells, pos, n) ==
    IF n = 0 THEN <<>>
    ELSE LET v == Element(h, cells, pos)
         IN  IF v = None THEN [k \in 1..n |-> None]
             ELSE <<v>> \o Records(h, cells, pos + v + 1, n - 1)

DataCells(d) == IF d.hdr.detached THEN d.det ELSE d.main

unpack_data_from_stream(d, first, n) ==
    IF Indexed(d.hdr) THEN Records(d.hdr, DataCells(d), Block, n)
    ELSE [k \in 1..n |-> Element(d.hdr, DataCells(d), Block + (first + k - 2) * Bpe)]

ReadError == None

\* read with start and end, 0 for None
read(d, start, end) ==
    LET size == SizeOf(d.hdr)
        s == IF start = 0 THEN 1 ELSE start
        e == IF end = 0 \/ end > size THEN size ELSE end
    IN  IF start = 0 /\ end = 0 THEN unpack_data_from_stream(d, 1, size)
        ELSE IF start > size \/ Indexed(d.hdr) \/ e - s + 1 <= 0 THEN ReadError
        ELSE unpack_data_from_stream(d, s, e - s + 1)

----------------------------------------------------------------------------
(* Writing.  ext is the keywords to write, or None to leave them where     *)
(* they are.                                                               *)

\* _update_extended_header, at position pos of the main file
update_extended_header(cells, h, ext, pos) ==
    IF ext = None THEN IF h.ext_size <= 0 THEN Truncated(cells, pos) ELSE cells
    ELSE IF ext = <<>> THEN Truncated(cells, pos)
    ELSE LET at == Max({pos, h.ext_start * Block})
             c == WriteAt(WriteAt(cells, pos, [k \in 1..(at - pos) |-> Pad]), at, ext)
         IN  Truncated(c, Ceiling(at + Len(ext)) * Block)

\* the end of write(): what was packed is in cells, the position is tell
FinishHeader(h, pos, elements, ext) ==
    [h EXCEPT !.ext_start = IF h.detached THEN @ ELSE Ceiling(pos),
              !.ext_size = IF ext = None THEN @ ELSE Len(ext),
              !.nrecords = IF Indexed(h) THEN elements ELSE @]

\* write with a header: a new file
write_new(class, detached, given, data) ==
    LET h0 == [class |-> class, detached |-> detached, ext_start |-> 0, ext_size |-> 0,
               data_size |-> 0, nrecords |-> 0]
        cells == HeaderCells \o PackedAll(h0, data)
        pos == Len(cells)
        index == IF Indexed(h0) /\ data # <<>>
                 THEN <<Keyword("T4INDEX", Offsets(h0, Block, data))>> ELSE <<>>
        ext == WithSubrecords(h0, given \o index)
        h == FinishHeader([h0 EXCEPT !.data_size = pos - Block], pos, Len(data), ext)
        main == IF detached THEN HeaderCells ELSE cells
    IN  [hdr |-> h, det |-> IF detached THEN cells ELSE <<>>,
         main |-> update_extended_header(main, h, ext, IF detached THEN Block ELSE pos)]

\* the number of elements the file is to have
ElementsAfter(size, n, append, start, truncate) ==
    IF start # 0 /\ (append \/ ~truncate)
    THEN IF append THEN start - 1 + n ELSE Max({n + start - 1, size})
    ELSE size + n

\* write without a header: edit in place, done of the elements are packed
\* before one of them is refused
MustReload_Indexed(h, guess) == Indexed(h)
MustReload(h, guess) == guess # h.ext_start \/ Indexed(h)

\* a file whose data is replaced has none
Kept(d, append, truncate) ==
    IF append \/ ~truncate THEN d.hdr ELSE [d.hdr EXCEPT !.data_size = 0, !.nrecords = 0]

\* the extended header is read when it has to move or to change
LoadsExt(h, elements) ==
    LET guess == IF h.detached THEN 1 ELSE Ceiling(Block + elements * BpeOf(h))
    IN  h.ext_size > 0 /\ (h.class = 6 \/ MustReload(h, guess))

write_edit(d, data, done, append, start, truncate) ==
    LET h0 == Kept(d, append, truncate)
        size == SizeOf(h0)
        elements == ElementsAfter(size, Len(data), append, start, truncate)
        old == ReadExt(d)
        loaded == IF LoadsExt(h0, elements) THEN Without(old, "SUBREC_DEF")
                  ELSE IF h0.ext_size = 0 THEN <<>> ELSE None
        from == IF start # 0 THEN Block + (start - 1) * Bpe ELSE Block + h0.data_size
        part == PackedAll(h0, SubSeq(data, 1, done))
        cells == WriteAt(DataCells(d), from, part)
        end == IF truncate THEN from + Len(part) ELSE Block + elements * Bpe
        oldIndex == IF size = 0 THEN <<>> ELSE Lookup(old, "T4INDEX")
        index == oldIndex \o Offsets(h0, from, SubSeq(data, 1, done))
        given == IF ~Indexed(h0) THEN loaded
                 ELSE IF elements = 0 THEN Without(loaded, "T4INDEX")
                 ELSE IF Lookup(loaded, "T4INDEX") = None
                      THEN Append(loaded, Keyword("T4INDEX", index))
                 ELSE [k \in DOMAIN loaded |->
                          IF IsKeyword(loaded[k]) /\ loaded[k].key = "T4INDEX"
                          THEN Keyword("T4INDEX", index) ELSE loaded[k]]
        ext == IF given = None THEN None ELSE WithSubrecords(h0, given)
        h == FinishHeader([h0 EXCEPT !.data_size = end - Block], end, elements, ext)
    IN  [hdr |-> h, det |-> IF h.detached THEN Truncated(cells, end) ELSE <<>>,
         main |-> update_extended_header(IF h.detached THEN d.main ELSE cells, h, ext,
                                         IF h.detached THEN Block ELSE end)]

\* otherwise write_edit raises before it touches the file
Editable(d, n, append, start, truncate) ==
    LET h == Kept(d, append, truncate)
    IN  /\ LoadsExt(h, ElementsAfter(SizeOf(h), n, append, start, truncate)) => ReadableExt(d)
        /\ Indexed(h) /\ SizeOf(h) > 0 =>
              /\ Lookup(ReadExt(d), "T4INDEX") # None
              /\ Len(Lookup(ReadExt(d), "T4INDEX")) = SizeOf(h)

\* writeheader: a header h, with keywords to write or None
writeheader(d, h0, given) ==
    LET ext == IF given = None THEN None ELSE WithSubrecords(h0, given)
        end == IF h0.detached THEN Block ELSE Block + h0.data_size
        h == IF ext = None THEN h0
             ELSE [h0 EXCEPT !.ext_start = Ceiling(end), !.ext_size = Len(ext)]
    IN  [d EXCEPT !.hdr = h,
                  !.main = IF ext = None THEN WriteAt(@, 0, HeaderCells)
                           ELSE update_extended_header(WriteAt(@, 0, HeaderCells), h, ext, end)]

----------------------------------------------------------------------------
(* Actions                                                                 *)

Data == UNION {[1..n -> Values] : n \in 0..MaxData}
KeywordLists == {<<>>, <<Keyword("A", 1)>>, <<Keyword("A", 2), Keyword("B", 1)>>}

Init ==
    /\ disk = None
    /\ want = <<>>
    /\ kws = <<>>
    /\ torn = {}
    /\ writer = None
    /\ writes = 0

\* the keywords of detached data are written with ext_start still 0, until
\* writeheader places them
Unplaced(h) == IF h.detached /\ h.ext_start = 0 /\ h.ext_size > 0 THEN {"keywords"} ELSE {}

Create(class, detached, given, data) ==
    /\ disk = None
    /\ disk' = write_new(class, detached, given, data)
    /\ want' = data
    /\ kws' = given
    /\ torn' = Unplaced(disk'.hdr)
    /\ UNCHANGED writer

\* elements of class 1 are converted together, the others one by one
MayStop(h, n) == IF h.class = 1 THEN {0, n} ELSE 0..n

\* what the file should hold after done elements of data
Overlaid(old, start, data, done, elements) ==
    [k \in 1..elements |->
        IF k \in start .. (start + done - 1) THEN data[k - start + 1]
        ELSE IF k <= Len(old) THEN old[k] ELSE None]

Wanted(data, done, append, start, truncate) ==
    LET size == Len(want)
        s == IF start = 0 THEN size + 1 ELSE start
    IN  IF truncate
        THEN (IF append THEN SubSeq(want, 1, s - 1) ELSE <<>>) \o SubSeq(data, 1, done)
        ELSE Overlaid(want, s, data, done,
                      ElementsAfter(size, Len(data), append, start, truncate))

Edit(data, done, append, start, truncate) ==
    /\ disk # None
    /\ Editable(disk, Len(data), append, start, truncate)
    /\ ~(append /\ ~truncate)
    /\ start # 0 => ~Indexed(disk.hdr) /\ (append \/ ~truncate) /\ start <= Len(want) + 1
    /\ Indexed(disk.hdr) => truncate
    /\ done \in MayStop(disk.hdr, Len(data))
    /\ ElementsAfter(IF append \/ ~truncate THEN Len(want) ELSE 0, Len(data),
                     append, start, truncate) <= MaxElements
    /\ disk' = write_edit(disk, data, done, append, start, truncate)
    /\ want' = Wanted(data, done, append, start, truncate)
    /\ torn' = torn \union Unplaced(disk'.hdr) \union
          (IF done = Len(data) THEN {}
           ELSE IF Indexed(disk.hdr) THEN {"data", "keywords"}
           ELSE IF truncate /\ (~append \/ start # 0) THEN {"keywords"} ELSE {})
    /\ UNCHANGED <<kws, writer>>

\* a client reads the header, replaces the keywords and writes it back
Rekey(given) ==
    /\ disk # None
    /\ ~Indexed(disk.hdr) /\ (disk.hdr.class = 6 => ReadableExt(disk))
    /\ disk' = writeheader(disk, disk.hdr, given)
    /\ kws' = given
    /\ torn' = torn \ {"keywords"}
    /\ UNCHANGED <<want, writer>>

----------------------------------------------------------------------------
(* BlueFileWriter                                                          *)

NewHeader(class) ==
    [class |-> class, detached |-> FALSE, ext_start |-> 0, ext_size |-> 0,
     data_size |-> 0, nrecords |-> 0]

\* pushSRI: the header is made from the first SRI and kept
pushSRI(class, given) ==
    /\ disk = None /\ writer = None
    /\ writer' = [header |-> NewHeader(class), given |-> IF given = <<>> THEN None ELSE given,
                  first |-> TRUE]
    /\ disk' = writeheader([hdr |-> NewHeader(class), main |-> <<>>, det |-> <<>>],
                           writer'.header, writer'.given)
    /\ kws' = given
    /\ UNCHANGED <<want, torn>>

\* pushPacket: the first packet sets the time of the header that was kept
FirstPacket(w) == w.first

pushPacket(data, stamped) ==
    /\ writer # None
    /\ Len(want) + Len(data) <= MaxElements
    /\ LET d == IF FirstPacket(writer) /\ stamped
                THEN writeheader(disk, writer.header, writer.given) ELSE disk
       IN  disk' = write_edit(d, data, Len(data), TRUE, 0, TRUE)
    /\ writer' = [writer EXCEPT !.first = FALSE]
    /\ want' = want \o data
    /\ UNCHANGED <<kws, torn>>

----------------------------------------------------------------------------
\* classes 3 and 5 are written as class 2
Next ==
    /\ writes < MaxWrites /\ writes' = writes + 1
    /\ \/ \E c \in {1, 2, 4, 6}, det \in BOOLEAN, g \in KeywordLists, x \in Data : Create(c, det, g, x)
       \/ /\ writer = None
          /\ \/ \E x \in Data, n \in 0..MaxData, a \in BOOLEAN, t \in BOOLEAN,
                   s \in 0..MaxElements : Edit(x, n, a, s, t)
             \/ \E g \in KeywordLists : Rekey(g)
       \/ \E c \in {1, 2}, g \in KeywordLists : pushSRI(c, g)
       \/ \E x \in Data, st \in BOOLEAN : pushPacket(x, st)

Spec == Init /\ [][Next]_vars

----------------------------------------------------------------------------
Matches(r, w) ==
    /\ r # ReadError
    /\ Len(r) = Len(w)
    /\ \A k \in DOMAIN w : w[k] # None => r[k] = w[k]

\* What read answers is what was written, element by element and in the
\* ranges it is asked for, after any sequence of writes, appends, overwrites
\* and changes of the keywords, failed ones included (a failed write of
\* variable records apart, whose count is then wrong).
DataKept ==
    disk # None /\ "data" \notin torn =>
        /\ Matches(read(disk, 0, 0), want)
        /\ ~Indexed(disk.hdr) =>
              \A s \in 1..Len(want), e \in 1..Len(want) :
                  s <= e => Matches(read(disk, s, e), SubSeq(want, s, e))

\* the user's keywords among those of the file
Keywords(ext) ==
    SelectSeq(ext, LAMBDA c : IsKeyword(c) => c.key \notin {"SUBREC_DEF", "T4INDEX"})

\* The keywords are always found where the header says, are those that were
\* given last, and do not touch the data; the index of variable records has
\* the place of every record, and the definitions of subrecords are kept.
\* (A replacement that failed half way, and detached data with keywords at
\* its creation, may leave them unreadable.)
KeywordsKept ==
    disk # None /\ "keywords" \notin torn =>
        /\ ReadableExt(disk)
        /\ Keywords(ReadExt(disk)) = kws
        /\ disk.hdr.class = 6 => Lookup(ReadExt(disk), "SUBREC_DEF") = "subr"
        /\ Indexed(disk.hdr) /\ want # <<>> =>
              Lookup(ReadExt(disk), "T4INDEX") = Offsets(disk.hdr, Block, want)
----------------------------------------------------------------------------
(* The layouts of the files and their conversions: keywords with nested    *)
(* tables and lists, the records of subrecords, the fixed structures of    *)
(* the header, scopes of keywords, and the way from an SRI to a header and *)
(* back to packets.  A packed keyword is a record with the lengths that    *)
(* are on disk; a text is [text, len].                                     *)

VARIABLE input    \* of the conversions

----------------------------------------------------------------------------
(* Formats: a mode and a type                                              *)

mode_tran == [S |-> 1, C |-> 2, V |-> 3, Q |-> 4, M |-> 9, T |-> 16, X |-> 10, U |-> 1]
type_tran == [B |-> 1, O |-> 1, I |-> 2, L |-> 4, F |-> 4, X |-> 8, D |-> 8, A |-> 8]

\* negative: bits
bpa(f) == IF f.type = "P" THEN -mode_tran[f.mode] ELSE mode_tran[f.mode] * type_tran[f.type]

\* update_header_internals, classes 1 and 2
update_header_internals(h) ==
    LET spa == mode_tran[h.format.mode]
        ape == IF h.class = 2 THEN h.subsize ELSE 1
    IN  [spa |-> spa, ape |-> ape, bpe |-> bpa(h.format) * ape]

----------------------------------------------------------------------------
(* Keywords                                                                *)

Text(t, n) == [text |-> t, len |-> n]

Leaf(v) == v.is \in {"L", "X", "D", "A", "None"}
DataLength(v) == CASE v.is = "L" -> 4 [] v.is \in {"X", "D"} -> 8
                   [] v.is = "A" -> v.len [] v.is = "None" -> 4

\* a keyword: 8 bytes of lengths, the data, the tag, filled up to 8 bytes
PackedLength(ldata, ltag) == ((ldata + ltag + 15) \div 8) * 8

PackedKeyword(tag, v) ==
    LET ldata == DataLength(v)  lkey == PackedLength(ldata, tag.len)
    IN  [lkey |-> lkey, lextra |-> lkey - ldata, ltag |-> tag.len, tag |-> tag.text, data |-> v]

Mark(t) == [is |-> "A", len |-> 4, word |-> t]
Bytes(packed) == FoldLeft(LAMBDA n, k : n + k.lkey, 0, packed)

RECURSIVE pack_keywords(_)
\* pack_keywords and pack_structured: a table or a list is put between an
\* opening tag, the size of what follows, and a closing tag
pack_structured(tag, type, items) ==
    LET body == Append(pack_keywords(items),
                       PackedKeyword(Text("/" \o type, 5), [is |-> "A", len |-> 0, word |-> ""]))
        XS(n) == PackedKeyword(Text("<XS>", 4), [is |-> "L", size |-> n])
        bytes == Bytes(body) + XS(0).lkey
    IN  <<PackedKeyword(tag, Mark(type)), XS(bytes)>> \o body

pack_keywords(items) ==
    FlattenSeq([k \in DOMAIN items |->
        LET tag == items[k].tag  v == items[k].value
        IN  IF Leaf(v) THEN <<PackedKeyword(tag, v)>>
            ELSE IF v.is = "list"
                 THEN pack_structured(tag, "XL", [j \in DOMAIN v.items |->
                                                     [tag |-> Text("#", 1), value |-> v.items[j]]])
            ELSE pack_structured(tag, "XT", v.pairs)])

RECURSIVE Unpack(_, _, _)
\* unpack_keywords from keyword i of the buffer; items so far
Unpack(buf, i, items) ==
    IF i > Len(buf) THEN [items |-> items, next |-> i]
    ELSE LET k == buf[i]
             tag == Text(k.tag, k.ltag)
         IN  IF k.tag \in {"/XT", "/XL"} /\ k.lkey = k.lextra
             THEN [items |-> items, next |-> i + 1]
             ELSE IF k.data.is = "A" /\ k.lkey - k.lextra = 4 /\ k.data.word \in {"XT", "XL"}
             THEN LET inner == Unpack(buf, i + 1, <<>>)
                      body == IF inner.items # <<>> /\ inner.items[1].tag.text = "<XS>"
                              THEN SubSeq(inner.items, 2, Len(inner.items)) ELSE inner.items
                      v == IF k.data.word = "XL"
                           THEN [is |-> "list", items |-> [j \in DOMAIN body |-> body[j].value]]
                           ELSE [is |-> "table", pairs |-> body]
                  IN  Unpack(buf, inner.next, Append(items, [tag |-> tag, value |-> v]))
             ELSE Unpack(buf, i + 1, Append(items, [tag |-> tag, value |-> k.data]))

unpack_keywords(buf) == Unpack(buf, 1, <<>>).items

----------------------------------------------------------------------------
(* Subrecords.  hdr is [class, subr, record_length, mixed].                *)

SubrError == [error |-> TRUE]
IsError(h) == "error" \in DOMAIN h

\* _add_subr: max is 26 or 14
add_subr(h, name, format, num, max) ==
    IF (h.class # 6 /\ (Len(h.subr) >= max \/ name.len > 4))
       \/ bpa(format) < 0 \/ (\E k \in DOMAIN h.subr : h.subr[k].name = name)
    THEN SubrError
    ELSE [h EXCEPT !.subr = Append(@, [name |-> name, format |-> format, num |-> num,
                                       offset |-> h.record_length]),
                   !.record_length = @ + bpa(format) * num,
                   !.mixed = h.subr # <<>> /\ (@ \/ format # h.subr[1].format)]

Count(s) == mode_tran[s.format.mode] * s.num
FieldSize(s) == bpa(s.format) * s.num

\* struct.calcsize aligns a number to its size, characters not
Align(n, s) == LET a == IF s.format.type = "A" THEN 1 ELSE type_tran[s.format.type]
               IN  ((n + a - 1) \div a) * a

\* _blue_subrecord_map: fill bytes before each field, from the native size of
\* the string so far; and the fill after the last
Fills(h) ==
    LET Step(acc, s) ==
            LET pad == IF h.class # 5 /\ s.offset > acc.at THEN s.offset - acc.at ELSE 0
            IN  [fills |-> Append(acc.fills, pad), at |-> Align(acc.at + pad, s) + FieldSize(s)]
        all == FoldLeft(Step, [fills |-> <<>>, at |-> 0], h.subr)
    IN  Append(all.fills, IF all.at < h.record_length THEN h.record_length - all.at ELSE 0)

\* where the k-th field is in a packed record: packing with a byte order has
\* no alignment
blue_subrecord_map(h) ==
    LET f == Fills(h)
        Before(k) == FoldLeft(LAMBDA n, j : n + f[j] + (IF j < k THEN FieldSize(h.subr[j]) ELSE 0), 0,
                              [j \in 1..k |-> j])
    IN  [k \in 1..(Len(h.subr) + 1) |-> Before(k)]

----------------------------------------------------------------------------
(* The fixed structures: field, size, offset                               *)

HEADER ==
    <<<<"version", 4, 0>>, <<"head_rep", 4, 4>>, <<"data_rep", 4, 8>>, <<"detached", 4, 12>>,
      <<"protected", 4, 16>>, <<"pipe", 4, 20>>, <<"ext_start", 4, 24>>, <<"ext_size", 4, 28>>,
      <<"data_start", 8, 32>>, <<"data_size", 8, 40>>, <<"type", 4, 48>>, <<"format", 2, 52>>,
      <<"flagmask", 2, 54>>, <<"timecode", 8, 56>>, <<"inlet", 2, 64>>, <<"outlets", 2, 66>>,
      <<"outmask", 4, 68>>, <<"pipeloc", 4, 72>>, <<"pipesize", 4, 76>>, <<"in_byte", 8, 80>>,
      <<"out_byte", 8, 88>>, <<"outbytes", 64, 96>>, <<"keylength", 4, 160>>,
      <<"keywords", 92, 164>>, <<"adjunct", 256, 256>>>>

\* the adjuncts agree in their first eight fields, named differently
Adjunct(f2, f8) ==
    <<<<"start", 8, 0>>, <<"delta", 8, 8>>, <<"units", 4, 16>>, <<f2, 4, 20>>,
      <<"start2", 8, 24>>, <<"delta2", 8, 32>>, <<"units2", 4, 40>>, <<f8, 4, 44>>>>

Structs ==
    [HEADER |-> HEADER,
     T1ADJUNCT |-> Adjunct("fill1", "bid"), T2ADJUNCT |-> Adjunct("subsize", "bid"),
     T3ADJUNCT |-> Append(Adjunct("subrecords", "record_length"), <<"subr", 26 * 8, 48>>),
     T4ADJUNCT |-> Adjunct("nrecords", "vrecord_length"),
     T5ADJUNCT |-> Adjunct("components", "record_length")
                   \o <<<<"comp", 14 * 8, 48>>, <<"quadwords", 96, 160>>>>,
     SUBRECSTRUCT |-> <<<<"name", 4, 0>>, <<"format", 2, 4>>, <<"offset", 2, 6>>>>,
     COMPSTRUCT |-> <<<<"name", 4, 0>>, <<"format", 2, 4>>, <<"type", 1, 6>>, <<"units", 1, 7>>>>,
     KEYSTRUCT |-> <<<<"lkey", 4, 0>>, <<"lext", 2, 4>>, <<"ltag", 1, 6>>, <<"type", 1, 7>>>>,
     T6SUBR_STR_STRUCT |->
        <<<<"name", 24, 0>>, <<"minval", 24, 24>>, <<"maxval", 24, 48>>, <<"offset", 8, 72>>,
          <<"num_elts", 4, 80>>, <<"units", 4, 84>>, <<"format", 2, 88>>, <<"uprefix", 3, 90>>,
          <<"reserved", 3, 93>>>>]

\* a field is read from its place; what is packed before it is contiguous
lookups(struct, f) == CHOOSE k \in DOMAIN Structs[struct] : Structs[struct][k][1] = f
Offset(struct, f) == Structs[struct][lookups(struct, f)][3]

\* the end of write() patches the header in place: 'iidd' and 'i'
Patches ==
    <<[at |-> Offset("HEADER", "ext_start"), sizes |-> <<4, 4, 8, 8>>,
       fields |-> <<"ext_start", "ext_size", "data_start", "data_size">>],
      [at |-> Offset("HEADER", "adjunct") + Offset("T4ADJUNCT", "nrecords"), sizes |-> <<4>>,
       fields |-> <<"nrecords">>]>>

----------------------------------------------------------------------------
(* Scopes                                                                  *)

\* kwscope: the keys and values in order, then all up to one of the keys again
kwscope(keywords, scope) ==
    LET Step(acc, k) ==
            IF acc.done THEN acc
            ELSE IF acc.left = <<>>
                 THEN IF \E j \in DOMAIN scope : scope[j][1] = k[1] THEN [acc EXCEPT !.done = TRUE]
                      ELSE [acc EXCEPT !.res = Append(@, k)]
            ELSE IF k = acc.left[1]
                 THEN [acc EXCEPT !.left = SubSeq(@, 2, Len(@)),
                                  !.res = IF Len(acc.left) = 1 THEN <<k>> ELSE @]
            ELSE acc
        r == FoldLeft(Step, [left |-> scope, res |-> <<>>, done |-> FALSE], keywords)
    IN  IF r.left # <<>> THEN <<"error">> ELSE r.res

----------------------------------------------------------------------------
(* From a stream to a file and back                                        *)

\* BlueFileWriter.pushSRI, sri_to_hdr
sri_to_hdr(sri) ==
    [class |-> IF sri.subsize = 0 THEN 1 ELSE 2,
     format |-> [mode |-> IF sri.mode = 0 THEN "S" ELSE "C", type |-> "F"],
     x |-> sri.x, subsize |-> sri.subsize, y |-> sri.y, keywords |-> sri.keywords]

\* a header of class 1 has no frames and no second axis
hdr_to_sri(h) ==
    [x |-> h.x, subsize |-> IF h.class = 1 THEN 0 ELSE h.subsize,
     y |-> IF h.class = 1 THEN 0 ELSE h.y,
     mode |-> CASE h.format.mode = "S" -> 0 [] h.format.mode = "C" -> 1 [] OTHER -> -1,
     keywords |-> h.keywords]

RECURSIVE Chunks(_, _, _)
\* BlueFileReader.run: the packets from start on, then the empty one that ends
Chunks(start, sz, pktsize) ==
    IF start + pktsize >= sz THEN <<<<start, sz>>>>
    ELSE <<<<start, start + pktsize>>>> \o Chunks(start + pktsize, sz, pktsize)

Quantized(pktsize, spe) == Max({spe, (pktsize \div spe) * spe})

\* the time of each packet, in elements of the stream
run(sz, pktsize, spe) ==
    LET c == Chunks(0, sz, Quantized(pktsize, spe))
    IN  [packets |-> c, times |-> [k \in DOMAIN c |-> c[k][1] \div spe]]

----------------------------------------------------------------------------
Tags == {Text("K", 1), Text("LONGERKEY", 9)}
Leaves == {[is |-> "L", word |-> "1"], [is |-> "X", word |-> "2"], [is |-> "D", word |-> "3"],
           [is |-> "A", len |-> 5, word |-> "words"], [is |-> "A", len |-> 0, word |-> ""],
           [is |-> "None"]}
Few(S, n) == UNION {[1..k -> S] : k \in 0..n}
Pairs(S) == {[tag |-> t, value |-> v] : t \in Tags, v \in S}
Nested == {[is |-> "list", items |-> s] : s \in Few(Leaves, 2)}
          \union {[is |-> "table", pairs |-> s] : s \in Few(Pairs(Leaves), 1)}
Deep == {[is |-> "table", pairs |-> s] : s \in Few(Pairs(Nested), 1)}
        \union {[is |-> "list", items |-> <<v, [is |-> "None"]>>] : v \in Nested}

SubFormats == [mode : {"S"}, type : {"B", "I", "D", "A", "P"}] \union [mode : {"C"}, type : {"I"}]
SubNames == {<<Text("A", 1), Text("B", 1), Text("C", 1)>>, <<Text("A", 1), Text("A", 1), Text("B", 1)>>,
             <<Text("A", 1), Text("LONGER", 6), Text("B", 1)>>}
MaxSubrecords == 2

InitFormats ==
    \/ \E a \in Pairs(Leaves), b \in Pairs(Deep \union Leaves) :
          input = [is |-> "keywords", of |-> <<a, b>>]
    \/ \E c \in {3, 5, 6}, f \in [1..3 -> SubFormats], n \in SubNames, m \in 1..2 :
          input = [is |-> "subrecords", class |-> c, formats |-> f, names |-> n,
                   num |-> IF c = 6 THEN m ELSE 1]
    \/ \E keywords \in Few({"T", "F", "C"} \X {1, 2}, 4), s \in Few({"T", "C"} \X {1}, 2) :
          input = [is |-> "scope", keywords |-> keywords, scope |-> s]
    \/ \E x \in 0..1, y \in 0..1, sub \in 0..2, m \in 0..1, k \in Few({"kw"}, 1),
          n \in 0..4, p \in 1..5 :
          input = [is |-> "stream", n |-> n, pktsize |-> p,
                   sri |-> [x |-> x, y |-> y, subsize |-> sub, mode |-> m, keywords |-> k]]

----------------------------------------------------------------------------
\* Tables and lists in the keywords come back as they were, whatever they
\* contain; every keyword is aligned and large enough; and a size tag counts
\* what follows up to and with the closing tag, so that it can be skipped.
KeywordsRoundTrip ==
    input.is = "keywords" =>
        LET buf == pack_keywords(input.of)
        IN  /\ unpack_keywords(buf) = input.of
            /\ \A k \in DOMAIN buf :
                  /\ buf[k].lkey % 8 = 0
                  /\ buf[k].lextra >= 8 + buf[k].ltag
                  /\ buf[k].tag = "<XS>" =>
                        \E j \in k..Len(buf) :
                            /\ Bytes(SubSeq(buf, k, j)) = buf[k].data.size
                            /\ buf[j].tag = "/" \o buf[k - 1].data.word

Header3(i) ==
    LET h0 == [class |-> i.class, subr |-> <<>>, record_length |-> 0, mixed |-> FALSE]
        Add(h, k) == IF IsError(h) THEN h
                     ELSE LET r == add_subr(h, i.names[k], i.formats[k], i.num, MaxSubrecords)
                          IN  IF IsError(r) THEN h ELSE r
    IN  FoldLeft(Add, h0, <<1, 2, 3>>)

\* A record made from subrecords that were added one after the other has
\* every field at its offset, no two in the same place and none outside,
\* aligned or not; and the limits of the format hold.
RecordsExact ==
    input.is = "subrecords" =>
        LET h == Header3(input)
            at == blue_subrecord_map(h)
            n == Len(h.subr)
        IN  /\ \A k \in 1..n : at[k] = h.subr[k].offset
            /\ \A k \in 1..n : at[k] + FieldSize(h.subr[k]) = at[k + 1]
            /\ at[n + 1] = h.record_length
            /\ h.class # 6 => n <= MaxSubrecords /\ \A k \in 1..n : h.subr[k].name.len <= 4
            /\ h.mixed <=> \E k \in 1..n : h.subr[k].format # h.subr[1].format

\* The scope of one keyword is what follows its first occurrence up to the
\* next keyword with that name; an inner scope is found after its outer one.
ScopeExact ==
    input.is = "scope" /\ input.scope # <<>> =>
        LET keywords == input.keywords  s == input.scope
            r == kwscope(keywords, s)
            From(i) == {j \in (i + 1)..Len(keywords) : \E m \in DOMAIN s : keywords[j][1] = s[m][1]}
            Segment(i) == SubSeq(keywords, i, IF From(i) = {} THEN Len(keywords) ELSE Min(From(i)) - 1)
            First(k, i) == {j \in (i + 1)..Len(keywords) : keywords[j] = k}
            outer == IF First(s[1], 0) = {} THEN 0 ELSE Min(First(s[1], 0))
            inner == IF Len(s) = 1 THEN outer
                     ELSE IF outer = 0 \/ First(s[2], outer) = {} THEN 0
                     ELSE Min(First(s[2], outer))
        IN  r = IF inner = 0 THEN <<"error">> ELSE Segment(inner)

\* A stream that was recorded and is played back has the same SRI, its
\* packets are its data in order, each of whole elements, frames and complex
\* pairs kept together, stamped with the time of its first element.
PlaybackExact ==
    input.is = "stream" =>
        LET h == sri_to_hdr(input.sri)
            int == update_header_internals(h)
            spe == int.spa * int.ape
            r == run(input.n * spe, input.pktsize, spe)
            p == r.packets
        IN  /\ hdr_to_sri(h) = [input.sri EXCEPT !.y = IF input.sri.subsize = 0 THEN 0 ELSE @]
            /\ p[1][1] = 0 /\ p[Len(p)][2] = input.n * spe
            /\ \A k \in 1..(Len(p) - 1) : p[k + 1][1] = p[k][2] /\ p[k][1] < p[k][2]
            /\ \A k \in DOMAIN p : p[k][2] % spe = 0 /\ r.times[k] * spe = p[k][1]

\* The structures on disk have no holes and no overlaps, and the fields that
\* write() patches at its end are exactly the ones meant.
PatchesExact ==
    input.is = "stream" =>
        /\ \A s \in DOMAIN Structs : \A k \in 1..(Len(Structs[s]) - 1) :
              Structs[s][k][3] + Structs[s][k][2] = Structs[s][k + 1][3]
        /\ \A p \in DOMAIN Patches :
              LET base == IF p = 1 THEN 0 ELSE Offset("HEADER", "adjunct")
                  struct == IF p = 1 THEN "HEADER" ELSE "T4ADJUNCT"
              IN  \A k \in DOMAIN Patches[p].fields :
                      LET f == Structs[struct][lookups(struct, Patches[p].fields[k])]
                      IN  /\ f[2] = Patches[p].sizes[k]
                          /\ base + f[3] = Patches[p].at
                                + FoldLeft(+, 0, SubSeq(Patches[p].sizes, 1, k - 1))

============================================================================

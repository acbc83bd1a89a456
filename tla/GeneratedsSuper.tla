-------------------------- MODULE GeneratedsSuper --------------------------
(***************************************************************************)
(* What the generated XML parsers of ossie.parsers have in common: an      *)
(* element class as the attributes and children it reads and writes, and   *)
(* the build / export pair that every class repeats.                       *)
(*                                                                         *)
(* An XML element, as the XML library hands it over, is a record           *)
(*     [tag, attrs: name -> string, text: string or None, kids: Seq]       *)
(* and a parsed object a record                                            *)
(*     [class, tag (original_tagname_), f: field -> value]                 *)
(* A string is a member of Strings or one of the enumerated words of the   *)
(* profiles ("readwrite", "false", ...); what matters of a string is how   *)
(* it survives being written and read again:                               *)
(*   plain      letters and digits                                         *)
(*   markup     holds &, < or >                                            *)
(*   cdata      holds a literal <![CDATA[...]]> marker                     *)
(*   multiline  holds a line break                                         *)
(*   nonascii   holds a character outside of ASCII                         *)
(*   num        a decimal number in its canonical form                     *)
(*   padded     a decimal number with blanks or leading zeros              *)
(***************************************************************************)
EXTENDS Sequences, SequencesExt, FiniteSets

CONSTANTS None

Strings == {"plain", "markup", "cdata", "multiline", "nonascii", "num", "padded"}

----------------------------------------------------------------------------
(* The vocabulary of a class: attributes, and children by content.         *)

\* an attribute of the same name as its field, of another name, and one that
\* export omits when it has the default value
Attr(n) == [wire |-> n, field |-> n, default |-> None, enum |-> FALSE]
AttrAs(n, fld) == [wire |-> n, field |-> fld, default |-> None, enum |-> FALSE]
AttrDefault(n, fld, d) == [wire |-> n, field |-> fld, default |-> d, enum |-> FALSE]
\* one that is checked against a list of words: others cause a warning
Enum(a) == [a EXCEPT !.enum = TRUE]

Child(t, fld, content, many) ==
    [tag |-> t, field |-> fld, content |-> content, many |-> many]
Text(t)         == Child(t, t, "text", FALSE)
Texts(t)        == Child(t, t, "text", TRUE)
TextsAs(t, fld) == Child(t, fld, "text", TRUE)
Number(t)       == Child(t, t, "int", FALSE)
Obj(t)          == Child(t, t, t, FALSE)
ObjAs(t, fld, c) == Child(t, fld, c, FALSE)
Objs(t)         == Child(t, t, t, TRUE)
ObjsAs(t, fld, c) == Child(t, fld, c, TRUE)

\* name: the tag of the class as a root (name_ of export);
\* init: the fields the constructor sets; attrs, kids: what build reads and
\* export writes, in export's order; text: the class keeps the element's text
Class(name, init, attrs, kids) ==
    [name |-> name, init |-> init, attrs |-> attrs, kids |-> kids, text |-> FALSE]
TextClass(name, init, attrs) ==
    [name |-> name, init |-> init, attrs |-> attrs, kids |-> <<>>, text |-> TRUE]
\* build and export of a subclass call those of the superclass
Subclass(sup, name, init, attrs, kids) ==
    [name |-> name,
     init |-> [x \in DOMAIN sup.init \union DOMAIN init |->
                  IF x \in DOMAIN init THEN init[x] ELSE sup.init[x]],
     attrs |-> sup.attrs \o attrs, kids |-> sup.kids \o kids, text |-> sup.text]

----------------------------------------------------------------------------
(* Conversions.                                                            *)

\* gds_validate_string: the XML library returns None for an empty element
gds_validate_string(t) == IF t = None THEN "" ELSE t

\* int(): the number, whatever its spelling
IsInt(t) == t \in {"num", "padded"}
ToInt(t) == "num"

\* quote_xml, then the XML reader: markup is escaped and comes back, a CDATA
\* marker is left alone and the reader dissolves it, '' comes back as None
quote_xml(t) == CASE t = "" -> None
                  [] t = "cdata" -> "plain"
                  [] OTHER -> t

\* quote_attrib, then the XML reader: all markup is escaped, line breaks are
\* not, and the reader turns a line break in an attribute into a blank
quote_attrib(v) == IF v = "multiline" THEN "plain" ELSE v

\* gds_encode: .encode('ascii') of the quoted string
Encodable(v) == v # "nonascii"

----------------------------------------------------------------------------
(* build                                                                   *)

KidsNamed(el, t) == SelectSeq(el.kids, LAMBDA k : k.tag = t)

\* build raises GDSParseError when a numeric child is no number, in the
\* element or in one of its known children, and UnicodeEncodeError (str()) when
\* an attribute that is checked against a list of words is not ASCII
RECURSIVE Parses(_, _, _)
Parses(S, c, el) ==
  /\ \A i \in DOMAIN S[c].attrs :
        S[c].attrs[i].enum /\ S[c].attrs[i].wire \in DOMAIN el.attrs
            => Encodable(el.attrs[S[c].attrs[i].wire])
  /\ \A i \in DOMAIN S[c].kids : \A j \in DOMAIN el.kids :
        LET d == S[c].kids[i]
            k == el.kids[j]
        IN  k.tag = d.tag =>
              CASE d.content = "int" -> IsInt(k.text)
                [] d.content = "text" -> TRUE
                [] OTHER -> Parses(S, d.content, k)

\* buildAttributes and buildChildren: an attribute or a child the class does
\* not know is skipped, a second occurrence of a single child replaces the
\* first, a list child is appended
RECURSIVE Build(_, _, _, _)
Build(S, c, el, tag) ==
    LET C == S[c]
        Value(d, k) == CASE d.content = "int" -> ToInt(k.text)
                         [] d.content = "text" -> gds_validate_string(k.text)
                         [] OTHER -> Build(S, d.content, k, d.tag)
        Built(d) == [i \in DOMAIN KidsNamed(el, d.tag) |->
                         Value(d, KidsNamed(el, d.tag)[i])]
        Kid(fld) == {d \in ToSet(C.kids) : d.field = fld}
        At(fld) == {a \in ToSet(C.attrs) : a.field = fld /\ a.wire \in DOMAIN el.attrs}
        Field(fld) ==
            IF At(fld) # {} THEN el.attrs[(CHOOSE a \in At(fld) : TRUE).wire]
            ELSE IF Kid(fld) # {}
            THEN LET d == CHOOSE x \in Kid(fld) : TRUE
                 IN  IF Built(d) = <<>> THEN C.init[fld]
                     ELSE IF d.many THEN C.init[fld] \o Built(d)
                     ELSE Last(Built(d))
            ELSE IF C.text /\ fld = "value" THEN gds_validate_string(el.text)
            ELSE C.init[fld]
    IN  [class |-> c, tag |-> tag, f |-> [fld \in DOMAIN C.init |-> Field(fld)]]

----------------------------------------------------------------------------
(* export                                                                  *)

Written(C, o) == {i \in DOMAIN C.attrs : o.f[C.attrs[i].field] # C.attrs[i].default}

\* the values of a child: a list, or the one value that is not None
Held(d, o) == IF d.many THEN o.f[d.field]
              ELSE IF o.f[d.field] = None THEN <<>> ELSE <<o.f[d.field]>>

\* export raises UnicodeEncodeError at the first string it cannot encode (the
\* text of a TextClass is written as UTF-8)
RECURSIVE Encodes(_, _)
Encodes(S, o) ==
    LET C == S[o.class]
    IN  /\ \A i \in Written(C, o) : Encodable(o.f[C.attrs[i].field])
        /\ \A i \in DOMAIN C.kids : \A j \in DOMAIN Held(C.kids[i], o) :
              LET d == C.kids[i]
                  v == Held(d, o)[j]
              IN  IF d.content = "text" THEN Encodable(v)
                  ELSE IF d.content = "int" THEN TRUE ELSE Encodes(S, v)

\* the element that reading the written text gives: exportAttributes, then
\* exportChildren class by class in the order of the class
RECURSIVE Export(_, _)
Export(S, o) ==
    LET C == S[o.class]
        AttrNamed(w) == CHOOSE i \in Written(C, o) : C.attrs[i].wire = w
        Element(d, v) ==
            IF d.content \in {"text", "int"}
            THEN [tag |-> d.tag, attrs |-> <<>>, text |-> quote_xml(v), kids |-> <<>>]
            ELSE Export(S, v)
        Part(d) == [j \in DOMAIN Held(d, o) |-> Element(d, Held(d, o)[j])]
    IN  [tag   |-> IF o.tag = None THEN C.name ELSE o.tag,
         attrs |-> [w \in {C.attrs[i].wire : i \in Written(C, o)} |->
                       quote_attrib(o.f[C.attrs[AttrNamed(w)].field])],
         text  |-> IF C.text THEN quote_xml(o.f["value"]) ELSE None,
         kids  |-> FlattenSeq([i \in DOMAIN C.kids |-> Part(C.kids[i])])]

============================================================================

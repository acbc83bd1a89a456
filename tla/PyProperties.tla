---------------------------- MODULE PyProperties ----------------------------
(***************************************************************************)
(* ossie.properties: the definitions of a component's properties and what  *)
(* happens to a value on its way from a CORBA Any into the component and   *)
(* back: type conversion, bounds, operators of sequences, structs.         *)
(*                                                                         *)
(* An integer is [neg, k, d], the number 2^k + d with a sign, d in -1..1,  *)
(* so that the bounds of 64 bit types are exact.  A struct value is a      *)
(* function from the ids of its fields to a value or None.                 *)
(***************************************************************************)
EXTENDS Integers, Sequences, SequencesExt, FiniteSetsExt, TLC

CONSTANT None

Error == [error |-> TRUE]

----------------------------------------------------------------------------
(* Types                                                                   *)

Simple(py, tc) == [py |-> py, tc |-> tc]
Complex(member, tc, seq) == [py |-> "complex", tc |-> tc, member |-> member, seq |-> seq]

TYPE_MAP ==
    [boolean |-> Simple("int", "boolean"), char |-> Simple("str", "char"),
     double |-> Simple("float", "double"), float |-> Simple("float", "float"),
     long |-> Simple("int", "long"), longlong |-> Simple("long", "longlong"),
     objref |-> Simple("object", "Object"), octet |-> Simple("int", "octet"),
     short |-> Simple("int", "short"), string |-> Simple("str", "string"),
     ulong |-> Simple("long", "ulong"), ulonglong |-> Simple("long", "ulonglong"),
     ushort |-> Simple("int", "ushort"),
     complexFloat |-> Complex("float", "complexFloat", "complexFloatSeq"),
     complexBoolean |-> Complex("int", "complexBoolean", "complexBooleanSeq"),
     complexULong |-> Complex("long", "complexULong", "complexLongSeq"),
     complexShort |-> Complex("int", "complexShort", "complexShortSeq"),
     complexOctet |-> Complex("int", "complexOctet", "complexOctetSeq"),
     complexChar |-> Complex("str", "complexChar", "complexCharSeq"),
     complexUShort |-> Complex("int", "complexUShort", "complexUShortSeq"),
     complexDouble |-> Complex("float", "complexDouble", "complexDoubleSeq"),
     complexLong |-> Complex("long", "complexLong", "complexLongSeq"),
     complexLongLong |-> Complex("long", "complexLongLong", "complexLongLongSeq"),
     complexULongLong |-> Complex("long", "complexULongLong", "complexULongLongSeq"),
     utctime |-> Simple("UTCTime", "UTCTime")]

IsComplex(t) == TYPE_MAP[t].py = "complex"

\* what the constructor of a Python class makes of a number: integers have no
\* fraction, doubles (complex is two of them) have 53 bits
Constructed(py, of) ==
    CASE py \in {"int", "long"} /\ of = "fraction" -> "cut"
      [] py \in {"float", "complex"} /\ of = "wide" -> "rounded"
      [] OTHER -> of

\* the classes a constructor takes: an int has a real and an imag, like a CF
\* structure, and CORBA.Object takes nothing; there is no complex of characters
Constructible(v, t) ==
    LET py == TYPE_MAP[t].py
    IN  CASE py = "str" -> TRUE
          [] py \in {"int", "long", "float"} ->
                v.py \in {"int", "long", "float"} \/ (v.py = "str" /\ v.num)
          [] py = "complex" ->
                /\ v.py \in {"dict", "CFcomplex", "int", "long", "float"}
                /\ TYPE_MAP[t].member # "str"
          [] py = "UTCTime" -> v.py = "dict"
          [] py = "object" -> FALSE

\* to_pyvalue, _toPyComplex: what a value of a Python class becomes for a type;
\* a word that is no boolean stays a word
to_pyvalue(v, t) ==
    LET py == TYPE_MAP[t].py
    IN  IF v = None \/ v.py = py THEN v
        ELSE IF t = "boolean" /\ v.py = "str"
             THEN IF v.num THEN [v EXCEPT !.py = "int"] ELSE v
        ELSE IF ~Constructible(v, t) THEN Error
        ELSE [v EXCEPT !.py = py, !.of = Constructed(py, @)]

\* _convertComplexToCFComplex: the Any of a complex type holds a CF structure of
\* its member type.  A word that is no boolean cannot be sent.
to_tc_value(v, t) ==
    IF v = None THEN [tc |-> "null", of |-> None]
    ELSE IF IsComplex(t)
         THEN [tc |-> TYPE_MAP[t].tc, of |-> Constructed(TYPE_MAP[t].member, v.of)]
    ELSE LET p == IF v.py = TYPE_MAP[t].py THEN v ELSE to_pyvalue(v, t)
         IN  IF p = Error \/ p.py # TYPE_MAP[t].py THEN Error
             ELSE [tc |-> TYPE_MAP[t].tc, of |-> p.of]

----------------------------------------------------------------------------
(* Bounds                                                                  *)

Below(v, w) == v.neg \/ v.k < w \/ (v.k = w /\ v.d < 0)                 \* v < 2^w
FromMinus(v, w) == ~v.neg \/ v.k < w \/ (v.k = w /\ v.d <= 0)           \* v >= -2^w

Signed(w) == [up |-> w - 1, low |-> w - 1, signed |-> TRUE]
Unsigned(w) == [up |-> w, low |-> 0, signed |-> FALSE]

inBounds(b, v) ==
    Below(v, b.up) /\ (IF b.signed THEN FromMinus(v, b.low) ELSE ~v.neg)

realBounds ==
    [octet |-> Unsigned(8), short |-> Signed(16), ushort |-> Unsigned(16), long |-> Signed(32),
     ulong |-> Unsigned(32), longlong |-> Signed(64), ulonglong |-> Unsigned(64)]

\* the name of complexULong has a colon too many in the table
complexBounds ==
    [complexOctet |-> "octet", complexShort |-> "short", complexUShort |-> "ushort",
     complexLong |-> "long", complexLongLong |-> "longlong", complexULongLong |-> "ulonglong"]

checkBoundsOfSimpleProperty(t, v) ==
    /\ t \in DOMAIN realBounds => inBounds(realBounds[t], v.re)
    /\ t \in DOMAIN complexBounds =>
          inBounds(realBounds[complexBounds[t]], v.re) /\ inBounds(realBounds[complexBounds[t]], v.im)

\* what configure checks and stores: complex numbers, alone or in a sequence, are
\* made of doubles by then; those in a struct are still as they came
Double(v) == IF v.k > 53 THEN [v EXCEPT !.d = 0] ELSE v
_fromAny(kind, t, v) ==
    IF IsComplex(t) /\ kind \in {"simple", "simpleseq"}
    THEN [re |-> Double(v.re), im |-> Double(v.im)] ELSE v

\* a value, a sequence, a struct, a sequence of structs: every simple inside
checkValue(kind, t, v) ==
    CASE kind = "simple" -> v = None \/ checkBoundsOfSimpleProperty(t, v)
      [] kind = "simpleseq" -> \A i \in DOMAIN v : checkBoundsOfSimpleProperty(t, v[i])
      [] kind = "struct" -> \A f \in DOMAIN v : v[f] = None \/ checkBoundsOfSimpleProperty(t, v[f])
      [] kind = "structseq" ->
            \A i \in DOMAIN v : \A f \in DOMAIN v[i] :
                v[i][f] = None \/ checkBoundsOfSimpleProperty(t, v[i][f])

----------------------------------------------------------------------------
(* Operators of sequences.  A sequence is [cont, items]: a list is changed *)
(* in place, a tuple is copied.                                            *)

\* query with "[]", "[*]", "[?]", "[@]", "[#]", "[i]" or "[lo:hi]"
getOperator(items, op) ==
    CASE op.op \in {"[]", "[*]"} -> items
      [] op.op = "[?]" -> [i \in DOMAIN items |-> i - 1]
      [] op.op = "[@]" -> [i \in DOMAIN items |-> <<i - 1, items[i]>>]
      [] op.op = "[#]" -> <<Len(items)>>
      [] op.op = "[:]" -> SubSeq(items, op.lo + 1, Min({op.hi, Len(items)}))
      [] op.op = "[,]" -> IF \A i \in DOMAIN op.at : op.at[i] < Len(items)
                          THEN [i \in DOMAIN op.at |-> items[op.at[i] + 1]] ELSE Error

\* configure with "[@]": the pairs in order up to the first bad index, their
\* values neither converted nor checked
SetUpTo(items, pairs) ==
    LET bad == {i \in DOMAIN pairs : pairs[i][1] >= Len(items)}
        n == IF bad = {} THEN Len(pairs) ELSE Min(bad) - 1
    IN  FoldLeft(LAMBDA s, p : [s EXCEPT ![p[1] + 1] = p[2]], items, SubSeq(pairs, 1, n))

setKeyValuePairsOperator_InPlace(value, pairs) ==
    LET ok == \A i \in DOMAIN pairs : pairs[i][1] < Len(value.items)
        done == SetUpTo(value.items, pairs)
    IN  [ok |-> ok, stored |-> [value EXCEPT !.items = done], changed |-> ok /\ done # value.items]

setKeyValuePairsOperator(value, pairs) ==
    LET ok == \A i \in DOMAIN pairs : pairs[i][1] < Len(value.items)
        done == SetUpTo(value.items, pairs)
    IN  [ok |-> ok,
         stored |-> IF value.cont = "list" \/ ok THEN [value EXCEPT !.items = done] ELSE value,
         \* a list compared with itself has not changed
         changed |-> ok /\ value.cont = "tuple" /\ done # value.items]

----------------------------------------------------------------------------
(* Structs                                                                 *)

\* def maps the ids of the fields to whether they are optional
struct_from_props(props, def) ==
    IF \E f \in DOMAIN def : ~def[f] /\ f \notin DOMAIN props THEN Error
    ELSE [f \in DOMAIN def |-> IF f \in DOMAIN props THEN props[f] ELSE None]

\* every field, with a value or not
struct_to_props(v) == [f \in DOMAIN v |-> v[f]]

\* query of a struct leaves out optional fields without value or elements; that
\* of a sequence of structs does not
query(v, def) ==
    LET props == struct_to_props(v)
    IN  [f \in {f \in DOMAIN props : ~(def[f] /\ props[f] \in {None, "empty"})} |-> props[f]]

----------------------------------------------------------------------------
(* A float in a profile.  Python writes digit, fraction and exponent; the  *)
(* profile has the digits and the zeros.  A number is normalised to its    *)
(* digits and the power of ten of the first one.                           *)

\* the digits written and the power of the first digit; None: not a number
to_xmlvalue(r) ==
    IF r.frac = <<>> THEN None
    ELSE IF r.exp > 0
         THEN [neg |-> r.neg, digits |-> <<r.int>> \o r.frac
                              \o [i \in 1..(r.exp - Len(r.frac)) |-> 0], point |-> r.exp + 1]
         ELSE LET diff == IF r.neg THEN 2 ELSE 1
                  zeros == (-r.exp) - diff
              IN  [neg |-> r.neg,
                   digits |-> [i \in 1..(zeros + IF r.neg THEN 1 ELSE 0) |-> 0]
                              \o <<r.int>> \o r.frac,
                   point |-> 0]

Normal(n) ==
    LET first == Min({i \in DOMAIN n.digits : n.digits[i] # 0})
        last == Max({i \in DOMAIN n.digits : n.digits[i] # 0})
    IN  [neg |-> n.neg, digits |-> SubSeq(n.digits, first, last), power |-> n.point - first]

----------------------------------------------------------------------------
VARIABLE input     \* one value on its way

Small(n) == [neg |-> n < 0, k |-> 2, d |-> 0]
Numbers == [neg : BOOLEAN, k : {2, 7, 8, 15, 16, 31, 32, 63, 64}, d : -1..1]
Fields == {"f", "g"}
Defs == [Fields -> BOOLEAN]
Sequences3 == UNION {[1..n -> {"x", "y"}] : n \in 0..2}
Pairs == UNION {[1..n -> (0..2) \X {"x", "z"}] : n \in 0..2}

Init ==
    \/ \E t \in DOMAIN realBounds \union DOMAIN complexBounds, re \in Numbers, im \in {Small(1)} \union Numbers,
          k \in {"simple", "simpleseq", "struct", "structseq"} :
          /\ im = Small(1) \/ (IsComplex(t) /\ re = Small(1))
          /\ input = [is |-> "bounds", t |-> t, kind |-> k, re |-> re, im |-> im]
    \/ \E t \in DOMAIN TYPE_MAP, num \in BOOLEAN, of \in {"whole", "wide", "fraction"},
          py \in {"int", "long", "float", "str", "dict", "CFcomplex", "UTCTime", "object"} :
          /\ py \in {"int", "long"} => of # "fraction"
          /\ py \in {"str", "UTCTime", "object"} => of = "whole"
          \* nobody sends a number for a complex of characters
          /\ t = "complexChar" => py \notin {"int", "long", "float"}
          /\ input = [is |-> "type", t |-> t, v |-> [py |-> py, num |-> num, of |-> of]]
    \/ \E s \in Sequences3, c \in {"list", "tuple"}, p \in Pairs :
          input = [is |-> "sequence", items |-> s, cont |-> c, pairs |-> p]
    \/ \E d \in Defs, v \in [Fields -> {"x", "empty", None}], q \in SUBSET Fields :
          input = [is |-> "struct", def |-> d, v |-> v, given |-> q]
    \/ \E neg \in BOOLEAN, i \in {1, 9}, f \in {<<>>, <<5>>, <<0, 5>>}, e \in {-9, -6, -5, 16, 17, 22} :
          input = [is |-> "float", neg |-> neg, int |-> i, frac |-> f, exp |-> e]

----------------------------------------------------------------------------
\* the values of the CORBA type with that many bits
Fits(t, v) ==
    CASE t \in {"octet", "complexOctet"} -> ~v.neg /\ Below(v, 8)
      [] t \in {"ushort", "complexUShort"} -> ~v.neg /\ Below(v, 16)
      [] t = "ulong" -> ~v.neg /\ Below(v, 32)
      [] t \in {"ulonglong", "complexULongLong"} -> ~v.neg /\ Below(v, 64)
      [] t \in {"short", "complexShort"} -> Below(v, 15) /\ FromMinus(v, 15)
      [] t \in {"long", "complexLong"} -> Below(v, 31) /\ FromMinus(v, 31)
      [] t \in {"longlong", "complexLongLong"} -> Below(v, 63) /\ FromMinus(v, 63)
      [] OTHER -> TRUE

Shaped(i, x) ==
    CASE i.kind = "simple" -> x
      [] i.kind = "simpleseq" -> <<[re |-> Small(1), im |-> Small(1)], x>>
      [] i.kind = "struct" -> [f |-> None, g |-> x]
      [] i.kind = "structseq" -> <<[f |-> None], [f |-> x]>>

\* configure without an operator accepts exactly the values that, as it stores
\* them, fit their CORBA type, in a struct or a sequence as by itself and in both
\* parts of a complex number (complexULong apart, which is never checked).  What
\* it stores is what it was given, but for complex numbers beyond 53 bits by
\* themselves or in a sequence: 2^63 - 1 is refused, 2^63 + 1 becomes 2^63.
BoundsExact ==
    input.is = "bounds" =>
        LET given == [re |-> input.re, im |-> input.im]
            stored == _fromAny(input.kind, input.t, given)
        IN  /\ checkValue(input.kind, input.t, Shaped(input, stored))
                  <=> Fits(input.t, stored.re) /\ Fits(input.t, stored.im)
            /\ \/ stored = given
               \/ /\ IsComplex(input.t) /\ input.kind \in {"simple", "simpleseq"}
                  /\ \E v \in {input.re, input.im} : v.k > 53 /\ v.d # 0

\* Whether its type has room for a value: fractions in integers, and integers of
\* more than 53 bits in doubles, of which every complex number is made, have none.
HasRoom(v, t) ==
    LET integer == TYPE_MAP[t].py \in {"int", "long"}
                   \/ (IsComplex(t) /\ TYPE_MAP[t].member \in {"int", "long"})
    IN  /\ v.of = "fraction" => ~integer
        /\ v.of = "wide" => TYPE_MAP[t].py \notin {"float", "complex"}

\* A value that configure took is not refused when it is handed out, whatever
\* class it came in (a word in a boolean apart), and it is the value that came in
\* if the type has room for it: the two conversions agree.
TypesKept ==
    input.is = "type" =>
        LET p == to_pyvalue(input.v, input.t)
            sent == to_tc_value(p, input.t)
        IN  p # Error /\ ~(input.t = "boolean" /\ p.py = "str") =>
                /\ sent # Error /\ sent.tc = TYPE_MAP[input.t].tc
                /\ HasRoom(input.v, input.t) => sent.of = input.v.of

\* The pairs "[@]" answers, configured again, change nothing; those of an
\* accepted configure are what "[@]" then answers at their places; and a refused
\* one leaves a tuple alone (a list keeps the pairs before the bad one).
PairsExact ==
    input.is = "sequence" =>
        LET v == [cont |-> input.cont, items |-> input.items]
            all == getOperator(input.items, [op |-> "[@]"])
            r == setKeyValuePairsOperator(v, input.pairs)
        IN  /\ setKeyValuePairsOperator(v, all).stored = v
            /\ r.ok => \A i \in DOMAIN input.pairs :
                  \/ \E j \in DOMAIN input.pairs : j > i /\ input.pairs[j][1] = input.pairs[i][1]
                  \/ getOperator(r.stored.items, [op |-> "[,]", at |-> <<input.pairs[i][1]>>])
                        = <<input.pairs[i][2]>>
            /\ Len(r.stored.items) = Len(input.items)
            /\ input.cont = "tuple" /\ ~r.ok => r.stored = v

\* The fields of a struct configure the same struct again, and so does what query
\* answers for it, though an optional sequence without elements is then one
\* without value; a struct is refused if and only if a field that is not optional
\* is missing.
StructsKept ==
    input.is = "struct" =>
        /\ struct_from_props(struct_to_props(input.v), input.def) = input.v
        /\ struct_from_props(query(input.v, input.def), input.def) =
              [f \in Fields |-> IF input.def[f] /\ input.v[f] = "empty" THEN None ELSE input.v[f]]
        /\ LET given == [f \in input.given |-> "x"]
           IN  struct_from_props(given, input.def) = Error
                   <=> \E f \in Fields \ input.given : ~input.def[f]

\* A float written to a profile with its zeros is the same number, if Python
\* shows it with a point.
FloatsKept ==
    input.is = "float" /\ input.frac # <<>> =>
        Normal(to_xmlvalue(input)) =
            Normal([neg |-> input.neg, digits |-> <<input.int>> \o input.frac, point |-> input.exp + 1])
============================================================================

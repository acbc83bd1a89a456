----------------------------- MODULE MCFormats -----------------------------
(***************************************************************************)
(* The files and the pure conversions of the Python libraries in one run:  *)
(* kind says which of them a behaviour is about, and never changes.        *)
(***************************************************************************)
EXTENDS ProfileFiles

CONSTANTS Block, Bpe, Values, MaxElements, MaxData, MaxWrites,    \* of BlueFile
          ByteBits                                                \* of PackedBits

ASSUME FormatsAssumption ==
    /\ Block \in Nat \ {0} /\ Bpe \in Nat \ {0} /\ Values \subseteq Nat \ {0}
    /\ ByteBits \in Nat \ {0}

VARIABLES kind, input,
          disk, want, kws, torn, writer, writes    \* of BlueFile

Packed == INSTANCE PackedBits
Prop == INSTANCE PyProperties
Blue == INSTANCE BlueFile

diskVars == <<disk, want, kws, torn, writer, writes>>

MCInit ==
    /\ Blue!Init
    /\ \/ kind = "profile" /\ input = None /\ Init
       \/ /\ \/ kind = "file" /\ input = None
             \/ kind = "bits" /\ Packed!BitsInit
             \/ kind = "properties" /\ Prop!Init
             \/ kind = "blue" /\ Blue!InitFormats
             \/ kind = "sdds" /\ Packed!HeaderInit
          /\ format = None /\ doc = None /\ file = None
          /\ obj = None /\ old = None /\ phase = None

MCNext ==
    /\ UNCHANGED <<kind, input>>
    /\ \/ kind = "file" /\ Blue!Next /\ UNCHANGED vars
       \/ kind = "profile" /\ Next /\ UNCHANGED diskVars

MCSpec == MCInit /\ [][MCNext]_<<vars, kind, input, diskVars>>

\* Bits are where the offsets say.  An assigned slice of a bitbuffer holds the
\* bits of its source and no other bit changed, for every alignment, a view is
\* the same bits whichever way it is read, and find answers the first match
\* unless its only one is at the last place, which it never tests (bitbuffer.py); the fields of an SDDS header do not overlap, and its getters
\* answer what its setters stored (sdds_pkt.py).
ConversionsExact ==
    /\ kind = "bits" => Packed!AssignExact /\ Packed!ViewsAgree /\ Packed!FindExact
    /\ kind = "sdds" => Packed!FieldsApart /\ Packed!SetThenGet

\* configure accepts exactly the numbers that, as it stores them, fit the CORBA
\* type (the pairs of "[@]" are not checked), and what it took query answers:
\* as a value its type has room for, as pairs, as a struct, and as text
\* (properties.py, resource.py).
PropertiesExact ==
    kind = "properties" =>
        /\ Prop!BoundsExact /\ Prop!TypesKept /\ Prop!PairsExact
        /\ Prop!StructsKept /\ Prop!FloatsKept

\* A BLUE file keeps what was written to it, through every sequence of writes
\* and failures (DataKept, KeywordsKept), and so do the conversions that it is
\* made of: keywords, records, scopes, the patches of the header and the
\* playback as a stream (bluefile.py, bluefile_helpers.py).
BlueFilesKept ==
    /\ Blue!DataKept /\ Blue!KeywordsKept
    /\ kind = "blue" =>
        /\ Blue!KeywordsRoundTrip /\ Blue!RecordsExact /\ Blue!ScopeExact
        /\ Blue!PlaybackExact /\ Blue!PatchesExact

\* Everything in a profile that its DTD allows reaches the objects, is written
\* back in compliance with the DTD, whatever the order of the children in the
\* file that was read, and gives the same objects when it is read again
\* (build and export of the generated parsers).
ProfilesKept ==
    kind = "profile" =>
        RoundTrip /\ ContentKept /\ DtdCompliant
============================================================================

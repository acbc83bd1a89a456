---------------------------- MODULE ProfileFiles ----------------------------
(***************************************************************************)
(* A domain profile file on its way through the Python tools: parsed into  *)
(* objects, exported to a new file, parsed again.  The eight formats have  *)
(* their own generated parsers, the DTDs say what a file may hold.         *)
(***************************************************************************)
EXTENDS GeneratedsSuper, Sequences, Naturals

CONSTANT MaxKids    \* bound on the children of an element of a document

----------------------------------------------------------------------------
(* The document type definitions of the files (redhawk/src/xml/dtd), which *)
(* the Python parsers are tested to comply with: for each element its      *)
(* attributes, and its content as a sequence of alternatives, each at most *)
(* once (One) or repeated (Many); defaults are the attribute values a      *)
(* reader may assume.  An element that is not listed holds text.           *)

\* repeat: the tags that may occur more than once; mix: different tags may occur
One(tags)  == [tags |-> tags, repeat |-> {}, mix |-> FALSE]
Many(tags) == [tags |-> tags, repeat |-> tags, mix |-> TRUE]
Either(repeated, single) ==
    [tags |-> repeated \union single, repeat |-> repeated, mix |-> FALSE]
Defaulted(attrs, defaults, content) ==
    [attrs |-> attrs, defaults |-> defaults, content |-> content, text |-> FALSE]
Element(attrs, content) == Defaulted(attrs, {}, content)
TextElement(attrs) ==
    [attrs |-> attrs, defaults |-> {}, content |-> <<>>, text |-> TRUE]

\* softwareassembly.dtd
SadDtd ==
    [softwareassembly |-> Element({"id", "name", "version"}, <<One({"description"}),
          One({"componentfiles"}), One({"partitioning"}), One({"assemblycontroller"}),
          One({"connections"}), One({"externalports"}), One({"externalproperties"}),
          One({"options"}), One({"usesdevicedependencies"})>>),
     componentfiles |-> Element({}, <<Many({"componentfile"})>>),
     componentfile |-> Element({"id", "type"}, <<One({"localfile"})>>),
     localfile |-> Element({"name"}, <<>>),
     partitioning |-> Element({}, <<Many({"componentplacement", "hostcollocation"})>>),
     componentplacement |-> Element({}, <<One({"componentfileref"}),
          Many({"componentinstantiation"})>>),
     componentfileref |-> Element({"refid"}, <<>>),
     componentinstantiation |-> Element({"id", "startorder"}, <<One({"usagename"}),
          One({"componentproperties"}), One({"affinity"}), One({"loggingconfig"}),
          One({"findcomponent"}), One({"devicerequires"})>>),
     loggingconfig |-> TextElement({"level"}),
     affinity |-> Element({}, <<Many({"simpleref", "simplesequenceref", "structref",
          "structsequenceref"})>>),
     devicerequires |-> Element({}, <<Many({"requires"})>>),
     componentproperties |-> Element({}, <<Many({"simpleref", "simplesequenceref",
          "structref", "structsequenceref"})>>),
     findcomponent |-> Element({}, <<One({"componentresourcefactoryref",
          "namingservice"})>>),
     componentresourcefactoryref |-> Element({"refid"},
          <<One({"resourcefactoryproperties"})>>),
     devicethatloadedthiscomponentref |-> Element({"refid"}, <<>>),
     deviceusedbythiscomponentref |-> Element({"refid", "usesrefid"}, <<>>),
     deviceusedbyapplication |-> Element({"usesrefid"}, <<>>),
     resourcefactoryproperties |-> Element({}, <<Many({"simpleref",
          "simplesequenceref", "structref", "structsequenceref"})>>),
     requires |-> Element({"id", "value"}, <<>>),
     simpleref |-> Element({"refid", "value"}, <<>>),
     simplesequenceref |-> Element({"refid"}, <<One({"values"})>>),
     structref |-> Element({"refid"}, <<Many({"simpleref", "simplesequenceref"})>>),
     structsequenceref |-> Element({"refid"}, <<Many({"structvalue"})>>),
     structvalue |-> Element({}, <<Many({"simpleref", "simplesequenceref"})>>),
     values |-> Element({}, <<Many({"value"})>>),
     componentinstantiationref |-> Element({"refid"}, <<>>),
     findby |-> Element({}, <<One({"namingservice", "stringifiedobjectref",
          "domainfinder"})>>),
     namingservice |-> Element({"name"}, <<>>),
     domainfinder |-> Element({"type", "name"}, <<>>),
     hostcollocation |-> Element({"id", "name"}, <<Many({"componentplacement"}),
          Many({"usesdeviceref"}), Many({"reservation"})>>),
     usesdeviceref |-> Element({"refid"}, <<>>),
     reservation |-> Element({"kind", "value"}, <<>>),
     assemblycontroller |-> Element({}, <<One({"componentinstantiationref"})>>),
     connections |-> Element({}, <<Many({"connectinterface"})>>),
     connectinterface |-> Element({"id"}, <<One({"usesport"}), One({"providesport",
          "componentsupportedinterface", "findby"})>>),
     usesport |-> Element({}, <<One({"usesidentifier"}),
          One({"componentinstantiationref", "devicethatloadedthiscomponentref",
          "deviceusedbythiscomponentref", "deviceusedbyapplication", "findby"})>>),
     providesport |-> Element({}, <<One({"providesidentifier"}),
          One({"componentinstantiationref", "devicethatloadedthiscomponentref",
          "deviceusedbythiscomponentref", "deviceusedbyapplication", "findby"})>>),
     componentsupportedinterface |-> Element({}, <<One({"supportedidentifier"}),
          One({"componentinstantiationref", "devicethatloadedthiscomponentref",
          "deviceusedbythiscomponentref", "deviceusedbyapplication", "findby"})>>),
     externalports |-> Element({}, <<Many({"port"})>>),
     port |-> Element({"externalname"}, <<One({"description"}), One({"usesidentifier",
          "providesidentifier", "supportedidentifier"}),
          One({"componentinstantiationref"})>>),
     externalproperties |-> Element({}, <<Many({"property"})>>),
     property |-> Element({"comprefid", "propid", "externalpropid"}, <<>>),
     options |-> Element({}, <<Many({"option"})>>),
     usesdevicedependencies |-> Element({}, <<Many({"usesdevice"})>>),
     usesdevice |-> Element({"id", "type"}, <<Many({"propertyref", "simpleref",
          "simplesequenceref", "structref", "structsequenceref"})>>),
     propertyref |-> Element({"refid", "value"}, <<>>),
     option |-> Element({"name", "value"}, <<>>)]

\* deviceconfiguration.dtd
DcdDtd ==
    [deviceconfiguration |-> Element({"id", "name"}, <<One({"description"}),
          One({"devicemanagersoftpkg"}), One({"componentfiles"}),
          One({"partitioning"}), One({"connections"}), One({"domainmanager"}),
          One({"filesystemnames"})>>),
     devicemanagersoftpkg |-> Element({}, <<One({"localfile"})>>),
     componentfiles |-> Element({}, <<Many({"componentfile"})>>),
     componentfile |-> Element({"id", "type"}, <<One({"localfile"})>>),
     localfile |-> Element({"name"}, <<>>),
     partitioning |-> Element({}, <<Many({"componentplacement"})>>),
     componentplacement |-> Element({}, <<One({"componentfileref"}),
          One({"deployondevice"}), One({"compositepartofdevice"}),
          One({"devicepkgfile"}), Many({"componentinstantiation"})>>),
     componentfileref |-> Element({"refid"}, <<>>),
     deployondevice |-> Element({"refid"}, <<>>),
     compositepartofdevice |-> Element({"refid"}, <<>>),
     devicepkgfile |-> Element({"type"}, <<One({"localfile"})>>),
     componentinstantiation |-> Element({"id", "startorder"}, <<One({"usagename"}),
          One({"componentproperties"}), One({"affinity"}), One({"loggingconfig"}),
          One({"deployerrequires"})>>),
     loggingconfig |-> TextElement({"level"}),
     affinity |-> Element({}, <<Many({"simpleref", "simplesequenceref", "structref",
          "structsequenceref"})>>),
     deployerrequires |-> Element({}, <<Many({"requires"})>>),
     componentproperties |-> Element({}, <<Many({"simpleref", "simplesequenceref",
          "structref", "structsequenceref"})>>),
     devicethatloadedthiscomponentref |-> Element({"refid"}, <<>>),
     deviceusedbythiscomponentref |-> Element({"refid", "usesrefid"}, <<>>),
     requires |-> Element({"id", "value"}, <<>>),
     simpleref |-> Element({"refid", "value"}, <<>>),
     simplesequenceref |-> Element({"refid"}, <<One({"values"})>>),
     structref |-> Element({"refid"}, <<Many({"simpleref", "simplesequenceref"})>>),
     structsequenceref |-> Element({"refid"}, <<Many({"structvalue"})>>),
     structvalue |-> Element({}, <<Many({"simpleref", "simplesequenceref"})>>),
     values |-> Element({}, <<Many({"value"})>>),
     componentinstantiationref |-> Element({"refid"}, <<>>),
     domainmanager |-> Element({}, <<One({"namingservice", "stringifiedobjectref"})>>),
     findby |-> Element({}, <<One({"namingservice", "stringifiedobjectref",
          "domainfinder"})>>),
     namingservice |-> Element({"name"}, <<>>),
     domainfinder |-> Element({"type", "name"}, <<>>),
     filesystemnames |-> Element({}, <<Many({"filesystemname"})>>),
     filesystemname |-> Element({"mountname", "deviceid"}, <<>>),
     connections |-> Element({}, <<Many({"connectinterface"})>>),
     connectinterface |-> Element({"id"}, <<One({"usesport"}), One({"providesport",
          "componentsupportedinterface", "findby"})>>),
     usesport |-> Element({}, <<One({"usesidentifier"}),
          One({"componentinstantiationref", "devicethatloadedthiscomponentref",
          "deviceusedbythiscomponentref", "findby"})>>),
     providesport |-> Element({}, <<One({"providesidentifier"}),
          One({"componentinstantiationref", "devicethatloadedthiscomponentref",
          "deviceusedbythiscomponentref", "findby"})>>),
     componentsupportedinterface |-> Element({}, <<One({"supportedidentifier"}),
          One({"componentinstantiationref", "findby"})>>)]

\* softpkg.dtd
SpdDtd ==
    [softpkg |-> Element({"id", "name", "type", "version"}, <<One({"title"}),
          Many({"author"}), One({"description"}), One({"propertyfile"}),
          One({"descriptor"}), Many({"implementation"}), Many({"usesdevice"})>>),
     localfile |-> Element({"name"}, <<>>),
     propertyfile |-> Element({"type"}, <<One({"localfile"})>>),
     author |-> Element({}, <<Many({"name"}), One({"company"}), One({"webpage"})>>),
     descriptor |-> Element({"name"}, <<One({"localfile"})>>),
     implementation |-> Defaulted({"id", "aepcompliance"}, {<<"aepcompliance",
          "aep_compliant">>}, <<One({"description"}), One({"propertyfile"}),
          One({"code"}), One({"compiler"}), One({"programminglanguage"}),
          One({"humanlanguage"}), One({"runtime"}), Many({"os", "processor",
          "dependency"}), Many({"usesdevice"})>>),
     code |-> Element({"type"}, <<One({"localfile"}), One({"entrypoint"}),
          One({"stacksize"}), One({"priority"})>>),
     compiler |-> Element({"name", "version"}, <<>>),
     programminglanguage |-> Element({"name", "version"}, <<>>),
     humanlanguage |-> Element({"name"}, <<>>),
     os |-> Element({"name", "version"}, <<>>),
     processor |-> Element({"name"}, <<>>),
     dependency |-> Element({"type"}, <<One({"softpkgref", "propertyref", "simpleref",
          "simplesequenceref", "structref", "structsequenceref"})>>),
     runtime |-> Element({"name", "version"}, <<>>),
     propertyref |-> Element({"refid", "value"}, <<>>),
     softpkgref |-> Element({}, <<One({"localfile"}), One({"implref"})>>),
     implref |-> Element({"refid"}, <<>>),
     usesdevice |-> Element({"id", "type"}, <<Many({"propertyref", "simpleref",
          "simplesequenceref", "structref", "structsequenceref"})>>),
     simpleref |-> Element({"refid", "value"}, <<>>),
     simplesequenceref |-> Element({"refid"}, <<One({"values"})>>),
     structref |-> Element({"refid"}, <<Many({"simpleref", "simplesequenceref"})>>),
     structsequenceref |-> Element({"refid"}, <<Many({"structvalue"})>>),
     structvalue |-> Element({}, <<Many({"simpleref", "simplesequenceref"})>>),
     values |-> Element({}, <<Many({"value"})>>)]

\* properties.dtd
PrfDtd ==
    [properties |-> Element({}, <<One({"description"}), Many({"simple",
          "simplesequence", "test", "struct", "structsequence"})>>),
     simple |-> Defaulted({"id", "type", "name", "complex", "commandline", "optional",
          "mode"}, {<<"complex", "false">>, <<"commandline", "false">>, <<"optional",
          "false">>, <<"mode", "readwrite">>}, <<One({"description"}), One({"value"}),
          One({"units"}), One({"range"}), One({"enumerations"}), Many({"kind"}),
          One({"action"})>>),
     range |-> Element({"min", "max"}, <<>>),
     enumerations |-> Element({}, <<Many({"enumeration"})>>),
     enumeration |-> Element({"label", "value"}, <<>>),
     kind |-> Defaulted({"kindtype"}, {<<"kindtype", "configure">>}, <<>>),
     action |-> Defaulted({"type"}, {<<"type", "external">>}, <<>>),
     simplesequence |-> Defaulted({"id", "type", "name", "complex", "optional",
          "mode"}, {<<"complex", "false">>, <<"optional", "false">>, <<"mode",
          "readwrite">>}, <<One({"description"}), One({"values"}), One({"units"}),
          One({"range"}), Many({"kind"}), One({"action"})>>),
     values |-> Element({}, <<Many({"value"})>>),
     test |-> Element({"id"}, <<One({"description"}), One({"inputValue"}),
          One({"resultValue"})>>),
     inputValue |-> Element({}, <<Many({"simple"})>>),
     resultValue |-> Element({}, <<Many({"simple"})>>),
     struct |-> Defaulted({"id", "name", "mode"}, {<<"mode", "readwrite">>},
          <<One({"description"}), Many({"simple", "simplesequence"}),
          Many({"configurationkind"})>>),
     configurationkind |-> Defaulted({"kindtype"}, {<<"kindtype", "configure">>}, <<>>),
     structsequence |-> Defaulted({"id", "name", "mode"}, {<<"mode", "readwrite">>},
          <<One({"description"}), One({"struct"}), Many({"structvalue"}),
          Many({"configurationkind"})>>),
     structvalue |-> Element({}, <<Many({"simpleref", "simplesequenceref"})>>),
     simpleref |-> Element({"refid", "value"}, <<>>),
     simplesequenceref |-> Element({"refid"}, <<One({"values"})>>)]

\* softwarecomponent.dtd
ScdDtd ==
    [softwarecomponent |-> Element({}, <<One({"corbaversion"}),
          One({"componentrepid"}), One({"componenttype"}), One({"componentfeatures"}),
          One({"interfaces"}), One({"propertyfile"})>>),
     propertyfile |-> Element({"type"}, <<One({"localfile"})>>),
     localfile |-> Element({"name"}, <<>>),
     componentrepid |-> Element({"repid"}, <<>>),
     componentfeatures |-> Element({}, <<Many({"supportsinterface"}), One({"ports"})>>),
     supportsinterface |-> Element({"repid", "supportsname"}, <<>>),
     ports |-> Element({}, <<Many({"provides", "uses"})>>),
     provides |-> Element({"repid", "providesname"}, <<One({"description"}),
          Many({"porttype"})>>),
     uses |-> Element({"repid", "usesname"}, <<One({"description"}),
          Many({"porttype"})>>),
     porttype |-> Element({"type"}, <<>>),
     interfaces |-> Element({}, <<Many({"interface"})>>),
     interface |-> Element({"repid", "name"}, <<Many({"inheritsinterface"})>>),
     inheritsinterface |-> Element({"repid"}, <<>>)]

\* devicepkg.dtd
DpdDtd ==
    [devicepkg |-> Element({"id", "name", "version"}, <<One({"title"}),
          Many({"author"}), One({"description"}), One({"hwdeviceregistration"})>>),
     author |-> Element({}, <<Either({"name"}, {"company", "webpage"})>>),
     hwdeviceregistration |-> Element({"id", "name", "version"},
          <<One({"propertyfile"}), One({"description"}), One({"manufacturer"}),
          One({"modelnumber"}), One({"deviceclass"}), Many({"childhwdevice"})>>),
     propertyfile |-> Element({"type"}, <<One({"localfile"})>>),
     localfile |-> Element({"name"}, <<>>),
     deviceclass |-> Element({}, <<Many({"class"})>>),
     childhwdevice |-> Element({}, <<One({"hwdeviceregistration", "devicepkgref"})>>),
     devicepkgref |-> Element({"type"}, <<One({"localfile"})>>)]

\* domainmanagerconfiguration.dtd
DmdDtd ==
    [domainmanagerconfiguration |-> Element({"id", "name"}, <<One({"description"}),
          One({"domainmanagersoftpkg"}), One({"services"})>>),
     domainmanagersoftpkg |-> Element({}, <<One({"localfile"})>>),
     localfile |-> Element({"name"}, <<>>),
     services |-> Element({}, <<Many({"service"})>>),
     service |-> Element({}, <<One({"usesidentifier"}), One({"findby"})>>),
     findby |-> Element({}, <<One({"namingservice", "stringifiedobjectref",
          "domainfinder"})>>),
     namingservice |-> Element({"name"}, <<>>),
     domainfinder |-> Element({"type", "name"}, <<>>)]

\* profile.dtd
ProfileDtd ==
    [profile |-> Element({"filename", "type"}, <<>>)]

\* by the ending of the file name
DtdOf == [sad |-> SadDtd, dcd |-> DcdDtd, spd |-> SpdDtd, prf |-> PrfDtd,
          scd |-> ScdDtd, dpd |-> DpdDtd, dmd |-> DmdDtd, profile |-> ProfileDtd]

----------------------------------------------------------------------------
(* The parsers, one for each format.                                       *)

Sad == INSTANCE SadParser
Dcd == INSTANCE DcdParser
Spd == INSTANCE SpdParser
Minor == INSTANCE MinorParsers

ClassesOf == [sad |-> Sad!classes, dcd |-> Dcd!classes, spd |-> Spd!classes,
              prf |-> Minor!prf_classes, scd |-> Minor!scd_classes, dpd |-> Minor!dpd_classes,
              dmd |-> Minor!dmd_classes, profile |-> Minor!profile_classes]

RootClass(fmt, tag) ==
    CASE fmt = "sad" -> Sad!get_root_tag(tag)
      [] fmt = "dcd" -> Dcd!get_root_tag(tag)
      [] fmt = "spd" -> Spd!get_root_tag(tag)
      [] fmt = "prf" -> Minor!prf_get_root_tag(tag)
      [] fmt = "scd" -> Minor!scd_get_root_tag(tag)
      [] fmt = "dpd" -> Minor!dpd_get_root_tag(tag)
      [] fmt = "dmd" -> Minor!dmd_get_root_tag(tag)
      [] fmt = "profile" -> Minor!profile_get_root_tag(tag)

----------------------------------------------------------------------------
(* The documents that are handled, as the XML library reads them: for each *)
(* element of the DTD one with an attribute of each kind of string, and    *)
(* elements with every short sequence of children, allowed or not.         *)

\* values an attribute may have: any string, or an enumerated word
Words == Strings \union {"readwrite", "readonly", "false", "configure", "external", "aep_compliant"}

Leaf(t, s) == [tag |-> t, attrs |-> <<>>, text |-> s, kids |-> <<>>]

TagsOf(D, t) == UNION {g.tags : g \in ToSet(D[t].content)}

\* one child per alternative of the content model, in order
FullKids(D, t) ==
    [i \in DOMAIN D[t].content |->
        Leaf(CHOOSE k \in D[t].content[i].tags : TRUE, None)]

\* the children with content: text if they hold text, all their attributes and
\* children otherwise; and one that the DTD does not know
ChildrenOf(D, t, s) ==
    {Leaf("unknown", None)}
    \union {IF k \notin DOMAIN D \/ D[k].text
            THEN Leaf(k, s)
            ELSE [tag |-> k, attrs |-> [a \in D[k].attrs |-> "plain"], text |-> None,
                  kids |-> FullKids(D, k)] :
               k \in TagsOf(D, t)}

\* no child, one that may also be empty, or several in any order
KidSeqs(D, t) ==
    [1..1 -> {Leaf(k, None) : k \in TagsOf(D, t)} \union ChildrenOf(D, t, "cdata")]
    \union UNION {[1..n -> ChildrenOf(D, t, "num")] : n \in 0..MaxKids}

AttrDocs(D, t) ==
    {[tag |-> t, attrs |-> [x \in {a} |-> v], text |-> None, kids |-> <<>>] :
        a \in D[t].attrs \union {"unknown"}, v \in Words}

TextDocs(D, t) ==
    {[tag |-> t, attrs |-> <<>>, text |-> None, kids |-> <<Leaf(k, s)>>] :
        k \in {x \in TagsOf(D, t) : x \notin DOMAIN D \/ D[x].text}, s \in Strings}

KidDocs(D, t) ==
    {[tag |-> t, attrs |-> [a \in D[t].attrs |-> "markup"], text |-> None, kids |-> ks] :
        ks \in KidSeqs(D, t)}

\* the root element of each format
Root == [sad |-> "softwareassembly", dcd |-> "deviceconfiguration",
         spd |-> "softpkg", prf |-> "properties", scd |-> "softwarecomponent",
         dpd |-> "devicepkg", dmd |-> "domainmanagerconfiguration",
         profile |-> "profile"]

\* the elements a document may hold, each with the elements around it
MaxDepth == 8
Places(fmt) ==
    LET D == DtdOf[fmt]
        P[n \in 0..MaxDepth] ==
            IF n = 0 THEN {<<Root[fmt], <<>>>>}
            ELSE UNION {{<<k, <<p[1]>> \o p[2]>> : k \in TagsOf(D, p[1]) \intersect DOMAIN D} :
                           p \in P[n - 1]}
    IN  UNION {P[n] : n \in 0..MaxDepth}

\* el inside of the elements of path, innermost first
RECURSIVE Within(_, _)
Within(path, el) ==
    IF path = <<>> THEN el
    ELSE Within(Tail(path), [tag |-> Head(path), attrs |-> <<>>, text |-> None,
                             kids |-> <<el>>])

DocsOf(fmt) ==
    LET D == DtdOf[fmt]
        places == Places(fmt)
        DocsAt(p) == {Within(p[2], el) : el \in AttrDocs(D, p[1]) \union TextDocs(D, p[1])
                                                   \union KidDocs(D, p[1])}
    IN  UNION {DocsAt(CHOOSE p \in places : p[1] = t) : t \in {p[1] : p \in places}}

----------------------------------------------------------------------------
VARIABLES format,   \* the format of the file
          doc,      \* the document first found in the file
          file,     \* what the file holds now
          obj,      \* the root object of the last parse
          old,      \* the root object of the parse before it
          phase     \* "file", "parsed", "saved", "reparsed" or an exception

vars == <<format, doc, file, obj, old, phase>>

Init == /\ format \in DOMAIN DtdOf
        /\ doc \in DocsOf(format)
        /\ file = doc
        /\ obj = None /\ old = None
        /\ phase = "file"

\* parse: the root class by tag, then build; what it raises reaches the caller
Parse ==
    /\ phase \in {"file", "saved"}
    /\ LET S == ClassesOf[format]
           c == RootClass(format, file.tag)
       IN  IF Parses(S, c, file)
           THEN /\ obj' = Build(S, c, file, None)
                /\ old' = obj
                /\ phase' = IF phase = "file" THEN "parsed" ELSE "reparsed"
           ELSE phase' = "parse error" /\ UNCHANGED <<obj, old>>
    /\ UNCHANGED <<format, doc, file>>

\* export to a new file; a UnicodeEncodeError reaches the caller
Save ==
    /\ phase = "parsed"
    /\ IF Encodes(ClassesOf[format], obj)
       THEN file' = Export(ClassesOf[format], obj) /\ phase' = "saved"
       ELSE phase' = "encode error" /\ UNCHANGED file
    /\ UNCHANGED <<format, doc, obj, old>>

Next == Parse \/ Save

Spec == Init /\ [][Next]_vars

----------------------------------------------------------------------------
(* What a DTD says of a document.                                          *)

\* the place of a child in the content model of its parent
Place(D, t, k) ==
    CHOOSE i \in DOMAIN D[t].content : k \in D[t].content[i].tags

\* only attributes and children the DTD knows, none more often than it allows
RECURSIVE Populated(_, _)
Populated(D, el) ==
    IF el.tag \notin DOMAIN D THEN DOMAIN el.attrs = {} /\ el.kids = <<>>
    ELSE LET E == D[el.tag]
         IN  /\ DOMAIN el.attrs \subseteq E.attrs
             /\ \A j \in DOMAIN el.kids :
                   /\ \E i \in DOMAIN E.content : el.kids[j].tag \in E.content[i].tags
                   /\ Populated(D, el.kids[j])
             /\ \A i \in DOMAIN E.content :
                   LET here == {j \in DOMAIN el.kids :
                                   el.kids[j].tag \in E.content[i].tags}
                   IN  \A j, k \in here :
                          j = k \/ (IF el.kids[j].tag = el.kids[k].tag
                                    THEN el.kids[j].tag \in E.content[i].repeat
                                    ELSE E.content[i].mix)

\* and the children are in the order of the content model
RECURSIVE Ordered(_, _)
Ordered(D, el) ==
    el.tag \in DOMAIN D =>
        /\ \A i, j \in DOMAIN el.kids :
              i < j => Place(D, el.tag, el.kids[i].tag) <= Place(D, el.tag, el.kids[j].tag)
        /\ \A i \in DOMAIN el.kids : Ordered(D, el.kids[i])

\* the strings whose spelling survives writing and reading
RECURSIVE Clean(_)
Clean(el) == /\ el.text # "cdata"
             /\ \A a \in DOMAIN el.attrs : el.attrs[a] # "multiline"
             /\ \A i \in DOMAIN el.kids : Clean(el.kids[i])

\* children that properties.dtd spells in another way than the parser
RECURSIVE Unread(_)
Unread(el) == \/ el.tag \in {"inputValue", "resultValue"}
              \/ \E i \in DOMAIN el.kids : Unread(el.kids[i])

\* y says what x says, up to attributes that have their default value, the
\* spelling of numbers, and the order of children of different tags
RECURSIVE Says(_, _, _)
Says(D, y, x) ==
    /\ y.tag = x.tag
    /\ \A a \in DOMAIN x.attrs \union DOMAIN y.attrs :
          IF a \in DOMAIN y.attrs \intersect DOMAIN x.attrs THEN y.attrs[a] = x.attrs[a]
          ELSE <<a, (IF a \in DOMAIN x.attrs THEN x ELSE y).attrs[a]>> \in D[x.tag].defaults
    /\ y.text = x.text \/ (y.text = "num" /\ x.text = "padded")
    /\ \A t \in {k.tag : k \in ToSet(x.kids) \union ToSet(y.kids)} :
          LET kx == KidsNamed(x, t)
              ky == KidsNamed(y, t)
          IN  Len(kx) = Len(ky) /\ \A i \in DOMAIN kx : Says(D, ky[i], kx[i])

----------------------------------------------------------------------------
(* Properties.                                                             *)

\* Parsing what export wrote gives the objects that were exported: defaults
\* that export omits are the ones the constructors assume, lists keep their
\* length and order, a root is found again by the tag it is written with, and
\* a document that was parsed never fails to parse after it was saved.
RoundTrip ==
    /\ phase = "reparsed" /\ Clean(doc) => obj = old
    /\ phase = "parse error" => file = doc

\* Everything in a document the DTD allows reaches the object and is written
\* back: no attribute or child of a valid profile is skipped by its parser.
ContentKept ==
    phase = "reparsed" /\ Populated(DtdOf[format], doc) /\ Clean(doc) /\ ~Unread(doc)
        => Says(DtdOf[format], file, doc)

\* What export writes complies with the DTD, whatever order the children had
\* in the document that was read (test_07_PythonParsers checks one file of
\* each format with xmllint).
DtdCompliant ==
    phase = "saved" /\ Populated(DtdOf[format], doc) /\ ~Unread(doc)
        => Populated(DtdOf[format], file) /\ Ordered(DtdOf[format], file)

============================================================================

------------------------------ MODULE MinorParsers ------------------------------
(* The element classes of the parsers of ossie/parsers that are not those  *)
(* of an assembly, a configuration or a software package: software         *)
(* components (scd.py), devices (dpd.py), the domain manager configuration *)
(* (dmd.py), profile descriptors (profile.py) and properties (prf.py).     *)
(* One definition per class; X_init holds the fields and defaults of the   *)
(* constructor where a class is long.                                      *)
EXTENDS GeneratedsSuper

----------------------------------------------------------------------------
(* scd.py *)

softwarecomponent ==
    Class("softwarecomponent",
          [corbaversion |-> None, componentrepid |-> None,
           componenttype |-> None, componentfeatures |-> None,
           interfaces |-> None, propertyfile |-> None],
          <<>>,
          <<Text("corbaversion"),
            ObjAs("componentrepid", "componentrepid", "componentRepId"),
            Text("componenttype"),
            ObjAs("componentfeatures", "componentfeatures", "componentFeatures"),
            Obj("interfaces"),
            ObjAs("propertyfile", "propertyfile", "propertyFile")>>)

propertyFile ==
    Class("propertyFile",
          [type_ |-> None, localfile |-> None],
          <<AttrAs("type", "type_")>>,
          <<ObjAs("localfile", "localfile", "localFile")>>)

localFile ==
    Class("localFile",
          [name |-> None],
          <<Attr("name")>>,
          <<>>)

componentRepId ==
    Class("componentRepId",
          [repid |-> None],
          <<Attr("repid")>>,
          <<>>)

componentFeatures ==
    Class("componentFeatures",
          [supportsinterface |-> <<>>, ports |-> None],
          <<>>,
          <<ObjsAs("supportsinterface", "supportsinterface", "supportsInterface"),
            Obj("ports")>>)

supportsInterface ==
    Class("supportsInterface",
          [repid |-> None, supportsname |-> None],
          <<Attr("repid"), Attr("supportsname")>>,
          <<>>)

ports ==
    Class("ports",
          [provides |-> <<>>, uses |-> <<>>],
          <<>>,
          <<Objs("provides"), Objs("uses")>>)

provides ==
    Class("provides",
          [repid |-> None, providesname |-> None, description |-> None,
           porttype |-> <<>>],
          <<Attr("repid"), Attr("providesname")>>,
          <<Text("description"), ObjsAs("porttype", "porttype", "portType")>>)

uses ==
    Class("uses",
          [repid |-> None, usesname |-> None, description |-> None,
           porttype |-> <<>>],
          <<Attr("repid"), Attr("usesname")>>,
          <<Text("description"), ObjsAs("porttype", "porttype", "portType")>>)

portType ==
    Class("portType",
          [type_ |-> None],
          <<AttrAs("type", "type_")>>,
          <<>>)

interfaces ==
    Class("interfaces",
          [interface |-> <<>>],
          <<>>,
          <<Objs("interface")>>)

interface ==
    Class("interface",
          [repid |-> None, name |-> None, inheritsinterface |-> <<>>],
          <<Attr("repid"), Attr("name")>>,
          <<ObjsAs("inheritsinterface", "inheritsinterface", "inheritsInterface")>>)

inheritsInterface ==
    Class("inheritsInterface",
          [repid |-> None],
          <<Attr("repid")>>,
          <<>>)

scd_classes == [softwarecomponent |-> softwarecomponent,
            propertyFile |-> propertyFile, localFile |-> localFile,
            componentRepId |-> componentRepId,
            componentFeatures |-> componentFeatures,
            supportsInterface |-> supportsInterface, ports |-> ports,
            provides |-> provides, uses |-> uses, portType |-> portType,
            interfaces |-> interfaces, interface |-> interface,
            inheritsInterface |-> inheritsInterface]

scd_GDSClassesMapping == [softwarecomponent |-> "softwarecomponent"]

\* get_root_tag, and the fallback of parse, parseString and parseLiteral: the
\* class mapped to the tag of the root, else the class of that name, else softwarecomponent
scd_get_root_tag(tag) == IF tag \in DOMAIN scd_GDSClassesMapping THEN scd_GDSClassesMapping[tag]
                     ELSE IF tag \in DOMAIN scd_classes THEN tag ELSE "softwarecomponent"

----------------------------------------------------------------------------
(* dpd.py *)

devicepkg_init == [id_ |-> None, name |-> None, version |-> None,
                   title |-> None, author |-> <<>>, description |-> None,
                   hwdeviceregistration |-> None]
devicepkg ==
    Class("devicepkg", devicepkg_init,
          <<AttrAs("id", "id_"), Attr("name"), Attr("version")>>,
          <<Text("title"), Objs("author"), Text("description"),
            Obj("hwdeviceregistration")>>)

author ==
    Class("author",
          [name |-> <<>>, company |-> None, webpage |-> None],
          <<>>,
          <<Texts("name"), Text("company"), Text("webpage")>>)

hwdeviceregistration_init == [id_ |-> None, name |-> None, version |-> None,
                              propertyfile |-> None, description |-> None,
                              manufacturer |-> None, modelnumber |-> None,
                              deviceclass |-> None, childhwdevice |-> <<>>]
hwdeviceregistration ==
    Class("hwdeviceregistration", hwdeviceregistration_init,
          <<AttrAs("id", "id_"), Attr("name"), Attr("version")>>,
          <<Obj("propertyfile"), Text("description"), Text("manufacturer"),
            Text("modelnumber"), Obj("deviceclass"), Objs("childhwdevice")>>)

propertyfile ==
    Class("propertyfile",
          [type_ |-> None, localfile |-> None],
          <<AttrAs("type", "type_")>>,
          <<Obj("localfile")>>)

dpd_localfile ==
    Class("localfile",
          [name |-> None],
          <<Attr("name")>>,
          <<>>)

deviceclass ==
    Class("deviceclass",
          [class_ |-> <<>>],
          <<>>,
          <<TextsAs("class", "class_")>>)

childhwdevice ==
    Class("childhwdevice",
          [hwdeviceregistration |-> None, devicepkgref |-> None],
          <<>>,
          <<Obj("hwdeviceregistration"), Obj("devicepkgref")>>)

devicepkgref ==
    Class("devicepkgref",
          [type_ |-> None, localfile |-> None],
          <<AttrAs("type", "type_")>>,
          <<Obj("localfile")>>)

dpd_classes == [devicepkg |-> devicepkg, author |-> author,
            hwdeviceregistration |-> hwdeviceregistration,
            propertyfile |-> propertyfile, localfile |-> dpd_localfile,
            deviceclass |-> deviceclass, childhwdevice |-> childhwdevice,
            devicepkgref |-> devicepkgref]

dpd_GDSClassesMapping == [author |-> "author", childhwdevice |-> "childhwdevice",
                      deviceclass |-> "deviceclass",
                      devicepkg |-> "devicepkg",
                      devicepkgref |-> "devicepkgref",
                      hwdeviceregistration |-> "hwdeviceregistration",
                      localfile |-> "localfile",
                      propertyfile |-> "propertyfile"]

\* get_root_tag, and the fallback of parse, parseString and parseLiteral: the
\* class mapped to the tag of the root, else the class of that name, else devicepkg
dpd_get_root_tag(tag) == IF tag \in DOMAIN dpd_GDSClassesMapping THEN dpd_GDSClassesMapping[tag]
                     ELSE IF tag \in DOMAIN dpd_classes THEN tag ELSE "devicepkg"

----------------------------------------------------------------------------
(* dmd.py *)

domainmanagerconfiguration ==
    Class("domainmanagerconfiguration",
          [id_ |-> None, name |-> None, description |-> None,
           domainmanagersoftpkg |-> None, services |-> None],
          <<AttrAs("id", "id_"), Attr("name")>>,
          <<Text("description"), Obj("domainmanagersoftpkg"),
            Obj("services")>>)

domainmanagersoftpkg ==
    Class("domainmanagersoftpkg",
          [localfile |-> None],
          <<>>,
          <<Obj("localfile")>>)

dmd_localfile ==
    Class("localfile",
          [name |-> None],
          <<Attr("name")>>,
          <<>>)

services ==
    Class("services",
          [service |-> <<>>],
          <<>>,
          <<Objs("service")>>)

service ==
    Class("service",
          [usesidentifier |-> None, findby |-> None],
          <<>>,
          <<Text("usesidentifier"), Obj("findby")>>)

findby ==
    Class("findby",
          [namingservice |-> None, stringifiedobjectref |-> None,
           domainfinder |-> None],
          <<>>,
          <<Obj("namingservice"), Text("stringifiedobjectref"),
            Obj("domainfinder")>>)

namingservice ==
    Class("namingservice",
          [name |-> None],
          <<Attr("name")>>,
          <<>>)

domainfinder ==
    Class("domainfinder",
          [type_ |-> None, name |-> None],
          <<AttrAs("type", "type_"), Attr("name")>>,
          <<>>)

dmd_classes == [domainmanagerconfiguration |-> domainmanagerconfiguration,
            domainmanagersoftpkg |-> domainmanagersoftpkg,
            localfile |-> dmd_localfile, services |-> services,
            service |-> service, findby |-> findby,
            namingservice |-> namingservice, domainfinder |-> domainfinder]

dmd_GDSClassesMapping == [domainfinder |-> "domainfinder",
                      domainmanagerconfiguration |-> "domainmanagerconfiguration",
                      domainmanagersoftpkg |-> "domainmanagersoftpkg",
                      findby |-> "findby", localfile |-> "localfile",
                      namingservice |-> "namingservice",
                      service |-> "service", services |-> "services"]

\* get_root_tag, and the fallback of parse, parseString and parseLiteral: the
\* class mapped to the tag of the root, else the class of that name, else domainmanagerconfiguration
dmd_get_root_tag(tag) == IF tag \in DOMAIN dmd_GDSClassesMapping THEN dmd_GDSClassesMapping[tag]
                     ELSE IF tag \in DOMAIN dmd_classes THEN tag ELSE "domainmanagerconfiguration"

----------------------------------------------------------------------------
(* profile.py *)

profile ==
    Class("profile",
          [filename |-> None, type_ |-> None],
          <<Attr("filename"), AttrAs("type", "type_")>>,
          <<>>)

profile_classes == [profile |-> profile]

profile_GDSClassesMapping == [profile |-> "profile"]

\* get_root_tag, and the fallback of parse, parseString and parseLiteral: the
\* class mapped to the tag of the root, else the class of that name, else profile
profile_get_root_tag(tag) == IF tag \in DOMAIN profile_GDSClassesMapping THEN profile_GDSClassesMapping[tag]
                     ELSE IF tag \in DOMAIN profile_classes THEN tag ELSE "profile"

----------------------------------------------------------------------------
(* prf.py *)

action ==
    Class("action",
          [type_ |-> "external"],
          <<Enum(AttrDefault("type", "type_", "external"))>>,
          <<>>)

configurationKind ==
    Class("configurationKind",
          [kindtype |-> "configure"],
          <<Enum(AttrDefault("kindtype", "kindtype", "configure"))>>,
          <<>>)

enumeration ==
    Class("enumeration",
          [label |-> None, value |-> None],
          <<Attr("label"), Attr("value")>>,
          <<>>)

enumerations ==
    Class("enumerations",
          [enumeration |-> <<>>],
          <<>>,
          <<Objs("enumeration")>>)

inputValue ==
    Class("inputValue",
          [simple |-> <<>>],
          <<>>,
          <<Objs("simple")>>)

kind ==
    Class("kind",
          [kindtype |-> "configure"],
          <<Enum(AttrDefault("kindtype", "kindtype", "configure"))>>,
          <<>>)

properties_init == [description |-> None, simple |-> <<>>,
                    simplesequence |-> <<>>, test |-> <<>>, struct |-> <<>>,
                    structsequence |-> <<>>]
properties ==
    Class("properties", properties_init,
          <<>>,
          <<Text("description"), Objs("simple"),
            ObjsAs("simplesequence", "simplesequence", "simpleSequence"),
            Objs("test"), Objs("struct"),
            ObjsAs("structsequence", "structsequence", "structSequence")>>)

range_ ==
    Class("range",
          [max |-> None, min |-> None],
          <<Attr("max"), Attr("min")>>,
          <<>>)

resultValue ==
    Class("resultValue",
          [simple |-> <<>>],
          <<>>,
          <<Objs("simple")>>)

simple_init == [id_ |-> None, mode |-> "readwrite", name |-> None,
                complex |-> "false", commandline |-> "false",
                optional |-> "false", type_ |-> None, description |-> None,
                value |-> None, units |-> None, range_ |-> None,
                enumerations |-> None, kind |-> <<>>, action |-> None]
simple ==
    Class("simple", simple_init,
          <<AttrAs("id", "id_"), Enum(AttrDefault("mode", "mode", "readwrite")),
            Attr("name"), Enum(AttrDefault("complex", "complex", "false")),
            Enum(AttrDefault("commandline", "commandline", "false")),
            Enum(AttrDefault("optional", "optional", "false")),
            Enum(AttrAs("type", "type_"))>>,
          <<Text("description"), Text("value"), Text("units"),
            ObjAs("range", "range_", "range_"), Obj("enumerations"),
            Objs("kind"), Obj("action")>>)

simpleRef ==
    Class("simpleRef",
          [refid |-> None, value |-> None],
          <<Attr("refid"), Attr("value")>>,
          <<>>)

simpleSequenceRef ==
    Class("simpleSequenceRef",
          [refid |-> None, values |-> None],
          <<Attr("refid")>>,
          <<Obj("values")>>)

simpleSequence_init == [id_ |-> None, mode |-> "readwrite", name |-> None,
                        type_ |-> None, complex |-> "false",
                        optional |-> "false", description |-> None,
                        values |-> None, units |-> None, range_ |-> None,
                        kind |-> <<>>, action |-> None]
simpleSequence ==
    Class("simpleSequence", simpleSequence_init,
          <<AttrAs("id", "id_"), Enum(AttrDefault("mode", "mode", "readwrite")),
            Attr("name"), Enum(AttrAs("type", "type_")),
            Enum(AttrDefault("complex", "complex", "false")),
            Enum(AttrDefault("optional", "optional", "false"))>>,
          <<Text("description"), Obj("values"), Text("units"),
            ObjAs("range", "range_", "range_"), Objs("kind"), Obj("action")>>)

struct_init == [id_ |-> None, mode |-> "readwrite", name |-> None,
                description |-> None, simple |-> <<>>,
                simplesequence |-> <<>>, configurationkind |-> <<>>]
struct ==
    Class("struct", struct_init,
          <<AttrAs("id", "id_"), Enum(AttrDefault("mode", "mode", "readwrite")),
            Attr("name")>>,
          <<Text("description"), Objs("simple"),
            ObjsAs("simplesequence", "simplesequence", "simpleSequence"),
            ObjsAs("configurationkind", "configurationkind", "configurationKind")>>)

structSequence_init == [id_ |-> None, mode |-> "readwrite", name |-> None,
                        description |-> None, struct |-> None,
                        structvalue |-> <<>>, configurationkind |-> <<>>]
structSequence ==
    Class("structSequence", structSequence_init,
          <<AttrAs("id", "id_"), Enum(AttrDefault("mode", "mode", "readwrite")),
            Attr("name")>>,
          <<Text("description"), Obj("struct"),
            ObjsAs("structvalue", "structvalue", "structValue"),
            ObjsAs("configurationkind", "configurationkind", "configurationKind")>>)

structValue ==
    Class("structValue",
          [simpleref |-> <<>>, simplesequenceref |-> <<>>],
          <<>>,
          <<ObjsAs("simpleref", "simpleref", "simpleRef"),
            ObjsAs("simplesequenceref", "simplesequenceref", "simpleSequenceRef")>>)

test ==
    Class("test",
          [id_ |-> None, description |-> None, inputvalue |-> None,
           resultvalue |-> None],
          <<AttrAs("id", "id_")>>,
          <<Text("description"),
            ObjAs("inputvalue", "inputvalue", "inputValue"),
            ObjAs("resultvalue", "resultvalue", "resultValue")>>)

values ==
    Class("values",
          [value |-> <<>>],
          <<>>,
          <<Texts("value")>>)

prf_classes == [action |-> action, configurationKind |-> configurationKind,
            enumeration |-> enumeration, enumerations |-> enumerations,
            inputValue |-> inputValue, kind |-> kind,
            properties |-> properties, range_ |-> range_,
            resultValue |-> resultValue, simple |-> simple,
            simpleRef |-> simpleRef, simpleSequenceRef |-> simpleSequenceRef,
            simpleSequence |-> simpleSequence, struct |-> struct,
            structSequence |-> structSequence, structValue |-> structValue,
            test |-> test, values |-> values]

prf_GDSClassesMapping == [properties |-> "properties"]

\* get_root_tag, and the fallback of parse, parseString and parseLiteral: the
\* class mapped to the tag of the root, else the class of that name, else properties
prf_get_root_tag(tag) == IF tag \in DOMAIN prf_GDSClassesMapping THEN prf_GDSClassesMapping[tag]
                     ELSE IF tag \in DOMAIN prf_classes THEN tag ELSE "properties"

============================================================================

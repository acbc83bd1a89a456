----------------------------- MODULE SadParser -----------------------------
(* The element classes of the parser of the software assembly descriptor (SAD):*)
(* ossie/parsers/sad.py.  One definition per class; X_init holds the fields*)
(* and defaults of the constructor where a class is long.                  *)
EXTENDS GeneratedsSuper

softwareassembly_init == [id_ |-> None, name |-> None, version |-> None,
                          description |-> None, componentfiles |-> None,
                          partitioning |-> None, assemblycontroller |-> None,
                          connections |-> None, externalports |-> None,
                          externalproperties |-> None, options |-> None,
                          usesdevicedependencies |-> <<>>]
softwareassembly ==
    Class("softwareassembly", softwareassembly_init,
          <<AttrAs("id", "id_"), Attr("name"), Attr("version")>>,
          <<Text("description"), Obj("componentfiles"), Obj("partitioning"),
            Obj("assemblycontroller"), Obj("connections"),
            Obj("externalports"), Obj("externalproperties"), Obj("options"),
            Objs("usesdevicedependencies")>>)

componentfiles ==
    Class("componentfiles",
          [componentfile |-> <<>>],
          <<>>,
          <<Objs("componentfile")>>)

componentfile ==
    Class("componentfile",
          [id_ |-> None, type_ |-> None, localfile |-> None],
          <<AttrAs("id", "id_"), AttrAs("type", "type_")>>,
          <<Obj("localfile")>>)

localfile ==
    Class("localfile",
          [name |-> None],
          <<Attr("name")>>,
          <<>>)

partitioning ==
    Class("partitioning",
          [componentplacement |-> <<>>, hostcollocation |-> <<>>],
          <<>>,
          <<Objs("componentplacement"), Objs("hostcollocation")>>)

componentplacement ==
    Class("componentplacement",
          [componentfileref |-> None, componentinstantiation |-> <<>>],
          <<>>,
          <<Obj("componentfileref"), Objs("componentinstantiation")>>)

componentfileref ==
    Class("componentfileref",
          [refid |-> None],
          <<Attr("refid")>>,
          <<>>)

componentinstantiation_init == [id_ |-> None, startorder |-> None,
                                usagename |-> None,
                                componentproperties |-> None,
                                affinity |-> None, loggingconfig |-> None,
                                findcomponent |-> None,
                                devicerequires |-> None]
componentinstantiation ==
    Class("componentinstantiation", componentinstantiation_init,
          <<AttrAs("id", "id_"), Attr("startorder")>>,
          <<Text("usagename"), Obj("componentproperties"), Obj("affinity"),
            Obj("loggingconfig"), Obj("findcomponent"),
            Obj("devicerequires")>>)

loggingconfig ==
    TextClass("loggingconfig",
              [level |-> None, value |-> None],
              <<Attr("level")>>)

affinity ==
    Class("affinity",
          [simpleref |-> <<>>, simplesequenceref |-> <<>>, structref |-> <<>>,
           structsequenceref |-> <<>>],
          <<>>,
          <<Objs("simpleref"), Objs("simplesequenceref"), Objs("structref"),
            Objs("structsequenceref")>>)

devicerequires ==
    Class("devicerequires",
          [requires |-> <<>>],
          <<>>,
          <<ObjsAs("requires", "requires", "idvalue")>>)

idvalue ==
    Class("idvalue",
          [id |-> None, value |-> None],
          <<Attr("id"), Attr("value")>>,
          <<>>)

componentproperties ==
    Class("componentproperties",
          [simpleref |-> <<>>, simplesequenceref |-> <<>>, structref |-> <<>>,
           structsequenceref |-> <<>>],
          <<>>,
          <<Objs("simpleref"), Objs("simplesequenceref"), Objs("structref"),
            Objs("structsequenceref")>>)

findcomponent ==
    Class("findcomponent",
          [componentresourcefactoryref |-> None, namingservice |-> None],
          <<>>,
          <<Obj("componentresourcefactoryref"), Obj("namingservice")>>)

componentresourcefactoryref ==
    Class("componentresourcefactoryref",
          [refid |-> None, resourcefactoryproperties |-> None],
          <<Attr("refid")>>,
          <<Obj("resourcefactoryproperties")>>)

devicethatloadedthiscomponentref ==
    Class("devicethatloadedthiscomponentref",
          [refid |-> None],
          <<Attr("refid")>>,
          <<>>)

deviceusedbythiscomponentref ==
    Class("deviceusedbythiscomponentref",
          [refid |-> None, usesrefid |-> None],
          <<Attr("refid"), Attr("usesrefid")>>,
          <<>>)

deviceusedbyapplication ==
    Class("deviceusedbyapplication",
          [usesrefid |-> None],
          <<Attr("usesrefid")>>,
          <<>>)

resourcefactoryproperties ==
    Class("resourcefactoryproperties",
          [simpleref |-> <<>>, simplesequenceref |-> <<>>, structref |-> <<>>,
           structsequenceref |-> <<>>],
          <<>>,
          <<Objs("simpleref"), Objs("simplesequenceref"), Objs("structref"),
            Objs("structsequenceref")>>)

simpleref ==
    Class("simpleref",
          [refid |-> None, value |-> None],
          <<Attr("refid"), Attr("value")>>,
          <<>>)

simplesequenceref ==
    Class("simplesequenceref",
          [refid |-> None, values |-> None],
          <<Attr("refid")>>,
          <<Obj("values")>>)

structref ==
    Class("structref",
          [refid |-> None, simpleref |-> <<>>, simplesequenceref |-> <<>>],
          <<Attr("refid")>>,
          <<Objs("simpleref"), Objs("simplesequenceref")>>)

structsequenceref ==
    Class("structsequenceref",
          [refid |-> None, structvalue |-> <<>>],
          <<Attr("refid")>>,
          <<Objs("structvalue")>>)

structvalue ==
    Class("structvalue",
          [simpleref |-> <<>>, simplesequenceref |-> <<>>],
          <<>>,
          <<Objs("simpleref"), Objs("simplesequenceref")>>)

values ==
    Class("values",
          [value |-> <<>>],
          <<>>,
          <<Texts("value")>>)

componentinstantiationref ==
    Class("componentinstantiationref",
          [refid |-> None],
          <<Attr("refid")>>,
          <<>>)

findby ==
    Class("findby",
          [namingservice |-> None, stringifiedobjectref |-> None,
           domainfinder |-> None],
          <<>>,
          <<Obj("namingservice"), Text("stringifiedobjectref"),
            Obj("domainfinder")>>)

namingservice ==
    Class("namingservice",
          [name |-> None],
          <<Attr("name")>>,
          <<>>)

domainfinder ==
    Class("domainfinder",
          [type_ |-> None, name |-> None],
          <<AttrAs("type", "type_"), Attr("name")>>,
          <<>>)

hostcollocationcp ==
    Class("hostcollocationcp",
          [componentplacement |-> <<>>, extensiontype_ |-> None],
          <<AttrAs("xsi:type", "extensiontype_")>>,
          <<Objs("componentplacement")>>)

hostcollocationcpud ==
    Subclass(hostcollocationcp, "hostcollocationcpud",
                                [usesdeviceref |-> <<>>,
                                 extensiontype_ |-> None],
                                <<>>,
                                <<Objs("usesdeviceref")>>)

hostcollocation ==
    Subclass(hostcollocationcpud, "hostcollocation",
                                  [id_ |-> None, name |-> None,
                                   reservation |-> <<>>],
                                  <<AttrAs("id", "id_"), Attr("name")>>,
                                  <<Objs("reservation")>>)

reservation ==
    Class("reservation",
          [kind |-> None, value |-> None],
          <<Attr("kind"), Attr("value")>>,
          <<>>)

usesdeviceref ==
    Class("usesdeviceref",
          [refid |-> None],
          <<Attr("refid")>>,
          <<>>)

assemblycontroller ==
    Class("assemblycontroller",
          [componentinstantiationref |-> None],
          <<>>,
          <<Obj("componentinstantiationref")>>)

connections ==
    Class("connections",
          [connectinterface |-> <<>>],
          <<>>,
          <<Objs("connectinterface")>>)

connectinterface ==
    Class("connectinterface",
          [id_ |-> None, usesport |-> None, providesport |-> None,
           componentsupportedinterface |-> None, findby |-> None],
          <<AttrAs("id", "id_")>>,
          <<Obj("usesport"), Obj("providesport"),
            Obj("componentsupportedinterface"), Obj("findby")>>)

usesport ==
    Class("usesport",
          [usesidentifier |-> None, componentinstantiationref |-> None,
           devicethatloadedthiscomponentref |-> None,
           deviceusedbythiscomponentref |-> None,
           deviceusedbyapplication |-> None, findby |-> None],
          <<>>,
          <<Text("usesidentifier"), Obj("componentinstantiationref"),
            Obj("devicethatloadedthiscomponentref"),
            Obj("deviceusedbythiscomponentref"),
            Obj("deviceusedbyapplication"), Obj("findby")>>)

providesport ==
    Class("providesport",
          [providesidentifier |-> None, componentinstantiationref |-> None,
           devicethatloadedthiscomponentref |-> None,
           deviceusedbythiscomponentref |-> None,
           deviceusedbyapplication |-> None, findby |-> None],
          <<>>,
          <<Text("providesidentifier"), Obj("componentinstantiationref"),
            Obj("devicethatloadedthiscomponentref"),
            Obj("deviceusedbythiscomponentref"),
            Obj("deviceusedbyapplication"), Obj("findby")>>)

componentsupportedinterface ==
    Class("componentsupportedinterface",
          [supportedidentifier |-> None, componentinstantiationref |-> None,
           devicethatloadedthiscomponentref |-> None,
           deviceusedbythiscomponentref |-> None,
           deviceusedbyapplication |-> None, findby |-> None],
          <<>>,
          <<Text("supportedidentifier"), Obj("componentinstantiationref"),
            Obj("devicethatloadedthiscomponentref"),
            Obj("deviceusedbythiscomponentref"),
            Obj("deviceusedbyapplication"), Obj("findby")>>)

externalports ==
    Class("externalports",
          [port |-> <<>>],
          <<>>,
          <<Objs("port")>>)

port ==
    Class("port",
          [externalname |-> None, description |-> None,
           usesidentifier |-> None, providesidentifier |-> None,
           supportedidentifier |-> None, componentinstantiationref |-> None],
          <<Attr("externalname")>>,
          <<Text("description"), Text("usesidentifier"),
            Text("providesidentifier"), Text("supportedidentifier"),
            Obj("componentinstantiationref")>>)

externalproperties ==
    Class("externalproperties",
          [property |-> <<>>],
          <<>>,
          <<Objs("property")>>)

property ==
    Class("property",
          [comprefid |-> None, propid |-> None, externalpropid |-> None],
          <<Attr("comprefid"), Attr("propid"), Attr("externalpropid")>>,
          <<>>)

options ==
    Class("options",
          [option |-> <<>>],
          <<>>,
          <<Objs("option")>>)

option ==
    Class("option",
          [name |-> None, value |-> None],
          <<Attr("name"), Attr("value")>>,
          <<>>)

usesdevicedependencies ==
    Class("usesdevicedependencies",
          [usesdevice |-> <<>>],
          <<>>,
          <<Objs("usesdevice")>>)

usesdevice_init == [id_ |-> None, type_ |-> None, propertyref |-> <<>>,
                    simpleref |-> <<>>, simplesequenceref |-> <<>>,
                    structref |-> <<>>, structsequenceref |-> <<>>]
usesdevice ==
    Class("usesdevice", usesdevice_init,
          <<AttrAs("id", "id_"), AttrAs("type", "type_")>>,
          <<Objs("propertyref"), Objs("simpleref"), Objs("simplesequenceref"),
            Objs("structref"), Objs("structsequenceref")>>)

propertyref ==
    Class("propertyref",
          [refid |-> None, value |-> None],
          <<Attr("refid"), Attr("value")>>,
          <<>>)

classes == [softwareassembly |-> softwareassembly,
            componentfiles |-> componentfiles,
            componentfile |-> componentfile, localfile |-> localfile,
            partitioning |-> partitioning,
            componentplacement |-> componentplacement,
            componentfileref |-> componentfileref,
            componentinstantiation |-> componentinstantiation,
            loggingconfig |-> loggingconfig, affinity |-> affinity,
            devicerequires |-> devicerequires, idvalue |-> idvalue,
            componentproperties |-> componentproperties,
            findcomponent |-> findcomponent,
            componentresourcefactoryref |-> componentresourcefactoryref,
            devicethatloadedthiscomponentref |-> devicethatloadedthiscomponentref,
            deviceusedbythiscomponentref |-> deviceusedbythiscomponentref,
            deviceusedbyapplication |-> deviceusedbyapplication,
            resourcefactoryproperties |-> resourcefactoryproperties,
            simpleref |-> simpleref, simplesequenceref |-> simplesequenceref,
            structref |-> structref, structsequenceref |-> structsequenceref,
            structvalue |-> structvalue, values |-> values,
            componentinstantiationref |-> componentinstantiationref,
            findby |-> findby, namingservice |-> namingservice,
            domainfinder |-> domainfinder,
            hostcollocationcp |-> hostcollocationcp,
            hostcollocationcpud |-> hostcollocationcpud,
            hostcollocation |-> hostcollocation, reservation |-> reservation,
            usesdeviceref |-> usesdeviceref,
            assemblycontroller |-> assemblycontroller,
            connections |-> connections,
            connectinterface |-> connectinterface, usesport |-> usesport,
            providesport |-> providesport,
            componentsupportedinterface |-> componentsupportedinterface,
            externalports |-> externalports, port |-> port,
            externalproperties |-> externalproperties, property |-> property,
            options |-> options, option |-> option,
            usesdevicedependencies |-> usesdevicedependencies,
            usesdevice |-> usesdevice, propertyref |-> propertyref]

GDSClassesMapping == [softwareassembly |-> "softwareassembly"]

\* get_root_tag, and the fallback of parse, parseString and parseLiteral: the
\* class mapped to the tag of the root, else the class of that name, else softwareassembly
get_root_tag(tag) == IF tag \in DOMAIN GDSClassesMapping THEN GDSClassesMapping[tag]
                     ELSE IF tag \in DOMAIN classes THEN tag ELSE "softwareassembly"

============================================================================

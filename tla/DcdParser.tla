----------------------------- MODULE DcdParser -----------------------------
(* The element classes of the parser of the device configuration descriptor (DCD):*)
(* ossie/parsers/dcd.py.  One definition per class; X_init holds the fields*)
(* and defaults of the constructor where a class is long.                  *)
EXTENDS GeneratedsSuper

deviceconfiguration_init == [id_ |-> None, name |-> None,
                             description |-> None,
                             devicemanagersoftpkg |-> None,
                             componentfiles |-> None, partitioning |-> None,
                             connections |-> None, domainmanager |-> None,
                             filesystemnames |-> None]
deviceconfiguration ==
    Class("deviceconfiguration", deviceconfiguration_init,
          <<AttrAs("id", "id_"), Attr("name")>>,
          <<Text("description"), Obj("devicemanagersoftpkg"),
            Obj("componentfiles"), Obj("partitioning"), Obj("connections"),
            Obj("domainmanager"), Obj("filesystemnames")>>)

devicemanagersoftpkg ==
    Class("devicemanagersoftpkg",
          [localfile |-> None],
          <<>>,
          <<Obj("localfile")>>)

componentfiles ==
    Class("componentfiles",
          [componentfile |-> <<>>],
          <<>>,
          <<Objs("componentfile")>>)

componentfile ==
    Class("componentfile",
          [id_ |-> None, type_ |-> None, localfile |-> None],
          <<AttrAs("id", "id_"), AttrAs("type", "type_")>>,
          <<Obj("localfile")>>)

localfile ==
    Class("localfile",
          [name |-> None],
          <<Attr("name")>>,
          <<>>)

partitioning ==
    Class("partitioning",
          [componentplacement |-> <<>>],
          <<>>,
          <<Objs("componentplacement")>>)

componentplacement ==
    Class("componentplacement",
          [componentfileref |-> None, deployondevice |-> None,
           compositepartofdevice |-> None, devicepkgfile |-> None,
           componentinstantiation |-> <<>>],
          <<>>,
          <<Obj("componentfileref"), Obj("deployondevice"),
            Obj("compositepartofdevice"), Obj("devicepkgfile"),
            Objs("componentinstantiation")>>)

componentfileref ==
    Class("componentfileref",
          [refid |-> None],
          <<Attr("refid")>>,
          <<>>)

deployondevice ==
    Class("deployondevice",
          [refid |-> None],
          <<Attr("refid")>>,
          <<>>)

compositepartofdevice ==
    Class("compositepartofdevice",
          [refid |-> None],
          <<Attr("refid")>>,
          <<>>)

devicepkgfile ==
    Class("devicepkgfile",
          [type_ |-> None, localfile |-> None],
          <<AttrAs("type", "type_")>>,
          <<Obj("localfile")>>)

componentinstantiation ==
    Class("componentinstantiation",
          [id_ |-> None, startorder |-> None, usagename |-> None,
           componentproperties |-> None, affinity |-> None,
           loggingconfig |-> None, deployerrequires |-> None],
          <<AttrAs("id", "id_"), Attr("startorder")>>,
          <<Text("usagename"), Obj("componentproperties"), Obj("affinity"),
            Obj("loggingconfig"), Obj("deployerrequires")>>)

loggingconfig ==
    TextClass("loggingconfig",
              [level |-> None, value |-> None],
              <<Attr("level")>>)

affinity ==
    Class("affinity",
          [simpleref |-> <<>>, simplesequenceref |-> <<>>, structref |-> <<>>,
           structsequenceref |-> <<>>],
          <<>>,
          <<Objs("simpleref"), Objs("simplesequenceref"), Objs("structref"),
            Objs("structsequenceref")>>)

deployerrequires ==
    Class("deployerrequires",
          [requires |-> <<>>],
          <<>>,
          <<ObjsAs("requires", "requires", "idvalue")>>)

idvalue ==
    Class("idvalue",
          [id |-> None, value |-> None],
          <<Attr("id"), Attr("value")>>,
          <<>>)

componentproperties ==
    Class("componentproperties",
          [simpleref |-> <<>>, simplesequenceref |-> <<>>, structref |-> <<>>,
           structsequenceref |-> <<>>],
          <<>>,
          <<Objs("simpleref"), Objs("simplesequenceref"), Objs("structref"),
            Objs("structsequenceref")>>)

devicethatloadedthiscomponentref ==
    Class("devicethatloadedthiscomponentref",
          [refid |-> None],
          <<Attr("refid")>>,
          <<>>)

deviceusedbythiscomponentref ==
    Class("deviceusedbythiscomponentref",
          [refid |-> None, usesrefid |-> None],
          <<Attr("refid"), Attr("usesrefid")>>,
          <<>>)

simpleref ==
    Class("simpleref",
          [refid |-> None, value |-> None],
          <<Attr("refid"), Attr("value")>>,
          <<>>)

simplesequenceref ==
    Class("simplesequenceref",
          [refid |-> None, values |-> None],
          <<Attr("refid")>>,
          <<Obj("values")>>)

structref ==
    Class("structref",
          [refid |-> None, simpleref |-> <<>>, simplesequenceref |-> <<>>],
          <<Attr("refid")>>,
          <<Objs("simpleref"), Objs("simplesequenceref")>>)

structsequenceref ==
    Class("structsequenceref",
          [refid |-> None, structvalue |-> <<>>],
          <<Attr("refid")>>,
          <<Objs("structvalue")>>)

structvalue ==
    Class("structvalue",
          [simpleref |-> <<>>, simplesequenceref |-> <<>>],
          <<>>,
          <<Objs("simpleref"), Objs("simplesequenceref")>>)

values ==
    Class("values",
          [value |-> <<>>],
          <<>>,
          <<Texts("value")>>)

componentinstantiationref ==
    Class("componentinstantiationref",
          [refid |-> None],
          <<Attr("refid")>>,
          <<>>)

domainmanager ==
    Class("domainmanager",
          [namingservice |-> None, stringifiedobjectref |-> None],
          <<>>,
          <<Obj("namingservice"), Text("stringifiedobjectref")>>)

findby ==
    Class("findby",
          [namingservice |-> None, stringifiedobjectref |-> None,
           domainfinder |-> None],
          <<>>,
          <<Obj("namingservice"), Text("stringifiedobjectref"),
            Obj("domainfinder")>>)

namingservice ==
    Class("namingservice",
          [name |-> None],
          <<Attr("name")>>,
          <<>>)

domainfinder ==
    Class("domainfinder",
          [type_ |-> None, name |-> None],
          <<AttrAs("type", "type_"), Attr("name")>>,
          <<>>)

filesystemnames ==
    Class("filesystemnames",
          [filesystemname |-> <<>>],
          <<>>,
          <<Objs("filesystemname")>>)

filesystemname ==
    Class("filesystemname",
          [mountname |-> None, deviceid |-> None],
          <<Attr("mountname"), Attr("deviceid")>>,
          <<>>)

connections ==
    Class("connections",
          [connectinterface |-> <<>>],
          <<>>,
          <<Objs("connectinterface")>>)

connectinterface ==
    Class("connectinterface",
          [id_ |-> None, usesport |-> None, providesport |-> None,
           componentsupportedinterface |-> None, findby |-> None],
          <<AttrAs("id", "id_")>>,
          <<Obj("usesport"), Obj("providesport"),
            Obj("componentsupportedinterface"), Obj("findby")>>)

usesport ==
    Class("usesport",
          [usesidentifier |-> None, componentinstantiationref |-> None,
           devicethatloadedthiscomponentref |-> None,
           deviceusedbythiscomponentref |-> None, findby |-> None],
          <<>>,
          <<Text("usesidentifier"), Obj("componentinstantiationref"),
            Obj("devicethatloadedthiscomponentref"),
            Obj("deviceusedbythiscomponentref"), Obj("findby")>>)

providesport ==
    Class("providesport",
          [providesidentifier |-> None, componentinstantiationref |-> None,
           devicethatloadedthiscomponentref |-> None,
           deviceusedbythiscomponentref |-> None, findby |-> None],
          <<>>,
          <<Text("providesidentifier"), Obj("componentinstantiationref"),
            Obj("devicethatloadedthiscomponentref"),
            Obj("deviceusedbythiscomponentref"), Obj("findby")>>)

componentsupportedinterface ==
    Class("componentsupportedinterface",
          [supportedidentifier |-> None, componentinstantiationref |-> None,
           findby |-> None],
          <<>>,
          <<Text("supportedidentifier"), Obj("componentinstantiationref"),
            Obj("findby")>>)

classes == [deviceconfiguration |-> deviceconfiguration,
            devicemanagersoftpkg |-> devicemanagersoftpkg,
            componentfiles |-> componentfiles,
            componentfile |-> componentfile, localfile |-> localfile,
            partitioning |-> partitioning,
            componentplacement |-> componentplacement,
            componentfileref |-> componentfileref,
            deployondevice |-> deployondevice,
            compositepartofdevice |-> compositepartofdevice,
            devicepkgfile |-> devicepkgfile,
            componentinstantiation |-> componentinstantiation,
            loggingconfig |-> loggingconfig, affinity |-> affinity,
            deployerrequires |-> deployerrequires, idvalue |-> idvalue,
            componentproperties |-> componentproperties,
            devicethatloadedthiscomponentref |-> devicethatloadedthiscomponentref,
            deviceusedbythiscomponentref |-> deviceusedbythiscomponentref,
            simpleref |-> simpleref, simplesequenceref |-> simplesequenceref,
            structref |-> structref, structsequenceref |-> structsequenceref,
            structvalue |-> structvalue, values |-> values,
            componentinstantiationref |-> componentinstantiationref,
            domainmanager |-> domainmanager, findby |-> findby,
            namingservice |-> namingservice, domainfinder |-> domainfinder,
            filesystemnames |-> filesystemnames,
            filesystemname |-> filesystemname, connections |-> connections,
            connectinterface |-> connectinterface, usesport |-> usesport,
            providesport |-> providesport,
            componentsupportedinterface |-> componentsupportedinterface]

GDSClassesMapping == [componentfile |-> "componentfile",
                      componentfileref |-> "componentfileref",
                      componentfiles |-> "componentfiles",
                      componentinstantiation |-> "componentinstantiation",
                      componentinstantiationref |-> "componentinstantiationref",
                      componentplacement |-> "componentplacement",
                      componentproperties |-> "componentproperties",
                      componentsupportedinterface |-> "componentsupportedinterface",
                      compositepartofdevice |-> "compositepartofdevice",
                      connectinterface |-> "connectinterface",
                      connections |-> "connections",
                      deployondevice |-> "deployondevice",
                      deviceconfiguration |-> "deviceconfiguration",
                      devicemanagersoftpkg |-> "devicemanagersoftpkg",
                      devicepkgfile |-> "devicepkgfile",
                      devicethatloadedthiscomponentref |-> "devicethatloadedthiscomponentref",
                      deviceusedbythiscomponentref |-> "deviceusedbythiscomponentref",
                      domainfinder |-> "domainfinder",
                      domainmanager |-> "domainmanager",
                      filesystemname |-> "filesystemname",
                      filesystemnames |-> "filesystemnames",
                      findby |-> "findby", localfile |-> "localfile",
                      namingservice |-> "namingservice",
                      partitioning |-> "partitioning",
                      providesport |-> "providesport",
                      simpleref |-> "simpleref",
                      simplesequenceref |-> "simplesequenceref",
                      structref |-> "structref",
                      structsequenceref |-> "structsequenceref",
                      structvalue |-> "structvalue", usesport |-> "usesport",
                      values |-> "values"]

\* get_root_tag, and the fallback of parse, parseString and parseLiteral: the
\* class mapped to the tag of the root, else the class of that name, else deviceconfiguration
get_root_tag(tag) == IF tag \in DOMAIN GDSClassesMapping THEN GDSClassesMapping[tag]
                     ELSE IF tag \in DOMAIN classes THEN tag ELSE "deviceconfiguration"

============================================================================

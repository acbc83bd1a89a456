----------------------------- MODULE SpdParser -----------------------------
(* The element classes of the parser of the software package descriptor (SPD):*)
(* ossie/parsers/spd.py.  One definition per class; X_init holds the fields*)
(* and defaults of the constructor where a class is long.                  *)
EXTENDS GeneratedsSuper

softPkg_init == [id_ |-> None, name |-> None, type_ |-> None,
                 version |-> None, title |-> None, author |-> <<>>,
                 description |-> None, propertyfile |-> None,
                 descriptor |-> None, implementation |-> <<>>,
                 usesdevice |-> <<>>]
\* two children written in the wrong order
softPkg_mutant ==
    Class("softpkg",
          [id_ |-> None, name |-> None, type_ |-> None, version |-> None,
           title |-> None, author |-> <<>>, description |-> None,
           propertyfile |-> None, descriptor |-> None, implementation |-> <<>>,
           usesdevice |-> <<>>],
          <<AttrAs("id", "id_"), Attr("name"), AttrAs("type", "type_"),
            Attr("version")>>,
          <<Text("title"), Objs("author"), Text("description"), Obj("descriptor"),
            ObjAs("propertyfile", "propertyfile", "propertyFile"),
            Objs("implementation"),
            ObjsAs("usesdevice", "usesdevice", "usesDevice")>>)
softPkg ==
    Class("softpkg", softPkg_init,
          <<AttrAs("id", "id_"), Attr("name"), AttrAs("type", "type_"),
            Attr("version")>>,
          <<Text("title"), Objs("author"), Text("description"),
            ObjAs("propertyfile", "propertyfile", "propertyFile"),
            Obj("descriptor"), Objs("implementation"),
            ObjsAs("usesdevice", "usesdevice", "usesDevice")>>)

localFile ==
    Class("localFile",
          [name |-> None],
          <<Attr("name")>>,
          <<>>)

propertyFile ==
    Class("propertyFile",
          [type_ |-> None, localfile |-> None],
          <<AttrAs("type", "type_")>>,
          <<ObjAs("localfile", "localfile", "localFile")>>)

author ==
    Class("author",
          [name |-> <<>>, company |-> None, webpage |-> None],
          <<>>,
          <<Texts("name"), Text("company"), Text("webpage")>>)

descriptor ==
    Class("descriptor",
          [name |-> None, localfile |-> None],
          <<Attr("name")>>,
          <<ObjAs("localfile", "localfile", "localFile")>>)

implementation_init == [id_ |-> None, aepcompliance |-> "aep_compliant",
                        description |-> None, propertyfile |-> None,
                        code |-> None, compiler |-> None,
                        programminglanguage |-> None, humanlanguage |-> None,
                        runtime |-> None, os |-> <<>>, processor |-> <<>>,
                        dependency |-> <<>>, usesdevice |-> <<>>]
implementation ==
    Class("implementation", implementation_init,
          <<AttrAs("id", "id_"),
            AttrDefault("aepcompliance", "aepcompliance", "aep_compliant")>>,
          <<Text("description"),
            ObjAs("propertyfile", "propertyfile", "propertyFile"),
            Obj("code"), Obj("compiler"),
            ObjAs("programminglanguage", "programminglanguage", "programmingLanguage"),
            ObjAs("humanlanguage", "humanlanguage", "humanLanguage"),
            Obj("runtime"), Objs("os"), Objs("processor"), Objs("dependency"),
            ObjsAs("usesdevice", "usesdevice", "usesDevice")>>)

code ==
    Class("code",
          [type_ |-> None, localfile |-> None, entrypoint |-> None,
           stacksize |-> None, priority |-> None],
          <<Enum(AttrAs("type", "type_"))>>,
          <<ObjAs("localfile", "localfile", "localFile"), Text("entrypoint"),
            Number("stacksize"), Number("priority")>>)

compiler ==
    Class("compiler",
          [name |-> None, version |-> None],
          <<Attr("name"), Attr("version")>>,
          <<>>)

programmingLanguage ==
    Class("programmingLanguage",
          [name |-> None, version |-> None],
          <<Attr("name"), Attr("version")>>,
          <<>>)

humanLanguage ==
    Class("humanLanguage",
          [name |-> None],
          <<Attr("name")>>,
          <<>>)

os ==
    Class("os",
          [name |-> None, version |-> None],
          <<Attr("name"), Attr("version")>>,
          <<>>)

processor ==
    Class("processor",
          [name |-> None],
          <<Attr("name")>>,
          <<>>)

dependency ==
    Class("dependency",
          [type_ |-> None, softpkgref |-> None, propertyref |-> None,
           simpleref |-> None, simplesequenceref |-> None, structref |-> None,
           structsequenceref |-> None],
          <<AttrAs("type", "type_")>>,
          <<ObjAs("softpkgref", "softpkgref", "softPkgRef"),
            ObjAs("propertyref", "propertyref", "propertyRef"),
            Obj("simpleref"), Obj("simplesequenceref"), Obj("structref"),
            Obj("structsequenceref")>>)

runtime ==
    Class("runtime",
          [name |-> None, version |-> None],
          <<Attr("name"), Attr("version")>>,
          <<>>)

propertyRef ==
    Class("propertyRef",
          [refid |-> None, value |-> None],
          <<Attr("refid"), Attr("value")>>,
          <<>>)

softPkgRef ==
    Class("softpkgref",
          [localfile |-> None, implref |-> None],
          <<>>,
          <<ObjAs("localfile", "localfile", "localFile"),
            ObjAs("implref", "implref", "implRef")>>)

implRef ==
    Class("implRef",
          [refid |-> None],
          <<Attr("refid")>>,
          <<>>)

usesDevice_init == [id_ |-> None, type_ |-> None, propertyref |-> <<>>,
                    simpleref |-> <<>>, simplesequenceref |-> <<>>,
                    structref |-> <<>>, structsequenceref |-> <<>>]
usesDevice ==
    Class("usesDevice", usesDevice_init,
          <<AttrAs("id", "id_"), AttrAs("type", "type_")>>,
          <<ObjsAs("propertyref", "propertyref", "propertyRef"),
            Objs("simpleref"), Objs("simplesequenceref"), Objs("structref"),
            Objs("structsequenceref")>>)

simpleref ==
    Class("simpleref",
          [refid |-> None, value |-> None],
          <<Attr("refid"), Attr("value")>>,
          <<>>)

simplesequenceref ==
    Class("simplesequenceref",
          [refid |-> None, values |-> None],
          <<Attr("refid")>>,
          <<Obj("values")>>)

structref ==
    Class("structref",
          [refid |-> None, simpleref |-> <<>>, simplesequenceref |-> <<>>],
          <<Attr("refid")>>,
          <<Objs("simpleref"), Objs("simplesequenceref")>>)

structsequenceref ==
    Class("structsequenceref",
          [refid |-> None, structvalue |-> <<>>],
          <<Attr("refid")>>,
          <<Objs("structvalue")>>)

structvalue ==
    Class("structvalue",
          [simpleref |-> <<>>, simplesequenceref |-> <<>>],
          <<>>,
          <<Objs("simpleref"), Objs("simplesequenceref")>>)

values ==
    Class("values",
          [value |-> <<>>],
          <<>>,
          <<Texts("value")>>)

classes == [softPkg |-> softPkg, localFile |-> localFile,
            propertyFile |-> propertyFile, author |-> author,
            descriptor |-> descriptor, implementation |-> implementation,
            code |-> code, compiler |-> compiler,
            programmingLanguage |-> programmingLanguage,
            humanLanguage |-> humanLanguage, os |-> os,
            processor |-> processor, dependency |-> dependency,
            runtime |-> runtime, propertyRef |-> propertyRef,
            softPkgRef |-> softPkgRef, implRef |-> implRef,
            usesDevice |-> usesDevice, simpleref |-> simpleref,
            simplesequenceref |-> simplesequenceref, structref |-> structref,
            structsequenceref |-> structsequenceref,
            structvalue |-> structvalue, values |-> values]

GDSClassesMapping == [softpkg |-> "softPkg"]

\* get_root_tag, and the fallback of parse, parseString and parseLiteral: the
\* class mapped to the tag of the root, else the class of that name, else softPkg
get_root_tag(tag) == IF tag \in DOMAIN GDSClassesMapping THEN GDSClassesMapping[tag]
                     ELSE IF tag \in DOMAIN classes THEN tag ELSE "softPkg"

============================================================================

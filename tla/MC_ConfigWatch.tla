--------------------------- MODULE MC_ConfigWatch ---------------------------
(* The license ConfigMap, read as JSON, and an application ConfigMap    *)
(* read as YAML, as init() watches them.  The application documents set *)
(* service.name, which initConfigVariants reads, or an array (one with a *)
(* null element), or are malformed, or the data key is missing.          *)
EXTENDS ConfigWatch

CONSTANTS lic, app

Str(x) == [k |-> "str", s |-> x]

MC_Watched == <<lic, app>>

MC_Ext == [c \in {lic, app} |-> IF c = lic THEN "json" ELSE "yaml"]

(* A license with a server, which makes the application configuration    *)
(* encrypted and is validated; one without; and malformed text.          *)
LicenseDocs ==
    {Obj([serverUrl |-> Str("u"), token |-> Str("t"), noise |-> Str("n"),
          privateKey |-> Str("p")]),
     Obj([token |-> Str("t"), noise |-> Str("n"), privateKey |-> Str("p")]),
     Malformed}

AppDocs ==
    {Obj([service |-> Obj([name |-> Str("a")])]),
     Obj([service |-> Obj([name |-> Str("b")])]),
     Obj([hosts |-> Arr(<<Str("a")>>)]), Obj([hosts |-> Arr(<<Str("b")>>)]),
     Obj([hosts |-> Arr(<<NilV>>)]),
     Malformed, NoKey}

MC_Docs == [c \in {lic, app} |-> IF c = lic THEN LicenseDocs ELSE AppDocs]
=============================================================================

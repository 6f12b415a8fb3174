------------------------------ MODULE Catalog ------------------------------
(* The tools and resources of a worker as they are registered (interface/  *)
(* catalog), and the supervisor's listing of them (interface/router/       *)
(* management.py, supervisor.py).                                          *)
(*                                                                         *)
(* A tool is its parameters, the hints it is listed with, and whether its  *)
(* job takes the write path (_support.py).  Its body is the use case it    *)
(* hands its arguments to; those are modelled elsewhere.                   *)
EXTENDS Schema

Str == [k |-> "string"]
Whole == [k |-> "integer"]
Bool == [k |-> "boolean"]
AnyValue == [k |-> "any"]
Literal(vals) == [k |-> "literal", vals |-> {<<"str", v>> : v \in vals}]
Optional(t) == [k |-> "union", members |-> <<t>>, null |-> TRUE]
List(t) == [k |-> "list", of |-> t]
Mapping(t) == [k |-> "mapping", of |-> t]

Need(name, t) == [name |-> name, type |-> t, default |-> FALSE]
May(name, t) == [name |-> name, type |-> t, default |-> TRUE]

(* A tool that is not marked is listed as one that only reads.             *)
Tool(name, params) ==
    [name |-> name, params |-> params,
     readOnly |-> TRUE, destructive |-> FALSE, writes |-> FALSE]

Mutating(tool) == [tool EXCEPT !.readOnly = FALSE]

Destructive(tool) == [tool EXCEPT !.readOnly = FALSE, !.destructive = TRUE]

(* The job asks for the kernel's write path.                               *)
Writing(tool) == [tool EXCEPT !.writes = TRUE]

-----------------------------------------------------------------------------
(* What reads the database: listings, searches, the triage and the queries. *)

GetMetadata == Tool("get_metadata", <<>>)
ServerHealth == Tool("server_health", <<>>)
ListFuncs == Tool("list_funcs", <<May("offset", Whole), May("count", Whole)>>)
ListGlobals == Tool("list_globals", <<May("offset", Whole), May("count", Whole)>>)
Decompile == Tool("decompile", <<Need("address", Str)>>)
Imports == Tool("imports", <<May("offset", Whole), May("count", Whole)>>)
XrefsTo == Tool("xrefs_to", <<Need("address", Str)>>)
Callees == Tool("callees", <<Need("address", Str)>>)
Disasm == Tool("disasm", <<Need("address", Str), May("count", Whole)>>)
Callgraph == Tool("callgraph", <<Need("address", Str), May("depth", Whole)>>)
BasicBlocks == Tool("basic_blocks", <<Need("address", Str)>>)
FuncProfile == Tool("func_profile", <<Need("address", Str)>>)
FindBytes == Tool("find_bytes", <<Need("pattern", Str), May("limit", Whole)>>)
FindCrypto == Tool("find_crypto", <<May("limit", Whole)>>)
FindDangerousCallers == Tool("find_dangerous_callers", <<May("limit", Whole)>>)
DetectVulns == Tool("detect_vulns", <<May("address", Str)>>)
DetectStackStrings == Tool("detect_stack_strings", <<May("address", Str)>>)
TraceDataFlow ==
    Tool("trace_data_flow",
        <<Need("address", Str), May("operand", Whole), May("direction", Str),
          May("max_steps", Whole)>>)
TraceSourceToSink ==
    Tool("trace_source_to_sink", <<May("address", Str), May("max_paths", Whole)>>)
ListStrings == Tool("list_strings", <<May("offset", Whole), May("count", Whole)>>)
IntConvert == Tool("int_convert", <<Need("value", Str), May("bits", Whole)>>)
GetBytes == Tool("get_bytes", <<Need("address", Str), Need("size", Whole)>>)
GetInt ==
    Tool("get_int", <<Need("address", Str), May("size", Whole), May("signed", Bool)>>)
GetString == Tool("get_string", <<Need("address", Str), May("max_length", Whole)>>)
GetGlobalValue ==
    Tool("get_global_value", <<Need("name", Str), May("size", Whole), May("signed", Bool)>>)
SearchText == Tool("search_text", <<Need("text", Str), May("limit", Whole)>>)
FindRegex == Tool("find_regex", <<Need("pattern", Str), May("limit", Whole)>>)
ExportFuncs == Tool("export_funcs", <<May("offset", Whole), May("count", Whole)>>)
LookupFuncs == Tool("lookup_funcs", <<Need("query", Str), May("limit", Whole)>>)
TypeQuery == Tool("type_query", <<May("query", Str), May("limit", Whole)>>)
TypeInspect == Tool("type_inspect", <<Need("name", Str)>>)

Readers ==
    <<GetMetadata, ServerHealth, ListFuncs, ListGlobals, Decompile, Imports, XrefsTo,
      Callees, Disasm, Callgraph, BasicBlocks, FuncProfile, FindBytes, FindCrypto,
      FindDangerousCallers, DetectVulns, DetectStackStrings, TraceDataFlow,
      TraceSourceToSink, ListStrings, IntConvert, GetBytes, GetInt, GetString,
      GetGlobalValue, SearchText, FindRegex, ExportFuncs, LookupFuncs, TypeQuery,
      TypeInspect>>

EntityQuery ==
    Tool("entity_query", <<May("query", Str), May("kind", Str), May("limit", Whole)>>)
FuncQuery ==
    Tool("func_query",
        <<May("name", Str), May("min_size", Whole), May("max_size", Whole),
          May("is_library", Optional(Bool)), May("is_thunk", Optional(Bool)), May("limit", Whole)>>)
ImportsQuery ==
    Tool("imports_query", <<May("name", Str), May("module", Str), May("limit", Whole)>>)
XrefQuery ==
    Tool("xref_query",
        <<Need("address", Str), May("direction", Str), May("kind", Str),
          May("type", Str), May("limit", Whole)>>)
InsnQuery ==
    Tool("insn_query",
        <<Need("address", Str), May("mnemonic", Str), May("operand_kind", Str),
          May("operand_reg", Str), May("limit", Whole)>>)
SearchStructs == Tool("search_structs", <<May("query", Str), May("limit", Whole)>>)
ReadStruct == Tool("read_struct", <<Need("address", Str), Need("struct", Str)>>)

Queries ==
    <<EntityQuery, FuncQuery, ImportsQuery, XrefQuery, InsnQuery, SearchStructs,
      ReadStruct>>

(* What changes it.                                                        *)

Rename == Mutating(Writing(Tool("rename", <<Need("address", Str), Need("name", Str)>>)))
SetComment ==
    Mutating(Writing(Tool("set_comment",
        <<Need("address", Str), Need("comment", Str), May("repeatable", Bool),
          May("function", Bool)>>)))
SetType ==
    Mutating(Writing(Tool("set_type", <<Need("address", Str), Need("type", Str)>>)))
Patch == Mutating(Writing(Tool("patch", <<Need("address", Str), Need("bytes", Str)>>)))
PatchAsm ==
    Mutating(Writing(Tool("patch_asm", <<Need("address", Str), Need("assembly", Str)>>)))
MakeData ==
    Mutating(Writing(Tool("make_data",
        <<Need("address", Str), May("type", Str), May("size", Whole)>>)))
DefineFunc == Mutating(Writing(Tool("define_func", <<Need("address", Str)>>)))
Undefine == Destructive(Writing(Tool("undefine", <<Need("address", Str)>>)))
SetOpType ==
    Mutating(Writing(Tool("set_op_type",
        <<Need("address", Str), Need("operand", Whole), Need("type", Str)>>)))
(* Faulty: the mark is forgotten.                                         *)
MutDefineCode == Writing(Tool("define_code", <<Need("address", Str)>>))

DefineCode == Mutating(Writing(Tool("define_code", <<Need("address", Str)>>)))
DeclareType == Mutating(Writing(Tool("declare_type", <<Need("declaration", Str)>>)))
EnumUpsert ==
    Mutating(Writing(Tool("enum_upsert",
        <<Need("name", Str), Need("members", Mapping(Whole))>>)))
DeclareStack ==
    Mutating(Writing(Tool("declare_stack",
        <<Need("function", Str), Need("name", Str), Need("type", Str),
          May("offset", Whole)>>)))
DeleteStack ==
    Destructive(Writing(Tool("delete_stack",
        <<Need("function", Str), Need("name", Str)>>)))
AddBookmark ==
    Mutating(Writing(Tool("add_bookmark",
        <<Need("address", Str), Need("description", Str)>>)))
ForceRecompile == Mutating(Writing(Tool("force_recompile", <<Need("address", Str)>>)))

Writers ==
    <<Rename, SetComment, SetType, Patch, PatchAsm, MakeData, DefineFunc, Undefine,
      SetOpType, DefineCode, DeclareType, EnumUpsert, DeclareStack, DeleteStack,
      AddBookmark, ForceRecompile>>

(* Annotations, snapshots, reports and scripts.                            *)

ExportAnnotations ==
    Tool("export_annotations",
        <<May("funcs", Optional(List(Str))), May("include_types", Bool)>>)
ApplyAnnotations ==
    Mutating(Writing(Tool("apply_annotations", <<Need("record", Mapping(AnyValue))>>)))
IdbSnapshot == Mutating(Writing(Tool("idb_snapshot", <<Need("path", Str)>>)))
SurveyBinary ==
    Tool("survey_binary", <<May("detail_level", Literal({"standard", "minimal"}))>>)
AnalyzeFunction == Tool("analyze_function", <<Need("address", Str)>>)
AnalyzeComponent ==
    Tool("analyze_component", <<Need("address", Str), May("depth", Whole)>>)
ExecPython == Mutating(Writing(Tool("exec_python", <<Need("code", Str)>>)))

Reports ==
    <<ExportAnnotations, ApplyAnnotations, IdbSnapshot, SurveyBinary,
      AnalyzeFunction, AnalyzeComponent, ExecPython>>

-----------------------------------------------------------------------------
(* In the order of their registration.                                     *)
Tools == Readers \o Queries \o Writers \o Reports

Named(name) == {i \in DOMAIN Tools : Tools[i].name = name}

(* The last registration of a name counts.                                 *)
GetTool(name) == Tools[Max(Named(name))]

-----------------------------------------------------------------------------
(* The resources.  A URI is a sequence of path segments; a segment of a    *)
(* template is a parameter.                                                *)

Lit(text) == <<"lit", text>>
Var(name) == <<"var", name>>

Metadata == <<Lit("metadata")>>
Bytes == <<Lit("bytes"), Var("address"), Var("size")>>
FunctionList == <<Lit("functions")>>
GlobalList == <<Lit("globals")>>
ImportList == <<Lit("imports")>>
StringList == <<Lit("strings")>>
FunctionBody == <<Lit("function"), Var("address")>>
FunctionLines == <<Lit("disasm"), Var("address")>>
XrefList == <<Lit("xrefs"), Var("address")>>
Struct == <<Lit("struct"), Var("name")>>

Resources ==
    <<Metadata, Bytes, FunctionList, GlobalList, ImportList, StringList,
      FunctionBody, FunctionLines, XrefList, Struct>>

(* Every parameter is a string.                                            *)
PathParams(r) == SelectSeq(r, LAMBDA s : s[1] = "var")

ResourceParams(r) == [i \in DOMAIN PathParams(r) |-> Need(PathParams(r)[i][2], Str)]

(* A parameter takes a whole segment that is not empty.                    *)
Matches(r, uri) ==
    /\ Len(r) = Len(uri)
    /\ \A i \in DOMAIN r : IF r[i][1] = "lit" THEN r[i][2] = uri[i] ELSE uri[i] # ""

MatchResource(r, uri) ==
    LET taken == {i \in DOMAIN r : r[i][1] = "var"}
    IN  [name \in {r[i][2] : i \in taken} |->
            <<"str", uri[CHOOSE i \in taken : r[i][2] = name]>>]

-----------------------------------------------------------------------------
(* The supervisor lists the tools with a parameter more, says which        *)
(* session is meant by it, and takes it out again.                         *)

InjectDatabase(s) == [s EXCEPT !.properties = @ @@ [database |-> Scalar("string")]]

ManagementTools == {"idb_open", "idb_list", "idb_close", "idb_merge"}

Listed == {t \in ToSet(Tools) : t.name \notin ManagementTools}

Forwarded(args) ==
    LET given == IF args[1] = "obj" THEN args[2] ELSE <<>>
    IN  IF /\ "database" \in DOMAIN given
           /\ ~ Text(given.database) /\ given.database # Null
        THEN Bad
        ELSE <<"obj", [name \in DOMAIN given \ {"database"} |-> given[name]]>>

-----------------------------------------------------------------------------
(* Properties.                                                             *)

(* A tool is found under its name, is not hidden behind one the supervisor *)
(* answers itself, and is listed as one that writes if it does.            *)
ListedAsItIs(t) ==
    /\ Cardinality(Named(t.name)) = 1 /\ t \in Listed
    /\ t.writes <=> ~ t.readOnly
    /\ t.destructive => t.writes

(* What the supervisor's listing allows the worker accepts: nothing is     *)
(* lost on the way but the parameter that was added.                       *)
ForwardedIsAccepted(t, args) ==
    args[1] = "obj" /\ Plain(args) /\ Valid(InjectDatabase(InputSchema(t.params)), args) =>
        /\ Bind(t.params, Forwarded(args)) # Bad
        /\ DOMAIN Forwarded(args)[2] = DOMAIN args[2] \ {"database"}

(* A URI names one resource at most, and what it says can be bound.        *)
ResourceIsClear(uri) ==
    LET hits == {i \in DOMAIN Resources : Matches(Resources[i], uri)}
    IN  /\ Cardinality(hits) <= 1
        /\ \A i \in hits : LET r == Resources[i]
                           IN  Bind(ResourceParams(r), <<"obj", MatchResource(r, uri)>>) # Bad
=============================================================================

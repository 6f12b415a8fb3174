----------------------------- MODULE MCServices -----------------------------
(* What one request computes or does to the open database, for TLC: the    *)
(* call graph, the sweeps, the tools that change the database and the pure *)
(* services.  A behaviour is of one of them.                               *)
EXTENDS Services

CONSTANTS f1, f2, f3, sym

SE == INSTANCE SequencesExt

-----------------------------------------------------------------------------
(* The state machines.                                                     *)

MCDepths == {-1, 1, 3}

MCLists == {<<>>, <<f1>>, <<f2>>, <<f3>>} \cup ({f1, f2, f3} \X {f1, f2, f3})

MCRepos == LET item == {<<>>, <<1>>, <<2, 1>>}
           IN  {<<s>> : s \in SE!BoundedSeq(item, 5)}
                  \cup SE!BoundedSeq(item, 2) \X SE!BoundedSeq(item, 2)
                  \cup [1 .. 4 -> {<<>>, <<1>>}] \X SE!BoundedSeq(item, 1)

NoGraph ==
    /\ callees = None /\ depth = 0 /\ maxNodes = 1 /\ nodes = {} /\ edges = {}
    /\ scheduled = {} /\ queue = <<>> /\ current = None /\ rest = <<>>
    /\ truncated = FALSE /\ status = "idle"

NoWalk ==
    /\ kind = None /\ repo = None /\ limit = None /\ source = None /\ offset = None
    /\ page = None /\ length = None /\ pages = None /\ scanned = None /\ hits = None
    /\ found = None /\ cut = None /\ stage = None

NoBase ==
    /\ items = None /\ funcs = None /\ text = None /\ names = None /\ types = None
    /\ locals = None /\ marks = None /\ notes = None /\ cache = None /\ stale = None /\ last = None
    /\ calls = None

NoInput == input = None /\ done = FALSE

-----------------------------------------------------------------------------
(* The services that are functions of their arguments.                     *)

Rec == INSTANCE Reconciliation WITH
    Fields <- {"names"}, Keys <- {"k"}, Values <- {"u", "v", "w"},
    NoValue <- "none", Unknown <- "unknown"

Record(d) == [sha |-> "unknown", imagebase |-> "unknown", data |-> d]

Requests ==
    LET sids == {"s1", "s2"}
        data == {Record(d) : d \in Rec!Data}
    IN  [records : SE!BoundedSeq([sid : sids, rec : data], 3),
         baselines : UNION {[D -> data] : D \in SUBSET sids},
         shared : {Rec!NoRecord},
         policy : Rec!Policies,
         prefer : sids,
         fields : {{"names"}}]

Reg(r, rd, wr) == [kind |-> "reg", reg |-> r, base |-> None, index |-> None,
                   disp |-> None, read |-> rd, write |-> wr, text |-> None]

Imm == [kind |-> "imm", reg |-> None, base |-> None, index |-> None,
        disp |-> None, read |-> TRUE, write |-> FALSE, text |-> None]

At(r, i, d, rd, wr) == [kind |-> "phrase", reg |-> None, base |-> r, index |-> i,
                        disp |-> d, read |-> rd, write |-> wr, text |-> None]

CallOf(f) == [mn |-> "call", ops |-> <<[Imm EXCEPT !.text = f]>>]

Insn(mn, d, s) == [mn |-> mn, ops |-> <<d, s>>]

(* Copies between registers, aliases and slots, in and out of a buffer, a  *)
(* computed address, arithmetic, a zeroing idiom and calls.                *)
Alphabet ==
    LET rax == <<"rax", "rax">>  eax == <<"rax", "eax">>  rcx == <<"rcx", "rcx">>
        rdi == <<"rdi", "rdi">>  rsp == <<"rsp", "rsp">>
        into(r) == Reg(r, FALSE, TRUE)
        from(r) == Reg(r, TRUE, FALSE)
        both(r) == Reg(r, TRUE, TRUE)
    IN  {Insn("mov", into(rcx), from(eax)), Insn("mov", into(rdi), from(rcx)),
         Insn("mov", into(rax), Imm),
         Insn("mov", At(rsp, None, 8, FALSE, TRUE), from(rax)),
         Insn("mov", At(rsp, None, -8, FALSE, TRUE), from(rdi)),
         Insn("mov", into(rax), At(rsp, None, -8, TRUE, FALSE)),
         Insn("mov", into(rcx), At(rsp, None, 8, TRUE, FALSE)),
         Insn("mov", into(rcx), At(rsp, rax, 8, TRUE, FALSE)),
         Insn("add", both(rax), from(rcx)), Insn("xor", both(rax), from(eax)),
         CallOf("recv"), CallOf("strcpy"), CallOf("puts")}

(* Any short program, and between a source and a sink.                     *)
MCPrograms ==
    LET short == SE!BoundedSeq(Alphabet, 3)
    IN  short \cup {<<CallOf("recv")>> \o p \o <<CallOf("strcpy")>> : p \in short}

Cat == INSTANCE Catalog

Sample == INSTANCE MCReports

(* The kinds of JSON values, inside each other and inside strings.         *)
Values ==
    LET atoms == {<<"null">>, <<"bool", TRUE>>, <<"int", 1>>, <<"int", 2>>, <<"float", 1>>,
                  <<"frac", 1>>, <<"str", "x">>, <<"str", "y">>}
        objects(of) == {<<"obj", <<>>>>} \cup {<<"obj", [m |-> v]>> : v \in of}
                        \cup {<<"obj", [m |-> v, n |-> w]>> : v, w \in of}
        nested == {<<"arr", s>> : s \in SE!BoundedSeq(atoms, 2)} \cup objects(atoms)
    IN  atoms \cup nested \cup {<<"json", v>> : v \in atoms \cup nested}

(* A type of every kind, and what is built from those.                     *)
TypesOfAllKinds ==
    LET plain == {[k |-> name] : name \in Cat!Scalars \cup {"any", "other"}}
                 \cup {[k |-> "literal", vals |-> vs] :
                        vs \in {{<<"str", "x">>}, {<<"int", 1>>, <<"str", "x">>}, {<<"bool", TRUE>>}}}
                 \cup {[k |-> "enum", vals |-> {<<"int", 1>>, <<"str", "x">>}]}
        optional == {[k |-> "union", members |-> <<t>>, null |-> TRUE] : t \in plain}
        union == {[k |-> "union", members |-> <<t, u>>, null |-> n] :
                    t, u \in plain, n \in BOOLEAN}
        of(name, ts) == {[k |-> name, of |-> t] : t \in ts}
        record(ts) == {[k |-> "record", fields |-> [m |-> t, n |-> [k |-> "integer"]], total |-> all] :
                        t \in ts, all \in SUBSET {"m", "n"}}
        field == {[k |-> "wrapper", of |-> t, required |-> r] : t \in optional, r \in BOOLEAN}
    IN  plain \cup optional \cup union \cup record(plain \cup optional \cup field)
        \cup UNION {of(name, plain \cup optional) : name \in {"list", "mapping", "annotated"}}

(* An example of a parameter's values.                                     *)
Example(t) ==
    CASE t.k = "string" -> <<"str", "x">>
      [] t.k = "integer" -> <<"int", 1>>
      [] t.k = "boolean" -> <<"bool", TRUE>>
      [] t.k = "mapping" -> <<"obj", <<>>>>
      [] t.k = "literal" -> CHOOSE v \in t.vals : TRUE
      [] t.k = "union" -> <<"null">>

(* Calls of a tool with what it needs, with one argument given, changed or *)
(* left out, one it does not have and the supervisor's; or in order.       *)
CallsOf(tool) ==
    LET sig == tool.params
        needed == [name \in Cat!RequiredParams(sig) |-> Example(Cat!Param(sig, name).type)]
        known == Cat!Names(sig) \cup {"bogus", "database"}
        some == {<<"null">>, <<"bool", TRUE>>, <<"int", 1>>, <<"frac", 1>>, <<"str", "x">>,
                 <<"arr", <<<<"str", "x">>>>>>, <<"obj", [m |-> <<"int", 1>>]>>,
                 <<"json", <<"arr", <<<<"str", "x">>>>>>>>, <<"json", <<"obj", [m |-> <<"int", 1>>]>>>>}
        without(n) == [m \in DOMAIN needed \ {n} |-> needed[m]]
        with(n, v) == [m \in DOMAIN needed \cup {n} |-> IF m = n THEN v ELSE needed[m]]
        inOrder(n) == <<"arr", [i \in 1 .. n |-> IF i > Len(sig) THEN <<"int", 1>>
                                                 ELSE Example(sig[i].type)]>>
    IN  {<<"null">>, <<"str", "x">>, <<"obj", needed>>}
        \cup {<<"obj", without(n)>> : n \in known}
        \cup {<<"obj", with(n, v)>> : n \in known, v \in some}
        \cup {inOrder(n) : n \in 0 .. Len(sig) + 1}

Uris == UNION {[1 .. n -> {"", "metadata", "bytes", "functions", "globals", "imports", "strings",
                           "function", "disasm", "xrefs", "struct", "0x10"}] : n \in 0 .. 3}

-----------------------------------------------------------------------------

MCInit ==
    \/ part = "graph" /\ Init /\ NoWalk /\ NoBase /\ NoInput
    \/ part = "walk" /\ Walk!Init /\ NoGraph /\ NoBase /\ NoInput
    \/ part = "base" /\ Base!Init /\ NoGraph /\ NoWalk /\ NoInput
    \/ /\ \/ Asked("reconcile", Requests) \/ Asked("flow", FlowPrograms) \/ Asked("uri", Uris)
          \/ Asked("wire", Sample!WireInputs) \/ Asked("operands", Sample!OperandInputs)
          \/ Asked("findings", Sample!FindingInputs) \/ Asked("lookups", Sample!LookupInputs)
          \/ \E t \in TypesOfAllKinds : Asked("type", {t} \X Values)
          \/ \E i \in DOMAIN Cat!Tools : Asked("call", {i} \X CallsOf(Cat!Tools[i]))
       /\ NoGraph /\ NoWalk /\ NoBase

MCNext ==
    /\ UNCHANGED part
    /\ \/ part = "graph" /\ Next /\ UNCHANGED <<sweepVars, baseVars, pureVars>>
       \/ part = "walk" /\ Walk!Next /\ UNCHANGED <<vars, baseVars, pureVars>>
       \/ part = "base" /\ Base!Next /\ UNCHANGED <<vars, sweepVars, pureVars>>
       \/ Answer /\ UNCHANGED <<vars, sweepVars, baseVars>>

MCSpec == MCInit /\ [][MCNext]_<<part, vars, sweepVars, baseVars, pureVars>>

-----------------------------------------------------------------------------
(* The properties.                                                         *)

(* The plan of a merge holds the sources' own edits and accounts for all   *)
(* of them, takes no side under manual and does not depend on the order    *)
(* its policy ignores; a merge into any of its sources that nobody         *)
(* interrupted writes nothing when it is repeated.  A record comes out of  *)
(* the document it travels in as it went in.                               *)
MergePlansAreSound ==
    /\ Answered("reconcile") => Rec!PlanIsSound(input)
    /\ Answered("wire") => Sample!WireKept(input)

(* What a tool accepts, is called with and answers is what it announces,   *)
(* whether it is asked itself or through the supervisor.                   *)
AnnouncedIsMeant ==
    /\ Answered("type") => Cat!SchemaIsKept(input[1], input[2])
                            /\ Cat!ResultIsAsAnnounced(input[1], input[2])
    /\ Answered("call") => LET t == Cat!Tools[input[1]]
                           IN  /\ Cat!CallIsKept(t.params, input[2])
                               /\ Cat!ForwardedIsAccepted(t, input[2])
    /\ Answered("uri") => Cat!ResourceIsClear(input)

(* What is reported of a function is there: its operands' slots and stack  *)
(* strings, its dangerous calls and literals, and the survey's counts.     *)
ReportsAreTrue ==
    /\ Answered("operands") => Sample!OperandsKept(input)
    /\ Answered("findings") => Sample!FindingsKept(input)

(* Filters only narrow, a bound is told, and tools that read the same      *)
(* bytes say the same.                                                     *)
LookupsAgree == Answered("lookups") => Sample!LookupsKept(input)

(* A tool that changes the database is not listed as one that only reads,  *)
(* and none that is listed so takes the write path.                        *)
HintsAreTrue ==
    [][/\ part = "base" /\ ~ UNCHANGED Base!database => ~ Cat!GetTool(last'.tool).readOnly
       /\ part = "call" => Cat!ListedAsItIs(Cat!Tools[input[1]])]_<<baseVars, done>>
=============================================================================

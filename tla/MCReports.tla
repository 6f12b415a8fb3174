----------------------------- MODULE MCReports ------------------------------
(* Small inputs for the services that read, look up and report, for TLC.   *)
EXTENDS Integers, SequencesExt

CONSTANT None

-----------------------------------------------------------------------------
(* Operands and stack strings: bytes of four values, of which 1 and 2 are  *)
(* printable, 64 addresses and a narrow access of 8.                       *)

Ops == INSTANCE Operands WITH
    StackRegs <- {"rsp", "rbp"}, ByteBase <- 4, Printable <- {1, 2},
    AddressSpace <- 64, AccessSpace <- 8, DefaultMin <- 2

OperandSamples ==
    [base : {"rsp", "rbp", "rax"}, index : {None, "rcx"}, disp : {-32, -5, -1, 0, 3, 4, 31},
     shown : {"number", "name", "both"}, size : {None, 1, 4}]

ItemLists == BoundedSeq({[code |-> c, size |-> n] : c \in BOOLEAN, n \in 1 .. 2}
                           \cup {[code |-> FALSE, size |-> 0]}, 4)

(* Stores that meet, overlap and write outside the printable bytes, one    *)
(* through a second register, and instructions that are none.              *)
Programs ==
    LET slot(r, d, n) == [base |-> r, index |-> None, disp |-> d, shown |-> "number", size |-> n]
        store(o, v, w) == [mn |-> "mov", dest |-> o, write |-> TRUE, imm |-> v, width |-> w]
        some == {store(slot("rsp", 0, 2), 5, None), store(slot("rsp", 1, 1), 2, None),
                 store(slot("rsp", 2, 2), 9, None), store(slot("rsp", -1, None), 6, 2),
                 store(slot("rsp", 0, None), 1, None), store(slot("rsp", 1, 1), 3, None),
                 store(slot("rbp", 2, 2), 6, None), store(slot("rax", 2, 2), 6, None)}
        other == {[store(slot("rsp", 1, 1), 1, None) EXCEPT !.mn = "add"],
                  [store(slot("rsp", 1, 1), 1, None) EXCEPT !.write = FALSE],
                  [store(slot("rsp", 1, 1), 1, None) EXCEPT !.imm = None],
                  [store(slot("rsp", 1, 1), 1, None) EXCEPT !.dest.index = "rcx"]}
    IN  BoundedSeq(some \cup other, 3)

-----------------------------------------------------------------------------
(* Findings: calls of dangerous and harmless functions, also of decorated  *)
(* names and inside each other, with every kind of argument.               *)

Find == INSTANCE Findings WITH
    SmallSize <- 1, LargeSize <- 3, HubCallers <- 2, DispatcherCallees <- 2,
    Scan <- 2, Top <- 1, Notable <- 1, Literals <- 1

Word(name) == <<"word", 0, name, "">>

Callables ==
    {Word(name) : name \in {"gets", "strcpy", "printf", "fprintf", "system", "memcpy", "scanf", "puts"}}
    \cup {<<"word", 1, "gets", "">>, <<"word", 2, "sprintf", "">>, <<"word", 0, "lstrcpy", "A">>,
          <<"word", 0, "CreateProcess", "W">>}

Arguments ==
    {Find!Leaf(<<Word("x")>>, "other"), Find!Leaf(<<<<"number">>>>, "constant"),
     Find!Leaf(<<Word("sizeof"), <<"(">>, Word("x"), <<")">>, <<"+">>, <<"number">>>>, "constant"),
     Find!Leaf(<<Word("sizeof"), <<"(">>, Word("x"), <<")">>, <<"+">>, Word("x")>>, "other"),
     Find!Quoted(<<>>, <<<<"%s">>, <<",">>>>), Find!Quoted(<<Word("L")>>, <<<<"%s">>>>),
     Find!Quoted(<<>>, <<<<"\\">>, <<"\"">>, <<")">>>>),
     Find!Quoted(<<>>, <<<<"\\">>, <<"\\">>>>),
     Find!Quoted(<<>>, <<Word("gets"), <<"(">>, <<")">>>>),
     Find!Character(<<"\"">>), Find!Character(<<",">>)}

Expressions ==
    {Find!Call(f, args) : f \in Callables, args \in BoundedSeq(Arguments, 2)}
    \cup {Find!Call(f, <<Find!Call(g, <<x>>), y>>) : f, g \in Callables, x, y \in Arguments}

(* What a survey looks at, more of it and less than it has room for.       *)
Bases ==
    LET function(thunk, library, size, callers, callees) ==
            [thunk |-> thunk, library |-> library, size |-> size,
             callers |-> callers, callees |-> callees]
        functions == {function(TRUE, FALSE, 1, 0, 1), function(FALSE, TRUE, 3, 2, 2),
                      function(FALSE, FALSE, 1, 1, 0), function(FALSE, FALSE, 3, 2, 1),
                      function(FALSE, FALSE, 2, 0, 2)}
        all == SUBSET {"functions", "imports", "strings"}
    IN  [functions : BoundedSeq(functions, 3), imports : {<<>>}, strings : {<<>>, <<{"url"}>>},
         counted : all]
        \cup [functions : {<<>>}, counted : all,
              imports : BoundedSeq({{}, {"crypto", "network"}, {"memory"}}, 3),
              strings : BoundedSeq({{}, {"url", "superscript"}, {"superscript"}, {"path"}}, 3)]

-----------------------------------------------------------------------------
(* Lookups: names of two letters, an alias of a register.                  *)

Look == INSTANCE Lookups WITH
    Small <- [l \in {"A", "B"} |-> IF l = "A" THEN "a" ELSE "b"],
    Canonical <- [r \in {"rax", "eax", "rcx"} |-> IF r = "rcx" THEN "rcx" ELSE "rax"]

NameNeedles == {<<>>, <<" ">>, <<"a">>, <<"A">>, <<"B", "a">>, <<"a", " ">>}

FuncCommands == [name : NameNeedles, min : {-1, 0, 2}, max : {0, 1, 3},
                 library : {"any", "yes", "no"}, thunk : {"any", "yes", "no"}]

Functions == [name : {<<>>, <<"a">>, <<"b", "A">>, <<"a", " ", "B">>}, size : 1 .. 3,
              library : BOOLEAN, thunk : BOOLEAN]

InsnCommands == [mnemonic : NameNeedles, kind : {"any", "reg", "imm", "phrase"},
                 reg : {"", "rax", "eax", "rcx"}]

Instructions ==
    LET op == {[kind |-> "reg", regs |-> {"eax"}], [kind |-> "imm", regs |-> {}],
               [kind |-> "phrase", regs |-> {"rcx", "rax"}]}
    IN  [mnemonic : {<<"a">>, <<"b", "A">>}, ops : BoundedSeq(op, 2)]

XrefCommands == [kind : {"any", "code", "data"}, type : {"any", "call", "read"}]

Xrefs == [kind : {"code", "data"}, type : {"call", "read"}]

Listings == BoundedSeq(1 .. 3, 4)

-----------------------------------------------------------------------------
(* Readings: bytes of two bits, some of them not loaded.                   *)

Read == INSTANCE Readings WITH
    ByteBits <- 2, Invalid <- 4, MaxRead <- 3, Ceiling <- 2, MaxBits <- 6, Scalars <- {1, 2}

Memories == UNION {[D -> 0 .. 3] : D \in SUBSET (0 .. 3)}

Selectors == [form : {"hex", "dec", "bare", "negative", "empty", "name"}, n : 0 .. 5]

Symbols == UNION {[D -> 0 .. 5] : D \in SUBSET {<<"name", 0>>, <<"bare", 1>>}}

Structs ==
    LET member == [offset : {0, 2, 4}, bits : {0, 2, 4}, declared : {None, 1, 2}, number : BOOLEAN]
    IN  [whole : {None, 0, 2, 3}, members : {<<m>> : m \in member}]

Tokens == [signs : BoundedSeq({"+", "-"}, 3), form : {"dec", "hex", "char", "empty"},
           n : {0, 1, 3, 4, 17}]

-----------------------------------------------------------------------------
(* The wire: names and comments at two addresses, rows of every kind.      *)

Paper == INSTANCE Wire WITH Junk <- None

Records ==
    [names : UNION {[D -> {"", "x", "y"}] : D \in SUBSET {0, 1}},
     prototypes : UNION {[D -> {"t"}] : D \in SUBSET {0, 1}},
     comments : UNION {[D -> {<<"x", "">>, <<"", "y">>, <<"x">>}] :
                        D \in SUBSET {<<0, "line">>, <<0, "func">>, <<1>>}}]

Documents ==
    LET rows == {None} \cup {[ea |-> v, name |-> t] :
                    v \in {<<"int", 0>>, <<"digits", 1>>, <<"str", "x">>, <<"bool", TRUE>>, <<"null">>},
                    t \in {<<"str", "x">>, <<"null">>}}
                \cup {[name |-> <<"str", "y">>], [ea |-> <<"int", 0>>]}
    IN  {[names |-> list] : list \in BoundedSeq(rows, 3) \cup {None}} \cup {<<>>}

-----------------------------------------------------------------------------
(* What the properties ask of each input.                                  *)

(* What was exported is what is applied.                                   *)
WireKept(input) ==
    CASE input[1] = "record" -> Paper!RecordTravels(input[2])
      [] input[1] = "document" -> Paper!BadRowsAreSkipped(input[2])

WireInputs == ({"record"} \X Records) \cup ({"document"} \X Documents)

(* An operand's slot is the one the disassembler meant, nothing of a       *)
(* function is skipped, and the strings are those the frames end up with.  *)
OperandsKept(input) ==
    CASE input[1] = "operand" -> Ops!SlotIsMeant(input[2])
      [] input[1] = "items" -> Ops!AllDecoded(input[2])
      [] input[1] = "program" ->
            \A min \in {0, 1, 3} : Ops!StringsAreThere(input[2], min, -3 .. 6)

OperandInputs ==
    ({"operand"} \X OperandSamples) \cup ({"items"} \X ItemLists) \cup ({"program"} \X Programs)

(* The findings are the dangerous calls, the literals those of the text,   *)
(* the survey accounts for what it looked at.                              *)
FindingsKept(input) ==
    CASE input[1] = "expression" ->
            Find!FindingsAreTheCalls(input[2]) /\ Find!LiteralsAreThere(input[2])
      [] input[1] = "base" -> Find!SurveyIsHonest(input[2])

FindingInputs == ({"expression"} \X Expressions) \cup ({"base"} \X Bases)

(* Filters narrow, bounds are told, and what reads the same agrees.        *)
LookupsKept(input) ==
    CASE input[1] = "functions" -> \A f \in Functions : Look!FuncFiltersAgree(input[2], f)
      [] input[1] = "instructions" -> \A i \in Instructions : Look!InsnFiltersAgree(input[2], i)
      [] input[1] = "xrefs" -> \A x \in Xrefs : Look!XrefFiltersAgree(input[2], x)
      [] input[1] = "listing" ->
            \A n \in 0 .. 5 :
                /\ Look!BoundsAreHonest(input[2], n)
                /\ \A segment \in 0 .. 7 : Look!ListingIsWhole(input[2], segment, n)
      [] input[1] = "selector" -> \A s \in Symbols : Read!SelectorsAreClear(input[2], s)
      [] input[1] = "memory" ->
            \A order \in {"big", "little"}, ea \in 0 .. 3 :
                /\ \A size \in 0 .. 3, most \in {0, 1, 3} :
                    Read!ReadingsAgree(input[2], order, ea, size, most)
                /\ ea < 2 => \A s \in Structs : Read!FieldsAreRead(input[2], order, ea, s)
      [] input[1] = "token" -> \A bits \in 0 .. 7 : Read!ConversionsAgree(input[2], bits)

LookupInputs ==
    ({"functions"} \X FuncCommands) \cup ({"instructions"} \X InsnCommands)
    \cup ({"xrefs"} \X XrefCommands) \cup ({"listing"} \X Listings)
    \cup ({"selector"} \X Selectors) \cup ({"memory"} \X Memories) \cup ({"token"} \X Tokens)
=============================================================================

------------------------------ MODULE Findings ------------------------------
(* What the tools say of a binary at a glance: the rules of                *)
(* domain/services/vuln_heuristics.py over the decompiled text, the table  *)
(* of dangerous_apis.py, the use case survey_binary with the services it   *)
(* sorts functions, imports and strings by, and analyze_function.          *)
(*                                                                         *)
(* An identifier is <<"word", underscores, core, suffix>>, the suffix ""   *)
(* or the "A" or "W" of a decorated name.  A text is a sequence of         *)
(* identifiers and of <<token>>, without the blanks.                       *)
EXTENDS Integers, SequencesExt

CONSTANTS
    SmallSize, LargeSize, HubCallers, DispatcherCallees,
    Scan,     \* functions, imports and strings looked at
    Top,      \* SURVEY_TOP_FUNCTIONS
    Notable,  \* SURVEY_NOTABLE_IMPORTS
    Literals, \* ANALYZE_STRING_LITERALS
    None

(* The danger table, by category and severity.                             *)
Dangerous ==
    {[names |-> {"gets"}, category |-> "buffer_copy", severity |-> "critical"],
     [names |-> {"strcpy", "strcat", "stpcpy", "wcscpy", "wcscat", "lstrcpy", "lstrcat",
                 "sprintf", "vsprintf"}, category |-> "buffer_copy", severity |-> "high"],
     [names |-> {"strncpy", "strncat", "snprintf", "vsnprintf", "strtok"},
      category |-> "buffer_copy", severity |-> "medium"],
     [names |-> {"memcpy", "memmove", "bcopy", "wmemcpy"},
      category |-> "memory_move", severity |-> "medium"],
     [names |-> {"printf", "fprintf", "vprintf", "vfprintf", "syslog"},
      category |-> "format_string", severity |-> "high"],
     [names |-> {"scanf", "sscanf", "fscanf", "vscanf", "vsscanf"},
      category |-> "input_parse", severity |-> "medium"],
     [names |-> {"system", "popen", "execl", "execlp", "execle", "execv", "execvp",
                 "execvpe", "WinExec", "ShellExecute", "CreateProcess"},
      category |-> "command_exec", severity |-> "high"]}

(* The bare name first, then without its underscores, then without its     *)
(* suffix: "_gets" has an entry of its own.                                *)
Classify(id) ==
    IF \E e \in Dangerous : id[3] \in e.names
    THEN LET entry == CHOOSE e \in Dangerous : id[3] \in e.names
         IN  [name |-> IF id = <<"word", 1, "gets", "">> THEN "_gets" ELSE id[3],
              category |-> entry.category, severity |-> entry.severity]
    ELSE None

UnboundedCopy == {"strcpy", "strcat", "gets", "sprintf", "vsprintf", "stpcpy",
                  "lstrcpy", "lstrcat", "wcscpy", "wcscat"}

(* Which argument is the format, or the command.                           *)
FormatArgIndex == [f \in {"printf", "vprintf", "fprintf", "vfprintf", "syslog"} |->
                    IF f \in {"printf", "vprintf"} THEN 1 ELSE 2]

CommandArgIndex == [f \in {"system", "popen", "execl", "execlp", "execv", "execvp",
                           "WinExec"} |-> 1]

MemoryMove == {"memcpy", "memmove", "bcopy", "wmemcpy"}

Ruled == UnboundedCopy \cup DOMAIN FormatArgIndex \cup DOMAIN CommandArgIndex \cup MemoryMove

(* The suffix goes only if what is left has a rule.                        *)
BaseName(id) ==
    IF id[4] = "" \/ id[3] \in Ruled THEN id[3] ELSE id[3] \o id[4]

(* The arguments of the call whose parenthesis is open at i, None if it is *)
(* never closed.  Quotes hide commas and parentheses, a backslash a quote. *)
CallArgs(text, i) ==
    LET put(s, t) == [s EXCEPT !.current = Append(@, t)]
        close(s) == [s EXCEPT !.args = Append(@, s.current), !.current = <<>>]
        read(s, t) ==
            CASE s.done -> s
              [] ~ s.done /\ s.quote # None ->
                    [put(s, t) EXCEPT
                        !.escaped = ~ @ /\ t = <<"\\">>,
                        !.quote = IF ~ s.escaped /\ t = <<@>> THEN None ELSE @]
              [] OTHER ->
                    CASE t \in {<<"\"">>, <<"'">>} -> [put(s, t) EXCEPT !.quote = t[1]]
                      [] t = <<"(">> -> [(IF s.depth > 0 THEN put(s, t) ELSE s) EXCEPT !.depth = @ + 1]
                      [] t = <<")">> /\ s.depth = 1 -> [close(s) EXCEPT !.done = TRUE]
                      [] t = <<")">> /\ s.depth # 1 -> [put(s, t) EXCEPT !.depth = @ - 1]
                      [] t = <<",">> /\ s.depth = 1 -> close(s)
                      [] OTHER -> put(s, t)
        end == FoldLeft(read, [depth |-> 0, quote |-> None, escaped |-> FALSE, current |-> <<>>,
                               args |-> <<>>, done |-> FALSE], SubSeq(text, i, Len(text)))
    IN  IF end.done THEN end.args ELSE None

(* An argument, from the end if its number is not positive.                *)
Arg(args, n) ==
    IF args = None \/ args = <<<<>>>> THEN None
    ELSE LET k == IF n > 0 THEN n ELSE Len(args) + n
         IN  IF k \in DOMAIN args THEN args[k] ELSE None

IsStringLiteral(arg) ==
    \/ Len(arg) > 0 /\ arg[1] = <<"\"">>
    \/ Len(arg) > 1 /\ arg[1] = <<"word", 0, "L", "">> /\ arg[2] = <<"\"">>

(* Numbers, operators and sizeof(...).                                     *)
IsConstantSize(arg) ==
    LET sizeof(i, j) ==
            /\ i + 1 < j /\ arg[i] = <<"word", 0, "sizeof", "">>
            /\ arg[i + 1] = <<"(">> /\ arg[j] = <<")">>
            /\ \A k \in i + 2 .. j - 1 : arg[k] \notin {<<"(">>, <<")">>}
        folded(k) == \E i \in 1 .. k, j \in k .. Len(arg) : sizeof(i, j)
    IN  arg # <<>> /\ \A k \in DOMAIN arg :
            arg[k] \in {<<"number">>, <<"+">>, <<"(">>, <<")">>} \/ folded(k)

Finding(kind, severity, sink) == [kind |-> kind, severity |-> severity, sink |-> sink]

(* What one call raises: the first rule that knows its name decides.       *)
FindingOf(id, args) ==
    LET base == BaseName(id)
        unless(harmless(_), n, found) ==
            LET arg == Arg(args, n)
            IN  IF arg # None /\ ~ harmless(arg) THEN found ELSE None
        class == Classify(id)
    IN  CASE base \in UnboundedCopy ->
                Finding("buffer_overflow", IF base = "gets" THEN "critical" ELSE "high", base)
          [] base \in DOMAIN FormatArgIndex ->
                unless(IsStringLiteral, FormatArgIndex[base], Finding("format_string", "high", base))
          [] base \in DOMAIN CommandArgIndex ->
                unless(IsStringLiteral, CommandArgIndex[base], Finding("command_injection", "high", base))
          [] base \in MemoryMove ->
                unless(IsConstantSize, 0, Finding("buffer_overflow", "medium", base))
          [] base \notin Ruled /\ class # None -> Finding("dangerous_call", "low", class.name)
          [] OTHER -> None

(* Every identifier before a parenthesis is a call; a kind is reported of  *)
(* a sink once.                                                            *)
Analyze(text) ==
    LET called(i) == /\ text[i][1] = "word"
                     /\ i < Len(text) /\ text[i + 1] = <<"(">>
        emit(found, i) ==
            LET f == IF called(i) THEN FindingOf(text[i], CallArgs(text, i + 1)) ELSE None
            IN  IF f = None \/ \E g \in Range(found) : g.kind = f.kind /\ g.sink = f.sink
                THEN found ELSE Append(found, f)
    IN  FoldLeft(emit, <<>>, [i \in DOMAIN text |-> i])

(* The literals between double quotes, the first ones, each once and none  *)
(* empty; a single quote means nothing here.                               *)
StringLiterals(text) ==
    LET read(s, t) ==
            IF ~ s.open THEN [s EXCEPT !.open = t = <<"\"">>]
            ELSE IF ~ s.escaped /\ t = <<"\"">>
            THEN [open |-> FALSE, escaped |-> FALSE, current |-> <<>>,
                  out |-> IF s.current = <<>> \/ Contains(s.out, s.current)
                             \/ Len(s.out) >= Literals
                          THEN s.out ELSE Append(s.out, s.current)]
            ELSE [s EXCEPT !.escaped = ~ @ /\ t = <<"\\">>, !.current = Append(@, t)]
    IN  FoldLeft(read, [open |-> FALSE, escaped |-> FALSE, current |-> <<>>, out |-> <<>>], text).out

(* The callees that are among the imports looked at, each once.            *)
ImportReferences(callees, imports) ==
    LET names == Range(SubSeq(imports, 1, Min({Scan, Len(imports)})))
        add(out, n) == IF n \in names /\ ~ Contains(out, n) THEN Append(out, n) ELSE out
    IN  FoldLeft(add, <<>>, callees)

-----------------------------------------------------------------------------
(* The survey.  A function is [thunk, library, size, callers, callees], an *)
(* import the set of the categories whose words it has, a string the set   *)
(* of the tests it passes.                                                 *)

ClassifyFunction(f) ==
    CASE f.thunk -> "thunk"
      [] ~ f.thunk /\ f.library -> "library"
      [] OTHER ->
            CASE f.callees = 0 -> IF f.size <= SmallSize THEN "small-leaf" ELSE "leaf"
              [] f.callees > 0 /\ f.callers >= HubCallers -> "hub"
              [] OTHER -> IF f.callees >= DispatcherCallees THEN "dispatcher"
                          ELSE IF f.size >= LargeSize THEN "large" ELSE "ordinary"

ClassifyCheap(f) ==
    CASE f.thunk -> "thunk"
      [] ~ f.thunk /\ f.library -> "library"
      [] OTHER -> IF f.size <= SmallSize THEN "small"
                  ELSE IF f.size >= LargeSize THEN "large" ELSE "ordinary"

First(order, S, other) ==
    IF \E k \in DOMAIN order : order[k] \in S
    THEN order[Min({k \in DOMAIN order : order[k] \in S})] ELSE other

CategorizeImport(imp) ==
    First(<<"anti-debug", "loader", "crypto", "network", "process", "filesystem", "registry",
            "memory">>, imp, None)

(* An address of four parts that are digits but no numerals ("isdigit" is  *)
(* true of a superscript) raises.                                          *)
CategorizeString(s) ==
    IF "superscript" \in s /\ s \cap {"url", "command", "registry", "format"} = {} THEN "raises"
    ELSE First(<<"url", "command", "registry", "format", "ip", "path">>, s, "other")

(* How often each of S occurs in a sequence.                               *)
Tally(seq) == [x \in Range(seq) |-> Cardinality({k \in DOMAIN seq : seq[k] = x})]

Page(seq) == SubSeq(seq, 1, Min({Scan, Len(seq)}))

Rank(f, detail) == IF detail = "standard" THEN f.callers ELSE f.size

(* A base is [functions, imports, strings] and counted which of them could *)
(* be counted: an error counts as 0.                                       *)
Survey(b, detail) ==
    LET functions == Page(b.functions)
        role(f) == IF detail = "standard" THEN ClassifyFunction(f) ELSE ClassifyCheap(f)
        better(i, j) == \/ Rank(functions[i], detail) > Rank(functions[j], detail)
                        \/ /\ Rank(functions[i], detail) = Rank(functions[j], detail)
                           /\ \/ functions[i].size > functions[j].size
                              \/ functions[i].size = functions[j].size /\ i < j
        ranked == SetToSortSeq(DOMAIN functions, better)
        notable == SelectSeq(Page(b.imports), LAMBDA i : CategorizeImport(i) # None)
        total(what) == IF what \in b.counted THEN Len(b[what]) ELSE 0
        categories == [k \in DOMAIN Page(b.strings) |-> CategorizeString(b.strings[k])]
    IN  IF "raises" \in Range(categories) THEN None
        ELSE [roles |-> Tally([k \in DOMAIN functions |-> role(functions[k])]),
              top |-> SubSeq(ranked, 1, Min({Top, Len(ranked)})),
              notable |-> SubSeq(notable, 1, Min({Notable, Len(notable)})),
              strings |-> Tally(categories),
              scanned |-> Len(functions),
              truncated |-> \/ total("functions") > Len(functions)
                            \/ Len(b.imports) > Scan \/ Len(b.strings) > Scan]

-----------------------------------------------------------------------------
(* Properties.                                                             *)

(* An expression is known by its text, the calls and the string literals   *)
(* in it, in order, and what it is: a "literal", a "constant" or "other".  *)
(* quoted says that a literal contains what looks like a call, odd that a  *)
(* character is a double quote.                                            *)
Leaf(text, is) ==
    [text |-> text, calls |-> <<>>, is |-> is, quoted |-> FALSE, odd |-> FALSE,
     literals |-> <<>>]

Quoted(wide, inside) ==
    [text |-> wide \o <<<<"\"">>>> \o inside \o <<<<"\"">>>>, calls |-> <<>>,
     is |-> "literal", literals |-> <<inside>>, odd |-> FALSE,
     quoted |-> \E k \in DOMAIN inside : inside[k][1] = "word"]

Character(t) == [Leaf(<<<<"'">>, t, <<"'">>>>, "other") EXCEPT !.odd = t = <<"\"">>]

Call(id, args) ==
    LET commas == FoldLeft(LAMBDA acc, a : acc \o <<<<",">>>> \o a.text, <<>>, args)
    IN  [text |-> <<id, <<"(">>>> \o (IF args = <<>> THEN <<>> ELSE Tail(commas)) \o <<<<")">>>>,
         calls |-> <<[id |-> id, args |-> args]>>
                   \o FlattenSeq([k \in DOMAIN args |-> args[k].calls]),
         literals |-> FlattenSeq([k \in DOMAIN args |-> args[k].literals]),
         quoted |-> \E a \in Range(args) : a.quoted,
         odd |-> \E a \in Range(args) : a.odd,
         is |-> "other"]

(* A dangerous call is excused by an argument that is missing, or known    *)
(* not to come from outside.                                               *)
Excused(c) ==
    LET class == Classify(c.id)
        nth(n) == IF n \in DOMAIN c.args THEN c.args[n].is ELSE "missing"
    IN  CASE class.category = "format_string" ->
                nth(FormatArgIndex[c.id[3]]) \in {"literal", "missing"}
          [] class.category = "command_exec" /\ c.id[3] \in Ruled ->
                nth(1) \in {"literal", "missing"}
          [] class.category = "memory_move" ->
                nth(Len(c.args)) \in {"constant", "missing"}
          [] OTHER -> FALSE

(* The findings are the dangerous calls that are not excused, however they *)
(* are nested and whatever their literals contain, each kind of a sink     *)
(* once, and as severe as the table has it unless they are a signpost.     *)
FindingsAreTheCalls(e) ==
    LET found == Analyze(e.text)
        danger == {c \in Range(e.calls) : Classify(c.id) # None}
        sink(c) == IF BaseName(c.id) \in Ruled THEN BaseName(c.id) ELSE Classify(c.id).name
        due == {sink(c) : c \in {d \in danger : ~ Excused(d)}}
    IN  /\ due \subseteq {f.sink : f \in Range(found)}
        /\ ~ e.quoted => due = {f.sink : f \in Range(found)}
        /\ \A f \in Range(found) :
            LET class == Classify(<<"word", 0, f.sink, "">>)
            IN  f.kind # "dangerous_call" => class # None /\ f.severity = class.severity
        /\ \A i, j \in DOMAIN found :
            found[i].kind = found[j].kind /\ found[i].sink = found[j].sink => i = j

(* The literals of a report are those of the text, the first ones.         *)
LiteralsAreThere(e) == ~ e.odd =>
    LET distinct == FoldLeft(LAMBDA acc, l : IF l = <<>> \/ Contains(acc, l) THEN acc
                                             ELSE Append(acc, l), <<>>, e.literals)
    IN  StringLiterals(e.text) = SubSeq(distinct, 1, Min({Literals, Len(distinct)}))

Total(tally) == MapThenSumSet(LAMBDA x : tally[x], DOMAIN tally)

(* The survey accounts for all it looked at, ranks no function it leaves   *)
(* out above one it shows, and says when it did not look at everything,    *)
(* unless the functions could not be counted.  A shortlist of imports that *)
(* is cut does not count as that.                                          *)
SurveyIsHonest(b) ==
    LET full == Survey(b, "standard")
        cheap == Survey(b, "minimal")
        notable == SelectSeq(b.imports, LAMBDA i : CategorizeImport(i) # None)
        complete == \A what \in {"functions", "imports", "strings"} : Len(b[what]) <= Scan
        of(s, role) == IF role \in DOMAIN s.roles THEN s.roles[role] ELSE 0
    IN  full # None =>
        /\ \A s \in {full, cheap} :
            /\ Total(s.roles) = Len(Page(b.functions)) /\ Total(s.strings) = Len(Page(b.strings))
            /\ s.truncated => ~ complete
            /\ "functions" \in b.counted /\ ~ s.truncated =>
                complete /\ Len(s.notable) = Min({Notable, Len(notable)})
        /\ \A role \in {"thunk", "library"} : of(full, role) = of(cheap, role)
        /\ \A detail \in {"standard", "minimal"} :
            LET top == Range(Survey(b, detail).top)
            IN  /\ Cardinality(top) = Min({Top, Len(Page(b.functions))})
                /\ \A i \in top, j \in DOMAIN Page(b.functions) \ top :
                    Rank(b.functions[i], detail) >= Rank(b.functions[j], detail)
=============================================================================

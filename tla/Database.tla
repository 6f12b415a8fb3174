------------------------------ MODULE Database ------------------------------
(* One open database as the tools that change it see it: their use cases   *)
(* (application/contexts), the adapters that carry them out                *)
(* (infrastructure/ida) and the cache of the extracted strings, which only *)
(* two of the adapters invalidate.                                         *)
(*                                                                         *)
(* The kernel behind the adapters is external: an item is a span of one    *)
(* kind, a function is the entry of a span of FuncSize addresses, and the  *)
(* strings are the addresses that hold text and lie in no instruction.     *)
(* A declaration, a comment or a script is what it does.                   *)
EXTENDS Integers, SequencesExt

CONSTANTS
    Addrs,      \* addresses: 0 .. n
    Mapped,     \* those that lie in a segment
    Decodable,  \* those whose bytes are an instruction
    Names,      \* symbols
    Types,      \* names of types
    Members,    \* enum members
    Locals,     \* frame variables
    Slots,      \* _MAX_SLOTS
    FuncSize,
    MaxCalls,   \* bound on the calls
    None

VARIABLES
    items,   \* [at, size, kind]: what is defined
    funcs,   \* the entries of the functions
    text,    \* the addresses that hold text
    names,   \* what they are called
    types,   \* the local library: [kind, members]
    locals,  \* <<function, variable>>
    marks,   \* the marked positions
    notes,   \* <<tool, address>>: comments, applied types, operand formats
    cache,   \* the strings: None until they are asked for
    stale,   \* something changed them behind the cache's back
    last,    \* [tool, ok]: the last call
    calls    \* how many there were

database == <<items, funcs, text, names, types, locals, marks, notes>>
Absent == [kind |-> "absent", members |-> <<>>]

Struct == [kind |-> "struct", members |-> <<>>]

vars == <<database, cache, stale, last, calls>>

(* Somewhere a user has marked before.                                     *)
Origin == Min(Mapped)

Init ==
    /\ items \in SUBSET {[at |-> a, size |-> 1, kind |-> "code"] : a \in Decodable}
    /\ funcs = {} /\ text \in {{}, Mapped}
    /\ names = [a \in Addrs |-> None]
    /\ types = [t \in Types |-> Absent]
    /\ locals = {} /\ notes = {}
    /\ \E s \in 0 .. Slots : marks = [t \in 1 .. Slots |-> IF t = s THEN Origin ELSE None]
    /\ cache = None /\ stale = FALSE
    /\ last = [tool |-> "get_metadata", ok |-> TRUE] /\ calls = 0

-----------------------------------------------------------------------------
(* The kernel.                                                             *)

Span(a, n) == a .. a + n - 1

Covers(i) == Span(i.at, i.size)

DelItems(a, n) == {i \in items : Covers(i) \cap Span(a, n) = {}}

FuncAt(a) == {f \in funcs : a \in Span(f, FuncSize)}

Code == UNION {Covers(i) : i \in {j \in items : j.kind = "code"}}

Strings == text \ Code

(* A selector is a number or a name; a number need not be mapped.          *)
Selectors == Addrs \cup Names

Resolve(s) ==
    IF s \in Addrs THEN s
    ELSE IF \E a \in Addrs : names[a] = s THEN CHOOSE a \in Addrs : names[a] = s ELSE None

-----------------------------------------------------------------------------
(* How a call ends.                                                        *)

Answer(tool, ok) ==
    /\ calls < MaxCalls
    /\ calls' = calls + 1
    /\ last' = [tool |-> tool, ok |-> ok]

(* The strings are what they were, or they are dropped, or they are not.   *)
Aside == UNCHANGED <<cache, stale>>
Invalidate == cache' = None /\ stale' = FALSE
Bypass == cache' = cache /\ stale' = (stale \/ cache # None)

Refuse(tool) == Answer(tool, FALSE) /\ UNCHANGED <<database, cache, stale>>

Accept(tool) == Answer(tool, TRUE)

-----------------------------------------------------------------------------
(* The gateways: what the adapters do at an address.                       *)

(* A name the kernel does not take.                                        *)
NameTaken(a, n) == \E b \in Addrs \ {a} : names[b] = n

SetName(a, n) ==
    IF NameTaken(a, n) \/ a \notin Mapped THEN Refuse("rename")
    ELSE /\ Accept("rename")
         /\ names' = [names EXCEPT ![a] = n]
         /\ UNCHANGED <<items, funcs, text, types, locals, marks, notes>> /\ Aside

(* Faulty: the cache is forgotten.                                         *)
MutPatchBytes(a, n, isText) ==
    /\ text' = IF isText THEN text \cup (Span(a, n) \cap Mapped) ELSE text \ Span(a, n)
    /\ UNCHANGED <<items, funcs, names, types, locals, marks, notes>>
    /\ Aside

(* Bytes at an address that is not mapped go nowhere, and are counted.     *)
PatchBytes(a, n, isText) ==
    /\ text' = IF isText THEN text \cup (Span(a, n) \cap Mapped) ELSE text \ Span(a, n)
    /\ UNCHANGED <<items, funcs, names, types, locals, marks, notes>>
    /\ Invalidate

(* An encoding longer than the instruction it replaces is refused.         *)
Assembles(a, n) ==
    /\ a \in Mapped
    /\ \A i \in items : i.at = a /\ i.kind = "code" => n <= i.size

(* Both ends must be mapped before what is there is cleared; the kernel    *)
(* may still refuse, over a hole for one, and then it is gone.             *)
DefineItem(a, n) ==
    IF ~ {a, a + n - 1} \subseteq Mapped THEN Refuse("make_data")
    ELSE /\ funcs' \in {funcs, funcs \ Span(a, n)}
         /\ locals' = {l \in locals : l[1] \in funcs'}
         /\ UNCHANGED <<text, names, types, marks, notes>>
         /\ \/ /\ Span(a, n) \subseteq Mapped
               /\ Accept("make_data")
               /\ items' = DelItems(a, n) \cup {[at |-> a, size |-> n, kind |-> "data"]}
               /\ Invalidate
            \/ /\ Answer("make_data", FALSE)
               /\ items' = DelItems(a, n)
               /\ Bypass

AddFunc(a) ==
    IF \/ a \notin Decodable
       \/ \E b \in Span(a, FuncSize) : FuncAt(b) # {}
       \/ \E i \in items : i.kind = "data" /\ a \in Covers(i)
    THEN Refuse("define_func")
    ELSE /\ Accept("define_func")
         /\ funcs' = funcs \cup {a}
         /\ items' = IF a \in Code THEN items
                     ELSE items \cup {[at |-> a, size |-> 1, kind |-> "code"]}
         /\ UNCHANGED <<text, names, types, locals, marks, notes>> /\ Bypass

(* A function goes with its frame, its instructions stay; otherwise the    *)
(* item that covers the address is reverted.                               *)
Revert(a) ==
    IF a \in funcs
    THEN /\ Accept("undefine")
         /\ funcs' = funcs \ {a}
         /\ locals' = {l \in locals : l[1] # a}
         /\ UNCHANGED <<items, text, names, types, marks, notes>> /\ Aside
    ELSE IF a \notin Mapped THEN Refuse("undefine")
    ELSE /\ Accept("undefine")
         /\ items' = DelItems(a, 1)
         /\ UNCHANGED <<funcs, text, names, types, locals, marks, notes>> /\ Bypass

CreateInsn(a) ==
    IF a \notin Decodable \/ \E i \in items : a \in Covers(i) THEN Refuse("define_code")
    ELSE /\ Accept("define_code")
         /\ items' = items \cup {[at |-> a, size |-> 1, kind |-> "code"]}
         /\ UNCHANGED <<funcs, text, names, types, locals, marks, notes>> /\ Bypass

(* What parses is installed even when something else does not.             *)
ParseDecls(ts, parses) ==
    /\ Answer("declare_type", parses)
    /\ types' = [t \in Types |-> IF t \in ts THEN Struct ELSE types[t]]
    /\ UNCHANGED <<items, funcs, text, names, locals, marks, notes>> /\ Aside

(* What a request lists: members, finitely many, with their values.        *)
Listings == UNION {[D -> {1, 2}] : D \in {S \in SUBSET Members : IsFiniteSet(S)}}

(* A listed member is updated in place or added, in the order in which it  *)
(* is listed, which is left out; the others stay.                          *)
Merged(enum, new) ==
    LET old == {enum[k][1] : k \in DOMAIN enum}
        added == SetToSeq(DOMAIN new \ old)
    IN  [k \in DOMAIN enum |->
            IF enum[k][1] \in DOMAIN new THEN <<enum[k][1], new[enum[k][1]]>> ELSE enum[k]]
        \o [k \in DOMAIN added |-> <<added[k], new[added[k]]>>]

Upsert(t, new) ==
    IF types[t] = Struct THEN Refuse("enum_upsert")
    ELSE /\ Accept("enum_upsert")
         /\ types' = [types EXCEPT ![t] = [kind |-> "enum", members |-> Merged(@.members, new)]]
         /\ UNCHANGED <<items, funcs, text, names, locals, marks, notes>> /\ Aside

(* The frame of the function that covers the address.                      *)
Frame(a, v) == FuncAt(a) \X {v}

DefineVariable(a, v) ==
    IF Frame(a, v) \subseteq locals THEN Refuse("declare_stack")
    ELSE /\ Accept("declare_stack")
         /\ locals' = locals \cup Frame(a, v)
         /\ UNCHANGED <<items, funcs, text, names, types, marks, notes>> /\ Aside

DeleteVariable(a, v) ==
    IF Frame(a, v) \cap locals = {} THEN Refuse("delete_stack")
    ELSE /\ Accept("delete_stack")
         /\ locals' = locals \ Frame(a, v)
         /\ UNCHANGED <<items, funcs, text, names, types, marks, notes>> /\ Aside

(* The slots an address may be marked in: its own if it is marked.         *)
SlotFor(a) ==
    IF \E s \in 1 .. Slots : marks[s] = a THEN {s \in 1 .. Slots : marks[s] = a}
    ELSE {s \in 1 .. Slots : marks[s] = None}

Mark(a) ==
    IF SlotFor(a) = {} THEN Refuse("add_bookmark")
    ELSE /\ Accept("add_bookmark")
         /\ marks' = [marks EXCEPT ![Min(SlotFor(a))] = a]
         /\ UNCHANGED <<items, funcs, text, names, types, locals, notes>> /\ Aside

Note(tool, a) ==
    /\ Accept(tool)
    /\ notes' = notes \cup {<<tool, a>>}
    /\ UNCHANGED <<items, funcs, text, names, types, locals, marks>> /\ Aside

Comment(a, ofFunction) ==
    IF ofFunction
    THEN IF FuncAt(a) = {} THEN Refuse("set_comment") ELSE Note("set_comment", Min(FuncAt(a)))
    ELSE IF a \notin Mapped THEN Refuse("set_comment") ELSE Note("set_comment", a)

(* The declaration parses, and the kernel takes it.                        *)
ApplyType(a, parses) ==
    IF ~ parses \/ a \notin Mapped THEN Refuse("set_type") ELSE Note("set_type", a)

OperandType(a, known) ==
    IF ~ known \/ a \notin Code THEN Refuse("set_op_type") ELSE Note("set_op_type", a)

MarkDirty(a) ==
    IF FuncAt(a) = {} THEN Refuse("force_recompile")
    ELSE Accept("force_recompile") /\ UNCHANGED database /\ Aside

(* A script does as it likes, and may fail after it did.                   *)
RunScript(ends) ==
    /\ Answer("exec_python", ends)
    /\ \E a \in Mapped : text' = (text \ {a}) \cup ({a} \ text)
    /\ UNCHANGED <<items, funcs, names, types, locals, marks, notes>>
    /\ Bypass

(* The strings are extracted once; the pages are cut from that.            *)
Rows ==
    /\ UNCHANGED database
    /\ IF cache = None THEN cache' = Strings /\ stale' = FALSE ELSE Aside

-----------------------------------------------------------------------------
(* The tools.  Arguments are looked at first, then the selector is         *)
(* resolved, then the gateway is asked.                                    *)

On(tool, valid, s, Do(_)) ==
    IF ~ valid \/ Resolve(s) = None THEN Refuse(tool) ELSE Do(Resolve(s))

(* None: a name that is blank.                                             *)
Rename(s, n) == On("rename", n # None, s, LAMBDA a : SetName(a, n))

Patch(s, n, isText) ==
    On("patch", n > 0, s, LAMBDA a : Accept("patch") /\ PatchBytes(a, n, isText))

(* Faulty: the length is compared after the bytes are written.             *)
MutPatchAsm(s, n) ==
    On("patch_asm", n > 0, s, LAMBDA a :
        Answer("patch_asm", Assembles(a, n)) /\ PatchBytes(a, n, FALSE))

PatchAsm(s, n) ==
    On("patch_asm", n > 0, s, LAMBDA a :
        IF ~ Assembles(a, n) THEN Refuse("patch_asm")
        ELSE Accept("patch_asm") /\ PatchBytes(a, n, FALSE))

MakeData(s, n) == On("make_data", n > 0, s, LAMBDA a : DefineItem(a, n))

DefineFunc(s) == On("define_func", TRUE, s, AddFunc)

Undefine(s) == On("undefine", TRUE, s, Revert)

DefineCode(s) == On("define_code", TRUE, s, CreateInsn)

DeclareType(ts, parses) ==
    IF ts = {} /\ parses THEN Refuse("declare_type") ELSE ParseDecls(ts, parses)

EnumUpsert(t, new) == IF DOMAIN new = {} THEN Refuse("enum_upsert") ELSE Upsert(t, new)

DeclareStack(s, v) == On("declare_stack", TRUE, s, LAMBDA a : DefineVariable(a, v))

DeleteStack(s, v) == On("delete_stack", TRUE, s, LAMBDA a : DeleteVariable(a, v))

AddBookmark(s, blank) == On("add_bookmark", ~ blank, s, Mark)

SetComment(s, ofFunction) == On("set_comment", TRUE, s, LAMBDA a : Comment(a, ofFunction))

SetType(s, parses) == On("set_type", TRUE, s, LAMBDA a : ApplyType(a, parses))

SetOpType(s, known) == On("set_op_type", TRUE, s, LAMBDA a : OperandType(a, known))

ForceRecompile(s) == On("force_recompile", TRUE, s, MarkDirty)

(* The copy is a file; writing it changes nothing here, or fails.          *)
Snapshot(saves) == Answer("idb_snapshot", saves) /\ UNCHANGED database /\ Aside

ExecPython(blank, ends) == IF blank THEN Refuse("exec_python") ELSE RunScript(ends)

ListStrings == Accept("list_strings") /\ Rows

Next ==
    \/ \E s \in Selectors :
        \/ \E n \in Names \cup {None} : Rename(s, n)
        \/ \E n \in 0 .. 2 : PatchAsm(s, n) \/ \E isText \in BOOLEAN : Patch(s, n, isText)
        \/ \E n \in 0 .. 3 : MakeData(s, n)
        \/ DefineFunc(s) \/ DefineCode(s) \/ Undefine(s) \/ ForceRecompile(s)
        \/ \E v \in Locals : DeclareStack(s, v) \/ DeleteStack(s, v)
        \/ \E flag \in BOOLEAN :
            AddBookmark(s, flag) \/ SetComment(s, flag) \/ SetType(s, flag) \/ SetOpType(s, flag)
    \/ \E ts \in SUBSET Types, parses \in BOOLEAN : DeclareType(ts, parses)
    \/ \E t \in Types, new \in Listings : EnumUpsert(t, new)
    \/ \E flag, ends \in BOOLEAN : ExecPython(flag, ends)
    \/ \E saves \in BOOLEAN : Snapshot(saves)
    \/ ListStrings

Spec == Init /\ [][Next]_vars

-----------------------------------------------------------------------------
(* Properties.                                                             *)

(* The cached strings are those of the database, unless a tool that does   *)
(* not know the cache has changed them since (strings_cache.py:1-10).      *)
StringsFresh == cache # None /\ ~ stale => cache = Strings

(* Through any sequence of calls an address has one mark at most, a symbol *)
(* names one address, an enum has a member once, and only functions have   *)
(* frames.                                                                 *)
NothingTwice ==
    /\ \A i, j \in 1 .. Slots : marks[i] = marks[j] /\ marks[i] # None => i = j
    /\ \A a, b \in Addrs : names[a] = names[b] /\ names[a] # None => a = b
    /\ \A t \in Types : LET m == types[t].members
                        IN  \A i, j \in DOMAIN m : m[i][1] = m[j][1] => i = j
    /\ \A l \in locals : l[1] \in funcs

(* Tools that say they failed have changed nothing, but for a script, a    *)
(* declaration that parsed in part and the item make_data had to clear     *)
(* (data_definition_adapter.py:85-88).                                     *)
FailedWithoutTrace == ~ last'.ok =>
    \/ UNCHANGED <<database, cache, stale>>
    \/ last'.tool \in {"exec_python", "declare_type"}
    \/ last'.tool = "make_data" /\ items' \subseteq items
                                /\ UNCHANGED <<text, names, types, marks, notes>>
=============================================================================

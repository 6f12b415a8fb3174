------------------------------ MODULE DataFlow ------------------------------
(* The def-use tracers of domain/services/data_flow.py and the source to   *)
(* sink tracer that is built on them, taint.py, over the instructions of   *)
(* domain/entities/decoded_instruction.py.                                 *)
(*                                                                         *)
(* An instruction is [mn, ops]; an operand                                 *)
(*   [kind, reg, base, index, disp, read, write, text]                     *)
(* where kind is "reg", "imm", "mem" or "phrase", a register is a pair of  *)
(* its family and its alias, disp is a displacement or an address, None    *)
(* stands for what is absent, and text is the callee when it is called.    *)
(* A program is a sequence of instructions, known by their indices.        *)
EXTENDS Integers, SequencesExt

CONSTANTS
    StackRegs,    \* the families of the stack and the frame pointer
    Clobbered,    \* the families no call preserves
    ArgRegs,      \* the families that pass arguments
    ReturnReg,    \* the family a call returns in
    InputSources, \* the callees whose result is tainted
    SinkNames,    \* the callees that are sinks
    None

Moves == {"mov", "movzx", "movsx", "movsxd", "lea", "movq", "movd"}

Zeroing == {"xor", "sub"}

Canonical(reg) == reg[1]

StackSlot(o) ==
    IF o.kind = "phrase" /\ o.base # None /\ o.base[1] \in StackRegs /\ o.index = None
    THEN o.disp ELSE None

(* The location an operand names; an immediate and a computed address name *)
(* none.                                                                   *)
Location(o) ==
    IF o.kind = "reg" THEN <<"reg", Canonical(o.reg)>>
    ELSE IF StackSlot(o) # None THEN <<"stack", StackSlot(o)>>
    ELSE IF o.kind = "mem" THEN <<"mem", o.disp>>
    ELSE None

Operands(insn) == {insn.ops[k] : k \in DOMAIN insn.ops}

Named(S) == {Location(o) : o \in S} \ {None}

Writes(insn) == Named({o \in Operands(insn) : o.write})

Reads(insn) ==
    Named({o \in Operands(insn) : o.read})
        \cup {<<"reg", Canonical(r)>> :
                r \in UNION {{o.base, o.index} \ {None} :
                                o \in {p \in Operands(insn) : p.kind = "phrase"}}}

Operand(insn, k) == IF k \in DOMAIN insn.ops THEN insn.ops[k] ELSE None

MoveDestination(insn) ==
    LET o == Operand(insn, 1)
    IN  IF insn.mn \in Moves /\ o # None /\ o.write THEN Location(o) ELSE None

MoveSource(insn) ==
    LET o == Operand(insn, 2)
    IN  IF insn.mn \in Moves /\ o # None /\ o.read THEN Location(o) ELSE None

-----------------------------------------------------------------------------
(* The two traces.  A step is <<index, note, locations>>.                  *)

HasMore(prog, from, tracked) == \E i \in from .. Len(prog) :
    tracked \cap (Reads(prog[i]) \cup Writes(prog[i])) # {}

Noted(w, i, note, locs, tracked) ==
    [w EXCEPT !.tracked = tracked, !.steps = Append(@, <<i, note, locs>>)]

ForwardStep(insn, i, w) ==
    LET dest == MoveDestination(insn)
        touched == w.tracked \cap Reads(insn)
        written == w.tracked \cap Writes(insn)
    IN  IF touched # {} /\ dest # None /\ dest \notin w.tracked
        THEN Noted(w, i, "propagate", {dest}, w.tracked \cup {dest})
        ELSE IF touched # {} /\ written # {} THEN Noted(w, i, "transform", {}, w.tracked)
        ELSE IF touched # {} THEN Noted(w, i, "use", {}, w.tracked)
        ELSE IF written # {} THEN Noted(w, i, "redefined", written, w.tracked \ written)
        ELSE w

Untraced(seeds) == [tracked |-> seeds, steps |-> <<>>, stop |-> FALSE, truncated |-> FALSE]

ForwardVisit(prog, i, cap, w) ==
    IF w.stop THEN w
    ELSE IF Len(w.steps) >= cap
    THEN [w EXCEPT !.stop = TRUE, !.truncated = HasMore(prog, i, w.tracked)]
    ELSE ForwardStep(prog[i], i, w)

(* The trace so far, after each instruction from the anchor on.            *)
ForwardWalk(prog, anchor, seeds, cap) ==
    LET walk[i \in anchor .. Len(prog)] ==
            IF i = anchor THEN Untraced(seeds) ELSE ForwardVisit(prog, i, cap, walk[i - 1])
    IN  walk

Forward(prog, anchor, seeds, cap) == ForwardWalk(prog, anchor, seeds, cap)[Len(prog)]

(* Faulty: the copied location is followed besides its source.             *)
MutBackwardStep(insn, i, w) ==
    LET defined == w.tracked \cap Writes(insn)
        followed == {MoveSource(insn)} \ {None}
    IN  IF defined = {} THEN w
        ELSE Noted(w, i, "def", followed, w.tracked \cup followed)

BackwardStep(insn, i, w) ==
    LET defined == w.tracked \cap Writes(insn)
        followed == {MoveSource(insn)} \ {None}
    IN  IF defined = {} THEN w
        ELSE Noted(w, i, "def", followed, (w.tracked \ defined) \cup followed)

BackwardVisit(prog, i, cap, w) ==
    IF w.stop THEN w
    ELSE IF Len(w.steps) >= cap THEN [w EXCEPT !.stop = TRUE, !.truncated = TRUE]
    ELSE BackwardStep(prog[i], i, w)

(* The trace so far, k instructions before the anchor.                     *)
BackwardWalk(prog, anchor, seed, cap) ==
    LET walk[k \in 0 .. anchor - 1] ==
            IF k = 0 THEN Untraced({seed}) ELSE BackwardVisit(prog, anchor - k, cap, walk[k - 1])
    IN  walk

Backward(prog, anchor, seed, cap) == BackwardWalk(prog, anchor, seed, cap)[anchor - 1]

Clamp(n, top) == IF n <= 0 THEN 0 ELSE IF n > top THEN top ELSE n

(* A start that matches no instruction, or an operand without a location,  *)
(* has an empty trace.                                                     *)
Trace(prog, start, operand, direction, maxSteps, top) ==
    LET o == IF start \in DOMAIN prog THEN Operand(prog[start], operand) ELSE None
        seed == IF o = None THEN None ELSE Location(o)
    IN  IF seed = None THEN Untraced({})
        ELSE IF direction = "backward"
        THEN Backward(prog, start, seed, Clamp(maxSteps, top))
        ELSE Forward(prog, start, {seed}, Clamp(maxSteps, top))

-----------------------------------------------------------------------------
(* The taint tracer's primitive.                                           *)

IsZeroing(insn) ==
    LET o == Operand(insn, 1)
        p == Operand(insn, 2)
    IN  /\ insn.mn \in Zeroing /\ o # None /\ p # None
        /\ o.kind = "reg" /\ Location(o) = Location(p)

Propagate(insn, tainted) ==
    IF insn.mn = "call" THEN tainted \ {<<"reg", r>> : r \in Clobbered}
    ELSE IF IsZeroing(insn) THEN tainted \ {Location(Operand(insn, 1))}
    ELSE IF tainted \cap Reads(insn) # {}
    THEN tainted \cup ({MoveDestination(insn)} \ {None})
    ELSE tainted \ Writes(insn)

Tainted(prog, start, seeds) ==
    LET before[i \in start + 1 .. Len(prog)] ==
            IF i = start + 1 THEN seeds ELSE Propagate(prog[i - 1], before[i - 1])
    IN  before

(* What is tainted before each of the instructions that are examined.      *)
ForwardReach(prog, start, seeds, cap) ==
    LET before == Tainted(prog, start, seeds)
    IN  [i \in {j \in start + 1 .. Len(prog) : j - start <= cap /\ before[j] # {}} |->
            before[i]]

-----------------------------------------------------------------------------
(* Sources and sinks.                                                      *)

Callee(insn) ==
    IF insn.mn = "call" /\ Operand(insn, 1) # None THEN Operand(insn, 1).text ELSE None

OutgoingArguments(insn) ==
    {Location(o) : o \in {p \in Operands(insn) : p.write /\ StackSlot(p) # None}}

(* The slots stored to since the call before instruction i.                *)
Window(prog, source, i) ==
    UNION {OutgoingArguments(prog[j]) : j \in
        {k \in source + 1 .. i - 1 : \A m \in k .. i - 1 : Callee(prog[m]) = None}}

ReachesArg(tainted, window) ==
    \/ \E r \in ArgRegs : <<"reg", r>> \in tainted
    \/ \E l \in tainted \cap window : l[1] = "stack" /\ l[2] >= 0

Sinks(prog, source, hops) ==
    LET reached == ForwardReach(prog, source, {<<"reg", ReturnReg>>}, hops)
    IN  {i \in DOMAIN reached :
            /\ Callee(prog[i]) \in SinkNames
            /\ ReachesArg(reached[i], Window(prog, source, i))}

(* Every path, by source and sink; those past the cap go.                  *)
TaintTrace(prog, maxPaths, top, hops) ==
    LET from(i) == IF Callee(prog[i]) \in InputSources THEN Sinks(prog, i, hops) ELSE {}
        all == FlattenSeq([i \in DOMAIN prog |->
                    LET sinks == SetToSortSeq(from(i), <)
                    IN  [k \in DOMAIN sinks |-> <<i, sinks[k]>>]])
        cap == Clamp(maxPaths, top)
    IN  [paths |-> SubSeq(all, 1, Min({cap, Len(all)})), truncated |-> Len(all) > cap]

-----------------------------------------------------------------------------
(* Properties of one program.                                              *)

(* What may be taken for granted of a decoded instruction: a move writes   *)
(* to its first operand only.                                              *)
Decoded(insn) == insn.mn \in Moves => Writes(insn) \subseteq {MoveDestination(insn)}

(* The locations a program moves values through.                           *)
Places(prog) == UNION {Writes(prog[i]) \cup ({MoveSource(prog[i])} \ {None}) : i \in DOMAIN prog}

Uncapped(prog) == Len(prog) + 1

(* A cut trace is the beginning of the whole one, and a forward trace says *)
(* that it is truncated if and only if it is cut (data_flow.py:122-125).   *)
CutWhereItSays(prog, start, operand, cap) ==
    \A direction \in {"forward", "backward"} :
        LET cut == Trace(prog, start, operand, direction, cap, Len(prog))
            whole == Trace(prog, start, operand, direction, Len(prog), Len(prog))
        IN  /\ cut.steps = SubSeq(whole.steps, 1, Min({Clamp(cap, Len(prog)), Len(whole.steps)}))
            /\ Len(cut.steps) < Len(whole.steps) => cut.truncated
            /\ cut.truncated /\ direction = "forward" => Len(cut.steps) < Len(whole.steps)

Plain(prog) == \A i \in DOMAIN prog : prog[i].mn # "call" /\ ~ IsZeroing(prog[i])

(* The two forward tracers, written apart, follow a value to the same      *)
(* places; they part only at calls and zeroing idioms.                     *)
TrackersAgree(prog, start, seed) == Plain(prog) =>
    LET reach == ForwardReach(prog, start, {seed}, Len(prog))
    IN  \A i \in start + 1 .. Len(prog) :
            Forward(SubSeq(prog, 1, i - 1), start, {seed}, Uncapped(prog)).tracked
                = IF i \in DOMAIN reach THEN reach[i] ELSE {}

(* Where the backward trace says a value came from, a forward trace finds  *)
(* that it went; and a value that copies alone have carried is traced back *)
(* to the one place it was in.                                             *)
BackwardInvertsForward(prog, start, seed) ==
    LET origins == Backward(prog, start, seed, Uncapped(prog)).tracked
        arrives(l) == LET reach == ForwardReach(prog, 0, {l}, Len(prog))
                      IN  start \in DOMAIN reach /\ seed \in reach[start]
        copies == \A i \in DOMAIN prog :
            /\ prog[i].mn \in Moves
            /\ Reads(prog[i]) \cap Places(prog) \subseteq {MoveSource(prog[i])}
    IN  Plain(prog) => /\ \A l \in origins : arrives(l)
                       /\ copies => origins = {l \in Places(prog) : arrives(l)}

(* A sink is reported for an argument that was set up for it: since the    *)
(* call before it some instruction wrote to an argument register, or since *)
(* the last call with a target one stored to an outgoing slot, unless the  *)
(* value is in a register that calls preserve (taint.py:18-23).            *)
SinkHasItsArgument(prog, hops) == \A source \in DOMAIN prog :
    Callee(prog[source]) \in InputSources =>
        \A i \in Sinks(prog, source, hops) :
            LET writes(j, r) == <<"reg", r>> \in Writes(prog[j])
                calls == {j \in source .. i - 1 : prog[j].mn = "call"}
                named == {j \in calls : Callee(prog[j]) # None}
            IN  \/ \E j \in Max(calls) .. i - 1 : \E r \in ArgRegs : writes(j, r)
                \/ \E j \in source .. i - 1 : \E r \in ArgRegs \ Clobbered : writes(j, r)
                \/ \E j \in Max(named) .. i - 1 : \E l \in Writes(prog[j]) :
                        l[1] = "stack" /\ l[2] >= 0

TracesKept(prog) ==
    /\ \A start \in DOMAIN prog :
        /\ \A operand \in 1 .. 2, cap \in -1 .. Len(prog) :
                CutWhereItSays(prog, start, operand, cap)
        /\ \A seed \in Places(prog) : /\ TrackersAgree(prog, start, seed)
                                      /\ BackwardInvertsForward(prog, start, seed)
    /\ SinkHasItsArgument(prog, Len(prog))
=============================================================================

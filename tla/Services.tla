------------------------------ MODULE Services ------------------------------
(* What one request does that takes many steps: the walk of a call graph,  *)
(* the sweeps over a repository, and the tools that change the database.   *)
(* They have no state in common; part says which of them a behaviour is    *)
(* of.  It may be of a service that is a function of its argument, as the  *)
(* tracing of data flow is.                                                *)
EXTENDS CallGraph

CONSTANTS
    None,
    Kinds, Hits, Repos, Limits,                 \* of Sweeps
    PageSize, PageCap, ScanCap, QueryScan,
    Addrs, Mapped, Decodable, Labels, Types,    \* of Database
    EnumMembers, Locals, Slots, FuncSize, MaxCalls,
    Insns, FlowPrograms,                        \* of DataFlow
    StackRegs, Clobbered, ArgRegs, ReturnReg, InputSources, SinkNames

(* The use cases page by MAX_COUNT, at most _MAX_PAGES times, and a sweep  *)
(* decodes fewer functions than a page holds (MAX_SCAN_FUNCTIONS).         *)
ASSUME SweepsAssumption ==
    /\ Repos \subseteq Seq(Seq(Seq(Hits))) \ {<<>>}
    /\ Limits \subseteq Nat
    /\ PageSize \in Nat /\ PageCap \in Nat \ {0} /\ QueryScan \in Nat \ {0}
    /\ ScanCap \in 1 .. PageSize - 1

ASSUME DatabaseAssumption == Slots \in Nat

VARIABLES
    part,
    kind, repo, limit, source, offset, page, length, pages, scanned, hits,
    found, cut, stage,
    items, funcs, text, names, types, locals, marks, notes, cache, stale, last, calls,
    input, done  \* of a pure service: its argument, and that it answered

sweepVars == <<kind, repo, limit, source, offset, page, length, pages, scanned,
               hits, found, cut, stage>>
baseVars == <<items, funcs, text, names, types, locals, marks, notes, cache, stale, last, calls>>
pureVars == <<input, done>>

Walk == INSTANCE Sweeps WITH rest <- hits, truncated <- cut, Functions <- ScanCap

Base == INSTANCE Database WITH Names <- Labels, Members <- EnumMembers

Flow == INSTANCE DataFlow

(* The registers and the names of taint.py:47-68.                          *)
ASSUME FlowAssumption ==
    /\ \A insn \in Insns : Flow!Decoded(insn)
    /\ \A insn \in Insns : \A o \in Flow!Operands(insn) : <<"stack", o.disp>> # None
    /\ FlowPrograms \subseteq Seq(Insns)
    /\ ReturnReg \notin ArgRegs
    /\ None \notin InputSources \cup SinkNames

-----------------------------------------------------------------------------
(* A pure service p is asked about one of its inputs, and answers.         *)
Asked(p, inputs) == part = p /\ input \in inputs /\ done = FALSE

Answer == input # None /\ ~ done /\ done' = TRUE /\ UNCHANGED input

Answered(p) == part = p /\ done

TraceSpec == Asked("flow", FlowPrograms) /\ [][Answer /\ UNCHANGED part]_<<part, pureVars>>

-----------------------------------------------------------------------------
(* A walk over pages, sources and items returns the beginning of what      *)
(* there is, all of it unless it says otherwise, and says so in earnest.   *)
WalksAreHonest == part = "walk" =>
    Walk!FoundInOrder /\ Walk!SilentMeansComplete /\ Walk!TruncatedMeansMore

(* Through any sequence of calls the cached strings are those of the       *)
(* database, as long as the calls tell the cache, no address is marked     *)
(* twice, no two are named alike, no enum repeats a member and no frame is *)
(* without a function.                                                     *)
BaseStaysSound == part = "base" => Base!StringsFresh /\ Base!NothingTwice

(* The two forward tracers agree, the backward one inverts them, a cut     *)
(* trace is a prefix and says so, and a tainted sink was handed its value. *)
TracesAgree == Answered("flow") => Flow!TracesKept(input)

(* A tool that says it failed has changed nothing, with three exceptions.  *)
FailureLeavesNoTrace == [][part = "base" => Base!FailedWithoutTrace]_baseVars
=============================================================================

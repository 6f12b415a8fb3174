----------------------------- MODULE CallGraph -----------------------------
(* The bounded call graph of domain/services/call_graph.py, the roll-up of *)
(* it in component.py, and the clamping of the depth by their use cases.   *)
(*                                                                         *)
(* A target is any address a call edge names.  The ones that are no        *)
(* function body (imports, thunks) cannot be asked for their callees.      *)
(* Names are left out.  A step takes one function off the queue or one     *)
(* callee off the current function's list.                                 *)
EXTENDS Integers, Sequences, FiniteSets

CONSTANTS
    Targets,     \* addresses
    Root,        \* the one the graph is asked for
    NoBody,      \* what the callees of something that is no function are
    Lists,       \* the lists of callees that occur
    Depths,      \* the depths callers ask for
    Ceilings,    \* the ceilings on the nodes
    MaxDepth     \* the use case's cap on the depth

ASSUME CallGraphAssumption ==
    /\ Root \in Targets
    /\ Lists \subseteq Seq(Targets)
    /\ NoBody \notin Lists
    /\ Depths \subseteq Int
    /\ Ceilings \subseteq Nat \ {0}
    /\ MaxDepth \in Nat

VARIABLES
    callees,     \* the program: what each target calls, in order
    depth,       \* the arguments of the request
    maxNodes,
    nodes,       \* the functions collected
    edges,       \* the calls recorded
    scheduled,   \* the functions ever queued
    queue,       \* those waiting, with their level
    current,     \* the function being expanded, with its level
    rest,        \* its callees that have not been looked at
    truncated,
    status       \* "walking", "done" or "raised"

request == <<callees, depth, maxNodes>>

vars == <<request, nodes, edges, scheduled, queue, current, rest, truncated, status>>

HasBody(f) == callees[f] # NoBody

Elems(s) == {s[k] : k \in DOMAIN s}

(* The use case's clamp.                                                   *)
Layers == IF depth < 0 THEN 0
          ELSE IF depth > MaxDepth THEN MaxDepth ELSE depth

TypeOK ==
    /\ callees \in [Targets -> Lists \cup {NoBody}]
    /\ depth \in Depths
    /\ maxNodes \in Ceilings
    /\ nodes \in SUBSET Targets
    /\ edges \in SUBSET (Targets \X Targets)
    /\ scheduled \in SUBSET Targets
    /\ queue \in Seq(Targets \X Nat)
    /\ current \in Targets \X Nat
    /\ rest \in Seq(Targets)
    /\ truncated \in BOOLEAN
    /\ status \in {"walking", "done", "raised"}

Init ==
    /\ callees \in [Targets -> Lists \cup {NoBody}]
    /\ depth \in Depths
    /\ maxNodes \in Ceilings
    /\ nodes = {Root}
    /\ edges = {}
    /\ scheduled = {Root}
    /\ queue = <<<<Root, 0>>>>
    /\ current = <<Root, 0>>
    /\ rest = <<>>
    /\ truncated = FALSE
    /\ status = "walking"

Popping == status = "walking" /\ rest = <<>> /\ queue # <<>>

Front == Head(queue)[1]

Level == Head(queue)[2]

(* Faulty: one layer more than asked for.                                  *)
MutAtBound == Level > Layers

AtBound == Level >= Layers

(* A root that cannot be walked is an error, ...                           *)
RootFails ==
    /\ Popping
    /\ ~ HasBody(Front)
    /\ Front = Root
    /\ status' = "raised"
    /\ UNCHANGED <<request, nodes, edges, scheduled, queue, current, rest, truncated>>

(* ... anything else without a body is a leaf.                             *)
Leaf ==
    /\ Popping
    /\ ~ HasBody(Front)
    /\ Front # Root
    /\ queue' = Tail(queue)
    /\ UNCHANGED <<request, nodes, edges, scheduled, current, rest, truncated, status>>

(* Faulty: a function at the last level passes for a leaf.                 *)
MutFrontier ==
    /\ Popping
    /\ HasBody(Front)
    /\ AtBound
    /\ queue' = Tail(queue)
    /\ UNCHANGED <<request, nodes, edges, scheduled, current, rest, truncated, status>>

Frontier ==
    /\ Popping
    /\ HasBody(Front)
    /\ AtBound
    /\ queue' = Tail(queue)
    /\ truncated' = (truncated \/ callees[Front] # <<>>)
    /\ UNCHANGED <<request, nodes, edges, scheduled, current, rest, status>>

Expand ==
    /\ Popping
    /\ HasBody(Front)
    /\ ~ AtBound
    /\ queue' = Tail(queue)
    /\ current' = Head(queue)
    /\ rest' = callees[Front]
    /\ UNCHANGED <<request, nodes, edges, scheduled, truncated, status>>

(* Faulty: the ceiling is off by one.                                      *)
MutOverCeiling(t) == t \notin nodes /\ Cardinality(nodes) > maxNodes

OverCeiling(t) == t \notin nodes /\ Cardinality(nodes) >= maxNodes

(* A callee past the ceiling goes, and the edge into it.                   *)
DropCallee ==
    /\ status = "walking"
    /\ rest # <<>>
    /\ OverCeiling(Head(rest))
    /\ truncated' = TRUE
    /\ rest' = Tail(rest)
    /\ UNCHANGED <<request, nodes, edges, scheduled, queue, current, status>>

TakeCallee ==
    /\ status = "walking"
    /\ rest # <<>>
    /\ ~ OverCeiling(Head(rest))
    /\ nodes' = nodes \cup {Head(rest)}
    /\ edges' = edges \cup {<<current[1], Head(rest)>>}
    /\ scheduled' = scheduled \cup {Head(rest)}
    /\ queue' = IF Head(rest) \in scheduled THEN queue
                ELSE Append(queue, <<Head(rest), current[2] + 1>>)
    /\ rest' = Tail(rest)
    /\ UNCHANGED <<request, current, truncated, status>>

Finish ==
    /\ status = "walking"
    /\ rest = <<>>
    /\ queue = <<>>
    /\ status' = "done"
    /\ UNCHANGED <<request, nodes, edges, scheduled, queue, current, rest, truncated>>

Next == RootFails \/ Leaf \/ Frontier \/ Expand \/ DropCallee \/ TakeCallee \/ Finish

Spec == Init /\ [][Next]_vars

-----------------------------------------------------------------------------
(* ComponentService.assemble over a finished graph.                        *)

Members == {f \in nodes : f = Root \/ HasBody(f)}

(* _safe_callees: what cannot be asked has none.                           *)
SafeCallees(f) == IF HasBody(f) THEN callees[f] ELSE <<>>

InternalCalls(f) == {k \in DOMAIN SafeCallees(f) : SafeCallees(f)[k] \in Members}

ExternalCalls(f) == DOMAIN SafeCallees(f) \ InternalCalls(f)

-----------------------------------------------------------------------------
(* Properties.                                                             *)

Calls == {e \in nodes \X Targets : HasBody(e[1]) /\ e[2] \in Elems(callees[e[1]])}

(* The truncated flag is exact: it is set if and only if some call of a    *)
(* collected function is missing from the edges (call_graph.py:46-47).     *)
TruncatedIffPartial == status = "done" => (truncated <=> edges # Calls)

(* The graph is consistent at every moment: its edges are calls between    *)
(* its nodes, and the nodes are no more than the ceiling allows.           *)
Consistent ==
    /\ edges \subseteq Calls \cap (nodes \X nodes)
    /\ Cardinality(nodes) <= maxNodes

(* The ways of n steps from the root, each of them a call or a pause, and  *)
(* what can be reached in n calls at most.                                 *)
Ways(n) == {w \in [0 .. n -> Targets] :
    /\ w[0] = Root
    /\ \A i \in 1 .. n : w[i] = w[i - 1] \/ w[i] \in Elems(SafeCallees(w[i - 1]))}

Within(n) == {w[n] : w \in Ways(n)}

(* As long as the ceiling is out of reach the nodes are the functions at   *)
(* most depth calls away, by the shortest way, however the cycles and      *)
(* shared callees lie; and the edges are the calls of those nearer.        *)
ShortestWay ==
    status = "done" /\ Cardinality(Within(Layers)) <= maxNodes =>
        /\ nodes = Within(Layers)
        /\ edges = {e \in Calls : Layers > 0 /\ e[1] \in Within(Layers - 1)}

(* In a component that is not truncated every external call leaves the     *)
(* program's own functions: its target is an import or a thunk.            *)
ExternalMeansOutside == status = "done" /\ ~ truncated =>
    \A f \in Members : \A k \in ExternalCalls(f) : ~ HasBody(SafeCallees(f)[k])

(* The graph is the whole graph as far as its bounds go, and a component   *)
(* that is not truncated only leaves out what is no function.              *)
GraphIsWhole == ShortestWay /\ ExternalMeansOutside
=============================================================================

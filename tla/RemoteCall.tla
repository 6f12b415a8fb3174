---------------------------- MODULE RemoteCall ----------------------------
(* What a forwarded call promises its caller, with no sessions, tokens or  *)
(* restarts in it: it runs at most once; an answer means that it ran; a    *)
(* refusal means that it did not and never will; after a transport failure *)
(* the caller does not know, and the call may even run later.              *)
(* WorkerClient implements it.                                             *)
EXTENDS Naturals

CONSTANT Calls

VARIABLES
    phase,   \* what the caller knows of a call
    runs     \* how often the worker ran it

Phases == {"idle", "open", "answered", "refused", "unknown"}

TypeOK ==
    /\ phase \in [Calls -> Phases]
    /\ runs \in [Calls -> Nat]

Init ==
    /\ phase = [c \in Calls |-> "idle"]
    /\ runs = [c \in Calls |-> 0]

Call(c) ==
    /\ phase[c] = "idle"
    /\ phase' = [phase EXCEPT ![c] = "open"]
    /\ UNCHANGED runs

Run(c) ==
    /\ phase[c] \in {"open", "unknown"}
    /\ runs[c] = 0
    /\ runs' = [runs EXCEPT ![c] = 1]
    /\ UNCHANGED phase

Answer(c) ==
    /\ phase[c] = "open"
    /\ runs[c] = 1
    /\ phase' = [phase EXCEPT ![c] = "answered"]
    /\ UNCHANGED runs

Refuse(c) ==
    /\ phase[c] = "open"
    /\ runs[c] = 0
    /\ phase' = [phase EXCEPT ![c] = "refused"]
    /\ UNCHANGED runs

GiveUp(c) ==
    /\ phase[c] = "open"
    /\ phase' = [phase EXCEPT ![c] = "unknown"]
    /\ UNCHANGED runs

Next == \E c \in Calls : Call(c) \/ Run(c) \/ Answer(c) \/ Refuse(c) \/ GiveUp(c)

Spec == Init /\ [][Next]_<<phase, runs>>
===========================================================================

------------------------------- MODULE MCHost -------------------------------
(* What processes on one host share through the file system, for TLC: the  *)
(* registry of IDA windows and the scratch root of the supervisors.  The   *)
(* two have no state in common, so a behaviour is of one or the other, and *)
(* the model values of Instances stand for the processes of either.        *)
EXTENDS Discovery, TLC

CONSTANTS Guis, Ids

VARIABLES part, supStage, supPid, gui, dir, held, sweep, used, doomed, stuck

S == INSTANCE Supervisors WITH
        Sups <- Instances, stage <- supStage, pid <- supPid

(* No directory is not a directory, and has no name.                       *)
ASSUME HostAssumption == Nothing \notin Ids \cup S!Directory

supVars == <<supStage, supPid, gui, dir, held, sweep, used, doomed, stuck>>

MCInit ==
    /\ Init
    /\ S!Init
    /\ part \in {"registry", "scratch"}
    /\ part = "scratch" => file = [p \in Ports |-> Nothing]

MCNext ==
    /\ UNCHANGED part
    /\ \/ part = "registry" /\ Next /\ UNCHANGED supVars
       \/ part = "scratch" /\ S!Next /\ UNCHANGED vars

MCSpec == MCInit /\ [][MCNext]_<<part, vars, supVars>>

(* A copy stays while its worker uses it.                                  *)
CopyStays == S!TypeOK /\ S!CopyStays

(* A sweep leaves nothing behind that it could have removed.               *)
SweepIsThorough == S!SweepIsThorough

(* What a read of the registry returns is what was there: all of it, and   *)
(* no one who had died.                                                    *)
ReadIsTrue == TypeOK /\ ReadIsComplete /\ NoGhosts

(* A record or a directory in use is removed on an out-of-date verdict     *)
(* only, or by somebody who uses it too.                                   *)
OnlyStaleVerdictsRemove ==
    [][EvictedForAReason /\ S!SweptForAReason]_<<vars, supVars>>

Symmetry == Permutations(Instances) \cup Permutations(Pids)
=============================================================================

-------------------------- MODULE MCWorkerProcess --------------------------
(* Instances of WorkerProcess for TLC.                                     *)
EXTENDS WorkerProcess, TLC

CONSTANTS r1, r2, agent, merge, one

(* Two clients that count their ids from one.                              *)
MCClientOf == (r1 :> agent) @@ (r2 :> merge)
MCIdOf == (r1 :> one) @@ (r2 :> one)
===========================================================================

--------------------------- MODULE MCWorkerPool ---------------------------
(* Small instances of WorkerPool for TLC.                                  *)
EXTENDS WorkerPool, TLC

(* Opens, closers and ids are interchangeable in the safety runs.          *)
Symmetry ==
    Permutations(Opens) \cup Permutations(Closers) \cup Permutations(Ids)
=============================================================================

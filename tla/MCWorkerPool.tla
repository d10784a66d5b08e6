---------------------------- MODULE MCWorkerPool ----------------------------
(* WorkerPool on a small pool, for TLC. *)
EXTENDS WorkerPool, TLC

\* Goroutine ids are interchangeable (safety runs only).
Symmetry == Permutations(Goroutine)

=============================================================================

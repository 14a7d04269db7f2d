---------------------------- MODULE MCWorkerPool ----------------------------
(***************************************************************************)
(* WorkerPool on a small pool.  Its liveness is checked, so that the        *)
(* symmetry of the workers is not used.                                    *)
(***************************************************************************)
EXTENDS WorkerPool

CONSTANTS w1, w2, w3, w4

ThreeWorkers == {w1, w2, w3}
FourWorkers == {w1, w2, w3, w4}

TwoReactions == {1, 2}

=============================================================================

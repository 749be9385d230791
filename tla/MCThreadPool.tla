---------------------------- MODULE MCThreadPool ----------------------------
(* ThreadPool with model values for its threads.  No symmetry, since the   *)
(* run checks liveness.                                                    *)
EXTENDS ThreadPool

CONSTANTS w1, w2, w3, c1, c2

ThreeWorkers == {w1, w2, w3}
TwoCallers   == {c1, c2}
=============================================================================

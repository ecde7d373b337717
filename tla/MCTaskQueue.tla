---------------------------- MODULE MCTaskQueue ----------------------------
(***************************************************************************)
(* TaskQueue on a small instance: the workers are interchangeable.         *)
(***************************************************************************)
EXTENDS TaskQueueInv, TLC

CONSTANTS w1, w2, w3

ThreeWorkers == {w1, w2, w3}
TwoWorkers == {w1, w2}
Symmetric == Permutations(Workers)
=============================================================================

----------------------------- MODULE MCKTPTable -----------------------------
(***************************************************************************)
(* KTPTable on a small instance.  The user processes are interchangeable.  *)
(***************************************************************************)
EXTENDS KTPTableInv, TLC

CONSTANTS p1, p2, p3

ThreeProcs == {p1, p2, p3}
TwoProcs == {p1, p2}
Two == {0, 1}
Symmetric == Permutations(Procs)
=============================================================================

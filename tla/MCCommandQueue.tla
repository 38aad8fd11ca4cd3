--------------------------- MODULE MCCommandQueue ---------------------------
(***************************************************************************)
(* CommandQueue for TLC.  The push coroutines are interchangeable.         *)
(***************************************************************************)
EXTENDS CommandQueue, TLC

PushSymmetry == Permutations(Push)

=============================================================================

--------------------------- MODULE MCQueueWorkers ---------------------------
(***************************************************************************)
(* QueueWorkers for TLC: one thread in each of two workers.                *)
(***************************************************************************)
EXTENDS QueueWorkers, TLC

CONSTANTS t1, t2, w1, w2

OneEach == t1 :> w1 @@ t2 :> w2

=============================================================================

----------------------------- MODULE MCWriteQueue -----------------------------
(***************************************************************************)
(* The TLC instance of WriteQueue: a pool that fits the queue and one file *)
(* more than the queue holds, so that backpressure happens.                *)
(***************************************************************************)
EXTENDS WriteQueue

\* A finished run has nothing left to do: it stutters rather than deadlocks.
Terminated == main = "finished" /\ UNCHANGED queueVars

MCNext == QueueNext \/ Terminated

MCSpec == QueueInit /\ [][MCNext]_queueVars /\ Fairness
=============================================================================

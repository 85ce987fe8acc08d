------------------------------- MODULE MCSyncRun -------------------------------
(***************************************************************************)
(* The TLC instance of SyncRun: every direction and flag, two files, and   *)
(* two temporary files of other runs, one of them below a link.            *)
(***************************************************************************)
EXTENDS SyncRun, TLC

\* No links, or one that makes all files of a local destination the same.
MCDistinct == [n \in Names |-> {n}]
MCLinked   == [n \in Names |-> IF n \in Paths THEN Paths ELSE {n}]

\* With no links the files are interchangeable.
MCSymmetric == Permutations(Paths)

\* A run that has returned has nothing left to do.
Terminated == phase = "returned" /\ UNCHANGED vars

MCSpec == Init /\ [][Next \/ Terminated]_vars
=============================================================================

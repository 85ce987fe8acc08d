------------------------------- MODULE MCRmTask -------------------------------
(***************************************************************************)
(* The TLC instance of RmTask: every kind of name and every flag, a batch  *)
(* of two and one of one, one retry, two threads.                          *)
(***************************************************************************)
EXTENDS RmTask

\* A run that has returned has nothing left to do.
Terminated == phase = "finished" /\ UNCHANGED vars

MCSpec == Init /\ [][Next \/ Terminated]_vars /\ Fairness
=============================================================================

--------------------------- MODULE MCTransferWindow ---------------------------
(***************************************************************************)
(* The TLC instance of TransferWindow: three threads, a window that starts *)
(* at two, widens after two successes in a row and is halved to two.       *)
(***************************************************************************)
EXTENDS TransferWindow

\* A joined phase has nothing left to do: it stutters rather than deadlocks.
Terminated == submit = "joined" /\ UNCHANGED vars

MCSpec == Init /\ [][Next \/ Terminated]_vars /\ Fairness
=============================================================================

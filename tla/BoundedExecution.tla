--------------------------- MODULE BoundedExecution ---------------------------
(***************************************************************************)
(* What the transfer phase of run_sync promises: each planned file is      *)
(* processed at most once, at most Limit of them at the same time; it is   *)
(* counted once, as transferred or as failed, and goes uncounted only in a *)
(* cancelled run; and the phase ends when nothing is being processed and   *)
(* either every file has been or the run was cancelled.                    *)
(***************************************************************************)
EXTENDS Integers, FiniteSets

CONSTANTS Files, Limit

VARIABLES state, stopped, ended

absVars == <<state, stopped, ended>>

InState(s) == {f \in Files : state[f] = s}

AbsInit ==
    /\ state = [f \in Files |-> "planned"]
    /\ stopped = FALSE /\ ended = FALSE

Begin(f) ==
    /\ ~ended /\ state[f] = "planned"
    /\ Cardinality(InState("active")) < Limit
    /\ state' = [state EXCEPT ![f] = "active"]
    /\ UNCHANGED <<stopped, ended>>

Complete(f) ==
    /\ ~ended /\ state[f] = "active"
    /\ \E r \in {"ok", "failed"} \cup (IF stopped THEN {"uncounted"} ELSE {}) :
          state' = [state EXCEPT ![f] = r]
    /\ UNCHANGED <<stopped, ended>>

Stop ==
    /\ ~stopped
    /\ stopped' = TRUE
    /\ UNCHANGED <<state, ended>>

End ==
    /\ ~ended
    /\ InState("active") = {}
    /\ stopped \/ InState("planned") = {}
    /\ ended' = TRUE
    /\ UNCHANGED <<state, stopped>>

AbsNext == (\E f \in Files : Begin(f) \/ Complete(f)) \/ Stop \/ End

AbsSpec == AbsInit /\ [][AbsNext]_absVars
=============================================================================

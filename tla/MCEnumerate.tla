------------------------------ MODULE MCEnumerate ------------------------------
(***************************************************************************)
(* The TLC instance of Enumerate: two directories whose links lead to the  *)
(* same target, a file on each of three levels, two workers.               *)
(***************************************************************************)
EXTENDS Enumerate

MCDirs   == {"top", "a", "b", "a/link", "b/link", "b/sub"}
MCFiles  == {"f", "b/f", "a/link/f", "b/link/f"}
MCLinks  == {"a/link", "b/link"}
MCParent == [e \in MCFiles \cup MCDirs |->
                CASE e \in {"b/f", "b/link", "b/sub"} -> "b"
                  [] e = "a/link" -> "a"
                  [] e = "a/link/f" -> "a/link"
                  [] e = "b/link/f" -> "b/link"
                  [] OTHER -> "top"]
MCTarget == [d \in MCDirs |-> IF d \in MCLinks THEN "shared" ELSE d]

\* A listing that has returned has nothing left to do.
Terminated == main = "returned" /\ task \in [Dirs -> {"none", "done"}] /\ UNCHANGED vars

MCSpec == Init /\ [][Next \/ Terminated]_vars /\ Fairness
=============================================================================

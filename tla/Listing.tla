-------------------------------- MODULE Listing --------------------------------
(***************************************************************************)
(* What a listing promises to those who act on it (run_sync, run_rm,       *)
(* run_directory_comparison): the entries, whether every directory or page *)
(* could be read (out_complete), and whether a symbolic link was not       *)
(* followed because its target had been (out_alias_omitted).               *)
(***************************************************************************)

\* The outcomes of listing a tree with the files all.  A listing that was
\* cancelled promises nothing, not even that it says so.
Outcomes(all, cancelled) ==
    {o \in [entries : SUBSET all, complete : BOOLEAN, alias : BOOLEAN] :
        cancelled \/ (o.complete /\ ~o.alias => o.entries = all)}
=============================================================================

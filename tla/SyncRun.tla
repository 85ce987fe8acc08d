-------------------------------- MODULE SyncRun --------------------------------
(***************************************************************************)
(* A run of mito sync as a whole (sync_task.cpp, run_sync): sweep the      *)
(* temporary files, list both sides, refuse a source listing that is not   *)
(* exact, sweep again, and carry out the plan (classify_files and its      *)
(* variants), with deletions when asked to.                                *)
(*                                                                         *)
(* A listing returns what Listing promises (Enumerate shows that it does). *)
(* How the plan is scheduled is the subject of TransferWindow, what a      *)
(* transfer does to a file that of DownloadFile.  Here a transfer makes    *)
(* the file exist at the destination, or fails.                            *)
(*                                                                         *)
(* Another sync may be writing to a local side at the same time: it        *)
(* creates a temporary file, renames it, or dies and leaves it.            *)
(***************************************************************************)
EXTENDS Integers, FiniteSets, Listing

CONSTANTS
    Paths,     \* the names of files
    Temps,     \* the names of temporary files: each is created at most once
    Unreached, \* those a sweep does not reach although they are listed
    SameFile   \* the names that links in a local destination give the file of a name

ASSUME SyncAssumption ==
    /\ IsFiniteSet(Paths) /\ IsFiniteSet(Temps) /\ Paths \cap Temps = {}
    /\ Unreached \subseteq Temps
    /\ SameFile \in [Paths \cup Temps -> SUBSET (Paths \cup Temps)]
    /\ \A n \in Paths \cup Temps : n \in SameFile[n]

VARIABLES
    config,       \* direction, delete_orphans, dry_run
    source,       \* the files at the source
    dest,         \* the files at the destination
    original,     \* ghost: dest at the start
    up_to_date,   \* the files of equal size and strictly newer at the destination
    temp,         \* the temporary files of other runs
    phase,
    unlisted,     \* the sides not yet listed
    listed,       \* what the listings returned
    plan,         \* the SyncAction of each listed name not yet carried out
    failed,       \* files_failed
    cancelled, success

listVars == <<unlisted, listed>>
treeVars == <<source, dest, original, up_to_date>>
vars == <<config, treeVars, temp, phase, listVars, plan, failed, cancelled, success>>

Names      == Paths \cup Temps
Sides      == {"source", "dest"}
Directions == {"Upload", "Download", "S3ToS3", "LocalToLocal"}
Actions    == {"None", "Transfer", "Delete"}
Phases     == {"sweep", "list", "decide", "resweep", "execute", "returned"}
NotListed  == [entries |-> {}, complete |-> FALSE, alias |-> FALSE]

\* A temporary file belongs to a process that lives or is left by one that died.
\* Lost: this run removed the file of a live process.
TempStates == {"unborn", "live", "orphan", "gone", "lost"}

\* The roots that sweep_local_sync_temps looks at.
LocalSides == CASE config.direction = "Upload"       -> {"source"}
                [] config.direction = "Download"     -> {"dest"}
                [] config.direction = "LocalToLocal" -> Sides
                [] OTHER                             -> {}

\* What becomes of the file n at the destination becomes of all its names.
NamesAtDest(n) == IF "dest" \in LocalSides THEN SameFile[n] ELSE {n}

TempsAt(side, states) ==
    {t \in Temps : temp[t].side = side /\ temp[t].state \in states}

\* What there is to list on a side.
Tree(side) ==
    (IF side = "source" THEN source ELSE dest) \cup TempsAt(side, {"live", "orphan"})

Init ==
    /\ config \in [direction : Directions, delete_orphans : BOOLEAN, dry_run : BOOLEAN]
    /\ source \in SUBSET Paths /\ dest \in SUBSET Paths /\ original = dest
    /\ \A p \in dest : NamesAtDest(p) \subseteq dest
    /\ up_to_date \in SUBSET (source \cap dest)
    /\ temp \in [Temps -> [side : Sides, state : {"unborn"} \cup {"orphan"}]]
    /\ \A t \in Temps : temp[t].state = "orphan" => temp[t].side \in LocalSides
    /\ phase = "sweep"
    /\ unlisted = Sides /\ listed = [s \in Sides |-> NotListed]
    /\ plan = [n \in Names |-> "None"]
    /\ failed = 0 /\ cancelled = FALSE /\ success = FALSE

Refuse ==
    /\ phase' = "returned" /\ success' = FALSE
    /\ UNCHANGED <<config, treeVars, listVars, plan, failed, cancelled>>

GoTo(p) ==
    /\ phase' = p
    /\ UNCHANGED <<config, treeVars, listVars, plan, failed, cancelled, success>>

-----------------------------------------------------------------------------
(* The sweeps (sweep_local_sync_temps).                                    *)

\* The iterator does not follow links to directories, which a listing does, and
\* one whose increment fails is at its end, before the error is looked at.
SweptTemps(states) == UNION {TempsAt(s, states) \ Unreached : s \in LocalSides}

Removed(ts) == [t \in Temps |-> IF t \in ts THEN [temp[t] EXCEPT !.state = "gone"] ELSE temp[t]]

\* TempSweepMode::RemoveOrphans, or RefuseOrphans for a dry run.  A sweep that
\* ends early may have removed some of the orphans.
Sweep ==
    /\ phase = "sweep"
    /\ \/ /\ SweptTemps({"live"}) = {}
          /\ config.dry_run => SweptTemps({"orphan"}) = {}
          /\ temp' = Removed(SweptTemps({"orphan"}))
          /\ GoTo("list")
       \/ \E ts \in SUBSET SweptTemps({"orphan"}) :
             /\ config.dry_run => ts = {}
             /\ temp' = Removed(ts)
             /\ Refuse

\* Mutation of Resweep: one sweep is enough.
ResweepSkipped == phase = "resweep" /\ GoTo("execute") /\ UNCHANGED temp

\* After the listings, TempSweepMode::RefuseOrphans: a temporary file that has
\* appeared may be in the plan.
Resweep ==
    /\ phase = "resweep"
    /\ UNCHANGED temp
    /\ \/ SweptTemps({"live", "orphan"}) = {} /\ GoTo("execute")
       \/ Refuse

-----------------------------------------------------------------------------
(* Listing and classification.                                             *)

\* Both sides at once, or the source first.  Only a local walk omits aliases.
List(side) ==
    /\ phase = "list" /\ side \in unlisted
    /\ side = "dest" =>
          \/ "source" \notin unlisted
          \/ config.direction \in {"S3ToS3", "LocalToLocal"}
    /\ \E o \in Outcomes(Tree(side), cancelled) :
          /\ o.alias => side \in LocalSides
          /\ listed' = [listed EXCEPT ![side] = o]
    /\ unlisted' = unlisted \ {side}
    /\ phase' = IF unlisted' = {} THEN "decide" ELSE "list"
    /\ UNCHANGED <<config, treeVars, temp, plan, failed, cancelled, success>>

\* Mutation of enumeration_ok: an omitted alias does not matter.
enumeration_ok_complete == listed["source"].complete

\* Only the source gates the run: what is missing there looks like an orphan.
enumeration_ok == listed["source"].complete /\ ~listed["source"].alias

\* classify_files, classify_files_download, _s3_to_s3 and _local_to_local.
Classify ==
    [n \in Names |->
        IF n \in listed["source"].entries
        THEN IF n \in listed["dest"].entries \cap up_to_date THEN "None" ELSE "Transfer"
        ELSE IF n \in listed["dest"].entries /\ config.delete_orphans THEN "Delete"
        ELSE "None"]

Decide ==
    /\ phase = "decide"
    /\ UNCHANGED temp
    /\ IF cancelled \/ ~enumeration_ok
       THEN Refuse
       ELSE /\ phase' = "resweep"
            /\ plan' = Classify
            /\ UNCHANGED <<config, treeVars, listVars, failed, cancelled, success>>

-----------------------------------------------------------------------------
(* Execution: each action once, any number at a time.                      *)

Done(n) == plan' = [plan EXCEPT ![n] = "None"]

\* process_file counts a failure unless the run is cancelled.
CountFailure == failed' = IF cancelled THEN failed ELSE failed + 1

Transfer(n) ==
    /\ phase = "execute" /\ ~config.dry_run /\ plan[n] = "Transfer"
    /\ n \in Tree("source")
    /\ dest' = dest \cup NamesAtDest(n)
    /\ Done(n)
    /\ UNCHANGED <<config, source, original, up_to_date, temp, phase, listVars, failed,
                   cancelled, success>>

\* A request that failed may have been applied.
TransferFails(n) ==
    /\ phase = "execute" /\ ~config.dry_run /\ plan[n] = "Transfer"
    /\ \/ UNCHANGED dest
       \/ n \in Tree("source") /\ dest' = dest \cup NamesAtDest(n)
    /\ CountFailure
    /\ Done(n)
    /\ UNCHANGED <<config, source, original, up_to_date, temp, phase, listVars, cancelled,
                   success>>

\* The file n of the destination, or the temporary file of that name, is removed,
\* by a path that leads through links to directories.
Remove(n) ==
    /\ dest' = dest \ NamesAtDest(n)
    /\ temp' = [t \in Temps |->
                  IF t = n /\ t \in TempsAt("dest", {"live"})
                  THEN [temp[t] EXCEPT !.state = "lost"] ELSE temp[t]]

\* delete_s3_object succeeds for a key that is not there, delete_local_file does not.
DeleteOrphan(n) ==
    /\ phase = "execute" /\ ~config.dry_run /\ plan[n] = "Delete"
    /\ n \in Tree("dest") \/ "dest" \notin LocalSides
    /\ Remove(n)
    /\ Done(n)
    /\ UNCHANGED <<config, source, original, up_to_date, phase, listVars, failed, cancelled,
                   success>>

DeleteFails(n) ==
    /\ phase = "execute" /\ ~config.dry_run /\ plan[n] = "Delete"
    /\ \/ UNCHANGED <<dest, temp>>
       \/ "dest" \notin LocalSides /\ Remove(n)
    /\ CountFailure
    /\ Done(n)
    /\ UNCHANGED <<config, source, original, up_to_date, phase, listVars, cancelled, success>>

\* Mutation of Return: a cancelled run is judged by its failures.
ReturnByFailures ==
    /\ phase = "execute"
    /\ config.dry_run \/ cancelled \/ \A n \in Names : plan[n] = "None"
    /\ phase' = "returned"
    /\ success' = (failed = 0)
    /\ UNCHANGED <<config, treeVars, temp, listVars, plan, failed, cancelled>>

\* A cancelled run posts no more and drains; a dry run stops at the plan.
Return ==
    /\ phase = "execute"
    /\ config.dry_run \/ cancelled \/ \A n \in Names : plan[n] = "None"
    /\ phase' = "returned"
    /\ success' = (~cancelled /\ failed = 0)
    /\ UNCHANGED <<config, treeVars, temp, listVars, plan, failed, cancelled>>

-----------------------------------------------------------------------------
(* The others.                                                             *)

Cancel ==
    /\ ~cancelled /\ phase # "returned"
    /\ cancelled' = TRUE
    /\ UNCHANGED <<config, treeVars, temp, phase, listVars, plan, failed, success>>

\* AtomicFileWriter in another process: create, commit or discard, or die.
OtherRun(t) ==
    /\ phase # "returned"
    /\ \E from \in {"unborn", "live"}, to \in {"live", "gone", "orphan"} :
          /\ temp[t].state = from /\ temp[t].side \in LocalSides
          /\ (from = "unborn") = (to = "live")
          /\ temp' = [temp EXCEPT ![t].state = to]
    /\ UNCHANGED <<config, treeVars, phase, listVars, plan, failed, cancelled, success>>

Execute == \E n \in Names :
    Transfer(n) \/ TransferFails(n) \/ DeleteOrphan(n) \/ DeleteFails(n)

Next ==
    \/ Sweep \/ (\E s \in Sides : List(s)) \/ Decide \/ Resweep
    \/ Execute \/ Return \/ Cancel
    \/ \E t \in Temps : OtherRun(t)

Spec == Init /\ [][Next]_vars

-----------------------------------------------------------------------------

\* The type invariant.  At most one failure is counted for a name.
TypeOK ==
    /\ config \in [direction : Directions, delete_orphans : BOOLEAN, dry_run : BOOLEAN]
    /\ source \subseteq Paths /\ original \subseteq Paths /\ dest \subseteq Names
    /\ up_to_date \subseteq Paths
    /\ temp \in [Temps -> [side : Sides, state : TempStates]]
    /\ phase \in Phases
    /\ unlisted \subseteq Sides
    /\ listed \in [Sides -> [entries : SUBSET Names, complete : BOOLEAN, alias : BOOLEAN]]
    /\ plan \in [Names -> Actions]
    /\ failed \in 0..Cardinality(Names)
    /\ cancelled \in BOOLEAN /\ success \in BOOLEAN

(***************************************************************************)
(* Whatever the listings leave out, a file that is lost at the destination *)
(* is an orphan of the source, and was to be deleted: --delete without     *)
(* --dry-run.                                                              *)
(***************************************************************************)
OnlyOrphansDeleted ==
    \A p \in original \ dest : p \notin source /\ config.delete_orphans /\ ~config.dry_run

(***************************************************************************)
(* A run that reports success has transferred every file of the source,    *)
(* however little of the destination was listed; with --delete, it has     *)
(* removed every orphan that was listed; and the destination is a mirror   *)
(* if its listing was exact.  Success does not say that it was: the code   *)
(* refuses to run only when the source is not listed in full, while        *)
(* sync.md:100 and the comment at sync_task.cpp:2348 say either side.      *)
(* Temporary files the sweep did not reach are no orphans.                 *)
(***************************************************************************)
SuccessMeansMirrored ==
    (phase = "returned" /\ success /\ ~config.dry_run) =>
        /\ source \subseteq dest
        /\ config.delete_orphans =>
              /\ (listed["dest"].entries \cap dest) \ Unreached \subseteq source
              /\ listed["dest"].complete /\ ~listed["dest"].alias =>
                    dest \ Unreached \subseteq source

(***************************************************************************)
(* The temporary file of another sync, created, renamed or abandoned at    *)
(* any time, is never transferred as if it were data, nor removed while    *)
(* its owner lives, be it as an orphan of a sweep or of the plan.  This is *)
(* so of the files a sweep reaches: one below a link is listed all the     *)
(* same, and nothing tells it from data.                                   *)
(***************************************************************************)
TempsRespected ==
    \A t \in Temps \ Unreached : t \notin dest /\ temp[t].state # "lost"
=============================================================================

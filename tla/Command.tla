-------------------------------- MODULE Command --------------------------------
(***************************************************************************)
(* The commands of mito as processes (main.cpp) that share one file, the   *)
(* metrics of the S3 calls ever made (cloud_metrics.cpp).  A command loads *)
(* the file, does its work while signals may arrive, saves the counters it *)
(* loaded plus its own calls, and exits with a code.  Nothing locks the    *)
(* file between load and save.  A process may be killed at any step, a     *)
(* write may fail, and hours may pass between two steps.                   *)
(*                                                                         *)
(* What the work itself does is the subject of the other modules: here it  *)
(* makes calls, and ends done, partly done, with an error, or cut short.   *)
(* A counter is kept as what each process contributed to it, so that two   *)
(* histories with the same total differ; each process has its own region.  *)
(***************************************************************************)
EXTENDS Integers, FiniteSets

CONSTANTS
    Procs,     \* the processes: each runs one command
    Past,      \* those that ran before, each a sync that made one call
    MaxCalls,  \* bound on the S3 calls of one process
    MaxFaults  \* bound on kills, failed writes and unreadable files, together

ASSUME CommandAssumption ==
    /\ IsFiniteSet(Procs) /\ Past \subseteq Procs
    /\ MaxCalls \in Nat \ {0}
    /\ MaxFaults \in Nat

VARIABLES
    cmd, pc,
    shutdown,   \* g_shutdown_requested and g_signal_received of a process
    cancelled,  \* progress.cancelled
    outcome,    \* how the work ended
    code,       \* the exit code
    mem,        \* metrics_ and regions_ of CloudMetrics::instance()
    file,       \* cloud_metrics.json
    temp,       \* the temporary file next to it of each name
    old,        \* the processes whose temporary file is over an hour old
    faults,
    calls,      \* ghost: the calls a process has made
    located,    \* ghost: the processes that recorded their region
    read,       \* ghost: the process loaded the file that was there
    saved,      \* ghost: the processes whose save went through
    before,     \* ghost: saved, when the process loaded
    owed        \* ghost: the runs the file has to count

saveVars  == <<file, temp, old, saved, owed>>
ghostVars == <<calls, located, read, before>>
vars == <<cmd, pc, shutdown, cancelled, outcome, code, mem, saveVars, faults, ghostVars>>

--------------------------------------------------------------------------------
(* Contents of the file and the state of a process                         *)

Commands == {"sync", "rm", "diff", "leftovers", "reset"}
Working  == {"region", "run"}
Saving   == {"sweep", "mkstemp", "write", "rename"}
Live     == {"load"} \cup Working \cup Saving
Outcomes == {"none", "noregion", "done", "partly", "error", "cut"}
Codes    == {0, 1, 2, 130}
NoCode   == -1

\* none: no such file.  part: created, or cut off while it was written.
Metrics(kind, counts, regions) == [kind |-> kind, calls |-> counts, regions |-> regions]
Zero == [p \in Procs |-> 0]
NoFile == Metrics("none", Zero, {})
Cleared == Metrics("whole", Zero, {})

\* The variables hold what the code can hold.
TypeOK ==
    LET Contents == [kind : {"none", "part", "whole"},
                     calls : [Procs -> 0 .. MaxCalls], regions : SUBSET Procs]
    IN  /\ cmd \in [Procs -> Commands \cup {"none"}]
        /\ pc \in [Procs -> {"start", "exited", "killed"} \cup Live]
        /\ shutdown \in [Procs -> BOOLEAN] /\ cancelled \in [Procs -> BOOLEAN]
        /\ outcome \in [Procs -> Outcomes]
        /\ code \in [Procs -> Codes \cup {NoCode}]
        /\ mem \in [Procs -> Contents] /\ temp \in [Procs -> Contents]
        /\ file \in Contents
        /\ old \subseteq Procs
        /\ faults \in 0 .. MaxFaults
        /\ calls \in [Procs -> 0 .. MaxCalls]
        /\ located \subseteq Procs
        /\ read \in [Procs -> BOOLEAN]
        /\ before \in [Procs -> SUBSET Procs]
        /\ saved \subseteq Procs /\ owed \subseteq Procs

\* The runs of the past have saved, one after the other; or the user has
\* deleted the file since, which resets the counters.
Init ==
    /\ cmd = [p \in Procs |-> IF p \in Past THEN "sync" ELSE "none"]
    /\ pc = [p \in Procs |-> IF p \in Past THEN "exited" ELSE "start"]
    /\ shutdown = [p \in Procs |-> FALSE] /\ cancelled = [p \in Procs |-> FALSE]
    /\ outcome = [p \in Procs |-> "none"]
    /\ code = [p \in Procs |-> IF p \in Past THEN 0 ELSE NoCode]
    /\ mem = [p \in Procs |-> Cleared]
    /\ calls = [p \in Procs |-> IF p \in Past THEN 1 ELSE 0]
    /\ located = Past
    /\ saved = Past
    /\ \/ file = Metrics("whole", calls, Past) /\ owed = Past
       \/ file = NoFile /\ owed = {}
    /\ temp = [p \in Procs |-> NoFile]
    /\ old = {}
    /\ faults = 0
    /\ read = [p \in Procs |-> FALSE]
    /\ before = [p \in Procs |-> {}]

Goto(p, next) == pc' = [pc EXCEPT ![p] = next]

\* The memory of a process goes with it.
Exit(p, c, how) ==
    /\ Goto(p, how)
    /\ code' = [code EXCEPT ![p] = c]
    /\ mem' = [mem EXCEPT ![p] = Cleared]
    /\ shutdown' = [shutdown EXCEPT ![p] = FALSE]
    /\ cancelled' = [cancelled EXCEPT ![p] = FALSE]
    /\ outcome' = [outcome EXCEPT ![p] = "none"]

Fault == faults < MaxFaults /\ faults' = faults + 1

--------------------------------------------------------------------------------
(* From the command line to the work                                       *)

\* A wrong command line, or a directory to download to that cannot be created:
\* nothing is attempted, not even load().
UsageError(p) ==
    /\ pc[p] = "start"
    /\ \E c \in {1, 2} : Exit(p, c, "exited")
    /\ UNCHANGED <<cmd, saveVars, faults, ghostVars>>

Start(p) ==
    /\ pc[p] = "start"
    /\ \E c \in Commands : cmd' = [cmd EXCEPT ![p] = c]
    /\ Goto(p, "load")
    /\ UNCHANGED <<shutdown, cancelled, outcome, code, mem, saveVars, faults, ghostVars>>

\* load() parses everything before it changes anything: a file that is missing,
\* unreadable or not whole leaves the counters at zero, and no command looks at
\* what load() returned.  stats --reset then clears what was loaded.
Load(p) ==
    /\ pc[p] = "load"
    /\ \E readable \in BOOLEAN :
          /\ IF readable THEN UNCHANGED faults ELSE Fault
          /\ mem' = [mem EXCEPT ![p] = IF readable /\ file.kind = "whole" /\ cmd[p] # "reset"
                                       THEN file ELSE Cleared]
          /\ read' = [read EXCEPT ![p] = readable]
    /\ before' = [before EXCEPT ![p] = saved]
    /\ Goto(p, IF cmd[p] = "reset" THEN "sweep" ELSE "region")
    /\ UNCHANGED <<cmd, shutdown, cancelled, outcome, code, saveVars, calls, located>>

\* Mutation of AddRegion: the region replaces those already recorded.
SetRegion(content, region) == [content EXCEPT !.regions = {region}]

\* CloudMetrics::addRegion
AddRegion(content, region) == [content EXCEPT !.regions = @ \cup {region}]

\* CloudMetrics::recordStart, for each request the SDK sends.
RecordStart(content, p) == [content EXCEPT !.calls[p] = @ + 1]

\* sync and leftovers record the region of the bucket, rm and diff do not.
RecordsRegion(p) == cmd[p] \in {"sync", "leftovers"}

\* The region is given, or detected with a call to GetBucketLocation.
KnowRegion(p) ==
    /\ pc[p] = "region"
    /\ \E asked \in BOOLEAN :
          LET counted == IF asked THEN RecordStart(mem[p], p) ELSE mem[p]
          IN  /\ mem' = [mem EXCEPT ![p] = IF RecordsRegion(p) THEN AddRegion(counted, p)
                                                               ELSE counted]
              /\ calls' = [calls EXCEPT ![p] = IF asked THEN 1 ELSE 0]
    /\ located' = IF RecordsRegion(p) THEN located \cup {p} ELSE located
    /\ Goto(p, "run")
    /\ UNCHANGED <<cmd, shutdown, cancelled, outcome, code, saveVars, faults, read, before>>

\* The region cannot be detected: rm calls that a wrong configuration, the others
\* a failure.  All save the call they made.
NoRegion(p) ==
    /\ pc[p] = "region"
    /\ mem' = [mem EXCEPT ![p] = RecordStart(@, p)]
    /\ calls' = [calls EXCEPT ![p] = 1]
    /\ outcome' = [outcome EXCEPT ![p] = "noregion"]
    /\ code' = [code EXCEPT ![p] = IF cmd[p] = "rm" THEN 2 ELSE 1]
    /\ Goto(p, "sweep")
    /\ UNCHANGED <<cmd, shutdown, cancelled, saveVars, faults, located, read, before>>

--------------------------------------------------------------------------------
(* The work, and signals                                                   *)

Request(p) ==
    /\ pc[p] = "run"
    /\ calls[p] < MaxCalls
    /\ calls' = [calls EXCEPT ![p] = @ + 1]
    /\ mem' = [mem EXCEPT ![p] = RecordStart(@, p)]
    /\ UNCHANGED <<cmd, pc, shutdown, cancelled, outcome, code, saveVars, faults, located, read, before>>

\* The progress loop sees the request to shut down while the work is running.
\* run_comparison of two files is given no such flag.
Poll(p) ==
    /\ pc[p] = "run" /\ cmd[p] # "leftovers"
    /\ shutdown[p] /\ ~cancelled[p]
    /\ cancelled' = [cancelled EXCEPT ![p] = TRUE]
    /\ UNCHANGED <<cmd, pc, shutdown, outcome, code, mem, saveVars, faults, ghostVars>>

\* What can stop the work early: progress.cancelled, and for the chunk checksums
\* of diff the request to shut down itself.
MayCut(p) == cancelled[p] \/ (cmd[p] = "diff" /\ shutdown[p])

\* Mutation of ExitCode: a run judged by its failed files alone, of which one cut
\* short may have none.
ExitCodeByFailures(p, how) ==
    CASE how = "error"  -> IF cmd[p] = "rm" THEN 2 ELSE 1
      [] how = "partly" -> 1
      [] OTHER          -> 0

\* The code each command returns for how its work ended.
ExitCode(p, how) ==
    CASE cmd[p] = "rm"        -> IF cancelled[p] THEN 130
                                 ELSE IF how = "error" THEN 2
                                 ELSE IF how = "partly" THEN 1 ELSE 0
      [] cmd[p] = "diff"      -> IF shutdown[p] THEN 130
                                 ELSE IF how = "done" THEN 0 ELSE 1
      [] cmd[p] = "sync"      -> IF how = "done" THEN 0 ELSE 1
      [] cmd[p] = "leftovers" -> IF how = "done" THEN 0 ELSE 1

\* The future is ready: the flags are read, and the metrics saved on every path.
Finish(p) ==
    /\ pc[p] = "run"
    /\ \E how \in {"done", "partly", "error", "cut"} :
          /\ how = "cut" => MayCut(p)
          /\ outcome' = [outcome EXCEPT ![p] = how]
          /\ code' = [code EXCEPT ![p] = ExitCode(p, how)]
    /\ Goto(p, "sweep")
    /\ UNCHANGED <<cmd, shutdown, cancelled, mem, saveVars, faults, ghostVars>>

\* sync and diff register the handler after load(), rm once it knows the region,
\* leftovers and stats never.
Handled(p) ==
    \/ cmd[p] \in {"sync", "diff"} /\ pc[p] # "load"
    \/ cmd[p] = "rm" /\ pc[p] \notin {"load", "region"}

\* Once the work has ended nobody looks at the request any more.
FirstSignal(p) ==
    /\ pc[p] \in Working /\ Handled(p)
    /\ ~shutdown[p]
    /\ shutdown' = [shutdown EXCEPT ![p] = TRUE]
    /\ UNCHANGED <<cmd, pc, cancelled, outcome, code, mem, saveVars, faults, ghostVars>>

\* A second signal, SIGKILL, or a signal without a handler: the process is gone,
\* with no save() and with its temporary file where it is.
Die(p) ==
    /\ pc[p] \in Live
    /\ Fault
    /\ Exit(p, NoCode, "killed")
    /\ UNCHANGED <<cmd, saveVars, ghostVars>>

--------------------------------------------------------------------------------
(* CloudMetrics::save                                                      *)

\* A save that fails is only looked at by stats --reset.
SaveFails(p) ==
    Exit(p, IF cmd[p] = "reset" THEN 1 ELSE code[p], "exited")

SaveSucceeds(p) ==
    Exit(p, IF cmd[p] = "reset" THEN 0 ELSE code[p], "exited")

\* sweep_stale_metrics_temps takes the temporary files over an hour old.
Sweepable == {t \in old : temp[t].kind # "none"}

Sweep(p) ==
    /\ pc[p] = "sweep"
    /\ temp' = [t \in Procs |-> IF t \in Sweepable THEN NoFile ELSE temp[t]]
    /\ Goto(p, "mkstemp")
    /\ UNCHANGED <<cmd, shutdown, cancelled, outcome, code, mem, file, old, saved, owed,
                   faults, ghostVars>>

\* Mutation of TempName: every process writes to the same temporary file.
FixedName(p) == CHOOSE q \in Procs : TRUE

\* mkstemp finds a name that no process has.
TempName(p) == p

MkStemp(p) ==
    /\ pc[p] = "mkstemp"
    /\ \/ /\ temp' = [temp EXCEPT ![TempName(p)] = Metrics("part", Zero, {})]
          /\ Goto(p, "write")
          /\ UNCHANGED <<shutdown, cancelled, outcome, code, mem, faults>>
       \/ /\ Fault
          /\ SaveFails(p)
          /\ UNCHANGED temp
    /\ UNCHANGED <<cmd, file, old, saved, owed, ghostVars>>

\* fwrite, fflush, fsync and fclose, each of them checked: what could not be
\* written is removed.  A file that was swept is written all the same, unseen.
Write(p) ==
    /\ pc[p] = "write"
    /\ \/ /\ temp' = [temp EXCEPT ![TempName(p)] = IF @.kind = "none" THEN NoFile ELSE mem[p]]
          /\ Goto(p, "rename")
          /\ UNCHANGED <<shutdown, cancelled, outcome, code, mem, faults>>
       \/ /\ Fault
          /\ temp' = [temp EXCEPT ![TempName(p)] = NoFile]
          /\ SaveFails(p)
    /\ UNCHANGED <<cmd, file, old, saved, owed, ghostVars>>

\* Renaming replaces the file at once.  The runs that saved since this one loaded
\* are no longer counted, and none is that this one did not read or has cleared.
Rename(p) ==
    /\ pc[p] = "rename"
    /\ temp[TempName(p)].kind # "none"
    /\ file' = temp[TempName(p)]
    /\ temp' = [temp EXCEPT ![TempName(p)] = NoFile]
    /\ saved' = saved \cup {p}
    /\ owed' = {p} \cup (IF read[p] /\ cmd[p] # "reset" THEN owed \ (saved \ before[p]) ELSE {})
    /\ SaveSucceeds(p)
    /\ UNCHANGED <<cmd, old, faults, ghostVars>>

\* rename() fails: there is nothing to rename, or the directory refuses it.  The
\* run is still owed unless the disk failed or its own save took over an hour.
RenameFails(p) ==
    /\ pc[p] = "rename"
    /\ \/ temp[TempName(p)].kind = "none" /\ UNCHANGED faults
       \/ temp[TempName(p)].kind # "none" /\ Fault
    /\ temp' = [temp EXCEPT ![TempName(p)] = NoFile]
    /\ owed' = IF temp[TempName(p)].kind # "none" \/ p \in old THEN owed ELSE owed \cup {p}
    /\ SaveFails(p)
    /\ UNCHANGED <<cmd, file, old, saved, ghostVars>>

\* An hour passes: the temporary files that are there are old now.
Hour ==
    LET there == {t \in Procs : temp[t].kind # "none"}
    IN  /\ ~ there \subseteq old
        /\ old' = old \cup there
        /\ UNCHANGED <<cmd, pc, shutdown, cancelled, outcome, code, mem, file, temp, saved,
                       owed, faults, ghostVars>>

\* Every process has ended.
Ended ==
    /\ \A p \in Procs : pc[p] \in {"exited", "killed"}
    /\ UNCHANGED vars

Next ==
    \/ \E p \in Procs :
          \/ UsageError(p) \/ Start(p) \/ Load(p) \/ KnowRegion(p) \/ NoRegion(p)
          \/ Request(p) \/ Poll(p) \/ Finish(p) \/ FirstSignal(p) \/ Die(p)
          \/ Sweep(p) \/ MkStemp(p) \/ Write(p) \/ Rename(p) \/ RenameFails(p)
    \/ Hour
    \/ Ended

Spec == Init /\ [][Next]_vars

--------------------------------------------------------------------------------
(* Properties                                                              *)

\* The metrics file is missing or whole at every moment, whoever is killed while
\* it saves, whichever write fails and however many processes save at once: it
\* is never the truncated or half-written file of issue #81 that load() would
\* throw away with the whole history.
FileWhole == file.kind \in {"none", "whole"}

\* The calls and the region of a run whose save went through stay in the file,
\* with all that it had loaded.  The only ways to lose them are a later save by a
\* process that had loaded before, one by a process that could not read the file,
\* and a reset; and a save fails only when the disk does or it takes over an hour.
HistoryKept ==
    \A p \in owed :
       /\ file.kind = "whole"
       /\ file.calls[p] = calls[p]
       /\ p \in located => p \in file.regions

\* The code a command will exit with, decided when its work has ended: 0 is never
\* given for work that was cut short or partly failed, nor for a reset that did
\* not reach the file; 130 only when the user did interrupt, and always when that
\* cut the work of rm or diff short (sync calls it a failure), however the signal,
\* the progress loop and the end interleave.  Nothing is said of 2 here: rm gives
\* it for every error message, an exception after deletions included.
CodesHonest ==
    \A p \in Procs :
       /\ pc[p] \in Saving =>
             /\ code[p] = 0 => outcome[p] = "done"
             /\ code[p] = 130 => shutdown[p]
             /\ outcome[p] = "cut" /\ cmd[p] # "sync" => code[p] = 130
       /\ pc[p] = "exited" /\ cmd[p] = "reset" /\ code[p] = 0 => p \in saved
================================================================================

------------------------------ MODULE Enumerate ------------------------------
(***************************************************************************)
(* The parallel listing of a tree, level by level                          *)
(* (directory_comparison.cpp, parallel_enumerate_local_directory and       *)
(* parallel_enumerate_s3_prefix).  The two differ in what a directory is:  *)
(* the entries of an iterator, or the objects and common prefixes of       *)
(* several pages.  Here both are a set of entries that is read one entry   *)
(* at a time; an entry may be unreadable, and reading may break off.       *)
(*                                                                         *)
(* The tree does not change while it is listed.  Names that cannot exist   *)
(* (dangling links, vanished entries) are not part of it.                  *)
(***************************************************************************)
EXTENDS Integers, FiniteSets, Listing

CONSTANTS
    Files, Dirs,   \* relative paths of files and of directories
    Root,
    Parent,        \* the directory an entry is in
    Links,         \* the directories that are symbolic links
    Target,        \* the canonical path of a directory
    Workers        \* max_workers

ASSUME TreeAssumption ==
    /\ Root \in Dirs \ Links /\ Links \subseteq Dirs
    /\ Files \cap Dirs = {} /\ IsFiniteSet(Dirs)
    /\ Parent \in [Files \cup Dirs -> Dirs]
    \* a tree: every directory is below Root
    /\ \A S \in SUBSET Dirs :
          Root \in S /\ (\A d \in Dirs \ {Root} : Parent[d] \in S => d \in S) => S = Dirs
    /\ Workers \in Nat \ {0}

VARIABLES
    main,            \* where the caller is
    current_level, next_level,
    unposted,        \* the directories of the level not yet posted
    pending_tasks,
    task,            \* where the task of each directory is
    rest,            \* what it has not read yet
    local_files, local_subdirs,
    level_entries, all_entries,
    visited,         \* visited_symlink_targets
    enumeration_complete, alias_omitted,
    cancelled

taskVars  == <<task, rest, local_files, local_subdirs>>
levelVars == <<current_level, unposted, all_entries>>
mergeVars == <<next_level, level_entries>>
flagVars  == <<visited, enumeration_complete, alias_omitted>>
vars == <<main, levelVars, mergeVars, pending_tasks, taskVars, flagVars, cancelled>>

MainStates == {"level", "inline", "post", "check", "wait", "asleep", "collect", "returned"}
TaskStates == {"none", "queued", "reading", "merge", "finish", "notify", "done"}

EntriesOf(d) == {e \in (Files \cup Dirs) \ {Root} : Parent[e] = d}

Running == {d \in Dirs : task[d] \in {"reading", "merge", "finish", "notify"}}

Init ==
    /\ main = "level"
    /\ current_level = {Root} /\ next_level = {} /\ unposted = {}
    /\ pending_tasks = 0
    /\ task = [d \in Dirs |-> "none"] /\ rest = [d \in Dirs |-> {}]
    /\ local_files = [d \in Dirs |-> {}] /\ local_subdirs = [d \in Dirs |-> {}]
    /\ level_entries = {} /\ all_entries = {}
    /\ visited = {Target[Root]}
    /\ enumeration_complete = TRUE /\ alias_omitted = FALSE
    /\ cancelled = FALSE

-----------------------------------------------------------------------------
(* The caller.                                                             *)

\* A level of one directory is processed by the caller itself.
StartLevel ==
    /\ main = "level" /\ current_level # {} /\ ~cancelled
    /\ IF Cardinality(current_level) = 1
       THEN /\ main' = "inline" /\ pending_tasks' = 1
            /\ task' = [d \in Dirs |-> IF d \in current_level THEN "queued" ELSE task[d]]
            /\ UNCHANGED unposted
       ELSE /\ main' = "post" /\ pending_tasks' = 0
            /\ unposted' = current_level
            /\ UNCHANGED task
    /\ UNCHANGED <<current_level, all_entries, mergeVars, rest, local_files,
                   local_subdirs, flagVars, cancelled>>

PostTask(d) ==
    /\ main = "post" /\ d \in unposted /\ ~cancelled
    /\ unposted' = unposted \ {d}
    /\ pending_tasks' = pending_tasks + 1
    /\ task' = [task EXCEPT ![d] = "queued"]
    /\ UNCHANGED <<main, current_level, all_entries, mergeVars, rest, local_files,
                   local_subdirs, flagVars, cancelled>>

\* Mutation of PostingEnds: a cancelled run does not wait for its tasks.
PostingEndsAtOnce ==
    /\ main = "post" /\ (unposted = {} \/ cancelled)
    /\ main' = IF cancelled THEN "collect" ELSE "check"
    /\ unposted' = {}
    /\ UNCHANGED <<current_level, all_entries, mergeVars, pending_tasks, taskVars,
                   flagVars, cancelled>>

PostingEnds ==
    /\ main = "post" /\ (unposted = {} \/ cancelled)
    /\ main' = "check"
    /\ unposted' = {}
    /\ UNCHANGED <<current_level, all_entries, mergeVars, pending_tasks, taskVars,
                   flagVars, cancelled>>

\* pending_tasks is read without cv_mutex ...
CheckPending ==
    /\ main = "check"
    /\ main' = IF pending_tasks > 0 THEN "wait" ELSE "collect"
    /\ UNCHANGED <<levelVars, mergeVars, pending_tasks, taskVars, flagVars, cancelled>>

\* ... and, unless it was 0, again with it.
WaitForTasks ==
    /\ main = "wait"
    /\ \A d \in current_level : task[d] # "notify"
    /\ main' = IF pending_tasks = 0 THEN "collect" ELSE "asleep"
    /\ UNCHANGED <<levelVars, mergeVars, pending_tasks, taskVars, flagVars, cancelled>>

InlineEnds ==
    /\ main = "inline" /\ \A d \in current_level : task[d] = "done"
    /\ main' = "collect"
    /\ UNCHANGED <<levelVars, mergeVars, pending_tasks, taskVars, flagVars, cancelled>>

\* The end of the loop's body: the level's mutexes and vectors cease to exist.
CollectLevel ==
    /\ main = "collect"
    /\ all_entries' = all_entries \cup level_entries
    /\ current_level' = next_level
    /\ next_level' = {} /\ level_entries' = {}
    /\ main' = "level"
    /\ UNCHANGED <<unposted, pending_tasks, taskVars, flagVars, cancelled>>

Return ==
    /\ main = "level" /\ (current_level = {} \/ cancelled)
    /\ main' = "returned"
    /\ UNCHANGED <<levelVars, mergeVars, pending_tasks, taskVars, flagVars, cancelled>>

-----------------------------------------------------------------------------
(* The task of a directory (process_directory, process_prefix).            *)

BeginTask(d) ==
    /\ task[d] = "queued" /\ Cardinality(Running) < Workers
    /\ task' = [task EXCEPT ![d] = IF cancelled THEN "finish" ELSE "reading"]
    /\ rest' = [rest EXCEPT ![d] = IF cancelled THEN {} ELSE EntriesOf(d)]
    /\ UNCHANGED <<main, levelVars, mergeVars, pending_tasks, local_files, local_subdirs,
                   flagVars, cancelled>>

ReadFile(d, e) ==
    /\ task[d] = "reading" /\ ~cancelled
    /\ e \in rest[d] \cap Files
    /\ rest' = [rest EXCEPT ![d] = @ \ {e}]
    /\ local_files' = [local_files EXCEPT ![d] = @ \cup {e}]
    /\ UNCHANGED <<main, levelVars, mergeVars, pending_tasks, task, local_subdirs,
                   flagVars, cancelled>>

\* A target is followed once, under visited_mutex; a second link to it is
\* omitted and recorded.
ReadDir(d, e) ==
    /\ task[d] = "reading" /\ ~cancelled
    /\ e \in rest[d] \cap Dirs
    /\ rest' = [rest EXCEPT ![d] = @ \ {e}]
    /\ IF e \in Links /\ Target[e] \in visited
       THEN alias_omitted' = TRUE /\ UNCHANGED <<local_subdirs, visited>>
       ELSE /\ local_subdirs' = [local_subdirs EXCEPT ![d] = @ \cup {e}]
            /\ visited' = IF e \in Links THEN visited \cup {Target[e]} ELSE visited
            /\ UNCHANGED alias_omitted
    /\ UNCHANGED <<main, levelVars, mergeVars, pending_tasks, task, local_files,
                   enumeration_complete, cancelled>>

\* An entry that cannot be examined, or a link that cannot be resolved.
DropEntry(d, e) ==
    /\ task[d] = "reading" /\ ~cancelled
    /\ e \in rest[d]
    /\ rest' = [rest EXCEPT ![d] = @ \ {e}]
    /\ enumeration_complete' = FALSE
    /\ UNCHANGED <<main, levelVars, mergeVars, pending_tasks, task, local_files,
                   local_subdirs, visited, alias_omitted, cancelled>>

\* Mutation of ReadingFails: a page that cannot be listed is an empty one.
ReadingFailsSilently(d) ==
    /\ task[d] = "reading" /\ ~cancelled
    /\ rest' = [rest EXCEPT ![d] = {}]
    /\ task' = [task EXCEPT ![d] = "merge"]
    /\ UNCHANGED <<main, levelVars, mergeVars, pending_tasks, local_files, local_subdirs,
                   flagVars, cancelled>>

\* The directory cannot be opened, the iterator throws, a page fails, or a
\* truncated page has no continuation token.
ReadingFails(d) ==
    /\ task[d] = "reading" /\ ~cancelled
    /\ rest' = [rest EXCEPT ![d] = {}]
    /\ enumeration_complete' = FALSE
    /\ task' = [task EXCEPT ![d] = "merge"]
    /\ UNCHANGED <<main, levelVars, mergeVars, pending_tasks, local_files, local_subdirs,
                   visited, alias_omitted, cancelled>>

\* Everything was read, or the run was cancelled: what is left is dropped.
ReadingEnds(d) ==
    /\ task[d] = "reading" /\ (rest[d] = {} \/ cancelled)
    /\ rest' = [rest EXCEPT ![d] = {}]
    /\ task' = [task EXCEPT ![d] = "merge"]
    /\ UNCHANGED <<main, levelVars, mergeVars, pending_tasks, local_files, local_subdirs,
                   flagVars, cancelled>>

MergeResults(d) ==
    /\ task[d] = "merge"
    /\ level_entries' = level_entries \cup local_files[d]
    /\ next_level' = next_level \cup local_subdirs[d]
    /\ task' = [task EXCEPT ![d] = "finish"]
    /\ UNCHANGED <<main, levelVars, pending_tasks, rest, local_files, local_subdirs,
                   flagVars, cancelled>>

\* Under cv_mutex; the task that counts down to 0 keeps it until it has notified.
FinishTask(d) ==
    /\ task[d] = "finish"
    /\ \A c \in current_level : task[c] # "notify"
    /\ pending_tasks' = pending_tasks - 1
    /\ task' = [task EXCEPT ![d] = IF pending_tasks = 1 THEN "notify" ELSE "done"]
    /\ UNCHANGED <<main, levelVars, mergeVars, rest, local_files, local_subdirs, flagVars,
                   cancelled>>

\* Mutation of NotifyCaller: the last task notifies nobody.
NotifyNobody(d) ==
    /\ task[d] = "notify"
    /\ task' = [task EXCEPT ![d] = "done"]
    /\ UNCHANGED <<main, levelVars, mergeVars, pending_tasks, rest, local_files,
                   local_subdirs, flagVars, cancelled>>

NotifyCaller(d) ==
    /\ task[d] = "notify"
    /\ task' = [task EXCEPT ![d] = "done"]
    /\ main' = IF main = "asleep" /\ d \in current_level THEN "wait" ELSE main
    /\ UNCHANGED <<levelVars, mergeVars, pending_tasks, rest, local_files, local_subdirs,
                   flagVars, cancelled>>

-----------------------------------------------------------------------------

\* main.cpp sets progress.cancelled.
Cancel ==
    /\ ~cancelled /\ main # "returned"
    /\ cancelled' = TRUE
    /\ UNCHANGED <<main, levelVars, mergeVars, pending_tasks, taskVars, flagVars>>

MainStep ==
    \/ StartLevel \/ (\E d \in Dirs : PostTask(d)) \/ PostingEnds \/ CheckPending
    \/ WaitForTasks \/ InlineEnds \/ CollectLevel \/ Return

ReadStep(d) ==
    \E e \in rest[d] : ReadFile(d, e) \/ ReadDir(d, e) \/ DropEntry(d, e)

TaskStep(d) ==
    \/ BeginTask(d) \/ ReadStep(d) \/ ReadingFails(d) \/ ReadingEnds(d)
    \/ MergeResults(d) \/ FinishTask(d) \/ NotifyCaller(d)

Next == MainStep \/ (\E d \in Dirs : TaskStep(d)) \/ Cancel

Spec == Init /\ [][Next]_vars

\* Threads are scheduled and requests end.
Fairness == WF_vars(MainStep) /\ \A d \in Dirs : WF_vars(TaskStep(d))

-----------------------------------------------------------------------------

\* The type invariant.
TypeOK ==
    /\ main \in MainStates
    /\ current_level \subseteq Dirs /\ next_level \subseteq Dirs /\ unposted \subseteq Dirs
    /\ pending_tasks \in 0..Cardinality(Dirs)
    /\ task \in [Dirs -> TaskStates]
    /\ rest \in [Dirs -> SUBSET (Files \cup Dirs)]
    /\ local_files \in [Dirs -> SUBSET Files] /\ local_subdirs \in [Dirs -> SUBSET Dirs]
    /\ level_entries \subseteq Files /\ all_entries \subseteq Files
    /\ visited \subseteq {Target[d] : d \in Dirs}
    /\ enumeration_complete \in BOOLEAN /\ alias_omitted \in BOOLEAN /\ cancelled \in BOOLEAN

(***************************************************************************)
(* What is returned keeps the promise of Listing: whatever entry, page or  *)
(* directory could not be read in whichever task and level, and whichever  *)
(* of two links to a directory was followed first, the listing is exact or *)
(* says that it is not.                                                    *)
(***************************************************************************)
KeepsPromise ==
    main = "returned" =>
        [entries |-> all_entries, complete |-> enumeration_complete,
         alias |-> alias_omitted] \in Outcomes(Files, cancelled)

\* When the caller reads the results of a level without a lock, no task can
\* still write to them, even if the run was cancelled ("must wait even if
\* cancelled to avoid data race on level_entries/next_level").
LevelIsQuiet ==
    main = "collect" =>
        \A d \in Dirs : task[d] \notin {"queued", "reading", "merge", "finish"}

\* The listing returns, cancelled or not.
Returns == <>(main = "returned")
=============================================================================

---------------------------- MODULE EnumerateProofs ----------------------------
(***************************************************************************)
(* For every finite tree, with links wherever they are, and every number   *)
(* of workers: Enumerate is type correct, the caller collects a level only *)
(* when no task can still write to it, and what is returned keeps the      *)
(* promise of Listing that run_sync, run_rm and run_directory_comparison   *)
(* rely on.                                                                *)
(***************************************************************************)
EXTENDS Enumerate, FiniteSetTheorems, TLAPS

-----------------------------------------------------------------------------
(* The parts of the inductive invariant.                                   *)

ActiveStates == {"queued", "reading", "merge", "finish"}
EndStates    == {"finish", "notify", "done"}
AtWork       == {"inline", "post", "check", "wait", "asleep", "collect"}

MainOK   == main \in MainStates
LevelOK  == /\ current_level \subseteq Dirs /\ next_level \subseteq Dirs
            /\ unposted \subseteq Dirs
            /\ level_entries \subseteq Files /\ all_entries \subseteq Files
TaskOK   == task \in [Dirs -> TaskStates]
RestOK   == rest \in [Dirs -> SUBSET (Files \cup Dirs)]
LocalOK  == local_files \in [Dirs -> SUBSET Files] /\ local_subdirs \in [Dirs -> SUBSET Dirs]
VisitedOK == visited \subseteq {Target[d] : d \in Dirs}
FlagsOK  == enumeration_complete \in BOOLEAN /\ alias_omitted \in BOOLEAN /\ cancelled \in BOOLEAN

\* The types.
Typed == MainOK /\ LevelOK /\ TaskOK /\ RestOK /\ LocalOK /\ VisitedOK /\ FlagsOK

\* The tasks that pending_tasks counts: posted, and not yet counted down.
Active  == {d \in Dirs : task[d] \in ActiveStates}
Counted == pending_tasks = Cardinality(Active)

\* The tasks are those of the current level; none is left when the level is
\* collected; what they merge is not there before a level is under way.
LevelSound ==
    /\ Active \subseteq current_level /\ unposted \subseteq current_level
    /\ unposted \cap Active = {}
    /\ main # "post" => unposted = {}
    /\ main \in {"level", "collect", "returned"} => Active = {}
    /\ main \in {"level", "returned"} => next_level = {} /\ level_entries = {}
    /\ main = "returned" /\ ~cancelled => current_level = {}

\* Unless it is cancelled, the level under way has a task for each directory,
\* or will have one.
AllPosted ==
    ~cancelled /\ main \in AtWork => \A d \in current_level : task[d] # "none" \/ d \in unposted

\* What the caller is told of: then anything may be missing.
Excused == ~enumeration_complete \/ alias_omitted \/ cancelled

\* The directories that had, have or will have a task, and the files that are
\* in the result so far.
Begun   == {d \in Dirs : task[d] # "none"}
Reached == Begun \cup current_level \cup next_level
Listed  == level_entries \cup all_entries

\* Each entry of a directory is still to be read, held by the task of the
\* directory, or merged.
Accounted(d) ==
    /\ task[d] = "reading" =>
          EntriesOf(d) \subseteq rest[d] \cup local_files[d] \cup local_subdirs[d]
    /\ task[d] = "merge" => EntriesOf(d) \subseteq local_files[d] \cup local_subdirs[d]
    /\ task[d] \in EndStates => EntriesOf(d) \subseteq Listed \cup Reached
NothingLost == ~Excused => Root \in Reached /\ \A d \in Dirs : Accounted(d)

ListingInv == Typed /\ Counted /\ LevelSound /\ AllPosted /\ NothingLost

-----------------------------------------------------------------------------
(* The steps, and the moves of a task.                                     *)

USE TreeAssumption

\* A step is one of the actions.
LEMMA NextCases ==
    ASSUME [Next]_vars
    PROVE  \/ StartLevel \/ PostingEnds \/ CheckPending \/ WaitForTasks \/ InlineEnds
           \/ CollectLevel \/ Return \/ Cancel
           \/ \E d \in Dirs : PostTask(d)
           \/ \E d \in Dirs : BeginTask(d) \/ ReadingFails(d) \/ ReadingEnds(d)
                              \/ MergeResults(d) \/ FinishTask(d) \/ NotifyCaller(d)
           \/ \E d \in Dirs : \E e \in rest[d] : ReadFile(d, e) \/ ReadDir(d, e) \/ DropEntry(d, e)
           \/ UNCHANGED vars
  BY Zenon DEF Next, MainStep, TaskStep, ReadStep

\* The states by name.
LEMMA StatesAre ==
    /\ TaskStates = {"none", "notify", "done"} \cup ActiveStates
    /\ ActiveStates \cap {"none", "notify", "done"} = {}
    /\ "none" \notin EndStates /\ "reading" \notin EndStates /\ "merge" \notin EndStates
    /\ "queued" \notin EndStates
  BY SMT DEF TaskStates, ActiveStates, EndStates

\* The active tasks are finitely many.
LEMMA ActiveFinite ==
    /\ IsFiniteSet(Active) /\ Cardinality(Active) \in Nat
    /\ Cardinality(Active) <= Cardinality(Dirs) /\ Cardinality(Dirs) \in Nat
    /\ Cardinality(Active) = 0 <=> Active = {}
<1>1. Active \subseteq Dirs
  BY DEF Active
<1>2. /\ IsFiniteSet(Active) /\ Cardinality(Active) <= Cardinality(Dirs)
      /\ Cardinality(Active) \in Nat /\ Cardinality(Dirs) \in Nat
  BY <1>1, FS_Subset, FS_CardinalityType
<1>3. Cardinality(Active) = 0 <=> Active = {}
  BY <1>2, FS_EmptySet
<1> QED
  BY <1>2, <1>3

\* The task of d goes to state st.
LEMMA TaskGoes ==
    ASSUME TaskOK, NEW d \in Dirs, NEW st \in TaskStates, st # "none",
           task' = [task EXCEPT ![d] = st]
    PROVE  /\ TaskOK' /\ \A c \in Dirs : task'[c] = IF c = d THEN st ELSE task[c]
           /\ st \in ActiveStates => Active' = Active \cup {d}
           /\ st \notin ActiveStates => Active' = Active \ {d}
           /\ Begun' = Begun \cup {d}
<1>1. TaskOK' /\ \A c \in Dirs : task'[c] = IF c = d THEN st ELSE task[c]
  BY DEF TaskOK
<1>2. /\ st \in ActiveStates => Active' = Active \cup {d}
      /\ st \notin ActiveStates => Active' = Active \ {d}
  BY <1>1 DEF Active
<1>3. Begun' = Begun \cup {d}
  BY <1>1 DEF Begun
<1> QED
  BY <1>1, <1>2, <1>3

\* The parts of the typing that a step leaves alone.
LEMMA KeptTypes ==
    ASSUME Typed
    PROVE  /\ UNCHANGED main => MainOK'
           /\ UNCHANGED <<current_level, next_level, unposted, level_entries, all_entries>>
                 => LevelOK'
           /\ UNCHANGED task => TaskOK'
           /\ UNCHANGED rest => RestOK'
           /\ UNCHANGED <<local_files, local_subdirs>> => LocalOK'
           /\ UNCHANGED visited => VisitedOK'
           /\ UNCHANGED <<enumeration_complete, alias_omitted, cancelled>> => FlagsOK'
<1>0. MainOK /\ LevelOK /\ TaskOK /\ RestOK /\ LocalOK /\ VisitedOK /\ FlagsOK
  BY DEF Typed
<1>1. /\ UNCHANGED main => MainOK'
      /\ UNCHANGED <<current_level, next_level, unposted, level_entries, all_entries>> => LevelOK'
      /\ UNCHANGED task => TaskOK'
  BY <1>0 DEF MainOK, LevelOK, TaskOK
<1>2. /\ UNCHANGED rest => RestOK'
      /\ UNCHANGED <<local_files, local_subdirs>> => LocalOK'
      /\ UNCHANGED visited => VisitedOK'
  BY <1>0 DEF RestOK, LocalOK, VisitedOK
<1>3. UNCHANGED <<enumeration_complete, alias_omitted, cancelled>> => FlagsOK'
  BY <1>0, Zenon DEF FlagsOK
<1> QED
  BY <1>1, <1>2, <1>3

\* d is at the same place, with the same entries read and to be read.
Still(d) == /\ task'[d] = task[d] /\ rest'[d] = rest[d]
            /\ local_files'[d] = local_files[d] /\ local_subdirs'[d] = local_subdirs[d]

\* Nothing is lost in a step that takes nothing from the result or the levels,
\* and in which each directory that does not stay where it is is accounted for.
LEMMA LossFree ==
    ASSUME NothingLost, ~Excused' => ~Excused,
           ~Excused' => Listed \subseteq Listed' /\ Reached \subseteq Reached',
           ~Excused' => \A d \in Dirs : Still(d) \/ Accounted(d)'
    PROVE  NothingLost'
<1> SUFFICES ASSUME ~Excused' PROVE Root \in Reached' /\ \A d \in Dirs : Accounted(d)'
  BY DEF NothingLost
<1>1. Root \in Reached /\ \A d \in Dirs : Accounted(d)
  BY DEF NothingLost
<1>2. Listed \subseteq Listed' /\ Reached \subseteq Reached'
  OBVIOUS
<1>3. ASSUME NEW d \in Dirs, Still(d), Accounted(d) PROVE Accounted(d)'
  <2>1. EntriesOf(d)' = EntriesOf(d)
    BY DEF EntriesOf
  <2>2. task'[d] = "reading" =>
            EntriesOf(d) \subseteq rest'[d] \cup local_files'[d] \cup local_subdirs'[d]
    BY <1>3 DEF Still, Accounted
  <2>3. task'[d] = "merge" => EntriesOf(d) \subseteq local_files'[d] \cup local_subdirs'[d]
    BY <1>3 DEF Still, Accounted
  <2>4. task'[d] \in EndStates => EntriesOf(d) \subseteq Listed' \cup Reached'
    BY <1>2, <1>3 DEF Still, Accounted
  <2> QED
    BY <2>1, <2>2, <2>3, <2>4 DEF Accounted
<1> QED
  BY <1>1, <1>2, <1>3

\* A step of an active task that stays active: what it cannot disturb.
LEMMA ActiveStep ==
    ASSUME Typed, Counted, LevelSound, AllPosted, NEW d \in Dirs, task[d] \in ActiveStates,
           NEW st \in ActiveStates, task' = [task EXCEPT ![d] = st],
           UNCHANGED <<main, current_level, unposted, pending_tasks, cancelled>>
    PROVE  /\ TaskOK' /\ Counted' /\ LevelSound' /\ AllPosted' /\ Begun' = Begun
           /\ task'[d] = st /\ \A c \in Dirs \ {d} : task'[c] = task[c]
           /\ main \notin {"level", "collect", "returned"}
<1>0. TaskOK /\ MainOK
  BY DEF Typed
<1>1. st \in TaskStates /\ st # "none" /\ task[d] # "none"
  BY StatesAre
<1>2. /\ TaskOK' /\ \A c \in Dirs : task'[c] = IF c = d THEN st ELSE task[c]
      /\ Active' = Active \cup {d} /\ Begun' = Begun \cup {d}
  BY <1>0, <1>1, TaskGoes
<1>3. d \in Active /\ d \in Begun
  BY <1>1 DEF Active, Begun
<1>4. Active' = Active /\ Begun' = Begun
  BY <1>2, <1>3
<1>5. main \notin {"level", "collect", "returned"}
  BY <1>3 DEF LevelSound
<1>6. Counted' /\ LevelSound'
  BY <1>4, <1>5 DEF Counted, LevelSound
<1>7. AllPosted'
  <2>1. \A c \in Dirs : task[c] # "none" => task'[c] # "none"
    BY <1>1, <1>2
  <2>2. current_level \subseteq Dirs
    BY DEF Typed, LevelOK
  <2> QED
    BY <2>1, <2>2 DEF AllPosted
<1> QED
  BY <1>2, <1>4, <1>5, <1>6, <1>7

-----------------------------------------------------------------------------
(* The invariant, action by action: the tasks.                             *)

\* A task begins: nothing has been read, or it was cancelled.
LEMMA BeginStep ==
    ASSUME ListingInv, NEW d \in Dirs, BeginTask(d)
    PROVE  ListingInv'
<1> USE DEF taskVars, levelVars, mergeVars, flagVars
<1>0. Typed /\ Counted /\ LevelSound /\ AllPosted /\ NothingLost /\ RestOK
  BY DEF ListingInv, Typed
<1>1. /\ task[d] = "queued"
      /\ rest' = [rest EXCEPT ![d] = IF cancelled THEN {} ELSE EntriesOf(d)]
      /\ UNCHANGED <<main, current_level, unposted, all_entries, next_level, level_entries,
                     pending_tasks, local_files, local_subdirs, visited,
                     enumeration_complete, alias_omitted, cancelled>>
  BY Zenon DEF BeginTask
<1>2. PICK st \in {"finish", "reading"} :
         task' = [task EXCEPT ![d] = st] /\ (~cancelled => st = "reading")
  BY Zenon DEF BeginTask
<1>3. st \in ActiveStates /\ task[d] \in ActiveStates
  BY <1>1, <1>2 DEF ActiveStates
<1>4. /\ TaskOK' /\ Counted' /\ LevelSound' /\ AllPosted' /\ Begun' = Begun
      /\ task'[d] = st /\ \A c \in Dirs \ {d} : task'[c] = task[c]
  BY <1>0, <1>1, <1>2, <1>3, ActiveStep
<1>5. RestOK' /\ (\A c \in Dirs \ {d} : rest'[c] = rest[c])
      /\ (~cancelled => rest'[d] = EntriesOf(d))
  <2>1. EntriesOf(d) \subseteq Files \cup Dirs
    BY DEF EntriesOf
  <2> QED
    BY <1>0, <1>1, <2>1, SMT DEF RestOK
<1>6. Typed'
  BY <1>0, <1>1, <1>4, <1>5, KeptTypes DEF Typed
<1>7. NothingLost'
  <2>1. Listed' = Listed /\ Reached' = Reached /\ (Excused' <=> Excused)
    BY <1>1, <1>4 DEF Listed, Reached, Excused
  <2>2. \A c \in Dirs \ {d} : Still(c)
    BY <1>1, <1>4, <1>5 DEF Still
  <2>3. ~Excused' => Accounted(d)'
    <3> SUFFICES ASSUME ~Excused' PROVE Accounted(d)'
      OBVIOUS
    <3>1. ~cancelled
      BY <1>1 DEF Excused
    <3>2. task'[d] = "reading" /\ rest'[d] = EntriesOf(d)
      BY <1>2, <1>4, <1>5, <3>1
    <3>3. task'[d] # "merge" /\ task'[d] \notin EndStates
      BY <3>2, StatesAre
    <3>4. EntriesOf(d)' = EntriesOf(d)
      BY DEF EntriesOf
    <3> QED
      BY <3>2, <3>3, <3>4 DEF Accounted
  <2> QED
    BY <1>0, <2>1, <2>2, <2>3, LossFree
<1> QED
  BY <1>4, <1>6, <1>7 DEF ListingInv

\* An entry is read: it is taken from what is left, and is with the task, or its
\* omission has been recorded.
LEMMA ReadStepInv ==
    ASSUME ListingInv, NEW d \in Dirs, NEW e \in rest[d],
           ReadFile(d, e) \/ ReadDir(d, e) \/ DropEntry(d, e)
    PROVE  ListingInv'
<1> USE DEF taskVars, levelVars, mergeVars, flagVars
<1>0. /\ Typed /\ Counted /\ LevelSound /\ AllPosted /\ NothingLost /\ RestOK /\ LocalOK
      /\ VisitedOK /\ FlagsOK /\ TaskOK
  BY DEF ListingInv, Typed
<1>1. /\ task[d] = "reading" /\ rest' = [rest EXCEPT ![d] = @ \ {e}]
      /\ UNCHANGED <<main, current_level, unposted, all_entries, next_level, level_entries,
                     pending_tasks, task, cancelled>>
  BY Zenon DEF ReadFile, ReadDir, DropEntry
<1>2. /\ LocalOK' /\ VisitedOK' /\ FlagsOK' /\ (~Excused' => ~Excused)
      /\ \A c \in Dirs \ {d} :
            local_files'[c] = local_files[c] /\ local_subdirs'[c] = local_subdirs[c]
      /\ ~Excused' => /\ local_files[d] \cup local_subdirs[d] \cup {e}
                            \subseteq local_files'[d] \cup local_subdirs'[d]
  <2>1. CASE ReadFile(d, e)
    <3>1. /\ local_files' = [local_files EXCEPT ![d] = @ \cup {e}] /\ e \in Files
          /\ UNCHANGED <<local_subdirs, visited, enumeration_complete, alias_omitted, cancelled>>
      BY <2>1, Zenon DEF ReadFile
    <3>2. VisitedOK' /\ FlagsOK'
      BY <1>0, <3>1, KeptTypes
    <3>3. LocalOK' /\ local_files'[d] = local_files[d] \cup {e}
          /\ \A c \in Dirs \ {d} : local_files'[c] = local_files[c]
      BY <1>0, <3>1, SMT DEF LocalOK
    <3>4. Excused' <=> Excused
      BY <3>1 DEF Excused
    <3> QED
      BY <3>1, <3>2, <3>3, <3>4
  <2>2. CASE ReadDir(d, e) /\ e \in Links /\ Target[e] \in visited
    <3>1. UNCHANGED <<local_files, local_subdirs, visited, enumeration_complete, cancelled>>
      BY <2>2, Zenon DEF ReadDir
    <3>2. alias_omitted' = TRUE
      BY <2>2, Zenon DEF ReadDir
    <3>3. LocalOK' /\ VisitedOK'
      BY <1>0, <3>1, KeptTypes
    <3>4. FlagsOK'
      BY <1>0, <3>1, <3>2, Zenon DEF FlagsOK
    <3>5. Excused'
      BY <3>2, Zenon DEF Excused
    <3> QED
      BY <3>1, <3>3, <3>4, <3>5
  <2>3. CASE ReadDir(d, e) /\ ~(e \in Links /\ Target[e] \in visited)
    <3>1. /\ local_subdirs' = [local_subdirs EXCEPT ![d] = @ \cup {e}] /\ e \in Dirs
          /\ visited' = IF e \in Links THEN visited \cup {Target[e]} ELSE visited
          /\ UNCHANGED <<local_files, enumeration_complete, alias_omitted, cancelled>>
      BY <2>3, Zenon DEF ReadDir
    <3>2. FlagsOK'
      BY <1>0, <3>1, KeptTypes
    <3>3. LocalOK' /\ local_subdirs'[d] = local_subdirs[d] \cup {e}
          /\ \A c \in Dirs \ {d} : local_subdirs'[c] = local_subdirs[c]
      BY <1>0, <3>1, SMT DEF LocalOK
    <3>4. VisitedOK'
      BY <1>0, <3>1 DEF VisitedOK
    <3>5. Excused' <=> Excused
      BY <3>1 DEF Excused
    <3> QED
      BY <3>1, <3>2, <3>3, <3>4, <3>5
  <2>4. CASE DropEntry(d, e)
    <3>1. UNCHANGED <<local_files, local_subdirs, visited, alias_omitted, cancelled>>
      BY <2>4, Zenon DEF DropEntry
    <3>2. enumeration_complete' = FALSE
      BY <2>4, Zenon DEF DropEntry
    <3>3. LocalOK' /\ VisitedOK'
      BY <1>0, <3>1, KeptTypes
    <3>4. FlagsOK'
      BY <1>0, <3>1, <3>2, Zenon DEF FlagsOK
    <3>5. Excused'
      BY <3>2, Zenon DEF Excused
    <3> QED
      BY <3>1, <3>3, <3>4, <3>5
  <2> QED
    BY <2>1, <2>2, <2>3, <2>4, Zenon
<1>3. task[d] \in ActiveStates /\ task' = [task EXCEPT ![d] = task[d]]
  BY <1>0, <1>1 DEF ActiveStates, TaskOK
<1>4. TaskOK' /\ Counted' /\ LevelSound' /\ AllPosted' /\ Begun' = Begun
  BY <1>0, <1>1, <1>3, ActiveStep
<1>5. RestOK' /\ (\A c \in Dirs \ {d} : rest'[c] = rest[c]) /\ rest'[d] = rest[d] \ {e}
  BY <1>0, <1>1, SMT DEF RestOK
<1>6. Typed'
  BY <1>0, <1>1, <1>2, <1>4, <1>5, KeptTypes DEF Typed
<1>7. NothingLost'
  <2>1. Listed' = Listed /\ Reached' = Reached
    BY <1>1, <1>4 DEF Listed, Reached
  <2>2. \A c \in Dirs \ {d} : Still(c)
    BY <1>1, <1>2, <1>5 DEF Still
  <2>3. ~Excused' => Accounted(d)'
    <3> SUFFICES ASSUME ~Excused' PROVE Accounted(d)'
      OBVIOUS
    <3>1. EntriesOf(d) \subseteq rest[d] \cup local_files[d] \cup local_subdirs[d]
      BY <1>0, <1>1, <1>2 DEF NothingLost, Accounted
    <3>2. EntriesOf(d) \subseteq rest'[d] \cup local_files'[d] \cup local_subdirs'[d]
      BY <1>2, <1>5, <3>1
    <3>3. task'[d] # "merge" /\ task'[d] \notin EndStates
      BY <1>1, StatesAre
    <3>4. EntriesOf(d)' = EntriesOf(d)
      BY DEF EntriesOf
    <3> QED
      BY <3>2, <3>3, <3>4 DEF Accounted
  <2> QED
    BY <1>0, <1>2, <2>1, <2>2, <2>3, LossFree
<1> QED
  BY <1>4, <1>6, <1>7 DEF ListingInv

\* Reading ends: with everything read, or with the loss recorded.
LEMMA ReadEndStep ==
    ASSUME ListingInv, NEW d \in Dirs, ReadingFails(d) \/ ReadingEnds(d)
    PROVE  ListingInv'
<1> USE DEF taskVars, levelVars, mergeVars, flagVars
<1>0. Typed /\ Counted /\ LevelSound /\ AllPosted /\ NothingLost /\ RestOK /\ FlagsOK
  BY DEF ListingInv, Typed
<1>1. /\ task[d] = "reading" /\ task' = [task EXCEPT ![d] = "merge"]
      /\ rest' = [rest EXCEPT ![d] = {}]
      /\ UNCHANGED <<main, current_level, unposted, all_entries, next_level, level_entries,
                     pending_tasks, local_files, local_subdirs, visited, alias_omitted,
                     cancelled>>
  BY Zenon DEF ReadingFails, ReadingEnds
<1>2. "merge" \in ActiveStates /\ task[d] \in ActiveStates
  BY <1>1 DEF ActiveStates
<1>3. /\ TaskOK' /\ Counted' /\ LevelSound' /\ AllPosted' /\ Begun' = Begun
      /\ task'[d] = "merge" /\ \A c \in Dirs \ {d} : task'[c] = task[c]
  BY <1>0, <1>1, <1>2, ActiveStep
<1>4. RestOK' /\ \A c \in Dirs \ {d} : rest'[c] = rest[c]
  BY <1>0, <1>1, SMT DEF RestOK
<1>5. /\ FlagsOK' /\ (~Excused' => ~Excused)
      /\ ~Excused' => rest[d] = {}
  <2>1. CASE ReadingFails(d)
    <3>1. enumeration_complete' = FALSE
      BY <2>1, Zenon DEF ReadingFails
    <3>2. FlagsOK'
      BY <1>0, <1>1, <3>1, Zenon DEF FlagsOK
    <3>3. Excused'
      BY <3>1, Zenon DEF Excused
    <3> QED
      BY <3>2, <3>3
  <2>2. CASE ReadingEnds(d)
    <3>1. UNCHANGED enumeration_complete /\ (rest[d] = {} \/ cancelled)
      BY <2>2, Zenon DEF ReadingEnds
    <3>2. FlagsOK'
      BY <1>0, <1>1, <3>1, KeptTypes
    <3>3. Excused' <=> Excused
      BY <1>1, <3>1 DEF Excused
    <3> QED
      BY <3>1, <3>2, <3>3 DEF Excused
  <2> QED
    BY <2>1, <2>2
<1>6. Typed'
  BY <1>0, <1>1, <1>3, <1>4, <1>5, KeptTypes DEF Typed
<1>7. NothingLost'
  <2>1. Listed' = Listed /\ Reached' = Reached
    BY <1>1, <1>3 DEF Listed, Reached
  <2>2. \A c \in Dirs \ {d} : Still(c)
    BY <1>1, <1>3, <1>4 DEF Still
  <2>3. ~Excused' => Accounted(d)'
    <3> SUFFICES ASSUME ~Excused' PROVE Accounted(d)'
      OBVIOUS
    <3>1. EntriesOf(d) \subseteq rest[d] \cup local_files[d] \cup local_subdirs[d]
      BY <1>0, <1>1, <1>5 DEF NothingLost, Accounted
    <3>2. EntriesOf(d) \subseteq local_files'[d] \cup local_subdirs'[d]
      BY <1>1, <1>5, <3>1
    <3>3. task'[d] # "reading" /\ task'[d] \notin EndStates
      BY <1>3, StatesAre
    <3>4. EntriesOf(d)' = EntriesOf(d)
      BY DEF EntriesOf
    <3> QED
      BY <3>2, <3>3, <3>4 DEF Accounted
  <2> QED
    BY <1>0, <1>5, <2>1, <2>2, <2>3, LossFree
<1> QED
  BY <1>3, <1>6, <1>7 DEF ListingInv

\* The results of a task are merged into those of the level.
LEMMA MergeStep ==
    ASSUME ListingInv, NEW d \in Dirs, MergeResults(d)
    PROVE  ListingInv'
<1> USE DEF taskVars, levelVars, mergeVars, flagVars
<1>0. Typed /\ Counted /\ LevelSound /\ AllPosted /\ NothingLost /\ LevelOK /\ LocalOK
  BY DEF ListingInv, Typed
<1>1. /\ task[d] = "merge" /\ task' = [task EXCEPT ![d] = "finish"]
      /\ level_entries' = level_entries \cup local_files[d]
      /\ next_level' = next_level \cup local_subdirs[d]
      /\ UNCHANGED <<main, current_level, unposted, all_entries, pending_tasks, rest,
                     local_files, local_subdirs, visited, enumeration_complete,
                     alias_omitted, cancelled>>
  BY Zenon DEF MergeResults
<1>2. "finish" \in ActiveStates /\ task[d] \in ActiveStates
  BY <1>1 DEF ActiveStates
<1>3. /\ TaskOK' /\ Counted' /\ LevelSound' /\ AllPosted' /\ Begun' = Begun
      /\ task'[d] = "finish" /\ \A c \in Dirs \ {d} : task'[c] = task[c]
  BY <1>0, <1>1, <1>2, ActiveStep
<1>4. LevelOK'
  BY <1>0, <1>1, SMT DEF LevelOK, LocalOK
<1>5. Typed'
  BY <1>0, <1>1, <1>3, <1>4, KeptTypes DEF Typed
<1>6. NothingLost'
  <2>1. /\ Listed \subseteq Listed' /\ Reached \subseteq Reached' /\ (Excused' <=> Excused)
        /\ local_files[d] \subseteq Listed' /\ local_subdirs[d] \subseteq Reached'
    BY <1>1, <1>3 DEF Listed, Reached, Excused
  <2>2. \A c \in Dirs \ {d} : Still(c)
    BY <1>1, <1>3 DEF Still
  <2>3. ~Excused' => Accounted(d)'
    <3> SUFFICES ASSUME ~Excused' PROVE Accounted(d)'
      OBVIOUS
    <3>1. EntriesOf(d) \subseteq local_files[d] \cup local_subdirs[d]
      BY <1>0, <1>1, <2>1 DEF NothingLost, Accounted
    <3>2. EntriesOf(d) \subseteq Listed' \cup Reached'
      BY <2>1, <3>1
    <3>3. task'[d] # "reading" /\ task'[d] # "merge"
      BY <1>3
    <3>4. EntriesOf(d)' = EntriesOf(d)
      BY DEF EntriesOf
    <3> QED
      BY <3>2, <3>3, <3>4 DEF Accounted
  <2> QED
    BY <1>0, <2>1, <2>2, <2>3, LossFree
<1> QED
  BY <1>3, <1>5, <1>6 DEF ListingInv

\* A task counts down; the last one holds the mutex until it has notified.
LEMMA FinishStep ==
    ASSUME ListingInv, NEW d \in Dirs, FinishTask(d)
    PROVE  ListingInv'
<1> USE DEF taskVars, levelVars, mergeVars, flagVars
<1>0. Typed /\ Counted /\ LevelSound /\ AllPosted /\ NothingLost /\ TaskOK /\ LevelOK
  BY DEF ListingInv, Typed
<1>1. /\ task[d] = "finish" /\ pending_tasks' = pending_tasks - 1
      /\ UNCHANGED <<main, current_level, unposted, all_entries, next_level, level_entries,
                     rest, local_files, local_subdirs, visited, enumeration_complete,
                     alias_omitted, cancelled>>
  BY Zenon DEF FinishTask
<1>2. PICK st \in {"notify", "done"} : task' = [task EXCEPT ![d] = st]
  BY Zenon DEF FinishTask
<1>3. st \in TaskStates /\ st # "none" /\ st \notin ActiveStates /\ st \in EndStates
      /\ st # "reading" /\ st # "merge"
  BY <1>2, SMT DEF TaskStates, ActiveStates, EndStates
<1>4. /\ TaskOK' /\ (\A c \in Dirs : task'[c] = IF c = d THEN st ELSE task[c])
      /\ Active' = Active \ {d} /\ Begun' = Begun \cup {d}
  BY <1>0, <1>2, <1>3, TaskGoes
<1>5. d \in Active
  BY <1>1 DEF Active, ActiveStates
<1>6. Counted'
  <2>1. IsFiniteSet(Active) /\ Cardinality(Active) \in Nat
    BY ActiveFinite
  <2>2. Cardinality(Active \ {d}) = Cardinality(Active) - 1
    BY <1>5, <2>1, FS_RemoveElement
  <2> QED
    BY <1>0, <1>1, <1>4, <2>2 DEF Counted
<1>7. LevelSound'
  BY <1>0, <1>1, <1>4 DEF LevelSound
<1>8. AllPosted'
  <2>1. \A c \in Dirs : task[c] # "none" => task'[c] # "none"
    BY <1>3, <1>4
  <2> QED
    BY <1>0, <1>1, <2>1 DEF AllPosted, LevelOK
<1>9. Typed'
  BY <1>0, <1>1, <1>4, KeptTypes DEF Typed
<1>10. NothingLost'
  <2>1. Listed' = Listed /\ Reached \subseteq Reached' /\ (Excused' <=> Excused)
    BY <1>1, <1>4 DEF Listed, Reached, Excused
  <2>2. \A c \in Dirs \ {d} : Still(c)
    BY <1>1, <1>4 DEF Still
  <2>3. ~Excused' => Accounted(d)'
    <3> SUFFICES ASSUME ~Excused' PROVE Accounted(d)'
      OBVIOUS
    <3>1. EntriesOf(d) \subseteq Listed \cup Reached
      BY <1>0, <1>1, <2>1 DEF NothingLost, Accounted, EndStates
    <3>2. EntriesOf(d) \subseteq Listed' \cup Reached'
      BY <2>1, <3>1
    <3>3. task'[d] # "reading" /\ task'[d] # "merge"
      BY <1>3, <1>4
    <3>4. EntriesOf(d)' = EntriesOf(d)
      BY DEF EntriesOf
    <3> QED
      BY <3>2, <3>3, <3>4 DEF Accounted
  <2> QED
    BY <1>0, <2>1, <2>2, <2>3, LossFree
<1> QED
  BY <1>6, <1>7, <1>8, <1>9, <1>10 DEF ListingInv

\* The caller is woken, if it sleeps and the task is of its level.
LEMMA NotifyStep ==
    ASSUME ListingInv, NEW d \in Dirs, NotifyCaller(d)
    PROVE  ListingInv'
<1> USE DEF taskVars, levelVars, mergeVars, flagVars
<1>0. Typed /\ Counted /\ LevelSound /\ AllPosted /\ NothingLost /\ TaskOK /\ LevelOK /\ MainOK
  BY DEF ListingInv, Typed
<1>1. /\ task[d] = "notify" /\ task' = [task EXCEPT ![d] = "done"]
      /\ UNCHANGED <<current_level, unposted, all_entries, next_level, level_entries,
                     pending_tasks, rest, local_files, local_subdirs, visited,
                     enumeration_complete, alias_omitted, cancelled>>
      /\ main' = main \/ (main = "asleep" /\ main' = "wait")
  BY Zenon DEF NotifyCaller
<1>2. /\ "done" \in TaskStates /\ "done" # "none" /\ "done" \notin ActiveStates
      /\ task[d] \notin ActiveStates /\ task[d] # "none" /\ task[d] \in EndStates
  BY <1>1, SMT DEF TaskStates, ActiveStates, EndStates
<1>3. /\ TaskOK' /\ (\A c \in Dirs : task'[c] = IF c = d THEN "done" ELSE task[c])
      /\ Active' = Active \ {d} /\ Begun' = Begun \cup {d}
  BY <1>0, <1>1, <1>2, TaskGoes
<1>4. Active' = Active /\ Begun' = Begun
  BY <1>2, <1>3 DEF Active, Begun
<1>5. /\ MainOK' /\ (main' \in AtWork => main \in AtWork)
      /\ \A m \in {"level", "collect", "returned", "post"} : main' = m <=> main = m
  BY <1>0, <1>1, SMT DEF MainOK, MainStates, AtWork
<1>6. LevelSound'
  BY <1>0, <1>1, <1>4, <1>5 DEF LevelSound
<1>7. AllPosted'
  <2>1. \A c \in Dirs : task[c] # "none" => task'[c] # "none"
    BY <1>2, <1>3
  <2> QED
    BY <1>0, <1>1, <1>5, <2>1 DEF AllPosted, LevelOK
<1>8. Typed' /\ Counted'
  BY <1>0, <1>1, <1>3, <1>4, <1>5, KeptTypes DEF Typed, Counted
<1>9. NothingLost'
  <2>1. Listed' = Listed /\ Reached' = Reached /\ (Excused' <=> Excused)
    BY <1>1, <1>4 DEF Listed, Reached, Excused
  <2>2. \A c \in Dirs \ {d} : Still(c)
    BY <1>1, <1>3 DEF Still
  <2>3. ~Excused' => Accounted(d)'
    <3> SUFFICES ASSUME ~Excused' PROVE Accounted(d)'
      OBVIOUS
    <3>1. EntriesOf(d) \subseteq Listed' \cup Reached'
      BY <1>0, <1>2, <2>1 DEF NothingLost, Accounted
    <3>2. task'[d] # "reading" /\ task'[d] # "merge"
      BY <1>3
    <3>3. EntriesOf(d)' = EntriesOf(d)
      BY DEF EntriesOf
    <3> QED
      BY <3>1, <3>2, <3>3 DEF Accounted
  <2> QED
    BY <1>0, <2>1, <2>2, <2>3, LossFree
<1> QED
  BY <1>6, <1>7, <1>8, <1>9 DEF ListingInv

-----------------------------------------------------------------------------
(* The invariant, action by action: the caller.                            *)

\* A level begins.
LEMMA StartStep ==
    ASSUME ListingInv, StartLevel
    PROVE  ListingInv'
<1> USE DEF taskVars, levelVars, mergeVars, flagVars
<1>0. Typed /\ Counted /\ LevelSound /\ AllPosted /\ NothingLost /\ TaskOK /\ LevelOK /\ MainOK
  BY DEF ListingInv, Typed
<1>1. /\ main = "level"
      /\ UNCHANGED <<current_level, all_entries, next_level, level_entries, rest, local_files,
                     local_subdirs, visited, enumeration_complete, alias_omitted, cancelled>>
  BY Zenon DEF StartLevel
<1>2. /\ Active = {} /\ unposted = {} /\ next_level = {} /\ level_entries = {}
      /\ current_level \subseteq Dirs
  BY <1>0, <1>1 DEF LevelSound, LevelOK
<1>3. Listed' = Listed /\ (Excused' <=> Excused)
  BY <1>1 DEF Listed, Excused
<1>4. CASE Cardinality(current_level) = 1
  <2>1. /\ main' = "inline" /\ pending_tasks' = 1 /\ UNCHANGED unposted
        /\ task' = [d \in Dirs |-> IF d \in current_level THEN "queued" ELSE task[d]]
    BY <1>4, Zenon DEF StartLevel
  <2>2. /\ \A d \in Dirs : task'[d] = IF d \in current_level THEN "queued" ELSE task[d]
        /\ TaskOK'
    BY <1>0, <2>1, SMT DEF TaskOK, TaskStates
  <2>3. "queued" \in ActiveStates /\ "queued" # "none"
    BY SMT DEF ActiveStates
  <2>4. Active' = current_level /\ Begun' = Begun \cup current_level
    BY <1>2, <2>2, <2>3 DEF Active, Begun
  <2>5. Counted'
    BY <1>4, <2>1, <2>4 DEF Counted
  <2>6. /\ MainOK' /\ main' \notin {"level", "collect", "returned", "post"}
    BY <2>1, SMT DEF MainOK, MainStates
  <2>7. LevelSound'
    BY <1>1, <1>2, <2>1, <2>4, <2>6 DEF LevelSound
  <2>8. AllPosted'
    BY <1>1, <1>2, <2>2, <2>3 DEF AllPosted
  <2>9. Typed'
    BY <1>0, <1>1, <2>1, <2>2, <2>6, KeptTypes DEF Typed
  <2>10. NothingLost'
    <3>1. Reached \subseteq Reached'
      BY <1>1, <2>4 DEF Reached
    <3>2. ASSUME NEW d \in Dirs PROVE Still(d) \/ Accounted(d)'
      <4>1. CASE d \in current_level
        <5>1. task'[d] # "reading" /\ task'[d] # "merge" /\ task'[d] \notin EndStates
          BY <2>2, <4>1, StatesAre
        <5> QED
          BY <5>1 DEF Accounted
      <4>2. CASE d \notin current_level
        BY <1>1, <2>2, <4>2 DEF Still
      <4> QED
        BY <4>1, <4>2
    <3> QED
      BY <1>0, <1>3, <3>1, <3>2, LossFree
  <2> QED
    BY <2>5, <2>7, <2>8, <2>9, <2>10 DEF ListingInv
<1>5. CASE Cardinality(current_level) # 1
  <2>1. main' = "post" /\ pending_tasks' = 0 /\ unposted' = current_level /\ UNCHANGED task
    BY <1>5, Zenon DEF StartLevel
  <2>2. Active' = Active /\ Begun' = Begun
    BY <2>1 DEF Active, Begun
  <2>3. Counted'
    BY <1>2, <2>1, <2>2, FS_EmptySet DEF Counted
  <2>4. MainOK' /\ main' \notin {"level", "collect", "returned"}
    BY <2>1, SMT DEF MainOK, MainStates
  <2>5. LevelSound'
    BY <1>1, <1>2, <2>1, <2>2, <2>4 DEF LevelSound
  <2>6. AllPosted'
    BY <1>1, <2>1 DEF AllPosted
  <2>7. LevelOK'
    BY <1>0, <1>1, <2>1 DEF LevelOK
  <2>8. Typed'
    BY <1>0, <1>1, <2>1, <2>4, <2>7, KeptTypes DEF Typed
  <2>9. NothingLost'
    <3>1. Reached' = Reached
      BY <1>1, <2>2 DEF Reached
    <3>2. \A d \in Dirs : Still(d)
      BY <1>1, <2>1 DEF Still
    <3> QED
      BY <1>0, <1>3, <3>1, <3>2, LossFree
  <2> QED
    BY <2>3, <2>5, <2>6, <2>8, <2>9 DEF ListingInv
<1> QED
  BY <1>4, <1>5

\* A directory of the level is given to the pool.
LEMMA PostStep ==
    ASSUME ListingInv, NEW d \in Dirs, PostTask(d)
    PROVE  ListingInv'
<1> USE DEF taskVars, levelVars, mergeVars, flagVars
<1>0. Typed /\ Counted /\ LevelSound /\ AllPosted /\ NothingLost /\ TaskOK /\ LevelOK
  BY DEF ListingInv, Typed
<1>1. /\ main = "post" /\ d \in unposted /\ unposted' = unposted \ {d}
      /\ pending_tasks' = pending_tasks + 1 /\ task' = [task EXCEPT ![d] = "queued"]
      /\ UNCHANGED <<main, current_level, all_entries, next_level, level_entries, rest,
                     local_files, local_subdirs, visited, enumeration_complete,
                     alias_omitted, cancelled>>
  BY Zenon DEF PostTask
<1>2. "queued" \in TaskStates /\ "queued" # "none" /\ "queued" \in ActiveStates
  BY SMT DEF TaskStates, ActiveStates
<1>3. /\ TaskOK' /\ (\A c \in Dirs : task'[c] = IF c = d THEN "queued" ELSE task[c])
      /\ Active' = Active \cup {d} /\ Begun' = Begun \cup {d}
  BY <1>0, <1>1, <1>2, TaskGoes
<1>4. d \notin Active /\ d \in current_level
  BY <1>0, <1>1 DEF LevelSound
<1>5. Counted'
  <2>1. IsFiniteSet(Active) /\ Cardinality(Active) \in Nat
    BY ActiveFinite
  <2>2. Cardinality(Active \cup {d}) = Cardinality(Active) + 1
    BY <1>4, <2>1, FS_AddElement
  <2> QED
    BY <1>0, <1>1, <1>3, <2>2 DEF Counted
<1>6. LevelSound'
  <2>1. main \notin {"level", "collect", "returned"}
    BY <1>1
  <2> QED
    BY <1>0, <1>1, <1>3, <1>4, <2>1 DEF LevelSound
<1>7. AllPosted'
  <2>1. \A c \in current_level : task'[c] # "none" \/ c \in unposted' \/ task'[c] = task[c]
    BY <1>0, <1>2, <1>3 DEF LevelOK
  <2>2. task'[d] # "none"
    BY <1>2, <1>3
  <2> QED
    BY <1>0, <1>1, <2>1, <2>2 DEF AllPosted
<1>8. LevelOK'
  BY <1>0, <1>1 DEF LevelOK
<1>9. Typed'
  BY <1>0, <1>1, <1>3, <1>8, KeptTypes DEF Typed
<1>10. NothingLost'
  <2>1. Listed' = Listed /\ Reached \subseteq Reached' /\ (Excused' <=> Excused)
    BY <1>1, <1>3 DEF Listed, Reached, Excused
  <2>2. \A c \in Dirs \ {d} : Still(c)
    BY <1>1, <1>3 DEF Still
  <2>3. Accounted(d)'
    <3>1. task'[d] # "reading" /\ task'[d] # "merge" /\ task'[d] \notin EndStates
      BY <1>3, StatesAre
    <3> QED
      BY <3>1 DEF Accounted
  <2> QED
    BY <1>0, <2>1, <2>2, <2>3, LossFree
<1> QED
  BY <1>5, <1>6, <1>7, <1>9, <1>10 DEF ListingInv

\* The caller goes on without touching tasks and results: the end of posting,
\* the two reads of pending_tasks, the end of a level of one directory, the
\* return; or the signal arrives.
LEMMA CallerStep ==
    ASSUME ListingInv,
           \/ PostingEnds \/ CheckPending \/ WaitForTasks \/ InlineEnds \/ Return \/ Cancel
           \/ UNCHANGED vars
    PROVE  ListingInv'
<1> USE DEF taskVars, levelVars, mergeVars, flagVars
<1>0. /\ Typed /\ Counted /\ LevelSound /\ AllPosted /\ NothingLost /\ LevelOK /\ MainOK
      /\ FlagsOK /\ TaskOK
  BY DEF ListingInv, Typed
<1>1. UNCHANGED <<current_level, all_entries, next_level, level_entries, pending_tasks, task,
                  rest, local_files, local_subdirs, visited, enumeration_complete,
                  alias_omitted>>
  BY Zenon DEF PostingEnds, CheckPending, WaitForTasks, InlineEnds, Return, Cancel, vars
<1>2. Active' = Active /\ Begun' = Begun /\ Listed' = Listed /\ Reached' = Reached
  BY <1>1 DEF Active, Begun, Listed, Reached
<1>3. /\ FlagsOK' /\ (~cancelled' => ~cancelled)
      /\ cancelled' = cancelled \/ (Cancel /\ UNCHANGED <<main, unposted>>)
  <2>1. CASE Cancel
    <3>1. UNCHANGED <<main, unposted>>
      BY <2>1, Zenon DEF Cancel
    <3>2. cancelled' /\ cancelled' \in BOOLEAN
      BY <2>1, Zenon DEF Cancel
    <3>3. FlagsOK'
      BY <1>0, <1>1, <3>2, Zenon DEF FlagsOK
    <3> QED
      BY <2>1, <3>1, <3>2, <3>3
  <2>2. CASE PostingEnds \/ CheckPending \/ WaitForTasks \/ InlineEnds \/ Return \/ UNCHANGED vars
    <3>1. UNCHANGED cancelled
      BY <2>2, Zenon DEF PostingEnds, CheckPending, WaitForTasks, InlineEnds, Return, vars
    <3>2. FlagsOK'
      BY <1>0, <1>1, <3>1, KeptTypes
    <3> QED
      BY <3>1, <3>2
  <2> QED
    BY <2>1, <2>2
<1>4. NothingLost'
  <2>1. ~Excused' => ~Excused
    BY <1>1, <1>3 DEF Excused
  <2>2. \A d \in Dirs : Still(d)
    BY <1>1 DEF Still
  <2> QED
    BY <1>0, <1>2, <2>1, <2>2, LossFree
<1>5. Counted'
  BY <1>0, <1>1, <1>2 DEF Counted
<1>6. SUFFICES MainOK' /\ LevelOK' /\ LevelSound' /\ AllPosted'
  BY <1>0, <1>1, <1>3, <1>4, <1>5, KeptTypes DEF Typed, ListingInv
<1>7. CASE UNCHANGED <<main, unposted>>
  <2>1. MainOK' /\ LevelOK'
    BY <1>0, <1>1, <1>7, KeptTypes
  <2>2. main = "returned" => (cancelled' <=> cancelled)
    BY <1>3, Zenon DEF Cancel
  <2>3. LevelSound'
    BY <1>0, <1>1, <1>2, <1>7, <2>2 DEF LevelSound
  <2>4. AllPosted'
    BY <1>0, <1>1, <1>3, <1>7 DEF AllPosted
  <2> QED
    BY <2>1, <2>3, <2>4
<1>8. CASE PostingEnds
  <2>1. /\ main = "post" /\ (unposted = {} \/ cancelled) /\ main' = "check" /\ unposted' = {}
        /\ UNCHANGED cancelled
    BY <1>8, Zenon DEF PostingEnds
  <2>2. MainOK' /\ main' \notin {"level", "collect", "returned"} /\ main \in AtWork
    BY <2>1, SMT DEF MainOK, MainStates, AtWork
  <2>3. LevelOK'
    BY <1>0, <1>1, <2>1 DEF LevelOK
  <2>4. LevelSound'
    BY <1>0, <1>1, <1>2, <2>1, <2>2 DEF LevelSound
  <2>5. AllPosted'
    BY <1>0, <1>1, <2>1, <2>2 DEF AllPosted
  <2> QED
    BY <2>2, <2>3, <2>4, <2>5
<1>9. CASE CheckPending \/ WaitForTasks \/ InlineEnds
  <2>1. UNCHANGED <<unposted, cancelled>>
    BY <1>9, Zenon DEF CheckPending, WaitForTasks, InlineEnds
  <2>2. /\ main \in AtWork /\ main' \in AtWork \ {"post"} /\ main # "post"
        /\ main' = "collect" => Active = {}
    <3>1. CASE CheckPending
      <4>1. main = "check" /\ main' = IF pending_tasks > 0 THEN "wait" ELSE "collect"
        BY <3>1, Zenon DEF CheckPending
      <4>2. main' = "collect" => Active = {}
        BY <1>0, <4>1, ActiveFinite, SMT DEF Counted
      <4> QED
        BY <4>1, <4>2, SMT DEF AtWork
    <3>2. CASE WaitForTasks
      <4>1. main = "wait" /\ main' = IF pending_tasks = 0 THEN "collect" ELSE "asleep"
        BY <3>2, Zenon DEF WaitForTasks
      <4>2. main' = "collect" => Active = {}
        BY <1>0, <4>1, ActiveFinite, SMT DEF Counted
      <4> QED
        BY <4>1, <4>2, SMT DEF AtWork
    <3>3. CASE InlineEnds
      <4>1. main = "inline" /\ main' = "collect" /\ \A d \in current_level : task[d] = "done"
        BY <3>3, Zenon DEF InlineEnds
      <4>2. \A d \in current_level : d \notin Active
        BY <4>1, StatesAre DEF Active
      <4>3. Active = {}
        BY <1>0, <4>2 DEF LevelSound
      <4> QED
        BY <4>1, <4>3, SMT DEF AtWork
    <3> QED
      BY <1>9, <3>1, <3>2, <3>3
  <2>3. MainOK' /\ main' \notin {"level", "returned", "post"}
    BY <2>2, SMT DEF MainOK, MainStates, AtWork
  <2>4. LevelOK'
    BY <1>0, <1>1, <2>1, KeptTypes
  <2>5. LevelSound'
    BY <1>0, <1>1, <1>2, <2>1, <2>2, <2>3 DEF LevelSound
  <2>6. AllPosted'
    BY <1>0, <1>1, <2>1, <2>2 DEF AllPosted
  <2> QED
    BY <2>3, <2>4, <2>5, <2>6
<1>10. CASE Return
  <2>1. /\ main = "level" /\ (current_level = {} \/ cancelled) /\ main' = "returned"
        /\ UNCHANGED <<unposted, cancelled>>
    BY <1>10, Zenon DEF Return
  <2>2. MainOK' /\ main' \notin AtWork /\ main' # "post"
    BY <2>1, SMT DEF MainOK, MainStates, AtWork
  <2>3. LevelOK'
    BY <1>0, <1>1, <2>1, KeptTypes
  <2>4. LevelSound'
    BY <1>0, <1>1, <1>2, <2>1, <2>2 DEF LevelSound
  <2>5. AllPosted'
    BY <2>2 DEF AllPosted
  <2> QED
    BY <2>2, <2>3, <2>4, <2>5
<1>11. CASE Cancel \/ UNCHANGED vars
  <2>1. UNCHANGED <<main, unposted>>
    BY <1>11, Zenon DEF Cancel, vars
  <2> QED
    BY <1>7, <2>1
<1> QED
  BY <1>8, <1>9, <1>10, <1>11

\* The results of the level are taken, and the next level begins.
LEMMA CollectStep ==
    ASSUME ListingInv, CollectLevel
    PROVE  ListingInv'
<1> USE DEF taskVars, levelVars, mergeVars, flagVars
<1>0. Typed /\ Counted /\ LevelSound /\ AllPosted /\ NothingLost /\ LevelOK
  BY DEF ListingInv, Typed
<1>1. /\ main = "collect" /\ all_entries' = all_entries \cup level_entries
      /\ current_level' = next_level /\ next_level' = {} /\ level_entries' = {}
      /\ main' = "level"
      /\ UNCHANGED <<unposted, pending_tasks, task, rest, local_files, local_subdirs, visited,
                     enumeration_complete, alias_omitted, cancelled>>
  BY Zenon DEF CollectLevel
<1>2. Active = {} /\ unposted = {}
  BY <1>0, <1>1 DEF LevelSound
<1>3. Active' = Active /\ Begun' = Begun
  BY <1>1 DEF Active, Begun
<1>4. MainOK' /\ main' \notin AtWork /\ main' # "returned" /\ main' # "post" /\ main \in AtWork
  BY <1>1, SMT DEF MainOK, MainStates, AtWork
<1>5. LevelOK'
  BY <1>0, <1>1 DEF LevelOK
<1>6. Typed' /\ Counted'
  BY <1>0, <1>1, <1>3, <1>4, <1>5, KeptTypes DEF Typed, Counted
<1>7. LevelSound' /\ AllPosted'
  BY <1>1, <1>2, <1>3, <1>4 DEF LevelSound, AllPosted
<1>8. NothingLost'
  <2>1. Listed' = Listed /\ (Excused' <=> Excused)
    BY <1>1 DEF Listed, Excused
  <2>2. ~Excused' => Reached \subseteq Reached'
    <3> SUFFICES ASSUME ~Excused' PROVE Reached \subseteq Reached'
      OBVIOUS
    <3>1. ~cancelled
      BY <1>1 DEF Excused
    <3>2. \A d \in current_level : task[d] # "none"
      BY <1>0, <1>2, <1>4, <3>1 DEF AllPosted
    <3>3. current_level \subseteq Begun
      BY <1>0, <3>2 DEF Begun, LevelOK
    <3> QED
      BY <1>1, <1>3, <3>3 DEF Reached
  <2>3. \A d \in Dirs : Still(d)
    BY <1>1 DEF Still
  <2> QED
    BY <1>0, <2>1, <2>2, <2>3, LossFree
<1> QED
  BY <1>6, <1>7, <1>8 DEF ListingInv

-----------------------------------------------------------------------------
(* The theorems.                                                           *)

\* The initial state.
LEMMA InitInv == Init => ListingInv
<1> SUFFICES ASSUME Init PROVE ListingInv
  OBVIOUS
<1>1. /\ main = "level" /\ current_level = {Root} /\ next_level = {} /\ unposted = {}
      /\ pending_tasks = 0 /\ task = [d \in Dirs |-> "none"] /\ rest = [d \in Dirs |-> {}]
      /\ local_files = [d \in Dirs |-> {}] /\ local_subdirs = [d \in Dirs |-> {}]
      /\ level_entries = {} /\ all_entries = {} /\ visited = {Target[Root]}
  BY Zenon DEF Init
<1>2. FlagsOK
  BY Zenon DEF Init, FlagsOK
<1>3. \A d \in Dirs : task[d] = "none"
  BY <1>1
<1>4. Active = {}
  BY <1>3, StatesAre DEF Active
<1>5. main \notin AtWork /\ main # "returned" /\ MainOK
  BY <1>1, SMT DEF AtWork, MainOK, MainStates
<1>6. Typed
  <2>1. LevelOK /\ VisitedOK
    BY <1>1 DEF LevelOK, VisitedOK
  <2>2. TaskOK /\ RestOK /\ LocalOK
    BY <1>1, SMT DEF TaskOK, RestOK, LocalOK, TaskStates
  <2> QED
    BY <1>2, <1>5, <2>1, <2>2 DEF Typed
<1>7. Counted /\ LevelSound /\ AllPosted
  BY <1>1, <1>4, <1>5, FS_EmptySet DEF Counted, LevelSound, AllPosted
<1>8. NothingLost
  <2>1. \A d \in Dirs : Accounted(d)
    BY <1>3, StatesAre DEF Accounted
  <2>2. Root \in Reached
    BY <1>1 DEF Reached
  <2> QED
    BY <2>1, <2>2 DEF NothingLost
<1> QED
  BY <1>6, <1>7, <1>8 DEF ListingInv

\* Every step.
LEMMA StepInv ==
    ASSUME ListingInv, [Next]_vars
    PROVE  ListingInv'
<1>1. CASE \/ PostingEnds \/ CheckPending \/ WaitForTasks \/ InlineEnds \/ Return \/ Cancel
           \/ UNCHANGED vars
  BY <1>1, CallerStep
<1>2. CASE StartLevel \/ CollectLevel
  BY <1>2, StartStep, CollectStep
<1>3. ASSUME NEW d \in Dirs, PostTask(d) PROVE ListingInv'
  BY <1>3, PostStep
<1>4. ASSUME NEW d \in Dirs, \/ BeginTask(d) \/ ReadingFails(d) \/ ReadingEnds(d)
                             \/ MergeResults(d) \/ FinishTask(d) \/ NotifyCaller(d)
      PROVE  ListingInv'
  BY <1>4, BeginStep, ReadEndStep, MergeStep, FinishStep, NotifyStep
<1>5. ASSUME NEW d \in Dirs, NEW e \in rest[d],
             ReadFile(d, e) \/ ReadDir(d, e) \/ DropEntry(d, e)
      PROVE  ListingInv'
  BY <1>5, ReadStepInv
<1> QED
  BY <1>1, <1>2, <1>3, <1>4, <1>5, NextCases, Zenon

\* The inductive invariant holds in every reachable state.
LEMMA InvHolds == Spec => []ListingInv
  BY InitInv, StepInv, PTL DEF Spec

\* The types of the listing, and the bound of pending_tasks.
THEOREM ListingTypeCorrect == Spec => []TypeOK
<1>1. ListingInv => TypeOK
  <2> SUFFICES ASSUME ListingInv PROVE TypeOK
    OBVIOUS
  <2>1. MainOK /\ LevelOK /\ TaskOK /\ RestOK /\ LocalOK /\ VisitedOK /\ FlagsOK /\ Counted
    BY DEF ListingInv, Typed
  <2>2. pending_tasks \in 0..Cardinality(Dirs)
    BY <2>1, ActiveFinite, SMT DEF Counted
  <2> QED
    BY <2>1, <2>2, Zenon DEF TypeOK, MainOK, LevelOK, TaskOK, RestOK, LocalOK, VisitedOK, FlagsOK
<1> QED
  BY <1>1, InvHolds, PTL

\* When parallel_enumerate_local_directory or parallel_enumerate_s3_prefix reads
\* the results of a level without a lock, no task can still write to them.
THEOREM CollectedWhenQuiet == Spec => []LevelIsQuiet
<1>1. ListingInv => LevelIsQuiet
  <2> SUFFICES ASSUME ListingInv, main = "collect", NEW d \in Dirs
               PROVE  task[d] \notin {"queued", "reading", "merge", "finish"}
    BY DEF LevelIsQuiet
  <2>1. Active = {}
    BY DEF ListingInv, LevelSound
  <2> QED
    BY <2>1 DEF Active, ActiveStates
<1> QED
  BY <1>1, InvHolds, PTL

\* What the listing returns keeps the promise of Listing, which the models of
\* run_sync, run_rm and run_directory_comparison start from: every file is in it,
\* or it says that it is not complete, or that an alias was left out, or it was
\* cancelled.
THEOREM ListingKeepsItsPromise == Spec => []KeepsPromise
<1>1. ListingInv => KeepsPromise
  <2> SUFFICES ASSUME ListingInv, main = "returned"
               PROVE  [entries |-> all_entries, complete |-> enumeration_complete,
                       alias |-> alias_omitted] \in Outcomes(Files, cancelled)
    BY DEF KeepsPromise
  <2>0. LevelOK /\ FlagsOK /\ TaskOK /\ LevelSound /\ NothingLost
    BY DEF ListingInv, Typed
  <2>1. ~Excused => all_entries = Files
    <3> SUFFICES ASSUME ~Excused PROVE Files \subseteq all_entries
      BY <2>0 DEF LevelOK
    <3>1. Root \in Reached /\ \A d \in Dirs : Accounted(d)
      BY <2>0 DEF NothingLost
    <3>2. /\ Active = {} /\ next_level = {} /\ level_entries = {} /\ current_level = {}
      BY <2>0 DEF LevelSound, Excused
    <3>3. Reached = Begun /\ Listed = all_entries
      BY <3>2 DEF Reached, Listed
    <3>4. \A d \in Begun : task[d] \in EndStates
      <4>1. \A d \in Dirs : task[d] \in TaskStates /\ task[d] \notin ActiveStates
        BY <2>0, <3>2 DEF TaskOK, Active
      <4> QED
        BY <4>1 DEF Begun, TaskStates, ActiveStates, EndStates
    <3>5. \A d \in Begun : EntriesOf(d) \subseteq all_entries \cup Begun
      BY <3>1, <3>3, <3>4 DEF Accounted, Begun
    <3>6. ASSUME NEW d \in Dirs \ {Root}, Parent[d] \in Begun PROVE d \in Begun
      <4>1. d \in EntriesOf(Parent[d])
        BY DEF EntriesOf
      <4>2. d \notin all_entries
        BY <2>0 DEF LevelOK
      <4> QED
        BY <3>5, <3>6, <4>1, <4>2
    <3>7. Begun = Dirs
      <4>1. Begun \in SUBSET Dirs
        BY DEF Begun
      <4>2. Root \in Begun
        BY <3>1, <3>3
      <4> QED
        BY <3>6, <4>1, <4>2
    <3>8. ASSUME NEW f \in Files PROVE f \in all_entries
      <4>1. f # Root /\ f \notin Dirs /\ Parent[f] \in Dirs
        OBVIOUS
      <4>2. f \in EntriesOf(Parent[f])
        BY <4>1 DEF EntriesOf
      <4> QED
        BY <3>5, <3>7, <4>1, <4>2
    <3> QED
      BY <3>8
  <2>2. all_entries \subseteq Files
    BY <2>0 DEF LevelOK
  <2> DEFINE o == [entries |-> all_entries, complete |-> enumeration_complete,
                   alias |-> alias_omitted]
  <2>3. o \in [entries : SUBSET Files, complete : BOOLEAN, alias : BOOLEAN]
    BY <2>0, <2>2, Zenon DEF FlagsOK
  <2>4. o.entries = all_entries /\ o.complete = enumeration_complete /\ o.alias = alias_omitted
    BY Zenon
  <2> HIDE DEF o
  <2>5. cancelled \/ (o.complete /\ ~o.alias => o.entries = Files)
    BY <2>1, <2>4, Zenon DEF Excused
  <2>6. o \in Outcomes(Files, cancelled)
    BY <2>3, <2>5, Zenon DEF Outcomes
  <2> QED
    BY <2>6 DEF o
<1> QED
  BY <1>1, InvHolds, PTL
================================================================================

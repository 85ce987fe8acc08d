--------------------------- MODULE DirCompareProofs ---------------------------
(***************************************************************************)
(* For every pair of directories, of finitely many files, and every value  *)
(* of --threads: DirCompare is type correct, its verdicts are true, no     *)
(* result is lost, exit code 0 means equality, --threads bounds a side.    *)
(***************************************************************************)
EXTENDS DirCompare, FiniteSetTheorems, TLAPS

-----------------------------------------------------------------------------
(* The parts of the inductive invariant.                                   *)

States  == {"idle", "posted", "crcs", "evaluate", "end", "done"}
Records == {Unknown, "Only", "Match", "Mismatch", "Error"}
Tasks   == [state : States, size : [Sides -> Int], todo : SUBSET Sides,
            crcs : [Sides -> Seq(Chunks)]]
Working == {"submit", "blocked", "drain"}

AskedOK   == tree \in Trees /\ num_threads \in Threads /\ mode \in {"directory", "file"}
PhaseOK   == phase \in {"listing", "file", "returned"} \cup Working
ListingOK == /\ entries \in [Sides -> SUBSET Names] /\ listed \subseteq Sides
             /\ \A s \in Sides : entries[s] \subseteq DOMAIN tree[s]
CompleteOK == complete \in [Sides -> BOOLEAN]
WindowOK  == window \in Nat /\ (phase \in Working => window <= max_concurrency)
TaskOK    == task \in [Names -> Tasks]
RecordOK  == record \in [Names -> Records]
FlagsOK   == shutdown \in BOOLEAN /\ cancelled \in BOOLEAN /\ success \in BOOLEAN
ExitOK    == exit \in {-1, 0, 1, 130}

\* The types.
Typed == /\ AskedOK /\ PhaseOK /\ ListingOK /\ CompleteOK /\ WindowOK /\ TaskOK /\ RecordOK
         /\ FlagsOK /\ ExitOK

\* The files of a comparison of directories are the common ones, the file of a
\* comparison of two files is on both sides; and the phase fits what was asked for.
Compared == IF mode = "directory" THEN Common ELSE {1}
PhaseSound ==
    /\ mode = "directory" => phase # "file"
    /\ mode = "file" => phase \in {"file", "returned"} /\ \A s \in Sides : 1 \in DOMAIN tree[s]

\* A task compares a file that is on both sides, with sizes and checksums that
\* are of that file, or that it could not get.
SizesTrue(f, t) == \A s \in Sides : t.size[s] = Len(tree[s][f])
CrcsTrue(f, t)  == \A s \in Sides : t.crcs[s] \in {tree[s][f], <<>>}
SizesUnknown(t) == \A s \in Sides : t.size[s] = -1
Fits(f, t) ==
    /\ t.state # "idle" => f \in Compared
    /\ t.state \in {"idle", "posted"} => SizesUnknown(t) /\ \A s \in Sides : t.crcs[s] = <<>>
    /\ t.state = "crcs" => SizesTrue(f, t) /\ CrcsTrue(f, t)
    /\ t.state = "evaluate" => (SizesTrue(f, t) /\ CrcsTrue(f, t)) \/ SizesUnknown(t)
TasksSound == \A f \in Names : Fits(f, task[f])

\* Nothing is compared or recorded before the listing is done, nothing is
\* compared any more once the comparison has returned.
Quiet ==
    /\ phase = "listing" => \A f \in Names : task[f].state = "idle" /\ record[f] = Unknown
    /\ phase = "returned" => InFlight = {}

\* A comparison of directories goes on from complete listings only; it has
\* recorded what only one side has, and every common file that was compared,
\* unless it was cancelled.
FilesRecorded ==
    /\ \A s \in Sides : complete[s]
    /\ \A f \in Names : record[f] # Unknown => f \in entries["a"] \cup entries["b"]
    /\ \A f \in Names : (\E s \in Sides : f \in Only(s)) => record[f] = "Only"
    /\ ~cancelled => \A f \in Common : task[f].state \in {"end", "done"} => record[f] # Unknown
Recorded == mode = "directory" /\ (phase \in Working \/ success) => FilesRecorded

\* The submit loop is left when everything was posted, or cancelled.
AllPosted == mode = "directory" /\ phase = "drain" /\ ~cancelled => Waiting = {}

\* Success, of directories: every common file was compared.
Successful ==
    mode = "directory" /\ success =>
        phase = "returned" /\ ~cancelled /\ \A f \in Common : task[f].state = "done"

\* Two files: what was compared has a result.
FileRecorded ==
    mode = "file" => /\ 1 \in Names
                     /\ task[1].state \in {"end", "done"} => record[1] # Unknown
                     /\ success => phase = "returned" /\ task[1].state = "done"

\* Exit code 0 is the code of a success without a difference.
ZeroSound == exit = 0 => phase = "returned" /\ success /\ AllOk

\* No more files are in flight than the window has room for.
WindowSound == phase \in Working => Cardinality(InFlight) <= window

CompareInv ==
    /\ Typed /\ PhaseSound /\ TasksSound /\ Quiet /\ Recorded /\ AllPosted /\ Successful
    /\ FileRecorded /\ ZeroSound /\ WindowSound /\ VerdictsTrue

-----------------------------------------------------------------------------
(* The steps, and the operators of the model.                              *)

USE DirCompareAssumption

\* A step is one of the actions.
LEMMA NextCases ==
    ASSUME [Next]_vars
    PROVE  \/ exit = -1 /\ \E s \in Sides : List(s)
           \/ exit = -1 /\ (Listed \/ Submit \/ Merge \/ CompareFiles \/ Cancel \/ Exit)
           \/ exit = -1 /\ \E f \in Names : Sizes(f) \/ Evaluate(f)
           \/ exit = -1 /\ \E f \in Names : \E s \in Sides : compute_source_crcs(f, s)
           \/ exit = -1 /\ mode = "directory" /\ \E f \in Names : Release(f)
           \/ RequestShutdown \/ SecondSignal
           \/ UNCHANGED vars
  BY Zenon DEF Next, Program, Compare, Terminated

\* The files of a side are names, and sequences of chunks.
LEMMA FilesTyped ==
    ASSUME AskedOK, NEW s \in Sides
    PROVE  /\ DOMAIN tree[s] \subseteq Names /\ IsFiniteSet(DOMAIN tree[s])
           /\ \A f \in DOMAIN tree[s] : tree[s][f] \in Seq(Chunks) /\ Len(tree[s][f]) \in Nat
<1>1. tree \in Trees
  BY DEF AskedOK
<1>2. IsFiniteSet(DOMAIN tree[s]) /\ \A f \in DOMAIN tree[s] : tree[s][f] \in Seq(Chunks)
  BY <1>1, Zenon DEF Sides
<1>3. \A f \in DOMAIN tree[s] : Len(tree[s][f]) \in Nat
  BY <1>2, SMT
<1>4. DOMAIN tree[s] \subseteq Names
  <2>1. s = "a" \/ s = "b"
    BY DEF Sides
  <2>2. DOMAIN tree["a"] \cup DOMAIN tree["b"] \subseteq Names
    BY <1>1 DEF Names
  <2> QED
    BY <2>1, <2>2
<1> QED
  BY <1>2, <1>3, <1>4

\* The common files are on both sides, and so is what is compared.
LEMMA CommonTyped ==
    ASSUME AskedOK, ListingOK
    PROVE  /\ Common \subseteq Names /\ IsFiniteSet(Common) /\ Cardinality(Common) \in Nat
           /\ \A s \in Sides : Common \subseteq DOMAIN tree[s]
           /\ \A s \in Sides : Only(s) \subseteq Names /\ Only(s) \cap Common = {}
           /\ PhaseSound => Compared \subseteq Names /\ \A s \in Sides : Compared \subseteq DOMAIN tree[s]
<1>1. \A s \in Sides : entries[s] \subseteq DOMAIN tree[s]
  BY DEF ListingOK
<1>2. "a" \in Sides /\ "b" \in Sides /\ \A s \in Sides : s = "a" \/ s = "b"
  BY DEF Sides
<1>3. \A s \in Sides : Common \subseteq DOMAIN tree[s]
  BY <1>1, <1>2 DEF Common
<1>4. IsFiniteSet(DOMAIN tree["a"]) /\ \A s \in Sides : DOMAIN tree[s] \subseteq Names
  BY <1>2, FilesTyped
<1>5. IsFiniteSet(Common) /\ Cardinality(Common) \in Nat /\ Common \subseteq Names
  BY <1>2, <1>3, <1>4, FS_Subset, FS_CardinalityType
<1>6. \A s \in Sides : Only(s) \subseteq Names /\ Only(s) \cap Common = {}
  BY <1>1, <1>4 DEF Only
<1>7. PhaseSound => Compared \subseteq Names /\ \A s \in Sides : Compared \subseteq DOMAIN tree[s]
  <2>1. CASE mode = "directory"
    BY <2>1, <1>3, <1>5 DEF Compared
  <2>2. CASE mode = "file"
    <3>1. Compared = {1}
      BY <2>2, SMT DEF Compared
    <3>2. PhaseSound => \A s \in Sides : 1 \in DOMAIN tree[s]
      BY <2>2 DEF PhaseSound
    <3> QED
      BY <1>2, <1>4, <3>1, <3>2
  <2> QED
    BY <2>1, <2>2 DEF AskedOK
<1> QED
  BY <1>3, <1>5, <1>6, <1>7

\* Every file is given a thread, and the files of a full window no more than
\* there are.
LEMMA BudgetTyped ==
    ASSUME AskedOK, ListingOK
    PROVE  /\ max_threads \in Nat \ {0} /\ threads_per_file \in Nat \ {0}
           /\ max_concurrency \in Nat /\ max_concurrency * threads_per_file <= max_threads
           /\ initial_concurrency \in Nat /\ initial_concurrency <= max_concurrency
<1>1. max_threads \in Nat \ {0}
  BY SMT DEF AskedOK, max_threads
<1>2. IsFiniteSet(Common) /\ Cardinality(Common) \in Nat
  BY CommonTyped
<1>3. MultiChunk \in Nat
  <2>1. {f \in Common : SizeOf(f) > 1} \subseteq Common
    OBVIOUS
  <2> QED
    BY <1>2, <2>1, FS_Subset, FS_CardinalityType DEF MultiChunk
<1>4. threads_per_file \in Nat \ {0}
  <2> DEFINE n == Cardinality(Common)
             m == MultiChunk
  <2>1. n \in Nat /\ m \in Nat
    BY <1>2, <1>3
  <2>2. threads_per_file = IF n = 0 \/ m = 0 THEN 1
                           ELSE IF SingleChunk = 0 THEN Larger(1, max_threads \div n)
                           ELSE IF 2 * m > n THEN (4 * m) \div n + 1
                           ELSE 1
    BY DEF threads_per_file
  <2> HIDE DEF n, m
  <2>3. n # 0 => max_threads \div n \in Nat
    BY <1>1, <2>1, SMT
  <2>4. n # 0 => (4 * m) \div n \in Nat
    <3>1. 4 * m \in Nat
      BY <2>1, SMT
    <3> QED
      BY <2>1, <3>1, SMT
  <2>5. n # 0 => Larger(1, max_threads \div n) \in Nat \ {0}
    BY <2>3, SMT DEF Larger
  <2>6. n # 0 => (4 * m) \div n + 1 \in Nat \ {0}
    BY <2>4, SMT
  <2> QED
    BY <2>2, <2>5, <2>6, SMT
<1>5. max_concurrency \in Nat /\ max_concurrency * threads_per_file <= max_threads
  BY <1>1, <1>4, SMT DEF max_concurrency
<1>6. initial_concurrency \in Nat /\ initial_concurrency <= max_concurrency
  BY <1>2, <1>5, SMT DEF initial_concurrency, Smaller
<1> QED
  BY <1>1, <1>4, <1>5, <1>6

\* The budget does not change after the listing.
LEMMA BudgetFixed ==
    ASSUME UNCHANGED <<tree, num_threads, entries>>
    PROVE  /\ Common' = Common /\ max_threads' = max_threads
           /\ threads_per_file' = threads_per_file /\ max_concurrency' = max_concurrency
           /\ \A s : Only(s)' = Only(s)
<1>1. Common' = Common /\ max_threads' = max_threads
  BY DEF Common, max_threads
<1>2. MultiChunk' = MultiChunk /\ SingleChunk' = SingleChunk
  BY <1>1 DEF MultiChunk, SingleChunk, SizeOf
<1>3. threads_per_file' = threads_per_file
  BY <1>1, <1>2 DEF threads_per_file
<1>4. \A s : Only(s)' = Only(s)
  BY <1>1 DEF Only
<1> QED
  BY <1>1, <1>3, <1>4 DEF max_concurrency

\* The states of the tasks: f goes to st, the others stay.
Moves(f, st) ==
    \A g \in Names : task'[g].state = IF g = f THEN st ELSE task[g].state

\* f is in flight or not; the others are as before.
LEMMA FlightMoves ==
    ASSUME NEW f \in Names, NEW st, Moves(f, st)
    PROVE  /\ st \in {"idle", "done"} => InFlight' = InFlight \ {f}
           /\ st \notin {"idle", "done"} => InFlight' = InFlight \cup {f}
  BY DEF Moves, InFlight

\* The files in flight are compared ones, and finitely many.
LEMMA FlightFinite ==
    ASSUME AskedOK, ListingOK, PhaseSound, TasksSound
    PROVE  InFlight \subseteq Compared /\ IsFiniteSet(InFlight) /\ Cardinality(InFlight) \in Nat
<1>1. InFlight \subseteq Compared
  BY SMT DEF InFlight, TasksSound, Fits
<1>2. IsFiniteSet(Compared)
  <2>1. CASE mode = "directory"
    BY <2>1, CommonTyped DEF Compared
  <2>2. CASE mode # "directory"
    BY <2>2, FS_Singleton DEF Compared
  <2> QED
    BY <2>1, <2>2
<1> QED
  BY <1>1, <1>2, FS_Subset, FS_CardinalityType

-----------------------------------------------------------------------------
(* The comparison of a file.                                               *)

\* A task that goes on to a record that fits its file.
LEMMA TaskGoes ==
    ASSUME TaskOK, TasksSound, UNCHANGED <<tree, mode, entries>>,
           NEW f \in Names, NEW t \in Tasks, Fits(f, t), task' = [task EXCEPT ![f] = t]
    PROVE  TaskOK' /\ TasksSound' /\ Moves(f, t.state) /\ task'[f] = t
<1>1. \A g \in Names : task'[g] = IF g = f THEN t ELSE task[g]
  BY SMT DEF TaskOK
<1>2. TaskOK'
  BY SMT DEF TaskOK
<1>3. Compared' = Compared
  BY DEF Compared, Common
<1>4. \A g \in Names : Fits(g, task'[g])
  BY <1>1 DEF TasksSound
<1>5. \A g \in Names : Fits(g, task'[g]) <=> Fits(g, task[g])'
  BY <1>3 DEF Fits, SizesTrue, CrcsTrue, SizesUnknown
<1>6. TasksSound'
  BY <1>4, <1>5 DEF TasksSound
<1>7. Moves(f, t.state) /\ task'[f] = t
  BY <1>1 DEF Moves
<1> QED
  BY <1>2, <1>6, <1>7

\* A new task, in any state in which nothing is claimed of sizes and checksums.
LEMMA NewTaskFits ==
    ASSUME NEW f, NEW st \in {"posted", "done"}, f \in Compared
    PROVE  /\ [NewTask EXCEPT !.state = st] \in Tasks
           /\ Fits(f, [NewTask EXCEPT !.state = st])
           /\ [NewTask EXCEPT !.state = st].state = st
<1> DEFINE t == [NewTask EXCEPT !.state = st]
<1>0. << >> \in Seq(Chunks)
  OBVIOUS
<1>1. t = [state |-> st, size |-> [s \in Sides |-> -1], todo |-> Sides,
           crcs |-> [s \in Sides |-> <<>>]]
  BY DEF NewTask
<1> HIDE DEF t
<1>2. t \in Tasks
  BY <1>0, <1>1, SMT DEF Tasks, States
<1>3. t.state = st /\ SizesUnknown(t) /\ \A s \in Sides : t.crcs[s] = <<>>
  BY <1>1, SMT DEF SizesUnknown
<1>4. Fits(f, t)
  BY <1>3, SMT DEF Fits
<1> QED
  BY <1>2, <1>3, <1>4 DEF t

\* The states by name.
LEMMA StatesAre == {"idle", "posted", "crcs", "evaluate", "end", "done"} = States
  BY DEF States

\* What the steps of a comparison leave alone.
Frame == UNCHANGED <<tree, num_threads, mode, phase, entries, listed, complete, window,
                     shutdown, cancelled, success, exit>>

\* The sizes: known of both files, or of none.
LEMMA SizesStep ==
    ASSUME Typed, PhaseSound, TasksSound, NEW f \in Names, Sizes(f)
    PROVE  /\ TaskOK' /\ TasksSound' /\ task[f].state = "posted" /\ f \in Compared
           /\ Frame /\ UNCHANGED record
           /\ \E st \in {"end", "crcs", "evaluate"} :
                 Moves(f, st) /\ (st = "end" => cancelled /\ mode = "directory")
<1> USE DEF askedVars, listingVars, signalVars
<1>0. AskedOK /\ ListingOK /\ TaskOK /\ Fits(f, task[f])
  BY DEF Typed, TasksSound
<1>1. task[f].state = "posted" /\ Frame /\ UNCHANGED record
  BY Zenon DEF Sizes, Frame
<1>2. f \in Compared /\ SizesUnknown(task[f]) /\ \A s \in Sides : task[f].crcs[s] = <<>>
  BY <1>0, <1>1, SMT DEF Fits
<1>3. task[f] \in Tasks
  BY <1>0 DEF TaskOK
<1>4. UNCHANGED <<tree, mode, entries>>
  BY <1>1 DEF Frame
<1>5. CASE cancelled /\ mode = "directory" /\ Advance(f, [task[f] EXCEPT !.state = "end"])
  <2> DEFINE t == [task[f] EXCEPT !.state = "end"]
  <2>1. t \in Tasks /\ t.state = "end"
    BY <1>3, StatesAre, Zenon DEF Tasks
  <2>2. task' = [task EXCEPT ![f] = t]
    BY <1>5 DEF Advance
  <2> HIDE DEF t
  <2>3. Fits(f, t)
    BY <1>2, <2>1, SMT DEF Fits
  <2>4. TaskOK' /\ TasksSound' /\ Moves(f, "end")
    BY <1>0, <1>4, <2>1, <2>2, <2>3, TaskGoes
  <2> QED
    BY <1>1, <1>2, <1>5, <2>4
<1>6. CASE Advance(f, [task[f] EXCEPT !.state = "crcs",
                                      !.size = [s \in Sides |-> Len(tree[s][f])]])
  <2> DEFINE t == [task[f] EXCEPT !.state = "crcs", !.size = [s \in Sides |-> Len(tree[s][f])]]
  <2>0. \A s \in Sides : Len(tree[s][f]) \in Nat
    BY <1>0, <1>2, CommonTyped, FilesTyped
  <2>1. /\ t \in Tasks /\ t.state = "crcs" /\ t.crcs = task[f].crcs
        /\ t.size = [s \in Sides |-> Len(tree[s][f])]
    <3>1. [s \in Sides |-> Len(tree[s][f])] \in [Sides -> Int]
      BY <2>0, SMT
    <3> QED
      BY <1>3, <3>1, StatesAre, Zenon DEF Tasks
  <2>2. task' = [task EXCEPT ![f] = t]
    BY <1>6 DEF Advance
  <2> HIDE DEF t
  <2>3. Fits(f, t)
    BY <1>2, <2>1, SMT DEF Fits, SizesTrue, CrcsTrue
  <2>4. TaskOK' /\ TasksSound' /\ Moves(f, "crcs")
    <3>1. t \in Tasks /\ t.state = "crcs"
      BY <2>1
    <3> QED
      BY <1>0, <1>4, <2>2, <2>3, <3>1, TaskGoes
  <2> QED
    BY <1>1, <1>2, <2>4, SMT
<1>7. CASE Advance(f, [task[f] EXCEPT !.state = "evaluate"])
  <2> DEFINE t == [task[f] EXCEPT !.state = "evaluate"]
  <2>1. t \in Tasks /\ t.state = "evaluate" /\ t.size = task[f].size
    BY <1>3, StatesAre, Zenon DEF Tasks
  <2>2. task' = [task EXCEPT ![f] = t]
    BY <1>7 DEF Advance
  <2> HIDE DEF t
  <2>3. Fits(f, t)
    BY <1>2, <2>1, SMT DEF Fits, SizesUnknown
  <2>4. TaskOK' /\ TasksSound' /\ Moves(f, "evaluate")
    BY <1>0, <1>4, <2>1, <2>2, <2>3, TaskGoes
  <2> QED
    BY <1>1, <1>2, <2>4, SMT
<1> QED
  BY <1>5, <1>6, <1>7, Zenon DEF Sizes

\* The checksums of one side: of its chunks, or none.
LEMMA CrcsStep ==
    ASSUME Typed, PhaseSound, TasksSound, NEW f \in Names, NEW s \in Sides,
           compute_source_crcs(f, s)
    PROVE  /\ TaskOK' /\ TasksSound' /\ task[f].state = "crcs" /\ f \in Compared
           /\ Frame /\ UNCHANGED record
           /\ \E st \in {"crcs", "evaluate"} : Moves(f, st)
<1> USE DEF askedVars, listingVars, signalVars
<1>0. AskedOK /\ ListingOK /\ TaskOK /\ Fits(f, task[f])
  BY DEF Typed, TasksSound
<1>1. task[f].state = "crcs" /\ Frame /\ UNCHANGED record
  BY Zenon DEF compute_source_crcs, Frame
<1>2. f \in Compared /\ SizesTrue(f, task[f]) /\ CrcsTrue(f, task[f])
  BY <1>0, <1>1, SMT DEF Fits
<1>3. task[f] \in Tasks
  BY <1>0 DEF TaskOK
<1>4. UNCHANGED <<tree, mode, entries>>
  BY <1>1 DEF Frame
<1>5. PICK crcs \in {tree[s][f], <<>>} :
         Advance(f, [task[f] EXCEPT !.todo = @ \ {s}, !.crcs[s] = crcs,
                                    !.state = IF task[f].todo = {s} THEN "evaluate" ELSE @])
  BY Zenon DEF compute_source_crcs
<1> DEFINE st == IF task[f].todo = {s} THEN "evaluate" ELSE task[f].state
           t  == [task[f] EXCEPT !.todo = @ \ {s}, !.crcs[s] = crcs,
                                 !.state = IF task[f].todo = {s} THEN "evaluate" ELSE @]
<1>6. task' = [task EXCEPT ![f] = t]
  BY <1>5 DEF Advance
<1>7. crcs \in Seq(Chunks)
  <2>1. tree[s][f] \in Seq(Chunks) /\ << >> \in Seq(Chunks)
    BY <1>0, <1>2, CommonTyped, FilesTyped
  <2> QED
    BY <1>5, <2>1
<1>8. st \in {"crcs", "evaluate"}
  BY <1>1
<1>9. /\ t \in Tasks /\ t.state = st /\ t.size = task[f].size
      /\ t.crcs = [task[f].crcs EXCEPT ![s] = crcs]
  <2>1. "evaluate" \in States /\ task[f].state \in States
    BY <1>1, StatesAre
  <2>2. t \in Tasks
    BY <1>3, <1>7, <2>1, Zenon DEF Tasks
  <2>3. t.state = st
    BY <1>3, Zenon DEF Tasks
  <2>4. t.size = task[f].size
    BY <1>3, Zenon DEF Tasks
  <2>5. t.crcs = [task[f].crcs EXCEPT ![s] = crcs]
    BY <1>3, Zenon DEF Tasks
  <2> QED
    BY <2>2, <2>3, <2>4, <2>5
<1> HIDE DEF t, st
<1>10. SizesTrue(f, t) /\ CrcsTrue(f, t)
  BY <1>2, <1>3, <1>5, <1>9, SMT DEF SizesTrue, CrcsTrue, Tasks
<1>11. Fits(f, t)
  BY <1>2, <1>8, <1>9, <1>10, SMT DEF Fits
<1>12. TaskOK' /\ TasksSound' /\ Moves(f, st)
  BY <1>0, <1>4, <1>6, <1>9, <1>11, TaskGoes
<1> QED
  BY <1>1, <1>2, <1>8, <1>12

\* The verdict on a file is true.
LEMMA StatusTrue ==
    ASSUME AskedOK, ListingOK, PhaseSound, NEW f \in Compared, NEW t \in Tasks,
           (SizesTrue(f, t) /\ CrcsTrue(f, t)) \/ SizesUnknown(t)
    PROVE  /\ Status(t) \in {"Error", "Match", "Mismatch"}
           /\ Status(t) = "Match" => Same(f) /\ Status(t) # "Mismatch"
           /\ Status(t) = "Mismatch" => ~Same(f)
<1>1. \A s \in Sides : f \in DOMAIN tree[s] /\ tree[s][f] \in Seq(Chunks)
  BY CommonTyped, FilesTyped
<1>2. "a" \in Sides /\ "b" \in Sides
  BY DEF Sides
<1>3. CASE \E s \in Sides : t.size[s] < 0 \/ (t.crcs[s] = <<>> /\ t.size[s] > 0)
  <2>1. Status(t) = "Error"
    BY <1>3, Zenon DEF Status
  <2> QED
    BY <2>1, SMT
<1>4. CASE ~\E s \in Sides : t.size[s] < 0 \/ (t.crcs[s] = <<>> /\ t.size[s] > 0)
  <2>1. Status(t) = IF AllMatch(t) THEN "Match" ELSE "Mismatch"
    BY <1>4, Zenon DEF Status
  <2>2. SizesTrue(f, t) /\ CrcsTrue(f, t)
    BY <1>2, <1>4, SMT DEF SizesUnknown
  <2>3. \A s \in Sides : t.crcs[s] = tree[s][f]
    <3> SUFFICES ASSUME NEW s \in Sides PROVE t.crcs[s] = tree[s][f]
      OBVIOUS
    <3>1. t.size[s] = Len(tree[s][f]) /\ t.crcs[s] \in {tree[s][f], <<>>}
      BY <2>2 DEF SizesTrue, CrcsTrue
    <3>2. tree[s][f] \in Seq(Chunks)
      BY <1>1
    <3>3. CASE t.crcs[s] = <<>>
      <4>1. ~(t.size[s] > 0)
        BY <1>4, <3>3
      <4>2. Len(tree[s][f]) = 0
        BY <3>1, <3>2, <4>1, SMT
      <4>3. tree[s][f] = <<>>
        BY <3>2, <4>2, SMT
      <4> QED
        BY <3>3, <4>3
    <3> QED
      BY <3>1, <3>3
  <2>4. AllMatch(t) <=> tree["a"][f] = tree["b"][f]
    <3> DEFINE x == tree["a"][f]
               y == tree["b"][f]
    <3>1. x \in Seq(Chunks) /\ y \in Seq(Chunks) /\ t.crcs["a"] = x /\ t.crcs["b"] = y
      BY <1>1, <1>2, <2>3
    <3> HIDE DEF x, y
    <3>2. AllMatch(t) <=> (\A i \in DOMAIN x \cap DOMAIN y : x[i] = y[i]) /\ Len(x) = Len(y)
      BY <3>1 DEF AllMatch
    <3>3. (\A i \in DOMAIN x \cap DOMAIN y : x[i] = y[i]) /\ Len(x) = Len(y) => x = y
      <4> SUFFICES ASSUME \A i \in DOMAIN x \cap DOMAIN y : x[i] = y[i], Len(x) = Len(y)
                   PROVE  x = y
        OBVIOUS
      <4>1. \A i \in 1..Len(x) : x[i] = y[i]
        BY <3>1, SMT
      <4> QED
        BY <3>1, <4>1, SMT
    <3>4. x = y => (\A i \in DOMAIN x \cap DOMAIN y : x[i] = y[i]) /\ Len(x) = Len(y)
      OBVIOUS
    <3> QED
      BY <3>2, <3>3, <3>4 DEF x, y
  <2>5. Same(f) <=> tree["a"][f] = tree["b"][f]
    BY <1>1 DEF Same
  <2>6. "Match" # "Mismatch"
    BY SMT
  <2> QED
    BY <2>1, <2>4, <2>5, <2>6, Zenon
<1> QED
  BY <1>3, <1>4

\* A result is recorded, unless the comparison of directories was cancelled.
LEMMA EvaluateStep ==
    ASSUME Typed, PhaseSound, TasksSound, NEW f \in Names, Evaluate(f)
    PROVE  /\ TaskOK' /\ TasksSound' /\ task[f].state = "evaluate" /\ f \in Compared
           /\ Frame /\ Moves(f, "end")
           /\ \/ cancelled /\ mode = "directory" /\ UNCHANGED record
              \/ \E v \in {"Error", "Match", "Mismatch"} :
                    /\ record' = [record EXCEPT ![f] = v]
                    /\ v = "Match" => Same(f)
                    /\ v = "Mismatch" => ~Same(f)
<1> USE DEF askedVars, listingVars, signalVars
<1>0. AskedOK /\ ListingOK /\ TaskOK /\ Fits(f, task[f])
  BY DEF Typed, TasksSound
<1>1. /\ task[f].state = "evaluate" /\ Frame
      /\ record' = IF cancelled /\ mode = "directory" THEN record
                   ELSE [record EXCEPT ![f] = Status(task[f])]
      /\ Advance(f, [task[f] EXCEPT !.state = "end"])
  BY Zenon DEF Evaluate, Frame
<1>2. /\ f \in Compared
      /\ (SizesTrue(f, task[f]) /\ CrcsTrue(f, task[f])) \/ SizesUnknown(task[f])
  BY <1>0, <1>1, SMT DEF Fits
<1>3. task[f] \in Tasks
  BY <1>0 DEF TaskOK
<1>4. UNCHANGED <<tree, mode, entries>>
  BY <1>1 DEF Frame
<1> DEFINE t == [task[f] EXCEPT !.state = "end"]
<1>5. t \in Tasks /\ t.state = "end"
  BY <1>3, StatesAre, Zenon DEF Tasks
<1>6. task' = [task EXCEPT ![f] = t]
  BY <1>1 DEF Advance
<1> HIDE DEF t
<1>7. Fits(f, t)
  BY <1>2, <1>5, SMT DEF Fits
<1>8. TaskOK' /\ TasksSound' /\ Moves(f, "end")
  BY <1>0, <1>4, <1>5, <1>6, <1>7, TaskGoes
<1>9. \/ cancelled /\ mode = "directory" /\ UNCHANGED record
      \/ record' = [record EXCEPT ![f] = Status(task[f])]
  BY <1>1, Zenon
<1>10. /\ Status(task[f]) \in {"Error", "Match", "Mismatch"}
       /\ Status(task[f]) = "Match" => Same(f)
       /\ Status(task[f]) = "Mismatch" => ~Same(f)
  BY <1>0, <1>2, <1>3, StatusTrue
<1>11. Frame /\ task[f].state = "evaluate"
  BY <1>1
<1> QED
  BY <1>2, <1>8, <1>9, <1>10, <1>11, Zenon

\* A slot is given back, and the submit loop woken.
LEMMA ReleaseStep ==
    ASSUME Typed, PhaseSound, TasksSound, NEW f \in Names, Release(f)
    PROVE  /\ TaskOK' /\ TasksSound' /\ task[f].state = "end" /\ f \in Compared
           /\ Moves(f, "done") /\ window' \in {window, Doubled}
           /\ phase' = IF phase = "blocked" THEN "submit" ELSE phase
           /\ UNCHANGED <<tree, num_threads, mode, entries, listed, complete, record,
                          shutdown, cancelled, success, exit>>
<1> USE DEF askedVars, listingVars, signalVars
<1>0. TaskOK /\ Fits(f, task[f])
  BY DEF Typed, TasksSound
<1>1. /\ task[f].state = "end" /\ window' \in {window, Doubled}
      /\ phase' = IF phase = "blocked" THEN "submit" ELSE phase
      /\ UNCHANGED <<tree, num_threads, mode, entries, listed, complete, record,
                     shutdown, cancelled, success, exit>>
      /\ task' = [task EXCEPT ![f] = [NewTask EXCEPT !.state = "done"]]
  BY Zenon DEF Release, Advance
<1>2. f \in Compared
  BY <1>0, <1>1, SMT DEF Fits
<1> DEFINE t == [NewTask EXCEPT !.state = "done"]
<1>3. t \in Tasks /\ Fits(f, t) /\ t.state = "done"
  BY <1>2, NewTaskFits
<1>4. task' = [task EXCEPT ![f] = t]
  BY <1>1
<1> HIDE DEF t
<1>5. UNCHANGED <<tree, mode, entries>>
  BY <1>1
<1>6. TaskOK' /\ TasksSound' /\ Moves(f, "done")
  BY <1>0, <1>3, <1>4, <1>5, TaskGoes
<1> QED
  BY <1>1, <1>2, <1>6

\* A common file that waits is posted.
LEMMA PostStep ==
    ASSUME Typed, PhaseSound, TasksSound, mode = "directory", NEW f \in Waiting,
           task' = [task EXCEPT ![f].state = "posted"], UNCHANGED <<tree, mode, entries>>
    PROVE  TaskOK' /\ TasksSound' /\ f \in Names /\ task[f].state = "idle" /\ Moves(f, "posted")
<1>0. AskedOK /\ ListingOK /\ TaskOK
  BY DEF Typed
<1>1. f \in Common /\ task[f].state = "idle" /\ f \in Names
  BY <1>0, CommonTyped DEF Waiting
<1>2. Fits(f, task[f]) /\ task[f] \in Tasks
  BY <1>0, <1>1 DEF TasksSound, TaskOK
<1>3. SizesUnknown(task[f]) /\ \A s \in Sides : task[f].crcs[s] = <<>>
  BY <1>1, <1>2, SMT DEF Fits
<1> DEFINE t == [task[f] EXCEPT !.state = "posted"]
<1>4. t \in Tasks /\ t.state = "posted"
  BY <1>2, StatesAre, Zenon DEF Tasks
<1>5. t.size = task[f].size /\ t.crcs = task[f].crcs
  BY <1>2, Zenon DEF Tasks
<1>6. task' = [task EXCEPT ![f] = t]
  BY <1>0, <1>1, Zenon DEF TaskOK
<1> HIDE DEF t
<1>7. f \in Compared
  BY <1>1 DEF Compared
<1>8. Fits(f, t)
  BY <1>3, <1>4, <1>5, <1>7, SMT DEF Fits, SizesUnknown
<1>9. TaskOK' /\ TasksSound' /\ Moves(f, "posted")
  BY <1>0, <1>1, <1>4, <1>6, <1>8, TaskGoes
<1> QED
  BY <1>1, <1>9

-----------------------------------------------------------------------------
(* The invariant, action by action.                                        *)

\* The parts of the typing that a step leaves alone.
LEMMA KeptTypes ==
    ASSUME Typed
    PROVE  /\ UNCHANGED <<tree, num_threads, mode>> => AskedOK'
           /\ UNCHANGED phase => PhaseOK'
           /\ UNCHANGED <<tree, entries, listed>> => ListingOK'
           /\ UNCHANGED complete => CompleteOK'
           /\ UNCHANGED <<tree, num_threads, entries, window, phase>> => WindowOK'
           /\ UNCHANGED task => TaskOK'
           /\ UNCHANGED record => RecordOK'
           /\ UNCHANGED <<shutdown, cancelled, success>> => FlagsOK'
           /\ UNCHANGED exit => ExitOK'
<1>0. /\ AskedOK /\ PhaseOK /\ ListingOK /\ CompleteOK /\ WindowOK /\ TaskOK /\ RecordOK
      /\ FlagsOK /\ ExitOK
  BY DEF Typed
<1>1. UNCHANGED <<tree, num_threads, mode>> => AskedOK'
  BY <1>0 DEF AskedOK
<1>2. UNCHANGED phase => PhaseOK'
  BY <1>0 DEF PhaseOK
<1>3. UNCHANGED <<tree, entries, listed>> => ListingOK'
  BY <1>0 DEF ListingOK
<1>4. UNCHANGED complete => CompleteOK'
  BY <1>0 DEF CompleteOK
<1>5. UNCHANGED <<tree, num_threads, entries, window, phase>> => WindowOK'
  BY <1>0, BudgetFixed DEF WindowOK
<1>6. UNCHANGED task => TaskOK'
  BY <1>0 DEF TaskOK
<1>7. UNCHANGED record => RecordOK'
  BY <1>0 DEF RecordOK
<1>8. UNCHANGED <<shutdown, cancelled, success>> => FlagsOK'
  BY <1>0, Zenon DEF FlagsOK
<1>9. UNCHANGED exit => ExitOK'
  BY <1>0 DEF ExitOK
<1> QED
  BY <1>1, <1>2, <1>3, <1>4, <1>5, <1>6, <1>7, <1>8, <1>9

\* While a file is in flight the comparison is at work.
LEMMA InFlightMeansWorking ==
    ASSUME CompareInv, NEW f \in Names, task[f].state \notin {"idle", "done"}
    PROVE  /\ phase \notin {"listing", "returned"} /\ ~success
           /\ mode = "directory" => phase \in Working
           /\ mode = "file" => phase = "file"
<1>0. PhaseOK /\ AskedOK
  BY DEF CompareInv, Typed
<1>1. phase # "listing"
  BY SMT DEF CompareInv, Quiet
<1>2. f \in InFlight
  BY DEF InFlight
<1>3. phase # "returned"
  BY <1>2 DEF CompareInv, Quiet
<1>4. mode = "directory" => phase \in Working
  BY <1>0, <1>1, <1>3 DEF CompareInv, PhaseSound, PhaseOK
<1>5. mode = "file" => phase = "file"
  BY <1>3 DEF CompareInv, PhaseSound
<1>6. ~success
  BY <1>0, <1>3 DEF CompareInv, Successful, FileRecorded, AskedOK
<1> QED
  BY <1>1, <1>3, <1>4, <1>5, <1>6

\* The state of a verdict, and of the parts that rest on the tree and the mode.
LEMMA SameFixed ==
    ASSUME UNCHANGED tree PROVE \A f : Same(f)' = Same(f)
  BY DEF Same

\* A step in the comparison of a file.
LEMMA CompareStep ==
    ASSUME CompareInv, exit = -1, NEW f \in Names,
           \/ Sizes(f) \/ Evaluate(f) \/ \E s \in Sides : compute_source_crcs(f, s)
    PROVE  CompareInv'
<1>0. Typed /\ PhaseSound /\ TasksSound /\ AskedOK /\ ListingOK /\ RecordOK /\ VerdictsTrue
  BY DEF CompareInv, Typed
<1>1. /\ TaskOK' /\ TasksSound' /\ f \in Compared /\ Frame
      /\ task[f].state \in {"posted", "crcs", "evaluate"}
  BY <1>0, SizesStep, EvaluateStep, CrcsStep
<1>2. PICK st \in {"crcs", "evaluate", "end"} :
         /\ Moves(f, st)
         /\ \/ UNCHANGED record /\ (st = "end" => cancelled /\ mode = "directory")
            \/ \E v \in {"Error", "Match", "Mismatch"} :
                  /\ record' = [record EXCEPT ![f] = v]
                  /\ v = "Match" => Same(f)
                  /\ v = "Mismatch" => ~Same(f)
  <2>1. CASE Sizes(f)
    BY <1>0, <2>1, SizesStep, Zenon
  <2>2. CASE Evaluate(f)
    BY <1>0, <2>2, EvaluateStep, Zenon
  <2>3. ASSUME NEW s \in Sides, compute_source_crcs(f, s)
        PROVE  UNCHANGED record /\ \E st \in {"crcs", "evaluate"} : Moves(f, st)
    BY <1>0, <2>3, CrcsStep
  <2>4. "crcs" # "end" /\ "evaluate" # "end"
    BY SMT
  <2> QED
    BY <2>1, <2>2, <2>3, <2>4, Zenon
<1>3. UNCHANGED <<tree, num_threads, mode, phase, entries, listed, complete, window,
                  shutdown, cancelled, success, exit>>
  BY <1>1 DEF Frame
<1>4. /\ phase \notin {"listing", "returned"} /\ ~success
      /\ mode = "directory" => phase \in Working
      /\ mode = "file" => phase = "file"
  BY <1>1, InFlightMeansWorking, SMT
<1>5. st \notin {"idle", "done"} /\ task[f].state \notin {"idle", "done", "end"}
  BY <1>1, SMT
<1>6. /\ \A g \in Names \ {f} : record'[g] = record[g] /\ task'[g].state = task[g].state
      /\ task'[f].state = st
      /\ \/ record'[f] = record[f] /\ (st = "end" => cancelled /\ mode = "directory")
         \/ record'[f] \in {"Error", "Match", "Mismatch"}
  BY <1>0, <1>2, SMT DEF RecordOK, Moves
<1>7. RecordOK' /\ \A g \in Names : record'[g] = record[g] \/ record'[g] \in {"Error", "Match", "Mismatch"}
  BY <1>0, <1>2, SMT DEF RecordOK, Records
<1>8. Typed'
  BY <1>0, <1>1, <1>3, <1>7, KeptTypes DEF Typed
<1>9. Common' = Common /\ (\A s : Only(s)' = Only(s)) /\ Compared' = Compared
  BY <1>3, BudgetFixed DEF Compared
<1>10. PhaseSound' /\ Quiet' /\ Successful' /\ ZeroSound'
  <2>1. PhaseSound'
    BY <1>0, <1>3 DEF PhaseSound
  <2>2. Quiet'
    BY <1>3, <1>4 DEF Quiet
  <2>3. Successful'
    BY <1>3, <1>4 DEF Successful
  <2>4. ZeroSound'
    BY <1>3, SMT DEF ZeroSound
  <2> QED
    BY <2>1, <2>2, <2>3, <2>4
<1>11. Recorded'
  <2> SUFFICES ASSUME mode = "directory" PROVE FilesRecorded'
    BY <1>3 DEF Recorded
  <2>1. FilesRecorded
    BY <1>4 DEF CompareInv, Recorded
  <2>2. f \in Common /\ f \in entries["a"] \cup entries["b"]
    BY <1>1 DEF Compared, Common
  <2>3. (\A s \in Sides : complete[s])'
    BY <1>3, <2>1 DEF FilesRecorded
  <2>4. (\A g \in Names : record[g] # Unknown => g \in entries["a"] \cup entries["b"])'
    BY <1>3, <1>6, <2>1, <2>2 DEF FilesRecorded
  <2>5. (\A g \in Names : (\E s \in Sides : g \in Only(s)) => record[g] = "Only")'
    <3>1. \A s \in Sides : f \notin Only(s)
      BY <1>0, <2>2, CommonTyped
    <3> QED
      BY <1>6, <1>9, <2>1, <3>1 DEF FilesRecorded
  <2>6. (~cancelled => \A g \in Common : task[g].state \in {"end", "done"} => record[g] # Unknown)'
    <3> SUFFICES ASSUME ~cancelled, NEW g \in Common, task'[g].state \in {"end", "done"}
                 PROVE  record'[g] # Unknown
      BY <1>3, <1>9
    <3>1. g \in Names
      BY <1>0, CommonTyped
    <3>2. CASE g = f
      <4>1. st = "end"
        BY <1>5, <1>6, <3>2, SMT
      <4>2. record'[f] \in {"Error", "Match", "Mismatch"}
        BY <1>6, <4>1
      <4> QED
        BY <3>2, <4>2, SMT DEF Unknown
    <3>3. CASE g # f
      BY <1>6, <2>1, <3>1, <3>3 DEF FilesRecorded
    <3> QED
      BY <3>2, <3>3
  <2> QED
    BY <2>3, <2>4, <2>5, <2>6 DEF FilesRecorded
<1>12. AllPosted'
  <2>1. Waiting' \subseteq Waiting
    <3>1. \A g \in Common : g \in Names
      BY <1>0, CommonTyped
    <3> QED
      BY <1>5, <1>6, <1>9, <3>1 DEF Waiting
  <2> QED
    BY <1>3, <2>1 DEF CompareInv, AllPosted
<1>13. FileRecorded'
  <2> SUFFICES ASSUME mode = "file" PROVE FileRecorded'
    BY <1>3 DEF FileRecorded
  <2>1. f = 1 /\ 1 \in Names
    BY <1>1, SMT DEF Compared
  <2>2. st = "end" => record'[1] \in {"Error", "Match", "Mismatch"}
    BY <1>6, <2>1, SMT
  <2>3. task'[1].state \in {"end", "done"} => record'[1] # Unknown
    BY <1>5, <1>6, <2>1, <2>2, SMT DEF Unknown
  <2> QED
    BY <1>3, <1>4, <2>1, <2>3 DEF FileRecorded
<1>14. WindowSound'
  <2>1. InFlight' = InFlight
    <3>1. f \in InFlight
      BY <1>5 DEF InFlight
    <3>2. InFlight' = InFlight \cup {f}
      BY <1>2, <1>5, FlightMoves
    <3> QED
      BY <3>1, <3>2
  <2> QED
    BY <1>3, <2>1 DEF CompareInv, WindowSound
<1>15. VerdictsTrue'
  <2>1. \A g \in Names : (record'[g] = "Match" => Same(g)) /\ (record'[g] = "Mismatch" => ~Same(g))
    BY <1>0, <1>2, SMT DEF RecordOK, VerdictsTrue
  <2> QED
    BY <1>3, <2>1, SameFixed DEF VerdictsTrue
<1> QED
  BY <1>1, <1>8, <1>10, <1>11, <1>12, <1>13, <1>14, <1>15 DEF CompareInv

\* The window, doubled, stays between what it was and its bound.
LEMMA WindowGrows ==
    ASSUME AskedOK, ListingOK, window \in Nat, window <= max_concurrency
    PROVE  Doubled \in Nat /\ window <= Doubled /\ Doubled <= max_concurrency
<1>1. max_concurrency \in Nat
  BY BudgetTyped
<1> QED
  BY <1>1, SMT DEF Doubled, Smaller

\* The end of the comparison of a file.
LEMMA EndStep ==
    ASSUME CompareInv, exit = -1, mode = "directory", NEW f \in Names, Release(f)
    PROVE  CompareInv'
<1>0. /\ Typed /\ PhaseSound /\ TasksSound /\ AskedOK /\ ListingOK /\ VerdictsTrue /\ PhaseOK
      /\ WindowOK
  BY DEF CompareInv, Typed
<1>1. /\ TaskOK' /\ TasksSound' /\ task[f].state = "end" /\ f \in Compared
      /\ Moves(f, "done") /\ window' \in {window, Doubled}
      /\ phase' = IF phase = "blocked" THEN "submit" ELSE phase
      /\ UNCHANGED <<tree, num_threads, mode, entries, listed, complete, record,
                     shutdown, cancelled, success, exit>>
  BY <1>0, ReleaseStep
<1>2. phase \in Working /\ ~success /\ phase \notin {"listing", "returned"}
  BY <1>1, InFlightMeansWorking, SMT
<1>3. phase' \in Working /\ phase' \notin {"listing", "returned", "file"}
      /\ (phase' = "drain" => phase = "drain")
  BY <1>1, <1>2, SMT DEF Working
<1>4. /\ \A g \in Names \ {f} : task'[g].state = task[g].state
      /\ task'[f].state = "done"
  BY <1>1 DEF Moves
<1>5. WindowOK' /\ window' \in Nat /\ window \in Nat /\ window <= window'
  <2>1. window \in Nat /\ window <= max_concurrency /\ max_concurrency' = max_concurrency
    BY <1>0, <1>1, <1>2, BudgetFixed DEF WindowOK
  <2>2. Doubled \in Nat /\ window <= Doubled /\ Doubled <= max_concurrency
    BY <1>0, <2>1, WindowGrows
  <2> QED
    BY <1>1, <2>1, <2>2 DEF WindowOK
<1>6. Typed'
  <2>1. PhaseOK'
    BY <1>3 DEF PhaseOK
  <2> QED
    BY <1>0, <1>1, <1>5, <2>1, KeptTypes DEF Typed
<1>7. Common' = Common /\ (\A s : Only(s)' = Only(s))
  BY <1>1, BudgetFixed
<1>8. PhaseSound' /\ Quiet' /\ Successful' /\ ZeroSound' /\ FileRecorded'
  <2>1. PhaseSound' /\ FileRecorded'
    BY <1>0, <1>1, <1>3, SMT DEF PhaseSound, FileRecorded
  <2>2. Quiet'
    BY <1>3 DEF Quiet
  <2>3. Successful'
    BY <1>1, <1>2 DEF Successful
  <2>4. ZeroSound'
    BY <1>1, SMT DEF ZeroSound
  <2> QED
    BY <2>1, <2>2, <2>3, <2>4
<1>9. Recorded'
  <2>1. FilesRecorded
    BY <1>2 DEF CompareInv, Recorded
  <2>2. \A g \in Common : task'[g].state \in {"end", "done"} => task[g].state \in {"end", "done"}
    BY <1>0, <1>1, <1>4, CommonTyped, Zenon
  <2>3. FilesRecorded'
    BY <1>1, <1>7, <2>1, <2>2 DEF FilesRecorded
  <2> QED
    BY <2>3 DEF Recorded
<1>10. AllPosted'
  <2>1. Waiting' \subseteq Waiting
    <3>1. \A g \in Common : g \in Names
      BY <1>0, CommonTyped
    <3> QED
      BY <1>4, <1>7, <3>1, SMT DEF Waiting
  <2> QED
    BY <1>1, <1>3, <2>1 DEF CompareInv, AllPosted
<1>11. WindowSound'
  <2>1. InFlight' = InFlight \ {f}
    BY <1>1, FlightMoves
  <2>2. IsFiniteSet(InFlight) /\ Cardinality(InFlight) \in Nat
    BY <1>0, FlightFinite
  <2>3. Cardinality(InFlight') <= Cardinality(InFlight) /\ Cardinality(InFlight') \in Nat
    BY <2>1, <2>2, FS_Subset, FS_CardinalityType
  <2>4. Cardinality(InFlight) <= window
    BY <1>2 DEF CompareInv, WindowSound
  <2> QED
    BY <1>5, <2>2, <2>3, <2>4 DEF WindowSound
<1>12. VerdictsTrue'
  BY <1>0, <1>1, SameFixed DEF VerdictsTrue
<1> QED
  BY <1>1, <1>6, <1>8, <1>9, <1>10, <1>11, <1>12 DEF CompareInv

\* A step that leaves tasks and results alone.
LEMMA TasksKept ==
    ASSUME TasksSound, VerdictsTrue, UNCHANGED <<tree, mode, entries, task, record>>
    PROVE  TasksSound' /\ VerdictsTrue' /\ InFlight' = InFlight /\ Waiting' = Waiting
           /\ Common' = Common /\ (\A s : Only(s)' = Only(s)) /\ Compared' = Compared
<1>1. Compared' = Compared /\ Common' = Common /\ \A s : Only(s)' = Only(s)
  BY DEF Compared, Common, Only
<1>2. TasksSound'
  BY <1>1 DEF TasksSound, Fits, SizesTrue, CrcsTrue, SizesUnknown
<1>3. VerdictsTrue'
  BY SameFixed DEF VerdictsTrue
<1>4. InFlight' = InFlight /\ Waiting' = Waiting
  BY <1>1 DEF InFlight, Waiting
<1> QED
  BY <1>1, <1>2, <1>3, <1>4

\* While nothing has been compared, tasks and results claim nothing.
LEMMA IdleIsSound ==
    ASSUME \A f \in Names : task[f].state = "idle" /\ task'[f] = task[f], TasksSound
    PROVE  /\ TasksSound' /\ InFlight = {} /\ InFlight' = {}
<1>1. \A f \in Names : SizesUnknown(task[f]) /\ \A s \in Sides : task[f].crcs[s] = <<>>
  BY SMT DEF TasksSound, Fits
<1>2. \A f \in Names : Fits(f, task[f])'
  BY <1>1, SMT DEF Fits, SizesUnknown
<1>3. InFlight = {} /\ InFlight' = {}
  BY SMT DEF InFlight
<1> QED
  BY <1>2, <1>3 DEF TasksSound

\* A side is listed.
LEMMA ListStep ==
    ASSUME CompareInv, exit = -1, NEW s \in Sides, List(s)
    PROVE  CompareInv'
<1> USE DEF askedVars, listingVars, signalVars
<1>0. /\ Typed /\ PhaseSound /\ TasksSound /\ AskedOK /\ ListingOK /\ VerdictsTrue
      /\ CompleteOK /\ WindowOK
  BY DEF CompareInv, Typed
<1>1. /\ phase = "listing" /\ listed' = listed \cup {s}
      /\ UNCHANGED <<tree, num_threads, mode, phase, window, task, record, shutdown,
                     cancelled, success, exit>>
  BY Zenon DEF List
<1>2. PICK o \in Outcomes(DOMAIN tree[s], cancelled) :
          /\ complete' = [complete EXCEPT ![s] = o.complete]
          /\ entries' = [entries EXCEPT ![s] = IF o.complete THEN o.entries ELSE {}]
  BY Zenon DEF List
<1>3. o.complete \in BOOLEAN /\ o.entries \subseteq DOMAIN tree[s]
  <2>1. o \in [entries : SUBSET DOMAIN tree[s], complete : BOOLEAN, alias : BOOLEAN]
    BY Zenon DEF Outcomes
  <2> QED
    BY <2>1, Zenon
<1>4. CompleteOK'
  BY <1>0, <1>2, <1>3, Zenon DEF CompleteOK
<1>5. ListingOK'
  <2>1. DOMAIN tree[s] \subseteq Names
    BY <1>0, FilesTyped
  <2>2. PICK e \in SUBSET DOMAIN tree[s] : entries' = [entries EXCEPT ![s] = e]
    <3>1. CASE o.complete
      BY <1>2, <1>3, <3>1, Zenon
    <3>2. CASE ~o.complete
      <4>1. entries' = [entries EXCEPT ![s] = {}]
        BY <1>2, <3>2, Zenon
      <4> QED
        BY <4>1
    <3> QED
      BY <3>1, <3>2
  <2> QED
    BY <1>0, <1>1, <2>1, <2>2, SMT DEF ListingOK
<1>6. phase \notin Working /\ phase \notin {"returned", "drain", "file"}
  BY <1>1, SMT DEF Working
<1>7. WindowOK'
  BY <1>0, <1>1, <1>6 DEF WindowOK
<1>8. Typed'
  BY <1>0, <1>1, <1>4, <1>5, <1>7, KeptTypes DEF Typed
<1>9. (\A f \in Names : task[f].state = "idle" /\ record[f] = Unknown) /\ ~success
      /\ mode = "directory"
  <2>1. mode = "directory"
    BY <1>0, <1>6, SMT DEF PhaseSound, AskedOK
  <2>2. ~success
    BY <1>6, <2>1 DEF CompareInv, Successful
  <2> QED
    BY <1>1, <2>1, <2>2 DEF CompareInv, Quiet
<1>10. TasksSound' /\ InFlight = {} /\ InFlight' = {}
  BY <1>0, <1>1, <1>9, IdleIsSound
<1>11. PhaseSound' /\ Quiet'
  BY <1>0, <1>1, <1>6, <1>9, <1>10 DEF PhaseSound, Quiet
<1>12. Recorded' /\ AllPosted' /\ Successful' /\ WindowSound'
  BY <1>1, <1>6, <1>9 DEF Recorded, AllPosted, Successful, WindowSound
<1>13. FileRecorded' /\ ZeroSound'
  BY <1>1, <1>9, SMT DEF FileRecorded, ZeroSound
<1>14. VerdictsTrue'
  BY <1>0, <1>1, SameFixed DEF VerdictsTrue
<1> QED
  BY <1>8, <1>10, <1>11, <1>12, <1>13, <1>14 DEF CompareInv

\* The listings are evaluated.
LEMMA ListedStep ==
    ASSUME CompareInv, exit = -1, Listed
    PROVE  CompareInv'
<1> USE DEF askedVars, listingVars, signalVars
<1>0. /\ Typed /\ PhaseSound /\ TasksSound /\ AskedOK /\ ListingOK /\ VerdictsTrue
      /\ CompleteOK /\ WindowOK /\ TaskOK /\ RecordOK
  BY DEF CompareInv, Typed
<1>1. /\ phase = "listing" /\ listed = Sides
      /\ UNCHANGED <<tree, num_threads, mode, entries, listed, complete, task, shutdown,
                     cancelled, success, exit>>
  BY Zenon DEF Listed
<1>2. phase \notin Working /\ phase \notin {"returned", "drain", "file"}
  BY <1>1, SMT DEF Working
<1>3. (\A f \in Names : task[f].state = "idle" /\ record[f] = Unknown) /\ ~success
      /\ mode = "directory"
  <2>1. mode = "directory"
    BY <1>0, <1>2, SMT DEF PhaseSound, AskedOK
  <2>2. ~success
    BY <1>2, <2>1 DEF CompareInv, Successful
  <2> QED
    BY <1>1, <2>1, <2>2 DEF CompareInv, Quiet
<1>4. TasksSound' /\ InFlight = {} /\ InFlight' = {}
  BY <1>0, <1>1, <1>3, IdleIsSound
<1>5. Common' = Common /\ (\A s : Only(s)' = Only(s)) /\ max_concurrency' = max_concurrency
  BY <1>1, BudgetFixed
<1>6. FileRecorded' /\ ZeroSound' /\ Successful'
  BY <1>1, <1>3, SMT DEF FileRecorded, ZeroSound, Successful
<1>7. CASE Refuse \/ cancelled
  <2>1. phase' = "returned" /\ UNCHANGED <<window, record>>
    BY <1>7, Zenon DEF Listed
  <2>2. phase' \notin Working /\ phase' \notin {"listing", "drain", "file"}
    BY <2>1, SMT DEF Working
  <2>3. PhaseOK' /\ WindowOK'
    BY <1>0, <2>1, <2>2 DEF PhaseOK, WindowOK
  <2>4. Typed'
    BY <1>0, <1>1, <2>1, <2>3, KeptTypes DEF Typed
  <2>5. PhaseSound' /\ Quiet' /\ Recorded' /\ AllPosted' /\ WindowSound'
    <3>1. PhaseSound'
      BY <1>1, <1>3, <2>2, SMT DEF PhaseSound
    <3>2. Quiet' /\ Recorded' /\ AllPosted' /\ WindowSound'
      BY <1>1, <1>3, <1>4, <2>2 DEF Quiet, Recorded, AllPosted, WindowSound
    <3> QED
      BY <3>1, <3>2
  <2>6. VerdictsTrue'
    BY <1>0, <1>1, <2>1, SameFixed DEF VerdictsTrue
  <2> QED
    BY <1>4, <1>6, <2>4, <2>5, <2>6 DEF CompareInv
<1>8. CASE ~(Refuse \/ cancelled)
  <2>1. /\ phase' = "submit" /\ window' = initial_concurrency
        /\ record' = [f \in Names |->
                         IF \E s \in Sides : f \in Only(s) THEN "Only" ELSE record[f]]
    BY <1>8, Zenon DEF Listed
  <2>2. phase' \in Working /\ phase' \notin {"listing", "drain", "file", "returned"}
    BY <2>1, SMT DEF Working
  <2>3. initial_concurrency \in Nat /\ initial_concurrency <= max_concurrency
    BY <1>0, BudgetTyped
  <2>4. PhaseOK' /\ WindowOK'
    BY <1>5, <2>1, <2>2, <2>3 DEF PhaseOK, WindowOK
  <2>5. \A f \in Names : record'[f] = IF \E s \in Sides : f \in Only(s) THEN "Only" ELSE Unknown
    BY <1>3, <2>1
  <2>6. RecordOK'
    BY <1>0, <2>1, SMT DEF RecordOK, Records
  <2>7. Typed'
    BY <1>0, <1>1, <2>4, <2>6, KeptTypes DEF Typed
  <2>8. \A s \in Sides : complete[s]
    BY <1>8 DEF Refuse
  <2>9. FilesRecorded'
    <3>1. \A f \in Names : record'[f] # Unknown => f \in entries["a"] \cup entries["b"]
      BY <2>5 DEF Only, Sides
    <3>2. \A f \in Common : task'[f].state \notin {"end", "done"}
      BY <1>0, <1>1, <1>3, CommonTyped, SMT
    <3> QED
      BY <1>1, <1>5, <2>5, <2>8, <3>1, <3>2 DEF FilesRecorded
  <2>10. PhaseSound' /\ Quiet' /\ Recorded' /\ AllPosted'
    <3>1. PhaseSound'
      BY <1>1, <1>3, <2>2, SMT DEF PhaseSound
    <3>2. Quiet' /\ Recorded' /\ AllPosted'
      BY <2>2, <2>9 DEF Quiet, Recorded, AllPosted
    <3> QED
      BY <3>1, <3>2
  <2>11. WindowSound'
    BY <1>4, <2>1, <2>3, FS_EmptySet DEF WindowSound
  <2>12. VerdictsTrue'
    BY <2>5, SMT DEF VerdictsTrue, Unknown
  <2> QED
    BY <1>4, <1>6, <2>7, <2>10, <2>11, <2>12 DEF CompareInv
<1> QED
  BY <1>7, <1>8

\* A step that leaves the listings, the tasks and the results alone keeps what
\* is recorded.
LEMMA RecordedKept ==
    ASSUME Typed, FilesRecorded, ~cancelled' => ~cancelled,
           UNCHANGED <<tree, num_threads, mode, entries, complete, task, record>>
    PROVE  FilesRecorded'
<1>1. Common' = Common /\ \A s : Only(s)' = Only(s)
  BY BudgetFixed
<1> QED
  BY <1>1 DEF FilesRecorded

\* The submit loop.
LEMMA SubmitStep ==
    ASSUME CompareInv, exit = -1, Submit
    PROVE  CompareInv'
<1> USE DEF askedVars, listingVars, signalVars
<1>0. /\ Typed /\ PhaseSound /\ TasksSound /\ AskedOK /\ ListingOK /\ VerdictsTrue
      /\ WindowOK /\ TaskOK
  BY DEF CompareInv, Typed
<1>1. /\ phase = "submit"
      /\ UNCHANGED <<tree, num_threads, mode, entries, listed, complete, window, record,
                     shutdown, cancelled, success, exit>>
  BY Zenon DEF Submit
<1>2. phase \in Working /\ mode = "directory" /\ ~success
  <2>1. phase \in Working /\ phase \notin {"file", "returned"}
    BY <1>1, SMT DEF Working
  <2>2. mode = "directory"
    BY <1>0, <2>1 DEF PhaseSound, AskedOK
  <2> QED
    BY <2>1, <2>2 DEF CompareInv, Successful
<1>3. FilesRecorded /\ Cardinality(InFlight) <= window
  BY <1>2 DEF CompareInv, Recorded, WindowSound
<1>4. VerdictsTrue' /\ FileRecorded' /\ ZeroSound' /\ Successful'
  <2>1. VerdictsTrue'
    BY <1>0, <1>1, SameFixed DEF VerdictsTrue
  <2>2. FileRecorded' /\ ZeroSound' /\ Successful'
    BY <1>1, <1>2, SMT DEF FileRecorded, ZeroSound, Successful
  <2> QED
    BY <2>1, <2>2
<1>5. CASE UNCHANGED task /\ \/ phase' = "drain" /\ (Waiting = {} \/ cancelled)
                             \/ phase' = "blocked"
  <2>1. phase' \in Working /\ phase' \notin {"listing", "file", "returned"}
    BY <1>5, SMT DEF Working
  <2>2. /\ TasksSound' /\ InFlight' = InFlight /\ Waiting' = Waiting
    BY <1>0, <1>1, <1>5, TasksKept
  <2>3. PhaseOK' /\ WindowOK' /\ Typed'
    <3>1. PhaseOK'
      BY <2>1 DEF PhaseOK
    <3>2. max_concurrency' = max_concurrency
      BY <1>1, BudgetFixed
    <3>3. WindowOK'
      BY <1>0, <1>1, <1>2, <3>2 DEF WindowOK
    <3> QED
      BY <1>0, <1>1, <1>5, <3>1, <3>3, KeptTypes DEF Typed
  <2>4. FilesRecorded'
    BY <1>0, <1>1, <1>3, <1>5, RecordedKept
  <2>5. AllPosted'
    <3>1. phase' = "drain" => (Waiting = {} \/ cancelled)
      BY <1>5, SMT
    <3> QED
      BY <1>1, <2>2, <3>1 DEF AllPosted
  <2>6. PhaseSound' /\ Quiet' /\ Recorded' /\ WindowSound'
    <3>1. PhaseSound'
      BY <1>1, <1>2, <2>1, SMT DEF PhaseSound
    <3>2. Quiet' /\ Recorded' /\ WindowSound'
      BY <1>1, <1>3, <2>1, <2>2, <2>4 DEF Quiet, Recorded, WindowSound
    <3> QED
      BY <3>1, <3>2
  <2> QED
    BY <1>4, <2>2, <2>3, <2>5, <2>6 DEF CompareInv
<1>6. ASSUME NEW f \in Waiting, task' = [task EXCEPT ![f].state = "posted"], UNCHANGED phase,
             Cardinality(InFlight) < window
      PROVE  CompareInv'
  <2>1. UNCHANGED <<tree, mode, entries>>
    BY <1>1
  <2>2. TaskOK' /\ TasksSound' /\ f \in Names /\ task[f].state = "idle" /\ Moves(f, "posted")
    BY <1>0, <1>2, <1>6, <2>1, PostStep
  <2>3. phase' \in Working /\ phase' \notin {"listing", "file", "returned", "drain"}
    BY <1>1, <1>6, SMT DEF Working
  <2>4. Typed'
    BY <1>0, <1>1, <1>6, <2>2, KeptTypes DEF Typed
  <2>5. Common' = Common /\ \A s : Only(s)' = Only(s)
    BY <1>1, BudgetFixed
  <2>6. FilesRecorded'
    <3>1. \A g \in Common : task'[g].state \in {"end", "done"} => task[g].state \in {"end", "done"}
      <4>1. Common \subseteq Names
        BY <1>0, CommonTyped
      <4> QED
        BY <2>2, <4>1, SMT DEF Moves
    <3> QED
      BY <1>1, <1>3, <2>5, <3>1 DEF FilesRecorded
  <2>7. WindowSound'
    <3>1. InFlight' = InFlight \cup {f} /\ f \notin InFlight
      BY <2>2, FlightMoves, SMT DEF InFlight
    <3>2. IsFiniteSet(InFlight) /\ Cardinality(InFlight) \in Nat
      BY <1>0, FlightFinite
    <3>3. Cardinality(InFlight \cup {f}) = Cardinality(InFlight) + 1
      BY <3>1, <3>2, FS_AddElement
    <3>4. Cardinality(InFlight') <= window'
      BY <1>0, <1>1, <1>6, <3>1, <3>2, <3>3, SMT DEF WindowOK
    <3> QED
      BY <3>4 DEF WindowSound
  <2>8. PhaseSound' /\ Quiet' /\ Recorded' /\ AllPosted'
    <3>1. PhaseSound'
      BY <1>1, <1>2, <2>3, SMT DEF PhaseSound
    <3>2. Quiet' /\ Recorded' /\ AllPosted'
      BY <2>3, <2>6 DEF Quiet, Recorded, AllPosted
    <3> QED
      BY <3>1, <3>2
  <2> QED
    BY <1>4, <2>2, <2>4, <2>7, <2>8 DEF CompareInv
<1> QED
  BY <1>5, <1>6, Zenon DEF Submit

\* The results are collected.
LEMMA MergeStep ==
    ASSUME CompareInv, exit = -1, Merge
    PROVE  CompareInv'
<1> USE DEF askedVars, listingVars, signalVars
<1>0. /\ Typed /\ PhaseSound /\ TasksSound /\ AskedOK /\ ListingOK /\ VerdictsTrue
      /\ WindowOK /\ TaskOK /\ FlagsOK
  BY DEF CompareInv, Typed
<1>1. /\ phase = "drain" /\ InFlight = {} /\ phase' = "returned"
      /\ UNCHANGED <<tree, num_threads, mode, entries, listed, complete, window, task, record,
                     shutdown, cancelled, exit>>
  BY Zenon DEF Merge, Drained
<1>2. success' = ~cancelled
  BY Zenon DEF Merge
<1>3. phase \in Working /\ mode = "directory"
  <2>1. phase \in Working /\ phase \notin {"file", "returned"}
    BY <1>1, SMT DEF Working
  <2> QED
    BY <1>0, <2>1 DEF PhaseSound, AskedOK
<1>4. FilesRecorded
  BY <1>3 DEF CompareInv, Recorded
<1>5. FilesRecorded'
  BY <1>0, <1>1, <1>4, RecordedKept
<1>6. phase' \notin Working /\ phase' \notin {"listing", "file", "drain"}
  BY <1>1, SMT DEF Working
<1>7. TasksSound' /\ VerdictsTrue' /\ InFlight' = InFlight /\ Common' = Common
  BY <1>0, <1>1, TasksKept
<1>8. Typed'
  <2>1. PhaseOK' /\ WindowOK'
    BY <1>0, <1>1, <1>6 DEF PhaseOK, WindowOK
  <2>2. FlagsOK'
    BY <1>0, <1>1, <1>2, Zenon DEF FlagsOK
  <2> QED
    BY <1>0, <1>1, <2>1, <2>2, KeptTypes DEF Typed
<1>9. Successful'
  <2> SUFFICES ASSUME success' PROVE ~cancelled /\ \A f \in Common : task[f].state = "done"
    BY <1>1, <1>7 DEF Successful
  <2>1. ~cancelled
    BY <1>2, Zenon
  <2>2. Waiting = {}
    BY <1>1, <1>3, <2>1 DEF CompareInv, AllPosted
  <2>3. Common \subseteq Names
    BY <1>0, CommonTyped
  <2>4. \A f \in Common : task[f].state = "done"
    BY <1>1, <2>2, <2>3 DEF Waiting, InFlight
  <2> QED
    BY <2>1, <2>4
<1>10. PhaseSound' /\ FileRecorded' /\ ZeroSound'
  BY <1>1, <1>3, <1>6, SMT DEF PhaseSound, FileRecorded, ZeroSound
<1>11. Quiet' /\ Recorded' /\ AllPosted' /\ WindowSound'
  BY <1>1, <1>5, <1>6, <1>7 DEF Quiet, Recorded, AllPosted, WindowSound
<1> QED
  BY <1>7, <1>8, <1>9, <1>10, <1>11 DEF CompareInv

\* The comparison of two files begins, or returns.
LEMMA CompareFilesStep ==
    ASSUME CompareInv, exit = -1, CompareFiles
    PROVE  CompareInv'
<1> USE DEF askedVars, listingVars, signalVars
<1>0. /\ Typed /\ PhaseSound /\ TasksSound /\ AskedOK /\ ListingOK /\ VerdictsTrue
      /\ WindowOK /\ TaskOK /\ FlagsOK /\ RecordOK /\ FileRecorded
  BY DEF CompareInv, Typed
<1>1. /\ phase = "file"
      /\ UNCHANGED <<tree, num_threads, mode, entries, listed, complete, window, record,
                     shutdown, cancelled, exit>>
  BY Zenon DEF CompareFiles
<1>2. mode = "file" /\ mode # "directory" /\ 1 \in Names /\ 1 \in Compared /\ Compared = {1}
  <2>1. mode = "file" /\ mode # "directory"
    BY <1>0, <1>1, SMT DEF PhaseSound, AskedOK
  <2> QED
    BY <1>0, <2>1 DEF FileRecorded, Compared
<1>3. phase \notin Working /\ phase \notin {"listing", "returned"}
  BY <1>1, SMT DEF Working
<1>4. ~success
  BY <1>0, <1>2, <1>3 DEF FileRecorded
<1>5. PICK st \in {"posted", "done"} :
         /\ task' = [task EXCEPT ![1] = [NewTask EXCEPT !.state = st]]
         /\ \/ st = "posted" /\ UNCHANGED <<phase, success>>
            \/ /\ st = "done" /\ task[1].state = "end" /\ phase' = "returned"
               /\ success' = (record[1] # "Error")
  BY Zenon DEF CompareFiles, Advance
<1> DEFINE t == [NewTask EXCEPT !.state = st]
<1>6. t \in Tasks /\ Fits(1, t) /\ t.state = st
  BY <1>2, NewTaskFits
<1>7. task' = [task EXCEPT ![1] = t]
  BY <1>5
<1> HIDE DEF t
<1>8. UNCHANGED <<tree, mode, entries>>
  BY <1>1
<1>9. TaskOK' /\ TasksSound' /\ Moves(1, st)
  BY <1>0, <1>2, <1>6, <1>7, <1>8, TaskGoes
<1>10. phase' \in {"file", "returned"} /\ phase' \notin Working /\ phase' # "listing"
  BY <1>1, <1>5, SMT DEF Working
<1>11. success' \in BOOLEAN
  BY <1>0, <1>5, Zenon DEF FlagsOK
<1>12. Typed'
  <2>1. PhaseOK' /\ WindowOK'
    BY <1>0, <1>1, <1>10 DEF PhaseOK, WindowOK
  <2>2. FlagsOK'
    BY <1>0, <1>1, <1>11, Zenon DEF FlagsOK
  <2> QED
    BY <1>0, <1>1, <1>9, <2>1, <2>2, KeptTypes DEF Typed
<1>13. InFlight \subseteq {1}
  BY <1>0, <1>2, FlightFinite
<1>14. Quiet'
  <2>1. phase' = "returned" => st = "done"
    BY <1>1, <1>5, SMT
  <2>2. st = "done" => InFlight' = {}
    <3>1. st = "done" => InFlight' = InFlight \ {1}
      BY <1>2, <1>9, FlightMoves
    <3> QED
      BY <1>13, <3>1
  <2> QED
    BY <1>10, <2>1, <2>2 DEF Quiet
<1>15. FileRecorded'
  <2>1. task'[1].state = st
    BY <1>2, <1>9 DEF Moves
  <2>2. st = "done" => record'[1] # Unknown /\ phase' = "returned"
    BY <1>0, <1>1, <1>2, <1>5, SMT DEF FileRecorded
  <2>3. st = "posted" => ~success'
    BY <1>4, <1>5, SMT
  <2> QED
    BY <1>2, <2>1, <2>2, <2>3, SMT DEF FileRecorded
<1>16. PhaseSound' /\ Recorded' /\ AllPosted' /\ Successful' /\ WindowSound'
  <2>1. PhaseSound'
    BY <1>0, <1>1, <1>2, <1>10 DEF PhaseSound
  <2>2. Recorded' /\ AllPosted' /\ Successful' /\ WindowSound'
    BY <1>1, <1>2, <1>10 DEF Recorded, AllPosted, Successful, WindowSound
  <2> QED
    BY <2>1, <2>2
<1>17. ZeroSound' /\ VerdictsTrue'
  <2>1. ZeroSound'
    BY <1>1, SMT DEF ZeroSound
  <2>2. VerdictsTrue'
    BY <1>0, <1>1, SameFixed DEF VerdictsTrue
  <2> QED
    BY <2>1, <2>2
<1> QED
  BY <1>9, <1>12, <1>14, <1>15, <1>16, <1>17 DEF CompareInv

\* The signal is passed on to the comparison.
LEMMA CancelStep ==
    ASSUME CompareInv, exit = -1, Cancel
    PROVE  CompareInv'
<1> USE DEF askedVars, listingVars, signalVars
<1>0. /\ Typed /\ PhaseSound /\ TasksSound /\ AskedOK /\ ListingOK /\ VerdictsTrue /\ FlagsOK
  BY DEF CompareInv, Typed
<1>1. /\ mode = "directory" /\ phase # "returned"
      /\ UNCHANGED <<tree, num_threads, mode, phase, entries, listed, complete, window, task,
                     record, shutdown, success, exit>>
  BY Zenon DEF Cancel
<1>2. cancelled'
  BY Zenon DEF Cancel
<1>3. TasksSound' /\ VerdictsTrue' /\ InFlight' = InFlight
  BY <1>0, <1>1, TasksKept
<1>4. Typed'
  <2>1. FlagsOK'
    BY <1>0, <1>1, Zenon DEF FlagsOK, Cancel
  <2> QED
    BY <1>0, <1>1, <2>1, KeptTypes DEF Typed
<1>5. ~success
  BY <1>1 DEF CompareInv, Successful
<1>6. Recorded'
  <2> SUFFICES ASSUME phase \in Working PROVE FilesRecorded'
    BY <1>1, <1>5 DEF Recorded
  <2>1. FilesRecorded
    BY <1>1 DEF CompareInv, Recorded
  <2> QED
    BY <1>0, <1>1, <1>2, <2>1, RecordedKept
<1>7. PhaseSound' /\ Quiet' /\ WindowSound'
  BY <1>1, <1>3 DEF CompareInv, PhaseSound, Quiet, WindowSound
<1>8. AllPosted' /\ Successful'
  BY <1>1, <1>2, <1>5 DEF AllPosted, Successful
<1>9. FileRecorded' /\ ZeroSound'
  BY <1>1, SMT DEF CompareInv, FileRecorded, ZeroSound
<1> QED
  BY <1>3, <1>4, <1>6, <1>7, <1>8, <1>9 DEF CompareInv

\* What only a change of the flag shutdown or of the exit code can disturb.
LEMMA RestKept ==
    ASSUME CompareInv,
           UNCHANGED <<tree, num_threads, mode, phase, entries, listed, complete, window, task,
                       record, cancelled, success>>
    PROVE  (FlagsOK /\ ExitOK /\ ZeroSound)' => CompareInv'
<1>0. Typed /\ TasksSound /\ VerdictsTrue
  BY DEF CompareInv
<1>1. TasksSound' /\ VerdictsTrue' /\ InFlight' = InFlight /\ Waiting' = Waiting
      /\ Common' = Common /\ (\A s : Only(s)' = Only(s))
  BY <1>0, TasksKept
<1>2. (FlagsOK /\ ExitOK)' => Typed'
  BY <1>0, KeptTypes DEF Typed
<1>3. Recorded'
  <2> SUFFICES ASSUME mode = "directory", phase \in Working \/ success PROVE FilesRecorded'
    BY DEF Recorded
  <2>1. FilesRecorded
    BY DEF CompareInv, Recorded
  <2> QED
    BY <1>0, <2>1, RecordedKept
<1>4. PhaseSound' /\ Quiet' /\ WindowSound' /\ AllPosted'
  BY <1>1 DEF CompareInv, PhaseSound, Quiet, WindowSound, AllPosted
<1>5. Successful' /\ FileRecorded'
  BY <1>1 DEF CompareInv, Successful, FileRecorded
<1> QED
  BY <1>1, <1>2, <1>3, <1>4, <1>5 DEF CompareInv

\* The command, its signals, and the steps that change nothing.
LEMMA CommandStep ==
    ASSUME CompareInv,
           (exit = -1 /\ Exit) \/ RequestShutdown \/ SecondSignal \/ UNCHANGED vars
    PROVE  CompareInv'
<1> USE DEF askedVars, listingVars, signalVars
<1>0. FlagsOK /\ ExitOK /\ ZeroSound
  BY DEF CompareInv, Typed
<1>1. UNCHANGED <<tree, num_threads, mode, phase, entries, listed, complete, window, task,
                  record, cancelled, success>>
  BY Zenon DEF Exit, RequestShutdown, SecondSignal, vars
<1>2. AllOk' = AllOk
  BY <1>1 DEF AllOk
<1>3. FlagsOK'
  BY <1>0, Zenon DEF FlagsOK, Exit, RequestShutdown, SecondSignal, vars
<1>4. CASE UNCHANGED exit
  BY <1>0, <1>1, <1>2, <1>3, <1>4, RestKept DEF ZeroSound, ExitOK
<1>5. CASE Exit
  <2>1. phase = "returned" /\ exit' = IF shutdown THEN 130 ELSE IF success /\ AllOk THEN 0 ELSE 1
    BY <1>5, Zenon DEF Exit
  <2>2. exit' \in {0, 1, 130} /\ (exit' = 0 => success /\ AllOk)
    BY <2>1, SMT
  <2>3. ExitOK' /\ ZeroSound'
    BY <1>1, <1>2, <2>1, <2>2 DEF ExitOK, ZeroSound
  <2> QED
    BY <1>1, <1>3, <2>3, RestKept
<1>6. CASE SecondSignal
  <2>1. exit' = 130
    BY <1>6, Zenon DEF SecondSignal
  <2>2. ExitOK' /\ ZeroSound'
    BY <2>1, SMT DEF ExitOK, ZeroSound
  <2> QED
    BY <1>1, <1>3, <2>2, RestKept
<1>7. CASE RequestShutdown \/ UNCHANGED vars
  <2>1. UNCHANGED exit
    BY <1>7, Zenon DEF RequestShutdown, vars
  <2> QED
    BY <1>4, <2>1
<1> QED
  BY <1>5, <1>6, <1>7

\* The initial states.
LEMMA InitInv == Init => CompareInv
<1> SUFFICES ASSUME Init PROVE CompareInv
  OBVIOUS
<1>1. /\ tree \in Trees /\ num_threads \in Threads /\ mode \in {"directory", "file"}
      /\ mode = "file" => \A s \in Sides : 1 \in DOMAIN tree[s]
      /\ phase = IF mode = "directory" THEN "listing" ELSE "file"
      /\ entries = [s \in Sides |-> {}] /\ listed = {} /\ complete = [s \in Sides |-> TRUE]
      /\ window = 0 /\ exit = -1
      /\ task = [f \in Names |-> NewTask] /\ record = [f \in Names |-> Unknown]
  BY Zenon DEF Init
<1>2. ~shutdown /\ ~cancelled /\ ~success /\ FlagsOK
  BY Zenon DEF Init, FlagsOK
<1>3. /\ phase \in {"listing", "file"} /\ phase \notin Working /\ phase \notin {"returned", "drain"}
      /\ mode = "directory" => phase # "file"
      /\ mode = "file" => phase = "file"
  BY <1>1, SMT DEF Working
<1>4. /\ NewTask \in Tasks /\ NewTask.state = "idle" /\ SizesUnknown(NewTask)
      /\ \A s \in Sides : NewTask.crcs[s] = <<>>
  <2>1. <<>> \in Seq(Chunks)
    OBVIOUS
  <2>2. NewTask \in Tasks
    BY <2>1, SMT DEF NewTask, Tasks, States
  <2>3. NewTask.state = "idle" /\ SizesUnknown(NewTask) /\ \A s \in Sides : NewTask.crcs[s] = <<>>
    BY SMT DEF NewTask, SizesUnknown
  <2> QED
    BY <2>2, <2>3
<1>5. \A f \in Names : task[f] = NewTask /\ record[f] = Unknown
  BY <1>1
<1>6. AskedOK /\ PhaseOK /\ ListingOK /\ CompleteOK /\ WindowOK /\ ExitOK
  <2>1. AskedOK /\ PhaseOK
    BY <1>1, <1>3 DEF AskedOK, PhaseOK
  <2>2. ListingOK
    BY <1>1, SMT DEF ListingOK
  <2>3. CompleteOK
    BY <1>1, Zenon DEF CompleteOK
  <2>4. WindowOK /\ ExitOK
    BY <1>1, <1>3, SMT DEF WindowOK, ExitOK
  <2> QED
    BY <2>1, <2>2, <2>3, <2>4
<1>7. TaskOK /\ RecordOK
  BY <1>1, <1>4 DEF TaskOK, RecordOK, Records
<1>8. Typed
  BY <1>2, <1>6, <1>7 DEF Typed
<1>9. TasksSound
  <2>1. \A f \in Names : Fits(f, NewTask)
    BY <1>4, SMT DEF Fits
  <2> QED
    BY <1>5, <2>1 DEF TasksSound
<1>10. PhaseSound /\ Quiet
  <2>1. PhaseSound
    BY <1>1, <1>3, SMT DEF PhaseSound
  <2>2. Quiet
    BY <1>3, <1>4, <1>5 DEF Quiet
  <2> QED
    BY <2>1, <2>2
<1>11. Recorded /\ AllPosted /\ Successful /\ WindowSound
  BY <1>2, <1>3 DEF Recorded, AllPosted, Successful, WindowSound
<1>12. FileRecorded
  <2> SUFFICES ASSUME mode = "file" PROVE FileRecorded
    BY DEF FileRecorded
  <2>1. 1 \in Names
    <3>1. "a" \in Sides
      BY DEF Sides
    <3>2. DOMAIN tree["a"] \subseteq Names
      BY <1>6, <3>1, FilesTyped
    <3> QED
      BY <1>1, <3>1, <3>2
  <2>2. task[1].state = "idle"
    BY <1>4, <1>5, <2>1
  <2> QED
    BY <1>2, <2>1, <2>2, SMT DEF FileRecorded
<1>13. ZeroSound /\ VerdictsTrue
  BY <1>1, <1>5, SMT DEF ZeroSound, VerdictsTrue, Unknown
<1> QED
  BY <1>8, <1>9, <1>10, <1>11, <1>12, <1>13 DEF CompareInv

\* Every step.
LEMMA StepInv ==
    ASSUME CompareInv, [Next]_vars
    PROVE  CompareInv'
<1>1. ASSUME exit = -1, NEW s \in Sides, List(s) PROVE CompareInv'
  BY <1>1, ListStep
<1>2. CASE exit = -1 /\ (Listed \/ Submit \/ Merge \/ CompareFiles \/ Cancel \/ Exit)
  BY <1>2, ListedStep, SubmitStep, MergeStep, CompareFilesStep, CancelStep, CommandStep
<1>3. ASSUME exit = -1, NEW f \in Names, Sizes(f) \/ Evaluate(f) PROVE CompareInv'
  BY <1>3, CompareStep
<1>4. ASSUME exit = -1, NEW f \in Names, NEW s \in Sides, compute_source_crcs(f, s)
      PROVE  CompareInv'
  BY <1>4, CompareStep
<1>5. ASSUME exit = -1, mode = "directory", NEW f \in Names, Release(f) PROVE CompareInv'
  BY <1>5, EndStep
<1>6. CASE RequestShutdown \/ SecondSignal \/ UNCHANGED vars
  BY <1>6, CommandStep
<1> QED
  BY <1>1, <1>2, <1>3, <1>4, <1>5, <1>6, NextCases, Zenon

\* The inductive invariant holds in every reachable state.
LEMMA InvHolds == Spec => []CompareInv
  BY InitInv, StepInv, PTL DEF Spec

-----------------------------------------------------------------------------
(* The theorems.                                                           *)

\* The types, and the bound of the window.
THEOREM CompareTypeCorrect == Spec => []TypeOK
<1>1. CompareInv => TypeOK
  <2> SUFFICES ASSUME CompareInv PROVE TypeOK
    OBVIOUS
  <2>1. /\ AskedOK /\ PhaseOK /\ ListingOK /\ CompleteOK /\ WindowOK /\ TaskOK /\ RecordOK
        /\ FlagsOK /\ ExitOK
    BY DEF CompareInv, Typed
  <2>2. phase \in {"listing", "submit", "blocked", "drain", "file", "returned"}
    BY <2>1 DEF PhaseOK, Working
  <2>3. window \in Nat /\ (phase \in {"submit", "blocked", "drain"} => window <= max_concurrency)
    BY <2>1 DEF WindowOK, Working
  <2>4. \A f \in Names : /\ task[f].state \in {"idle", "posted", "crcs", "evaluate", "end", "done"}
                         /\ record[f] \in {Unknown, "Only", "Match", "Mismatch", "Error"}
    BY <2>1 DEF TaskOK, RecordOK, Tasks, States, Records
  <2>5. tree \in Trees /\ num_threads \in Threads /\ exit \in {-1, 0, 1, 130}
    BY <2>1 DEF AskedOK, ExitOK
  <2>6. /\ \A s \in Sides : entries[s] \subseteq DOMAIN tree[s]
        /\ listed \subseteq Sides /\ complete \in [Sides -> BOOLEAN]
    BY <2>1, Zenon DEF ListingOK, CompleteOK
  <2> QED
    BY <2>1, <2>2, <2>3, <2>4, <2>5, <2>6, Zenon DEF TypeOK, FlagsOK
<1> QED
  BY <1>1, InvHolds, PTL

\* A file that run_comparison reports as equal is equal, and one that it reports
\* as different is different, whatever failed or was cancelled on the way.
THEOREM VerdictsAreTrue == Spec => []VerdictsTrue
<1>1. CompareInv => VerdictsTrue
  BY DEF CompareInv
<1> QED
  BY <1>1, InvHolds, PTL

\* A comparison of directories that succeeds has a result for every listed file:
\* the workers are done when run_directory_comparison collects them.
THEOREM NothingIsLost == Spec => []NoneLost
<1>1. CompareInv => NoneLost
  <2> SUFFICES ASSUME CompareInv, success, mode = "directory"
               PROVE  {f \in Names : record[f] # Unknown} = entries["a"] \cup entries["b"]
    BY DEF NoneLost
  <2>1. FilesRecorded /\ ~cancelled /\ \A f \in Common : task[f].state = "done"
    BY DEF CompareInv, Recorded, Successful
  <2>2. entries["a"] \subseteq Names /\ entries["b"] \subseteq Names
    BY SMT DEF CompareInv, Typed, ListingOK, Sides
  <2>3. \A f \in Common : record[f] # Unknown
    BY <2>1 DEF FilesRecorded
  <2>4. \A f \in entries["a"] \cup entries["b"] : f \in Common \/ \E s \in Sides : f \in Only(s)
    BY DEF Only, Sides
  <2>5. \A f \in entries["a"] \cup entries["b"] : record[f] # Unknown
    BY <2>1, <2>2, <2>3, <2>4, SMT DEF FilesRecorded, Unknown
  <2> QED
    BY <2>1, <2>2, <2>5 DEF FilesRecorded
<1> QED
  BY <1>1, InvHolds, PTL

\* Exit code 0 of mito diff means equality: of the two files, or of every file of
\* the two directories that is not left out as an alias on each side that has it.
THEOREM ZeroMeansEqual == Spec => []DiffZeroMeansEqual
<1>1. CompareInv => DiffZeroMeansEqual
  <2> SUFFICES ASSUME CompareInv, exit = 0 PROVE DiffZeroMeansEqual
    BY DEF DiffZeroMeansEqual
  <2>0. AskedOK /\ ListingOK /\ VerdictsTrue
    BY DEF CompareInv, Typed
  <2>1. success /\ \A f \in Names : record[f] \in {"Match", Unknown}
    BY DEF CompareInv, ZeroSound, AllOk
  <2>2. \A f \in Names : record[f] # Unknown => Same(f)
    BY <2>0, <2>1 DEF VerdictsTrue
  <2>3. CASE mode = "file"
    <3>1. 1 \in Names /\ record[1] # Unknown
      BY <2>1, <2>3, SMT DEF CompareInv, FileRecorded
    <3> QED
      BY <2>2, <2>3, <3>1 DEF DiffZeroMeansEqual
  <2>4. CASE mode = "directory"
    <3>1. FilesRecorded /\ ~cancelled /\ \A f \in Common : task[f].state = "done"
      BY <2>1, <2>4 DEF CompareInv, Recorded, Successful
    <3>2. \A f \in Common : record[f] # Unknown /\ Same(f)
      BY <2>0, <2>2, <3>1, CommonTyped DEF FilesRecorded
    <3>3. ASSUME NEW f \in DOMAIN tree["a"] \cup DOMAIN tree["b"], ~Same(f),
                 NEW s \in Sides, f \in DOMAIN tree[s]
          PROVE  f \in Omitted(s)
      <4>1. f \notin Common
        BY <3>2, <3>3
      <4>2. f \in Names
        BY <2>0, <3>3, FilesTyped
      <4>3. f \notin Only(s)
        BY <2>1, <3>1, <4>2, SMT DEF FilesRecorded, Unknown
      <4>4. f \notin entries[s]
        BY <4>1, <4>3 DEF Only
      <4>5. complete[s]
        BY <3>1 DEF FilesRecorded
      <4> QED
        BY <3>3, <4>4, <4>5 DEF Omitted
    <3>4. mode # "file"
      BY <2>4, SMT
    <3> QED
      BY <3>3, <3>4 DEF DiffZeroMeansEqual
  <2> QED
    BY <2>0, <2>3, <2>4 DEF AskedOK
<1> QED
  BY <1>1, InvHolds, PTL

\* More files use more threads.
LEMMA ThreadsGrow ==
    ASSUME NEW n \in Nat, NEW m \in Nat, NEW k \in Nat, n <= m
    PROVE  n * k <= m * k
<1>1. PICK d \in Nat : m = n + d
  <2>1. m - n \in Nat /\ m = n + (m - n)
    BY SMT
  <2> QED
    BY <2>1
<1>2. m * k = n * k + d * k /\ d * k \in Nat /\ n * k \in Nat
  BY <1>1, SMT
<1> QED
  BY <1>2, SMT

\* A set of pairs of a file that is computed and one of n threads has no more
\* than n threads for each file in flight.
LEMMA ThreadsOfFiles ==
    ASSUME AskedOK, ListingOK, PhaseSound, TasksSound, NEW s \in Sides, NEW n \in Nat,
           NEW T, T \subseteq Computing(s) \X (1..n)
    PROVE  /\ Cardinality(T) \in Nat
           /\ Cardinality(T) <= Cardinality(InFlight) * n
<1>1. IsFiniteSet(InFlight) /\ Cardinality(InFlight) \in Nat
  BY FlightFinite
<1>2. Computing(s) \subseteq InFlight
  BY SMT DEF Computing, InFlight
<1>3. IsFiniteSet(1..n) /\ Cardinality(1..n) = n
  <2>1. 1 \in Int /\ n \in Int
    OBVIOUS
  <2>2. IsFiniteSet(1..n) /\ Cardinality(1..n) = IF 1 > n THEN 0 ELSE n - 1 + 1
    BY <2>1, FS_Interval
  <2> QED
    BY <2>2, SMT
<1>4. /\ IsFiniteSet(InFlight \X (1..n))
      /\ Cardinality(InFlight \X (1..n)) = Cardinality(InFlight) * n
  BY <1>1, <1>3, FS_Product
<1>5. T \subseteq InFlight \X (1..n)
  BY <1>2
<1> QED
  BY <1>4, <1>5, FS_Subset, FS_CardinalityType

(***************************************************************************)
(* --threads is a ceiling for each side that is in S3: the threads that    *)
(* compute checksums there are never more than max_threads.  On a local    *)
(* side they are never more than one pool for each file that the budget    *)
(* lets run_directory_comparison compare at a time.                        *)
(***************************************************************************)
THEOREM ThreadsHaveCeilings == Spec => []ThreadCeiling
<1>1. CompareInv => ThreadCeiling
  <2> SUFFICES ASSUME CompareInv, phase \in Working, NEW s \in Sides
               PROVE  /\ Cardinality(RemoteThreads(s)) <= max_threads
                      /\ Cardinality(LocalThreads(s)) * threads_per_file <= max_threads * Cores
    BY DEF ThreadCeiling, Working
  <2>0. AskedOK /\ ListingOK /\ PhaseSound /\ TasksSound /\ WindowOK
    BY DEF CompareInv, Typed
  <2>1. Cardinality(InFlight) \in Nat
    BY <2>0, FlightFinite
  <2>2. /\ max_threads \in Nat /\ threads_per_file \in Nat /\ max_concurrency \in Nat
        /\ max_concurrency * threads_per_file <= max_threads
    BY <2>0, BudgetTyped
  <2>3. Cardinality(InFlight) <= max_concurrency
    <3>1. Cardinality(InFlight) <= window
      BY DEF CompareInv, WindowSound
    <3>2. window \in Nat /\ window <= max_concurrency
      BY <2>0 DEF WindowOK
    <3> QED
      BY <2>1, <2>2, <3>1, <3>2, SMT
  <2>4. Cardinality(InFlight) * threads_per_file <= max_concurrency * threads_per_file
    BY <2>1, <2>2, <2>3, ThreadsGrow
  <2>5. RemoteThreads(s) \subseteq Computing(s) \X (1..threads_per_file)
    BY DEF RemoteThreads
  <2>6. LocalThreads(s) \subseteq Computing(s) \X (1..Cores)
    BY DEF LocalThreads
  <2> DEFINE c == Cardinality(InFlight)
             d == max_concurrency
             k == threads_per_file
             m == max_threads
             r == Cardinality(RemoteThreads(s))
             l == Cardinality(LocalThreads(s))
  <2>7. r \in Nat /\ r <= c * k
    BY <2>0, <2>2, <2>5, ThreadsOfFiles
  <2>8. l \in Nat /\ l <= c * Cores
    BY <2>0, <2>6, ThreadsOfFiles
  <2>9. c * k <= d * k /\ d * k <= m /\ c \in Nat /\ d \in Nat /\ k \in Nat /\ m \in Nat
    BY <2>1, <2>2, <2>4
  <2> HIDE DEF c, d, k, m, r, l
  <2>10. c * k \in Nat /\ d * k \in Nat /\ c * Cores \in Nat
    BY <2>9, SMT
  <2>11. c * k <= m
    BY <2>9, <2>10, SMT
  <2>12. r <= m
    BY <2>7, <2>9, <2>10, <2>11, SMT
  <2>13. l * k <= m * Cores
    <3>1. l * k <= (c * Cores) * k
      BY <2>8, <2>9, <2>10, ThreadsGrow
    <3>2. (c * k) * Cores <= m * Cores
      BY <2>9, <2>10, <2>11, ThreadsGrow
    <3>3. (c * Cores) * k = (c * k) * Cores
      BY <2>9, SMT
    <3>4. l * k \in Nat /\ (c * k) * Cores \in Nat /\ m * Cores \in Nat
      BY <2>8, <2>9, <2>10, SMT
    <3> QED
      BY <3>1, <3>2, <3>3, <3>4, SMT
  <2> QED
    BY <2>12, <2>13 DEF k, m, r, l
<1> QED
  BY <1>1, InvHolds, PTL
================================================================================

------------------------------ MODULE DirCompare ------------------------------
(***************************************************************************)
(* mito diff: the comparison of two directories (run_directory_comparison) *)
(* or of two files, each file by run_comparison, up to the exit code of    *)
(* the command.                                                            *)
(*                                                                         *)
(* A file is the sequence of its chunks; chunks that differ have checksums *)
(* that differ.  Nobody changes the files meanwhile.  The throughput is    *)
(* left out: the end of a file may or may not double the window.           *)
(***************************************************************************)
EXTENDS Integers, Sequences, FiniteSets, Listing

CONSTANTS
    Chunks,      \* the contents of a chunk
    Trees,       \* the pairs of directories that are compared
    Threads,     \* the values of --threads: any number, 0 stands for the default
    DefaultThreads,  \* 1024
    Cores,       \* std::thread::hardware_concurrency()
    FewChunks    \* a local file of no more chunks takes one thread: 4

ASSUME DirCompareAssumption ==
    /\ \A t \in Trees : DOMAIN t = {"a", "b"}
    /\ \A t \in Trees : \A s \in {"a", "b"} :
          IsFiniteSet(DOMAIN t[s]) /\ \A f \in DOMAIN t[s] : t[s][f] \in Seq(Chunks)
    /\ Threads \subseteq Nat /\ DefaultThreads \in Nat \ {0}
    /\ Cores \in Nat \ {0} /\ FewChunks \in Nat

Sides == {"a", "b"}
Names == UNION {DOMAIN t["a"] \cup DOMAIN t["b"] : t \in Trees}

VARIABLES
    tree,        \* the files of each side
    num_threads, \* --threads
    mode,        \* "directory" or "file"
    phase,       \* where run_directory_comparison, then the command, is
    entries,     \* what the listing of each side found
    listed,      \* each side has been listed
    complete,    \* complete_a, complete_b
    window,      \* current_max_concurrency
    task,        \* the comparison of each common file
    record,      \* the recorded result of each file: files, and the counts
    shutdown, cancelled,
    success,
    exit         \* the exit code, -1 until the end

askedVars   == <<tree, num_threads, mode>>
listingVars == <<entries, listed, complete>>
signalVars  == <<shutdown, cancelled>>
vars == <<askedVars, phase, listingVars, window, task, record, signalVars, success, exit>>

Smaller(a, b) == IF a < b THEN a ELSE b
Larger(a, b)  == IF a > b THEN a ELSE b

\* size: of both files, -1 when it is not known; crcs: of both, <<>> for none.
NewTask == [state |-> "idle", size |-> [s \in Sides |-> -1], todo |-> Sides,
            crcs |-> [s \in Sides |-> <<>>]]
Unknown == "None"

Init ==
    /\ tree \in Trees /\ num_threads \in Threads
    /\ mode \in {"directory", "file"}
    /\ mode = "file" => \A s \in Sides : 1 \in DOMAIN tree[s]
    /\ phase = IF mode = "directory" THEN "listing" ELSE "file"
    /\ entries = [s \in Sides |-> {}] /\ listed = {} /\ complete = [s \in Sides |-> TRUE]
    /\ window = 0
    /\ task = [f \in Names |-> NewTask]
    /\ record = [f \in Names |-> Unknown]
    /\ shutdown = FALSE /\ cancelled = FALSE /\ success = FALSE /\ exit = -1

-----------------------------------------------------------------------------
(* The listings, and what follows from them.                               *)

\* One side is listed; the two run in parallel.  That an alias was left out is
\* not asked for.
List(s) ==
    /\ phase = "listing" /\ s \notin listed
    /\ \E o \in Outcomes(DOMAIN tree[s], cancelled) :
          /\ complete' = [complete EXCEPT ![s] = o.complete]
          /\ entries' = [entries EXCEPT ![s] = IF o.complete THEN o.entries ELSE {}]
    /\ listed' = listed \cup {s}
    /\ UNCHANGED <<askedVars, phase, window, task, record, signalVars, success, exit>>

Common == entries["a"] \cap entries["b"]
Only(s) == entries[s] \ Common

SizeOf(f) == Larger(Len(tree["a"][f]), Len(tree["b"][f]))
MultiChunk  == Cardinality({f \in Common : SizeOf(f) > 1})
SingleChunk == Cardinality(Common) - MultiChunk

max_threads == IF num_threads > 0 THEN num_threads ELSE DefaultThreads

\* One thread per file for small files, the threads shared out for large ones,
\* and with more large files than small ones by the share of the large ones.
threads_per_file ==
    LET n == Cardinality(Common) IN
    IF n = 0 \/ MultiChunk = 0 THEN 1
    ELSE IF SingleChunk = 0 THEN Larger(1, max_threads \div n)
    ELSE IF 2 * MultiChunk > n THEN (4 * MultiChunk) \div n + 1
    ELSE 1

\* Mutation of max_concurrency: the threads of each file are forgotten.
max_concurrency_files == max_threads

max_concurrency == max_threads \div threads_per_file

initial_concurrency == Smaller(Cardinality(Common), max_concurrency)

\* Mutation of Refuse: a listing that is not complete is taken for one that is.
RefuseNever == FALSE

Refuse == \E s \in Sides : ~complete[s]

\* Refuse to compare what was not listed completely; stop when cancelled; record
\* the files that only one side has; set the window.
Listed ==
    /\ phase = "listing" /\ listed = Sides
    /\ IF Refuse \/ cancelled
       THEN phase' = "returned" /\ UNCHANGED <<window, record>>
       ELSE /\ phase' = "submit"
            /\ record' = [f \in Names |->
                             IF \E s \in Sides : f \in Only(s) THEN "Only" ELSE record[f]]
            /\ window' = initial_concurrency
    /\ UNCHANGED <<askedVars, listingVars, task, signalVars, success, exit>>

-----------------------------------------------------------------------------
(* The comparison of the common files.                                     *)

InFlight == {f \in Names : task[f].state \notin {"idle", "done"}}
Waiting  == {f \in Common : task[f].state = "idle"}

\* The submit loop: post the next file when the window has room; otherwise wait
\* on the condition variable.  A cancellation ends the loop but wakes nobody.
Submit ==
    /\ phase = "submit"
    /\ \/ /\ Waiting = {} \/ cancelled
          /\ phase' = "drain" /\ UNCHANGED task
       \/ /\ Waiting # {} /\ ~cancelled /\ Cardinality(InFlight) < window
          /\ \E f \in Waiting : /\ \A g \in Waiting : f <= g
                                /\ task' = [task EXCEPT ![f].state = "posted"]
          /\ UNCHANGED phase
       \/ /\ Waiting # {} /\ ~cancelled /\ Cardinality(InFlight) >= window
          /\ phase' = "blocked" /\ UNCHANGED task
    /\ UNCHANGED <<askedVars, listingVars, window, record, signalVars, success, exit>>

Advance(f, t) == task' = [task EXCEPT ![f] = t]

\* process_file and run_comparison: nothing when cancelled; the sizes, either of
\* which may be refused.
Sizes(f) ==
    /\ task[f].state = "posted"
    /\ \/ cancelled /\ mode = "directory" /\ Advance(f, [task[f] EXCEPT !.state = "end"])
       \/ /\ ~cancelled \/ mode = "file"
          /\ \/ Advance(f, [task[f] EXCEPT !.state = "crcs",
                                           !.size = [s \in Sides |-> Len(tree[s][f])]])
             \/ Advance(f, [task[f] EXCEPT !.state = "evaluate"])
    /\ UNCHANGED <<askedVars, phase, listingVars, window, record, signalVars, success, exit>>

\* compute_source_crcs: the two sides in parallel; the checksums of all chunks, or
\* none.  (Its own flag cancelled is a copy made when the task began.)
compute_source_crcs(f, s) ==
    /\ task[f].state = "crcs" /\ s \in task[f].todo
    /\ \E crcs \in {tree[s][f], <<>>} :
          Advance(f, [task[f] EXCEPT !.todo = @ \ {s}, !.crcs[s] = crcs,
                                     !.state = IF task[f].todo = {s} THEN "evaluate" ELSE @])
    /\ UNCHANGED <<askedVars, phase, listingVars, window, record, signalVars, success, exit>>

\* Mutation of AllMatch: the chunks that only one file has are not compared.
AllMatchCommon(t) ==
    \A i \in DOMAIN t.crcs["a"] \cap DOMAIN t.crcs["b"] : t.crcs["a"][i] = t.crcs["b"][i]

AllMatch(t) ==
    /\ \A i \in DOMAIN t.crcs["a"] \cap DOMAIN t.crcs["b"] : t.crcs["a"][i] = t.crcs["b"][i]
    /\ Len(t.crcs["a"]) = Len(t.crcs["b"])

\* No checksums are an error, unless the file is empty.
Status(t) ==
    IF \E s \in Sides : t.size[s] < 0 \/ (t.crcs[s] = <<>> /\ t.size[s] > 0) THEN "Error"
    ELSE IF AllMatch(t) THEN "Match" ELSE "Mismatch"

\* The result is recorded, unless the comparison has been cancelled.
Evaluate(f) ==
    /\ task[f].state = "evaluate"
    /\ Advance(f, [task[f] EXCEPT !.state = "end"])
    /\ record' = IF cancelled /\ mode = "directory" THEN record
                 ELSE [record EXCEPT ![f] = Status(task[f])]
    /\ UNCHANGED <<askedVars, phase, listingVars, window, signalVars, success, exit>>

Doubled == Smaller(window * 2, max_concurrency)

\* The end of process_with_tracking: a measurement, then the slot is given back
\* and the submit loop woken.  The memory of the comparison is gone.
Release(f) ==
    /\ task[f].state = "end"
    /\ Advance(f, [NewTask EXCEPT !.state = "done"])
    /\ window' \in {window, Doubled}
    /\ phase' = IF phase = "blocked" THEN "submit" ELSE phase
    /\ UNCHANGED <<askedVars, listingVars, record, signalVars, success, exit>>

\* Mutation of Drained: the results are collected while files are compared.
DrainedEarly == TRUE

\* Mutation of Drained: every file is waited for, the ones never posted too.
DrainedAll == \A f \in Common : task[f].state = "done"

\* in_flight == 0
Drained == InFlight = {}

Merge ==
    /\ phase = "drain" /\ Drained
    /\ phase' = "returned" /\ success' = ~cancelled
    /\ UNCHANGED <<askedVars, listingVars, window, task, record, signalVars, exit>>

\* Two files: run_comparison alone.
CompareFiles ==
    /\ phase = "file"
    /\ \/ /\ task[1].state = "idle" /\ Advance(1, [NewTask EXCEPT !.state = "posted"])
          /\ UNCHANGED <<phase, success>>
       \/ /\ task[1].state = "end" /\ Advance(1, [NewTask EXCEPT !.state = "done"])
          /\ phase' = "returned" /\ success' = (record[1] # "Error")
    /\ UNCHANGED <<askedVars, listingVars, window, record, signalVars, exit>>

-----------------------------------------------------------------------------
(* The command.                                                            *)

RequestShutdown ==
    /\ exit = -1 /\ ~shutdown /\ shutdown' = TRUE
    /\ UNCHANGED <<askedVars, phase, listingVars, window, task, record, cancelled, success, exit>>

\* The second signal ends the process.
SecondSignal ==
    /\ exit = -1 /\ shutdown /\ exit' = 130
    /\ UNCHANGED <<askedVars, phase, listingVars, window, task, record, signalVars, success>>

\* The poll loop of the comparison of directories passes the signal on.
Cancel ==
    /\ mode = "directory" /\ phase # "returned" /\ shutdown /\ ~cancelled /\ cancelled' = TRUE
    /\ UNCHANGED <<askedVars, phase, listingVars, window, task, record, shutdown, success, exit>>

AllOk == \A f \in Names : record[f] \in {"Match", Unknown}

Exit ==
    /\ phase = "returned" /\ exit = -1
    /\ exit' = IF shutdown THEN 130 ELSE IF success /\ AllOk THEN 0 ELSE 1
    /\ UNCHANGED <<askedVars, phase, listingVars, window, task, record, signalVars, success>>

Compare(f) ==
    \/ Sizes(f) \/ (\E s \in Sides : compute_source_crcs(f, s)) \/ Evaluate(f)
    \/ mode = "directory" /\ Release(f)

Program ==
    /\ exit = -1
    /\ \/ \E s \in Sides : List(s)
       \/ Listed \/ Submit \/ Merge \/ CompareFiles \/ Cancel \/ Exit
       \/ \E f \in Names : Compare(f)

Terminated == exit # -1 /\ UNCHANGED vars

Next == Program \/ RequestShutdown \/ SecondSignal \/ Terminated

\* Threads run when they can, and requests to S3 end.
Spec == Init /\ [][Next]_vars /\ WF_vars(Program)

-----------------------------------------------------------------------------

\* The variables have their types, and the window its bound.
TypeOK ==
    /\ tree \in Trees /\ num_threads \in Threads
    /\ phase \in {"listing", "submit", "blocked", "drain", "file", "returned"}
    /\ \A s \in Sides : entries[s] \subseteq DOMAIN tree[s]
    /\ listed \subseteq Sides /\ complete \in [Sides -> BOOLEAN]
    /\ window \in Nat /\ (phase \in {"submit", "blocked", "drain"} => window <= max_concurrency)
    /\ \A f \in Names : /\ task[f].state \in {"idle", "posted", "crcs", "evaluate", "end", "done"}
                        /\ record[f] \in {Unknown, "Only", "Match", "Mismatch", "Error"}
    /\ shutdown \in BOOLEAN /\ cancelled \in BOOLEAN /\ success \in BOOLEAN
    /\ exit \in {-1, 0, 1, 130}

Same(f) == /\ \A s \in Sides : f \in DOMAIN tree[s]
           /\ tree["a"][f] = tree["b"][f]

\* The files that a complete listing left out, because they are aliases.
Omitted(s) == IF complete[s] THEN DOMAIN tree[s] \ entries[s] ELSE {}

\* Exit code 0 means that every file is on both sides with the same content:
\* no failed listing, size, checksum or cancelled comparison counts as
\* equality.  (A file that is left out as an alias wherever it is is not compared.)
DiffZeroMeansEqual ==
    exit = 0 =>
        IF mode = "file" THEN Same(1)
        ELSE \A f \in DOMAIN tree["a"] \cup DOMAIN tree["b"] :
                Same(f) \/ \A s \in Sides : f \in DOMAIN tree[s] => f \in Omitted(s)

\* A file recorded as equal is equal, and one recorded as different is different:
\* a failure or a cancellation in the middle of a comparison is neither.
VerdictsTrue ==
    \A f \in Names :
        /\ record[f] = "Match" => Same(f)
        /\ record[f] = "Mismatch" => ~Same(f)

\* A comparison that succeeds has a result for every file that was listed, and
\* only for those; none is lost to a race of the workers with the collection.
NoneLost ==
    phase = "returned" /\ success /\ mode = "directory" =>
        {f \in Names : record[f] # Unknown} = entries["a"] \cup entries["b"]

\* The files whose checksums are being computed on a side.
Computing(s) == {f \in Names : task[f].state = "crcs" /\ s \in task[f].todo}

\* The threads that do so, when the side is in S3: an object of one chunk is read by
\* the thread of its side, a larger one by a pool of threads_per_file.
RemoteThreads(s) ==
    {t \in Computing(s) \X (1..threads_per_file) : t[2] = 1 \/ Len(tree[s][t[1]]) > 1}

\* When it is local: num_threads is ignored, the pool has a thread for each core.
LocalThreads(s) ==
    {t \in Computing(s) \X (1..Cores) : t[2] = 1 \/ Len(tree[s][t[1]]) > FewChunks}

\* --threads bounds the threads at work on each side that is in S3, however the
\* window moves: two such sides, which run in parallel, may use it twice.  A local
\* side is bounded only by the files compared at a time, with a pool for each;
\* parallelism.md:91 calls --threads a ceiling of the whole.  (Threads that only
\* wait for others, of which each file has up to three, are not counted.)
ThreadCeiling ==
    phase \in {"submit", "blocked", "drain"} =>
        \A s \in Sides :
            /\ Cardinality(RemoteThreads(s)) <= max_threads
            /\ Cardinality(LocalThreads(s)) * threads_per_file <= max_threads * Cores

\* The command ends, interrupted or not, whatever each file needs and however the
\* window moves.  The one exception is a budget of threads below what one file is
\* given: no slot is ever free, and the submit loop waits for ever.
Finishes == <>(exit # -1) \/ <>[](phase = "blocked" /\ max_concurrency = 0)
=============================================================================

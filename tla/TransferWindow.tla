---------------------------- MODULE TransferWindow ----------------------------
(***************************************************************************)
(* The sliding window of the transfer phase (sync_task.cpp, run_sync): the *)
(* submit loop posts one task per actionable file to a pool of             *)
(* max_concurrency threads while fewer than current_max_concurrency are in *)
(* flight; a failed task halves the window, a streak of successes widens   *)
(* it, and every task ends by releasing its slot.                          *)
(*                                                                         *)
(* in_flight, the window and the streak are atomics read and written       *)
(* outside the mutex: each access is a step.  The critical sections of     *)
(* concurrency_mutex (evaluate the predicate and wait; decrement and       *)
(* notify) are atomic.                                                     *)
(***************************************************************************)
EXTENDS Integers, FiniteSets

CONSTANTS
    FileCount,      \* actionable.size()
    MaxThreads,     \* effective_max_threads
    S3ToS3,         \* server-side copies: start low, double the window
    S3Start,        \* ... at this width: 64
    Floor,          \* the window is not halved below this: 16
    RampInterval    \* successes in a row before it widens: 100 or 10

ASSUME WindowAssumption ==
    /\ FileCount \in Nat \ {0} /\ MaxThreads \in Nat \ {0}
    /\ S3ToS3 \in BOOLEAN /\ S3Start \in Nat \ {0}
    /\ Floor \in Nat \ {0} /\ RampInterval \in Nat \ {0}

Larger(a, b)  == IF a > b THEN a ELSE b
Smaller(a, b) == IF a < b THEN a ELSE b

Files == 1..FileCount
MaxConcurrency == Smaller(MaxThreads, FileCount)
InitialConcurrency == IF S3ToS3 THEN Smaller(MaxConcurrency, S3Start) ELSE MaxConcurrency

VARIABLES
    task,       \* what has become of each file
    current,    \* the window a task has loaded and is about to replace, or 0
    in_flight,
    current_max_concurrency,
    consecutive_successes,   \* modulo RampInterval
    submit,     \* where the submit loop is
    cancelled,
    succeeded,  \* process_file returned true (a queued download is counted
                \* by the disk writers: WriteQueue)
    failed      \* counted in fail_count

taskVars   == <<task, current>>
countVars  == <<succeeded, failed>>
windowVars == <<current_max_concurrency, consecutive_successes>>
vars == <<taskVars, countVars, windowVars, in_flight, submit, cancelled>>

\* "returned": process_file has returned false; "reduce", "raise": about to load
\* the window or to exchange it; "release": about to run the destructor of Guard.
TaskStates   == {"planned", "posted", "running", "returned", "reduce", "raise",
                 "release", "done"}
SubmitStates == {"next", "check", "waiting", "post", "drain", "draining", "joined"}

InTask(s)  == {f \in Files : task[f] = s}
Submitted  == {f \in Files : task[f] \notin {"planned", "done"}}
OnThread   == {f \in Files : task[f] \notin {"planned", "posted", "done"}}

-----------------------------------------------------------------------------

Init ==
    /\ task = [f \in Files |-> "planned"] /\ current = [f \in Files |-> 0]
    /\ in_flight = 0
    /\ current_max_concurrency = InitialConcurrency
    /\ consecutive_successes = 0
    /\ submit = "next"
    /\ cancelled = FALSE
    /\ succeeded = {} /\ failed = {}

-----------------------------------------------------------------------------
(* The submit loop.                                                        *)

\* The head of the loop: a cancelled run submits no more.
NextFile ==
    /\ submit = "next"
    /\ submit' = IF cancelled \/ InTask("planned") = {} THEN "drain" ELSE "check"
    /\ UNCHANGED <<taskVars, countVars, windowVars, in_flight, cancelled>>

\* Mutation of CheckWindow: the slot is taken with <= instead of <.
CheckWindowLoose ==
    /\ submit = "check"
    /\ submit' = IF in_flight <= current_max_concurrency \/ cancelled
                 THEN "post" ELSE "waiting"
    /\ UNCHANGED <<taskVars, countVars, windowVars, in_flight, cancelled>>

\* concurrency_cv.wait: the predicate is evaluated under the mutex.
CheckWindow ==
    /\ submit = "check"
    /\ submit' = IF in_flight < current_max_concurrency \/ cancelled
                 THEN "post" ELSE "waiting"
    /\ UNCHANGED <<taskVars, countVars, windowVars, in_flight, cancelled>>

\* Outside the mutex: the file is counted in flight and its task is posted.
PostTask(f) ==
    /\ submit = "post"
    /\ ~cancelled
    /\ task[f] = "planned" /\ \A g \in InTask("planned") : f <= g
    /\ in_flight' = in_flight + 1
    /\ task' = [task EXCEPT ![f] = "posted"]
    /\ submit' = "next"
    /\ UNCHANGED <<current, countVars, windowVars, cancelled>>

\* ... or the loop is left because the run was cancelled meanwhile.
LeaveLoop ==
    /\ submit = "post"
    /\ cancelled
    /\ submit' = "drain"
    /\ UNCHANGED <<taskVars, countVars, windowVars, in_flight, cancelled>>

\* Mutation of Drain: a cancelled run does not wait for its tasks.
DrainSkipped ==
    /\ submit = "drain"
    /\ submit' = IF in_flight = 0 \/ cancelled THEN "joined" ELSE "draining"
    /\ UNCHANGED <<taskVars, countVars, windowVars, in_flight, cancelled>>

\* Wait for in_flight = 0, then join the pool.
Drain ==
    /\ submit = "drain"
    /\ submit' = IF in_flight = 0 THEN "joined" ELSE "draining"
    /\ UNCHANGED <<taskVars, countVars, windowVars, in_flight, cancelled>>

-----------------------------------------------------------------------------
(* process_with_tracking.                                                  *)

\* A pool thread picks the task up.
StartTask(f) ==
    /\ task[f] = "posted"
    /\ Cardinality(OnThread) < MaxConcurrency
    /\ task' = [task EXCEPT ![f] = "running"]
    /\ UNCHANGED <<current, countVars, windowVars, in_flight, submit, cancelled>>

\* process_file returns false, having counted a failure unless the run is
\* cancelled.
TaskFails(f) ==
    /\ task[f] = "running"
    /\ task' = [task EXCEPT ![f] = "returned"]
    /\ failed' = IF cancelled THEN failed ELSE failed \cup {f}
    /\ UNCHANGED <<current, succeeded, windowVars, in_flight, submit, cancelled>>

\* A failure ends the streak and narrows the window, unless the run is
\* cancelled by now.
EndStreak(f) ==
    /\ task[f] = "returned"
    /\ IF cancelled
       THEN /\ task' = [task EXCEPT ![f] = "release"]
            /\ UNCHANGED consecutive_successes
       ELSE /\ task' = [task EXCEPT ![f] = "reduce"]
            /\ consecutive_successes' = 0
    /\ UNCHANGED <<current, countVars, current_max_concurrency, in_flight,
                   submit, cancelled>>

\* process_file returns true: every RampInterval-th success in a row may widen
\* the window.
TaskSucceeds(f) ==
    /\ task[f] = "running"
    /\ succeeded' = succeeded \cup {f}
    /\ consecutive_successes' = (consecutive_successes + 1) % RampInterval
    /\ task' = [task EXCEPT ![f] =
                   IF consecutive_successes + 1 = RampInterval THEN "raise" ELSE "release"]
    /\ UNCHANGED <<current, failed, current_max_concurrency, in_flight, submit,
                   cancelled>>

\* current_max_concurrency.load(); a window at its maximum is not widened.
LoadWindow(f) ==
    /\ task[f] \in {"reduce", "raise"} /\ current[f] = 0
    /\ IF task[f] = "raise" /\ current_max_concurrency >= MaxConcurrency
       THEN task' = [task EXCEPT ![f] = "release"] /\ UNCHANGED current
       ELSE current' = [current EXCEPT ![f] = current_max_concurrency] /\ UNCHANGED task
    /\ UNCHANGED <<countVars, windowVars, in_flight, submit, cancelled>>

Halved(w) == Larger(w \div 2, Floor)

\* Mutation of Widened: not clamped to the number of threads.
WidenedUnclamped(w) == w + (IF S3ToS3 THEN w ELSE Larger(w \div 2, 1))

Widened(w) ==
    Smaller(w + (IF S3ToS3 THEN w ELSE Larger(w \div 2, 1)), MaxConcurrency)

\* The compare-and-exchange loop of a failed task: nothing to reduce, reduced,
\* or another task was faster and the window is loaded again.
ReduceWindow(f) ==
    /\ task[f] = "reduce" /\ current[f] # 0
    /\ \/ /\ Halved(current[f]) >= current[f]
          /\ task' = [task EXCEPT ![f] = "release"]
          /\ current' = [current EXCEPT ![f] = 0]
          /\ UNCHANGED current_max_concurrency
       \/ /\ Halved(current[f]) < current[f]
          /\ current_max_concurrency = current[f]
          /\ current_max_concurrency' = Halved(current[f])
          /\ task' = [task EXCEPT ![f] = "release"]
          /\ current' = [current EXCEPT ![f] = 0]
       \/ /\ Halved(current[f]) < current[f]
          /\ current_max_concurrency # current[f]
          /\ current' = [current EXCEPT ![f] = current_max_concurrency]
          /\ UNCHANGED <<task, current_max_concurrency>>
    /\ UNCHANGED <<countVars, consecutive_successes, in_flight, submit, cancelled>>

\* The single compare-and-exchange of a success; compare_exchange_weak may
\* fail although the window is the one loaded.
RaiseWindow(f) ==
    /\ task[f] = "raise" /\ current[f] # 0
    /\ \/ /\ current_max_concurrency = current[f]
          /\ current_max_concurrency' = Widened(current[f])
       \/ UNCHANGED current_max_concurrency
    /\ task' = [task EXCEPT ![f] = "release"]
    /\ current' = [current EXCEPT ![f] = 0]
    /\ UNCHANGED <<countVars, consecutive_successes, in_flight, submit, cancelled>>

\* Mutation of ReleaseSlot: the slot is released without a notification.
ReleaseSlotSilently(f) ==
    /\ task[f] = "release"
    /\ task' = [task EXCEPT ![f] = "done"]
    /\ in_flight' = in_flight - 1
    /\ UNCHANGED <<current, countVars, windowVars, submit, cancelled>>

\* What notify_one does to the submit loop, its only waiter.
Woken(s) == CASE s = "waiting" -> "check" [] s = "draining" -> "drain" [] OTHER -> s

\* The destructor of Guard, under the mutex.
ReleaseSlot(f) ==
    /\ task[f] = "release"
    /\ task' = [task EXCEPT ![f] = "done"]
    /\ in_flight' = in_flight - 1
    /\ submit' = Woken(submit)
    /\ UNCHANGED <<current, countVars, windowVars, cancelled>>

-----------------------------------------------------------------------------

\* main.cpp sets progress.cancelled; the condition variable is not notified.
Cancel ==
    /\ ~cancelled /\ submit # "joined"
    /\ cancelled' = TRUE
    /\ UNCHANGED <<taskVars, countVars, windowVars, in_flight, submit>>

SpuriousWake ==
    /\ submit \in {"waiting", "draining"}
    /\ submit' = Woken(submit)
    /\ UNCHANGED <<taskVars, countVars, windowVars, in_flight, cancelled>>

SubmitStep ==
    NextFile \/ CheckWindow \/ (\E f \in Files : PostTask(f)) \/ LeaveLoop \/ Drain

TaskStep(f) ==
    \/ StartTask(f) \/ TaskFails(f) \/ EndStreak(f) \/ TaskSucceeds(f)
    \/ LoadWindow(f) \/ ReduceWindow(f) \/ RaiseWindow(f) \/ ReleaseSlot(f)

Next ==
    \/ SubmitStep
    \/ \E f \in Files : TaskStep(f)
    \/ Cancel
    \/ SpuriousWake

Spec == Init /\ [][Next]_vars

\* Threads are scheduled and the work of a task ends.  Neither cancellation
\* nor spurious wake-ups are relied upon.
Fairness == WF_vars(SubmitStep) /\ \A f \in Files : WF_vars(TaskStep(f))

FairSpec == Spec /\ Fairness

-----------------------------------------------------------------------------

\* The type invariant.  The window stays between the floor, or its initial
\* width where that is less, and the number of pool threads, whatever the
\* concurrent exchanges of process_with_tracking do to it.
TypeOK ==
    /\ task \in [Files -> TaskStates]
    /\ current \in [Files -> 0..MaxConcurrency]
    /\ in_flight \in Nat
    /\ current_max_concurrency \in Smaller(Floor, InitialConcurrency)..MaxConcurrency
    /\ consecutive_successes \in 0..(RampInterval - 1)
    /\ submit \in SubmitStates
    /\ cancelled \in BOOLEAN
    /\ succeeded \subseteq Files /\ failed \subseteq Files

(***************************************************************************)
(* in_flight counts exactly the files that were posted and have not        *)
(* released their slot, and there is a pool thread for each of them, so    *)
(* no file waits behind another; the submit loop decides on a window that  *)
(* the tasks change after it let go of the mutex.                          *)
(***************************************************************************)
InFlightExact ==
    /\ in_flight = Cardinality(Submitted)
    /\ in_flight <= MaxConcurrency

(***************************************************************************)
(* Why it holds: what the submit loop knows when it posts, and which       *)
(* files the counters and the loaded windows belong to.                    *)
(***************************************************************************)
SlotFree == (submit = "post" /\ ~cancelled) => in_flight < MaxConcurrency

CountsMatch ==
    /\ succeeded \cap failed = {}
    /\ \A f \in Files :
          /\ f \in succeeded => task[f] \in {"raise", "release", "done"}
          /\ f \in failed => task[f] \in {"returned", "reduce", "release", "done"}
          /\ task[f] \in {"returned", "reduce", "raise", "release", "done"} =>
                f \in succeeded \cup failed \/ cancelled

LoopOrder ==
    /\ submit \in {"check", "waiting", "post"} => InTask("planned") # {}
    /\ submit \in {"drain", "draining", "joined"} => cancelled \/ InTask("planned") = {}
    /\ submit = "joined" => Submitted = {}

WindowInv == TypeOK /\ InFlightExact /\ SlotFree /\ CountsMatch /\ LoopOrder

\* The transfer phase ends, cancelled or not: no slot is leaked and the submit
\* loop is woken for every slot that is released.
Finishes == <>(submit = "joined")

(***************************************************************************)
(* The transfer phase implements BoundedExecution.                         *)
(***************************************************************************)
Count(f) ==
    IF f \in succeeded THEN IF f \in failed THEN "twice" ELSE "ok"
                       ELSE IF f \in failed THEN "failed" ELSE "uncounted"

Outcome(f) ==
    IF task[f] = "planned" THEN "planned"
    ELSE IF task[f] = "done" THEN Count(f) ELSE "active"

Abs == INSTANCE BoundedExecution WITH
          Limit <- MaxConcurrency, state <- [f \in Files |-> Outcome(f)],
          stopped <- cancelled, ended <- (submit = "joined")

\* Every file is processed at most once and counted exactly once, at most
\* MaxConcurrency at a time, and the phase ends only when nothing is in flight
\* and every file is counted or the run was cancelled (run_sync, lines 3032-3125).
ImplementsBounded == Abs!AbsSpec
=============================================================================

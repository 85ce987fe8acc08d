----------------------------- MODULE TransferProofs -----------------------------
(***************************************************************************)
(* The transfers: how many are in flight, and what each request of them    *)
(* does.                                                                   *)
(*                                                                         *)
(* TransferWindow, for every number of files and threads and every setting *)
(* of the window: it is type correct (the window keeps its bounds),        *)
(* in_flight is exact and never exceeds the pool, and the transfer phase   *)
(* implements BoundedExecution.                                            *)
(*                                                                         *)
(* S3Client, for every bound on objects, files, writes by others and       *)
(* retries, and whatever the service does with ranges, headers, bodies and *)
(* errors: a range read that succeeds is exact, a report was true during   *)
(* the call, a deletion that is confirmed took place, an upload that       *)
(* succeeds is the file block by block, and transient failures are retried *)
(* to the last attempt.  All of them rest on ClientInv: what the bucket    *)
(* holds now is among what it held during the call, the steps belong to    *)
(* their operations, and the blocks read from the file are at their place. *)
(***************************************************************************)
EXTENDS TransferWindow, S3Client, FiniteSetTheorems, SequenceTheorems, TLAPS

-----------------------------------------------------------------------------
(* The window.                                                             *)

\* The lower bound of the window.
Lowest == Smaller(Floor, InitialConcurrency)

\* What the constants of run_sync amount to.
LEMMA ConstantFacts ==
    /\ MaxConcurrency \in Nat \ {0}
    /\ InitialConcurrency \in Nat \ {0} /\ InitialConcurrency <= MaxConcurrency
    /\ Lowest \in Nat \ {0} /\ Lowest <= InitialConcurrency
    /\ Floor \in Nat \ {0} /\ Lowest <= Floor
    /\ RampInterval \in Nat \ {0}
    BY WindowAssumption DEF MaxConcurrency, InitialConcurrency, Lowest, Smaller

\* The files are a finite set, and so are those in flight.
LEMMA FilesFinite == IsFiniteSet(Files) /\ IsFiniteSet(Submitted)
  <1>1. IsFiniteSet(Files)
    BY WindowAssumption, FS_Interval DEF Files
  <1>2. Submitted \in SUBSET Files
    BY DEF Submitted
  <1>3. QED
    BY <1>1, <1>2, FS_Subset

\* A window that is halved keeps the lower bound.
LEMMA HalvedBounds ==
    ASSUME NEW w \in Lowest..MaxConcurrency, Halved(w) < w
    PROVE  Halved(w) \in Lowest..MaxConcurrency
    BY ConstantFacts DEF Halved, Larger

\* A window that is widened keeps both bounds.
LEMMA WidenedBounds ==
    ASSUME NEW w \in Lowest..MaxConcurrency
    PROVE  Widened(w) \in Lowest..MaxConcurrency
    BY ConstantFacts, WindowAssumption DEF Widened, Larger, Smaller

\* The actions of Next, one by one.
LEMMA NextCases ==
    ASSUME Next
    PROVE  \/ NextFile \/ CheckWindow \/ LeaveLoop \/ Drain \/ Cancel \/ SpuriousWake
           \/ \E f \in Files :
                 \/ PostTask(f) \/ StartTask(f) \/ TaskFails(f) \/ EndStreak(f)
                 \/ TaskSucceeds(f) \/ LoadWindow(f) \/ ReduceWindow(f)
                 \/ RaiseWindow(f) \/ ReleaseSlot(f)
    BY Zenon DEF Next, SubmitStep, TaskStep

-----------------------------------------------------------------------------
(* Type correctness.                                                       *)

\* The initial states satisfy the type invariant.
LEMMA TypeInit == Init => TypeOK
  <1> SUFFICES ASSUME Init PROVE TypeOK
    OBVIOUS
  <1>a. Lowest = Smaller(Floor, InitialConcurrency)
    BY DEF Lowest
  <1>1. /\ current_max_concurrency \in Smaller(Floor, InitialConcurrency)..MaxConcurrency
        /\ consecutive_successes \in 0..(RampInterval - 1)
        /\ current \in [Files -> 0..MaxConcurrency] /\ in_flight \in Nat
    BY <1>a, ConstantFacts DEF Init
  <1>2. /\ task \in [Files -> TaskStates] /\ submit \in SubmitStates
        /\ succeeded \subseteq Files /\ failed \subseteq Files
    BY DEF Init, TaskStates, SubmitStates
  <1>3. cancelled \in BOOLEAN
    BY Zenon DEF Init
  <1>4. QED
    BY <1>1, <1>2, <1>3, Zenon DEF TypeOK

\* Every step of run_sync preserves it; that a release does not drive
\* in_flight below zero is what InFlightExact is needed for.
LEMMA TypeStep ==
    ASSUME TypeOK, InFlightExact, [Next]_vars
    PROVE  TypeOK'
  <1> USE ConstantFacts
  <1>a. Lowest = Smaller(Floor, InitialConcurrency)
    BY DEF Lowest
  <1>1. CASE UNCHANGED vars
    BY <1>1 DEF TypeOK, vars, taskVars, countVars, windowVars
  <1>2. CASE NextFile \/ CheckWindow \/ LeaveLoop \/ Drain \/ Cancel \/ SpuriousWake
    BY <1>2 DEF TypeOK, NextFile, CheckWindow, LeaveLoop, Drain, Cancel,
       SpuriousWake, Woken, taskVars, countVars, windowVars, SubmitStates
  <1>3. ASSUME NEW f \in Files, PostTask(f) PROVE TypeOK'
    BY <1>3 DEF TypeOK, PostTask, countVars, windowVars, SubmitStates, TaskStates
  <1>4. ASSUME NEW f \in Files, StartTask(f) \/ TaskFails(f) \/ EndStreak(f)
        PROVE  TypeOK'
    BY <1>4 DEF TypeOK, StartTask, TaskFails, EndStreak, taskVars, countVars, windowVars,
       TaskStates
  <1>5. ASSUME NEW f \in Files, TaskSucceeds(f) PROVE TypeOK'
    <2>1. (consecutive_successes + 1) % RampInterval \in 0..(RampInterval - 1)
      BY DEF TypeOK
    <2>2. QED
      BY <1>5, <2>1 DEF TypeOK, TaskSucceeds, TaskStates
  <1>6. ASSUME NEW f \in Files, LoadWindow(f) PROVE TypeOK'
    BY <1>6, <1>a DEF TypeOK, LoadWindow, countVars, windowVars, TaskStates
  <1>7. ASSUME NEW f \in Files, ReduceWindow(f) PROVE TypeOK'
    <2>1. current_max_concurrency' \in Lowest..MaxConcurrency
      BY <1>7, <1>a, HalvedBounds DEF ReduceWindow, TypeOK
    <2>2. current' \in [Files -> 0..MaxConcurrency]
      BY <1>7, <1>a DEF ReduceWindow, TypeOK
    <2>3. QED
      BY <1>7, <1>a, <2>1, <2>2 DEF ReduceWindow, TypeOK, countVars, TaskStates
  <1>8. ASSUME NEW f \in Files, RaiseWindow(f) PROVE TypeOK'
    <2>1. current_max_concurrency' \in Lowest..MaxConcurrency
      BY <1>8, <1>a, WidenedBounds DEF RaiseWindow, TypeOK
    <2>2. QED
      BY <1>8, <1>a, <2>1 DEF RaiseWindow, TypeOK, countVars, TaskStates
  <1>9. ASSUME NEW f \in Files, ReleaseSlot(f) PROVE TypeOK'
    <2>1. f \in Submitted
      BY <1>9 DEF ReleaseSlot, Submitted
    <2>2. in_flight # 0
      BY <2>1, FilesFinite, FS_EmptySet DEF InFlightExact
    <2>3. in_flight' \in Nat
      BY <1>9, <2>2 DEF ReleaseSlot, TypeOK
    <2>4. QED
      BY <1>9, <2>3 DEF ReleaseSlot, TypeOK, Woken, SubmitStates, TaskStates,
         countVars, windowVars
  <1>10. QED
    BY <1>1, <1>2, <1>3, <1>4, <1>5, <1>6, <1>7, <1>8, <1>9, NextCases, Zenon

-----------------------------------------------------------------------------
(* The slots.                                                              *)

\* Posting a file adds it to those in flight.
LEMMA PostAdds ==
    ASSUME TypeOK, NEW f \in Files, PostTask(f)
    PROVE  f \notin Submitted /\ Submitted' = Submitted \cup {f}
    BY DEF PostTask, Submitted, TypeOK

\* Releasing its slot removes it.
LEMMA ReleaseRemoves ==
    ASSUME TypeOK, NEW f \in Files, ReleaseSlot(f)
    PROVE  f \in Submitted /\ Submitted' = Submitted \ {f}
    BY DEF ReleaseSlot, Submitted, TypeOK

\* The steps that neither post nor release a file.
InternalStep(f) ==
    \/ StartTask(f) \/ TaskFails(f) \/ EndStreak(f) \/ TaskSucceeds(f)
    \/ LoadWindow(f) \/ ReduceWindow(f) \/ RaiseWindow(f)

\* They move the task of f from one state in flight to another.
LEMMA InternalMoves ==
    ASSUME TypeOK, NEW f \in Files, InternalStep(f)
    PROVE  /\ UNCHANGED <<in_flight, submit, cancelled>>
           /\ task[f] \notin {"planned", "done"} /\ task'[f] \notin {"planned", "done"}
           /\ \A g \in Files : g # f => task'[g] = task[g]
  <1>1. CASE StartTask(f) \/ TaskFails(f) \/ EndStreak(f) \/ TaskSucceeds(f)
    BY <1>1 DEF TypeOK, StartTask, TaskFails, EndStreak, TaskSucceeds
  <1>2. CASE LoadWindow(f) \/ ReduceWindow(f) \/ RaiseWindow(f)
    BY <1>2 DEF TypeOK, LoadWindow, ReduceWindow, RaiseWindow
  <1>3. QED
    BY <1>1, <1>2 DEF InternalStep

\* So they leave the files in flight and the planned ones alone.
LEMMA InternalKeeps ==
    ASSUME TypeOK, NEW f \in Files, InternalStep(f)
    PROVE  Submitted' = Submitted /\ InTask("planned")' = InTask("planned")
    BY InternalMoves DEF Submitted, InTask

\* The steps of the submit loop, of the user and of the condition variable.
LoopStep == NextFile \/ CheckWindow \/ LeaveLoop \/ Drain \/ Cancel \/ SpuriousWake

\* They touch no task.
LEMMA LoopKeeps ==
    ASSUME LoopStep
    PROVE  /\ UNCHANGED <<taskVars, countVars, windowVars, in_flight>>
           /\ Submitted' = Submitted /\ InTask("planned")' = InTask("planned")
    BY DEF LoopStep, NextFile, CheckWindow, LeaveLoop, Drain, Cancel, SpuriousWake,
       taskVars, Submitted, InTask

\* The actions of Next, as the lemmas above group them.
LEMMA StepCases ==
    ASSUME [Next]_vars
    PROVE  \/ UNCHANGED vars \/ LoopStep
           \/ \E f \in Files : PostTask(f) \/ ReleaseSlot(f) \/ InternalStep(f)
    BY NextCases, Zenon DEF LoopStep, InternalStep

\* in_flight stays exact, and a slot the submit loop has seen stays free.
LEMMA SlotsStep ==
    ASSUME TypeOK, InFlightExact, SlotFree, [Next]_vars
    PROVE  InFlightExact' /\ SlotFree'
  <1>a. in_flight \in Nat /\ MaxConcurrency \in Nat
    BY ConstantFacts DEF TypeOK
  <1>1. CASE UNCHANGED vars
    BY <1>1 DEF vars, taskVars, InFlightExact, SlotFree, Submitted
  <1>2. CASE LoopStep
    <2>1. InFlightExact'
      BY <1>2, LoopKeeps DEF InFlightExact
    <2>2. SlotFree'
      BY <1>2, <1>a, ConstantFacts
         DEF SlotFree, TypeOK, LoopStep, NextFile, CheckWindow, LeaveLoop, Drain, Cancel,
             SpuriousWake, Woken, Lowest
    <2>3. QED
      BY <2>1, <2>2
  <1>3. ASSUME NEW f \in Files, InternalStep(f) PROVE InFlightExact' /\ SlotFree'
    BY <1>3, InternalMoves, InternalKeeps DEF InFlightExact, SlotFree
  <1>4. ASSUME NEW f \in Files, PostTask(f) PROVE InFlightExact' /\ SlotFree'
    <2>1. Cardinality(Submitted') = Cardinality(Submitted) + 1
      BY <1>4, PostAdds, FilesFinite, FS_AddElement
    <2>2. in_flight < MaxConcurrency /\ in_flight' = in_flight + 1 /\ submit' = "next"
      BY <1>4 DEF PostTask, SlotFree
    <2>3. QED
      BY <1>a, <2>1, <2>2 DEF InFlightExact, SlotFree
  <1>5. ASSUME NEW f \in Files, ReleaseSlot(f) PROVE InFlightExact' /\ SlotFree'
    <2>1. Cardinality(Submitted') = Cardinality(Submitted) - 1
      BY <1>5, ReleaseRemoves, FilesFinite, FS_RemoveElement
    <2>2. in_flight' = in_flight - 1 /\ cancelled' = cancelled
          /\ (submit' = "post" => submit = "post")
      BY <1>5 DEF ReleaseSlot, Woken
    <2>3. QED
      BY <1>a, <2>1, <2>2 DEF InFlightExact, SlotFree
  <1>6. QED
    BY <1>1, <1>2, <1>3, <1>4, <1>5, StepCases, Zenon

-----------------------------------------------------------------------------
(* The counters and the order of the submit loop.                          *)

\* Every file is counted once, between its process_file and its release.
LEMMA CountsStep ==
    ASSUME TypeOK, CountsMatch, [Next]_vars
    PROVE  CountsMatch'
  <1>1. CASE UNCHANGED vars
    BY <1>1 DEF vars, taskVars, countVars, CountsMatch
  <1>2. CASE LoopStep
    <2>1. cancelled => cancelled'
      BY <1>2 DEF LoopStep, NextFile, CheckWindow, LeaveLoop, Drain, Cancel, SpuriousWake
    <2>2. task' = task /\ succeeded' = succeeded /\ failed' = failed
      BY <1>2, LoopKeeps DEF taskVars, countVars
    <2>3. QED
      BY <2>1, <2>2 DEF CountsMatch
  <1>3. ASSUME NEW f \in Files, PostTask(f) PROVE CountsMatch'
    BY <1>3 DEF PostTask, countVars, CountsMatch, TypeOK
  <1>4. ASSUME NEW f \in Files, ReleaseSlot(f) PROVE CountsMatch'
    BY <1>4 DEF ReleaseSlot, countVars, CountsMatch, TypeOK
  <1>5. ASSUME NEW f \in Files, StartTask(f) PROVE CountsMatch'
    BY <1>5 DEF StartTask, countVars, CountsMatch, TypeOK
  <1>6. ASSUME NEW f \in Files, TaskFails(f) PROVE CountsMatch'
    BY <1>6 DEF TaskFails, CountsMatch, TypeOK
  <1>7. ASSUME NEW f \in Files, EndStreak(f) PROVE CountsMatch'
    BY <1>7 DEF EndStreak, countVars, CountsMatch, TypeOK
  <1>8. ASSUME NEW f \in Files, TaskSucceeds(f) PROVE CountsMatch'
    BY <1>8 DEF TaskSucceeds, CountsMatch, TypeOK
  <1>9. ASSUME NEW f \in Files, LoadWindow(f) PROVE CountsMatch'
    BY <1>9 DEF LoadWindow, countVars, CountsMatch, TypeOK
  <1>10. ASSUME NEW f \in Files, ReduceWindow(f) PROVE CountsMatch'
    BY <1>10 DEF ReduceWindow, countVars, CountsMatch, TypeOK
  <1>11. ASSUME NEW f \in Files, RaiseWindow(f) PROVE CountsMatch'
    BY <1>11 DEF RaiseWindow, countVars, CountsMatch, TypeOK
  <1>12. QED
    BY <1>1, <1>2, <1>3, <1>4, <1>5, <1>6, <1>7, <1>8, <1>9, <1>10, <1>11,
       StepCases, Zenon DEF InternalStep

\* The submit loop holds a planned file until it posts it, and leaves the loop
\* only when none is left or the run is cancelled.
LEMMA OrderStep ==
    ASSUME TypeOK, InFlightExact, LoopOrder, [Next]_vars
    PROVE  LoopOrder'
  <1>a. in_flight = 0 => Submitted = {}
    BY FilesFinite, FS_EmptySet DEF InFlightExact
  <1>1. CASE UNCHANGED vars
    BY <1>1 DEF vars, taskVars, LoopOrder, InTask, Submitted
  <1>2. CASE LoopStep
    <2>1. InTask("planned")' = InTask("planned") /\ Submitted' = Submitted
      BY <1>2, LoopKeeps
    <2>2. QED
      BY <1>2, <2>1, <1>a DEF LoopOrder, LoopStep, NextFile, CheckWindow, LeaveLoop, Drain,
         Cancel, SpuriousWake, Woken
  <1>3. ASSUME NEW f \in Files, InternalStep(f) PROVE LoopOrder'
    BY <1>3, InternalMoves, InternalKeeps DEF LoopOrder
  <1>4. ASSUME NEW f \in Files, PostTask(f) PROVE LoopOrder'
    BY <1>4 DEF PostTask, LoopOrder
  <1>5. ASSUME NEW f \in Files, ReleaseSlot(f) PROVE LoopOrder'
    <2>1. InTask("planned")' = InTask("planned")
      BY <1>5 DEF ReleaseSlot, InTask, TypeOK
    <2>2. Submitted # {} /\ cancelled' = cancelled /\ submit' = Woken(submit)
      BY <1>5, ReleaseRemoves DEF ReleaseSlot
    <2>3. QED
      BY <2>1, <2>2 DEF LoopOrder, Woken
  <1>6. QED
    BY <1>1, <1>2, <1>3, <1>4, <1>5, StepCases, Zenon

-----------------------------------------------------------------------------
(* The theorems.                                                           *)

\* The inductive invariant holds in every reachable state.
THEOREM WindowInvariant == Spec => []WindowInv
  <1>1. Init => WindowInv
    <2> SUFFICES ASSUME Init PROVE WindowInv
      OBVIOUS
    <2>1. TypeOK
      BY TypeInit
    <2>2. Submitted = {} /\ InTask("planned") = Files
      BY DEF Init, Submitted, InTask
    <2>3. InFlightExact
      BY <2>2, FS_EmptySet, ConstantFacts DEF Init, InFlightExact
    <2>4. SlotFree /\ CountsMatch /\ LoopOrder
      BY DEF Init, SlotFree, CountsMatch, LoopOrder
    <2>5. QED
      BY <2>1, <2>3, <2>4 DEF WindowInv
  <1>2. WindowInv /\ [Next]_vars => WindowInv'
    BY TypeStep, SlotsStep, CountsStep, OrderStep, Zenon DEF WindowInv
  <1>3. QED
    BY <1>1, <1>2, PTL DEF Spec

\* The transfer phase is type correct: in particular current_max_concurrency
\* stays between its floor and the number of pool threads.
THEOREM WindowTypeCorrect == Spec => []TypeOK
  <1>1. WindowInv => TypeOK
    BY DEF WindowInv
  <1>2. QED
    BY <1>1, WindowInvariant, PTL

\* in_flight counts the files in flight and never exceeds the pool.
THEOREM SlotsExact == Spec => []InFlightExact
  <1>1. WindowInv => InFlightExact
    BY DEF WindowInv
  <1>2. QED
    BY <1>1, WindowInvariant, PTL

-----------------------------------------------------------------------------
(* The refinement of BoundedExecution.                                     *)

\* The abstract state of a file in each of its concrete states.
LEMMA OutcomeFacts ==
    ASSUME NEW f \in Files
    PROVE  /\ Outcome(f) = "planned" <=> task[f] = "planned"
           /\ Outcome(f) = "active" <=> f \in Submitted
           /\ task[f] = "done" => Outcome(f) = Count(f)
    BY DEF Outcome, Count, Submitted

\* The abstract sets of files.
LEMMA AbstractSets ==
    /\ Abs!InState("active") = Submitted
    /\ Abs!InState("planned") = InTask("planned")
    BY OutcomeFacts DEF Abs!InState, Submitted, InTask

\* The instance counts as this module does.
LEMMA AbstractCount == \A S : Abs!Cardinality(S) = Cardinality(S)
    BY DEF Abs!Cardinality, Cardinality, Abs!IsFiniteSet, IsFiniteSet

\* A task that keeps being in flight keeps its abstract state.
LEMMA InternalStutters ==
    ASSUME TypeOK, CountsMatch, NEW f \in Files, InternalStep(f)
    PROVE  UNCHANGED Abs!absVars
  <1>1. UNCHANGED <<cancelled, submit>>
    BY InternalMoves
  <1>2. ASSUME NEW g \in Files PROVE Outcome(g)' = Outcome(g)
    <2>1. CASE g = f
      BY <2>1, InternalMoves DEF Outcome
    <2>2. CASE g # f
      <3>1. task'[g] = task[g]
        BY <2>2, InternalMoves
      <3>2. (g \in succeeded' <=> g \in succeeded) /\ (g \in failed' <=> g \in failed)
        BY <2>2 DEF InternalStep, StartTask, TaskFails, EndStreak, TaskSucceeds, LoadWindow,
           ReduceWindow, RaiseWindow, countVars
      <3>3. QED
        BY <3>1, <3>2 DEF Outcome, Count
    <2>3. QED
      BY <2>1, <2>2
  <1>3. [g \in Files |-> Outcome(g)]' = [g \in Files |-> Outcome(g)]
    BY <1>2, Zenon
  <1>4. QED
    BY <1>1, <1>3 DEF Abs!absVars

\* Posting a file begins its processing.
LEMMA PostBegins ==
    ASSUME WindowInv, NEW f \in Files, PostTask(f)
    PROVE  Abs!Begin(f)
  <1>a. TypeOK /\ InFlightExact /\ SlotFree
    BY DEF WindowInv
  <1>1. submit # "joined" /\ submit' # "joined" /\ cancelled' = cancelled
    BY DEF PostTask
  <1>2. Outcome(f) = "planned"
    BY OutcomeFacts DEF PostTask
  <1>3. Abs!Cardinality(Abs!InState("active")) < MaxConcurrency
    BY <1>a, AbstractSets, AbstractCount DEF PostTask, SlotFree, InFlightExact
  <1>4. ASSUME NEW g \in Files
        PROVE  Outcome(g)' = IF g = f THEN "active" ELSE Outcome(g)
    BY <1>a DEF PostTask, Outcome, Count, TypeOK, countVars
  <1>5. [g \in Files |-> Outcome(g)]' =
           [[g \in Files |-> Outcome(g)] EXCEPT ![f] = "active"]
    BY <1>4
  <1>6. QED
    BY <1>1, <1>2, <1>3, <1>5 DEF Abs!Begin

\* Releasing its slot completes it, with the count it has by then.
LEMMA ReleaseCompletes ==
    ASSUME WindowInv, NEW f \in Files, ReleaseSlot(f)
    PROVE  Abs!Complete(f)
  <1>a. TypeOK /\ CountsMatch /\ LoopOrder
    BY DEF WindowInv
  <1>1. f \in Submitted
    BY <1>a, ReleaseRemoves
  <1>2. (submit = "joined") = FALSE /\ (submit' = "joined") = FALSE
        /\ cancelled' = cancelled
    BY <1>a, <1>1 DEF ReleaseSlot, LoopOrder, Woken
  <1>3. Outcome(f) = "active"
    BY <1>1, OutcomeFacts
  <1>4. Count(f) \in {"ok", "failed"} \cup (IF cancelled THEN {"uncounted"} ELSE {})
    BY <1>a DEF ReleaseSlot, CountsMatch, Count
  <1>5. ASSUME NEW g \in Files
        PROVE  Outcome(g)' = IF g = f THEN Count(f) ELSE Outcome(g)
    BY <1>a DEF ReleaseSlot, Outcome, Count, TypeOK, countVars
  <1>6. [g \in Files |-> Outcome(g)]' =
           [[g \in Files |-> Outcome(g)] EXCEPT ![f] = Count(f)]
    BY <1>5
  <1>7. QED
    BY <1>2, <1>3, <1>4, <1>6 DEF Abs!Complete

\* The steps of the submit loop stutter, but for Drain, which may end the
\* phase, and Cancel, which stops it.
LEMMA LoopImplements ==
    ASSUME WindowInv, LoopStep
    PROVE  Abs!Stop \/ Abs!End \/ UNCHANGED Abs!absVars
  <1>a. TypeOK /\ InFlightExact /\ LoopOrder
    BY DEF WindowInv
  <1>1. UNCHANGED <<task, succeeded, failed>>
    BY LoopKeeps DEF taskVars, countVars
  <1>2. [g \in Files |-> Outcome(g)]' = [g \in Files |-> Outcome(g)]
    BY <1>1 DEF Outcome, Count
  <1>3. CASE Cancel
    BY <1>2, <1>3 DEF Cancel, Abs!Stop
  <1>4. CASE Drain /\ in_flight = 0
    <2>1. Submitted = {}
      BY <1>a, <1>4, FilesFinite, FS_EmptySet DEF InFlightExact
    <2>2. cancelled \/ InTask("planned") = {}
      BY <1>a, <1>4 DEF Drain, LoopOrder
    <2>3. QED
      BY <1>2, <1>4, <2>1, <2>2, AbstractSets DEF Drain, Abs!End
  <1>5. CASE Drain /\ in_flight # 0
    BY <1>2, <1>5 DEF Drain, Abs!absVars
  <1>6. CASE NextFile \/ CheckWindow \/ LeaveLoop \/ SpuriousWake
    BY <1>2, <1>6 DEF NextFile, CheckWindow, LeaveLoop, SpuriousWake, Woken, Abs!absVars
  <1>7. QED
    BY <1>3, <1>4, <1>5, <1>6 DEF LoopStep

\* The transfer phase implements BoundedExecution: each file is processed at
\* most once and counted exactly once, at most MaxConcurrency at a time, and
\* the phase does not end early (run_sync's submit loop and drain).
THEOREM WindowRefines == Spec => ImplementsBounded
  <1>1. Init => Abs!AbsInit
    BY DEF Init, Abs!AbsInit, Outcome
  <1>2. WindowInv /\ [Next]_vars => [Abs!AbsNext]_(Abs!absVars)
    <2> SUFFICES ASSUME WindowInv, [Next]_vars
                 PROVE  Abs!AbsNext \/ UNCHANGED Abs!absVars
      OBVIOUS
    <2>a. TypeOK /\ CountsMatch
      BY DEF WindowInv
    <2>1. CASE UNCHANGED vars
      BY <2>1 DEF vars, taskVars, countVars, Abs!absVars, Outcome, Count
    <2>2. CASE LoopStep
      BY <2>2, LoopImplements DEF Abs!AbsNext
    <2>3. ASSUME NEW f \in Files, PostTask(f) PROVE Abs!AbsNext
      BY <2>3, PostBegins DEF Abs!AbsNext
    <2>4. ASSUME NEW f \in Files, ReleaseSlot(f) PROVE Abs!AbsNext
      BY <2>4, ReleaseCompletes DEF Abs!AbsNext
    <2>5. ASSUME NEW f \in Files, InternalStep(f) PROVE UNCHANGED Abs!absVars
      BY <2>5, <2>a, InternalStutters
    <2>6. QED
      BY <2>1, <2>2, <2>3, <2>4, <2>5, StepCases, Zenon
  <1>3. QED
    BY <1>1, <1>2, WindowInvariant, PTL DEF Spec, ImplementsBounded, Abs!AbsSpec

-----------------------------------------------------------------------------
(* The requests of the client: the inductive invariant.                    *)

Steps == {"request", "probe", "stat", "stream", "returned"}
Deletes == {"DeleteObject", "DeleteObjects"}

ServiceTypes == gateway \in Gateways /\ allow_unverified_ranges \in BOOLEAN

BucketTypes ==
    /\ object \in [exists : BOOLEAN, data : Seq(Blocks)]
    /\ Len(object.data) <= MaxLen + MaxFile
    /\ sibling \in BOOLEAN

CallTypes ==
    /\ call \in Calls /\ step \in Steps
    /\ attempt \in 0..MaxRetries /\ writes \in 0..MaxWrites

\* Every block of a sequence is at its offset.
InPlace(data) == \A i \in 1..Len(data) : data[i][2] = i

FileTypes == file \in Seq(Blocks) /\ Len(file) <= MaxFile /\ InPlace(file)

SentTypes ==
    /\ sent \in Seq(Blocks) /\ Len(sent) <= MaxFile /\ InPlace(sent)
    /\ limit \in 0..MaxPut

\* r is something an operation may return.
IsResult(r) ==
    /\ r.ok \in BOOLEAN /\ r.size \in -1..MaxLen + MaxFile
    /\ r.presence \in {"Exists", "NotFound", "Unknown"} /\ r.keys \subseteq Keys

ResultTypes == IsResult(result)

Typed == ServiceTypes /\ BucketTypes /\ CallTypes /\ FileTypes /\ SentTypes /\ ResultTypes

\* While a call is under way, the bucket of now is one it has seen.
SeenNow == step # "returned" => Snapshot \in seen

\* Which operation is at which step, and what it has checked by then.
StepsBelong ==
    /\ step = "probe" => call.op = "CheckObjectPresence"
    /\ step \in {"stat", "stream"} => call.op = "PutObjectFromFile"
    /\ step = "stat" => sent = <<>>
    /\ step = "stream" => Len(sent) <= limit
    /\ step = "request" => call.op # "PutObjectFromFile"
    /\ step = "request" /\ call.op \in {"GetObjectRange", "GetObjectRangeInto"} =>
          ValidateRange(call.start, call.end)

\* A call that may return without an answer of the service has met none that
\* would be worth another attempt.
FailuresBelong ==
    /\ step = "probe" => "permanent" \in failures
    /\ step \in {"stat", "stream"} => failures = {}
    /\ step = "request" /\ call.op \in Deletes => failures = {}
    /\ step = "request" /\ call.op = "GetChunkCRC32s" /\ ~ChunkRequestOk => failures = {}

Promises ==
    /\ RangeIsExact /\ ReportsAreTrue /\ DeletesAreConfirmed
    /\ UploadIsThePrefix /\ TransientIsRetried

ClientInv == Typed /\ SeenNow /\ StepsBelong /\ FailuresBelong /\ Promises

\* The actions of ClientNext, one by one.
LEMMA ClientCases ==
    ASSUME ClientNext
    PROVE  \/ \E c \in Calls : Call(c)
           \/ GetObjectSize \/ CheckObjectPresence \/ Probe \/ ListObjects
           \/ GetObjectRange \/ RefuseChunks \/ DeleteObjects
           \/ Stat \/ Underflow \/ Seek \/ PutObjectStreamed \/ OpenFails
           \/ ObjectWritten \/ FileWritten
    BY Zenon DEF ClientNext

\* What the calls have in common.
LEMMA CallFacts ==
    ASSUME NEW c \in Calls
    PROVE  /\ c.op \in Operations /\ c.start \in Int /\ c.end \in Int
           /\ c.op = "GetChunkCRC32s" => c.start = 0
    BY S3ClientAssumption DEF Calls, Operations, RangeReads

\* The fields of the results that the operations build.
LEMMA FailedFields ==
    /\ Failed.ok = FALSE /\ Failed.size = -1 /\ Failed.presence = "Unknown" /\ Failed.keys = {}
    BY Zenon DEF Failed

\* GetObjectSize: the size of the object.
LEMMA SizeFields ==
    ASSUME NEW n
    PROVE  LET r == [Failed EXCEPT !.ok = TRUE, !.size = n]
           IN  r.ok = TRUE /\ r.size = n /\ r.presence = "Unknown" /\ r.keys = {}
    BY Zenon DEF Failed

\* CheckObjectPresence and its probe: a presence.
LEMMA PresenceFields ==
    ASSUME NEW p
    PROVE  /\ Presence(p).ok = TRUE /\ Presence(p).size = -1
           /\ Presence(p).presence = p /\ Presence(p).keys = {}
    BY Zenon DEF Failed, Presence

\* ListObjects: the keys.
LEMMA KeysFields ==
    ASSUME NEW ks
    PROVE  LET r == [Failed EXCEPT !.ok = TRUE, !.keys = ks]
           IN  r.ok = TRUE /\ r.size = -1 /\ r.presence = "Unknown" /\ r.keys = ks
    BY Zenon DEF Failed

\* DeleteObjects: the keys the answer leaves unconfirmed.
LEMMA UnconfirmedFields ==
    ASSUME NEW ks
    PROVE  /\ Unconfirmed(ks).ok = (ks = {}) /\ Unconfirmed(ks).size = -1
           /\ Unconfirmed(ks).presence = "Unknown" /\ Unconfirmed(ks).keys = ks
    BY Zenon DEF Failed, Unconfirmed

\* PutObjectStreamed and DeleteObject: nothing but the outcome.
LEMMA StoredFields ==
    ASSUME NEW b
    PROVE  LET r == [Failed EXCEPT !.ok = b]
           IN  r.ok = b /\ r.size = -1 /\ r.presence = "Unknown" /\ r.keys = {}
    BY Zenon DEF Failed

\* The range reads: the body, or one for each chunk.
LEMMA ReadFields ==
    ASSUME NEW body
    PROVE  /\ ReadResult(body).ok = TRUE /\ ReadResult(body).size = -1
           /\ ReadResult(body).presence = "Unknown" /\ ReadResult(body).keys = {}
           /\ ReadResult(body).data =
                 IF call.op = "GetChunkCRC32s"
                 THEN [i \in 1..(IF call.ids = <<>> THEN 1 ELSE Len(call.ids)) |-> body]
                 ELSE body
    BY Zenon DEF Failed, ReadResult

\* A failure is a result.
LEMMA FailedIsResult == IsResult(Failed)
  <1>1. Failed.ok \in BOOLEAN /\ Failed.keys \subseteq Keys
    BY FailedFields, Zenon
  <1>2. Failed.size \in -1..MaxLen + MaxFile
        /\ Failed.presence \in {"Exists", "NotFound", "Unknown"}
    BY FailedFields, S3ClientAssumption
  <1>3. QED
    BY <1>1, <1>2, Zenon DEF IsResult

\* What a writer writes is a sequence of its blocks, each at its offset.
LEMMA ContentFacts ==
    ASSUME NEW w \in 0..MaxWrites, NEW n \in 0..(MaxLen + MaxFile)
    PROVE  Content(w, n) \in Seq(Blocks) /\ Len(Content(w, n)) = n /\ InPlace(Content(w, n))
  <1>1. \A i \in 1..n : <<w, i>> \in Blocks
    BY S3ClientAssumption DEF Blocks
  <1>2. Content(w, n) \in Seq(Blocks)
    BY <1>1, IsASeq, S3ClientAssumption DEF Content
  <1>3. Len(Content(w, n)) = n
    BY S3ClientAssumption DEF Content
  <1>4. InPlace(Content(w, n))
    BY <1>3 DEF InPlace, Content
  <1>5. QED
    BY <1>2, <1>3, <1>4

\* The snapshot's fields.
LEMMA SnapshotFields ==
    /\ Snapshot.object = object
    /\ Snapshot.keys = {k \in Keys : IF k = "key" THEN object.exists ELSE sibling}
    BY DEF Snapshot

\* A promise is about one kind of operation, and about a call that has returned;
\* all but two of them are about a call that has succeeded.
Elsewhere ==
    /\ step # "returned" => Promises
    /\ call.op \notin RangeReads => RangeIsExact
    /\ call.op \notin {"CheckObjectPresence", "GetObjectSize", "ListObjects"} => ReportsAreTrue
    /\ call.op \notin Deletes => DeletesAreConfirmed
    /\ call.op # "PutObjectFromFile" => UploadIsThePrefix
    /\ ~result.ok => RangeIsExact /\ ReportsAreTrue /\ UploadIsThePrefix

\* It holds in every state, by what the promises say.
LEMMA ElsewhereNow == Elsewhere
    BY DEF Elsewhere, Promises, RangeIsExact, ReportsAreTrue, DeletesAreConfirmed,
       UploadIsThePrefix, TransientIsRetried, Answered, Deletes

\* So it holds in the next state.
LEMMA ElsewhereNext == Elsewhere'
    BY ElsewhereNow, PTL

\* The steps that leave the bucket, the file and the call alone.
Quiet == UNCHANGED <<bucketVars, otherVars, putVars, file, call, seen>>

\* They keep what is known of them.
LEMMA QuietKeeps ==
    ASSUME ClientInv, Quiet, step # "returned", step' \in Steps, attempt' \in 0..MaxRetries,
           ResultTypes'
    PROVE  /\ Typed' /\ SeenNow' /\ Snapshot \in seen' /\ call' = call
           /\ object' = object /\ sibling' = sibling /\ gateway' = gateway
           /\ allow_unverified_ranges' = allow_unverified_ranges
  <1>1. /\ UNCHANGED <<object, sibling, gateway, allow_unverified_ranges, writes, sent, limit>>
        /\ UNCHANGED <<file, call, seen>>
    BY Zenon DEF Quiet, bucketVars, otherVars, putVars
  <1>2. ServiceTypes' /\ BucketTypes'
    BY <1>1, Zenon DEF ClientInv, Typed, ServiceTypes, BucketTypes
  <1>3. CallTypes'
    BY <1>1, Zenon DEF ClientInv, Typed, CallTypes
  <1>4. FileTypes' /\ SentTypes'
    BY <1>1, Zenon DEF ClientInv, Typed, FileTypes, SentTypes, InPlace
  <1>5. Snapshot' = Snapshot /\ Snapshot \in seen
    BY <1>1, Zenon DEF Snapshot, ClientInv, SeenNow
  <1>6. SeenNow'
    BY <1>1, <1>5, Zenon DEF SeenNow
  <1>7. QED
    BY <1>1, <1>2, <1>3, <1>4, <1>5, <1>6, Zenon DEF Typed

\* An attempt that does not succeed: the next one, or the end of the call, which
\* after nothing but transient failures comes with the last attempt.
LEMMA NoSuccessEnds ==
    ASSUME attempt \in 0..MaxRetries, NoSuccess
    PROVE  /\ attempt' \in 0..MaxRetries
           /\ "permanent" \in failures => "permanent" \in failures'
           /\ \/ step' = step /\ result' = result
              \/ /\ step' = "returned" /\ result' = Failed
                 /\ failures' = {"transient"} => attempt' = MaxRetries
  <1>1. ASSUME NEW e \in Errors, RetryOrReturn(IsRetryableS3Error(e), Failed),
               failures' = failures \cup
                  {IF IsRetryableS3Error(e) THEN "transient" ELSE "permanent"}
        PROVE  /\ attempt' \in 0..MaxRetries
               /\ "permanent" \in failures => "permanent" \in failures'
               /\ \/ step' = step /\ result' = result
                  \/ /\ step' = "returned" /\ result' = Failed
                     /\ failures' = {"transient"} => attempt' = MaxRetries
    <2>1. CASE IsRetryableS3Error(e)
      BY <1>1, <2>1, S3ClientAssumption DEF RetryOrReturn, Return, Retry
    <2>2. CASE ~IsRetryableS3Error(e)
      BY <1>1, <2>2, S3ClientAssumption DEF RetryOrReturn, Return, Retry
    <2>3. QED
      BY <2>1, <2>2
  <1>2. CASE RetryOrReturn(TRUE, Failed) /\ failures' = failures \cup {"transient"}
    BY <1>2, S3ClientAssumption DEF RetryOrReturn, Return, Retry
  <1>3. QED
    BY <1>1, <1>2, Zenon DEF NoSuccess

\* The same of a whole request that changes nothing else.
LEMMA NoSuccessKeeps ==
    ASSUME ClientInv, Quiet, step = "request", call.op \notin Deletes, NoSuccess,
           call.op = "GetChunkCRC32s" => ChunkRequestOk
    PROVE  ClientInv'
  <1>1. /\ attempt' \in 0..MaxRetries
        /\ \/ step' = step /\ result' = result
           \/ /\ step' = "returned" /\ result' = Failed
              /\ failures' = {"transient"} => attempt' = MaxRetries
    <2>1. attempt \in 0..MaxRetries
      BY Zenon DEF ClientInv, Typed, CallTypes
    <2>2. QED
      BY <2>1, NoSuccessEnds
  <1>2. step' \in {"request", "returned"}
    BY <1>1
  <1>3. ResultTypes'
    <2>1. CASE result' = result
      BY <2>1, Zenon DEF ResultTypes, ClientInv, Typed
    <2>2. CASE result' = Failed
      BY <2>2, FailedIsResult, Zenon DEF ResultTypes
    <2>3. QED
      BY <1>1, <2>1, <2>2
  <1>4. Typed' /\ SeenNow' /\ call' = call
    BY <1>1, <1>2, <1>3, QuietKeeps DEF Steps
  <1>5. StepsBelong' /\ FailuresBelong'
    <2>1. ChunkRequestOk' <=> ChunkRequestOk
      BY <1>4, Zenon DEF ChunkRequestOk
    <2>2. QED
      BY <1>2, <1>4, <2>1 DEF ClientInv, StepsBelong, FailuresBelong
  <1>6. Promises'
    <2>1. CASE step' = "request"
      BY <2>1, ElsewhereNext DEF Elsewhere
    <2>2. CASE step' = "returned"
      <3>1. result' = Failed /\ (failures' = {"transient"} => attempt' = MaxRetries)
        BY <1>1, <2>2
      <3>2. TransientIsRetried'
        BY <3>1 DEF TransientIsRetried
      <3>3. QED
        BY <3>1, <3>2, <1>4, FailedFields, ElsewhereNext, Zenon DEF Elsewhere, Promises
    <2>3. QED
      BY <1>2, <2>1, <2>2
  <1>7. QED
    BY <1>4, <1>5, <1>6, Zenon DEF ClientInv

\* An answer that changes nothing but the result keeps the rest of the invariant.
LEMMA AnswerKeeps ==
    ASSUME ClientInv, Quiet, step # "returned", NEW r, Return(r), IsResult(r), Promises'
    PROVE  ClientInv'
  <1>1. step' = "returned" /\ result' = r /\ attempt' = attempt
    BY Zenon DEF Return
  <1>2. ResultTypes'
    BY <1>1, Zenon DEF ResultTypes
  <1>3. step' \in Steps
    BY <1>1 DEF Steps
  <1>4. attempt' \in 0..MaxRetries
    BY <1>1, Zenon DEF ClientInv, Typed, CallTypes
  <1>5. Typed' /\ SeenNow'
    BY <1>2, <1>3, <1>4, QuietKeeps, Zenon
  <1>6. StepsBelong' /\ FailuresBelong'
    BY <1>1 DEF StepsBelong, FailuresBelong
  <1>7. QED
    BY <1>5, <1>6, Zenon DEF ClientInv

\* A call that fails for good promises nothing, unless it was to delete.
LEMMA RefusalKeeps ==
    ASSUME ClientInv, Quiet, step # "returned", Return(Failed), call.op \notin Deletes,
           failures' # {"transient"}
    PROVE  ClientInv'
  <1>1. result' = Failed /\ call' = call
    BY Zenon DEF Return, Quiet
  <1>2. TransientIsRetried'
    BY Zenon DEF TransientIsRetried
  <1>3. Promises'
    BY <1>1, <1>2, FailedFields, ElsewhereNext, Zenon DEF Elsewhere, Promises
  <1>4. QED
    BY <1>3, AnswerKeeps, FailedIsResult, Zenon

\* An answer other than the one hoped for is not a transient failure.
LEMMA OtherIsPermanent ==
    ASSUME OtherAnswer
    PROVE  "permanent" \in failures' /\ failures' # {"transient"}
    BY DEF OtherAnswer

\* HEAD reports the size the object has now.
LEMMA GetObjectSizeKeeps ==
    ASSUME ClientInv, GetObjectSize
    PROVE  ClientInv'
  <1>1. Quiet /\ step = "request" /\ call.op = "GetObjectSize" /\ call' = call /\ seen' = seen
    BY Zenon DEF GetObjectSize, Quiet
  <1>2. call.op \notin Deletes /\ step # "returned"
    BY <1>1 DEF Deletes
  <1> DEFINE r == [Failed EXCEPT !.ok = TRUE, !.size = Len(object.data)]
  <1>3. CASE HeadFinds /\ Return(r) /\ UNCHANGED failures
    <2>1. r.ok = TRUE /\ r.size = Len(object.data) /\ r.presence = "Unknown" /\ r.keys = {}
      BY SizeFields, Zenon
    <2> HIDE DEF r
    <2>2. IsResult(r)
      <3>1. r.ok \in BOOLEAN /\ r.keys \subseteq Keys
        BY <2>1, Zenon
      <3>2. Len(object.data) \in -1..MaxLen + MaxFile
        BY S3ClientAssumption DEF ClientInv, Typed, BucketTypes
      <3>3. r.presence \in {"Exists", "NotFound", "Unknown"}
        BY <2>1
      <3>4. QED
        BY <2>1, <3>1, <3>2, <3>3, Zenon DEF IsResult
    <2>3. result' = r /\ Snapshot \in seen
      BY <1>1, <1>3, <1>2, Zenon DEF Return, ClientInv, SeenNow
    <2>4. Snapshot.object.exists /\ Len(Snapshot.object.data) = result'.size
      BY <2>1, <2>3, <1>3, SnapshotFields, Zenon DEF HeadFinds
    <2>5. ReportsAreTrue'
      BY <1>1, <2>3, <2>4, Zenon DEF ReportsAreTrue, Answered
    <2>6. TransientIsRetried'
      BY <2>1, <2>3, Zenon DEF TransientIsRetried
    <2>7. Promises'
      BY <1>1, <2>5, <2>6, ElsewhereNext DEF Elsewhere, Promises, RangeReads, Deletes
    <2>8. QED
      BY <1>1, <1>2, <1>3, <2>2, <2>7, AnswerKeeps, Zenon
  <1>4. CASE Return(Failed) /\ OtherAnswer
    BY <1>1, <1>2, <1>4, OtherIsPermanent, RefusalKeeps, Zenon
  <1>5. CASE NoSuccess
    BY <1>1, <1>2, <1>5, NoSuccessKeeps
  <1>6. QED
    BY <1>3, <1>4, <1>5, Zenon DEF GetObjectSize

\* What a presence is good for.
LEMMA PresenceIsResult ==
    ASSUME NEW p \in {"Exists", "NotFound"}
    PROVE  IsResult(Presence(p))
  <1>1. Presence(p).ok \in BOOLEAN /\ Presence(p).keys \subseteq Keys
    BY PresenceFields, Zenon
  <1>0. Presence(p).size = -1 /\ Presence(p).presence = p
    BY PresenceFields, Zenon
  <1>2. Presence(p).size \in -1..MaxLen + MaxFile
        /\ Presence(p).presence \in {"Exists", "NotFound", "Unknown"}
    BY <1>0, S3ClientAssumption
  <1>3. QED
    BY <1>1, <1>2, Zenon DEF IsResult

\* A presence that is reported is the one of now.
LEMMA PresenceKeeps ==
    ASSUME ClientInv, Quiet, step # "returned", call.op = "CheckObjectPresence",
           NEW p \in {"Exists", "NotFound"}, Return(Presence(p)),
           p = "Exists" => object.exists,
           p = "NotFound" => gateway.bucket /\ ~object.exists
    PROVE  ClientInv'
  <1>1. step' = "returned" /\ result' = Presence(p) /\ call' = call /\ seen' = seen
        /\ gateway' = gateway
    BY Zenon DEF Return, Quiet, otherVars
  <1>2. Snapshot \in seen /\ Snapshot.object = object
    BY SnapshotFields, Zenon DEF ClientInv, SeenNow
  <1>3. result'.presence = p /\ result'.ok
    BY <1>1, PresenceFields, Zenon
  <1>4. ReportsAreTrue'
    BY <1>1, <1>2, <1>3, Zenon DEF ReportsAreTrue, Answered
  <1>5. TransientIsRetried'
    BY <1>3, Zenon DEF TransientIsRetried
  <1>6. Promises'
    <2>1. /\ call.op \notin RangeReads /\ call.op \notin Deletes
          /\ call.op # "PutObjectFromFile"
      BY DEF RangeReads, Deletes
    <2>2. QED
      BY <1>1, <1>4, <1>5, <2>1, ElsewhereNext, Zenon DEF Elsewhere, Promises
  <1>7. QED
    BY <1>6, PresenceIsResult, AnswerKeeps, Zenon

\* HEAD of a presence check; what is not found is looked for with a listing.
LEMMA CheckObjectPresenceKeeps ==
    ASSUME ClientInv, CheckObjectPresence
    PROVE  ClientInv'
  <1>1. Quiet /\ step = "request" /\ call.op = "CheckObjectPresence" /\ call' = call
    BY Zenon DEF CheckObjectPresence, Quiet
  <1>2. call.op \notin Deletes /\ step # "returned"
    BY <1>1 DEF Deletes
  <1>3. CASE HeadFinds /\ Return(Presence("Exists")) /\ UNCHANGED failures
    BY <1>1, <1>2, <1>3, PresenceKeeps DEF HeadFinds
  <1>4. CASE Return(Failed) /\ OtherAnswer
    BY <1>1, <1>2, <1>4, OtherIsPermanent, RefusalKeeps, Zenon
  <1>5. CASE step' = "probe" /\ OtherAnswer /\ UNCHANGED <<attempt, result>>
    <2>1. step' \in Steps /\ attempt' \in 0..MaxRetries
      BY <1>5 DEF Steps, ClientInv, Typed, CallTypes
    <2>2. ResultTypes'
      BY <1>5, Zenon DEF ClientInv, Typed, ResultTypes
    <2>3. Typed' /\ SeenNow'
      BY <1>1, <1>2, <2>1, <2>2, QuietKeeps, Zenon
    <2>4. StepsBelong' /\ FailuresBelong'
      BY <1>1, <1>5, OtherIsPermanent DEF StepsBelong, FailuresBelong
    <2>5. Promises'
      BY <1>5, ElsewhereNext DEF Elsewhere
    <2>6. QED
      BY <2>3, <2>4, <2>5, Zenon DEF ClientInv
  <1>6. CASE NoSuccess
    BY <1>1, <1>2, <1>6, NoSuccessKeeps
  <1>7. QED
    BY <1>3, <1>4, <1>5, <1>6, Zenon DEF CheckObjectPresence

\* The listing probe.
LEMMA ProbeKeeps ==
    ASSUME ClientInv, Probe
    PROVE  ClientInv'
  <1>1. Quiet /\ step = "probe" /\ step # "returned" /\ failures' = failures /\ call' = call
    BY DEF Probe, Quiet
  <1>2. call.op = "CheckObjectPresence" /\ call.op \notin Deletes /\ "permanent" \in failures
    BY <1>1 DEF ClientInv, StepsBelong, FailuresBelong, Deletes
  <1>3. CASE gateway.bucket /\ Return(Presence(IF object.exists THEN "Exists" ELSE "NotFound"))
    <2>1. CASE object.exists
      <3>1. Return(Presence("Exists"))
        BY <1>3, <2>1, Zenon
      <3>2. QED
        BY <1>1, <1>2, <2>1, <3>1, PresenceKeeps
    <2>2. CASE ~object.exists
      <3>1. Return(Presence("NotFound"))
        BY <1>3, <2>2, Zenon
      <3>2. QED
        BY <1>1, <1>2, <1>3, <2>2, <3>1, PresenceKeeps
    <2>3. QED
      BY <2>1, <2>2, Zenon
  <1>4. CASE Return(Failed)
    <2>1. failures' # {"transient"}
      BY <1>1, <1>2
    <2>2. QED
      BY <1>1, <1>2, <1>4, <2>1, RefusalKeeps, Zenon
  <1>5. CASE attempt < MaxRetries /\ attempt' = attempt + 1 /\ step' = "request" /\ result' = result
    <2>1. step' \in Steps /\ attempt' \in 0..MaxRetries
      BY <1>5, S3ClientAssumption DEF Steps, ClientInv, Typed, CallTypes
    <2>2. ResultTypes'
      BY <1>5, Zenon DEF ClientInv, Typed, ResultTypes
    <2>3. Typed' /\ SeenNow'
      BY <1>1, <2>1, <2>2, QuietKeeps, Zenon
    <2>4. StepsBelong' /\ FailuresBelong'
      BY <1>1, <1>2, <1>5 DEF StepsBelong, FailuresBelong
    <2>5. Promises'
      BY <1>5, ElsewhereNext DEF Elsewhere
    <2>6. QED
      BY <2>3, <2>4, <2>5, Zenon DEF ClientInv
  <1>6. QED
    BY <1>3, <1>4, <1>5, Zenon DEF Probe

\* A page of the listing.
LEMMA ListObjectsKeeps ==
    ASSUME ClientInv, ListObjects
    PROVE  ClientInv'
  <1>1. Quiet /\ step = "request" /\ call.op = "ListObjects" /\ call' = call /\ seen' = seen
    BY Zenon DEF ListObjects, Quiet
  <1>2. call.op \notin Deletes /\ step # "returned"
    BY <1>1 DEF Deletes
  <1> DEFINE r == [Failed EXCEPT !.ok = TRUE, !.keys = Snapshot.keys]
  <1>3. CASE Return(r) /\ UNCHANGED failures
    <2>1. r.ok = TRUE /\ r.size = -1 /\ r.presence = "Unknown" /\ r.keys = Snapshot.keys
      BY KeysFields, Zenon
    <2> HIDE DEF r
    <2>2. IsResult(r)
      <3>1. r.ok \in BOOLEAN
        BY <2>1, Zenon
      <3>2. r.size \in -1..MaxLen + MaxFile /\ r.presence \in {"Exists", "NotFound", "Unknown"}
        BY <2>1, S3ClientAssumption
      <3>3. r.keys \subseteq Keys
        BY <2>1, SnapshotFields
      <3>4. QED
        BY <3>1, <3>2, <3>3, Zenon DEF IsResult
    <2>3. result' = r /\ Snapshot \in seen
      BY <1>2, <1>3, Zenon DEF Return, ClientInv, SeenNow
    <2>4. ReportsAreTrue'
      <3>1. call.op # "CheckObjectPresence" /\ call.op # "GetObjectSize"
        BY <1>1
      <3>2. QED
        BY <1>1, <2>1, <2>3, <3>1, Zenon DEF ReportsAreTrue, Answered
    <2>5. TransientIsRetried'
      BY <2>1, <2>3, Zenon DEF TransientIsRetried
    <2>6. Promises'
      <3>1. /\ call.op \notin RangeReads /\ call.op \notin Deletes
            /\ call.op # "PutObjectFromFile"
        BY <1>1 DEF RangeReads, Deletes
      <3>2. QED
        BY <1>1, <2>4, <2>5, <3>1, ElsewhereNext, Zenon DEF Elsewhere, Promises
    <2>7. QED
      BY <1>1, <1>2, <1>3, <2>2, <2>6, AnswerKeeps, Zenon
  <1>4. CASE Return(Failed) /\ OtherAnswer
    BY <1>1, <1>2, <1>4, OtherIsPermanent, RefusalKeeps, Zenon
  <1>5. CASE NoSuccess
    BY <1>1, <1>2, <1>5, NoSuccessKeeps
  <1>6. QED
    BY <1>3, <1>4, <1>5, Zenon DEF ListObjects

-----------------------------------------------------------------------------
(* Reading a range.                                                        *)

\* What has been checked of a range when it is asked for.
LEMMA RangeIsValid ==
    ASSUME ClientInv, step = "request", call.op \in RangeReads,
           call.op = "GetChunkCRC32s" => ChunkRequestOk
    PROVE  /\ call.start \in Int /\ call.end \in Int
           /\ call.start >= 0 /\ call.end >= call.start
  <1>1. /\ call.start \in Int /\ call.end \in Int
        /\ call.op = "GetChunkCRC32s" => call.start = 0
    BY CallFacts, Zenon DEF ClientInv, Typed, CallTypes
  <1>2. CASE call.op = "GetChunkCRC32s"
    BY <1>1, <1>2 DEF ChunkRequestOk
  <1>3. CASE call.op \in {"GetObjectRange", "GetObjectRangeInto"}
    BY <1>1, <1>3 DEF ClientInv, StepsBelong, ValidateRange
  <1>4. QED
    BY <1>1, <1>2, <1>3 DEF RangeReads

\* A beginning of a piece of a sequence is a piece of it.
LEMMA PieceOfPiece ==
    ASSUME NEW S, NEW d \in Seq(S), NEW a \in 1..Len(d), NEW b \in a..Len(d)
    PROVE  /\ SubSeq(d, a, b) \in Seq(S)
           /\ Len(SubSeq(d, a, b)) = b - a + 1
           /\ SubSeq(SubSeq(d, a, b), 1, b - a + 1) = SubSeq(d, a, b)
  <1>1. \A i \in a..b : d[i] \in S
    BY ElementOfSeq
  <1>2. SubSeq(d, a, b) \in Seq(S) /\ Len(SubSeq(d, a, b)) = b - a + 1
    BY <1>1, SubSeqProperties
  <1>3. QED
    BY <1>2, SubSeqFull

\* The body that has the length asked for, of an answer that is accepted, is the
\* range asked for, unless the service ignores ranges and need not say so.
LEMMA BodyIsExact ==
    ASSUME ClientInv, Satisfiable, ~Unplaceable,
           call.start \in Int, call.end \in Int, call.start >= 0, call.end >= call.start,
           RangeResponseHonoursRequest(ContentRange),
           NEW n \in 0..Len(FullBody), Len(SubSeq(FullBody, 1, n)) = ExpectedLength
    PROVE  /\ call.end < Len(object.data)
           /\ SubSeq(FullBody, 1, n) = SubSeq(object.data, call.start + 1, call.end + 1)
  <1>1. object.data \in Seq(Blocks) /\ Len(object.data) \in Nat
    BY LenProperties DEF ClientInv, Typed, BucketTypes
  <1>2. CASE Honoured
    <2>1. call.start < Len(object.data)
      BY <1>2, Zenon DEF Satisfiable
    <2>2. LastSent \in call.start..Len(object.data) - 1 /\ LastSent <= call.end
      BY <1>1, <2>1 DEF LastSent
    <2>3. FullBody = SubSeq(object.data, call.start + 1, LastSent + 1)
      BY <1>2, Zenon DEF FullBody
    <2>4. Len(FullBody) = LastSent - call.start + 1 /\ FullBody \in Seq(Blocks)
      <3>1. /\ call.start + 1 \in 1..Len(object.data)
            /\ LastSent + 1 \in (call.start + 1)..Len(object.data)
        BY <1>1, <2>1, <2>2
      <3>2. /\ SubSeq(object.data, call.start + 1, LastSent + 1) \in Seq(Blocks)
            /\ Len(SubSeq(object.data, call.start + 1, LastSent + 1)) =
                  (LastSent + 1) - (call.start + 1) + 1
        BY <1>1, <3>1, PieceOfPiece
      <3>3. FullBody \in Seq(Blocks) /\ Len(FullBody) = (LastSent + 1) - (call.start + 1) + 1
        BY <2>3, <3>2, Zenon
      <3>4. LastSent \in Int
        BY <1>1, <2>2
      <3>5. QED
        BY <3>3, <3>4
    <2>5. Len(SubSeq(FullBody, 1, n)) = n
      BY <2>4, SubSeqProperties
    <2>6. n = call.end - call.start + 1 /\ LastSent = call.end
      BY <2>2, <2>4, <2>5 DEF ExpectedLength
    <2>7. SubSeq(FullBody, 1, n) = FullBody
      BY <2>2, <2>4, <2>6, SubSeqFull
    <2>8. call.end < Len(object.data)
      BY <1>1, <2>2, <2>6
    <2>9. QED
      BY <2>3, <2>6, <2>7, <2>8, Zenon
  <1>3. CASE ~Honoured
    <2>1. FullBody = object.data
      BY <1>3, Zenon DEF FullBody
    <2>2. ContentRange.header = "omitted"
      BY <1>3, Zenon DEF ContentRange
    <2>3. gateway.range = "ignores"
      BY <1>3 DEF Honoured, ClientInv, Typed, ServiceTypes, Gateways
    <2>4. call.start = 0
      BY <2>2, <2>3, Zenon DEF RangeResponseHonoursRequest, Unplaceable
    <2>5. Len(SubSeq(FullBody, 1, n)) = n
      BY <1>1, <2>1, SubSeqProperties
    <2>6. n = call.end + 1 /\ n \in 0..Len(object.data)
      BY <2>1, <2>4, <2>5 DEF ExpectedLength
    <2>7. QED
      BY <1>1, <2>1, <2>4, <2>6
  <1>4. QED
    BY <1>2, <1>3

\* A read result is a result, and it is the promise made of it when its body is.
LEMMA ReadIsResult ==
    ASSUME NEW body
    PROVE  IsResult(ReadResult(body))
  <1>0. ReadResult(body).size = -1 /\ ReadResult(body).presence = "Unknown"
    BY ReadFields, Zenon
  <1>1. ReadResult(body).ok \in BOOLEAN /\ ReadResult(body).keys \subseteq Keys
    BY ReadFields, Zenon
  <1>2. /\ ReadResult(body).size \in -1..MaxLen + MaxFile
        /\ ReadResult(body).presence \in {"Exists", "NotFound", "Unknown"}
    BY <1>0, S3ClientAssumption
  <1>3. QED
    BY <1>1, <1>2, Zenon DEF IsResult

\* A body that is accepted.
LEMMA ReadKeeps ==
    ASSUME ClientInv, Quiet, step # "returned", call.op \in RangeReads, NEW body,
           Return(ReadResult(body)),
           ~Unplaceable =>
              /\ call.end < Len(object.data)
              /\ body = SubSeq(object.data, call.start + 1, call.end + 1)
    PROVE  ClientInv'
  <1>1. /\ result' = ReadResult(body) /\ call' = call /\ seen' = seen /\ gateway' = gateway
        /\ allow_unverified_ranges' = allow_unverified_ranges
    BY Zenon DEF Return, Quiet, otherVars
  <1>2. Snapshot \in seen /\ Snapshot.object = object
    BY SnapshotFields, Zenon DEF ClientInv, SeenNow
  <1>3. RangeIsExact'
    <2>1. SUFFICES ASSUME ~Unplaceable PROVE RangeIsExact'
      BY <1>1, Zenon DEF RangeIsExact, Unplaceable
    <2>2. /\ call.end < Len(Snapshot.object.data)
          /\ body = SubSeq(Snapshot.object.data, call.start + 1, call.end + 1)
      BY <2>1, <1>2, Zenon
    <2>3. result'.data =
             IF call.op = "GetChunkCRC32s"
             THEN [i \in 1..(IF call.ids = <<>> THEN 1 ELSE Len(call.ids)) |-> body]
             ELSE body
      BY <1>1, ReadFields, Zenon
    <2>4. QED
      BY <1>1, <1>2, <2>2, <2>3, Zenon DEF RangeIsExact
  <1>4. TransientIsRetried'
    BY <1>1, ReadFields, Zenon DEF TransientIsRetried
  <1>5. Promises'
    <2>1. /\ call.op \notin {"CheckObjectPresence", "GetObjectSize", "ListObjects"}
          /\ call.op \notin Deletes /\ call.op # "PutObjectFromFile"
      BY DEF RangeReads, Deletes
    <2>2. QED
      BY <1>1, <1>3, <1>4, <2>1, ElsewhereNext, Zenon DEF Elsewhere, Promises
  <1>6. QED
    BY <1>5, ReadIsResult, AnswerKeeps, Zenon

\* A body that is too short may be asked for again.
LEMMA RetryKeeps ==
    ASSUME ClientInv, Quiet, step = "request", call.op \in RangeReads,
           call.op = "GetChunkCRC32s" => ChunkRequestOk, attempt < MaxRetries, Retry
    PROVE  ClientInv'
  <1>1. attempt' = attempt + 1 /\ step' = step /\ result' = result
    BY Zenon DEF Retry
  <1>2. step' \in Steps /\ attempt' \in 0..MaxRetries
    BY <1>1, S3ClientAssumption DEF Steps, ClientInv, Typed, CallTypes
  <1>3. ResultTypes'
    BY <1>1, Zenon DEF ResultTypes, ClientInv, Typed
  <1>0. step # "returned"
    OBVIOUS
  <1>4. Typed' /\ SeenNow' /\ call' = call
    BY <1>0, <1>2, <1>3, QuietKeeps, Zenon
  <1>5. StepsBelong' /\ FailuresBelong'
    <2>1. ChunkRequestOk' <=> ChunkRequestOk
      BY <1>4, Zenon DEF ChunkRequestOk
    <2>2. QED
      BY <1>1, <1>4, <2>1 DEF ClientInv, StepsBelong, FailuresBelong, RangeReads, Deletes
  <1>6. Promises'
    BY <1>1, ElsewhereNext DEF Elsewhere
  <1>7. QED
    BY <1>4, <1>5, <1>6, Zenon DEF ClientInv

\* The answers to a range, their checks and their lengths.
LEMMA GetObjectRangeKeeps ==
    ASSUME ClientInv, GetObjectRange
    PROVE  ClientInv'
  <1>1. /\ Quiet /\ step = "request" /\ call.op \in RangeReads
        /\ call.op = "GetChunkCRC32s" => ChunkRequestOk
    BY Zenon DEF GetObjectRange, Quiet
  <1>2. call.op \notin Deletes /\ step # "returned"
    BY <1>1 DEF Deletes, RangeReads
  <1>3. ASSUME Return(Failed), OtherAnswer PROVE ClientInv'
    BY <1>1, <1>2, <1>3, OtherIsPermanent, RefusalKeeps, Zenon
  <1>4. ASSUME Satisfiable, OtherAnswer, NEW n \in 0..Len(FullBody),
               RangeResponseHonoursRequest(ContentRange), Accept(SubSeq(FullBody, 1, n))
        PROVE  ClientInv'
    <2> DEFINE body == SubSeq(FullBody, 1, n)
    <2>1. CASE Return(Failed)
      BY <1>3, <1>4, <2>1, Zenon
    <2>2. CASE Retry /\ attempt < MaxRetries
      BY <1>1, <2>2, RetryKeeps, Zenon
    <2>3. CASE Return(ReadResult(body)) /\ Len(body) = ExpectedLength
      <3>1. /\ call.start \in Int /\ call.end \in Int
            /\ call.start >= 0 /\ call.end >= call.start
        BY <1>1, RangeIsValid
      <3>2. ~Unplaceable => /\ call.end < Len(object.data)
                            /\ body = SubSeq(object.data, call.start + 1, call.end + 1)
        BY <1>4, <2>3, <3>1, BodyIsExact, Zenon
      <3> HIDE DEF body
      <3>3. QED
        BY <1>1, <1>2, <2>3, <3>2, ReadKeeps, Zenon
    <2>4. \/ Len(body) > ExpectedLength \/ Len(body) < ExpectedLength
          \/ /\ ~(Len(body) > ExpectedLength) /\ ~(Len(body) < ExpectedLength)
             /\ Len(body) = ExpectedLength
      <3>1. FullBody \in Seq(Blocks)
        <4>1. object.data \in Seq(Blocks) /\ Len(object.data) \in Nat
          BY LenProperties DEF ClientInv, Typed, BucketTypes
        <4>2. call.start \in Int /\ call.end \in Int /\ call.start >= 0 /\ call.end >= call.start
          BY <1>1, RangeIsValid
        <4>3. CASE ~Honoured
          BY <4>1, <4>3 DEF FullBody
        <4>4. CASE Honoured
          <5>1. call.start < Len(object.data)
            BY <1>4, <4>4, Zenon DEF Satisfiable
          <5>2. /\ call.start + 1 \in 1..Len(object.data)
                /\ LastSent + 1 \in (call.start + 1)..Len(object.data)
            BY <4>1, <4>2, <5>1 DEF LastSent
          <5>3. SubSeq(object.data, call.start + 1, LastSent + 1) \in Seq(Blocks)
            BY <4>1, <5>2, PieceOfPiece
          <5>4. QED
            BY <4>4, <5>3, Zenon DEF FullBody
        <4>5. QED
          BY <4>3, <4>4
      <3>2. body \in Seq(Blocks)
        <4>1. \A i \in 1..n : FullBody[i] \in Blocks
          BY <3>1, ElementOfSeq
        <4>2. n \in Int
          BY <3>1, LenProperties
        <4>3. QED
          BY <4>1, <4>2, SubSeqProperties
      <3>3. Len(body) \in Int
        BY <3>2, LenProperties
      <3> HIDE DEF body
      <3>4. ExpectedLength \in Int
        BY <1>1, RangeIsValid DEF ExpectedLength
      <3>5. QED
        BY <3>3, <3>4
    <2>5. \/ Return(Failed)
          \/ Retry /\ attempt < MaxRetries
          \/ Return(ReadResult(body)) /\ Len(body) = ExpectedLength
      <3> HIDE DEF body
      <3>1. Accept(body)
        BY <1>4 DEF body
      <3>2. QED
        BY <2>4, <3>1, Zenon DEF Accept
    <2>6. QED
      BY <2>1, <2>2, <2>3, <2>5, Zenon
  <1>5. CASE NoSuccess
    BY <1>1, <1>2, <1>5, NoSuccessKeeps
  <1>6. QED
    BY <1>3, <1>4, <1>5, Zenon DEF GetObjectRange

\* GetChunkCRC32s that makes no request.
LEMMA RefuseChunksKeeps ==
    ASSUME ClientInv, RefuseChunks
    PROVE  ClientInv'
  <1>1. /\ Quiet /\ step = "request" /\ call.op = "GetChunkCRC32s" /\ ~ChunkRequestOk
        /\ Return(Failed) /\ failures' = failures
    BY Zenon DEF RefuseChunks, Quiet
  <1>2. call.op \notin Deletes /\ step # "returned" /\ failures' # {"transient"}
    BY <1>1 DEF Deletes, ClientInv, FailuresBelong
  <1>3. QED
    BY <1>1, <1>2, RefusalKeeps, Zenon

-----------------------------------------------------------------------------
(* Deleting.                                                               *)

\* What is left unconfirmed is a result.
LEMMA UnconfirmedIsResult ==
    ASSUME NEW ks \in SUBSET Keys
    PROVE  IsResult(Unconfirmed(ks))
  <1>0. Unconfirmed(ks).size = -1 /\ Unconfirmed(ks).presence = "Unknown"
    BY UnconfirmedFields, Zenon
  <1>1. Unconfirmed(ks).ok \in BOOLEAN /\ Unconfirmed(ks).keys \subseteq Keys
    BY UnconfirmedFields, Zenon
  <1>2. /\ Unconfirmed(ks).size \in -1..MaxLen + MaxFile
        /\ Unconfirmed(ks).presence \in {"Exists", "NotFound", "Unknown"}
    BY <1>0, S3ClientAssumption
  <1>3. QED
    BY <1>1, <1>2, Zenon DEF IsResult

\* A key that is removed is not in the bucket that the call then sees.
LEMMA RemovedIsGone ==
    ASSUME NEW ks, Remove(ks), NEW k \in ks
    PROVE  Snapshot' \in seen' /\ k \notin Snapshot'.keys
  <1>1. Snapshot'.keys = {x \in Keys : IF x = "key" THEN object'.exists ELSE sibling'}
    BY DEF Snapshot
  <1>2. CASE k = "key"
    <2>1. object' = Absent
      BY <1>2, Zenon DEF Remove
    <2>2. ~object'.exists
      BY <2>1, Zenon DEF Absent
    <2>3. QED
      BY <1>1, <1>2, <2>2, Zenon DEF Remove
  <1>3. CASE k # "key" /\ k \in Keys
    <2>1. k = "key/sub"
      BY <1>3 DEF Keys
    <2>2. ~sibling'
      BY <2>1, Zenon DEF Remove
    <2>3. QED
      BY <1>1, <1>3, <2>2, Zenon DEF Remove
  <1>4. CASE k \notin Keys
    BY <1>1, <1>4, Zenon DEF Remove
  <1>5. QED
    BY <1>2, <1>3, <1>4

\* The absent object is one.
LEMMA AbsentFacts == Absent \in [exists : BOOLEAN, data : Seq(Blocks)] /\ Len(Absent.data) = 0
    BY EmptySeq DEF Absent

\* Every key that was to be deleted is reported or was gone.
LEMMA DeleteKeeps ==
    ASSUME ClientInv, step = "request", call.op \in Deletes,
           UNCHANGED <<otherVars, putVars, file, call, failures>>,
           NEW ks \in SUBSET Asked, NEW rest \in SUBSET Asked, Asked \ rest \subseteq ks,
           Remove(ks), Return(Unconfirmed(rest))
    PROVE  ClientInv'
  <1>1. /\ UNCHANGED <<gateway, allow_unverified_ranges, writes, sent, limit>>
        /\ UNCHANGED <<file, call, failures>>
    BY Zenon DEF otherVars, putVars
  <1>2. step' = "returned" /\ result' = Unconfirmed(rest) /\ attempt' = attempt
    BY Zenon DEF Return
  <1>3. Asked \subseteq Keys
    BY DEF Asked, Keys
  <1>4. BucketTypes'
    <2>1. object' = object \/ object' = Absent
      BY Zenon DEF Remove
    <2>2. /\ object' \in [exists : BOOLEAN, data : Seq(Blocks)]
          /\ Len(object'.data) <= MaxLen + MaxFile
      <3>1. CASE object' = object
        BY <3>1, Zenon DEF ClientInv, Typed, BucketTypes
      <3>2. CASE object' = Absent
        <4>1. 0 <= MaxLen + MaxFile
          BY S3ClientAssumption
        <4>2. QED
          BY <3>2, <4>1, AbsentFacts, Zenon
      <3>3. QED
        BY <2>1, <3>1, <3>2
    <2>3. sibling' \in BOOLEAN
      BY Zenon DEF Remove
    <2>4. QED
      BY <2>2, <2>3, Zenon DEF BucketTypes
  <1>5. ServiceTypes' /\ FileTypes' /\ SentTypes'
    BY <1>1, Zenon DEF ClientInv, Typed, ServiceTypes, FileTypes, SentTypes, InPlace
  <1>6. CallTypes'
    <2>1. step' \in Steps
      BY <1>2 DEF Steps
    <2>2. QED
      BY <1>1, <1>2, <2>1, Zenon DEF ClientInv, Typed, CallTypes
  <1>7. ResultTypes'
    BY <1>2, <1>3, UnconfirmedIsResult, Zenon DEF ResultTypes
  <1>8. DeletesAreConfirmed'
    <2>1. result'.keys = rest
      BY <1>2, UnconfirmedFields, Zenon
    <2>2. Asked' = Asked
      BY <1>1, Zenon DEF Asked
    <2>3. ASSUME NEW k \in Asked \ rest PROVE \E s \in seen' : k \notin s.keys
      BY <2>3, RemovedIsGone, Zenon
    <2>4. QED
      BY <2>1, <2>2, <2>3, Zenon DEF DeletesAreConfirmed
  <1>9. TransientIsRetried'
    BY <1>1 DEF ClientInv, FailuresBelong, TransientIsRetried
  <1>10. Promises'
    <2>1. /\ call.op \notin {"CheckObjectPresence", "GetObjectSize", "ListObjects"}
          /\ call.op \notin RangeReads /\ call.op # "PutObjectFromFile"
      BY DEF RangeReads, Deletes
    <2>2. QED
      BY <1>1, <1>8, <1>9, <2>1, ElsewhereNext, Zenon DEF Elsewhere, Promises
  <1>11. SeenNow' /\ StepsBelong' /\ FailuresBelong'
    BY <1>2 DEF SeenNow, StepsBelong, FailuresBelong
  <1>12. QED
    BY <1>4, <1>5, <1>6, <1>7, <1>10, <1>11, Zenon DEF ClientInv, Typed

\* One deletion or several: the keys the answer does not confirm are reported.
LEMMA DeleteObjectsKeeps ==
    ASSUME ClientInv, DeleteObjects
    PROVE  ClientInv'
  <1>1. /\ step = "request" /\ call.op \in Deletes
        /\ UNCHANGED <<otherVars, putVars, file, call, failures>>
    BY Zenon DEF DeleteObjects, Deletes
  <1>2. ASSUME NEW refused \in SUBSET Asked,
               Remove(Asked \ refused), Return(Unconfirmed(refused))
        PROVE  ClientInv'
    <2>1. Asked \ refused \in SUBSET Asked
      OBVIOUS
    <2>2. QED
      BY <1>1, <1>2, <2>1, DeleteKeeps
  <1>3. ASSUME NEW applied \in SUBSET Asked, DeleteFails(applied) PROVE ClientInv'
    <2>1. Remove(applied) /\ Return(Unconfirmed(Asked))
      BY <1>3, Zenon DEF DeleteFails
    <2>2. Asked \in SUBSET Asked /\ Asked \ Asked \subseteq applied
      OBVIOUS
    <2>3. QED
      BY <1>1, <2>1, <2>2, DeleteKeeps
  <1>4. QED
    BY <1>2, <1>3, Zenon DEF DeleteObjects

-----------------------------------------------------------------------------
(* Uploading a file.                                                       *)

\* A call to upload that fails before its request.
LEMMA UploadRefused ==
    ASSUME ClientInv, Quiet, step \in {"stat", "stream"}, Return(Failed), UNCHANGED failures
    PROVE  ClientInv'
  <1>1. step # "returned" /\ call.op \notin Deletes /\ failures' # {"transient"}
    BY DEF ClientInv, StepsBelong, FailuresBelong, Deletes
  <1>2. QED
    BY <1>1, RefusalKeeps, Zenon

\* A file that cannot be opened fails the upload.
LEMMA OpenFailsKeeps ==
    ASSUME ClientInv, OpenFails
    PROVE  ClientInv'
  <1>1. Quiet /\ step \in {"stat", "stream"} /\ Return(Failed) /\ UNCHANGED failures
    BY Zenon DEF OpenFails, Quiet
  <1>2. QED
    BY <1>1, UploadRefused, Zenon

\* A step that only reads from the file, or decides how much to read.
LEMMA ReadingKeeps ==
    ASSUME ClientInv, step \in {"stat", "stream"}, step' = "stream",
           UNCHANGED <<bucketVars, otherVars, file, call, attempt, result, seen, failures>>,
           SentTypes', Len(sent') <= limit'
    PROVE  ClientInv'
  <1>1. /\ UNCHANGED <<object, sibling, gateway, allow_unverified_ranges, writes>>
        /\ UNCHANGED <<file, call, attempt, result, seen, failures>>
    BY Zenon DEF bucketVars, otherVars
  <1>2. ServiceTypes' /\ BucketTypes' /\ FileTypes' /\ ResultTypes'
    BY <1>1, Zenon DEF ClientInv, Typed, ServiceTypes, BucketTypes, FileTypes, ResultTypes, InPlace
  <1>3. CallTypes'
    <2>1. step' \in Steps
      BY DEF Steps
    <2>2. QED
      BY <1>1, <2>1, Zenon DEF ClientInv, Typed, CallTypes
  <1>0. step # "returned"
    OBVIOUS
  <1>4. SeenNow'
    BY <1>1, <1>0, Zenon DEF ClientInv, SeenNow, Snapshot
  <1>5. StepsBelong' /\ FailuresBelong'
    BY <1>1 DEF ClientInv, StepsBelong, FailuresBelong
  <1>6. Promises'
    BY ElsewhereNext DEF Elsewhere
  <1>7. QED
    BY <1>2, <1>3, <1>4, <1>5, <1>6, Zenon DEF ClientInv, Typed

\* The file is measured, or too large.
LEMMA StatKeeps ==
    ASSUME ClientInv, Stat
    PROVE  ClientInv'
  <1>1. step = "stat" /\ sent = <<>> /\ UNCHANGED <<sent, failures>>
    BY DEF Stat, ClientInv, StepsBelong
  <1>2. CASE Len(file) > MaxPut
    <2>1. Return(Failed) /\ UNCHANGED limit
      BY <1>2, Zenon DEF Stat
    <2>2. Quiet
      BY <2>1, Zenon DEF Quiet, Stat, putVars
    <2>3. QED
      BY <1>1, <2>1, <2>2, UploadRefused
  <1>3. CASE ~(Len(file) > MaxPut)
    <2>1. step' = "stream" /\ limit' = Len(file) /\ UNCHANGED <<attempt, result>>
      BY <1>3, Zenon DEF Stat
    <2>2. limit' \in 0..MaxPut
      BY <1>3, <2>1, LenProperties, S3ClientAssumption DEF ClientInv, Typed, FileTypes
    <2>3. SentTypes'
      BY <1>1, <2>2, Zenon DEF ClientInv, Typed, SentTypes, InPlace
    <2>4. Len(sent') <= limit'
      BY <1>1, <2>2, EmptySeq
    <2>5. UNCHANGED <<bucketVars, otherVars, file, call, attempt, result, seen, failures>>
      BY <2>1, Zenon DEF Stat
    <2>6. QED
      BY <1>1, <2>1, <2>3, <2>4, <2>5, ReadingKeeps
  <1>4. QED
    BY <1>2, <1>3

\* One more block, at its place.
LEMMA UnderflowKeeps ==
    ASSUME ClientInv, Underflow
    PROVE  ClientInv'
  <1>1. /\ step = "stream" /\ step' = "stream" /\ Len(sent) < limit /\ Len(sent) < Len(file)
        /\ sent' = Append(sent, file[Len(sent) + 1]) /\ limit' = limit
    BY Zenon DEF Underflow
  <1>2. /\ sent \in Seq(Blocks) /\ file \in Seq(Blocks) /\ InPlace(sent) /\ InPlace(file)
        /\ Len(sent) \in Nat /\ Len(file) \in Nat /\ Len(file) <= MaxFile /\ limit \in 0..MaxPut
    BY LenProperties DEF ClientInv, Typed, FileTypes, SentTypes
  <1>3. file[Len(sent) + 1] \in Blocks /\ file[Len(sent) + 1][2] = Len(sent) + 1
    BY <1>1, <1>2, ElementOfSeq DEF InPlace
  <1>4. /\ sent' \in Seq(Blocks) /\ Len(sent') = Len(sent) + 1
        /\ \A i \in 1..Len(sent) : sent'[i] = sent[i]
        /\ sent'[Len(sent) + 1] = file[Len(sent) + 1]
    BY <1>1, <1>2, <1>3, AppendProperties
  <1>5. InPlace(sent)'
    BY <1>2, <1>3, <1>4 DEF InPlace
  <1>6. Len(sent') <= MaxFile /\ Len(sent') <= limit'
    BY <1>1, <1>2, <1>4, S3ClientAssumption
  <1>7. SentTypes'
    BY <1>1, <1>2, <1>4, <1>5, <1>6, Zenon DEF SentTypes
  <1>8. UNCHANGED <<bucketVars, otherVars, file, call, attempt, result, seen, failures>>
    BY Zenon DEF Underflow
  <1>9. QED
    BY <1>1, <1>6, <1>7, <1>8, ReadingKeeps

\* The stream starts again.
LEMMA SeekKeeps ==
    ASSUME ClientInv, Seek
    PROVE  ClientInv'
  <1>1. step = "stream" /\ step' = "stream" /\ sent' = <<>> /\ limit' = limit
    BY Zenon DEF Seek
  <1>2. limit \in 0..MaxPut
    BY DEF ClientInv, Typed, SentTypes
  <1>3. sent' \in Seq(Blocks) /\ Len(sent') = 0 /\ InPlace(sent)'
    BY <1>1, EmptySeq DEF InPlace
  <1>4. SentTypes' /\ Len(sent') <= limit'
    BY <1>1, <1>2, <1>3, S3ClientAssumption DEF SentTypes
  <1>5. UNCHANGED <<bucketVars, otherVars, file, call, attempt, result, seen, failures>>
    BY Zenon DEF Seek
  <1>6. QED
    BY <1>1, <1>4, <1>5, ReadingKeeps

\* The end of the stream: what is stored is what was sent.
LEMMA PutObjectStreamedKeeps ==
    ASSUME ClientInv, PutObjectStreamed
    PROVE  ClientInv'
  <1>1. /\ step = "stream" /\ sibling' = sibling /\ seen' = seen \cup {Snapshot'}
        /\ UNCHANGED <<gateway, allow_unverified_ranges, writes, sent, limit>>
        /\ UNCHANGED <<file, call, failures>>
    BY Zenon DEF PutObjectStreamed, otherVars, putVars
  <1>2. \/ /\ Len(sent) >= limit /\ object' = Object(sent)
           /\ \E stored \in BOOLEAN : Return([Failed EXCEPT !.ok = stored])
        \/ Return(Failed) /\ object' = object
    BY Zenon DEF PutObjectStreamed
  <1>3. /\ step' = "returned" /\ attempt' = attempt
        /\ \/ /\ Len(sent) >= limit /\ object' = Object(sent)
              /\ \E stored \in BOOLEAN : result' = [Failed EXCEPT !.ok = stored]
           \/ result' = Failed /\ object' = object
    BY <1>2, Zenon DEF Return
  <1>4. /\ call.op = "PutObjectFromFile" /\ failures = {} /\ Len(sent) <= limit
        /\ sent \in Seq(Blocks) /\ Len(sent) \in Nat /\ Len(sent) <= MaxFile /\ InPlace(sent)
        /\ limit \in 0..MaxPut
    BY <1>1, LenProperties DEF ClientInv, StepsBelong, FailuresBelong, Typed, SentTypes
  <1>5. BucketTypes'
    <2>1. object' = object \/ object' = Object(sent)
      BY <1>3, Zenon
    <2>2. CASE object' = object
      BY <1>1, <2>2, Zenon DEF ClientInv, Typed, BucketTypes
    <2>3. CASE object' = Object(sent)
      <3>1. object'.data = sent /\ object' \in [exists : BOOLEAN, data : Seq(Blocks)]
        BY <1>4, <2>3, Zenon DEF Object
      <3>2. Len(sent) <= MaxLen + MaxFile
        BY <1>4, S3ClientAssumption
      <3>3. QED
        BY <1>1, <3>1, <3>2, Zenon DEF ClientInv, Typed, BucketTypes
    <2>4. QED
      BY <2>1, <2>2, <2>3
  <1>6. ServiceTypes' /\ FileTypes' /\ SentTypes'
    BY <1>1, Zenon DEF ClientInv, Typed, ServiceTypes, FileTypes, SentTypes, InPlace
  <1>7. CallTypes'
    <2>1. step' \in Steps
      BY <1>3 DEF Steps
    <2>2. QED
      BY <1>1, <1>3, <2>1, Zenon DEF ClientInv, Typed, CallTypes
  <1>8. ResultTypes'
    <2>1. CASE result' = Failed
      BY <2>1, FailedIsResult, Zenon DEF ResultTypes
    <2>2. ASSUME NEW stored \in BOOLEAN, result' = [Failed EXCEPT !.ok = stored]
          PROVE  ResultTypes'
      <3>1. /\ result'.ok \in BOOLEAN /\ result'.size = -1 /\ result'.presence = "Unknown"
            /\ result'.keys \subseteq Keys
        BY <2>2, StoredFields, Zenon
      <3>2. /\ result'.size \in -1..MaxLen + MaxFile
            /\ result'.presence \in {"Exists", "NotFound", "Unknown"}
        BY <3>1, S3ClientAssumption
      <3>3. QED
        BY <3>1, <3>2, Zenon DEF ResultTypes, IsResult
    <2>3. QED
      BY <1>3, <2>1, <2>2, Zenon
  <1>9. UploadIsThePrefix'
    <2>1. SUFFICES ASSUME result'.ok PROVE UploadIsThePrefix'
      BY Zenon DEF UploadIsThePrefix, Answered
    <2>2. Len(sent) >= limit /\ object' = Object(sent)
      BY <1>3, <2>1, FailedFields, Zenon
    <2>3. Len(sent') = limit'
      BY <1>1, <1>4, <2>2
    <2>4. Snapshot' \in seen' /\ Snapshot'.object = Object(sent')
      BY <1>1, <2>2, Zenon DEF Snapshot
    <2>5. \A i \in 1..Len(sent') : sent'[i][2] = i
      BY <1>1, <1>4, Zenon DEF InPlace
    <2>6. QED
      BY <2>3, <2>4, <2>5, Zenon DEF UploadIsThePrefix
  <1>10. TransientIsRetried'
    BY <1>1, <1>4 DEF TransientIsRetried
  <1>11. Promises'
    <2>1. /\ call.op \notin {"CheckObjectPresence", "GetObjectSize", "ListObjects"}
          /\ call.op \notin RangeReads /\ call.op \notin Deletes
      BY <1>4 DEF RangeReads, Deletes
    <2>2. QED
      BY <1>1, <1>9, <1>10, <2>1, ElsewhereNext, Zenon DEF Elsewhere, Promises
  <1>12. SeenNow' /\ StepsBelong' /\ FailuresBelong'
    BY <1>3 DEF SeenNow, StepsBelong, FailuresBelong
  <1>13. QED
    BY <1>5, <1>6, <1>7, <1>8, <1>11, <1>12, Zenon DEF ClientInv, Typed

-----------------------------------------------------------------------------
(* The callers and the others who write.                                   *)

\* Where an operation begins.
LEMMA FirstStepFacts ==
    ASSUME NEW c \in Calls
    PROVE  /\ FirstStep(c) \in {"stat", "request", "returned"}
           /\ FirstStep(c) = "stat" => c.op = "PutObjectFromFile"
           /\ FirstStep(c) = "request" => c.op # "PutObjectFromFile"
           /\ FirstStep(c) = "request" /\ c.op \in {"GetObjectRange", "GetObjectRangeInto"} =>
                 ValidateRange(c.start, c.end)
           /\ FirstStep(c) = "returned" => c.op \in {"GetObjectRange", "GetObjectRangeInto"}
  <1>1. CASE c.op = "PutObjectFromFile"
    BY <1>1 DEF FirstStep
  <1>2. CASE c.op # "PutObjectFromFile"
    BY <1>2 DEF FirstStep
  <1>3. QED
    BY <1>1, <1>2

\* A call starts from the bucket of now, with nothing of the last call.
LEMMA CallKeeps ==
    ASSUME ClientInv, NEW c \in Calls, Call(c)
    PROVE  ClientInv'
  <1>1. /\ call' = c /\ result' = Failed /\ attempt' = 0 /\ sent' = <<>> /\ limit' = 0
        /\ seen' = {Snapshot} /\ failures' = {} /\ step' = FirstStep(c)
        /\ UNCHANGED <<object, sibling, gateway, allow_unverified_ranges, writes>>
    BY Zenon DEF Call, bucketVars, otherVars
  <1>2. FileTypes'
    <2>1. \/ \E n \in 0..MaxFile : file' = Content(0, n)
          \/ file' = <<>>
      BY Zenon DEF Call
    <2>2. ASSUME NEW n \in 0..MaxFile, file' = Content(0, n) PROVE FileTypes'
      <3>1. 0 \in 0..MaxWrites /\ n \in 0..(MaxLen + MaxFile) /\ n <= MaxFile
        BY S3ClientAssumption
      <3>2. Content(0, n) \in Seq(Blocks) /\ Len(Content(0, n)) = n /\ InPlace(Content(0, n))
        BY <3>1, ContentFacts
      <3>3. QED
        BY <2>2, <3>1, <3>2, Zenon DEF FileTypes, InPlace
    <2>3. CASE file' = <<>>
      BY <2>3, EmptySeq, S3ClientAssumption DEF FileTypes, InPlace
    <2>4. QED
      BY <2>1, <2>2, <2>3, Zenon
  <1>3. ServiceTypes' /\ BucketTypes'
    BY <1>1, Zenon DEF ClientInv, Typed, ServiceTypes, BucketTypes
  <1>4. SentTypes'
    BY <1>1, EmptySeq, S3ClientAssumption DEF SentTypes, InPlace
  <1>5. ResultTypes'
    BY <1>1, FailedIsResult, Zenon DEF ResultTypes
  <1>6. CallTypes'
    <2>1. step' \in Steps /\ attempt' \in 0..MaxRetries
      BY <1>1, FirstStepFacts, S3ClientAssumption DEF Steps
    <2>2. writes' \in 0..MaxWrites /\ call' \in Calls
      BY <1>1, Zenon DEF ClientInv, Typed, CallTypes
    <2>3. QED
      BY <2>1, <2>2, Zenon DEF CallTypes
  <1>7. SeenNow'
    BY <1>1, Zenon DEF SeenNow, Snapshot
  <1>8. StepsBelong'
    <2>1. /\ step' \in {"stat", "request", "returned"}
          /\ step' = "stat" => call'.op = "PutObjectFromFile"
          /\ step' = "request" => call'.op # "PutObjectFromFile"
          /\ step' = "request" /\ call'.op \in {"GetObjectRange", "GetObjectRangeInto"} =>
                ValidateRange(call'.start, call'.end)
      BY <1>1, FirstStepFacts, Zenon
    <2>2. QED
      BY <1>1, <2>1 DEF StepsBelong, ValidateRange
  <1>9. FailuresBelong'
    <2>1. step' # "probe"
      BY <1>1, FirstStepFacts
    <2>2. QED
      BY <1>1, <2>1, Zenon DEF FailuresBelong
  <1>10. Promises'
    <2>1. CASE step' # "returned"
      BY <2>1, ElsewhereNext, Zenon DEF Elsewhere
    <2>2. CASE step' = "returned"
      <3>1. call'.op \notin Deletes
        BY <1>1, <2>2, FirstStepFacts DEF Deletes
      <3>2. TransientIsRetried'
        BY <1>1 DEF TransientIsRetried
      <3>3. QED
        BY <1>1, <3>1, <3>2, FailedFields, ElsewhereNext, Zenon DEF Elsewhere, Promises
    <2>3. QED
      BY <2>1, <2>2
  <1>11. QED
    BY <1>2, <1>3, <1>4, <1>5, <1>6, <1>7, <1>8, <1>9, <1>10, Zenon DEF ClientInv, Typed

\* An object in the bucket.
LEMMA ObjectFacts ==
    ASSUME NEW d \in Seq(Blocks)
    PROVE  Object(d) \in [exists : BOOLEAN, data : Seq(Blocks)] /\ Object(d).data = d
    BY Zenon DEF Object

\* Another client writes: the call sees it.
LEMMA ObjectWrittenKeeps ==
    ASSUME ClientInv, ObjectWritten
    PROVE  ClientInv'
  <1>1. /\ step # "returned" /\ writes < MaxWrites /\ writes' = writes + 1
        /\ sibling' = sibling /\ seen' = seen \cup {Snapshot'}
        /\ object' \in {Absent} \cup {Object(Content(writes', n)) : n \in 0..MaxLen}
        /\ UNCHANGED <<gateway, allow_unverified_ranges, sent, limit>>
        /\ UNCHANGED <<file, call, step, attempt, result, failures>>
    BY Zenon DEF ObjectWritten, putVars
  <1>2. writes' \in 0..MaxWrites
    BY <1>1, S3ClientAssumption DEF ClientInv, Typed, CallTypes
  <1>3. object' \in [exists : BOOLEAN, data : Seq(Blocks)] /\ Len(object'.data) <= MaxLen + MaxFile
    <2>1. CASE object' = Absent
      <3>1. 0 <= MaxLen + MaxFile
        BY S3ClientAssumption
      <3>2. QED
        BY <2>1, <3>1, AbsentFacts, Zenon
    <2>2. ASSUME NEW n \in 0..MaxLen, object' = Object(Content(writes', n))
          PROVE  object' \in [exists : BOOLEAN, data : Seq(Blocks)]
                 /\ Len(object'.data) <= MaxLen + MaxFile
      <3>1. n \in 0..(MaxLen + MaxFile) /\ n <= MaxLen + MaxFile
        BY S3ClientAssumption
      <3>2. Content(writes', n) \in Seq(Blocks) /\ Len(Content(writes', n)) = n
        BY <1>2, <3>1, ContentFacts
      <3>3. QED
        BY <2>2, <3>1, <3>2, ObjectFacts, Zenon
    <2>3. QED
      BY <1>1, <2>1, <2>2, Zenon
  <1>4. BucketTypes'
    BY <1>1, <1>3, Zenon DEF ClientInv, Typed, BucketTypes
  <1>5. ServiceTypes' /\ FileTypes' /\ SentTypes' /\ ResultTypes'
    BY <1>1, Zenon DEF ClientInv, Typed, ServiceTypes, FileTypes, SentTypes, ResultTypes, InPlace
  <1>6. CallTypes'
    BY <1>1, <1>2, Zenon DEF ClientInv, Typed, CallTypes
  <1>7. SeenNow'
    BY <1>1, Zenon DEF SeenNow
  <1>8. StepsBelong' /\ FailuresBelong'
    <2>1. ChunkRequestOk' <=> ChunkRequestOk
      BY <1>1, Zenon DEF ChunkRequestOk
    <2>2. QED
      BY <1>1, <2>1, Zenon DEF ClientInv, StepsBelong, FailuresBelong
  <1>9. Promises'
    BY <1>1, ElsewhereNext, Zenon DEF Elsewhere
  <1>10. QED
    BY <1>4, <1>5, <1>6, <1>7, <1>8, <1>9, Zenon DEF ClientInv, Typed

\* Another process writes the file: what it then has is at its place too.
LEMMA FileWrittenKeeps ==
    ASSUME ClientInv, FileWritten
    PROVE  ClientInv'
  <1>1. /\ step \in {"stat", "stream"} /\ writes < MaxWrites /\ writes' = writes + 1
        /\ UNCHANGED <<gateway, allow_unverified_ranges, object, sibling, sent, limit>>
        /\ UNCHANGED <<call, step, attempt, result, seen, failures>>
    BY Zenon DEF FileWritten, putVars, bucketVars
  <1>2. writes' \in 0..MaxWrites
    BY <1>1, S3ClientAssumption DEF ClientInv, Typed, CallTypes
  <1>0. /\ file \in Seq(Blocks) /\ Len(file) \in Nat /\ Len(file) <= MaxFile /\ InPlace(file)
    BY LenProperties DEF ClientInv, Typed, FileTypes
  <1>3. ASSUME NEW n \in 0..Len(file) - 1, file' = SubSeq(file, 1, n) PROVE FileTypes'
    <2>1. \A i \in 1..n : file[i] \in Blocks
      BY <1>0, ElementOfSeq
    <2>2. /\ file' \in Seq(Blocks) /\ Len(file') = n
          /\ \A i \in 1..n : file'[i] = file[i]
      BY <1>3, <1>0, <2>1, SubSeqProperties
    <2>3. InPlace(file)'
      BY <1>0, <2>2 DEF InPlace
    <2>4. Len(file') <= MaxFile
      BY <1>0, <2>2, S3ClientAssumption
    <2>5. QED
      BY <2>2, <2>3, <2>4, Zenon DEF FileTypes
  <1>4. ASSUME Len(file) < MaxFile, file' = Append(file, <<writes', Len(file) + 1>>)
        PROVE  FileTypes'
    <2>1. <<writes', Len(file) + 1>> \in Blocks
      BY <1>2, <1>4, <1>0, S3ClientAssumption DEF Blocks
    <2>2. /\ file' \in Seq(Blocks) /\ Len(file') = Len(file) + 1
          /\ \A i \in 1..Len(file) : file'[i] = file[i]
          /\ file'[Len(file) + 1] = <<writes', Len(file) + 1>>
      BY <1>4, <1>0, <2>1, AppendProperties
    <2>3. InPlace(file)'
      BY <1>0, <2>2 DEF InPlace
    <2>4. Len(file') <= MaxFile
      BY <1>4, <1>0, <2>2, S3ClientAssumption
    <2>5. QED
      BY <2>2, <2>3, <2>4, Zenon DEF FileTypes
  <1>5. ASSUME NEW n \in 0..MaxFile, file' = Content(writes', n) PROVE FileTypes'
    <2>1. n \in 0..(MaxLen + MaxFile) /\ n <= MaxFile
      BY S3ClientAssumption
    <2>2. /\ Content(writes', n) \in Seq(Blocks) /\ Len(Content(writes', n)) = n
          /\ InPlace(Content(writes', n))
      BY <1>2, <2>1, ContentFacts
    <2>3. QED
      BY <1>5, <2>1, <2>2, Zenon DEF FileTypes, InPlace
  <1>6. FileTypes'
    BY <1>3, <1>4, <1>5, Zenon DEF FileWritten
  <1>7. ServiceTypes' /\ BucketTypes' /\ SentTypes' /\ ResultTypes'
    BY <1>1, Zenon DEF ClientInv, Typed, ServiceTypes, BucketTypes, SentTypes, ResultTypes, InPlace
  <1>8. CallTypes'
    BY <1>1, <1>2, Zenon DEF ClientInv, Typed, CallTypes
  <1>9. SeenNow'
    BY <1>1, Zenon DEF ClientInv, SeenNow, Snapshot
  <1>10. StepsBelong' /\ FailuresBelong'
    <2>1. ChunkRequestOk' <=> ChunkRequestOk
      BY <1>1, Zenon DEF ChunkRequestOk
    <2>2. QED
      BY <1>1, <2>1, Zenon DEF ClientInv, StepsBelong, FailuresBelong
  <1>11. step' # "returned"
    BY <1>1
  <1>12. Promises'
    BY <1>11, ElsewhereNext, Zenon DEF Elsewhere
  <1>13. QED
    BY <1>6, <1>7, <1>8, <1>9, <1>10, <1>12, Zenon DEF ClientInv, Typed

-----------------------------------------------------------------------------
(* The theorems about the client.                                          *)

\* Before the first call.
LEMMA ClientInitInv == ClientInit => ClientInv
  <1> SUFFICES ASSUME ClientInit PROVE ClientInv
    OBVIOUS
  <1>1. /\ step = "returned" /\ attempt = 0 /\ sent = <<>> /\ limit = 0 /\ file = <<>>
        /\ writes = 0 /\ result = Failed /\ failures = {} /\ seen = {}
        /\ call = [op |-> "GetObjectSize", start |-> 0, end |-> 0, ids |-> <<>>]
    BY Zenon DEF ClientInit
  <1>2. ServiceTypes
    BY Zenon DEF ClientInit, ServiceTypes
  <1>3. BucketTypes
    <2>1. CASE object = Absent
      <3>1. 0 <= MaxLen + MaxFile
        BY S3ClientAssumption
      <3>2. QED
        BY <2>1, <3>1, AbsentFacts, Zenon DEF BucketTypes, ClientInit
    <2>2. ASSUME NEW n \in 0..MaxLen, object = Object(Content(0, n)) PROVE BucketTypes
      <3>1. n \in 0..(MaxLen + MaxFile) /\ n <= MaxLen + MaxFile /\ 0 \in 0..MaxWrites
        BY S3ClientAssumption
      <3>2. Content(0, n) \in Seq(Blocks) /\ Len(Content(0, n)) = n
        BY <3>1, ContentFacts
      <3>3. QED
        BY <2>2, <3>1, <3>2, ObjectFacts, Zenon DEF BucketTypes, ClientInit
    <2>3. QED
      BY <2>1, <2>2, Zenon DEF ClientInit
  <1>4. FileTypes /\ SentTypes
    BY <1>1, EmptySeq, S3ClientAssumption DEF FileTypes, SentTypes, InPlace
  <1>5. ResultTypes
    BY <1>1, FailedIsResult, Zenon DEF ResultTypes
  <1>6. CallTypes
    <2>1. call \in Calls
      <3>1. "GetObjectSize" \in Operations \ RangeReads
        BY DEF Operations, RangeReads
      <3>2. call = [op |-> "GetObjectSize", start |-> 0, end |-> 0, ids |-> <<>>]
        BY <1>1, Zenon
      <3>3. QED
        BY <3>1, <3>2 DEF Calls
    <2>2. step \in Steps /\ attempt \in 0..MaxRetries /\ writes \in 0..MaxWrites
      BY <1>1, S3ClientAssumption DEF Steps
    <2>3. QED
      BY <2>1, <2>2, Zenon DEF CallTypes
  <1>7. SeenNow /\ StepsBelong /\ FailuresBelong
    BY <1>1 DEF SeenNow, StepsBelong, FailuresBelong
  <1>8. Promises
    <2>1. call.op = "GetObjectSize"
      BY <1>1, Zenon
    <2>2. call.op \notin Deletes
      BY <2>1 DEF Deletes
    <2>3. TransientIsRetried
      BY <1>1 DEF TransientIsRetried
    <2>4. QED
      BY <1>1, <2>2, <2>3, FailedFields, ElsewhereNow, Zenon DEF Elsewhere, Promises
  <1>9. QED
    BY <1>2, <1>3, <1>4, <1>5, <1>6, <1>7, <1>8, Zenon DEF ClientInv, Typed

\* Every step of a client, of a service or of another writer keeps the invariant.
LEMMA ClientStep == ClientInv /\ [ClientNext]_clientVars => ClientInv'
  <1> SUFFICES ASSUME ClientInv, [ClientNext]_clientVars PROVE ClientInv'
    OBVIOUS
  <1>1. CASE UNCHANGED clientVars
    <2>1. /\ UNCHANGED <<object, sibling, gateway, allow_unverified_ranges, writes, sent, limit>>
          /\ UNCHANGED <<file, call, step, attempt, result, seen, failures>>
      BY <1>1, Zenon DEF clientVars, bucketVars, otherVars, putVars
    <2>2. Typed'
      BY <2>1, Zenon DEF ClientInv, Typed, ServiceTypes, BucketTypes, CallTypes, FileTypes,
         SentTypes, ResultTypes, InPlace
    <2>3. SeenNow' /\ StepsBelong' /\ FailuresBelong'
      BY <2>1, Zenon DEF ClientInv, SeenNow, Snapshot, StepsBelong, FailuresBelong, ChunkRequestOk
    <2>4. Promises'
      BY <2>1, Zenon DEF ClientInv, Promises, RangeIsExact, ReportsAreTrue, DeletesAreConfirmed,
         UploadIsThePrefix, TransientIsRetried, Answered, Unplaceable, Asked
    <2>5. QED
      BY <2>2, <2>3, <2>4, Zenon DEF ClientInv
  <1>2. CASE ClientNext
    BY <1>2, ClientCases, CallKeeps, GetObjectSizeKeeps, CheckObjectPresenceKeeps, ProbeKeeps,
       ListObjectsKeeps, GetObjectRangeKeeps, RefuseChunksKeeps, DeleteObjectsKeeps, StatKeeps,
       UnderflowKeeps, SeekKeeps, PutObjectStreamedKeeps, OpenFailsKeeps, ObjectWrittenKeeps,
       FileWrittenKeeps, Zenon
  <1>3. QED
    BY <1>1, <1>2, Zenon

\* The inductive invariant holds of every behaviour of the client: what it saw of
\* the bucket, the step it is at and the blocks it has read fit the call under way.
THEOREM ClientInvariant == ClientSpec => []ClientInv
  BY ClientInitInv, ClientStep, PTL DEF ClientSpec

\* The variables of the client hold what the code can hold.
THEOREM ClientTypeCorrect == ClientSpec => []ClientTypeOK
  <1>1. ClientInv => ClientTypeOK
    <2> SUFFICES ASSUME ClientInv PROVE ClientTypeOK
      OBVIOUS
    <2>1. object.exists \in BOOLEAN /\ object.data \in Seq(Blocks)
      BY Zenon DEF ClientInv, Typed, BucketTypes
    <2>2. file \in Seq(Blocks) /\ sent \in Seq(Blocks)
      BY Zenon DEF ClientInv, Typed, FileTypes, SentTypes
    <2>3. \A d \in {object.data, file, sent} : \A i \in 1..Len(d) : d[i] \in Blocks
      <3>1. ASSUME NEW d \in Seq(Blocks) PROVE \A i \in 1..Len(d) : d[i] \in Blocks
        BY ElementOfSeq
      <3>2. QED
        BY <2>1, <2>2, <3>1, Zenon
    <2>4. /\ gateway \in Gateways /\ allow_unverified_ranges \in BOOLEAN
          /\ sibling \in BOOLEAN /\ writes \in 0..MaxWrites
          /\ call \in Calls /\ attempt \in 0..MaxRetries /\ limit \in 0..MaxPut
          /\ step \in {"request", "probe", "stat", "stream", "returned"}
          /\ IsResult(result)
      BY Zenon DEF ClientInv, Typed, ServiceTypes, BucketTypes, CallTypes, SentTypes,
         ResultTypes, Steps
    <2>5. QED
      BY <2>1, <2>3, <2>4, Zenon DEF ClientTypeOK, IsResult
  <1>2. QED
    BY <1>1, ClientInvariant, PTL

\* A range read that succeeds returns the bytes asked for, of one version of the
\* object, whatever the service makes of the range (RangeResponseHonoursRequest
\* and the length checks of GetObjectRange, GetObjectRangeInto, GetChunkCRC32s).
THEOREM RangesAreExact == ClientSpec => []RangeIsExact
  <1>1. ClientInv => RangeIsExact
    BY DEF ClientInv, Promises
  <1>2. QED
    BY <1>1, ClientInvariant, PTL

\* What HEAD, the presence probe and the listing report was so during the call.
THEOREM ReportsWereTrue == ClientSpec => []ReportsAreTrue
  <1>1. ClientInv => ReportsAreTrue
    BY DEF ClientInv, Promises
  <1>2. QED
    BY <1>1, ClientInvariant, PTL

\* A key that DeleteObject or DeleteObjects confirms was gone during the call.
THEOREM DeletionsAreConfirmed == ClientSpec => []DeletesAreConfirmed
  <1>1. ClientInv => DeletesAreConfirmed
    BY DEF ClientInv, Promises
  <1>2. QED
    BY <1>1, ClientInvariant, PTL

\* An upload that succeeds stored the file block by block, as many blocks as the
\* file had when it was measured (BoundedFileBuf).
THEOREM UploadsAreThePrefix == ClientSpec => []UploadIsThePrefix
  <1>1. ClientInv => UploadIsThePrefix
    BY DEF ClientInv, Promises
  <1>2. QED
    BY <1>1, ClientInvariant, PTL

\* A call that has met transient failures only gives up after its last attempt.
THEOREM TransientFailuresAreRetried == ClientSpec => []TransientIsRetried
  <1>1. ClientInv => TransientIsRetried
    BY DEF ClientInv, Promises
  <1>2. QED
    BY <1>1, ClientInvariant, PTL
=============================================================================

----------------------------- MODULE RmTaskProofs -----------------------------
(***************************************************************************)
(* For every number of objects, size of a batch, number of threads and of  *)
(* retries: RmTask is type correct, deletes nothing but the target, counts *)
(* what it deletes, and is successful only when the target is gone.        *)
(*                                                                         *)
(* The argument follows each key that was listed.  It is open until the    *)
(* task of its batch has settled it, then either failed or confirmed, and  *)
(* the counters are the sizes of these two sets.                           *)
(***************************************************************************)
EXTENDS RmTask, FiniteSetTheorems, TLAPS

-----------------------------------------------------------------------------
(* The parts of the type invariant.                                        *)

ConfigOK ==
    /\ config \in [kind : Kinds, recursive : BOOLEAN, force : BOOLEAN, batch : BOOLEAN]
    /\ original \subseteq Children \cup {Named}
    /\ config.kind # "key" => Named \notin original
BucketOK == bucket \subseteq original
PhaseOK  == phase \in Phases /\ entries \subseteq Children
TaskOK   == task \in [Units -> TaskStates]
KeysOK   == to_delete \in [Units -> SUBSET Children] /\ unchecked \in [Units -> SUBSET Children]
TriesOK  ==
    /\ attempt \in [Units -> 0..(MaxRetries + 1)]
    /\ \A u \in Units : /\ task[u] \in {"unposted", "posted"} => attempt[u] = 0
                        /\ task[u] = "deleting" => attempt[u] <= MaxRetries
FailureOK == had_total_failure \in [Units -> BOOLEAN] /\ unknown \in [Units -> Nat]
WindowOK  == current_max_concurrency \in 1..MaxThreads
FlightOK  == in_flight \in 0..MaxThreads
CountsOK  == deleted_count \in Nat /\ failed_count \in Nat
FailedOK  == all_failed \subseteq Children \cup {Named}
FlagsOK   == cancelled \in BOOLEAN /\ success \in BOOLEAN

\* The types, and what bounds the attempts of a task.
Typed ==
    /\ ConfigOK /\ BucketOK /\ PhaseOK /\ TaskOK /\ KeysOK /\ TriesOK /\ FailureOK
    /\ WindowOK /\ CountsOK /\ FailedOK /\ FlagsOK

Resolving == {"size", "presence", "peek", "file", "list"}
Posting   == {"next", "check", "waiting", "post", "drain", "draining"}

\* While the name is resolved nothing has been touched, and what the phase says
\* of the name is true.
Resolved ==
    /\ phase \in Resolving =>
          /\ bucket = original /\ entries = {} /\ ~success
          /\ deleted_count = 0 /\ failed_count = 0 /\ all_failed = {}
    /\ phase = "file" => Named \in original
    /\ phase \in {"peek", "list"} => Named \notin original

\* What was listed is what was asked for.
ListingSound ==
    /\ phase \in Posting => entries # {}
    /\ entries # {} => /\ config.force /\ config.recursive
                       /\ Named \notin original /\ entries = original \cap Children

\* The task of a key.
UnitOf(k) ==
    IF config.batch THEN (Cardinality({j \in entries : j < k}) \div BatchSize) + 1 ELSE k

\* A task works on its own keys, and checks only those it has not settled.
TasksSound ==
    /\ entries = {} => \A u \in Units : task[u] = "unposted"
    /\ \A u \in Units : /\ to_delete[u] \subseteq KeysOf(u)
                        /\ unchecked[u] \subseteq to_delete[u]

\* The keys that no task has settled yet.
Open ==
    {k \in entries : \/ task[UnitOf(k)] \in {"unposted", "posted"}
                     \/ /\ task[UnitOf(k)] \in {"deleting", "verify", "count"}
                        /\ k \in to_delete[UnitOf(k)]}

\* The keys that are confirmed as deleted.
Confirmed == entries \ (Open \cup all_failed)

\* The counters are the sizes of the sets, and a confirmed key is gone.
Settled ==
    entries # {} =>
        /\ all_failed \subseteq entries \ Open
        /\ failed_count = Cardinality(all_failed)
        /\ deleted_count = Cardinality(Confirmed)
        /\ Confirmed \cap bucket = {}

\* The tasks that hold a slot.
Busy == {u \in Units : task[u] \in {"posted", "deleting", "verify", "count", "release"}}

\* in_flight counts them, and one more fits where one may be posted.
InFlightSound ==
    /\ in_flight = Cardinality(Busy)
    /\ FlightOK
    /\ phase = "post" /\ ~cancelled => in_flight < MaxThreads

\* The loop is left, unless the run is cancelled, when everything was posted.
AllPosted ==
    phase \in {"drain", "draining", "finished"} /\ ~cancelled /\ entries # {} => Unposted = {}

\* A run that has finished left no task behind.
FinishSound == phase = "finished" => Busy = {}

\* The inductive invariant.
RmInv ==
    /\ Typed /\ Resolved /\ ListingSound /\ TasksSound /\ Settled /\ InFlightSound
    /\ AllPosted /\ FinishSound /\ OnlyTarget

\* What a run without tasks has done to the object of the name.
NamedCounted ==
    entries = {} /\ phase = "finished" =>
        /\ deleted_count <= Cardinality(original \ bucket)
        /\ failed_count = Cardinality(all_failed)

-----------------------------------------------------------------------------
(* The steps, and the sets that are counted.                               *)

USE RmAssumption

\* A step is one of the actions.
LEMMA NextCases ==
    ASSUME [Next]_vars
    PROVE  \/ LookUpSize \/ CheckPresence \/ PeekPrefix \/ DeleteNamed \/ List \/ ListEnds
           \/ NextTask \/ CheckWindow \/ LeaveLoop \/ Drain \/ Finish \/ Cancel
           \/ (\E u \in Units : PostTask(u))
           \/ (\E u \in Units : BeginTask(u)) \/ (\E u \in Units : TryDelete(u))
           \/ (\E u \in Units : StopTrying(u)) \/ (\E u \in Units : VerifyKey(u))
           \/ (\E u \in Units : GiveUp(u)) \/ (\E u \in Units : ReleaseSlot(u))
           \/ (\E u \in Units : Notify(u))
           \/ UNCHANGED vars
  BY Zenon DEF Next, Resolve, PostStep, TaskStep

\* Return ends a run that has posted nothing.
LEMMA ReturnStep ==
    ASSUME NEW ok, Return(ok)
    PROVE  /\ phase' = "finished" /\ success' = ok
           /\ UNCHANGED <<config, original, entries, task, to_delete, attempt,
                          had_total_failure, unchecked, unknown, in_flight,
                          current_max_concurrency, cancelled>>
  BY Zenon DEF Return, askedVars, taskVars, windowVars

\* GoTo changes the phase only.
LEMMA GoToStep ==
    ASSUME NEW p, GoTo(p)
    PROVE  /\ phase' = p
           /\ UNCHANGED <<config, original, bucket, entries, task, to_delete, attempt,
                          had_total_failure, unchecked, unknown, in_flight,
                          current_max_concurrency, deleted_count, failed_count,
                          all_failed, cancelled, success>>
  BY Zenon DEF GoTo, askedVars, taskVars, windowVars, countVars

\* A step of the resolution that deletes nothing either goes on or returns.
LEMMA LookStep ==
    ASSUME LookUpSize \/ CheckPresence \/ PeekPrefix \/ ListEnds
    PROVE  /\ \/ (\E p \in {"file", "presence", "peek", "list"} : GoTo(p))
              \/ (\E ok \in BOOLEAN : Return(ok)) /\ UNCHANGED <<bucket, countVars>>
           /\ phase \in Resolving
<1>1. CASE LookUpSize
  BY <1>1, Zenon DEF LookUpSize, Resolving
<1>2. CASE CheckPresence
  BY <1>2, Zenon DEF CheckPresence, Resolving
<1>3. CASE PeekPrefix
  BY <1>3, Zenon DEF PeekPrefix, Resolving
<1>4. CASE ListEnds
  BY <1>4, Zenon DEF ListEnds, Resolving
<1> QED
  BY <1>1, <1>2, <1>3, <1>4

\* A step of the posting loop that posts nothing goes from one of its phases to
\* another.
LEMMA LoopStep ==
    ASSUME NextTask \/ CheckWindow \/ LeaveLoop \/ Drain
    PROVE  /\ \E p \in {"drain", "check", "post", "waiting", "draining"} : GoTo(p)
           /\ phase \in Posting
<1>1. CASE NextTask
  BY <1>1, Zenon DEF NextTask, Posting
<1>2. CASE CheckWindow
  BY <1>2, Zenon DEF CheckWindow, Posting
<1>3. CASE LeaveLoop
  BY <1>3, Zenon DEF LeaveLoop, Posting
<1>4. CASE Drain
  BY <1>4, Zenon DEF Drain, Posting
<1> QED
  BY <1>1, <1>2, <1>3, <1>4

\* The loop that is woken stays in the loop, and does not get to post.
LEMMA WokenPhase ==
    ASSUME NEW p \in Phases
    PROVE  /\ Woken(p) \in Phases
           /\ p \in Resolving \cup {"post", "finished"} \/ Woken(p) \in Resolving \cup {"post", "finished"}
                => Woken(p) = p
           /\ p \in Posting <=> Woken(p) \in Posting
           /\ Woken(p) \in {"drain", "draining"} => p \in {"drain", "draining"}
<1>1. CASE p = "waiting"
  <2>1. Woken(p) = "check"
    BY <1>1, Zenon DEF Woken
  <2> QED
    BY <1>1, <2>1, SMT DEF Phases, Posting, Resolving
<1>2. CASE p = "draining"
  <2>1. Woken(p) = "drain"
    BY <1>2, Zenon DEF Woken
  <2> QED
    BY <1>2, <2>1, SMT DEF Phases, Posting, Resolving
<1>3. CASE p # "waiting" /\ p # "draining"
  <2>1. Woken(p) = p
    BY <1>3, Zenon DEF Woken
  <2> QED
    BY <1>3, <2>1, Zenon
<1> QED
  BY <1>1, <1>2, <1>3

\* What is deleted and what is posted are finite sets.
LEMMA FiniteSets ==
    /\ IsFiniteSet(Children) /\ IsFiniteSet(Units) /\ IsFiniteSet(Children \cup {Named})
    /\ \A S : S \subseteq Children \cup {Named} => IsFiniteSet(S) /\ Cardinality(S) \in Nat
<1>1. IsFiniteSet(Children)
  BY FS_Interval DEF Children
<1>2. IsFiniteSet(Children \cup {Named})
  BY <1>1, FS_AddElement
<1>3. \A S : S \subseteq Children \cup {Named} => IsFiniteSet(S) /\ Cardinality(S) \in Nat
  BY <1>2, FS_Subset, FS_CardinalityType
<1> QED
  BY <1>1, <1>2, <1>3 DEF Units

\* A quotient is no larger than the number that is divided.
LEMMA QuotientBound ==
    ASSUME NEW n \in Nat, NEW b \in Nat \ {0} PROVE n \div b \in 0..n
<1> DEFINE q == n \div b
<1>1. q \in Nat /\ b * q <= n
  BY SMT
<1> HIDE DEF q
<1>2. b - 1 \in Nat /\ (b - 1) * q >= 0
  BY <1>1, SMT
<1>3. q \in 0..n
  BY <1>1, <1>2, SMT
<1> QED
  BY <1>3 DEF q

\* Every key that was listed is in the batch of one task.
LEMMA KeyInOneBatch ==
    ASSUME PhaseOK, NEW k \in entries
    PROVE  UnitOf(k) \in Units /\ \A u \in Units : k \in KeysOf(u) <=> UnitOf(k) = u
<1>1. k \in 1..ChildCount
  BY DEF PhaseOK, Children
<1> DEFINE Before == {j \in entries : j < k}
<1>2. Cardinality(Before) \in 0..(k - 1)
  <2>1. IsFiniteSet(1..(k - 1)) /\ Cardinality(1..(k - 1)) = k - 1
    BY <1>1, FS_Interval
  <2>2. Before \subseteq 1..(k - 1)
    <3>1. \A j \in entries : j \in 1..ChildCount
      BY DEF PhaseOK, Children
    <3>2. \A j \in entries : j < k => j \in 1..(k - 1)
      BY <1>1, <3>1, SMT
    <3> QED
      BY <3>2
  <2> QED
    BY <1>1, <2>1, <2>2, FS_Subset, FS_CardinalityType
<1>3. \A n \in 0..(k - 1) : (n \div BatchSize) + 1 \in 1..k
  <2> SUFFICES ASSUME NEW n \in 0..(k - 1) PROVE (n \div BatchSize) + 1 \in 1..k
    OBVIOUS
  <2>1. n \in Nat /\ k \in Nat
    BY <1>1
  <2>2. n \div BatchSize \in 0..n
    BY <2>1, QuotientBound
  <2> QED
    BY <2>1, <2>2
<1>4. UnitOf(k) \in 1..k
  BY <1>1, <1>2, <1>3 DEF UnitOf
<1>5. UnitOf(k) \in Units
  BY <1>1, <1>4 DEF Units, Children
<1>6. \A u \in Units : k \in KeysOf(u) <=> UnitOf(k) = u
  BY Zenon DEF KeysOf, UnitOf
<1> QED
  BY <1>5, <1>6

\* The same of all keys, for use in the next state.
LEMMA KeysHaveUnits == PhaseOK => \A k \in entries : UnitOf(k) \in Units
  BY KeyInOneBatch

-----------------------------------------------------------------------------
(* Type correctness.                                                       *)

\* The initial states are typed.
LEMMA InitTyped == Init => Typed
<1> SUFFICES ASSUME Init PROVE Typed
  OBVIOUS
<1>1. ConfigOK /\ BucketOK
  BY SMT DEF Init, ConfigOK, BucketOK, Kinds, Children, Named
<1>2. PhaseOK /\ TaskOK /\ KeysOK /\ TriesOK /\ CountsOK /\ FailedOK
  BY SMT DEF Init, PhaseOK, TaskOK, KeysOK, TriesOK, CountsOK, FailedOK, Phases, TaskStates
<1>3. FailureOK /\ FlagsOK
  <2>1. had_total_failure \in [Units -> BOOLEAN] /\ cancelled \in BOOLEAN /\ success \in BOOLEAN
    BY Zenon DEF Init
  <2>2. unknown \in [Units -> Nat]
    BY SMT DEF Init
  <2> QED
    BY <2>1, <2>2 DEF FailureOK, FlagsOK
<1>4. WindowOK
  BY SMT DEF Init, WindowOK, Smaller
<1> QED
  BY <1>1, <1>2, <1>3, <1>4 DEF Typed

\* The window stays between one and the number of threads.
LEMMA WindowStep ==
    ASSUME WindowOK, Ramp \/ BackOff \/ UNCHANGED current_max_concurrency
    PROVE  WindowOK'
<1>1. CASE Ramp
  BY <1>1, SMT DEF WindowOK, Ramp, Smaller
<1>2. CASE BackOff
  BY <1>2, SMT DEF WindowOK, BackOff, Smaller, Larger
<1>3. CASE UNCHANGED current_max_concurrency
  BY <1>3 DEF WindowOK
<1> QED
  BY <1>1, <1>2, <1>3

\* The keys of a task are keys.
LEMMA KeysTyped ==
    ASSUME PhaseOK, NEW u \in Units PROVE KeysOf(u) \subseteq Children
  BY DEF KeysOf, PhaseOK

\* Every step keeps the types.
LEMMA StepTyped ==
    ASSUME Typed, [Next]_vars PROVE Typed'
<1> USE DEF askedVars, taskVars, windowVars, countVars
<1>0. /\ ConfigOK /\ BucketOK /\ PhaseOK /\ TaskOK /\ KeysOK /\ TriesOK /\ FailureOK
      /\ WindowOK /\ CountsOK /\ FailedOK /\ FlagsOK
  BY DEF Typed
<1>c. ASSUME UNCHANGED <<config, original>> PROVE ConfigOK'
  BY <1>0, <1>c DEF ConfigOK
<1>b. ASSUME bucket' \subseteq bucket, UNCHANGED original PROVE BucketOK'
  BY <1>0, <1>b DEF BucketOK
<1>p. ASSUME UNCHANGED entries, phase' \in Phases PROVE PhaseOK'
  BY <1>0, <1>p DEF PhaseOK
<1>w. ASSUME UNCHANGED <<deleted_count, failed_count, all_failed>> PROVE CountsOK' /\ FailedOK'
  BY <1>0, <1>w DEF CountsOK, FailedOK
<1>f. ASSUME UNCHANGED <<cancelled, success>> PROVE FlagsOK'
  BY <1>0, <1>f, Zenon DEF FlagsOK
<1>h. ASSUME UNCHANGED <<had_total_failure, unknown>> PROVE FailureOK'
  BY <1>0, <1>h DEF FailureOK
<1>k. ASSUME UNCHANGED <<to_delete, unchecked>> PROVE KeysOK'
  BY <1>0, <1>k DEF KeysOK
<1>t. ASSUME UNCHANGED <<task, attempt>> PROVE TaskOK' /\ TriesOK'
  BY <1>0, <1>t DEF TaskOK, TriesOK
<1>m. ASSUME NEW u \in Units, NEW s \in TaskStates \ {"unposted", "posted", "deleting"},
             task' = [task EXCEPT ![u] = s], UNCHANGED attempt
      PROVE  TaskOK' /\ TriesOK'
  BY <1>0, <1>m, SMT DEF TaskOK, TriesOK
<1>1. CASE LookUpSize \/ CheckPresence \/ PeekPrefix \/ ListEnds
  <2>1. ASSUME NEW p \in {"file", "presence", "peek", "list"}, GoTo(p) PROVE Typed'
    <3>1. phase' \in Phases
      BY <2>1, GoToStep, SMT DEF Phases
    <3> QED
      BY <2>1, <3>1, GoToStep, <1>c, <1>b, <1>p, <1>w, <1>f, <1>h, <1>k, <1>t, <1>0, WindowStep
         DEF Typed
  <2>2. ASSUME NEW ok \in BOOLEAN, Return(ok), UNCHANGED <<bucket, countVars>> PROVE Typed'
    <3>1. phase' \in Phases
      BY <2>2, ReturnStep, SMT DEF Phases
    <3>2. FlagsOK'
      BY <1>0, <2>2, ReturnStep, Zenon DEF FlagsOK
    <3> QED
      BY <2>2, <3>1, <3>2, ReturnStep, <1>c, <1>b, <1>p, <1>w, <1>h, <1>k, <1>t, <1>0,
         WindowStep DEF Typed
  <2> QED
    BY <1>1, <2>1, <2>2, LookStep
<1>2. CASE NextTask \/ CheckWindow \/ LeaveLoop \/ Drain
  <2>1. PICK p \in {"drain", "check", "post", "waiting", "draining"} : GoTo(p)
    BY <1>2, LoopStep
  <2>2. phase' \in Phases
    BY <2>1, GoToStep, SMT DEF Phases
  <2> QED
    BY <2>1, <2>2, GoToStep, <1>c, <1>b, <1>p, <1>w, <1>f, <1>h, <1>k, <1>t, <1>0, WindowStep
       DEF Typed
<1>3. CASE DeleteNamed
  <2>1. /\ \E ok \in BOOLEAN : Return(ok)
        /\ bucket' \in {bucket, bucket \ {Named}}
        /\ deleted_count' \in {deleted_count, 1} /\ failed_count' \in {failed_count, 1}
        /\ all_failed' \in {all_failed, {Named}}
    BY <1>3, Zenon DEF DeleteNamed
  <2>2. phase' \in Phases
    BY <2>1, ReturnStep, SMT DEF Phases
  <2>3. CountsOK' /\ FailedOK'
    BY <1>0, <2>1, SMT DEF CountsOK, FailedOK
  <2>4. FlagsOK'
    BY <1>0, <2>1, ReturnStep, Zenon DEF FlagsOK
  <2>5. bucket' \subseteq bucket
    BY <2>1
  <2> QED
    BY <2>1, <2>2, <2>3, <2>4, <2>5, ReturnStep, <1>c, <1>b, <1>p, <1>h, <1>k, <1>t, <1>0,
       WindowStep DEF Typed
<1>4. CASE List
  <2>1. /\ phase' = "next" /\ entries' = bucket \cap Children
        /\ UNCHANGED <<config, original, bucket, task, to_delete, attempt,
                       had_total_failure, unchecked, unknown, in_flight,
                       current_max_concurrency, deleted_count, failed_count,
                       all_failed, cancelled, success>>
    BY <1>4, Zenon DEF List
  <2>2. PhaseOK'
    BY <2>1, SMT DEF PhaseOK, Phases
  <2> QED
    BY <2>1, <2>2, <1>c, <1>b, <1>w, <1>f, <1>h, <1>k, <1>t, <1>0, WindowStep DEF Typed
<1>5. CASE Finish
  <2>1. /\ phase' = "finished" /\ success' \in BOOLEAN
        /\ UNCHANGED <<config, original, bucket, entries, task, to_delete, attempt,
                       had_total_failure, unchecked, unknown, in_flight,
                       current_max_concurrency, deleted_count, failed_count,
                       all_failed, cancelled>>
    BY <1>5, Zenon DEF Finish
  <2>2. phase' \in Phases /\ FlagsOK'
    <3>1. phase' \in Phases
      BY <2>1, SMT DEF Phases
    <3>2. FlagsOK'
      BY <1>0, <2>1, Zenon DEF FlagsOK
    <3> QED
      BY <3>1, <3>2
  <2> QED
    BY <2>1, <2>2, <1>c, <1>b, <1>p, <1>w, <1>h, <1>k, <1>t, <1>0, WindowStep DEF Typed
<1>6. CASE Cancel
  <2>1. /\ cancelled' = TRUE
        /\ UNCHANGED <<config, original, bucket, phase, entries, task, to_delete, attempt,
                       had_total_failure, unchecked, unknown, in_flight,
                       current_max_concurrency, deleted_count, failed_count,
                       all_failed, success>>
    BY <1>6, Zenon DEF Cancel
  <2>2. FlagsOK'
    BY <1>0, <2>1, Zenon DEF FlagsOK
  <2>3. phase' \in Phases
    BY <1>0, <2>1 DEF PhaseOK
  <2> QED
    BY <2>1, <2>2, <2>3, <1>c, <1>b, <1>p, <1>w, <1>h, <1>k, <1>t, <1>0, WindowStep DEF Typed
<1>7. ASSUME NEW u \in Units, PostTask(u) PROVE Typed'
  <2>1. /\ phase' = "next" /\ task' = [task EXCEPT ![u] = "posted"]
        /\ u \in Unposted
        /\ UNCHANGED <<config, original, bucket, entries, to_delete, attempt,
                       had_total_failure, unchecked, unknown,
                       current_max_concurrency, deleted_count, failed_count,
                       all_failed, cancelled, success>>
    BY <1>7, Zenon DEF PostTask
  <2>2. TaskOK' /\ TriesOK'
    BY <1>0, <2>1, SMT DEF TaskOK, TriesOK, Unposted, TaskStates
  <2>3. phase' \in Phases
    BY <2>1, SMT DEF Phases
  <2> QED
    BY <2>1, <2>2, <2>3, <1>c, <1>b, <1>p, <1>w, <1>f, <1>h, <1>k, <1>0, WindowStep DEF Typed
<1>8. ASSUME NEW u \in Units, BeginTask(u) PROVE Typed'
  <2>1. /\ task[u] = "posted"
        /\ UNCHANGED <<config, original, bucket, phase, entries, attempt, had_total_failure,
                       unchecked, unknown, in_flight, current_max_concurrency,
                       deleted_count, cancelled, success>>
    BY <1>8, Zenon DEF BeginTask
  <2>2. phase' \in Phases
    BY <1>0, <2>1 DEF PhaseOK
  <2>3. KeysOf(u) \subseteq Children
    BY <1>0, KeysTyped
  <2>4. TaskOK' /\ TriesOK' /\ KeysOK' /\ CountsOK' /\ FailedOK'
    <3>1. CASE cancelled
      <4>1. /\ CountFailed(KeysOf(u)) /\ task' = [task EXCEPT ![u] = "release"]
            /\ UNCHANGED to_delete
        BY <1>8, <3>1, Zenon DEF BeginTask
      <4>2. TaskOK' /\ TriesOK'
        BY <4>1, <2>1, <1>m DEF TaskStates
      <4>3. CountsOK' /\ FailedOK'
        <5>1. Cardinality(KeysOf(u)) \in Nat
          BY <2>3, FiniteSets
        <5> QED
          BY <1>0, <2>1, <2>3, <4>1, <5>1, SMT DEF CountsOK, FailedOK, CountFailed
      <4> QED
        BY <2>1, <4>1, <4>2, <4>3, <1>k
    <3>2. CASE ~cancelled
      <4>1. /\ to_delete' = [to_delete EXCEPT ![u] = KeysOf(u)]
            /\ task' = [task EXCEPT ![u] = "deleting"]
            /\ UNCHANGED <<failed_count, all_failed>>
        BY <1>8, <3>2, Zenon DEF BeginTask
      <4>2. TaskOK' /\ TriesOK'
        BY <4>1, <2>1, <1>0, SMT DEF TaskOK, TriesOK, TaskStates
      <4>3. KeysOK'
        BY <1>0, <4>1, <2>1, <2>3, SMT DEF KeysOK
      <4> QED
        BY <2>1, <4>1, <4>2, <4>3, <1>w
    <3> QED
      BY <3>1, <3>2
  <2> QED
    BY <2>1, <2>2, <2>4, <1>c, <1>b, <1>p, <1>f, <1>h, <1>0, WindowStep DEF Typed
<1>9. ASSUME NEW u \in Units, TryDelete(u) PROVE Typed'
  <2>1. PICK failed \in SUBSET to_delete[u] : \E applied \in SUBSET failed :
          /\ bucket' = bucket \ ((to_delete[u] \ failed) \cup applied)
          /\ deleted_count' = deleted_count + Cardinality(to_delete[u] \ failed)
          /\ to_delete' = [to_delete EXCEPT ![u] = failed]
          /\ unchecked' = [unchecked EXCEPT ![u] = failed]
          /\ had_total_failure' =
                [had_total_failure EXCEPT ![u] = @ \/ failed = to_delete[u]]
          /\ attempt' = [attempt EXCEPT ![u] = @ + 1]
          /\ task' = [task EXCEPT ![u] =
                         IF failed = {} THEN "release"
                         ELSE IF attempt[u] < MaxRetries THEN "deleting"
                         ELSE IF had_total_failure'[u] THEN "verify" ELSE "count"]
    BY <1>9, Zenon DEF TryDelete
  <2>2. /\ task[u] = "deleting"
        /\ AdaptAfterDelete(u, task'[u] # "deleting")
        /\ UNCHANGED <<config, original, phase, entries, unknown, in_flight, failed_count,
                       all_failed, cancelled, success>>
    BY <1>9, Zenon DEF TryDelete
  <2>3. WindowOK'
    <3>1. Ramp \/ BackOff \/ UNCHANGED current_max_concurrency
      BY <2>2, Zenon DEF AdaptAfterDelete
    <3> QED
      BY <1>0, <3>1, WindowStep
  <2>4. PICK s \in {"release", "deleting", "verify", "count"} :
           /\ task' = [task EXCEPT ![u] = s]
           /\ s = "deleting" => attempt[u] < MaxRetries
    <3>1. CASE failed = {}
      BY <2>1, <3>1, Zenon
    <3>2. CASE failed # {} /\ attempt[u] < MaxRetries
      BY <2>1, <3>2, Zenon
    <3>3. CASE failed # {} /\ ~(attempt[u] < MaxRetries) /\ had_total_failure'[u]
      BY <2>1, <3>3, Zenon
    <3>4. CASE failed # {} /\ ~(attempt[u] < MaxRetries) /\ ~had_total_failure'[u]
      BY <2>1, <3>4, Zenon
    <3> QED
      BY <3>1, <3>2, <3>3, <3>4
  <2>5. TaskOK' /\ TriesOK'
    BY <1>0, <2>1, <2>2, <2>4, SMT DEF TaskOK, TriesOK, TaskStates
  <2>6. KeysOK'
    BY <1>0, <2>1, SMT DEF KeysOK
  <2>7. FailureOK'
    <3>1. had_total_failure' \in [Units -> BOOLEAN]
      BY <1>0, <2>1, Zenon DEF FailureOK
    <3> QED
      BY <1>0, <2>2, <3>1 DEF FailureOK
  <2>8. CountsOK'
    <3>1. Cardinality(to_delete[u] \ failed) \in Nat
      BY <1>0, FiniteSets DEF KeysOK
    <3> QED
      BY <1>0, <2>1, <2>2, <3>1, SMT DEF CountsOK
  <2>9. bucket' \subseteq bucket
    BY <2>1
  <2>10. PhaseOK' /\ FailedOK'
    BY <1>0, <2>2 DEF PhaseOK, FailedOK
  <2> QED
    BY <1>0, <2>2, <2>3, <2>5, <2>6, <2>7, <2>8, <2>9, <2>10, <1>c, <1>b, <1>f DEF Typed
<1>10. ASSUME NEW u \in Units, StopTrying(u) PROVE Typed'
  <2>1. /\ task' = [task EXCEPT ![u] = "count"]
        /\ UNCHANGED <<config, original, bucket, phase, entries, to_delete, attempt,
                       had_total_failure, unchecked, unknown, in_flight,
                       current_max_concurrency, deleted_count, failed_count,
                       all_failed, cancelled, success>>
    BY <1>10, Zenon DEF StopTrying
  <2>2. TaskOK' /\ TriesOK'
    BY <2>1, <1>m DEF TaskStates
  <2>3. phase' \in Phases
    BY <1>0, <2>1 DEF PhaseOK
  <2> QED
    BY <2>1, <2>2, <2>3, <1>c, <1>b, <1>p, <1>w, <1>f, <1>h, <1>k, <1>0, WindowStep DEF Typed
<1>11. ASSUME NEW u \in Units, VerifyKey(u) PROVE Typed'
  <2>1. /\ task' = [task EXCEPT ![u] = IF unchecked'[u] = {} THEN "count" ELSE "verify"]
        /\ UNCHANGED <<config, original, bucket, phase, entries, attempt,
                       had_total_failure, in_flight, failed_count, all_failed, cancelled,
                       success>>
    BY <1>11, Zenon DEF VerifyKey
  <2>2. PICK k \in unchecked[u] :
          /\ unchecked' = [unchecked EXCEPT ![u] = @ \ {k}]
          /\ \/ UNCHANGED <<to_delete, unknown, deleted_count, current_max_concurrency>>
             \/ /\ to_delete' = [to_delete EXCEPT ![u] = @ \ {k}]
                /\ deleted_count' = deleted_count + 1
                /\ unknown' = [unknown EXCEPT ![u] = 0]
                /\ UNCHANGED current_max_concurrency \/ Ramp
             \/ /\ unknown' \in {[unknown EXCEPT ![u] = @ + 1], unknown}
                /\ UNCHANGED current_max_concurrency \/ BackOff
                /\ UNCHANGED <<to_delete, deleted_count>>
    BY <1>11, Zenon DEF VerifyKey
  <2>3. TaskOK' /\ TriesOK'
    <3>1. CASE unchecked'[u] = {}
      BY <2>1, <3>1, <1>m DEF TaskStates
    <3>2. CASE unchecked'[u] # {}
      BY <2>1, <3>2, <1>m DEF TaskStates
    <3> QED
      BY <3>1, <3>2
  <2>4. WindowOK'
    BY <1>0, <2>2, WindowStep
  <2>5. KeysOK'
    BY <1>0, <2>2, SMT DEF KeysOK
  <2>6. FailureOK'
    <3>1. unknown' \in [Units -> Nat]
      BY <1>0, <2>2, SMT DEF FailureOK
    <3> QED
      BY <1>0, <2>1, <3>1 DEF FailureOK
  <2>7. CountsOK' /\ FailedOK'
    BY <1>0, <2>1, <2>2, SMT DEF CountsOK, FailedOK
  <2>8. phase' \in Phases
    BY <1>0, <2>1 DEF PhaseOK
  <2> QED
    BY <2>1, <2>3, <2>4, <2>5, <2>6, <2>7, <2>8, <1>c, <1>b, <1>p, <1>f DEF Typed
<1>12. ASSUME NEW u \in Units, GiveUp(u) PROVE Typed'
  <2>1. /\ task' = [task EXCEPT ![u] = "release"] /\ CountFailed(to_delete[u])
        /\ UNCHANGED <<config, original, bucket, phase, entries, to_delete, attempt,
                       had_total_failure, unchecked, unknown, in_flight,
                       current_max_concurrency, deleted_count, cancelled, success>>
    BY <1>12, Zenon DEF GiveUp
  <2>2. TaskOK' /\ TriesOK'
    BY <2>1, <1>m DEF TaskStates
  <2>3. CountsOK' /\ FailedOK'
    <3>1. Cardinality(to_delete[u]) \in Nat /\ to_delete[u] \subseteq Children
      BY <1>0, FiniteSets DEF KeysOK
    <3> QED
      BY <1>0, <2>1, <3>1, SMT DEF CountsOK, FailedOK, CountFailed
  <2>4. phase' \in Phases
    BY <1>0, <2>1 DEF PhaseOK
  <2> QED
    BY <2>1, <2>2, <2>3, <2>4, <1>c, <1>b, <1>p, <1>f, <1>h, <1>k, <1>0, WindowStep DEF Typed
<1>13. ASSUME NEW u \in Units, ReleaseSlot(u) PROVE Typed'
  <2>1. /\ task' = [task EXCEPT ![u] = "notify"]
        /\ UNCHANGED <<config, original, bucket, phase, entries, to_delete, attempt,
                       had_total_failure, unchecked, unknown,
                       current_max_concurrency, deleted_count, failed_count,
                       all_failed, cancelled, success>>
    BY <1>13, Zenon DEF ReleaseSlot
  <2>2. TaskOK' /\ TriesOK'
    BY <2>1, <1>m DEF TaskStates
  <2>3. phase' \in Phases
    BY <1>0, <2>1 DEF PhaseOK
  <2> QED
    BY <2>1, <2>2, <2>3, <1>c, <1>b, <1>p, <1>w, <1>f, <1>h, <1>k, <1>0, WindowStep DEF Typed
<1>14. ASSUME NEW u \in Units, Notify(u) PROVE Typed'
  <2>1. /\ task' = [task EXCEPT ![u] = "done"] /\ phase' = Woken(phase)
        /\ UNCHANGED <<config, original, bucket, entries, to_delete, attempt,
                       had_total_failure, unchecked, unknown, in_flight,
                       current_max_concurrency, deleted_count, failed_count,
                       all_failed, cancelled, success>>
    BY <1>14, Zenon DEF Notify
  <2>2. TaskOK' /\ TriesOK'
    BY <2>1, <1>m DEF TaskStates
  <2>3. phase' \in Phases
    BY <1>0, <2>1, WokenPhase DEF PhaseOK
  <2> QED
    BY <2>1, <2>2, <2>3, <1>c, <1>b, <1>p, <1>w, <1>f, <1>h, <1>k, <1>0, WindowStep DEF Typed
<1>15. CASE UNCHANGED vars
  <2>1. UNCHANGED <<config, original, bucket, phase, entries, task, to_delete, attempt,
                    had_total_failure, unchecked, unknown, in_flight,
                    current_max_concurrency, deleted_count, failed_count,
                    all_failed, cancelled, success>>
    BY <1>15, Zenon DEF vars
  <2>2. phase' \in Phases
    BY <1>0, <2>1 DEF PhaseOK
  <2> QED
    BY <2>1, <2>2, <1>c, <1>b, <1>p, <1>w, <1>f, <1>h, <1>k, <1>t, <1>0, WindowStep DEF Typed
<1> QED
  BY <1>1, <1>2, <1>3, <1>4, <1>5, <1>6, <1>7, <1>8, <1>9, <1>10, <1>11, <1>12, <1>13,
     <1>14, <1>15, NextCases

-----------------------------------------------------------------------------
(* The control of a run.  For it, the step of a task is one of three: the  *)
(* task works on, gives its slot back, or wakes the posting loop.          *)

Works(u, s) ==
    /\ s \in {"deleting", "verify", "count", "release"}
    /\ task[u] \in {"posted", "deleting", "verify", "count"}
    /\ UNCHANGED <<phase, in_flight>>

Releases(u, s) ==
    /\ s = "notify" /\ task[u] = "release"
    /\ in_flight' = in_flight - 1 /\ UNCHANGED phase

Wakes(u, s) ==
    /\ s = "done" /\ task[u] = "notify"
    /\ phase' = Woken(phase) /\ UNCHANGED in_flight

TaskMove(u, s) ==
    /\ task' = [task EXCEPT ![u] = s]
    /\ Works(u, s) \/ Releases(u, s) \/ Wakes(u, s)
    /\ UNCHANGED <<config, original, entries, cancelled, success>>

\* Some task takes a step.
SomeTask ==
    \E u \in Units : \/ BeginTask(u) \/ TryDelete(u) \/ StopTrying(u) \/ VerifyKey(u)
                     \/ GiveUp(u) \/ ReleaseSlot(u) \/ Notify(u)

\* The three forms are all there are.
LEMMA TaskMoves ==
    ASSUME SomeTask PROVE \E u \in Units : \E s : TaskMove(u, s)
<1> USE DEF askedVars, taskVars, windowVars, countVars
<1>0. PICK u \in Units : \/ BeginTask(u) \/ TryDelete(u) \/ StopTrying(u) \/ VerifyKey(u)
                         \/ GiveUp(u) \/ ReleaseSlot(u) \/ Notify(u)
  BY Zenon DEF SomeTask
<1> SUFFICES \E s : TaskMove(u, s)
  BY Zenon
<1>1. CASE BeginTask(u)
  <2>1. task' = [task EXCEPT ![u] = "release"] \/ task' = [task EXCEPT ![u] = "deleting"]
    BY <1>1, Zenon DEF BeginTask
  <2>2. /\ task[u] = "posted"
        /\ UNCHANGED <<phase, in_flight, config, original, entries, cancelled, success>>
    BY <1>1, Zenon DEF BeginTask
  <2> QED
    BY <2>1, <2>2, Zenon DEF TaskMove, Works
<1>2. CASE TryDelete(u)
  <2>1. /\ \/ task' = [task EXCEPT ![u] = "release"] \/ task' = [task EXCEPT ![u] = "deleting"]
           \/ task' = [task EXCEPT ![u] = "verify"] \/ task' = [task EXCEPT ![u] = "count"]
    <3>1. PICK failed : task' = [task EXCEPT ![u] =
                         IF failed = {} THEN "release"
                         ELSE IF attempt[u] < MaxRetries THEN "deleting"
                         ELSE IF had_total_failure'[u] THEN "verify" ELSE "count"]
      BY <1>2, Zenon DEF TryDelete
    <3>2. CASE failed = {}
      BY <3>1, <3>2, Zenon
    <3>3. CASE failed # {} /\ attempt[u] < MaxRetries
      BY <3>1, <3>3, Zenon
    <3>4. CASE failed # {} /\ ~(attempt[u] < MaxRetries) /\ had_total_failure'[u]
      BY <3>1, <3>4, Zenon
    <3>5. CASE failed # {} /\ ~(attempt[u] < MaxRetries) /\ ~had_total_failure'[u]
      BY <3>1, <3>5, Zenon
    <3> QED
      BY <3>2, <3>3, <3>4, <3>5
  <2>2. /\ task[u] = "deleting"
        /\ UNCHANGED <<phase, in_flight, config, original, entries, cancelled, success>>
    BY <1>2, Zenon DEF TryDelete
  <2> QED
    BY <2>1, <2>2, Zenon DEF TaskMove, Works
<1>3. CASE StopTrying(u)
  BY <1>3, Zenon DEF StopTrying, TaskMove, Works
<1>4. CASE VerifyKey(u)
  <2>1. task' = [task EXCEPT ![u] = "count"] \/ task' = [task EXCEPT ![u] = "verify"]
    <3>1. task' = [task EXCEPT ![u] = IF unchecked'[u] = {} THEN "count" ELSE "verify"]
      BY <1>4, Zenon DEF VerifyKey
    <3>2. CASE unchecked'[u] = {}
      BY <3>1, <3>2, Zenon
    <3>3. CASE unchecked'[u] # {}
      BY <3>1, <3>3, Zenon
    <3> QED
      BY <3>2, <3>3
  <2>2. /\ task[u] = "verify"
        /\ UNCHANGED <<phase, in_flight, config, original, entries, cancelled, success>>
    BY <1>4, Zenon DEF VerifyKey
  <2> QED
    BY <2>1, <2>2, Zenon DEF TaskMove, Works
<1>5. CASE GiveUp(u)
  BY <1>5, Zenon DEF GiveUp, TaskMove, Works
<1>6. CASE ReleaseSlot(u)
  BY <1>6, Zenon DEF ReleaseSlot, TaskMove, Releases
<1>7. CASE Notify(u)
  BY <1>7, Zenon DEF Notify, TaskMove, Wakes
<1> QED
  BY <1>0, <1>1, <1>2, <1>3, <1>4, <1>5, <1>6, <1>7

\* A step is one of the resolution, of the posting loop, of a task, a
\* cancellation, or it changes nothing.
LEMMA StepCases ==
    ASSUME [Next]_vars
    PROVE  \/ LookUpSize \/ CheckPresence \/ PeekPrefix \/ DeleteNamed \/ List \/ ListEnds
           \/ NextTask \/ CheckWindow \/ LeaveLoop \/ Drain \/ Finish \/ Cancel
           \/ (\E u \in Units : PostTask(u))
           \/ SomeTask
           \/ UNCHANGED vars
  BY NextCases, Zenon DEF SomeTask

\* The phase stays, or a waiting loop is woken.
LEMMA TaskPhase ==
    ASSUME PhaseOK, NEW u, NEW s, TaskMove(u, s)
    PROVE  /\ phase \in Resolving \cup {"post", "finished"}
                 \/ phase' \in Resolving \cup {"post", "finished"} => phase' = phase
           /\ phase \in Posting <=> phase' \in Posting
           /\ phase' \in {"drain", "draining"} => phase \in {"drain", "draining"}
<1>1. CASE phase' = phase
  BY <1>1
<1>2. CASE phase' = Woken(phase)
  <2>1. phase \in Phases
    BY DEF PhaseOK
  <2> QED
    BY <1>2, <2>1, WokenPhase
<1> QED
  BY <1>1, <1>2 DEF TaskMove, Works, Releases, Wakes

\* A task takes a step only when something was listed.
LEMMA TaskHasEntries ==
    ASSUME TaskOK, TasksSound, NEW u \in Units, NEW s, TaskMove(u, s)
    PROVE  entries # {} /\ task[u] # "unposted" /\ s # "unposted"
<1>1. task[u] # "unposted" /\ s # "unposted"
  BY SMT DEF TaskMove, Works, Releases, Wakes
<1> QED
  BY <1>1 DEF TasksSound

\* What is known of the name stays true.
LEMMA ResolvedStep ==
    ASSUME Typed, Resolved, ListingSound, TasksSound, [Next]_vars
    PROVE  Resolved'
<1> USE DEF askedVars, taskVars, windowVars, countVars
<1>0. ConfigOK /\ BucketOK /\ PhaseOK /\ TaskOK
  BY DEF Typed
<1>r. ASSUME NEW ok, Return(ok) PROVE Resolved'
  <2>1. phase' = "finished"
    BY <1>r, ReturnStep
  <2> QED
    BY <2>1, SMT DEF Resolved, Resolving
<1>g. ASSUME phase \in Resolving, NEW p, GoTo(p),
             p = "file" => Named \in original,
             p \in {"peek", "list"} => Named \notin original
      PROVE  Resolved'
  <2>1. /\ phase' = p
        /\ UNCHANGED <<bucket, original, entries, success, deleted_count, failed_count,
                       all_failed>>
    BY <1>g, GoToStep
  <2> QED
    BY <1>g, <2>1, Zenon DEF Resolved
<1>p. ASSUME phase' \notin Resolving PROVE Resolved'
  BY <1>p, SMT DEF Resolved, Resolving
<1>1. CASE LookUpSize
  <2>1. phase \in Resolving /\ bucket = original
    BY <1>1, SMT DEF LookUpSize, Resolving, Resolved
  <2>2. (Named \in original /\ GoTo("file")) \/ GoTo("presence")
    BY <1>1, <2>1, Zenon DEF LookUpSize
  <2> QED
    BY <2>1, <2>2, <1>g
<1>2. CASE CheckPresence
  <2>1. phase \in Resolving /\ bucket = original
    BY <1>2, SMT DEF CheckPresence, Resolving, Resolved
  <2>2. \/ Named \in original /\ GoTo("file")
        \/ Named \notin original /\ GoTo("peek")
        \/ Return(FALSE)
    BY <1>2, <2>1, Zenon DEF CheckPresence
  <2> QED
    BY <2>1, <2>2, <1>g, <1>r
<1>3. CASE PeekPrefix
  <2>1. phase \in Resolving /\ Named \notin original
    BY <1>3, SMT DEF PeekPrefix, Resolving, Resolved
  <2>2. GoTo("list") \/ Return(FALSE)
    BY <1>3, Zenon DEF PeekPrefix
  <2> QED
    BY <2>1, <2>2, <1>g, <1>r
<1>4. CASE DeleteNamed \/ ListEnds
  BY <1>4, <1>r, Zenon DEF DeleteNamed, ListEnds
<1>5. CASE List \/ (\E u \in Units : PostTask(u)) \/ Finish
  <2>1. phase' \in {"next", "finished"}
    BY <1>5, Zenon DEF List, PostTask, Finish
  <2> QED
    BY <2>1, <1>p, SMT DEF Resolving
<1>6. CASE NextTask \/ CheckWindow \/ LeaveLoop \/ Drain
  <2>1. PICK p \in {"drain", "check", "post", "waiting", "draining"} : GoTo(p)
    BY <1>6, LoopStep
  <2>2. phase' = p
    BY <2>1, GoToStep
  <2> QED
    BY <2>2, <1>p, SMT DEF Resolving
<1>7. CASE SomeTask
  <2>1. PICK u \in Units : \E s : TaskMove(u, s)
    BY <1>7, TaskMoves
  <2>2. PICK s : TaskMove(u, s)
    BY <2>1
  <2>3. entries # {}
    BY <1>0, <2>2, TaskHasEntries
  <2>4. phase \notin Resolving
    BY <2>3 DEF Resolved
  <2>5. phase' \notin Resolving
    BY <1>0, <2>2, <2>4, TaskPhase
  <2> QED
    BY <2>5, <1>p
<1>8. CASE Cancel \/ UNCHANGED vars
  <2>1. UNCHANGED <<phase, bucket, original, entries, success, deleted_count, failed_count,
                    all_failed>>
    BY <1>8, Zenon DEF Cancel, vars
  <2> QED
    BY <2>1, Zenon DEF Resolved
<1> QED
  BY <1>1, <1>2, <1>3, <1>4, <1>5, <1>6, <1>7, <1>8, StepCases

\* What was listed stays what was asked for.
LEMMA ListingStep ==
    ASSUME Typed, Resolved, ListingSound, TasksSound, [Next]_vars
    PROVE  ListingSound'
<1> USE DEF askedVars, taskVars, windowVars, countVars
<1>0. ConfigOK /\ BucketOK /\ PhaseOK /\ TaskOK
  BY DEF Typed
<1>u. ASSUME UNCHANGED <<config, original, entries>>, phase' \in Posting => phase \in Posting
      PROVE  ListingSound'
  BY <1>u, Zenon DEF ListingSound
<1>r. ASSUME NEW ok, Return(ok) PROVE ListingSound'
  <2>1. phase' \notin Posting
    BY <1>r, ReturnStep, SMT DEF Posting
  <2> QED
    BY <1>r, <2>1, ReturnStep, <1>u
<1>1. CASE LookUpSize \/ CheckPresence \/ PeekPrefix \/ ListEnds
  <2>1. ASSUME NEW p \in {"file", "presence", "peek", "list"}, GoTo(p) PROVE ListingSound'
    <3>1. phase' \notin Posting
      BY <2>1, GoToStep, SMT DEF Posting
    <3> QED
      BY <2>1, <3>1, GoToStep, <1>u
  <2> QED
    BY <1>1, <2>1, <1>r, LookStep
<1>2. CASE DeleteNamed
  BY <1>2, <1>r, Zenon DEF DeleteNamed
<1>3. CASE List
  <2>1. bucket = original /\ Named \notin original
    BY <1>3, SMT DEF List, Resolved, Resolving
  <2>2. /\ config.recursive /\ config.force /\ bucket \cap Children # {}
        /\ entries' = bucket \cap Children /\ UNCHANGED <<config, original>>
    BY <1>3, Zenon DEF List
  <2> QED
    BY <2>1, <2>2, Zenon DEF ListingSound
<1>4. CASE NextTask \/ CheckWindow \/ LeaveLoop \/ Drain
  BY <1>4, LoopStep, GoToStep, <1>u, Zenon
<1>5. CASE \E u \in Units : PostTask(u)
  <2>1. phase = "post" /\ UNCHANGED <<config, original, entries>>
    BY <1>5, Zenon DEF PostTask
  <2>2. phase \in Posting
    BY <2>1, SMT DEF Posting
  <2> QED
    BY <2>1, <2>2, <1>u
<1>6. CASE Finish
  <2>1. phase' = "finished" /\ UNCHANGED <<config, original, entries>>
    BY <1>6, Zenon DEF Finish
  <2>2. phase' \notin Posting
    BY <2>1, SMT DEF Posting
  <2> QED
    BY <2>1, <2>2, <1>u
<1>7. CASE SomeTask
  <2>1. PICK u \in Units : \E s : TaskMove(u, s)
    BY <1>7, TaskMoves
  <2>2. PICK s : TaskMove(u, s)
    BY <2>1
  <2>3. UNCHANGED <<config, original, entries>>
    BY <2>2 DEF TaskMove
  <2> QED
    BY <1>0, <2>2, <2>3, TaskPhase, <1>u
<1>8. CASE Cancel \/ UNCHANGED vars
  <2>1. UNCHANGED <<phase, config, original, entries>>
    BY <1>8, Zenon DEF Cancel, vars
  <2> QED
    BY <2>1, <1>u
<1> QED
  BY <1>1, <1>2, <1>3, <1>4, <1>5, <1>6, <1>7, <1>8, StepCases

\* A task that was posted is never unposted again: Unposted only shrinks.
LEMMA UnpostedShrinks ==
    ASSUME TaskOK, UNCHANGED <<config, entries>>, NEW u \in Units, NEW s, s # "unposted",
           task' = [task EXCEPT ![u] = s]
    PROVE  Unposted' \subseteq Unposted
<1>1. \A v \in Units : KeysOf(v)' = KeysOf(v)
  BY DEF KeysOf
<1>2. \A v \in Units : task'[v] = IF v = u THEN s ELSE task[v]
  BY SMT DEF TaskOK
<1> QED
  BY <1>1, <1>2 DEF Unposted

\* Unposted depends on the tasks and on what was listed.
LEMMA UnpostedFixed ==
    ASSUME UNCHANGED <<config, entries, task>> PROVE Unposted' = Unposted
  BY DEF Unposted, KeysOf

\* The loop is left when everything was posted.
LEMMA PostedStep ==
    ASSUME Typed, Resolved, ListingSound, TasksSound, AllPosted, [Next]_vars
    PROVE  AllPosted'
<1> USE DEF askedVars, taskVars, windowVars, countVars
<1>0. ConfigOK /\ PhaseOK /\ TaskOK
  BY DEF Typed
<1>p. ASSUME phase' \notin {"drain", "draining", "finished"} \/ entries' = {} \/ cancelled'
             \/ Unposted' = {}
      PROVE  AllPosted'
  BY <1>p, Zenon DEF AllPosted
<1>u. ASSUME UNCHANGED <<config, entries, task, cancelled>>,
             phase \in {"drain", "draining", "finished"}
      PROVE  AllPosted'
  <2>1. Unposted' = Unposted
    BY <1>u, UnpostedFixed
  <2> QED
    BY <1>u, <2>1, Zenon DEF AllPosted
<1>1. CASE LookUpSize \/ CheckPresence \/ PeekPrefix \/ ListEnds \/ DeleteNamed
  <2>1. phase \in Resolving
    BY <1>1, LookStep, Zenon DEF DeleteNamed, Resolving
  <2>2. entries' = entries
    <3>1. CASE DeleteNamed
      BY <3>1, ReturnStep, Zenon DEF DeleteNamed
    <3>2. CASE ~DeleteNamed
      BY <1>1, <3>2, LookStep, GoToStep, ReturnStep, Zenon
    <3> QED
      BY <3>1, <3>2
  <2> QED
    BY <2>1, <2>2, <1>p DEF Resolved
<1>2. CASE List \/ (\E u \in Units : PostTask(u))
  <2>1. phase' = "next"
    BY <1>2, Zenon DEF List, PostTask
  <2> QED
    BY <2>1, <1>p, SMT
<1>3. CASE NextTask
  <2>1. CASE cancelled
    BY <1>3, <2>1, GoToStep, <1>p, Zenon DEF NextTask
  <2>2. CASE ~cancelled /\ Unposted = {}
    <3>1. UNCHANGED <<config, entries, task>>
      BY <1>3, GoToStep, Zenon DEF NextTask
    <3> QED
      BY <2>2, <3>1, UnpostedFixed, <1>p
  <2>3. CASE ~cancelled /\ Unposted # {}
    <3>1. phase' = "check"
      BY <1>3, <2>3, GoToStep, Zenon DEF NextTask
    <3> QED
      BY <3>1, <1>p, SMT
  <2> QED
    BY <2>1, <2>2, <2>3
<1>4. CASE CheckWindow
  <2>1. phase' \in {"post", "waiting"}
    <3>1. GoTo("post") \/ GoTo("waiting")
      BY <1>4, Zenon DEF CheckWindow
    <3> QED
      BY <3>1, GoToStep
  <2> QED
    BY <2>1, <1>p, SMT
<1>5. CASE LeaveLoop
  BY <1>5, GoToStep, <1>p, Zenon DEF LeaveLoop
<1>6. CASE Drain
  BY <1>6, GoToStep, <1>u, Zenon DEF Drain
<1>7. CASE Finish
  BY <1>7, <1>u, Zenon DEF Finish
<1>8. CASE SomeTask
  <2>1. PICK u \in Units : \E s : TaskMove(u, s)
    BY <1>8, TaskMoves
  <2>2. PICK s : TaskMove(u, s)
    BY <2>1
  <2>3. UNCHANGED <<config, entries, cancelled>> /\ task' = [task EXCEPT ![u] = s]
    BY <2>2 DEF TaskMove
  <2>4. Unposted' \subseteq Unposted
    BY <1>0, <2>2, <2>3, TaskHasEntries, UnpostedShrinks
  <2>5. phase' \in {"drain", "draining", "finished"} => phase \in {"drain", "draining", "finished"}
    BY <1>0, <2>2, TaskPhase, Zenon
  <2> QED
    BY <2>3, <2>4, <2>5 DEF AllPosted
<1>9. CASE Cancel
  BY <1>9, <1>p, Zenon DEF Cancel
<1>10. CASE UNCHANGED vars
  <2>1. UNCHANGED <<config, entries, task, cancelled, phase>>
    BY <1>10, Zenon DEF vars
  <2> QED
    BY <2>1, <1>u, <1>p
<1> QED
  BY <1>1, <1>2, <1>3, <1>4, <1>5, <1>6, <1>7, <1>8, <1>9, <1>10, StepCases

\* What a step of a task does to the tasks that hold a slot.
LEMMA BusyMove ==
    ASSUME TaskOK, NEW u \in Units, NEW s, TaskMove(u, s)
    PROVE  /\ Works(u, s) \/ Wakes(u, s) => Busy' = Busy
           /\ Works(u, s) \/ Releases(u, s) => u \in Busy
           /\ Releases(u, s) => Busy' = Busy \ {u}
<1>1. \A v \in Units : task'[v] = IF v = u THEN s ELSE task[v]
  BY SMT DEF TaskOK, TaskMove
<1>2. Works(u, s) => /\ task[u] \in {"posted", "deleting", "verify", "count", "release"}
                     /\ s \in {"posted", "deleting", "verify", "count", "release"}
  BY SMT DEF Works
<1>3. Wakes(u, s) => /\ task[u] \notin {"posted", "deleting", "verify", "count", "release"}
                     /\ s \notin {"posted", "deleting", "verify", "count", "release"}
  BY SMT DEF Wakes
<1>4. Releases(u, s) => /\ task[u] \in {"posted", "deleting", "verify", "count", "release"}
                        /\ s \notin {"posted", "deleting", "verify", "count", "release"}
  BY SMT DEF Releases
<1>5. Works(u, s) \/ Wakes(u, s) => Busy' = Busy
  BY <1>1, <1>2, <1>3 DEF Busy
<1>6. Works(u, s) \/ Releases(u, s) => u \in Busy
  BY <1>2, <1>4 DEF Busy
<1>7. Releases(u, s) => Busy' = Busy \ {u}
  BY <1>1, <1>4 DEF Busy
<1> QED
  BY <1>5, <1>6, <1>7

\* The tasks that hold a slot are finitely many.
LEMMA BusyFinite == IsFiniteSet(Busy) /\ Cardinality(Busy) \in Nat
<1>1. Busy \subseteq Units
  BY DEF Busy
<1> QED
  BY <1>1, FiniteSets, FS_Subset, FS_CardinalityType

\* in_flight is the number of tasks that hold a slot, and within the threads.
LEMMA InFlightStep ==
    ASSUME Typed, Resolved, TasksSound, InFlightSound, [Next]_vars
    PROVE  InFlightSound'
<1> USE DEF askedVars, taskVars, windowVars, countVars
<1>0. PhaseOK /\ TaskOK /\ WindowOK
  BY DEF Typed
<1>n. IsFiniteSet(Busy) /\ Cardinality(Busy) \in Nat /\ MaxThreads \in Nat
  BY BusyFinite
<1>i. /\ in_flight = Cardinality(Busy) /\ in_flight \in 0..MaxThreads
      /\ phase = "post" /\ ~cancelled => in_flight < MaxThreads
  BY DEF InFlightSound, FlightOK
<1>u. ASSUME UNCHANGED <<task, in_flight>>,
             phase' = "post" /\ ~cancelled' => in_flight < MaxThreads
      PROVE  InFlightSound'
  <2>1. Busy' = Busy
    BY <1>u DEF Busy
  <2> QED
    BY <1>i, <1>u, <2>1 DEF InFlightSound, FlightOK
<1>1. CASE LookUpSize \/ CheckPresence \/ PeekPrefix \/ ListEnds
  <2>1. ASSUME NEW p \in {"file", "presence", "peek", "list"}, GoTo(p) PROVE InFlightSound'
    <3>1. phase' # "post"
      BY <2>1, GoToStep, SMT
    <3> QED
      BY <2>1, <3>1, GoToStep, <1>u
  <2>2. ASSUME NEW ok, Return(ok) PROVE InFlightSound'
    <3>1. phase' # "post"
      BY <2>2, ReturnStep, SMT
    <3> QED
      BY <2>2, <3>1, ReturnStep, <1>u
  <2> QED
    BY <1>1, <2>1, <2>2, LookStep
<1>2. CASE DeleteNamed
  <2>1. PICK ok : Return(ok)
    BY <1>2, Zenon DEF DeleteNamed
  <2>2. phase' # "post"
    BY <2>1, ReturnStep, SMT
  <2> QED
    BY <2>1, <2>2, ReturnStep, <1>u
<1>3. CASE List \/ Finish
  <2>1. phase' \in {"next", "finished"} /\ UNCHANGED <<task, in_flight>>
    BY <1>3, Zenon DEF List, Finish
  <2>2. phase' # "post"
    BY <2>1, SMT
  <2> QED
    BY <2>1, <2>2, <1>u
<1>4. CASE NextTask \/ LeaveLoop \/ Drain
  <2>1. GoTo("drain") \/ GoTo("check") \/ GoTo("draining")
    BY <1>4, Zenon DEF NextTask, LeaveLoop, Drain
  <2>2. phase' # "post"
    BY <2>1, GoToStep, SMT
  <2> QED
    BY <2>1, <2>2, GoToStep, <1>u
<1>5. CASE CheckWindow
  <2>1. CASE in_flight < current_max_concurrency \/ cancelled
    <3>1. UNCHANGED <<task, in_flight, cancelled>>
      BY <1>5, GoToStep, Zenon DEF CheckWindow
    <3>2. in_flight < current_max_concurrency => in_flight < MaxThreads
      BY <1>0, <1>i, SMT DEF WindowOK
    <3> QED
      BY <2>1, <3>1, <3>2, <1>u
  <2>2. CASE ~(in_flight < current_max_concurrency \/ cancelled)
    <3>1. GoTo("waiting")
      BY <1>5, <2>2, Zenon DEF CheckWindow
    <3>2. phase' # "post"
      BY <3>1, GoToStep, SMT
    <3> QED
      BY <3>1, <3>2, GoToStep, <1>u
  <2> QED
    BY <2>1, <2>2
<1>6. ASSUME NEW u \in Units, PostTask(u) PROVE InFlightSound'
  <2>1. /\ phase = "post" /\ ~cancelled /\ u \in Unposted /\ phase' = "next"
        /\ in_flight' = in_flight + 1 /\ task' = [task EXCEPT ![u] = "posted"]
    BY <1>6, Zenon DEF PostTask
  <2>2. u \notin Busy
    BY <2>1, SMT DEF Unposted, Busy
  <2>3. Busy' = Busy \cup {u}
    <3>1. \A v \in Units : task'[v] = IF v = u THEN "posted" ELSE task[v]
      BY <1>0, <2>1, SMT DEF TaskOK
    <3> QED
      BY <3>1 DEF Busy
  <2>4. Cardinality(Busy') = Cardinality(Busy) + 1
    BY <1>n, <2>2, <2>3, FS_AddElement
  <2>5. phase' # "post"
    BY <2>1, SMT
  <2>6. in_flight' \in 0..MaxThreads
    BY <1>i, <1>n, <2>1, SMT
  <2> QED
    BY <1>i, <2>1, <2>4, <2>5, <2>6 DEF InFlightSound, FlightOK
<1>7. CASE SomeTask
  <2>1. PICK u \in Units : \E s : TaskMove(u, s)
    BY <1>7, TaskMoves
  <2>2. PICK s : TaskMove(u, s)
    BY <2>1
  <2>3. phase' = "post" => phase = "post"
    BY <1>0, <2>2, TaskPhase, Zenon
  <2>4. cancelled' = cancelled
    BY <2>2 DEF TaskMove
  <2>5. CASE Works(u, s) \/ Wakes(u, s)
    <3>1. Busy' = Busy
      BY <1>0, <2>2, <2>5, BusyMove
    <3>2. in_flight' = in_flight
      BY <2>5 DEF Works, Wakes
    <3> QED
      BY <1>i, <2>3, <2>4, <3>1, <3>2 DEF InFlightSound, FlightOK
  <2>6. CASE Releases(u, s)
    <3>1. u \in Busy /\ Busy' = Busy \ {u}
      BY <1>0, <2>2, <2>6, BusyMove
    <3>2. in_flight' = in_flight - 1 /\ phase' = phase
      BY <2>6 DEF Releases
    <3>3. Cardinality(Busy') = Cardinality(Busy) - 1 /\ Cardinality(Busy') \in Nat
      BY <1>n, <3>1, FS_RemoveElement, BusyFinite, FS_CardinalityType
    <3>4. in_flight' \in 0..MaxThreads /\ in_flight' < MaxThreads
      BY <1>i, <1>n, <3>2, <3>3, SMT
    <3> QED
      BY <1>i, <3>2, <3>3, <3>4 DEF InFlightSound, FlightOK
  <2> QED
    BY <2>2, <2>5, <2>6 DEF TaskMove
<1>8. CASE Cancel
  BY <1>8, <1>u, Zenon DEF Cancel
<1>9. CASE UNCHANGED vars
  <2>1. UNCHANGED <<task, in_flight, phase, cancelled>>
    BY <1>9, Zenon DEF vars
  <2> QED
    BY <2>1, <1>u, <1>i
<1> QED
  BY <1>1, <1>2, <1>3, <1>4, <1>5, <1>6, <1>7, <1>8, <1>9, StepCases

\* A run that ends has no task that holds a slot.
LEMMA FinishStep ==
    ASSUME Typed, Resolved, TasksSound, InFlightSound, FinishSound, [Next]_vars
    PROVE  FinishSound'
<1> USE DEF askedVars, taskVars, windowVars, countVars
<1>0. PhaseOK /\ TaskOK
  BY DEF Typed
<1>u. ASSUME UNCHANGED task, phase' = "finished" => Busy = {} PROVE FinishSound'
  <2>1. Busy' = Busy
    BY <1>u DEF Busy
  <2> QED
    BY <1>u, <2>1 DEF FinishSound
<1>1. CASE LookUpSize \/ CheckPresence \/ PeekPrefix \/ ListEnds \/ DeleteNamed
  <2>1. phase \in Resolving
    BY <1>1, LookStep, Zenon DEF DeleteNamed, Resolving
  <2>2. task' = task
    <3>1. CASE DeleteNamed
      BY <3>1, ReturnStep, Zenon DEF DeleteNamed
    <3>2. CASE ~DeleteNamed
      BY <1>1, <3>2, LookStep, GoToStep, ReturnStep, Zenon
    <3> QED
      BY <3>1, <3>2
  <2>3. \A u \in Units : task[u] = "unposted"
    BY <2>1 DEF Resolved, TasksSound
  <2>4. Busy = {}
    BY <2>3, SMT DEF Busy
  <2> QED
    BY <2>2, <2>4, <1>u
<1>2. CASE List \/ (\E u \in Units : PostTask(u))
  <2>1. phase' = "next"
    BY <1>2, Zenon DEF List, PostTask
  <2> QED
    BY <2>1, SMT DEF FinishSound
<1>3. CASE NextTask \/ CheckWindow \/ LeaveLoop \/ Drain
  <2>1. PICK p \in {"drain", "check", "post", "waiting", "draining"} : GoTo(p)
    BY <1>3, LoopStep
  <2>2. phase' # "finished"
    BY <2>1, GoToStep, SMT
  <2> QED
    BY <2>2 DEF FinishSound
<1>4. CASE Finish
  <2>1. in_flight = 0 /\ task' = task
    BY <1>4, Zenon DEF Finish
  <2>2. Busy = {}
    BY <2>1, BusyFinite, FS_EmptySet DEF InFlightSound
  <2> QED
    BY <2>1, <2>2, <1>u
<1>5. CASE SomeTask
  <2>1. PICK u \in Units : \E s : TaskMove(u, s)
    BY <1>5, TaskMoves
  <2>2. PICK s : TaskMove(u, s)
    BY <2>1
  <2>3. phase' = "finished" => phase = "finished"
    BY <1>0, <2>2, TaskPhase, Zenon
  <2>4. ASSUME phase = "finished" PROVE Busy' = {}
    <3>1. Busy = {}
      BY <2>4 DEF FinishSound
    <3>2. ~Works(u, s) /\ ~Releases(u, s)
      BY <1>0, <2>2, <3>1, BusyMove
    <3>3. Wakes(u, s)
      BY <2>2, <3>2 DEF TaskMove
    <3> QED
      BY <1>0, <2>2, <3>1, <3>3, BusyMove
  <2> QED
    BY <2>3, <2>4 DEF FinishSound
<1>6. CASE Cancel \/ UNCHANGED vars
  <2>1. UNCHANGED <<task, phase>>
    BY <1>6, Zenon DEF Cancel, vars
  <2> QED
    BY <2>1, <1>u DEF FinishSound
<1> QED
  BY <1>1, <1>2, <1>3, <1>4, <1>5, <1>6, StepCases

-----------------------------------------------------------------------------
(* The keys.                                                               *)

\* The keys of a task, and the target, are fixed once the listing is done.
LEMMA KeysFixed ==
    ASSUME UNCHANGED <<config, entries>>
    PROVE  (\A u : KeysOf(u)' = KeysOf(u)) /\ (\A k : UnitOf(k)' = UnitOf(k))
  BY DEF KeysOf, UnitOf

\* The target depends on what was asked for and on what there was.
LEMMA TargetFixed ==
    ASSUME UNCHANGED <<config, original>> PROVE Target' = Target
  BY DEF Target

\* What becomes of the open keys when one task moves.
LEMMA OpenMove ==
    ASSUME PhaseOK, TaskOK, KeysOK, UNCHANGED <<config, entries>>,
           NEW u \in Units, NEW s, NEW ks, task' = [task EXCEPT ![u] = s],
           to_delete' = [to_delete EXCEPT ![u] = ks]
    PROVE  Open' = {k \in entries :
                       IF UnitOf(k) = u
                       THEN \/ s \in {"unposted", "posted"}
                            \/ s \in {"deleting", "verify", "count"} /\ k \in ks
                       ELSE k \in Open}
<1>1. \A v \in Units : /\ task'[v] = IF v = u THEN s ELSE task[v]
                       /\ to_delete'[v] = IF v = u THEN ks ELSE to_delete[v]
  BY SMT DEF TaskOK, KeysOK
<1>2. \A k \in entries : UnitOf(k) \in Units /\ UnitOf(k)' = UnitOf(k)
  BY KeyInOneBatch, KeysFixed
<1>3. Open' = {k \in entries : \/ task'[UnitOf(k)] \in {"unposted", "posted"}
                               \/ /\ task'[UnitOf(k)] \in {"deleting", "verify", "count"}
                                  /\ k \in to_delete'[UnitOf(k)]}
  BY <1>2, Zenon DEF Open
<1>4. \A k \in entries :
         (\/ task'[UnitOf(k)] \in {"unposted", "posted"}
          \/ /\ task'[UnitOf(k)] \in {"deleting", "verify", "count"}
             /\ k \in to_delete'[UnitOf(k)])
         <=> IF UnitOf(k) = u
             THEN \/ s \in {"unposted", "posted"}
                  \/ s \in {"deleting", "verify", "count"} /\ k \in ks
             ELSE k \in Open
  <2> SUFFICES ASSUME NEW k \in entries
               PROVE  (\/ task'[UnitOf(k)] \in {"unposted", "posted"}
                       \/ /\ task'[UnitOf(k)] \in {"deleting", "verify", "count"}
                          /\ k \in to_delete'[UnitOf(k)])
                      <=> IF UnitOf(k) = u
                          THEN \/ s \in {"unposted", "posted"}
                               \/ s \in {"deleting", "verify", "count"} /\ k \in ks
                          ELSE k \in Open
    OBVIOUS
  <2>1. CASE UnitOf(k) = u
    BY <1>1, <1>2, <2>1, Zenon
  <2>2. CASE UnitOf(k) # u
    <3>1. task'[UnitOf(k)] = task[UnitOf(k)] /\ to_delete'[UnitOf(k)] = to_delete[UnitOf(k)]
      BY <1>1, <1>2, <2>2
    <3> QED
      BY <2>2, <3>1, Zenon DEF Open
  <2> QED
    BY <2>1, <2>2
<1> QED
  BY <1>3, <1>4

\* Open keys that are settled are counted once: as failed and named, or as
\* deleted and gone.
LEMMA Settling ==
    ASSUME PhaseOK, Settled, entries # {}, UNCHANGED entries,
           NEW gone, gone \subseteq Open, Open' = Open \ gone, bucket' \subseteq bucket,
           \/ /\ UNCHANGED <<failed_count, all_failed>>
              /\ deleted_count' = deleted_count + Cardinality(gone)
              /\ gone \cap bucket' = {}
           \/ /\ failed_count' = failed_count + Cardinality(gone)
              /\ all_failed' = all_failed \cup gone
              /\ UNCHANGED deleted_count
    PROVE  Settled'
<1>0. /\ all_failed \subseteq entries \ Open
      /\ failed_count = Cardinality(all_failed)
      /\ deleted_count = Cardinality(Confirmed)
      /\ Confirmed \cap bucket = {}
  BY DEF Settled
<1>1. Open \subseteq entries /\ Confirmed \subseteq entries /\ Confirmed \cap Open = {}
  BY DEF Open, Confirmed
<1>2. /\ IsFiniteSet(gone) /\ IsFiniteSet(Confirmed) /\ IsFiniteSet(all_failed)
      /\ Cardinality(gone) \in Nat /\ Cardinality(Confirmed) \in Nat
      /\ Cardinality(all_failed) \in Nat
  BY <1>0, <1>1, FiniteSets DEF PhaseOK
<1>3. Confirmed' = entries \ ((Open \ gone) \cup all_failed')
  BY DEF Confirmed
<1>4. CASE /\ UNCHANGED <<failed_count, all_failed>>
           /\ deleted_count' = deleted_count + Cardinality(gone)
           /\ gone \cap bucket' = {}
  <2>1. Confirmed' = Confirmed \cup gone /\ Confirmed \cap gone = {}
    BY <1>0, <1>1, <1>3, <1>4 DEF Confirmed
  <2>2. Cardinality(Confirmed \cup gone) = Cardinality(Confirmed) + Cardinality(gone)
    <3>1. Cardinality(Confirmed \cap gone) = 0
      BY <2>1, FS_EmptySet
    <3>2. Cardinality(Confirmed \cup gone)
             = Cardinality(Confirmed) + Cardinality(gone) - Cardinality(Confirmed \cap gone)
      BY <1>2, FS_Union
    <3> QED
      BY <1>2, <3>1, <3>2
  <2>3. deleted_count' = Cardinality(Confirmed')
    BY <1>0, <1>4, <2>1, <2>2
  <2>4. Confirmed' \cap bucket' = {}
    BY <1>0, <1>4, <2>1
  <2>5. all_failed' \subseteq entries' \ Open'
    BY <1>0, <1>4
  <2> QED
    BY <1>0, <1>4, <2>3, <2>4, <2>5 DEF Settled
<1>5. CASE /\ failed_count' = failed_count + Cardinality(gone)
           /\ all_failed' = all_failed \cup gone
           /\ UNCHANGED deleted_count
  <2>1. Confirmed' = Confirmed /\ all_failed \cap gone = {}
    BY <1>0, <1>1, <1>3, <1>5 DEF Confirmed
  <2>2. Cardinality(all_failed \cup gone) = Cardinality(all_failed) + Cardinality(gone)
    <3>1. Cardinality(all_failed \cap gone) = 0
      BY <2>1, FS_EmptySet
    <3>2. Cardinality(all_failed \cup gone)
             = Cardinality(all_failed) + Cardinality(gone) - Cardinality(all_failed \cap gone)
      BY <1>2, FS_Union
    <3> QED
      BY <1>2, <3>1, <3>2
  <2>3. all_failed' \subseteq entries' \ Open'
    BY <1>0, <1>1, <1>5
  <2>4. Confirmed' \cap bucket' = {}
    BY <1>0, <2>1
  <2> QED
    BY <1>0, <1>5, <2>1, <2>2, <2>3, <2>4 DEF Settled
<1> QED
  BY <1>4, <1>5

\* The keys that a task works on are open, and part of the target.
LEMMA WorkIsOpen ==
    ASSUME PhaseOK, ListingSound, TasksSound, entries # {}, NEW u \in Units
    PROVE  /\ KeysOf(u) \subseteq entries /\ to_delete[u] \subseteq entries
           /\ entries \subseteq Target
           /\ \A k \in to_delete[u] : UnitOf(k) = u
           /\ task[u] \in {"deleting", "verify", "count"} => to_delete[u] \subseteq Open
           /\ task[u] \in {"unposted", "posted"} => KeysOf(u) \subseteq Open
<1>1. KeysOf(u) \subseteq entries /\ to_delete[u] \subseteq entries
  BY DEF KeysOf, TasksSound
<1>2. entries \subseteq Target
  BY DEF ListingSound, Target
<1>3. (\A k \in to_delete[u] : UnitOf(k) = u) /\ (\A k \in KeysOf(u) : UnitOf(k) = u)
  BY <1>1, KeyInOneBatch DEF TasksSound
<1>4. task[u] \in {"deleting", "verify", "count"} => to_delete[u] \subseteq Open
  BY <1>1, <1>3, Zenon DEF Open
<1>5. task[u] \in {"unposted", "posted"} => KeysOf(u) \subseteq Open
  BY <1>1, <1>3, Zenon DEF Open
<1> QED
  BY <1>1, <1>2, <1>3, <1>4, <1>5

\* What the proof is about, for the keys.
KeysSound == TasksSound /\ Settled /\ OnlyTarget

\* A step that leaves tasks, keys, bucket and counts alone.
LEMMA KeysFrame ==
    ASSUME KeysSound,
           UNCHANGED <<config, original, bucket, entries, task, to_delete, unchecked,
                       deleted_count, failed_count, all_failed>>
    PROVE  KeysSound'
<1>1. \A u : KeysOf(u)' = KeysOf(u)
  BY KeysFixed
<1>2. TasksSound'
  BY <1>1 DEF KeysSound, TasksSound
<1>3. Open' = Open /\ Confirmed' = Confirmed
  BY KeysFixed DEF Open, Confirmed
<1>4. Settled'
  BY <1>3 DEF KeysSound, Settled
<1>5. OnlyTarget'
  BY TargetFixed DEF KeysSound, OnlyTarget
<1> QED
  BY <1>2, <1>4, <1>5 DEF KeysSound

\* The step of a task that settles the keys in gone, the rest of its keys are ks
\* and it goes on to s.
Settles(u, s, ks, gone) ==
    /\ task' = [task EXCEPT ![u] = s] /\ to_delete' = [to_delete EXCEPT ![u] = ks]
    /\ \/ unchecked' = [unchecked EXCEPT ![u] = ks]
       \/ \E k \in unchecked[u] : /\ unchecked' = [unchecked EXCEPT ![u] = @ \ {k}]
                                  /\ ks = to_delete[u] \/ ks = to_delete[u] \ {k}
       \/ unchecked' = unchecked /\ to_delete[u] \subseteq ks
    /\ \/ /\ UNCHANGED <<failed_count, all_failed>>
          /\ deleted_count' = deleted_count + Cardinality(gone)
          /\ gone \cap bucket' = {}
       \/ /\ failed_count' = failed_count + Cardinality(gone)
          /\ all_failed' = all_failed \cup gone
          /\ UNCHANGED deleted_count
    /\ bucket' \subseteq bucket
    /\ bucket \ bucket' \subseteq to_delete[u]
    /\ s # "unposted"
    /\ UNCHANGED <<config, original, entries>>

\* The open keys before and after such a step.
Leaves(u, s, ks, gone) ==
    /\ ks \subseteq KeysOf(u) /\ gone \subseteq Open
    /\ \A k \in entries :
          UnitOf(k) = u =>
             ((\/ s \in {"unposted", "posted"}
               \/ s \in {"deleting", "verify", "count"} /\ k \in ks)
              <=> k \in Open \ gone)
    /\ \A k \in gone : UnitOf(k) = u

\* The keys of the other tasks are not touched, and those of the task are
\* counted once.
LEMMA SettlesStep ==
    ASSUME Typed, ListingSound, KeysSound, entries # {}, NEW u \in Units, NEW s, NEW ks,
           NEW gone, Settles(u, s, ks, gone), Leaves(u, s, ks, gone)
    PROVE  KeysSound'
<1>0. PhaseOK /\ TaskOK /\ KeysOK
  BY DEF Typed
<1>1. TasksSound'
  <2>1. \A v \in Units : KeysOf(v)' = KeysOf(v)
    BY KeysFixed DEF Settles
  <2>2. \A v \in Units : to_delete'[v] \subseteq KeysOf(v)
    BY <1>0, SMT DEF Settles, Leaves, KeysSound, TasksSound, KeysOK
  <2>3. \A v \in Units : unchecked'[v] \subseteq to_delete'[v]
    <3>1. \A v \in Units : to_delete'[v] = IF v = u THEN ks ELSE to_delete[v]
      BY <1>0, SMT DEF Settles, KeysOK
    <3>2. \A v \in Units \ {u} : unchecked'[v] = unchecked[v]
      BY <1>0, SMT DEF Settles, KeysOK
    <3>3. unchecked'[u] \subseteq ks
      <4>1. unchecked[u] \subseteq to_delete[u]
        BY DEF KeysSound, TasksSound
      <4>2. CASE unchecked' = [unchecked EXCEPT ![u] = ks]
        BY <1>0, <4>2, SMT DEF KeysOK
      <4>3. CASE unchecked' = unchecked /\ to_delete[u] \subseteq ks
        BY <4>1, <4>3
      <4>4. ASSUME NEW k \in unchecked[u], unchecked' = [unchecked EXCEPT ![u] = @ \ {k}],
                   ks = to_delete[u] \/ ks = to_delete[u] \ {k}
            PROVE  unchecked'[u] \subseteq ks
        <5>1. unchecked'[u] = unchecked[u] \ {k}
          BY <1>0, <4>4, SMT DEF KeysOK
        <5> QED
          BY <4>1, <4>4, <5>1
      <4> QED
        BY <4>2, <4>3, <4>4 DEF Settles
    <3> QED
      BY <3>1, <3>2, <3>3 DEF KeysSound, TasksSound
  <2>4. entries' # {}
    BY DEF Settles
  <2> QED
    BY <2>1, <2>2, <2>3, <2>4 DEF TasksSound
<1>2. Open' = Open \ gone
  <2>1. Open' = {k \in entries :
                       IF UnitOf(k) = u
                       THEN \/ s \in {"unposted", "posted"}
                            \/ s \in {"deleting", "verify", "count"} /\ k \in ks
                       ELSE k \in Open}
    BY <1>0, OpenMove DEF Settles
  <2>2. Open \subseteq entries
    BY DEF Open
  <2> QED
    BY <2>1, <2>2, Zenon DEF Leaves
<1>3. Settled'
  BY <1>0, <1>2, Settling, Zenon DEF Settles, Leaves, KeysSound
<1>4. OnlyTarget'
  <2>1. Target' = Target
    BY TargetFixed DEF Settles
  <2>2. bucket \ bucket' \subseteq Target
    BY <1>0, WorkIsOpen DEF Settles, KeysSound
  <2> QED
    BY <2>1, <2>2 DEF OnlyTarget, KeysSound, Settles
<1> QED
  BY <1>1, <1>3, <1>4 DEF KeysSound

\* A step of a task settles keys.
LEMMA TaskKeys ==
    ASSUME Typed, ListingSound, KeysSound, SomeTask
    PROVE  KeysSound'
<1> USE DEF askedVars, taskVars, windowVars, countVars
<1>0. ConfigOK /\ BucketOK /\ PhaseOK /\ TaskOK /\ KeysOK /\ CountsOK
  BY DEF Typed
<1>e. entries # {}
  BY <1>0, TaskMoves, TaskHasEntries DEF KeysSound
<1>t. TasksSound
  BY DEF KeysSound
<1>z. Cardinality({}) = 0
  BY FS_EmptySet
<1> SUFFICES \E u \in Units : \E s, ks, gone : Settles(u, s, ks, gone) /\ Leaves(u, s, ks, gone)
  BY <1>e, SettlesStep
<1>i. \A u \in Units : /\ to_delete = [to_delete EXCEPT ![u] = to_delete[u]]
                       /\ unchecked = [unchecked EXCEPT ![u] = unchecked[u]]
  BY <1>0, SMT DEF KeysOK
<1>n. deleted_count \in Nat /\ failed_count \in Nat
  BY <1>0 DEF CountsOK
\* The step of a task that settles nothing and keeps its keys.
<1>q. ASSUME NEW u \in Units, NEW s, task' = [task EXCEPT ![u] = s], s # "unposted",
             task[u] \in {"deleting", "verify", "count"} <=> s \in {"deleting", "verify", "count"},
             task[u] \in {"unposted", "posted"} <=> s \in {"unposted", "posted"},
             UNCHANGED <<config, original, bucket, entries, to_delete, unchecked,
                         deleted_count, failed_count, all_failed>>
      PROVE  Settles(u, s, to_delete[u], {}) /\ Leaves(u, s, to_delete[u], {})
  <2>1. Settles(u, s, to_delete[u], {})
    BY <1>q, <1>i, <1>n, <1>z DEF Settles
  <2>2. \A k \in entries :
          UnitOf(k) = u =>
             ((\/ s \in {"unposted", "posted"}
               \/ s \in {"deleting", "verify", "count"} /\ k \in to_delete[u])
              <=> k \in Open)
    BY <1>q, Zenon DEF Open
  <2>3. to_delete[u] \subseteq KeysOf(u)
    BY <1>t DEF TasksSound
  <2> QED
    BY <2>1, <2>2, <2>3 DEF Leaves
<1>1. ASSUME NEW u \in Units, BeginTask(u), cancelled
      PROVE  \E s, ks, gone : Settles(u, s, ks, gone) /\ Leaves(u, s, ks, gone)
  <2>1. /\ task[u] = "posted" /\ CountFailed(KeysOf(u)) /\ task' = [task EXCEPT ![u] = "release"]
        /\ UNCHANGED <<config, original, bucket, entries, to_delete, unchecked, deleted_count>>
    BY <1>1, Zenon DEF BeginTask
  <2>2. Settles(u, "release", to_delete[u], KeysOf(u))
    BY <2>1, <1>i DEF Settles, CountFailed
  <2>3. to_delete[u] \subseteq KeysOf(u) /\ KeysOf(u) \subseteq entries
    BY <1>t DEF TasksSound, KeysOf
  <2>4. KeysOf(u) \subseteq Open
    BY <1>0, <1>e, <1>t, <2>1, WorkIsOpen
  <2>5. \A k \in entries : k \in KeysOf(u) <=> UnitOf(k) = u
    BY <1>0, KeyInOneBatch
  <2>6. Leaves(u, "release", to_delete[u], KeysOf(u))
    BY <2>3, <2>4, <2>5, SMT DEF Leaves
  <2> QED
    BY <2>2, <2>6
<1>2. ASSUME NEW u \in Units, BeginTask(u), ~cancelled
      PROVE  \E s, ks, gone : Settles(u, s, ks, gone) /\ Leaves(u, s, ks, gone)
  <2>1. /\ task[u] = "posted" /\ task' = [task EXCEPT ![u] = "deleting"]
        /\ to_delete' = [to_delete EXCEPT ![u] = KeysOf(u)]
        /\ UNCHANGED <<config, original, bucket, entries, unchecked, deleted_count,
                       failed_count, all_failed>>
    BY <1>2, Zenon DEF BeginTask
  <2>2. to_delete[u] \subseteq KeysOf(u)
    BY <1>t DEF TasksSound
  <2>3. Settles(u, "deleting", KeysOf(u), {})
    BY <2>1, <2>2, <1>n, <1>z DEF Settles
  <2>4. \A k \in entries : k \in KeysOf(u) <=> UnitOf(k) = u
    BY <1>0, KeyInOneBatch
  <2>5. \A k \in entries : UnitOf(k) = u => k \in Open
    BY <2>1, Zenon DEF Open
  <2>6. Leaves(u, "deleting", KeysOf(u), {})
    BY <2>4, <2>5, SMT DEF Leaves
  <2> QED
    BY <2>3, <2>6
<1>3. ASSUME NEW u \in Units, TryDelete(u)
      PROVE  \E s, ks, gone : Settles(u, s, ks, gone) /\ Leaves(u, s, ks, gone)
  <2>1. PICK failed \in SUBSET to_delete[u] : \E applied \in SUBSET failed :
          /\ bucket' = bucket \ ((to_delete[u] \ failed) \cup applied)
          /\ deleted_count' = deleted_count + Cardinality(to_delete[u] \ failed)
          /\ to_delete' = [to_delete EXCEPT ![u] = failed]
          /\ unchecked' = [unchecked EXCEPT ![u] = failed]
          /\ task' = [task EXCEPT ![u] =
                         IF failed = {} THEN "release"
                         ELSE IF attempt[u] < MaxRetries THEN "deleting"
                         ELSE IF had_total_failure'[u] THEN "verify" ELSE "count"]
    BY <1>3, Zenon DEF TryDelete
  <2>2. task[u] = "deleting" /\ UNCHANGED <<config, original, entries, failed_count, all_failed>>
    BY <1>3, Zenon DEF TryDelete
  <2>3. PICK s \in {"release", "deleting", "verify", "count"} :
           task' = [task EXCEPT ![u] = s] /\ (s = "release" <=> failed = {})
    <3>1. CASE failed = {}
      BY <2>1, <3>1, Zenon
    <3>2. CASE failed # {} /\ attempt[u] < MaxRetries
      <4>1. task' = [task EXCEPT ![u] = "deleting"] /\ "deleting" # "release"
        BY <2>1, <3>2, Zenon
      <4> QED
        BY <3>2, <4>1, Zenon
    <3>3. CASE failed # {} /\ ~(attempt[u] < MaxRetries) /\ had_total_failure'[u]
      <4>1. task' = [task EXCEPT ![u] = "verify"] /\ "verify" # "release"
        BY <2>1, <3>3, Zenon
      <4> QED
        BY <3>3, <4>1, Zenon
    <3>4. CASE failed # {} /\ ~(attempt[u] < MaxRetries) /\ ~had_total_failure'[u]
      <4>1. task' = [task EXCEPT ![u] = "count"] /\ "count" # "release"
        BY <2>1, <3>4, Zenon
      <4> QED
        BY <3>4, <4>1, Zenon
    <3> QED
      BY <3>1, <3>2, <3>3, <3>4
  <2>4. /\ bucket' \subseteq bucket /\ bucket \ bucket' \subseteq to_delete[u]
        /\ (to_delete[u] \ failed) \cap bucket' = {}
    BY <2>1
  <2>5. Settles(u, s, failed, to_delete[u] \ failed)
    <3>1. s # "unposted"
      BY SMT
    <3> QED
      BY <2>1, <2>2, <2>3, <2>4, <3>1, Zenon DEF Settles
  <2>6. /\ to_delete[u] \subseteq KeysOf(u) /\ to_delete[u] \subseteq Open
        /\ \A k \in to_delete[u] : UnitOf(k) = u
    BY <1>0, <1>e, <1>t, <2>2, WorkIsOpen DEF TasksSound
  <2>7. \A k \in entries : UnitOf(k) = u => (k \in Open <=> k \in to_delete[u])
    BY <2>2, SMT DEF Open
  <2>8. s \notin {"unposted", "posted"} /\ (s = "release" \/ s \in {"deleting", "verify", "count"})
    BY SMT
  <2>9. Leaves(u, s, failed, to_delete[u] \ failed)
    <3>1. \A k \in failed : s \in {"deleting", "verify", "count"}
      BY <2>3, <2>8
    <3> QED
      BY <2>6, <2>7, <2>8, <3>1, Zenon DEF Leaves
  <2> QED
    BY <2>5, <2>9
<1>4. ASSUME NEW u \in Units, StopTrying(u)
      PROVE  \E s, ks, gone : Settles(u, s, ks, gone) /\ Leaves(u, s, ks, gone)
  <2>1. /\ task[u] = "deleting" /\ task' = [task EXCEPT ![u] = "count"]
        /\ UNCHANGED <<config, original, bucket, entries, to_delete, unchecked,
                       deleted_count, failed_count, all_failed>>
    BY <1>4, Zenon DEF StopTrying
  <2> QED
    BY <2>1, <1>q
<1>5. ASSUME NEW u \in Units, VerifyKey(u)
      PROVE  \E s, ks, gone : Settles(u, s, ks, gone) /\ Leaves(u, s, ks, gone)
  <2>1. /\ task[u] = "verify"
        /\ task' = [task EXCEPT ![u] = IF unchecked'[u] = {} THEN "count" ELSE "verify"]
        /\ UNCHANGED <<config, original, bucket, entries, failed_count, all_failed>>
    BY <1>5, Zenon DEF VerifyKey
  <2>2. PICK k \in unchecked[u] :
          /\ unchecked' = [unchecked EXCEPT ![u] = @ \ {k}]
          /\ \/ UNCHANGED <<to_delete, deleted_count>>
             \/ /\ k \notin bucket
                /\ to_delete' = [to_delete EXCEPT ![u] = @ \ {k}]
                /\ deleted_count' = deleted_count + 1
    BY <1>5, Zenon DEF VerifyKey
  <2>3. PICK s \in {"count", "verify"} : task' = [task EXCEPT ![u] = s]
    <3>1. CASE unchecked'[u] = {}
      BY <2>1, <3>1, Zenon
    <3>2. CASE unchecked'[u] # {}
      BY <2>1, <3>2, Zenon
    <3> QED
      BY <3>1, <3>2
  <2>4. s # "unposted" /\ s \notin {"unposted", "posted"} /\ s \in {"deleting", "verify", "count"}
    BY SMT
  <2>5. k \in to_delete[u]
    BY <2>2, <1>t DEF TasksSound
  <2>6. /\ to_delete[u] \subseteq KeysOf(u) /\ to_delete[u] \subseteq Open
        /\ \A j \in to_delete[u] : UnitOf(j) = u
    BY <1>0, <1>e, <1>t, <2>1, WorkIsOpen DEF TasksSound
  <2>7. \A j \in entries : UnitOf(j) = u => (j \in Open <=> j \in to_delete[u])
    BY <2>1, SMT DEF Open
  <2>8. CASE UNCHANGED <<to_delete, deleted_count>>
    <3>0. \E j \in unchecked[u] :
             /\ unchecked' = [unchecked EXCEPT ![u] = @ \ {j}]
             /\ to_delete[u] = to_delete[u] \/ to_delete[u] = to_delete[u] \ {j}
      BY <2>2, Zenon
    <3>1. Settles(u, s, to_delete[u], {})
      <4>1. deleted_count' = deleted_count + Cardinality({})
        BY <1>n, <1>z, <2>8
      <4>2. to_delete' = [to_delete EXCEPT ![u] = to_delete[u]]
        BY <1>i, <2>8
      <4>3. {} \cap bucket' = {} /\ bucket' \subseteq bucket /\ bucket \ bucket' \subseteq to_delete[u]
        BY <2>1
      <4> QED
        BY <2>1, <2>3, <2>4, <3>0, <4>1, <4>2, <4>3, Zenon DEF Settles
    <3>2. Leaves(u, s, to_delete[u], {})
      BY <2>4, <2>6, <2>7 DEF Leaves
    <3> QED
      BY <3>1, <3>2
  <2>9. CASE /\ k \notin bucket
             /\ to_delete' = [to_delete EXCEPT ![u] = @ \ {k}]
             /\ deleted_count' = deleted_count + 1
    <3>0. Cardinality({k}) = 1 /\ {k} \cap bucket' = {}
      <4>1. Cardinality({k}) = 1
        BY FS_Singleton
      <4>2. k \notin bucket'
        BY <2>1, <2>9
      <4> QED
        BY <4>1, <4>2
    <3>1. Settles(u, s, to_delete[u] \ {k}, {k})
      BY <2>1, <2>2, <2>3, <2>4, <2>9, <3>0 DEF Settles
    <3>2. Leaves(u, s, to_delete[u] \ {k}, {k})
      BY <2>4, <2>5, <2>6, <2>7 DEF Leaves
    <3> QED
      BY <3>1, <3>2
  <2> QED
    BY <2>2, <2>8, <2>9
<1>6. ASSUME NEW u \in Units, GiveUp(u)
      PROVE  \E s, ks, gone : Settles(u, s, ks, gone) /\ Leaves(u, s, ks, gone)
  <2>1. /\ task[u] = "count" /\ task' = [task EXCEPT ![u] = "release"]
        /\ CountFailed(to_delete[u])
        /\ UNCHANGED <<config, original, bucket, entries, to_delete, unchecked, deleted_count>>
    BY <1>6, Zenon DEF GiveUp
  <2>2. Settles(u, "release", to_delete[u], to_delete[u])
    BY <2>1, <1>i DEF Settles, CountFailed
  <2>3. /\ to_delete[u] \subseteq KeysOf(u) /\ to_delete[u] \subseteq Open
        /\ \A k \in to_delete[u] : UnitOf(k) = u
    BY <1>0, <1>e, <1>t, <2>1, WorkIsOpen DEF TasksSound
  <2>4. \A k \in entries : UnitOf(k) = u => (k \in Open <=> k \in to_delete[u])
    BY <2>1, SMT DEF Open
  <2>5. Leaves(u, "release", to_delete[u], to_delete[u])
    BY <2>3, <2>4, SMT DEF Leaves
  <2> QED
    BY <2>2, <2>5
<1>7. ASSUME NEW u \in Units, ReleaseSlot(u) \/ Notify(u)
      PROVE  \E s, ks, gone : Settles(u, s, ks, gone) /\ Leaves(u, s, ks, gone)
  <2>1. /\ \/ task[u] = "release" /\ task' = [task EXCEPT ![u] = "notify"]
           \/ task[u] = "notify" /\ task' = [task EXCEPT ![u] = "done"]
        /\ UNCHANGED <<config, original, bucket, entries, to_delete, unchecked,
                       deleted_count, failed_count, all_failed>>
    BY <1>7, Zenon DEF ReleaseSlot, Notify
  <2> QED
    BY <2>1, <1>q
<1> QED
  BY <1>1, <1>2, <1>3, <1>4, <1>5, <1>6, <1>7, Zenon DEF SomeTask

\* Every step keeps what is known of the keys.
LEMMA KeysStep ==
    ASSUME Typed, Resolved, ListingSound, KeysSound, [Next]_vars
    PROVE  KeysSound'
<1> USE DEF askedVars, taskVars, windowVars, countVars
<1>0. ConfigOK /\ BucketOK /\ PhaseOK /\ TaskOK /\ KeysOK
  BY DEF Typed
<1>1. CASE LookUpSize \/ CheckPresence \/ PeekPrefix \/ ListEnds
  BY <1>1, LookStep, GoToStep, ReturnStep, KeysFrame, Zenon
<1>2. CASE NextTask \/ CheckWindow \/ LeaveLoop \/ Drain
  BY <1>2, LoopStep, GoToStep, KeysFrame, Zenon
<1>3. CASE Finish \/ Cancel \/ UNCHANGED vars
  <2>1. UNCHANGED <<config, original, bucket, entries, task, to_delete, unchecked,
                    deleted_count, failed_count, all_failed>>
    BY <1>3, Zenon DEF Finish, Cancel, vars
  <2> QED
    BY <2>1, KeysFrame
<1>4. CASE DeleteNamed
  <2>1. Named \in original /\ entries = {} /\ bucket = original
    BY <1>4, SMT DEF DeleteNamed, Resolved, Resolving
  <2>2. PICK ok : Return(ok)
    BY <1>4, Zenon DEF DeleteNamed
  <2>3. UNCHANGED <<config, original, entries, task, to_delete, unchecked>>
    BY <2>2, ReturnStep
  <2>4. TasksSound'
    BY <2>3, KeysFixed DEF TasksSound, KeysSound
  <2>5. Settled'
    BY <2>1, <2>3 DEF Settled
  <2>6. original \ bucket' \subseteq Target
    <3>1. CASE ~config.force
      <4>1. bucket' = bucket
        BY <1>4, <3>1, Zenon DEF DeleteNamed
      <4> QED
        BY <2>1, <4>1
    <3>2. CASE config.force
      <4>1. bucket' = bucket \/ bucket' = bucket \ {Named}
        BY <1>4, Zenon DEF DeleteNamed
      <4>2. Target = {Named}
        BY <2>1, <3>2 DEF Target
      <4> QED
        BY <2>1, <4>1, <4>2
    <3> QED
      BY <3>1, <3>2
  <2>7. OnlyTarget'
    BY <2>3, <2>6, TargetFixed DEF OnlyTarget
  <2> QED
    BY <2>4, <2>5, <2>7 DEF KeysSound
<1>5. CASE List
  <2>1. /\ entries = {} /\ bucket = original
        /\ deleted_count = 0 /\ failed_count = 0 /\ all_failed = {}
    BY <1>5, SMT DEF List, Resolved, Resolving
  <2>2. /\ entries' # {}
        /\ UNCHANGED <<config, original, bucket, task, to_delete, unchecked,
                       deleted_count, failed_count, all_failed>>
    BY <1>5, Zenon DEF List
  <2>3. \A u \in Units : task[u] = "unposted" /\ to_delete[u] = {} /\ unchecked[u] = {}
    BY <2>1 DEF KeysSound, TasksSound, KeysOf
  <2>4. TasksSound'
    BY <2>2, <2>3 DEF TasksSound
  <2>5. Open' = entries'
    <3>1. PhaseOK'
      BY StepTyped DEF Typed
    <3>2. \A k \in entries' : UnitOf(k)' \in Units
      <4>1. (PhaseOK => \A k \in entries : UnitOf(k) \in Units)'
        BY KeysHaveUnits, PTL
      <4> QED
        BY <3>1, <4>1
    <3>3. \A k \in entries' : task'[UnitOf(k)'] \in {"unposted", "posted"}
      BY <2>2, <2>3, <3>2
    <3> QED
      BY <3>3, Zenon DEF Open
  <2>6. Confirmed' = {}
    BY <2>5 DEF Confirmed
  <2>7. Settled'
    BY <2>1, <2>2, <2>6, FS_EmptySet DEF Settled
  <2>8. OnlyTarget'
    BY <2>1, <2>2 DEF OnlyTarget
  <2> QED
    BY <2>4, <2>7, <2>8 DEF KeysSound
<1>6. ASSUME NEW u \in Units, PostTask(u) PROVE KeysSound'
  <2>1. /\ u \in Unposted /\ task' = [task EXCEPT ![u] = "posted"]
        /\ UNCHANGED <<config, original, bucket, entries, to_delete, unchecked,
                       deleted_count, failed_count, all_failed>>
    BY <1>6, Zenon DEF PostTask
  <2>2. task[u] = "unposted" /\ entries # {}
    BY <2>1 DEF Unposted, KeysOf
  <2>3. TasksSound'
    BY <2>1, <2>2, KeysFixed DEF TasksSound, KeysSound
  <2>4. Open' = Open
    <3>1. to_delete' = [to_delete EXCEPT ![u] = to_delete[u]]
      BY <1>0, <2>1, SMT DEF KeysOK
    <3>2. Open' = {k \in entries :
                       IF UnitOf(k) = u
                       THEN \/ "posted" \in {"unposted", "posted"}
                            \/ "posted" \in {"deleting", "verify", "count"} /\ k \in to_delete[u]
                       ELSE k \in Open}
      BY <1>0, <2>1, <3>1, OpenMove
    <3>3. \A k \in entries : UnitOf(k) = u => k \in Open
      BY <2>2, Zenon DEF Open
    <3>4. Open \subseteq entries
      BY DEF Open
    <3> QED
      BY <3>2, <3>3, <3>4
  <2>5. Settled'
    BY <2>1, <2>4 DEF KeysSound, Settled, Confirmed
  <2>6. OnlyTarget'
    BY <2>1, TargetFixed DEF KeysSound, OnlyTarget
  <2> QED
    BY <2>3, <2>5, <2>6 DEF KeysSound
<1>7. CASE SomeTask
  BY <1>7, TaskKeys
<1> QED
  BY <1>1, <1>2, <1>3, <1>4, <1>5, <1>6, <1>7, StepCases

-----------------------------------------------------------------------------
(* The theorems.                                                           *)

\* The invariant holds initially.
LEMMA InitInv == Init => RmInv
<1> SUFFICES ASSUME Init PROVE RmInv
  OBVIOUS
<1>1. Typed
  BY InitTyped
<1>2. Resolved
  <2>1. /\ phase \in {"size", "list"}
        /\ bucket = original /\ entries = {} /\ ~success
        /\ deleted_count = 0 /\ failed_count = 0 /\ all_failed = {}
    BY Zenon DEF Init
  <2>2. phase = "list" => Named \notin original
    <3>1. phase = "list" => config.kind # "key"
      BY SMT DEF Init
    <3> QED
      BY <1>1, <3>1 DEF Typed, ConfigOK
  <2> QED
    BY <2>1, <2>2, SMT DEF Resolved
<1>3. entries = {} /\ phase \notin Posting /\ phase \notin {"drain", "draining", "finished", "post"}
  BY SMT DEF Init, Posting
<1>4. ListingSound /\ AllPosted /\ FinishSound /\ Settled
  BY <1>3, SMT DEF ListingSound, AllPosted, FinishSound, Settled
<1>5. TasksSound
  BY SMT DEF Init, TasksSound
<1>6. Busy = {}
  BY SMT DEF Init, Busy
<1>7. InFlightSound
  <2>1. in_flight = 0
    BY DEF Init
  <2>2. Cardinality(Busy) = 0
    BY <1>6, FS_EmptySet
  <2>3. in_flight \in 0..MaxThreads
    BY <2>1, SMT
  <2> QED
    BY <1>3, <2>1, <2>2, <2>3, SMT DEF InFlightSound, FlightOK
<1>8. OnlyTarget
  BY DEF Init, OnlyTarget
<1> QED
  BY <1>1, <1>2, <1>4, <1>5, <1>7, <1>8 DEF RmInv

\* Every step keeps the invariant.
LEMMA StepInv == RmInv /\ [Next]_vars => RmInv'
<1> SUFFICES ASSUME RmInv, [Next]_vars PROVE RmInv'
  OBVIOUS
<1>0. /\ Typed /\ Resolved /\ ListingSound /\ TasksSound /\ Settled /\ InFlightSound
      /\ AllPosted /\ FinishSound /\ OnlyTarget
  BY DEF RmInv
<1>1. KeysSound
  BY <1>0 DEF KeysSound
<1>2. KeysSound'
  BY <1>0, <1>1, KeysStep
<1>3. Typed' /\ Resolved' /\ ListingSound'
  BY <1>0, StepTyped, ResolvedStep, ListingStep
<1>4. InFlightSound' /\ AllPosted' /\ FinishSound'
  BY <1>0, InFlightStep, PostedStep, FinishStep
<1> QED
  BY <1>2, <1>3, <1>4 DEF RmInv, KeysSound

\* RmInv is an invariant.
LEMMA RmInvariant == Spec => []RmInv
  BY InitInv, StepInv, PTL DEF Spec

(***************************************************************************)
(* The variables have their types: however many failures and cancellations *)
(* there are, no more tasks than threads hold a slot (in_flight), and the  *)
(* window stays between one and the number of threads.                     *)
(***************************************************************************)
THEOREM RmTypeCorrect == Spec => []TypeOK
<1>1. RmInv => TypeOK
  BY DEF RmInv, Typed, InFlightSound, TypeOK, ConfigOK, BucketOK, PhaseOK, TaskOK, KeysOK,
     TriesOK, FailureOK, WindowOK, FlightOK, CountsOK, FailedOK, FlagsOK
<1> QED
  BY <1>1, RmInvariant, PTL

(***************************************************************************)
(* mito rm deletes nothing but what was asked for, whichever of the        *)
(* requests that resolve the name fail, whichever deletions are retried,   *)
(* and whenever the run is cancelled.                                      *)
(***************************************************************************)
THEOREM OnlyTheTargetGoes == Spec => []OnlyTarget
<1>1. RmInv => OnlyTarget
  BY DEF RmInv
<1> QED
  BY <1>1, RmInvariant, PTL

\* A finished run without tasks has counted what it did to the named object.
LEMMA NamedCountedStep ==
    ASSUME RmInv, RmInv', NamedCounted, [Next]_vars PROVE NamedCounted'
<1> USE DEF askedVars, taskVars, windowVars, countVars
<1>0. Typed /\ Resolved /\ ListingSound /\ TasksSound /\ PhaseOK /\ TaskOK /\ ConfigOK
  BY DEF RmInv, Typed
<1>z. /\ Cardinality({}) = 0 /\ Cardinality({Named}) = 1
      /\ \A S : S \subseteq original => Cardinality(S) \in Nat
  BY <1>0, FS_EmptySet, FS_Singleton, FiniteSets DEF ConfigOK
<1>r. ASSUME phase \in Resolving,
             UNCHANGED <<original, bucket, deleted_count, failed_count, all_failed>>
      PROVE  NamedCounted'
  BY <1>0, <1>r, <1>z DEF Resolved, NamedCounted
<1>p. ASSUME phase' # "finished" \/ entries' # {} PROVE NamedCounted'
  BY <1>p DEF NamedCounted
<1>1. CASE LookUpSize \/ CheckPresence \/ PeekPrefix \/ ListEnds
  BY <1>1, <1>r, LookStep, GoToStep, ReturnStep, Zenon
<1>2. CASE DeleteNamed
  <2>1. /\ Named \in original /\ bucket = original
        /\ deleted_count = 0 /\ failed_count = 0 /\ all_failed = {}
    BY <1>0, <1>2, SMT DEF DeleteNamed, Resolved, Resolving
  <2>2. original' = original
    BY <1>2, ReturnStep, Zenon DEF DeleteNamed
  <2>3. CASE ~config.force
    <3>1. UNCHANGED <<bucket, deleted_count, failed_count, all_failed>>
      BY <1>2, <2>3, Zenon DEF DeleteNamed
    <3>2. phase \in Resolving
      BY <1>2, SMT DEF DeleteNamed, Resolving
    <3> QED
      BY <2>2, <3>1, <3>2, <1>r
  <2>4. CASE /\ bucket' = bucket \ {Named} /\ deleted_count' = 1
             /\ UNCHANGED <<failed_count, all_failed>>
    <3>1. original \ bucket' = {Named}
      BY <2>1, <2>4
    <3> QED
      BY <2>1, <2>2, <2>4, <3>1, <1>z DEF NamedCounted
  <2>5. CASE failed_count' = 1 /\ all_failed' = {Named} /\ UNCHANGED deleted_count
    <3>1. Cardinality(original \ bucket') \in Nat
      BY <1>z
    <3> QED
      BY <2>1, <2>2, <2>5, <3>1, <1>z DEF NamedCounted
  <2> QED
    BY <1>2, <2>3, <2>4, <2>5, Zenon DEF DeleteNamed
<1>3. CASE List \/ (\E u \in Units : PostTask(u))
  <2>1. phase' = "next"
    BY <1>3, Zenon DEF List, PostTask
  <2> QED
    BY <2>1, <1>p, SMT
<1>4. CASE NextTask \/ CheckWindow \/ LeaveLoop \/ Drain \/ Finish
  <2>1. phase \in Posting
    <3>1. CASE Finish
      BY <3>1, SMT DEF Finish, Posting
    <3> QED
      BY <1>4, <3>1, LoopStep
  <2>2. entries' = entries
    BY <1>4, LoopStep, GoToStep, Zenon DEF Finish
  <2> QED
    BY <1>0, <2>1, <2>2, <1>p DEF ListingSound
<1>5. CASE SomeTask
  <2>1. PICK u \in Units : \E s : TaskMove(u, s)
    BY <1>5, TaskMoves
  <2>2. PICK s : TaskMove(u, s)
    BY <2>1
  <2>3. entries # {} /\ entries' = entries
    BY <1>0, <2>2, TaskHasEntries DEF TaskMove
  <2> QED
    BY <2>3, <1>p
<1>6. CASE Cancel \/ UNCHANGED vars
  <2>1. UNCHANGED <<original, bucket, phase, entries, deleted_count, failed_count, all_failed>>
    BY <1>6, Zenon DEF Cancel, vars
  <2> QED
    BY <2>1 DEF NamedCounted
<1> QED
  BY <1>1, <1>2, <1>3, <1>4, <1>5, <1>6, StepCases

\* When a run has finished that was not cancelled, every key is settled.
LEMMA NothingOpen ==
    ASSUME RmInv, entries # {}, Busy = {}, Unposted = {} PROVE Open = {}
<1>0. PhaseOK /\ TaskOK
  BY DEF RmInv, Typed
<1> SUFFICES ASSUME NEW k \in Open PROVE FALSE
  OBVIOUS
<1>1. k \in entries /\ UnitOf(k) \in Units
  BY <1>0, KeyInOneBatch DEF Open
<1>2. k \in KeysOf(UnitOf(k))
  BY <1>0, <1>1, KeyInOneBatch
<1>3. task[UnitOf(k)] # "unposted"
  BY <1>1, <1>2 DEF Unposted
<1>4. task[UnitOf(k)] \notin {"posted", "deleting", "verify", "count", "release"}
  BY <1>1 DEF Busy
<1> QED
  BY <1>3, <1>4, SMT DEF Open

\* What was listed is divided into open, failed and confirmed keys.
LEMMA Divided ==
    ASSUME RmInv, entries # {}
    PROVE  /\ deleted_count <= Cardinality(original \ bucket)
           /\ failed_count = Cardinality(all_failed)
           /\ Open = {} => deleted_count + failed_count = Cardinality(entries)
           /\ original \ bucket \subseteq entries
           /\ IsFiniteSet(entries) /\ Cardinality(entries) \in Nat
           /\ Cardinality(original \ bucket) \in Nat /\ deleted_count \in Nat
<1>0. ConfigOK /\ BucketOK /\ PhaseOK /\ ListingSound /\ Settled /\ OnlyTarget /\ CountsOK
  BY DEF RmInv, Typed
<1>1. /\ all_failed \subseteq entries \ Open /\ failed_count = Cardinality(all_failed)
      /\ deleted_count = Cardinality(Confirmed) /\ Confirmed \cap bucket = {}
  BY <1>0 DEF Settled
<1>2. entries = original \cap Children /\ Target = original \cap Children
  BY <1>0 DEF ListingSound, Target
<1>3. Confirmed \subseteq original \ bucket /\ original \ bucket \subseteq entries
  BY <1>0, <1>1, <1>2 DEF Confirmed, OnlyTarget
<1>4. /\ IsFiniteSet(entries) /\ Cardinality(entries) \in Nat
      /\ IsFiniteSet(original \ bucket) /\ Cardinality(original \ bucket) \in Nat
      /\ IsFiniteSet(all_failed) /\ Cardinality(all_failed) \in Nat
      /\ IsFiniteSet(Confirmed) /\ Cardinality(Confirmed) \in Nat
  BY <1>0, <1>1, <1>3, FiniteSets DEF ConfigOK, PhaseOK
<1>5. Cardinality(Confirmed) <= Cardinality(original \ bucket)
  BY <1>3, <1>4, FS_Subset
<1>6. ASSUME Open = {} PROVE deleted_count + failed_count = Cardinality(entries)
  <2>1. entries = Confirmed \cup all_failed /\ Confirmed \cap all_failed = {}
    BY <1>1, <1>6 DEF Confirmed
  <2>2. Cardinality(Confirmed \cap all_failed) = 0
    BY <2>1, FS_EmptySet
  <2>3. Cardinality(Confirmed \cup all_failed)
          = Cardinality(Confirmed) + Cardinality(all_failed) - Cardinality(Confirmed \cap all_failed)
    BY <1>4, FS_Union
  <2> QED
    BY <1>1, <1>4, <2>1, <2>2, <2>3
<1> QED
  BY <1>0, <1>1, <1>3, <1>4, <1>5, <1>6 DEF CountsOK

(***************************************************************************)
(* The counts that mito rm reports are honest, for any number of objects   *)
(* and batches: no key is counted as deleted that is not gone, none twice, *)
(* and none is left out of a run that was not cancelled.                   *)
(***************************************************************************)
THEOREM CountsAreHonest == Spec => []CountsHonest
<1>1. Init => NamedCounted
  <2> SUFFICES ASSUME Init PROVE NamedCounted
    OBVIOUS
  <2>1. phase # "finished"
    BY SMT DEF Init
  <2> QED
    BY <2>1 DEF NamedCounted
<1>2. RmInv /\ RmInv' /\ NamedCounted /\ [Next]_vars => NamedCounted'
  BY NamedCountedStep
<1>3. Spec => []NamedCounted
  BY <1>1, <1>2, RmInvariant, PTL DEF Spec
<1>4. RmInv /\ NamedCounted => CountsHonest
  <2> SUFFICES ASSUME RmInv, NamedCounted PROVE CountsHonest
    OBVIOUS
  <2>0. Typed /\ Resolved /\ ListingSound /\ ConfigOK /\ PhaseOK
    BY DEF RmInv, Typed
  <2>1. CASE entries # {}
    <3>1. /\ deleted_count <= Cardinality(original \ bucket)
          /\ failed_count = Cardinality(all_failed)
          /\ Open = {} => deleted_count + failed_count = Cardinality(entries)
      BY <2>1, Divided
    <3>2. phase = "finished" /\ ~cancelled => Busy = {} /\ Unposted = {}
      BY <2>1, Zenon DEF RmInv, FinishSound, AllPosted
    <3>3. phase = "finished" /\ ~cancelled => Open = {}
      BY <2>1, <3>2, NothingOpen
    <3> QED
      BY <3>1, <3>3, Zenon DEF CountsHonest
  <2>2. CASE entries = {}
    <3>1. CASE phase = "finished"
      BY <2>2, <3>1, Zenon DEF NamedCounted, CountsHonest
    <3>2. CASE phase # "finished"
      <4>1. phase \in Resolving
        BY <2>0, <2>2, <3>2, SMT DEF PhaseOK, Phases, ListingSound, Resolving, Posting
      <4>2. deleted_count = 0
        BY <2>0, <4>1 DEF Resolved
      <4>3. Cardinality(original \ bucket) \in Nat
        BY <2>0, FiniteSets DEF ConfigOK
      <4>4. deleted_count <= Cardinality(original \ bucket)
        BY <4>2, <4>3
      <4> QED
        BY <3>2, <4>4, Zenon DEF CountsHonest
    <3> QED
      BY <3>1, <3>2
  <2> QED
    BY <2>1, <2>2
<1> QED
  BY <1>3, <1>4, RmInvariant, PTL

\* No task puts an object back.
LEMMA BucketShrinks == ASSUME SomeTask PROVE bucket' \subseteq bucket
<1> USE DEF askedVars, taskVars, windowVars, countVars
<1>1. ASSUME NEW u \in Units, TryDelete(u) PROVE bucket' \subseteq bucket
  <2>1. PICK gone : bucket' = bucket \ gone
    BY <1>1, Zenon DEF TryDelete
  <2> QED
    BY <2>1
<1>2. ASSUME NEW u \in Units, \/ BeginTask(u) \/ StopTrying(u) \/ VerifyKey(u) \/ GiveUp(u)
                               \/ ReleaseSlot(u) \/ Notify(u)
      PROVE  bucket' \subseteq bucket
  <2>1. bucket' = bucket
    BY <1>2, Zenon DEF BeginTask, StopTrying, VerifyKey, GiveUp, ReleaseSlot, Notify
  <2> QED
    BY <2>1
<1> QED
  BY <1>1, <1>2, Zenon DEF SomeTask

\* What success says of the bucket.
SuccessMeansGone == (phase = "finished" /\ success) => Target \cap bucket = {}

\* A run that succeeds, with or without tasks, has deleted its target.
LEMMA SuccessStep ==
    ASSUME RmInv, SuccessMeansGone, [Next]_vars PROVE SuccessMeansGone'
<1> USE DEF askedVars, taskVars, windowVars, countVars
<1>0. Typed /\ Resolved /\ ListingSound /\ TasksSound /\ PhaseOK /\ TaskOK /\ ConfigOK /\ BucketOK
  BY DEF RmInv, Typed
<1>p. ASSUME phase' # "finished" \/ ~success' PROVE SuccessMeansGone'
  BY <1>p, Zenon DEF SuccessMeansGone
<1>1. CASE LookUpSize \/ CheckPresence \/ PeekPrefix
  <2>1. \/ GoTo("file") \/ GoTo("presence") \/ GoTo("peek") \/ GoTo("list") \/ Return(FALSE)
    BY <1>1, Zenon DEF LookUpSize, CheckPresence, PeekPrefix
  <2>2. CASE Return(FALSE)
    BY <2>2, ReturnStep, <1>p, Zenon
  <2>3. CASE GoTo("file") \/ GoTo("presence") \/ GoTo("peek") \/ GoTo("list")
    <3>1. phase' # "finished"
      BY <2>3, GoToStep, SMT
    <3> QED
      BY <3>1, <1>p
  <2> QED
    BY <2>1, <2>2, <2>3
<1>2. CASE DeleteNamed
  <2>1. Named \in original /\ bucket = original
    BY <1>0, <1>2, SMT DEF DeleteNamed, Resolved, Resolving
  <2>2. UNCHANGED <<config, original>>
    BY <1>2, ReturnStep, Zenon DEF DeleteNamed
  <2>3. CASE ~config.force
    <3>1. Target = {}
      BY <2>3 DEF Target
    <3> QED
      BY <2>2, <3>1, TargetFixed DEF SuccessMeansGone
  <2>4. CASE config.force /\ bucket' = bucket \ {Named}
    <3>1. Target = {Named}
      BY <2>1, <2>4 DEF Target
    <3> QED
      BY <2>2, <2>4, <3>1, TargetFixed DEF SuccessMeansGone
  <2>5. CASE Return(FALSE)
    BY <2>5, ReturnStep, <1>p, Zenon
  <2> QED
    BY <1>2, <2>3, <2>4, <2>5, Zenon DEF DeleteNamed
<1>3. CASE ListEnds
  <2>1. Named \notin original /\ bucket = original
    BY <1>0, <1>3, SMT DEF ListEnds, Resolved, Resolving
  <2>2. UNCHANGED <<config, original, bucket>>
    BY <1>3, ReturnStep, Zenon DEF ListEnds
  <2>3. CASE Return(FALSE)
    BY <2>3, ReturnStep, <1>p, Zenon
  <2>4. CASE bucket \cap Children = {} \/ ~config.force
    <3>1. Target = {}
      BY <2>1, <2>4 DEF Target
    <3> QED
      BY <2>2, <3>1, TargetFixed DEF SuccessMeansGone
  <2> QED
    BY <1>3, <2>3, <2>4, Zenon DEF ListEnds
<1>4. CASE List \/ (\E u \in Units : PostTask(u))
  <2>1. phase' = "next"
    BY <1>4, Zenon DEF List, PostTask
  <2> QED
    BY <2>1, <1>p, SMT
<1>5. CASE NextTask \/ CheckWindow \/ LeaveLoop \/ Drain
  <2>1. PICK p \in {"drain", "check", "post", "waiting", "draining"} : GoTo(p)
    BY <1>5, LoopStep
  <2>2. phase' # "finished"
    BY <2>1, GoToStep, SMT
  <2> QED
    BY <2>2, <1>p
<1>6. CASE Finish
  <2>1. phase = "drain" /\ in_flight = 0 /\ UNCHANGED <<config, original, bucket>>
    BY <1>6, Zenon DEF Finish
  <2>2. entries # {}
    BY <1>0, <2>1, SMT DEF ListingSound, Posting
  <2>3. Busy = {}
    <3>1. in_flight = Cardinality(Busy)
      BY DEF RmInv, InFlightSound
    <3> QED
      BY <2>1, <3>1, BusyFinite, FS_EmptySet
  <2>4. Target = entries /\ entries \subseteq original
    BY <1>0, <2>2 DEF ListingSound, Target
  <2>5. ASSUME success' PROVE entries \cap bucket = {}
    <3>1. failed_count = 0 /\ ~(cancelled /\ Cardinality(entries) - deleted_count > 0)
      BY <1>6, <2>5, Zenon DEF Finish
    <3>2. all_failed = {}
      <4>1. failed_count = Cardinality(all_failed)
        BY <2>2, Divided
      <4>2. IsFiniteSet(all_failed)
        BY <1>0, FiniteSets DEF Typed, FailedOK
      <4> QED
        BY <3>1, <4>1, <4>2, FS_EmptySet
    <3>3. CASE ~cancelled
      <4>1. Unposted = {}
        BY <2>1, <2>2, <3>3, Zenon DEF RmInv, AllPosted
      <4>2. Open = {}
        BY <2>2, <2>3, <4>1, NothingOpen
      <4>3. Confirmed = entries /\ Confirmed \cap bucket = {}
        BY <2>2, <3>2, <4>2 DEF RmInv, Settled, Confirmed
      <4> QED
        BY <4>3
    <3>4. CASE cancelled
      <4>1. /\ deleted_count <= Cardinality(original \ bucket)
            /\ original \ bucket \subseteq entries /\ IsFiniteSet(entries)
            /\ Cardinality(entries) \in Nat /\ deleted_count \in Nat
            /\ Cardinality(original \ bucket) \in Nat
        BY <2>2, Divided
      <4>2. Cardinality(entries) <= deleted_count
        <5>1. ~(Cardinality(entries) - deleted_count > 0)
          BY <3>1, <3>4
        <5> QED
          BY <4>1, <5>1
      <4>3. Cardinality(original \ bucket) <= Cardinality(entries)
        BY <4>1, FS_Subset
      <4>4. Cardinality(entries) = Cardinality(original \ bucket)
        BY <4>1, <4>2, <4>3
      <4>5. original \ bucket = entries
        BY <4>1, <4>4, FS_Subset
      <4> QED
        BY <4>5
    <3> QED
      BY <3>3, <3>4
  <2> QED
    BY <2>1, <2>4, <2>5, TargetFixed DEF SuccessMeansGone
<1>7. CASE SomeTask
  <2>1. PICK u \in Units : \E s : TaskMove(u, s)
    BY <1>7, TaskMoves
  <2>2. PICK s : TaskMove(u, s)
    BY <2>1
  <2>3. UNCHANGED <<config, original, success>> /\ (phase' = "finished" => phase = "finished")
    BY <1>0, <2>2, TaskPhase, Zenon DEF TaskMove
  <2>4. bucket' \subseteq bucket
    BY <1>7, BucketShrinks
  <2> QED
    BY <2>3, <2>4, TargetFixed DEF SuccessMeansGone
<1>8. CASE Cancel \/ UNCHANGED vars
  <2>1. UNCHANGED <<config, original, bucket, phase, success>>
    BY <1>8, Zenon DEF Cancel, vars
  <2> QED
    BY <2>1, TargetFixed DEF SuccessMeansGone
<1> QED
  BY <1>1, <1>2, <1>3, <1>4, <1>5, <1>6, <1>7, <1>8, StepCases

\* What exit code 2 says of it.
TwoMeansUntouched == (phase = "finished" /\ ExitCode = 2) => bucket = original

\* A run fails without a failed object and without a cancellation only while it
\* resolves the name or lists, when nothing has been deleted yet.
LEMMA UntouchedStep ==
    ASSUME RmInv, TwoMeansUntouched, [Next]_vars PROVE TwoMeansUntouched'
<1> USE DEF askedVars, taskVars, windowVars, countVars
<1>0. Resolved /\ PhaseOK /\ CountsOK /\ FinishSound
  BY DEF RmInv, Typed
<1>p. ASSUME \/ phase' # "finished" \/ success' \/ cancelled' \/ failed_count' > 0
             \/ bucket' = original'
      PROVE  TwoMeansUntouched'
  <2>1. failed_count' > 0 \/ success' \/ cancelled' => ExitCode' # 2
    BY SMT DEF ExitCode
  <2> QED
    BY <1>p, <2>1, Zenon DEF TwoMeansUntouched
<1>1. CASE LookUpSize \/ CheckPresence \/ PeekPrefix \/ ListEnds
  <2>1. phase \in Resolving
    BY <1>1, LookStep
  <2>2. UNCHANGED <<bucket, original>>
    BY <1>1, Zenon DEF LookUpSize, CheckPresence, PeekPrefix, ListEnds, GoTo, Return
  <2> QED
    BY <1>0, <1>p, <2>1, <2>2 DEF Resolved
<1>2. CASE DeleteNamed
  <2>1. Return(TRUE) \/ failed_count' = 1
    BY <1>2, Zenon DEF DeleteNamed
  <2>2. success' \/ failed_count' > 0
    <3>1. ASSUME Return(TRUE) PROVE success'
      <4>1. success' = TRUE
        BY <3>1, ReturnStep, Zenon
      <4> QED
        BY <4>1
    <3>2. failed_count' = 1 => failed_count' > 0
      BY SMT
    <3> QED
      BY <2>1, <3>1, <3>2
  <2> QED
    BY <1>p, <2>2
<1>3. CASE List \/ (\E u \in Units : PostTask(u))
  <2>1. phase' # "finished"
    BY <1>3, SMT DEF List, PostTask
  <2> QED
    BY <1>p, <2>1
<1>4. CASE NextTask \/ CheckWindow \/ LeaveLoop \/ Drain
  <2>1. PICK p \in {"drain", "check", "post", "waiting", "draining"} : GoTo(p)
    BY <1>4, LoopStep
  <2>2. phase' # "finished"
    BY <2>1, GoToStep, SMT
  <2> QED
    BY <1>p, <2>2
<1>5. CASE Finish
  <2>1. /\ success' = (failed_count = 0 /\ ~(cancelled /\ Cardinality(entries) - deleted_count > 0))
        /\ UNCHANGED <<failed_count, cancelled>>
    BY <1>5, Zenon DEF Finish
  <2>2. success' \/ cancelled' \/ failed_count' # 0
    BY <2>1, Zenon
  <2>3. failed_count' \in Nat
    BY <1>0, <2>1 DEF CountsOK
  <2> QED
    BY <1>p, <2>2, <2>3
<1>6. CASE SomeTask
  <2>1. PICK u \in Units : \/ BeginTask(u) \/ TryDelete(u) \/ StopTrying(u) \/ VerifyKey(u)
                            \/ GiveUp(u) \/ ReleaseSlot(u) \/ Notify(u)
    BY <1>6, Zenon DEF SomeTask
  <2>2. CASE phase = "finished"
    <3>1. task[u] \notin {"posted", "deleting", "verify", "count", "release"}
      BY <1>0, <2>2 DEF FinishSound, Busy
    <3>2. Notify(u)
      BY <2>1, <3>1, SMT DEF BeginTask, TryDelete, StopTrying, VerifyKey, GiveUp, ReleaseSlot
    <3>3. UNCHANGED <<original, bucket, failed_count, cancelled, success>>
      BY <3>2, Zenon DEF Notify
    <3> QED
      BY <2>2, <3>3, Zenon DEF TwoMeansUntouched, ExitCode
  <2>3. CASE phase # "finished"
    <3>1. PICK v \in Units : \E m : TaskMove(v, m)
      BY <1>6, TaskMoves
    <3>2. phase' # "finished"
      BY <1>0, <2>3, <3>1, TaskPhase
    <3> QED
      BY <1>p, <3>2
  <2> QED
    BY <2>2, <2>3
<1>7. CASE Cancel
  <2>1. phase' # "finished"
    BY <1>7, Zenon DEF Cancel
  <2> QED
    BY <1>p, <2>1
<1>8. CASE UNCHANGED vars
  BY <1>8, Zenon DEF vars, TwoMeansUntouched, ExitCode
<1> QED
  BY <1>1, <1>2, <1>3, <1>4, <1>5, <1>6, <1>7, <1>8, StepCases

(***************************************************************************)
(* What the end of a run says of the bucket is true: a run that was        *)
(* cancelled on the way, or whose deletions failed and were checked        *)
(* afterwards, reports success only when the target is gone; and exit code *)
(* 2 is given only when nothing has been deleted.                          *)
(***************************************************************************)
THEOREM ExitsAreTrue == Spec => []ExitsTrue
<1> DEFINE Inv == SuccessMeansGone /\ TwoMeansUntouched
<1>1. Init => Inv
  <2> SUFFICES ASSUME Init PROVE Inv
    OBVIOUS
  <2>1. phase # "finished"
    BY SMT DEF Init
  <2> QED
    BY <2>1 DEF SuccessMeansGone, TwoMeansUntouched
<1>2. RmInv /\ Inv /\ [Next]_vars => Inv'
  BY SuccessStep, UntouchedStep
<1>3. Inv => ExitsTrue
  BY Zenon DEF ExitsTrue, SuccessMeansGone, TwoMeansUntouched
<1> QED
  BY <1>1, <1>2, <1>3, RmInvariant, PTL DEF Spec
================================================================================

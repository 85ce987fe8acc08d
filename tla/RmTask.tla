-------------------------------- MODULE RmTask --------------------------------
(***************************************************************************)
(* mito rm (rm_task.cpp, run_rm): resolve the name to an object or a       *)
(* prefix, list the prefix, and delete what was listed, one object or one  *)
(* batch per task, with retries and a final check of what could not be     *)
(* confirmed.                                                              *)
(*                                                                         *)
(* A request to S3 is answered truthfully or fails.  A delete that fails   *)
(* may have been applied all the same.  Nobody else changes the bucket.    *)
(* The streak of successes is left out: a success may or may not be the    *)
(* one that doubles the window.                                            *)
(***************************************************************************)
EXTENDS Integers, FiniteSets

CONSTANTS
    ChildCount,   \* how many objects there may be under the prefix
    BatchSize,    \* BATCH_SIZE: 500
    MaxRetries,   \* config.max_retries
    MaxUnknown,   \* MAX_CONSECUTIVE_UNKNOWN: 3
    MaxThreads,   \* config.max_threads
    StartWindow,  \* initial_concurrency, unless there are fewer threads: 64
    Floor         \* the window is not halved below: 16

ASSUME RmAssumption ==
    /\ ChildCount \in Nat /\ BatchSize \in Nat \ {0} /\ MaxRetries \in Nat
    /\ MaxUnknown \in Nat \ {0} /\ MaxThreads \in Nat \ {0}
    /\ StartWindow \in Nat \ {0} /\ Floor \in Nat \ {0}

Smaller(a, b) == IF a < b THEN a ELSE b
Larger(a, b)  == IF a > b THEN a ELSE b

Named    == 0               \* the object whose key is the name itself
Children == 1..ChildCount   \* the objects under the name followed by "/"

VARIABLES
    config,      \* what was asked for: kind of name, recursive, force, batch
    original,    \* ghost: the bucket at the start
    bucket,      \* the objects there are
    phase,       \* where run_rm is
    entries,     \* what the listing returned
    task,        \* where the task of each batch, or of each object, is
    to_delete,   \* the keys of it not yet confirmed as deleted
    attempt, had_total_failure,
    unchecked,   \* its keys whose presence has not been checked yet
    unknown,     \* consecutive_unknown
    in_flight, current_max_concurrency,
    deleted_count, failed_count, all_failed,
    cancelled, success

taskVars   == <<task, to_delete, attempt, had_total_failure, unchecked, unknown>>
countVars  == <<deleted_count, failed_count, all_failed>>
windowVars == <<in_flight, current_max_concurrency>>
askedVars  == <<config, original>>
vars == <<askedVars, bucket, phase, entries, taskVars, windowVars, countVars,
          cancelled, success>>

Kinds  == {"key", "prefix", "bucket"}   \* "key": does not end with "/"
Phases == {"size", "presence", "peek", "file", "list",
           "next", "check", "waiting", "post", "drain", "draining", "finished"}
TaskStates == {"unposted", "posted", "deleting", "verify", "count", "release",
               "notify", "done"}

Units == Children

\* The keys of a task: a batch of consecutive entries, or one entry.
KeysOf(u) ==
    {k \in entries : IF config.batch
                     THEN (Cardinality({j \in entries : j < k}) \div BatchSize) + 1 = u
                     ELSE k = u}

Unposted == {u \in Units : task[u] = "unposted" /\ KeysOf(u) # {}}

-----------------------------------------------------------------------------

Init ==
    /\ config \in [kind : Kinds, recursive : BOOLEAN, force : BOOLEAN, batch : BOOLEAN]
    /\ bucket \in SUBSET (Children \cup (IF config.kind = "key" THEN {Named} ELSE {}))
    /\ original = bucket
    /\ phase = IF config.kind = "key" THEN "size" ELSE "list"
    /\ entries = {}
    /\ task = [u \in Units |-> "unposted"] /\ to_delete = [u \in Units |-> {}]
    /\ attempt = [u \in Units |-> 0] /\ had_total_failure = [u \in Units |-> FALSE]
    /\ unchecked = [u \in Units |-> {}] /\ unknown = [u \in Units |-> 0]
    /\ in_flight = 0 /\ current_max_concurrency = Smaller(MaxThreads, StartWindow)
    /\ deleted_count = 0 /\ failed_count = 0 /\ all_failed = {}
    /\ cancelled = FALSE /\ success = FALSE

\* run_rm returns before it has posted anything.
Return(ok) ==
    /\ phase' = "finished"
    /\ success' = ok
    /\ UNCHANGED <<askedVars, entries, taskVars, windowVars, cancelled>>

\* On to the next step of the resolution.
GoTo(p) ==
    /\ phase' = p
    /\ UNCHANGED <<askedVars, bucket, entries, taskVars, windowVars, countVars,
                   cancelled, success>>

-----------------------------------------------------------------------------
(* Resolution of the name.                                                 *)

\* GetObjectSize: a size proves the object; -1 proves nothing.
LookUpSize ==
    /\ phase = "size"
    /\ \/ Named \in bucket /\ GoTo("file")
       \/ GoTo("presence")

\* Mutation of CheckPresence: any answer but Exists is read as NotFound.
CheckPresenceTrusting ==
    /\ phase = "presence"
    /\ \/ Named \in bucket /\ GoTo("file")
       \/ GoTo("peek")

\* CheckObjectPresence: Exists, NotFound, or Unknown, which deletes nothing.
CheckPresence ==
    /\ phase = "presence"
    /\ \/ Named \in bucket /\ GoTo("file")
       \/ Named \notin bucket /\ GoTo("peek")
       \/ Return(FALSE) /\ UNCHANGED <<bucket, countVars>>

\* Is there anything under "name/"?  A failed listing is not an empty one, and
\* a directory needs -r.
PeekPrefix ==
    /\ phase = "peek"
    /\ \/ bucket \cap Children # {} /\ config.recursive /\ GoTo("list")
       \/ Return(FALSE) /\ UNCHANGED <<bucket, countVars>>

\* The name is an object.  (With -r a further listing may add a warning.)
DeleteNamed ==
    /\ phase = "file"
    /\ \/ /\ ~config.force
          /\ Return(TRUE)
          /\ UNCHANGED <<bucket, countVars>>
       \/ /\ config.force
          /\ bucket' = bucket \ {Named}
          /\ deleted_count' = 1
          /\ Return(TRUE)
          /\ UNCHANGED <<failed_count, all_failed>>
       \/ /\ config.force
          /\ bucket' \in {bucket, bucket \ {Named}}
          /\ failed_count' = 1 /\ all_failed' = {Named}
          /\ Return(FALSE)
          /\ UNCHANGED deleted_count

\* parallel_enumerate_s3_prefix: the complete listing, with something to delete.
List ==
    /\ phase = "list"
    /\ config.recursive /\ config.force /\ ~cancelled
    /\ bucket \cap Children # {}
    /\ entries' = bucket \cap Children
    /\ phase' = "next"
    /\ UNCHANGED <<askedVars, bucket, taskVars, windowVars, countVars, cancelled,
                   success>>

\* No -r, cancelled, an incomplete listing (any of them may come with entries),
\* nothing found, or a dry run.
ListEnds ==
    /\ phase = "list"
    /\ \/ Return(FALSE)
       \/ /\ config.recursive /\ ~cancelled
          /\ IF bucket \cap Children = {} THEN config.kind = "bucket" ELSE ~config.force
          /\ Return(TRUE)
    /\ UNCHANGED <<bucket, countVars>>

-----------------------------------------------------------------------------
(* The posting loop.                                                       *)

NextTask ==
    /\ phase = "next"
    /\ GoTo(IF cancelled \/ Unposted = {} THEN "drain" ELSE "check")

CheckWindow ==
    /\ phase = "check"
    /\ GoTo(IF in_flight < current_max_concurrency \/ cancelled THEN "post" ELSE "waiting")

PostTask(u) ==
    /\ phase = "post" /\ ~cancelled
    /\ u \in Unposted /\ \A v \in Unposted : u <= v
    /\ in_flight' = in_flight + 1
    /\ task' = [task EXCEPT ![u] = "posted"]
    /\ phase' = "next"
    /\ UNCHANGED <<askedVars, bucket, entries, to_delete, attempt, had_total_failure,
                   unchecked, unknown, current_max_concurrency, countVars, cancelled,
                   success>>

LeaveLoop == phase = "post" /\ cancelled /\ GoTo("drain")

Drain ==
    /\ phase = "drain" /\ in_flight # 0
    /\ GoTo("draining")

\* Mutation of Finish: a cancelled run is judged by objects_failed alone.
FinishByFailures ==
    /\ phase = "drain" /\ in_flight = 0
    /\ phase' = "finished"
    /\ success' = (failed_count = 0)
    /\ UNCHANGED <<askedVars, bucket, entries, taskVars, windowVars, countVars, cancelled>>

\* Nothing is in flight: the pool is joined and the result is made up.
Finish ==
    /\ phase = "drain" /\ in_flight = 0
    /\ phase' = "finished"
    /\ LET remaining == Cardinality(entries) - deleted_count
       IN  success' = (failed_count = 0 /\ ~(cancelled /\ remaining > 0))
    /\ UNCHANGED <<askedVars, bucket, entries, taskVars, windowVars, countVars, cancelled>>

-----------------------------------------------------------------------------
(* The task of a batch (process_batch) or of an object.                    *)

\* The keys in ks are given up: counted and named as failed.
CountFailed(ks) ==
    /\ failed_count' = failed_count + Cardinality(ks)
    /\ all_failed' = all_failed \cup ks

\* A task that starts in a cancelled run fails its keys without a request.
BeginTask(u) ==
    /\ task[u] = "posted"
    /\ IF cancelled
       THEN /\ CountFailed(KeysOf(u))
            /\ task' = [task EXCEPT ![u] = "release"]
            /\ UNCHANGED to_delete
       ELSE /\ to_delete' = [to_delete EXCEPT ![u] = KeysOf(u)]
            /\ task' = [task EXCEPT ![u] = "deleting"]
            /\ UNCHANGED <<failed_count, all_failed>>
    /\ UNCHANGED <<askedVars, bucket, phase, entries, attempt, had_total_failure,
                   unchecked, unknown, windowVars, deleted_count, cancelled, success>>

\* A success may double the window, a failure halves it.
Ramp    == current_max_concurrency' \in {current_max_concurrency,
                                         Smaller(2 * current_max_concurrency, MaxThreads)}
BackOff == LET new_max == Larger(current_max_concurrency \div 2, Floor)
           IN  current_max_concurrency' = Smaller(current_max_concurrency, new_max)

\* After the last attempt: a batch takes any total failure for rate limiting and
\* leaves the window alone when cancelled; an object that is not yet known to be
\* gone waits for its check.
AdaptAfterDelete(u, last) ==
    IF ~last \/ (config.batch /\ cancelled) \/ (~config.batch /\ to_delete'[u] # {})
    THEN UNCHANGED current_max_concurrency
    ELSE IF had_total_failure'[u] /\ config.batch THEN BackOff ELSE Ramp

\* One attempt: DeleteObjects, or DeleteObject, which looks at cancelled first.
\* The keys in failed are reported as failed, and those in applied are gone
\* nevertheless.
TryDelete(u) ==
    /\ task[u] = "deleting"
    /\ config.batch \/ ~cancelled
    /\ \E failed \in SUBSET to_delete[u] : \E applied \in SUBSET failed :
          /\ bucket' = bucket \ ((to_delete[u] \ failed) \cup applied)
          /\ deleted_count' = deleted_count + Cardinality(to_delete[u] \ failed)
          /\ to_delete' = [to_delete EXCEPT ![u] = failed]
          /\ unchecked' = [unchecked EXCEPT ![u] = failed]
          /\ had_total_failure' =
                [had_total_failure EXCEPT ![u] = @ \/ failed = to_delete[u]]
          /\ attempt' = [attempt EXCEPT ![u] = @ + 1]
          /\ task' = [task EXCEPT ![u] =
                         IF failed = {} THEN "release"
                         ELSE IF attempt[u] < MaxRetries THEN "deleting"
                         ELSE IF had_total_failure'[u] THEN "verify" ELSE "count"]
    /\ AdaptAfterDelete(u, task'[u] # "deleting")
    /\ UNCHANGED <<askedVars, phase, entries, unknown, in_flight, failed_count,
                   all_failed, cancelled, success>>

\* The task of an object gives up before its next attempt.
StopTrying(u) ==
    /\ task[u] = "deleting"
    /\ ~config.batch /\ cancelled
    /\ task' = [task EXCEPT ![u] = "count"]
    /\ UNCHANGED <<askedVars, bucket, phase, entries, to_delete, attempt,
                   had_total_failure, unchecked, unknown, windowVars, countVars,
                   cancelled, success>>

\* Mutation of VerifyKey: anything but Exists is credited as a deletion.
VerifyKeyTrusting(u) ==
    /\ task[u] = "verify"
    /\ \E k \in unchecked[u] :
          /\ \A j \in unchecked[u] : k <= j
          /\ unchecked' = [unchecked EXCEPT ![u] = @ \ {k}]
          /\ \/ /\ to_delete' = [to_delete EXCEPT ![u] = @ \ {k}]
                /\ deleted_count' = deleted_count + 1
             \/ k \in bucket /\ UNCHANGED <<to_delete, deleted_count>>
    /\ task' = [task EXCEPT ![u] = IF unchecked'[u] = {} THEN "count" ELSE "verify"]
    /\ UNCHANGED <<askedVars, bucket, phase, entries, attempt, had_total_failure,
                   unknown, windowVars, failed_count, all_failed, cancelled, success>>

\* CheckObjectPresence of the next key: only NotFound counts as deleted, Exists
\* and Unknown do not.  A batch stops asking when it is cancelled or after
\* MaxUnknown unknown answers.  (A batch credits confirmed_deleted at the end.)
VerifyKey(u) ==
    /\ task[u] = "verify"
    /\ \E k \in unchecked[u] :
          /\ \A j \in unchecked[u] : k <= j
          /\ unchecked' = [unchecked EXCEPT ![u] = @ \ {k}]
          /\ IF config.batch /\ (cancelled \/ unknown[u] >= MaxUnknown)
             THEN UNCHANGED <<to_delete, unknown, deleted_count, current_max_concurrency>>
             ELSE \/ /\ k \notin bucket
                     /\ to_delete' = [to_delete EXCEPT ![u] = @ \ {k}]
                     /\ deleted_count' = deleted_count + 1
                     /\ unknown' = [unknown EXCEPT ![u] = 0]
                     /\ IF config.batch THEN UNCHANGED current_max_concurrency ELSE Ramp
                  \/ /\ unknown' \in {[unknown EXCEPT ![u] = @ + 1]} \cup
                                     (IF k \in bucket THEN {unknown} ELSE {})
                     /\ IF config.batch THEN UNCHANGED current_max_concurrency ELSE BackOff
                     /\ UNCHANGED <<to_delete, deleted_count>>
    /\ task' = [task EXCEPT ![u] = IF unchecked'[u] = {} THEN "count" ELSE "verify"]
    /\ UNCHANGED <<askedVars, bucket, phase, entries, attempt, had_total_failure,
                   in_flight, failed_count, all_failed, cancelled, success>>

\* What is left has failed.
GiveUp(u) ==
    /\ task[u] = "count"
    /\ CountFailed(to_delete[u])
    /\ task' = [task EXCEPT ![u] = "release"]
    /\ UNCHANGED <<askedVars, bucket, phase, entries, to_delete, attempt,
                   had_total_failure, unchecked, unknown, windowVars, deleted_count,
                   cancelled, success>>

\* The destructor of Guard: the slot is released before the mutex is taken ...
ReleaseSlot(u) ==
    /\ task[u] = "release"
    /\ in_flight' = in_flight - 1
    /\ task' = [task EXCEPT ![u] = "notify"]
    /\ UNCHANGED <<askedVars, bucket, phase, entries, to_delete, attempt,
                   had_total_failure, unchecked, unknown, current_max_concurrency,
                   countVars, cancelled, success>>

\* What notify_one does to the posting loop, its only waiter.
Woken(p) == CASE p = "waiting" -> "check" [] p = "draining" -> "drain" [] OTHER -> p

\* Mutation of Notify: the drain is not woken.
NotifyPosting(u) ==
    /\ task[u] = "notify"
    /\ phase' = IF phase = "waiting" THEN "check" ELSE phase
    /\ task' = [task EXCEPT ![u] = "done"]
    /\ UNCHANGED <<askedVars, bucket, entries, to_delete, attempt, had_total_failure,
                   unchecked, unknown, windowVars, countVars, cancelled, success>>

\* ... and the loop is notified under it.
Notify(u) ==
    /\ task[u] = "notify"
    /\ phase' = Woken(phase)
    /\ task' = [task EXCEPT ![u] = "done"]
    /\ UNCHANGED <<askedVars, bucket, entries, to_delete, attempt, had_total_failure,
                   unchecked, unknown, windowVars, countVars, cancelled, success>>

-----------------------------------------------------------------------------

\* main.cpp sets progress.cancelled.
Cancel ==
    /\ ~cancelled /\ phase # "finished"
    /\ cancelled' = TRUE
    /\ UNCHANGED <<askedVars, bucket, phase, entries, taskVars, windowVars, countVars,
                   success>>

Resolve == LookUpSize \/ CheckPresence \/ PeekPrefix \/ DeleteNamed \/ List \/ ListEnds

PostStep ==
    \/ NextTask \/ CheckWindow \/ (\E u \in Units : PostTask(u)) \/ LeaveLoop
    \/ Drain \/ Finish

TaskStep(u) ==
    \/ BeginTask(u) \/ TryDelete(u) \/ StopTrying(u) \/ VerifyKey(u) \/ GiveUp(u)
    \/ ReleaseSlot(u) \/ Notify(u)

Next ==
    \/ Resolve \/ PostStep
    \/ \E u \in Units : TaskStep(u)
    \/ Cancel

Spec == Init /\ [][Next]_vars

\* Threads are scheduled and requests end; nothing relies on a cancellation or
\* on the window.
Fairness == WF_vars(Resolve \/ PostStep) /\ \A u \in Units : WF_vars(TaskStep(u))

FairSpec == Spec /\ Fairness

-----------------------------------------------------------------------------

\* The type invariant.
TypeOK ==
    /\ config \in [kind : Kinds, recursive : BOOLEAN, force : BOOLEAN, batch : BOOLEAN]
    /\ original \subseteq Children \cup {Named} /\ bucket \subseteq original
    /\ phase \in Phases
    /\ entries \subseteq Children
    /\ task \in [Units -> TaskStates]
    /\ to_delete \in [Units -> SUBSET Children] /\ unchecked \in [Units -> SUBSET Children]
    /\ attempt \in [Units -> 0..(MaxRetries + 1)]
    /\ had_total_failure \in [Units -> BOOLEAN]
    /\ unknown \in [Units -> Nat]
    /\ in_flight \in 0..MaxThreads /\ current_max_concurrency \in 1..MaxThreads
    /\ deleted_count \in Nat /\ failed_count \in Nat
    /\ all_failed \subseteq Children \cup {Named}
    /\ cancelled \in BOOLEAN /\ success \in BOOLEAN

\* What the user asked to delete: with --force, the object of that name if there
\* is one, else with -r what is under the prefix.
Target ==
    IF ~config.force THEN {}
    ELSE IF Named \in original THEN {Named}
    ELSE IF config.recursive THEN original \cap Children ELSE {}

(***************************************************************************)
(* Whatever requests fail while the name is resolved, nothing but the      *)
(* target is ever deleted: an object is not mistaken for a prefix (issue   *)
(* 59), and a dry run deletes nothing.                                     *)
(***************************************************************************)
OnlyTarget == original \ bucket \subseteq Target

(***************************************************************************)
(* The counts are honest: no more objects are reported as deleted than are *)
(* gone, however many attempts, ambiguous failures and checks it took, a   *)
(* failed key is named, and a run that was not cancelled accounts for      *)
(* every entry exactly once.                                               *)
(***************************************************************************)
CountsHonest ==
    /\ deleted_count <= Cardinality(original \ bucket)
    /\ phase = "finished" => failed_count = Cardinality(all_failed)
    /\ (phase = "finished" /\ ~cancelled /\ entries # {}) =>
          deleted_count + failed_count = Cardinality(entries)

\* The exit code of the command.  A run that was not cancelled has an error
\* message exactly when it fails without a failed object.
ExitCode == IF cancelled THEN 130
            ELSE IF failed_count > 0 THEN 1
            ELSE IF success THEN 0 ELSE 2

(***************************************************************************)
(* What the end of a run says is true of the bucket: success, cancelled on *)
(* the way or not, and so exit code 0, means that the whole target is      *)
(* gone; exit code 2, that nothing was deleted, be it for a wrong command  *)
(* line or for a listing that failed.  (An exception in run_rm, which also *)
(* ends with 2 whatever was deleted before it, is not modelled.)           *)
(***************************************************************************)
ExitsTrue ==
    phase = "finished" =>
        /\ success => Target \cap bucket = {}
        /\ ExitCode = 2 => bucket = original

\* The run ends, cancelled or not.
Finishes == <>(phase = "finished")
=============================================================================

------------------------------ MODULE WriteQueue ------------------------------
(***************************************************************************)
(* The disk write queue of a download (sync_task.cpp, run_sync).           *)
(*                                                                         *)
(* Pool threads fetch objects and push them on a bounded queue; the disk   *)
(* writer threads pop them and write the files.  Both kinds of thread wait *)
(* on ONE condition variable, write_queue_cv, and every push and every pop *)
(* calls notify_one AFTER releasing the mutex, so a notification may wake  *)
(* a thread of either kind and may be issued long after the push or pop it *)
(* announces.  The critical sections (evaluate the predicate, then push,   *)
(* pop or join the wait set) are atomic: write_queue_mutex is held.        *)
(***************************************************************************)
EXTENDS Integers, Sequences, FiniteSets

CONSTANTS
    Files,       \* the files planned as SyncAction::Download
    Producers,   \* the threads of the pool, max_concurrency of them
    Writers,     \* the disk writers, DISK_WRITER_THREADS of them
    Capacity,    \* WRITE_QUEUE_MAX_SIZE
    NoFile       \* "this thread holds no file"

ASSUME ConstantsAssumption ==
    /\ IsFiniteSet(Files) /\ IsFiniteSet(Producers) /\ IsFiniteSet(Writers)
    /\ Producers # {} /\ Writers # {}
    /\ Capacity \in Nat \ {0}
    /\ NoFile \notin Files

VARIABLES
    todo,              \* files no pool thread has started
    write_queue,       \* std::queue<WriteJob>
    pst, pjob,         \* control state and file of each pool thread
    wst, wjob,         \* control state and file of each disk writer
    progress_cancelled, \* progress.cancelled
    write_queue_done,  \* set once the pool has nothing in flight
    main,              \* what run_sync itself is doing
    written,           \* files counted in download_count / write_queue_success
    failed,            \* files counted in fail_count / write_queue_fail
    dropped            \* fetched files a cancelled run did not enqueue

queueVars == <<todo, write_queue, pst, pjob, wst, wjob, progress_cancelled,
          write_queue_done, main, written, failed, dropped>>

\* "enqueue": holds fetched data, about to lock and evaluate the predicate;
\* "notify": has released the mutex, about to call notify_one.
ProducerStates == {"idle", "fetch", "enqueue", "waiting", "notify"}
WriterStates   == {"check", "waiting", "notify", "write", "exited"}
MainStates     == {"submitting", "notify_all", "joining", "finished"}

-----------------------------------------------------------------------------

QueueInit ==
    /\ todo = Files
    /\ write_queue = << >>
    /\ pst = [p \in Producers |-> "idle"] /\ pjob = [p \in Producers |-> NoFile]
    /\ wst = [w \in Writers |-> "check"]  /\ wjob = [w \in Writers |-> NoFile]
    /\ progress_cancelled = FALSE
    /\ write_queue_done = FALSE
    /\ main = "submitting"
    /\ written = {} /\ failed = {} /\ dropped = {}

(***************************************************************************)
(* notify_one on write_queue_cv: it wakes one waiting thread, of either    *)
(* kind, or is lost when nobody waits.  ps and ws are the control states   *)
(* after the caller's own move.                                            *)
(***************************************************************************)
NotifyOne(ps, ws) ==
    \/ \E p \in Producers : /\ ps[p] = "waiting"
                            /\ pst' = [ps EXCEPT ![p] = "enqueue"]
                            /\ wst' = ws
    \/ \E w \in Writers :   /\ ws[w] = "waiting"
                            /\ wst' = [ws EXCEPT ![w] = "check"]
                            /\ pst' = ps
    \/ /\ \A p \in Producers : ps[p] # "waiting"
       /\ \A w \in Writers : ws[w] # "waiting"
       /\ pst' = ps
       /\ wst' = ws

-----------------------------------------------------------------------------
(* Pool threads: process_file for SyncAction::Download.                    *)

\* A pool thread takes a submitted file; a cancelled run submits no more.
StartFile(p, f) ==
    /\ main = "submitting"
    /\ ~progress_cancelled
    /\ pst[p] = "idle"
    /\ f \in todo
    /\ todo' = todo \ {f}
    /\ pst' = [pst EXCEPT ![p] = "fetch"]
    /\ pjob' = [pjob EXCEPT ![p] = f]
    /\ UNCHANGED <<write_queue, wst, wjob, progress_cancelled, write_queue_done, main,
                   written, failed, dropped>>

\* The data is at hand: pre-fetched, or fetched within MAX_RETRIES.
FetchSucceeds(p) ==
    /\ pst[p] = "fetch"
    /\ pst' = [pst EXCEPT ![p] = "enqueue"]
    /\ UNCHANGED <<todo, write_queue, pjob, wst, wjob, progress_cancelled,
                   write_queue_done, main, written, failed, dropped>>

\* A zero-byte object is written by the pool thread itself, with no queueing.
WriteEmptyFile(p) ==
    /\ pst[p] = "fetch"
    /\ pst' = [pst EXCEPT ![p] = "idle"]
    /\ pjob' = [pjob EXCEPT ![p] = NoFile]
    /\ written' = written \cup {pjob[p]}
    /\ UNCHANGED <<todo, write_queue, wst, wjob, progress_cancelled, write_queue_done,
                   main, failed, dropped>>

\* Retries exhausted, or (also for an empty file) the write failed: counted
\* as a failure unless the run was cancelled.
FetchFails(p) ==
    /\ pst[p] = "fetch"
    /\ pst' = [pst EXCEPT ![p] = "idle"]
    /\ pjob' = [pjob EXCEPT ![p] = NoFile]
    /\ \/ /\ ~progress_cancelled
          /\ failed' = failed \cup {pjob[p]}
          /\ UNCHANGED dropped
       \/ /\ progress_cancelled
          /\ dropped' = dropped \cup {pjob[p]}
          /\ UNCHANGED failed
    /\ UNCHANGED <<todo, write_queue, wst, wjob, progress_cancelled, write_queue_done,
                   main, written>>

\* The critical section of the enqueue when its predicate is false: join the
\* wait set.
EnqueueBlocks(p) ==
    /\ pst[p] = "enqueue"
    /\ Len(write_queue) >= Capacity
    /\ ~progress_cancelled
    /\ pst' = [pst EXCEPT ![p] = "waiting"]
    /\ UNCHANGED <<todo, write_queue, pjob, wst, wjob, progress_cancelled,
                   write_queue_done, main, written, failed, dropped>>

\* Mutation of Enqueue: the bound is tested with <= instead of <.
EnqueuePastLimit(p) ==
    /\ pst[p] = "enqueue" /\ ~progress_cancelled
    /\ Len(write_queue) <= Capacity
    /\ write_queue' = Append(write_queue, pjob[p])
    /\ pst' = [pst EXCEPT ![p] = "notify"]
    /\ pjob' = [pjob EXCEPT ![p] = NoFile]
    /\ UNCHANGED <<todo, wst, wjob, progress_cancelled, write_queue_done, main,
                   written, failed, dropped>>

\* ... and when it is true: push, or drop the data of a cancelled run.
Enqueue(p) ==
    /\ pst[p] = "enqueue"
    /\ \/ /\ ~progress_cancelled
          /\ Len(write_queue) < Capacity
          /\ write_queue' = Append(write_queue, pjob[p])
          /\ UNCHANGED dropped
       \/ /\ progress_cancelled
          /\ dropped' = dropped \cup {pjob[p]}
          /\ UNCHANGED write_queue
    /\ pst' = [pst EXCEPT ![p] = "notify"]
    /\ pjob' = [pjob EXCEPT ![p] = NoFile]
    /\ UNCHANGED <<todo, wst, wjob, progress_cancelled, write_queue_done, main,
                   written, failed>>

\* Mutation of EnqueueNotify: the notification is missing.
EnqueueNotifyMissing(p) ==
    /\ pst[p] = "notify"
    /\ pst' = [pst EXCEPT ![p] = "idle"]
    /\ UNCHANGED <<todo, write_queue, wst, pjob, wjob, progress_cancelled,
                   write_queue_done, main, written, failed, dropped>>

\* write_queue_cv.notify_one() after the enqueue's critical section.
EnqueueNotify(p) ==
    /\ pst[p] = "notify"
    /\ NotifyOne([pst EXCEPT ![p] = "idle"], wst)
    /\ UNCHANGED <<todo, write_queue, pjob, wjob, progress_cancelled,
                   write_queue_done, main, written, failed, dropped>>

-----------------------------------------------------------------------------
(* Disk writers.                                                           *)

\* The queue holds a job: pop it.
Dequeue(w) ==
    /\ wst[w] = "check"
    /\ write_queue # << >>
    /\ wjob' = [wjob EXCEPT ![w] = Head(write_queue)]
    /\ write_queue' = Tail(write_queue)
    /\ wst' = [wst EXCEPT ![w] = "notify"]
    /\ UNCHANGED <<todo, pst, pjob, progress_cancelled, write_queue_done, main,
                   written, failed, dropped>>

\* Mutation of DequeueBlocks: write_queue_done is honoured before the queue is
\* drained.
DequeueExitsEarly(w) ==
    /\ wst[w] = "check"
    /\ write_queue = << >> \/ write_queue_done
    /\ wst' = [wst EXCEPT ![w] = IF write_queue_done THEN "exited" ELSE "waiting"]
    /\ UNCHANGED <<todo, write_queue, pst, pjob, wjob, progress_cancelled,
                   write_queue_done, main, written, failed, dropped>>

\* The queue is empty: leave the loop when the run is done, wait otherwise.
DequeueBlocks(w) ==
    /\ wst[w] = "check"
    /\ write_queue = << >>
    /\ wst' = [wst EXCEPT ![w] = IF write_queue_done THEN "exited" ELSE "waiting"]
    /\ UNCHANGED <<todo, write_queue, pst, pjob, wjob, progress_cancelled,
                   write_queue_done, main, written, failed, dropped>>

\* write_queue_cv.notify_one(), "Notify producers waiting on backpressure".
DequeueNotify(w) ==
    /\ wst[w] = "notify"
    /\ NotifyOne(pst, [wst EXCEPT ![w] = "write"])
    /\ UNCHANGED <<todo, write_queue, pjob, wjob, progress_cancelled,
                   write_queue_done, main, written, failed, dropped>>

\* download_from_data, which succeeds or fails, then back to the loop's head.
WriteFile(w) ==
    /\ wst[w] = "write"
    /\ wst' = [wst EXCEPT ![w] = "check"]
    /\ wjob' = [wjob EXCEPT ![w] = NoFile]
    /\ \/ written' = written \cup {wjob[w]} /\ UNCHANGED failed
       \/ failed' = failed \cup {wjob[w]} /\ UNCHANGED written
    /\ UNCHANGED <<todo, write_queue, pst, pjob, progress_cancelled,
                   write_queue_done, main, dropped>>

-----------------------------------------------------------------------------
(* run_sync: cancellation and the shutdown sequence.                       *)

\* The progress loop of main.cpp sets progress.cancelled; nobody is notified.
CancelProgress ==
    /\ ~progress_cancelled
    /\ main = "submitting"
    /\ progress_cancelled' = TRUE
    /\ UNCHANGED <<todo, write_queue, pst, pjob, wst, wjob, write_queue_done,
                   main, written, failed, dropped>>

\* in_flight = 0 and the pool is joined: write_queue_done is set under the
\* mutex.
SetDone ==
    /\ main = "submitting"
    /\ todo = {} \/ progress_cancelled
    /\ \A p \in Producers : pst[p] = "idle"
    /\ write_queue_done' = TRUE
    /\ main' = "notify_all"
    /\ UNCHANGED <<todo, write_queue, pst, pjob, wst, wjob, progress_cancelled,
                   written, failed, dropped>>

\* Mutation of NotifyAll: run_sync joins the writers without waking them.
NotifyAllMissing ==
    /\ main = "notify_all"
    /\ main' = "joining"
    /\ UNCHANGED <<todo, write_queue, pst, pjob, wst, wjob, progress_cancelled,
                   write_queue_done, written, failed, dropped>>

\* write_queue_cv.notify_all(), outside the mutex.
NotifyAll ==
    /\ main = "notify_all"
    /\ wst' = [w \in Writers |-> IF wst[w] = "waiting" THEN "check" ELSE wst[w]]
    /\ main' = "joining"
    /\ UNCHANGED <<todo, write_queue, pst, pjob, wjob, progress_cancelled,
                   write_queue_done, written, failed, dropped>>

\* Every writer is joined; the counts are read.
Join ==
    /\ main = "joining"
    /\ \A w \in Writers : wst[w] = "exited"
    /\ main' = "finished"
    /\ UNCHANGED <<todo, write_queue, pst, pjob, wst, wjob, progress_cancelled,
                   write_queue_done, written, failed, dropped>>

\* A condition variable may wake a waiter that nobody notified.
SpuriousWake ==
    /\ \/ \E p \in Producers : /\ pst[p] = "waiting"
                               /\ pst' = [pst EXCEPT ![p] = "enqueue"]
                               /\ UNCHANGED wst
       \/ \E w \in Writers :   /\ wst[w] = "waiting"
                               /\ wst' = [wst EXCEPT ![w] = "check"]
                               /\ UNCHANGED pst
    /\ UNCHANGED <<todo, write_queue, pjob, wjob, progress_cancelled,
                   write_queue_done, main, written, failed, dropped>>

-----------------------------------------------------------------------------

ProducerStep(p) ==
    \/ \E f \in Files : StartFile(p, f)
    \/ FetchSucceeds(p)
    \/ WriteEmptyFile(p)
    \/ FetchFails(p)
    \/ EnqueueBlocks(p)
    \/ Enqueue(p)
    \/ EnqueueNotify(p)

WriterStep(w) ==
    \/ Dequeue(w)
    \/ DequeueBlocks(w)
    \/ DequeueNotify(w)
    \/ WriteFile(w)

MainStep == SetDone \/ NotifyAll \/ Join

QueueNext ==
    \/ \E p \in Producers : ProducerStep(p)
    \/ \E w \in Writers : WriterStep(w)
    \/ MainStep
    \/ CancelProgress
    \/ SpuriousWake

QueueSpec == QueueInit /\ [][QueueNext]_queueVars

(***************************************************************************)
(* Every thread runs: the kernel schedules it, and fetches and writes end  *)
(* (the client has timeouts).  Cancellation and spurious wake-ups are not  *)
(* fair: nothing may depend on them.                                       *)
(***************************************************************************)
Fairness ==
    /\ \A p \in Producers : WF_queueVars(ProducerStep(p))
    /\ \A w \in Writers : WF_queueVars(WriterStep(w))
    /\ WF_queueVars(MainStep)

FairQueueSpec == QueueSpec /\ Fairness

-----------------------------------------------------------------------------

\* The type invariant of the pool, the queue and the writers.
QueueTypeOK ==
    /\ todo \subseteq Files
    /\ write_queue \in Seq(Files) /\ Len(write_queue) <= Capacity
    /\ pst \in [Producers -> ProducerStates]
    /\ pjob \in [Producers -> Files \cup {NoFile}]
    /\ \A p \in Producers :
          pst[p] \in {"fetch", "enqueue", "waiting"} <=> pjob[p] # NoFile
    /\ wst \in [Writers -> WriterStates]
    /\ wjob \in [Writers -> Files \cup {NoFile}]
    /\ \A w \in Writers : wst[w] \in {"notify", "write"} <=> wjob[w] # NoFile
    /\ progress_cancelled \in BOOLEAN /\ write_queue_done \in BOOLEAN
    /\ main \in MainStates
    /\ written \subseteq Files /\ failed \subseteq Files /\ dropped \subseteq Files

WaitingProducers == {p \in Producers : pst[p] = "waiting"}
WaitingWriters   == {w \in Writers : wst[w] = "waiting"}

(***************************************************************************)
(* The pool is small for the queue: NoStall and Finishes depend on it.     *)
(* The program has 1024 slots and 64 writers, so up to 896 pool threads    *)
(* (--threads, 256 by default) satisfy it; --threads has no upper limit.   *)
(***************************************************************************)
PoolFitsQueue == Cardinality(Producers) + 2 * Cardinality(Writers) <= Capacity

(***************************************************************************)
(* Backpressure never stalls the run: while a pool thread waits for room   *)
(* some disk writer is awake, and while every disk writer waits for work   *)
(* the queue is empty or a pool thread is about to notify.  The mixed wait *)
(* set and the late notify_one of lines 2718-2727 and 2937-2949 are what   *)
(* could break it: a notification meant for one kind of thread may be      *)
(* spent on the other.                                                     *)
(***************************************************************************)
NoStall ==
    /\ WaitingProducers # {} =>
          \E w \in Writers : wst[w] \notin {"waiting", "exited"}
    /\ (WaitingWriters = Writers /\ write_queue # << >>) =>
          \E p \in Producers : pst[p] = "notify"

\* How many threads of each kind are in a control state.
NumP(s) == Cardinality({p \in Producers : pst[p] = s})
NumW(s) == Cardinality({w \in Writers : wst[w] = s})

(***************************************************************************)
(* Why NoStall holds.  While a pool thread waits, every free slot of the   *)
(* queue is covered by a notification still to be sent, a woken pool       *)
(* thread, or a disk writer that is not waiting.  While every disk writer  *)
(* waits, no pool thread does, and each queued job has its notification    *)
(* still to be sent.  The shutdown sequence finds the pool idle.           *)
(***************************************************************************)
SlotsCovered ==
    NumP("waiting") > 0 =>
        Capacity - Len(write_queue) <=
            NumW("notify") + NumP("notify") + NumP("enqueue")
            + (Cardinality(Writers) - NumW("waiting"))

JobsAnnounced ==
    NumW("waiting") = Cardinality(Writers) =>
        NumP("waiting") = 0 /\ Len(write_queue) <= NumP("notify")

ShutdownOrder ==
    /\ write_queue_done <=> main # "submitting"
    /\ main # "submitting" => \A p \in Producers : pst[p] = "idle"
    /\ \A w \in Writers : wst[w] = "exited" => write_queue_done

BackpressureInv == QueueTypeOK /\ SlotsCovered /\ JobsAnnounced /\ ShutdownOrder

(***************************************************************************)
(* When run_sync reads the counts, every job handed to the queue has been  *)
(* written or counted as failed, none twice, and a run that was not        *)
(* cancelled has accounted for every planned file (lines 2722 and          *)
(* 3140-3154: the writers drain the queue before they honour               *)
(* write_queue_done).                                                      *)
(***************************************************************************)
CountsComplete ==
    /\ written \cap failed = {}
    /\ dropped \cap (written \cup failed) = {}
    /\ main = "finished" =>
          /\ write_queue = << >>
          /\ written \cup failed \cup dropped \cup todo = Files
          /\ ~progress_cancelled => written \cup failed = Files

(***************************************************************************)
(* The run ends: no thread is left waiting on write_queue_cv (or blocked   *)
(* in a join on one that is), cancelled or not.                            *)
(***************************************************************************)
Finishes == <>(main = "finished")
=============================================================================

# TLA+ models of mito

`mito` compares, copies and deletes trees of files between local directories
and S3. Most of what it promises depends on many threads, on requests that
fail and are retried, on runs that are interrupted and repeated, and on whole
seconds of timestamps. This directory models those parts, checks them with TLC
on small instances and proves the central facts with TLAPS for all instances.

Paths below are relative to the repository's `src/` and `include/`; line
numbers are those of the commit the models were written from. `PROJECT.json`
maps every definition to its lines.

## 1. Inventory

| Component | State | Operations | What is hard | What makes it correct |
|---|---|---|---|---|
| `sync_task.cpp`, `run_sync`: disk write queue | queue of at most 1024 jobs, one mutex, one condition variable, `write_queue_done`, counters | pool threads fetch and enqueue; 64 disk writers dequeue and write; shutdown | two kinds of waiters share one condition variable; notifications after the unlock; cancellation notifies nobody | never stalls, no job lost, every file counted, ends |
| `run_sync`: transfer window | `in_flight`, `current_max_concurrency`, `consecutive_successes`, pool | submit loop, `process_with_tracking`, drain | atomics read and exchanged outside the mutex, wake-ups on release only | slots exact, window bounded, each file once, ends |
| `run_sync`: prefetch cache | `io_cache`, `io_cache_bytes`, `prefetch_index` | prefetch threads insert, submit loop takes | entries nobody takes, full cache | bounded, never blocks the run |
| `sync_task.cpp`: download of a file | the file, its mtime, temporary file, chunks in progress | classify, fetch, atomic replace, differential patch in place, mark as incomplete | interrupted patches, equal seconds, failures between steps | what is reported or skipped is the object; repeated runs converge |
| `sync_task.cpp`: temporary files | `.name-pid-n.mito-tmp` files | create, rename, sweep | killed runs, concurrent runs | no temporary file is synced or taken from its owner |
| `sync_task.cpp`: upload, server-side and local copies | multipart upload, parts | `diff_upload_file`, `upload_small_file`, `copy_s3_object`, `copy_local_file` | the object or the file changes between checksum and part; abort fails | the object is the file; an upload left behind can be found |
| `run_sync` as a whole | both listings, the plan, counters | sweep, list, refuse, classify, sweep again, transfer, delete | partial listings, links, another sync at work, cancellation | only orphans are deleted; success means mirrored |
| `directory_comparison.cpp`: enumeration | the current and the next level, entries, completeness and alias flags | parallel level-by-level listing | results merged by many tasks, one failed page, links met by two tasks | exact or reported as not; returns |
| `directory_comparison.cpp`, `comparison_task.cpp`: comparison | listings, thread budget, window, one record per file | list both, refuse, compare by checksums, merge, exit code | adaptive window, cancellation, budgets of few threads | no verdict lost or wrong; a failure is never "equal"; ends |
| `rm_task.cpp` | resolution of the name, listing, batches, counters | resolve, list, delete with retries, verify | ambiguous failures, retries of applied deletes, cancellation | only the named target is deleted; success means gone |
| `leftovers_task.cpp` | paging markers, counters | list and abort multipart uploads | uploads begun, finished and aborted while it pages | success means that every upload asked about is gone |
| `s3_utils.cpp` | `UploadRegistry`, parts in flight | checksums by `UploadPartCopy`, abort at exit | skipped, late and failed chunks; aborts that race with copies or fail | checksums are honest; an upload is closed or was tried twice |
| `s3_client_impl.cpp` | none between calls | HEAD, presence, list, ranged reads, deletes, streamed uploads, multipart requests, each with its retries | services that are not quite S3, ambiguous failures, writers in between | what is returned as a success is so |
| `cloud_metrics.cpp` | counters in memory and in a file | record, load, save | several processes, kills, full disks | the file is never torn; history is lost in known ways only |
| `dns_cache.cpp`, `cached_dns_http_client.cpp` | addresses with expiry, round-robin index | resolve, rewrite | expiry, concurrent refresh | an address is one the resolver gave |
| `main.cpp` | shutdown flag | commands, signals, exit codes | a signal at any point, a second one during cleanup | the exit code tells what happened |
| CRC32, byte providers, reports, settings, parsers | none worth modelling | | | |

`main.cpp` runs a command in a background thread and polls; the first signal
sets a flag that the poll turns into `progress.cancelled`, which every loop
reads; the second signal exits at once. `run_sync` enumerates both sides
(`directory_comparison.cpp`), classifies each file, and runs the actionable
ones through the transfer window; a task calls the per-file functions, which
call the S3 client; downloads of small files end in the write queue.

## 2. Modules

| Module | Models |
|---|---|
| `WriteQueue` | the disk write queue of a download, with the pool, the writers and the shutdown of `run_sync` |
| `MCWriteQueue` | its TLC instances |
| `BoundedExecution` | what the transfer phase promises, abstractly |
| `TransferWindow` | submit loop, adaptive window and drain of `run_sync`; implements `BoundedExecution` |
| `MCTransferWindow` | its TLC instance |
| `DownloadFile` | one file over repeated download runs, with its runs in the `download_file*.cfg` |
| `DownloadProofs` | the theorems of `WriteQueue` and `DownloadFile` |
| `Listing` | what a listing promises to its callers |
| `Enumerate` | the parallel listing of a tree or prefix; keeps the promise of `Listing` |
| `MCEnumerate` | its TLC instance |
| `EnumerateProofs` | its theorems |
| `SyncRun` | `run_sync` as a whole, on top of `Listing` |
| `MCSyncRun` | its TLC instances |
| `SyncRunProofs` | its theorems |
| `RmTask` | the `rm` command |
| `MCRmTask` | its TLC instance |
| `RmTaskProofs` | its theorems |
| `S3Client` | the requests of the S3 client and their retries, against services that are not quite S3 |
| `TransferProofs` | the theorems of `TransferWindow`, the refinement included, and of `S3Client` |
| `Uploads` | chunk checksums, server-side copies, differential uploads, the upload registry and `leftovers` |
| `UploadsProofs` | its theorems |
| `DirCompare` | the `diff` command, on top of `Listing` |
| `MCDirCompare` | its TLC instance |
| `DirCompareProofs` | its theorems |
| `Command` | commands as processes that share the metrics file: signals, saves and exit codes |
| `CommandProofs` | its theorems |

### WriteQueue

Pool threads (`pst`, `pjob`) and disk writers (`wst`, `wjob`) are small state
machines. A critical section of `write_queue_mutex` is one step; `notify_one`,
which the code calls after the unlock, is another, so it may come late. A
thread that waits on `write_queue_cv` is in state `waiting`; `NotifyOne` moves
one waiter of either kind, chosen arbitrarily, or is lost when nobody waits.
`CancelProgress` is the progress loop of `main.cpp` setting `progress.cancelled`, which
notifies nobody. A fetch is one step that succeeds or fails, prefetched or not.

### TransferWindow and BoundedExecution

Every access to an atomic outside the mutex is a step of its own: a task
returns (`TaskFails`, `TaskSucceeds`), resets or advances the streak, loads the
window (`LoadWindow`) and exchanges it (`ReduceWindow`, `RaiseWindow`), so that
other tasks act in between. `compare_exchange_weak` may fail although the value
is the one loaded; in the loop of a failed task that only repeats the step. The
counter of successes is kept modulo the ramp interval, the only way it is read.
`BoundedExecution` says what this amounts to: each file is processed at most
once, at most `Limit` at a time, is counted exactly once unless the run was
cancelled, and the phase does not end before that. `Outcome` is the mapping.

### DownloadFile

Contents are sequences of chunks; equal checksums stand for equal chunks. One
partly written chunk is `Torn`, and a file whose last chunk is cut short is
`ragged`. Times are whole seconds; the file is stamped by the local clock, `Lag`
seconds behind the service. A run classifies the file (`Plan`), replaces it
through a temporary file or patches it (`FetchChunk`, `PwritePart`,
`PwriteRest` by several workers), and may fail, be cancelled or be killed at any
step; then another run starts. `disturbed` is a ghost that remembers the two
things the design does not defend against: a kill during a patch and a change
of the object during a run. Assumed: clearing the mtime of an abandoned patch
succeeds (the code only warns when it does not), and the local clock is not
ahead of the service.

### Listing and Enumerate

`Outcomes` is the contract between a listing and those who act on it: unless it
was cancelled, a listing that is reported complete and without an omitted alias
has every file. `Enumerate` is one module for the local and the S3 version, which
have the same structure: the caller starts a level, posts a task for each
directory (or processes a single one itself), reads `pending_tasks` without the
mutex, waits, collects. A task reads its entries one at a time, so that others
and the cancellation come in between, merges under `mutex`, and counts down under
`cv_mutex`; the last one is in state `notify` as long as it holds that mutex.
`visited` is the set of link targets that were followed. The tree does not change
while it is listed. The local listing of a directory that cannot be opened and
the S3 listing of a page that fails are both `ReadingFails`.

### SyncRun

A run goes through `phase`. `source` and `dest` are sets of names; a listing
returns any outcome of the contract; `Classify` is what the four variants of
`classify_files` have in common, with "equal in size and strictly newer at the
destination" as a set of names fixed at the start. A transfer or a deletion is
one step and may fail after it took effect. Temporary files belong to another
process that creates, renames or abandons them (`OtherRun`) whenever it likes.
Two constants describe links: `Unreached`, the temporary files below a linked
directory of a local source, which the sweep does not enter and the listing
does; and `SameFile`, the names that links give one file of a local destination.
The properties except `Unreached` and say so (see the known limitations);
`SameFile` is trivial in `sync_run` and not in `sync_run_alias`. Not part of it:
the validation of overlapping roots (such runs do not start) and files that
others change. `enumeration_ok` gates the run on the source listing only, as the
code does; what a run with a partial destination listing still promises is the
first half of `SuccessMeansMirrored` (see the known limitations).

### RmTask

The name is resolved (`LookUpSize`, `CheckPresence`, `PeekPrefix`), the prefix is
listed, and the keys are deleted in batches or one by one. A delete that reports
failure may have been applied; it is retried and then verified, and each answer
may be a failure too. The window is that of `rm_task.cpp`, which is narrowed and
widened inside the task. `bucket` is what S3 holds, `original` what it held at
the start, so that the counts and the result can be compared with what happened.
`ExitCode` is what `main.cpp` makes of the result: without a cancellation `run_rm`
sets an error message exactly when it fails with no failed object. An exception in
`run_rm` (no memory, no threads; `rm_task.cpp:640`) is not modelled.

### S3Client

One call at a time, as a caller sees it: `call` with its arguments, `step`,
`attempt`, `result`. `gateway` is how the service behaves: whether it honours a
range, sends a readable `Content-Range`, finds the key it lists, has the bucket.
Each request is answered, fails with an error that `IsRetryableS3Error`
classifies by type, curl code and wording, or throws; a body may be cut at any
length; a delete or an upload that fails may have been applied. Others write the
object and the file between any two requests. Blocks carry their writer and
their offset, so bytes at the wrong place are not the right bytes. `seen` is a
ghost: what the bucket held during the call. What the code does that a reader
may not expect, and the model keeps: a short body is tried again on the first
attempt only, an error of the listing probe is not retried, a failed batch delete
reports every key. With `--allow-unverified-ranges` an endpoint that ignores
ranges cannot be told from one that honours them: `Unplaceable` is excepted, as
the option's documentation says.

### Uploads

A job is `GetHashes`, `copy_s3_object` or `diff_upload_file`, chosen at the
start, and its record holds the local variables of these functions. A chunk
stands for its content and its checksum, a part is a chunk. `uploads` is what S3
has; `known` says that the answer with the id arrived, `registers` that the owner
uses the registry, which `diff_upload_file` does not. The threads of a fan-out
are `work`, one state per chunk: posted, running, counted in the error count,
done; both variants are there, the pool with its adaptive window and one thread
per chunk with the 30 s wait. A wait on a condition variable is a guard: every
change of the condition is notified, except that of a shutdown, and a running
chunk always notifies after it. `leftovers --abort` is another process; the
command and it meet in `uploads`. `MaxFaults` bounds failed requests, writes by
others and runs of `leftovers` together. Promises that the code does not make
and the properties do not claim: an object that others write during a copy or a
differential upload (no copy is conditional on the ETag), and a file that is
truncated at a chunk boundary between its stat and its checksums.

### DirCompare

`List` returns any outcome of `Listing` on each side; an incomplete one refuses
the comparison. `max_threads`, `threads_per_file`, `max_concurrency` and
`initial_concurrency` are the arithmetic of the code. A file goes through its
task: posted, sizes, the checksums of each side, evaluation, the update of the
window, the release of its slot. The growth of the window by measured throughput
is a nondeterministic choice. Each size or checksum may fail. Files do not change
during a comparison; omitted aliases are ignored, as
`include/directory_comparison.h` says of comparisons. `Chunks` are the contents a
chunk can have. The comparison of two files
is `CompareFiles`, and `Exit` the code of both. The threads at work are derived
from the state: each file whose checksums are computed has them on both sides at
once, `threads_per_file` on a side in S3 and a pool of `Cores` on a local one, or
one where the file is small. Whether a side is local is left open: `ThreadCeiling`
says what holds of either kind.

### Command

A process loads the metrics file, finds its region, works, is signalled, saves
through a temporary file (`Sweep`, `MkStemp`, `Write`, `Rename`) and exits. What
the work does is the subject of the other modules; here it makes calls and ends
done, partly done, with an error or cut short; what exit code 2 of `rm` says of the
bucket is `ExitsTrue` of `RmTask`. A counter is kept as what each
process contributed, so that totals reached in different ways differ. `Hour` lets
any amount of time pass, after which a temporary file is old enough to be swept,
that of a live process included. `owed` is a ghost: the runs whose calls the file
must still have, after taking out what an overlapping save, an unreadable file or
a reset may lose. Left out: `stats` without `--reset`, which only reads, `--help`
and `--version`, and the periodic sampling that no command starts.

## 3. Runs

| Run | Instance | Shows |
|---|---|---|
| `write_queue` | 5 files, 2 pool threads, 1 writer, 4 slots | the queue respects its bound, `NoStall`, `CountsComplete`, the run ends (`Finishes`) |
| `transfer_window` | 5 files, 3 threads, window from 2, floor 2, ramp 2 | window and slots (`TypeOK`, `InFlightExact`), the phase ends, `ImplementsBounded` |
| `rm_task` | 3 keys in batches of 2, 1 retry, 2 threads, 1 unknown answer in a row | `OnlyTarget`, `CountsHonest`, `ExitsTrue`, `Finishes` |
| `enumerate` | 6 directories on 3 levels, 2 links to one target, 4 files, 2 workers | `KeepsPromise`, `LevelIsQuiet`, the listing returns |
| `sync_run` | every direction and flag, 2 files, 2 temporary files, one of them below a link | `OnlyOrphansDeleted`, `SuccessMeansMirrored`, `TempsRespected` |
| `sync_run_alias` | the same, the two files linked at the destination | violation of `OnlyOrphansDeleted`: finding 2 |
| `download_file` | up to 3 chunks of 2 values, threshold 2, 2 workers, 1 change of the object, 1 mishap | `ReportedCurrent`, `Converges` |
| `download_file_killed` | up to 2 chunks, 1 mishap | violation of `InterruptedIsRedone`: finding 1 |
| `s3_client` | objects of up to 2 blocks, files of up to 3, every range, 2 retries, 1 write by others, every gateway | `RangeIsExact`, `ReportsAreTrue`, `DeletesAreConfirmed`, `UploadIsThePrefix`, `TransientIsRetried` |
| `uploads` | 1 job of each kind, up to 2 chunks, 2 threads, 1 retry, 2 faults, pages of 1 upload | `HashesHonest`, `NoLiveAbort`, `RetriedAtExit`, `SuccessMeansContent`, `LeftoversClean`, `Ends` |
| `dir_compare` | 5 pairs of trees of up to 3 files of up to 2 chunks, budgets of 2, 4 and 6 threads, 2 cores, files of more than 1 chunk in a pool | `DiffZeroMeansEqual`, `VerdictsTrue`, `NoneLost`, `ThreadCeiling`, `Finishes` |
| `command` | 2 overlapping processes after one of the past, 1 call each, 1 kill or failure | `FileWhole`, `HistoryKept`, `CodesHonest` |

The `TypeOK` of a module whose run does not list it documents its state.

Bounds. Five files exceed four slots, so that producers block with a writer
asleep, awake and about to notify. Five files and three threads let the window
widen, be halved by two tasks at once and reach its maximum while a task still
holds an old value. Three chunks give a file that shares a prefix with the
object, needs two chunks at once, and is shorter or longer; two seconds give
equal and different stamps; one mishap per behaviour is one failure,
cancellation or kill at any step, and the theorem covers any number.

Two links below two directories of one level are met by two tasks at once, a
level of one directory is processed inline and one of several is posted, and
files on three levels are lost with their directory, their page or alone. Two
files are one the source has and one it has not, in any order of transfers and
deletions, and a temporary file in every state at every step.

Blocks of two objects of two lengths and a file of three tell a prefix, a shift, a
truncation and a rewrite apart; two retries are a first, a middle and a last
attempt. Two chunks are one that succeeds while the other fails, is skipped or
is late; with a copy limit, a single-request limit and a window floor of 1 every
path of a job is taken; two faults are a failed request and a failed abort of it,
or a failed abort and a run of `leftovers`, and three uploads on pages of one make
`leftovers` page. The trees give every branch of the thread budget: all small,
all large, mostly large and mostly small. Two processes are enough for a lost
update, and the past one is what can be lost.

Fairness. Threads are weakly fair: the operating system schedules them and
requests end, because the client has timeouts. Cancellation, spurious wake-ups,
failures and kills are never fair. In `Uploads` and `DirCompare` the program
as a whole is weakly fair: some thread of it that can run does. Nobody has to
send a signal, write a file or run `leftovers`. `S3Client` and `Command` have no
liveness property. In `DownloadFile` the user repeats the run
and the clock advances; `WF` on the failure actions only says that a request
that cannot succeed fails.

### Findings

1. A second Ctrl-C during a differential download can leave a half-patched file
   that every later run skips, although `exit-codes.md` says what was caught
   mid-transfer gets redone (`download_file_killed`).
2. With `--delete` and a local destination that has a link to one of its own
   directories, the files below the link look like orphans; removing them removes
   the files themselves, which the source may have (`sync_run_alias`).

### Known limitations of the code

Met while modelling, not the subject of a run; where a property meets one, it
excepts it by name.

- With more pool threads than queue slots (`--threads` has no upper limit) the
  write queue can hang: the notification of a pop and that of a push share a
  condition variable and can all be spent on the wrong kind of thread. The default
  is safe: see `BackpressureNeverStalls`, whose hypothesis is what is missing.
- A large file that equals the object but is not strictly newer is compared again
  on every run: `diff_download_file` finds nothing to do and leaves the mtime,
  although the comment at `sync_task.cpp:112` says that the entry settles as Skip.
- The caller of a parallel listing tests `pending_tasks > 0` without the mutex
  (`directory_comparison.cpp:632`) and can leave the level, whose mutex and
  condition variable are local to the loop, while the last task still holds that
  mutex. The comment on the cleanup argues that this cannot happen.
- The sweep of temporary files does not follow links to directories and the
  listing does: a temporary file below such a link is synced as data (`Unreached`).
  A scan that fails half way also passes as complete.
- A directory comparison with `--threads` 1 to 3 and mostly, but not only, large
  files gives each file three or four threads; `max_concurrency` is then 0 and the
  submit loop waits for ever, even after Ctrl-C (`directory_comparison.cpp:1398`
  and `1583`). `Finishes` of `DirCompare` excepts exactly this.
- `diff_upload_file` does not register its upload: a kill or a failed abort leaves
  one that only `leftovers` removes.
- `leftovers` reports success after a cancelled listing (`leftovers_task.cpp:132`);
  no command sets that flag.
- Two overlapping commands lose the calls of the one that saves first; a command
  that cannot read the metrics file overwrites it, because nobody looks at the
  result of `load()`; a save that takes over an hour can be swept by another.
- A destination that could not be listed completely does not stop `sync`: only the
  source gates it (`sync_task.cpp:386-391` and `502-512`). Orphans that were not
  listed stay and the run may still report success. `sync.md:100` says "If either
  side cannot be listed completely, `sync` refuses to do anything at all", and so
  does the comment at `sync_task.cpp:2348`. `SuccessMeansMirrored` states what the
  code does keep: every source file, and every orphan that was listed.
- `--threads` is not a ceiling of a directory comparison, as `parallelism.md:91` ("a
  ceiling, not a target") and `diff.md:25` ("Actual concurrency adapts below this")
  have it. Each file is given its share on both sides, which run in parallel
  (`comparison_task.cpp:134-150`), so two sides in S3 may use twice the budget; a
  local side ignores the share and starts a pool of `hardware_concurrency()` for
  each file of more than 4 chunks (`crc32_chunks.cpp:152-159`). `ThreadCeiling` is
  the bound of each side by itself, of either kind. Threads that only wait are
  counted nowhere.
- `rm` exits with 2 for every error message (`main.cpp:544-551`): a listing or lookup
  that failed, a name that is not found, an exception even after deletions
  (`rm_task.cpp:640`). `exit-codes.md:63-64` says "nothing was attempted" and that
  the same command will fail the same way; `rm.md:78-81` gives 2 for a missing URL,
  a prefix without `-r` and an unknown region only. `ExitsTrue` is what holds without
  an exception: with 2, nothing has been deleted.
- `sync` exits with 1, not 130, when it is interrupted, or with 0 when the signal
  comes after the result was made up (`main.cpp:1019`, against
  `book/src/commands/sync.md:185`), and a region that cannot be detected is code 1
  in `sync`, `diff` and `leftovers`, although `exit-codes.md` lists it under 2.

## 4. Proofs

All theorems hold for every value of the constants under the named assumptions
of the modules (`ConstantsAssumption`, `WindowAssumption`, `DownloadAssumption`,
`TreeAssumption`, ...): finite sets, positive sizes, and for `Enumerate` that the
directories form a tree. A hypothesis beyond these is named below. Each module
splits its typing into named parts (`Typed`), proves one lemma per action, and
combines them in `Spec => []Inv`; every inductive invariant was checked by TLC
on the instance of the run before it was proved.

`DownloadProofs`, the write queue

- `TypeCorrect`: types and the bound of the queue.
- `BackpressureNeverStalls`: `NoStall`, when `PoolFitsQueue`: threads plus twice
  the writers fit the queue. `NoStall` alone is not inductive. `BackpressureInv`
  counts: while a producer waits, each free slot is covered by a notification
  still to be sent, a producer already woken or a writer that is awake
  (`SlotsCovered`); while all writers wait, no producer does and each queued job
  has its notification still to be sent (`JobsAnnounced`). A notification spent
  on the wrong kind of thread removes one cover and wakes another.
- `CountsAreComplete`: `CountsComplete`. A file is in exactly one place (`OnePlace`:
  to do, with a pool thread, queued, with a writer, written, failed, dropped) and
  has one holder (`OneHolder`); a writer leaves an empty queue to which nobody adds
  any more (`Drained`, which needs the order of the shutdown).

`DownloadProofs`, the download of a file

- `DownloadTypeCorrect` and `ReportedIsCurrent`. The inductive invariant
  `DownloadInv` says, as long as nothing disturbed a run: a file that would be
  skipped is the object unless a patch is under way (`BelievedIsCurrent`); data
  held in memory or in the temporary file is the object's (`HeldData`); each chunk
  is pending, being written or already right (`ChunksAccounted`); and no stamp is
  in the future (`StampsPast`).

`TransferProofs`, the window

- `WindowTypeCorrect`, `SlotsExact`: the window's bounds and
  `in_flight = Cardinality(Submitted) <= MaxConcurrency`. The strengthening is
  `SlotFree` (what the submit loop saw under the mutex stays true: only it adds)
  with `CountsMatch` and `LoopOrder`.
- `WindowRefines`: `Spec => Abs!AbsSpec`; posting is `Begin`, releasing is
  `Complete`, the successful drain is `End`, the rest stutters.

`TransferProofs`, the S3 client

For every bound on objects, files, retries and writes by others, and every gateway.

- `ClientTypeCorrect`.
- `ReportsWereTrue`, `DeletionsAreConfirmed`: what is reported or confirmed was so at
  some moment of the call. `SeenNow` says that the bucket of now is among those
  `seen` as long as the call runs, so an answer about it is true of one of them,
  however many attempts and writes by others came before.
- `RangesAreExact`: `StepsBelong` says which operation is at which step and that the
  range was validated before the first request; a short body, a shifted one and a
  whole object instead of a range each fail one of the tests of the code
  (`Unplaceable` excepted).
- `UploadsAreThePrefix`: blocks carry their offset, and the blocks sent so far are
  those of the file at their place (`InPlace`), also after a seek back to the start
  by a retry and after others changed the file.
- `TransientFailuresAreRetried`: `FailuresBelong` says that a call which may still
  end without an answer has met nothing worth another attempt.

`UploadsProofs`

`UploadsInvariant`: for every set of jobs, sizes, retries, threads, page size and
number of faults, `UploadsInv` holds. From it follow, one line each:

- `ChecksumsAreHonest`. `SumsHonest` says of each entry of the array the threads
  write that it is of a chunk the object once had (`was`), of a late thread too;
  `Honest` says it of the vector the job returns.
- `AbortsAreAlone`. `BusyBelongs`: threads work for a job only while it fans out, so
  none is left when it aborts; `JobsEnd`: jobs are over when `abort_all` runs.
- `AbortsAreRetried`. `Registry` follows an open, registered, known upload: while the
  command runs it is in the registry, and held by a job if nobody tried to abort it;
  in `abort_all` it has been tried once, and is still to be tried or was tried twice.
- `SuccessIsTrue`. `KindSound` and `SizesSound` say what each kind of job knows of
  its object at each step if nobody interferes, `PartsSound` that every part before
  the current one holds what it should, `SuccessSound` that this is the object after
  a success. Uploads of other jobs only grow (`ApartKeeps`), which is why jobs can be
  reasoned about one at a time.
- `LeftoversAreGone`. `LeftSound`: an upload that was there at the start, was asked
  about and is still open is on the page in hand or ahead of the marker, and then
  the listing is truncated, or the run has failed. That a page of the smallest ids
  leaves only greater ones behind is an argument by counting, on finite sets.

`EnumerateProofs`

- `ListingTypeCorrect`, `CollectedWhenQuiet`: `pending_tasks` is the number of the
  active tasks (`Counted`), which are those of the current level (`LevelSound`), so
  the zero that the caller reads without the mutex means that nobody writes.
- `ListingKeepsItsPromise`: the listing of every finite tree, with links wherever
  they are, is an outcome of `Listing`. This is the contract that `SyncRun`,
  `RmTask` and `DirCompare` assume of a local or S3 listing. Invariant: unless the
  listing will say that it is not exact, each entry of a directory is still to be
  read, held by the task of the directory, or merged (`Accounted`), and no
  directory of a level is left behind when the level is collected (`AllPosted`).
  At the return the directories that had a task contain the root and are closed
  under children. `TreeAssumption` says that such a set is all of them: this is how
  a tree is described without induction, and TLC evaluates it on the instance.

`SyncRunProofs`

- `SyncTypeCorrect`.
- `TempsAreRespected`: `TempsRespected`, when a temporary file that the sweep
  reaches has one name (`ReachedTempsUnlinked`). `TempSound`: a temporary file that
  was listed had been created, and is created once, so what the second sweep does
  not find is gone for good.
- `OnlyOrphansAreDeleted` and `SuccessIsAMirror`, when no file of the destination
  has two names (`NoLinks`; finding 2 is what happens otherwise). `ListedSound` (a
  listing invents nothing, and one that is exact misses nothing, unless cancelled)
  and `PlanSound` carry what the listings knew to the deletions; `MirrorPlanned`
  says that what still differs, and was seen, is still planned, and `SuccessSound` that success
  leaves nothing planned or failed.

`RmTaskProofs`

- `RmTypeCorrect`, `OnlyTheTargetGoes`, `CountsAreHonest`, `ExitsAreTrue`, without
  hypotheses. Each listed key is open until the task of its batch has settled it,
  then failed or confirmed; a confirmed key is gone and the counters are the sizes
  of these sets (`Settled`). `InFlightSound` and `FinishSound` say that no task is
  left when the result is read, `AllPosted` that every batch had one unless the run
  was cancelled, and `Resolved` that what the phase says of the name is true. A run
  that is not cancelled and has no failed object succeeds once it deletes
  (`UntouchedStep`), so that 2 is left for those that have not begun to.

`DirCompareProofs`

- `CompareTypeCorrect`.
- `VerdictsAreTrue`: a task carries sizes and checksums of its file, or none
  (`TasksSound`), so a verdict, when there is one, is about the files.
- `NothingIsLost`: `Recorded` and `AllPosted` follow each common file from the
  listing to its record; nobody is in flight when the results are collected.
- `ZeroMeansEqual`: from these, and `ZeroSound`.
- `ThreadsHaveCeilings`: `WindowSound` (no more in flight than the window), the
  arithmetic of the budget (`BudgetTyped`) and the size of a set of pairs of a file
  and a thread (`ThreadsOfFiles`), for every mixture of small and large files.

`CommandProofs`

- `CommandTypeCorrect`, `FileIsWhole`, `HistoryIsKept`, `CodesAreHonest`, for every
  set of processes. `Stage` says what a process has not done yet, `Memory` what it
  holds and is about to rename, and `Carried` that the runs a save by it would keep
  are those it has in memory; `Accounts` says the same of the file and the runs
  that are owed.

Only model-checked:

- liveness (`Finishes`, `Converges`, `Returns`, `Ends`), which needs fairness and is
  out of the prover's reach;
- the two violations.

Every safety property that a passing run lists is a theorem. Two things the
theorems do not say: `NoStall` needs `PoolFitsQueue`, and the deletions of a run
need `NoLinks`, as the findings and the known limitations show; and `UploadsTyped`
is weaker than the `TypeOK` of `Uploads` where that bounds attempts, windows and
faults, which no property depends on.

## 5. Plan

The order was: the write queue and the transfer window, the download of a file
and its runs, the listing and the commands that act on it, the S3 client, uploads,
the metrics file; each modelled, then checked, then proved. What would come next:

1. the prefetch cache, when its entries get an owner: today a lost entry costs
   memory only;
2. the retries of `CreateBucket` and `PutObject`, when a command uses them;
3. liveness of the write queue without `PoolFitsQueue`, when the two kinds of
   waiters have a condition variable each.

## 6. Not modelled

- CRC arithmetic and instruction selection: the models take equal checksums for
  equal chunks.
- The prefetch cache (`io_pipeline_threads`): it moves the read of a small file or
  object to another thread and an earlier time; an entry that comes too late costs
  memory and the file is read again. In the models the task that transfers a file
  reads it.
- The DNS cache and the HTTP client: a table behind the SDK; a wrong or missing
  address is a failed request, which the models have.
- `CreateBucket`, `PutObject` and `PutObjectWithCRC32` of the client: one request
  without a retry loop, used by tests or with bytes already in memory.
- Sequential and streaming listings, which the commands do not use.
- Reports, settings, command lines, URLs, durations and pricing: sequential
  parsing and formatting without state.

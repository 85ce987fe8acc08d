-------------------------------- MODULE Uploads --------------------------------
(***************************************************************************)
(* Multipart uploads and who cleans them up: the server-side checksums of  *)
(* an object (S3MultipartCopy::GetHashes), the server-side copy of an      *)
(* object (copy_s3_object), the differential upload of a file              *)
(* (diff_upload_file), the registry that the command empties at its end,   *)
(* and the leftovers command, which another process may run at any time.   *)
(*                                                                         *)
(* A chunk is its content, and its checksum too: two contents that differ  *)
(* have different checksums.  The bounds make a part as large as a chunk.  *)
(* A request to S3 may fail, and may have been applied although it failed; *)
(* others may write the file, the object to copy or the destination.       *)
(***************************************************************************)
EXTENDS Integers, Sequences, FiniteSets

CONSTANTS
    Jobs,          \* the files of a command
    MaxChunks,     \* bound: chunks of a file or object
    MaxRetries,    \* m_max_retries, and MAX_RETRIES of sync_task.cpp
    MaxErrors,     \* MAX_ERRORS_BEFORE_ABORT: 3
    NumThreads,    \* num_threads of the thread pool
    MinWindow,     \* the window is not halved below: 16
    CopyLimit,     \* FIVE_GB, in chunks
    MaxPut,        \* kMaxSinglePutBytes, in chunks
    MaxParts,      \* kMaxMultipartParts
    PageSize,      \* uploads per page of a listing: 1000
    MaxFaults      \* bound: requests that fail for reasons of the service, writes
                   \* by others, and runs of leftovers, together

ASSUME UploadsAssumption ==
    /\ MaxChunks \in Nat /\ MaxRetries \in Nat /\ MaxErrors \in Nat
    /\ NumThreads \in Nat \ {0} /\ MinWindow \in Nat \ {0} /\ PageSize \in Nat \ {0}
    /\ CopyLimit \in Nat /\ MaxPut \in Nat /\ MaxParts \in Nat
    /\ MaxFaults \in Nat

Kinds  == {"hashes", "copy", "diff_upload"}
Chunks == 1..MaxChunks
None   == <<0, "none">>    \* no part, or no checksum: a zero in crc32_results

\* A chunk is its place and who wrote it, so that no two places look alike.
Chunk(c)    == {c} \X {"source", "old", "late"}
Contents    == UNION {{data \in [1..n -> UNION {Chunk(c) : c \in 1..n}] :
                          \A c \in 1..n : data[c] \in Chunk(c)} : n \in 0..MaxChunks}
By(who, n)  == [c \in 1..n |-> <<c, who>>]

VARIABLES
    kind,        \* what each job does: fixed
    source,      \* its local file, or the object it copies
    object,      \* its destination: <<>> when there is none
    uploads,     \* the multipart uploads there have been, in listing order
    registered,  \* m_uploads of the UploadRegistry
    job,         \* where each job is, and its local variables
    shutdown,    \* g_shutdown_requested
    cancelled,   \* progress.cancelled
    phase,       \* where the command is
    to_abort,    \* uploads_to_abort of abort_all
    left,        \* the leftovers command
    faults,      \* what has disturbed the run so far
    was,         \* ghost: the contents that object has had
    touched      \* ghost: others have written what the job copies from or to

bucketVars  == <<object, uploads, was>>
commandVars == <<shutdown, cancelled, phase, to_abort>>
otherVars   == <<kind, touched>>
vars == <<kind, source, bucketVars, registered, job, commandVars, left, faults, touched>>

Smaller(a, b) == IF a < b THEN a ELSE b
Larger(a, b)  == IF a > b THEN a ELSE b

NoSums == [c \in Chunks |-> None]

\* An upload of the bucket.  known: the client was told its id.  registers: its
\* owner registers it.  aborts: how often this command failed to abort it.
Upload(j, registers) ==
    [owner |-> j, known |-> FALSE, registers |-> registers, state |-> "open",
     parts |-> NoSums, aborts |-> 0]

Orphan == 1   \* an upload that an earlier run left behind

Idle == [state |-> "idle", attempt |-> 0, before |-> 0]

\* size: of what is sent, as of its listing or stat; local: local_crcs;
\* remote: s3_size; ids: chunk_ids; crcs: what GetHashes returned; upload: the
\* current one; part: the next one; want: ghost, what the result promises.
NewJob ==
    [pc |-> "start", size |-> 0, local |-> <<>>, remote |-> 0, ids |-> <<>>,
     crcs |-> <<>>, upload |-> 0, part |-> 1, attempt |-> 0, tries |-> 0,
     pool |-> TRUE, window |-> 0, threshold |-> 0, wait |-> 1, sums |-> NoSums,
     work |-> [c \in Chunks |-> Idle], errors |-> 0, should_abort |-> FALSE,
     success |-> FALSE, want |-> <<>>]

\* older: --older-than is given; start: ghost, the uploads at its start; missed:
\* ghost, those of them that match and were still there at its end.
NoLeftovers ==
    [pc |-> "start", prefix |-> None, older |-> FALSE, start |-> {}, marker |-> 0, page |-> {},
     truncated |-> FALSE, failures |-> 0, exit |-> -1, missed |-> {}]

Init ==
    /\ kind \in [Jobs -> Kinds]
    /\ source \in [Jobs -> {By("source", n) : n \in 1..MaxChunks}]
    /\ object \in [Jobs -> {data \in Contents : \A c \in DOMAIN data : data[c][2] # "late"}]
    /\ \A j \in Jobs :
          /\ kind[j] = "hashes" => /\ source[j] = By("source", 1)   \* there is none
                                  /\ \E n \in 0..MaxChunks : object[j] = By("old", n)
          /\ kind[j] = "copy" => object[j] = <<>>                   \* it is overwritten
    /\ uploads = [u \in {Orphan} |-> [Upload(None, FALSE) EXCEPT !.known = TRUE]]
    /\ registered = {}
    /\ job = [j \in Jobs |-> NewJob]
    /\ shutdown = FALSE /\ cancelled = FALSE /\ phase = "running" /\ to_abort = {}
    /\ left = NoLeftovers
    /\ faults = 0
    /\ was = [j \in Jobs |-> {object[j]}]
    /\ touched = [j \in Jobs |-> FALSE]

-----------------------------------------------------------------------------
(* The service: a request is applied and answered, applied and answered    *)
(* with an error, or only answered with an error.                          *)

Fault == faults < MaxFaults /\ faults' = faults + 1
NoFault == UNCHANGED faults

IsOpen(u) == u \in DOMAIN uploads /\ uploads[u].state = "open"

SetObject(j, data) ==
    /\ object' = [object EXCEPT ![j] = data]
    /\ was' = [was EXCEPT ![j] = @ \cup {data}]

Closed(u, state) == [uploads EXCEPT ![u].state = state, ![u].parts = NoSums]
AddPart(u, c, data) == uploads' = [uploads EXCEPT ![u].parts[c] = data]

At(j, pc) == phase = "running" /\ job[j].pc = pc

\* The job is at pc with the fields of r changed.
Goto(j, pc, r) == job' = [job EXCEPT ![j] = [r EXCEPT !.pc = pc]]

\* CreateMultipartUpload: the upload gets the next id.  When the answer is
\* lost, it exists and nobody knows of it.
CreateMultipartUpload(j, registers, next, otherwise) ==
    LET u == Len(uploads) + 1 IN
    \/ /\ uploads' = Append(uploads, [Upload(j, registers) EXCEPT !.known = TRUE])
       /\ registered' = IF registers THEN registered \cup {u} ELSE registered
       /\ Goto(j, next, [job[j] EXCEPT !.upload = u, !.part = 1, !.attempt = 0])
       /\ NoFault
    \/ /\ \/ uploads' = Append(uploads, Upload(j, registers))
          \/ UNCHANGED uploads
       /\ Fault /\ Goto(j, otherwise, job[j])
       /\ UNCHANGED registered

\* A request to abort an upload: an upload that is not open is an error.
AbortAnswer(u, ok) ==
    /\ ok => IsOpen(u)
    /\ IF IsOpen(u) /\ ~ok THEN Fault ELSE NoFault
    /\ \E applied \in {ok, IsOpen(u)} :
          uploads' = [(IF applied THEN Closed(u, "aborted") ELSE uploads)
                      EXCEPT ![u].aborts = IF ok THEN @ ELSE @ + 1]

\* Mutation of Released: the guard is released whatever the answer.
ReleasedAnyhow(u, ok) == registered \ {u}

\* The guard is released, which is for a registered upload, only after success.
Released(u, ok) == IF ok THEN registered \ {u} ELSE registered

AbortMultipartUpload(j, next) ==
    \E ok \in BOOLEAN :
        /\ AbortAnswer(job[j].upload, ok)
        /\ registered' = Released(job[j].upload, ok)
        /\ Goto(j, next, job[j])

-----------------------------------------------------------------------------
(* GetHashes: a checksum of every chunk asked for, by copying the chunk    *)
(* into an upload that is aborted afterwards.                              *)

\* chunk_ids may repeat an id and may name a chunk that there is not.
Requests == {<<>>, <<2, 1, 2>>, <<MaxChunks + 1>>}

WithWindow(r, n) == [r EXCEPT !.window = n, !.threshold = n]

\* The size of the object, and what is asked about it.
HashSize(j) ==
    /\ At(j, "start") /\ kind[j] = "hashes"
    /\ \E ids \in Requests, pool, ramp_up \in BOOLEAN :
          /\ ramp_up => pool
          /\ Goto(j, "hash_check",
                  WithWindow([job[j] EXCEPT !.remote = Len(object[j]), !.ids = ids, !.pool = pool],
                             IF ramp_up THEN Smaller(MinWindow, NumThreads) ELSE NumThreads))
    /\ UNCHANGED <<source, bucketVars, registered, commandVars, left, faults, otherVars>>

AfterHashes(j) == IF kind[j] = "hashes" THEN "returned" ELSE "decide"

chunk_request_is_valid(ids, num_chunks) == \A i \in DOMAIN ids : ids[i] \in 1..num_chunks

\* The distinct chunks of a request, all of them when it names none.
Ids(j) == IF job[j].ids = <<>> THEN 1..job[j].remote
          ELSE {job[j].ids[i] : i \in DOMAIN job[j].ids}

\* GetChunkCRC32s: refuse ids out of range; no chunk, no checksum; an object of
\* one chunk is downloaded; otherwise create the upload.
GetChunkCRC32s(j) ==
    /\ At(j, "hash_check")
    /\ LET bad == ~chunk_request_is_valid(job[j].ids, job[j].remote) IN
       \/ /\ bad \/ job[j].remote = 0
          /\ Goto(j, AfterHashes(j), job[j])
          /\ NoFault /\ UNCHANGED <<uploads, registered>>
       \/ /\ ~bad /\ job[j].remote = 1
          /\ \/ /\ object[j] # <<>>
                /\ LET crc == object[j][1] IN
                   Goto(j, AfterHashes(j),
                        [job[j] EXCEPT !.crcs = IF job[j].ids = <<>> THEN <<crc>>
                                                ELSE [i \in DOMAIN job[j].ids |-> crc]])
                /\ NoFault
             \/ object[j] # <<>> /\ Fault /\ Goto(j, AfterHashes(j), job[j])
             \/ object[j] = <<>> /\ NoFault /\ Goto(j, AfterHashes(j), job[j])
          /\ UNCHANGED <<uploads, registered>>
       \/ /\ ~bad /\ job[j].remote > 1
          /\ CreateMultipartUpload(j, TRUE, IF job[j].pool THEN "submit" ELSE "launch", AfterHashes(j))
    /\ UNCHANGED <<source, object, was, commandVars, left, otherVars>>

TooMany(j) == job[j].errors > MaxErrors
Stopped(j) == job[j].should_abort \/ shutdown

Busy(j) == {c \in Chunks : job[j].work[c].state \in {"posted", "running", "counted"}}

\* The submit loop of the thread pool: the chunks in order, while the window
\* has room; no more of them after an abort or a shutdown.
Submit(j) ==
    /\ At(j, "submit")
    /\ LET rest == {c \in Ids(j) : job[j].work[c].state = "idle"} IN
       \/ /\ rest = {} \/ Stopped(j)
          /\ Goto(j, "join", job[j])
       \/ /\ ~Stopped(j) /\ Cardinality(Busy(j)) < job[j].window
          /\ \E c \in rest : /\ \A d \in rest : c <= d
                             /\ Goto(j, "submit", [job[j] EXCEPT !.work[c].state = "posted"])
    /\ UNCHANGED <<source, bucketVars, registered, commandVars, left, faults, otherVars>>

\* The check before a future is waited for.
Checked(r) == [r EXCEPT !.should_abort = @ \/ r.errors > MaxErrors \/ shutdown]

\* The variant without a bound: every chunk has a thread of its own.
Launch(j) ==
    /\ At(j, "launch")
    /\ Goto(j, "wait", Checked([job[j] EXCEPT
            !.work = [c \in Chunks |-> [Idle EXCEPT !.state = IF c \in Ids(j) THEN "posted"
                                                              ELSE "idle"]]]))
    /\ UNCHANGED <<source, bucketVars, registered, commandVars, left, faults, otherVars>>

\* Its wait for the futures in turn: one that takes 30 s counts as an error and
\* is left running until the end of the function.
WaitFor(j) ==
    /\ At(j, "wait")
    /\ LET c == job[j].wait IN
       IF c > MaxChunks THEN Goto(j, "join", job[j])
       ELSE \/ /\ job[j].work[c].state \in {"idle", "done"}
               /\ Goto(j, "wait", Checked([job[j] EXCEPT !.wait = c + 1]))
            \/ /\ job[j].work[c].state \notin {"idle", "done"}
               /\ Goto(j, "wait", Checked([job[j] EXCEPT !.wait = c + 1, !.errors = @ + 1]))
    /\ UNCHANGED <<source, bucketVars, registered, commandVars, left, faults, otherVars>>

\* A thread takes the chunk up.
BeginChunk(j, c) ==
    /\ phase = "running" /\ job[j].work[c].state = "posted"
    /\ Goto(j, job[j].pc, [job[j] EXCEPT !.work[c].state = "running",
                                         !.work[c].before = job[j].errors])
    /\ UNCHANGED <<source, bucketVars, registered, commandVars, left, faults, otherVars>>

\* The end of ProcessSingleChunk: a checksum, an error, or neither.
EndChunk(j, c, sum, errors) ==
    Goto(j, job[j].pc, [job[j] EXCEPT !.work[c].state = "counted", !.sums[c] = sum,
                                      !.errors = @ + errors])

\* One attempt of ProcessSingleChunk: nothing after an abort or a shutdown; the
\* copy of the chunk as the object is now.  An answer without a checksum, and
\* an error that a retry does not help, are errors at once.
ProcessSingleChunk(j, c) ==
    /\ phase = "running" /\ job[j].work[c].state = "running"
    /\ LET u == job[j].upload
           possible == IsOpen(u) /\ c <= Len(object[j])
       IN
       \/ Stopped(j) /\ EndChunk(j, c, None, 0) /\ NoFault
       \/ /\ ~Stopped(j) /\ possible
          /\ EndChunk(j, c, object[j][c], 0) /\ NoFault
       \/ /\ ~Stopped(j)
          /\ IF possible THEN Fault ELSE NoFault
          /\ \/ EndChunk(j, c, None, 1)
             \/ /\ possible /\ job[j].work[c].attempt < MaxRetries
                /\ Goto(j, job[j].pc, [job[j] EXCEPT !.work[c].attempt = @ + 1])
    /\ UNCHANGED <<source, bucketVars, registered, commandVars, left, otherVars>>

\* process_with_tracking after the chunk: an error halves the window, at least
\* as much success as the threshold doubles it.
Tracked(r, failed) ==
    LET completed == Cardinality({c \in Chunks : r.work[c].state = "done"})
        halved == Larger(r.window \div 2, Smaller(MinWindow, NumThreads))
        doubled == Smaller(r.window * 2, NumThreads)
    IN IF failed THEN [r EXCEPT !.window = Smaller(@, halved)]
       ELSE IF completed >= r.threshold /\ r.window < NumThreads
            THEN [r EXCEPT !.window = doubled, !.threshold = completed + doubled]
            ELSE r

FinishChunk(j, c) ==
    /\ phase = "running" /\ job[j].work[c].state = "counted"
    /\ LET r == [job[j] EXCEPT !.should_abort = @ \/ TooMany(j), !.work[c].state = "done"] IN
       Goto(j, r.pc, IF r.pool THEN Tracked(r, r.errors > r.work[c].before) ELSE r)
    /\ UNCHANGED <<source, bucketVars, registered, commandVars, left, faults, otherVars>>

Asked(j) == IF job[j].ids = <<>> THEN [c \in 1..job[j].remote |-> job[j].sums[c]]
            ELSE [i \in DOMAIN job[j].ids |-> job[j].sums[job[j].ids[i]]]

\* Mutation of Collect: a chunk that was skipped is not noticed (issue #51).
CollectErrorsOnly(j) == IF job[j].errors > 0 THEN <<>> ELSE Asked(j)

\* Nothing, unless every chunk has a checksum and nothing counted as an error.
Collect(j) ==
    IF job[j].errors > 0 \/ \E c \in Ids(j) : job[j].sums[c] = None THEN <<>> ELSE Asked(j)

\* The fan-out returns, and its variables are gone.
Returned(j) == [job[j] EXCEPT !.crcs = Collect(j), !.sums = NoSums, !.errors = 0,
                              !.work = [c \in Chunks |-> IF c \in Busy(j) THEN @[c] ELSE Idle],
                              !.should_abort = FALSE, !.wait = 1, !.window = 0, !.threshold = 0]

\* Mutation of Join: the upload is aborted while threads still copy into it.
JoinEarly(j) ==
    /\ At(j, "join")
    /\ Goto(j, "hash_abort", Returned(j))
    /\ UNCHANGED <<source, bucketVars, registered, commandVars, left, faults, otherVars>>

\* Mutation of Join: it waits for chunks that were never submitted.
JoinAll(j) ==
    /\ At(j, "join") /\ \A c \in Ids(j) : job[j].work[c].state = "done"
    /\ Goto(j, "hash_abort", Returned(j))
    /\ UNCHANGED <<source, bucketVars, registered, commandVars, left, faults, otherVars>>

\* pool.join, or the destructors of the futures.
Join(j) ==
    /\ At(j, "join") /\ Busy(j) = {}
    /\ Goto(j, "hash_abort", Returned(j))
    /\ UNCHANGED <<source, bucketVars, registered, commandVars, left, faults, otherVars>>

HashAbort(j) ==
    /\ At(j, "hash_abort")
    /\ AbortMultipartUpload(j, AfterHashes(j))
    /\ UNCHANGED <<source, object, was, commandVars, left, otherVars>>

-----------------------------------------------------------------------------
(* copy_s3_object and CopyObject.                                          *)

\* The end of the attempt of a job, true or false: copy_s3_object tries again.
Fails(j) == IF kind[j] = "copy" THEN "again" ELSE "returned"
Succeeds(j, want) == Goto(j, "returned", [job[j] EXCEPT !.success = TRUE, !.want = want])

\* The size is the one of the listing.
CopyStart(j) ==
    /\ At(j, "start") /\ kind[j] = "copy"
    /\ Goto(j, "copy", [job[j] EXCEPT !.size = Len(source[j])])
    /\ UNCHANGED <<source, bucketVars, registered, commandVars, left, faults, otherVars>>

copy_s3_object(j) ==
    /\ At(j, "again")
    /\ IF job[j].tries < MaxRetries
       THEN Goto(j, "copy", [job[j] EXCEPT !.tries = @ + 1, !.attempt = 0])
       ELSE Goto(j, "returned", job[j])
    /\ UNCHANGED <<source, bucketVars, registered, commandVars, left, faults, otherVars>>

\* By its size, one request or a multipart copy.
CopyObject(j) ==
    /\ At(j, "copy")
    /\ \/ /\ cancelled /\ Goto(j, "returned", job[j]) /\ NoFault
          /\ UNCHANGED <<bucketVars, registered>>
       \/ /\ ~cancelled /\ job[j].size <= CopyLimit
          /\ \/ NoFault /\ SetObject(j, source[j]) /\ Succeeds(j, source[j])
             \/ /\ Fault
                /\ \/ SetObject(j, source[j]) \/ UNCHANGED <<object, was>>
                /\ \/ Goto(j, "again", job[j])
                   \/ /\ job[j].attempt < MaxRetries
                      /\ Goto(j, "copy", [job[j] EXCEPT !.attempt = @ + 1])
          /\ UNCHANGED <<uploads, registered>>
       \/ /\ ~cancelled /\ job[j].size > CopyLimit
          /\ CreateMultipartUpload(j, TRUE, "part", "again")
          /\ UNCHANGED <<object, was>>
    /\ UNCHANGED <<source, commandVars, left, otherVars>>

-----------------------------------------------------------------------------
(* diff_upload_file and upload_small_file.                                 *)

\* fs::file_size
Stat(j) ==
    /\ At(j, "start") /\ kind[j] = "diff_upload"
    /\ \/ Goto(j, "crcs", [job[j] EXCEPT !.size = Len(source[j])])
       \/ Goto(j, "returned", job[j])
    /\ UNCHANGED <<source, bucketVars, registered, commandVars, left, faults, otherVars>>

\* The checksums of the file, which may have changed since.
LocalCRCs(j) ==
    /\ At(j, "crcs")
    /\ IF source[j] = <<>> THEN Goto(j, "returned", job[j])
       ELSE Goto(j, "head", [job[j] EXCEPT !.local = source[j]])
    /\ UNCHANGED <<source, bucketVars, registered, commandVars, left, faults, otherVars>>

\* GetObjectSize; there are no checksums to get when it fails.
HeadObject(j) ==
    /\ At(j, "head")
    /\ \/ /\ NoFault
          /\ Goto(j, "hash_check", WithWindow([job[j] EXCEPT !.remote = Len(object[j])], NumThreads))
       \/ Fault /\ Goto(j, "decide", job[j])
    /\ UNCHANGED <<source, bucketVars, registered, commandVars, left, otherVars>>

Unchanged(r) == {c \in DOMAIN r.local : c \in DOMAIN r.crcs /\ r.local[c] = r.crcs[c]}

IsCurrent(r) == Unchanged(r) = DOMAIN r.local /\ r.size = r.remote

\* Nothing to do; nothing to reuse, for which one request will do; more parts
\* than S3 takes; or a multipart upload.
Decide(j) ==
    /\ At(j, "decide")
    /\ LET r == job[j] IN
       \/ /\ IsCurrent(r)
          /\ Succeeds(j, r.local)
          /\ UNCHANGED <<uploads, registered>> /\ NoFault
       \/ /\ ~IsCurrent(r) /\ Unchanged(r) = {} /\ r.size <= MaxPut
          /\ Goto(j, "put", [r EXCEPT !.attempt = 0])
          /\ UNCHANGED <<uploads, registered>> /\ NoFault
       \/ /\ ~IsCurrent(r) /\ ~(Unchanged(r) = {} /\ r.size <= MaxPut)
          /\ IF Len(r.local) > MaxParts
             THEN Goto(j, "returned", r) /\ UNCHANGED <<uploads, registered>> /\ NoFault
             ELSE CreateMultipartUpload(j, FALSE, "open", "returned")
    /\ UNCHANGED <<source, object, was, commandVars, left, otherVars>>

\* upload_small_file
Put(j) ==
    /\ At(j, "put")
    /\ \/ cancelled /\ Goto(j, "returned", job[j]) /\ NoFault /\ UNCHANGED <<object, was>>
       \/ /\ ~cancelled /\ Len(source[j]) <= MaxPut
          /\ NoFault /\ SetObject(j, source[j]) /\ Succeeds(j, source[j])
       \/ /\ ~cancelled
          /\ \/ Fault /\ SetObject(j, source[j])
             \/ Fault /\ UNCHANGED <<object, was>>
             \/ Len(source[j]) > MaxPut /\ NoFault /\ UNCHANGED <<object, was>>
          /\ IF job[j].attempt < MaxRetries
             THEN Goto(j, "put", [job[j] EXCEPT !.attempt = @ + 1])
             ELSE Goto(j, "returned", job[j])
    /\ UNCHANGED <<source, uploads, registered, commandVars, left, otherVars>>

Open(j) ==
    /\ At(j, "open")
    /\ Goto(j, "part", job[j]) \/ Goto(j, "abort", job[j])
    /\ UNCHANGED <<source, bucketVars, registered, commandVars, left, faults, otherVars>>

-----------------------------------------------------------------------------
(* The parts of a copy or of a differential upload.                        *)

\* Mutation of NumParts: the last part of a copy is left out.
NumPartsFloor(j) == IF kind[j] = "copy" THEN job[j].size - 1 ELSE Len(job[j].local)

NumParts(j) == IF kind[j] = "copy" THEN job[j].size ELSE Len(job[j].local)

\* Where a part is copied from.
CopySource(j) == IF kind[j] = "copy" THEN source[j] ELSE object[j]

\* The part is copied on the server; otherwise it is read and sent.
IsCopied(j) == kind[j] = "copy" \/ job[j].part \in Unchanged(job[j])

\* The part can be asked for: its range is not empty and, on the first attempt,
\* the whole of it can be read.
Readable(j) ==
    LET p == job[j].part IN
    /\ p <= job[j].size
    /\ ~IsCopied(j) /\ job[j].attempt = 0 => p <= Len(source[j])

\* What the service takes: a range that there is; data that has the checksum
\* sent with it, which was computed before the data was read.
Accepted(j) ==
    LET p == job[j].part IN
    /\ IsOpen(job[j].upload)
    /\ IF IsCopied(j) THEN p <= Len(CopySource(j))
       ELSE job[j].attempt = 0 => source[j][p] = job[j].local[p]

PartData(j) == IF IsCopied(j) THEN CopySource(j)[job[j].part] ELSE job[j].local[job[j].part]

\* Data that is rejected is rejected again until the attempts are used up.
NextAttempt(j) ==
    IF job[j].attempt < MaxRetries /\ (~IsCopied(j) => Accepted(j))
    THEN Goto(j, "part", [job[j] EXCEPT !.attempt = @ + 1])
    ELSE Goto(j, "abort", job[j])

\* One attempt at one part; cancelled, or out of attempts, the upload is aborted.
UploadPart(j) ==
    /\ At(j, "part") /\ job[j].part <= NumParts(j)
    /\ LET p == job[j].part  u == job[j].upload IN
       \/ /\ cancelled \/ ~Readable(j)
          /\ Goto(j, "abort", job[j]) /\ NoFault /\ UNCHANGED uploads
       \/ /\ ~cancelled /\ Readable(j) /\ Accepted(j)
          /\ AddPart(u, p, PartData(j)) /\ NoFault
          /\ Goto(j, "part", [job[j] EXCEPT !.part = p + 1, !.attempt = 0])
       \/ /\ ~cancelled /\ Readable(j)
          /\ \/ Accepted(j) /\ Fault /\ (AddPart(u, p, PartData(j)) \/ UNCHANGED uploads)
             \/ ~Accepted(j) /\ NoFault /\ UNCHANGED uploads
          /\ NextAttempt(j)
    /\ UNCHANGED <<source, object, was, registered, commandVars, left, otherVars>>

Want(j) == IF kind[j] = "copy" THEN source[j] ELSE job[j].local

\* CompleteMultipartUpload: the parts in order become the object.
Complete(j) ==
    /\ At(j, "part") /\ job[j].part > NumParts(j)
    /\ LET u == job[j].upload
           applied == /\ SetObject(j, [p \in 1..NumParts(j) |-> uploads[u].parts[p]])
                      /\ uploads' = Closed(u, "completed")
           ignored == UNCHANGED <<object, was, uploads>>
       IN
       \/ IsOpen(u) /\ NoFault /\ applied /\ Succeeds(j, Want(j)) /\ registered' = registered \ {u}
       \/ IsOpen(u) /\ Fault /\ (applied \/ ignored) /\ Goto(j, "abort", job[j]) /\ UNCHANGED registered
       \/ ~IsOpen(u) /\ NoFault /\ ignored /\ Goto(j, "abort", job[j]) /\ UNCHANGED registered
    /\ UNCHANGED <<source, commandVars, left, otherVars>>

Abort(j) ==
    /\ At(j, "abort")
    /\ AbortMultipartUpload(j, Fails(j))
    /\ UNCHANGED <<source, object, was, commandVars, left, otherVars>>

JobStep(j) ==
    \/ HashSize(j) \/ GetChunkCRC32s(j) \/ Submit(j) \/ Launch(j) \/ WaitFor(j)
    \/ Join(j) \/ HashAbort(j)
    \/ CopyStart(j) \/ copy_s3_object(j) \/ CopyObject(j)
    \/ Stat(j) \/ LocalCRCs(j) \/ HeadObject(j) \/ Decide(j) \/ Put(j) \/ Open(j)
    \/ UploadPart(j) \/ Complete(j) \/ Abort(j)

ChunkStep(j) == \E c \in Chunks : BeginChunk(j, c) \/ ProcessSingleChunk(j, c) \/ FinishChunk(j, c)

-----------------------------------------------------------------------------
(* The command.                                                            *)

\* The first signal.
RequestShutdown ==
    /\ phase = "running" /\ ~shutdown
    /\ shutdown' = TRUE
    /\ UNCHANGED <<source, bucketVars, registered, job, cancelled, phase, to_abort, left,
                   faults, otherVars>>

\* The poll loop of the command sees it.
Cancel ==
    /\ phase = "running" /\ shutdown /\ ~cancelled
    /\ cancelled' = TRUE
    /\ UNCHANGED <<source, bucketVars, registered, job, shutdown, phase, to_abort, left,
                   faults, otherVars>>

\* The memory of the process is gone.
Gone ==
    /\ job' = [j \in Jobs |-> [NewJob EXCEPT !.pc = "returned"]]
    /\ registered' = {} /\ to_abort' = {}

\* The second signal.
Kill ==
    /\ phase \in {"running", "abort_all"} /\ shutdown /\ phase' = "killed" /\ Gone
    /\ UNCHANGED <<source, bucketVars, shutdown, cancelled, left, faults, otherVars>>

\* result_future.get()
AllReturned == \A j \in Jobs : job[j].pc = "returned"

\* abort_all takes the registered uploads, under the lock ...
AbortAll ==
    /\ phase = "running" /\ AllReturned
    /\ phase' = "abort_all" /\ to_abort' = registered /\ registered' = {}
    /\ UNCHANGED <<source, bucketVars, job, shutdown, cancelled, left, faults, otherVars>>

\* ... and tries each once.
AbortOne ==
    /\ phase = "abort_all"
    /\ \E u \in to_abort, ok \in BOOLEAN : AbortAnswer(u, ok) /\ to_abort' = to_abort \ {u}
    /\ UNCHANGED <<source, object, was, registered, job, shutdown, cancelled, phase, left,
                   otherVars>>

Exit ==
    /\ phase = "abort_all" /\ to_abort = {} /\ phase' = "exited" /\ Gone
    /\ UNCHANGED <<source, bucketVars, shutdown, cancelled, left, faults, otherVars>>

CommandStep == Cancel \/ AbortAll \/ AbortOne \/ Exit

-----------------------------------------------------------------------------
(* Others write the file or the object, and time passes.                   *)

\* Before the job, and after it, a write would show nothing new.
UnderWay(j) == phase = "running" /\ job[j].pc \notin {"start", "returned"}

\* Other data of the same length, a chunk less, or a chunk more.
Rewritten(data) ==
    LET n == Len(data) IN
    {By("late", n)} \cup {SubSeq(data, 1, m) : m \in {n - 1} \cap Chunks}
    \cup {Append(data, <<m, "late">>) : m \in {n + 1} \cap Chunks}

WriteSource(j) ==
    /\ UnderWay(j) /\ kind[j] # "hashes"
    /\ Fault
    /\ \E data \in Rewritten(source[j]) : source' = [source EXCEPT ![j] = data]
    /\ touched' = [touched EXCEPT ![j] = @ \/ kind[j] = "copy"]
    /\ UNCHANGED <<kind, bucketVars, registered, job, commandVars, left>>

WriteObject(j) ==
    /\ UnderWay(j) /\ kind[j] # "copy"
    /\ Fault
    /\ \E data \in Rewritten(object[j]) : SetObject(j, data)
    /\ touched' = [touched EXCEPT ![j] = TRUE]
    /\ UNCHANGED <<kind, source, uploads, registered, job, commandVars, left>>

-----------------------------------------------------------------------------
(* The leftovers command, with --abort.                                    *)

Matches(u) ==
    /\ left.prefix = None \/ uploads[u].owner = left.prefix
    /\ left.older => u = Orphan

\* The time is taken once, and the age of an upload is compared with it: with
\* an age, only the upload of an earlier run is old enough.  (Bound: while the
\* command runs, leftovers is run without a prefix or an age, and begins when
\* there is an upload of the command to be found.)
LeftoversStart ==
    /\ Fault /\ left.pc = "start"
    /\ phase \in {"exited", "killed"} \/ \E u \in DOMAIN uploads : u # Orphan /\ IsOpen(u)
    /\ \E prefix \in Jobs \cup {None}, older \in BOOLEAN :
          /\ older \/ prefix # None => phase \in {"exited", "killed"}
          /\ left' = [left EXCEPT !.pc = "list", !.prefix = prefix, !.older = older,
                                  !.start = {u \in DOMAIN uploads : IsOpen(u)}]
    /\ UNCHANGED <<kind, source, bucketVars, registered, job, commandVars, touched>>

LeftoversEnd(exit) ==
    [NoLeftovers EXCEPT !.pc = "done", !.exit = exit,
                        !.missed = {u \in left.start : Matches(u) /\ IsOpen(u)}]

After(marker) == {u \in DOMAIN uploads : IsOpen(u) /\ u > marker}

\* A page of all uploads; the prefix is for the command to compare (issue #104).
Listed ==
    LET page == {u \in After(left.marker) :
                    Cardinality({v \in After(left.marker) : v < u}) < PageSize}
    IN [left EXCEPT !.pc = "page", !.page = {u \in page : Matches(u)},
                    !.truncated = page # After(left.marker),
                    !.marker = IF page = {} THEN @ ELSE CHOOSE u \in page : \A v \in page : v <= u]

ListMultipartUploads ==
    /\ left.pc = "list"
    /\ \/ left' = Listed /\ NoFault
       \/ left' = LeftoversEnd(1) /\ Fault
    /\ UNCHANGED <<kind, source, bucketVars, registered, job, commandVars, touched>>

FailuresAfter(ok) == IF ok THEN left.failures ELSE 1

AbortPage ==
    /\ left.pc = "page"
    /\ \E u \in left.page, ok \in BOOLEAN :
          /\ ok => IsOpen(u)
          /\ IF IsOpen(u) /\ ~ok THEN Fault ELSE NoFault
          /\ uploads' = IF ok THEN Closed(u, "aborted") ELSE uploads
          /\ left' = [left EXCEPT !.page = @ \ {u}, !.failures = FailuresAfter(ok)]
    /\ UNCHANGED <<kind, source, object, was, registered, job, commandVars, touched>>

\* Mutation of NextPage: a truncated listing is the whole of it.
NextPageNever == "done"

NextPage == IF left.truncated THEN "list" ELSE "done"

PageEnd ==
    /\ left.pc = "page" /\ left.page = {}
    /\ left' = IF NextPage = "done" THEN LeftoversEnd(left.failures) ELSE [left EXCEPT !.pc = "list"]
    /\ UNCHANGED <<kind, source, bucketVars, registered, job, commandVars, faults, touched>>

LeftoversStep == ListMultipartUploads \/ AbortPage \/ PageEnd

-----------------------------------------------------------------------------

ProgramStep == (\E j \in Jobs : JobStep(j) \/ ChunkStep(j)) \/ CommandStep

\* Nothing is left to do.
Terminated ==
    /\ phase \in {"exited", "killed"} /\ left.pc \in {"start", "done"}
    /\ UNCHANGED vars

Next ==
    \/ ProgramStep
    \/ \E j \in Jobs : WriteSource(j) \/ WriteObject(j)
    \/ RequestShutdown \/ Kill
    \/ LeftoversStart \/ LeftoversStep
    \/ Terminated

\* Some thread of the command runs when one can; nobody has to send a signal, to
\* write, or to run leftovers.
Spec == Init /\ [][Next]_vars /\ WF_vars(ProgramStep)

-----------------------------------------------------------------------------

Pcs == {"start", "hash_check", "submit", "launch", "wait", "join", "hash_abort", "copy",
        "again", "crcs", "head", "decide", "put", "open", "part", "abort", "returned"}

\* The variables have their types, the attempts of a request their bound, and
\* the window of a running fan-out is never shut.
TypeOK ==
    /\ kind \in [Jobs -> Kinds] /\ source \in [Jobs -> Contents] /\ object \in [Jobs -> Contents]
    /\ registered \subseteq DOMAIN uploads /\ to_abort \subseteq DOMAIN uploads
    /\ \A j \in Jobs :
          /\ job[j].pc \in Pcs
          /\ job[j].attempt \in 0..MaxRetries /\ job[j].tries \in 0..MaxRetries
          /\ \A c \in Chunks : job[j].work[c].attempt \in 0..MaxRetries
          /\ job[j].pc = "submit" => job[j].window \in 1..NumThreads
    /\ shutdown \in BOOLEAN /\ cancelled \in BOOLEAN /\ (cancelled => shutdown)
    /\ phase \in {"running", "abort_all", "exited", "killed"}
    /\ left.pc \in {"start", "list", "page", "done"} /\ left.exit \in -1..1
    /\ faults \in 0..MaxFaults

\* What GetHashes returns has one checksum for each chunk asked for, in the
\* order asked for, and each is one that this chunk really had: nothing is made
\* up for a chunk that failed, was skipped by a shutdown or timed out.
HashesHonest ==
    \A j \in Jobs : job[j].crcs # <<>> =>
        LET r == job[j]
            asked == IF r.ids = <<>> THEN [c \in 1..r.remote |-> c] ELSE r.ids
        IN /\ Len(r.crcs) = Len(asked)
           /\ \A i \in DOMAIN asked :
                 \E data \in was[j] : asked[i] \in DOMAIN data /\ r.crcs[i] = data[asked[i]]

\* No thread of this process still adds parts to an upload that this process
\* has begun to abort: the fan-out is joined first, and abort_all runs after
\* the jobs.
NoLiveAbort ==
    \A j \in Jobs :
        /\ job[j].pc \in {"hash_abort", "decide", "returned"} => Busy(j) = {}
        /\ phase = "abort_all" => job[j].pc = "returned"

\* When the command ends, an upload that is registered when created and whose
\* id was received is closed, or its abort has failed twice: once in the job
\* and once in abort_all.
RetriedAtExit ==
    phase = "exited" =>
        \A u \in DOMAIN uploads :
            uploads[u].registers /\ uploads[u].known /\ IsOpen(u) => uploads[u].aborts >= 2

\* A copy or an upload that reports success has put in place what it was to
\* put: the object copied, the file as it was put, or the file as it was
\* checksummed, whatever happened to it since.  (Others wrote neither the
\* objects nor, between its stat and its checksums, the file.)
SuccessMeansContent ==
    \A j \in Jobs :
        job[j].success /\ ~touched[j] /\ (kind[j] = "diff_upload" => Len(job[j].local) = job[j].size)
        => object[j] = job[j].want

\* After a leftovers --abort that reports success, every upload there was at
\* its start, under the prefix and old enough, is gone.
LeftoversClean ==
    left.exit = 0 => left.missed = {}

\* The command ends, whatever fails and whenever it is interrupted.
Ends == <>(phase \in {"exited", "killed"})
=============================================================================

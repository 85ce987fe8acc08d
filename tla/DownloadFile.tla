----------------------------- MODULE DownloadFile -----------------------------
(***************************************************************************)
(* One file of a repeated download sync (sync_task.cpp): how it is         *)
(* classified by size and timestamp, replaced whole through a temporary    *)
(* file, or patched in place chunk by chunk, over any number of runs that  *)
(* fail, are cancelled or are killed, while the source object changes.     *)
(*                                                                         *)
(* Sizes are counted in chunks (a last chunk cut short by a partial write  *)
(* makes the file ragged), and equal CRC32s stand for equal chunks.        *)
(* Timestamps are whole seconds.  The object is stamped by the clock of    *)
(* S3, the file by the local one, which is Lag seconds behind it: a local  *)
(* clock that is ahead is not covered.                                     *)
(***************************************************************************)
EXTENDS Integers, Sequences, FiniteSets

CONSTANTS
    Data,           \* the contents a chunk may have
    Torn,           \* a chunk a write has only partly reached, or a hole
    MaxChunks,      \* bound on the size of the object
    DiffThreshold,  \* DIFF_UPLOAD_THRESHOLD
    MaxWorkers,     \* max_parallel_chunks
    Lag,            \* seconds the local clock is behind that of S3
    MaxTime,        \* bound on the clock
    LastEdit,       \* bound: the object is not changed after this second
    MaxEdits,       \* bound on the number of changes of the object
    MaxMishaps      \* bound on failures, cancellations and kills

ASSUME DownloadAssumption ==
    /\ Torn \notin Data
    /\ MaxChunks \in Nat /\ DiffThreshold \in Nat \ {0} /\ MaxWorkers \in Nat \ {0}
    /\ Lag \in Nat
    /\ MaxTime \in Nat /\ LastEdit \in Nat /\ MaxEdits \in Nat /\ MaxMishaps \in Nat

VARIABLES
    now,         \* the clock of S3, in seconds
    s3,          \* the object: contents and LastModified
    local,       \* the file: present or not, contents, whether a partial write
                 \* left its last chunk too short, and mtime
    phase,       \* what the run is doing with this file
    action,      \* the SyncAction it was classified as
    s3_size,     \* the size the listing reported
    buf,         \* data fetched by the whole-file path
    temp,        \* the temporary file of AtomicFileWriter
    local_size,  \* size of the file when its CRCs were computed
    pending,     \* chunks_to_download not yet taken by a worker
    fetched,     \* chunk being written -> the data fetched for it
    wrote_any, download_failed, cancelled,
    result,      \* the outcome of the last run for this file
    disturbed,   \* ghost: what disturbed a run since the object last changed
    edits, mishaps

patchVars == <<local_size, pending, fetched, wrote_any, download_failed>>
envVars   == <<now, s3, edits>>
vars      == <<envVars, local, phase, action, s3_size, buf, temp, patchVars,
               cancelled, result, disturbed, mishaps>>

Contents == UNION {[1..n -> Data] : n \in 0..MaxChunks}
Phases   == {"idle", "fetch", "write", "commit", "crc", "patch"}
Results  == {"none", "skip", "ok", "failed"}

NoChunks == [i \in {} |-> Torn]
Absent   == [exists |-> FALSE, data |-> << >>, ragged |-> FALSE, mtime |-> 0]
LocalNow == now - Lag

\* The first n chunks of d.
Prefix(d, n) == [i \in 1..n |-> d[i]]

\* Chunk i of d becomes v; a write past the end leaves a hole before it.
Patched(d, i, v) ==
    [j \in 1..(IF i > Len(d) THEN i ELSE Len(d)) |->
        IF j = i THEN v ELSE IF j <= Len(d) THEN d[j] ELSE Torn]

-----------------------------------------------------------------------------

\* A file that was there before the first sync is no newer than the object.
Init ==
    /\ now = 1
    /\ s3 \in [data : Contents, mtime : {1}]
    /\ local \in {Absent} \cup [exists : {TRUE}, data : Contents,
                                ragged : {FALSE}, mtime : {0, 1}]
    /\ local.mtime <= s3.mtime
    /\ phase = "idle" /\ action = "Skip" /\ s3_size = 0
    /\ buf = << >> /\ temp = Absent
    /\ local_size = 0 /\ pending = {} /\ fetched = NoChunks
    /\ wrote_any = FALSE /\ download_failed = FALSE /\ cancelled = FALSE
    /\ result = "none" /\ disturbed = {}
    /\ edits = 0 /\ mishaps = 0

\* The run is over for this file: its locals go out of scope, and the next
\* run starts with a progress that is not cancelled.
RunEnds(r) ==
    /\ phase' = "idle" /\ result' = r
    /\ action' = "Skip" /\ s3_size' = 0 /\ buf' = << >> /\ temp' = Absent
    /\ local_size' = 0 /\ pending' = {} /\ fetched' = NoChunks
    /\ wrote_any' = FALSE /\ download_failed' = FALSE /\ cancelled' = FALSE

\* Something goes wrong in the environment; the bound keeps the model finite.
Mishap == mishaps < MaxMishaps /\ mishaps' = mishaps + 1

-----------------------------------------------------------------------------
(* Classification.                                                         *)

\* Equal seconds prove nothing, and an epoch timestamp is unknown.
DestinationIsCurrent(source_mtime, dest_mtime) ==
    /\ source_mtime > 0 /\ dest_mtime > 0
    /\ dest_mtime > source_mtime

ClassifyDownload ==
    IF ~local.exists THEN "Download"
    ELSE IF /\ Len(local.data) = Len(s3.data)
            /\ ~local.ragged
            /\ DestinationIsCurrent(s3.mtime, local.mtime)
         THEN "Skip"
    ELSE IF Len(s3.data) >= DiffThreshold THEN "DownloadDiff" ELSE "Download"

\* A run lists both sides and classifies the file.
Plan ==
    /\ phase = "idle"
    /\ IF ClassifyDownload = "Skip"
       THEN RunEnds("skip")
       ELSE /\ action' = ClassifyDownload
            /\ phase' = IF action' = "DownloadDiff" THEN "crc" ELSE "fetch"
            /\ s3_size' = Len(s3.data)
            /\ result' = "none"
            /\ UNCHANGED <<buf, temp, patchVars, cancelled>>
    /\ UNCHANGED <<envVars, local, disturbed, mishaps>>

-----------------------------------------------------------------------------
(* The whole-file path: process_file's fetch loop and download_from_data,  *)
(* or download_small_file as the fall-back of a diff download.             *)

\* The first s3_size bytes of the object arrive; an empty object is not
\* fetched, and so not given up when the run is cancelled.
FetchWhole ==
    /\ phase = "fetch"
    /\ ~cancelled \/ s3_size = 0
    /\ Len(s3.data) >= s3_size
    /\ buf' = Prefix(s3.data, s3_size)
    /\ phase' = "write"
    /\ UNCHANGED <<envVars, local, action, s3_size, temp, patchVars,
                   cancelled, result, disturbed, mishaps>>

\* Retries exhausted, too few bytes, or cancelled before the next attempt.
FetchWholeFails ==
    /\ phase = "fetch"
    /\ \/ (cancelled \/ Len(s3.data) < s3_size) /\ UNCHANGED mishaps
       \/ Mishap
    /\ RunEnds("failed")
    /\ UNCHANGED <<envVars, local, disturbed>>

\* A cancelled run does not enqueue what it fetched.
DropFetched ==
    /\ phase = "write"
    /\ action = "Download" /\ s3_size # 0 /\ cancelled
    /\ RunEnds("failed")
    /\ UNCHANGED <<envVars, local, disturbed, mishaps>>

\* AtomicFileWriter: the data goes to a temporary file beside the target.
WriteTemp ==
    /\ phase = "write"
    /\ temp' = [exists |-> TRUE, data |-> buf, ragged |-> FALSE, mtime |-> LocalNow]
    /\ phase' = "commit"
    /\ UNCHANGED <<envVars, local, action, s3_size, buf, patchVars, cancelled,
                   result, disturbed, mishaps>>

\* Creating, writing, syncing or renaming the temporary file fails: its
\* destructor removes it and the target keeps what it had.
WriteFails ==
    /\ phase \in {"write", "commit"}
    /\ Mishap
    /\ RunEnds("failed")
    /\ UNCHANGED <<envVars, local, disturbed>>

\* AtomicFileWriter::commit renames the temporary file over the target.
Commit ==
    /\ phase = "commit"
    /\ local' = temp
    /\ RunEnds("ok")
    /\ UNCHANGED <<envVars, disturbed, mishaps>>

-----------------------------------------------------------------------------
(* diff_download_file.                                                     *)

\* The CRCs of the object cannot be had: fall back to a full download.
CrcFails ==
    /\ phase = "crc"
    /\ \/ Len(s3.data) < s3_size /\ UNCHANGED mishaps
       \/ Mishap
    /\ phase' = "fetch"
    /\ UNCHANGED <<envVars, local, action, s3_size, buf, temp, patchVars,
                   cancelled, result, disturbed>>

\* Chunks of the object that the file does not already hold.
ChunksToDownload ==
    {i \in 1..s3_size : i > Len(local.data) \/ s3.data[i] # local.data[i]}

\* Mutation of Compare: no full download when no chunk can be reused.
CompareWithoutFallback ==
    /\ phase = "crc"
    /\ Len(s3.data) >= s3_size
    /\ \/ /\ ChunksToDownload = {} /\ Len(local.data) = s3_size
          /\ RunEnds("ok")
       \/ /\ ChunksToDownload = 1..s3_size
          /\ RunEnds("failed")
       \/ /\ ChunksToDownload # 1..s3_size
          /\ ~(ChunksToDownload = {} /\ Len(local.data) = s3_size)
          /\ phase' = "patch"
          /\ local_size' = Len(local.data)
          /\ pending' = ChunksToDownload
          /\ UNCHANGED <<action, s3_size, buf, temp, fetched, wrote_any,
                         download_failed, cancelled, result>>
    /\ UNCHANGED <<envVars, local, disturbed, mishaps>>

\* The CRCs are compared: nothing to do, nothing to reuse, or patch in place.
Compare ==
    /\ phase = "crc"
    /\ Len(s3.data) >= s3_size
    /\ \/ /\ ChunksToDownload = {} /\ Len(local.data) = s3_size
          /\ RunEnds("ok")
       \/ /\ ChunksToDownload = 1..s3_size
          /\ phase' = "fetch"
          /\ UNCHANGED <<action, s3_size, buf, temp, patchVars, cancelled, result>>
       \/ /\ ChunksToDownload # 1..s3_size
          /\ ~(ChunksToDownload = {} /\ Len(local.data) = s3_size)
          /\ phase' = "patch"
          /\ local_size' = Len(local.data)
          /\ pending' = ChunksToDownload
          /\ UNCHANGED <<action, s3_size, buf, temp, fetched, wrote_any,
                         download_failed, cancelled, result>>
    /\ UNCHANGED <<envVars, local, disturbed, mishaps>>

\* A worker takes the next chunk and fetches it.
FetchChunk(i) ==
    /\ phase = "patch"
    /\ ~cancelled /\ ~download_failed
    /\ i \in pending /\ \A j \in pending : i <= j
    /\ Cardinality(DOMAIN fetched) < MaxWorkers
    /\ i <= Len(s3.data)
    /\ pending' = pending \ {i}
    /\ fetched' = [j \in DOMAIN fetched \cup {i} |->
                      IF j = i THEN s3.data[i] ELSE fetched[j]]
    /\ UNCHANGED <<envVars, local, phase, action, s3_size, buf, temp,
                   local_size, wrote_any, download_failed, cancelled, result,
                   disturbed, mishaps>>

\* pwrite has written part of the chunk ...
PwritePart(i) ==
    /\ phase = "patch"
    /\ i \in DOMAIN fetched
    /\ local' = [exists |-> TRUE, data |-> Patched(local.data, i, Torn),
                 ragged |-> i > Len(local.data) \/ local.ragged, mtime |-> LocalNow]
    /\ wrote_any' = TRUE
    /\ UNCHANGED <<envVars, phase, action, s3_size, buf, temp, local_size,
                   pending, fetched, download_failed, cancelled, result,
                   disturbed, mishaps>>

\* Mutation of PwriteRest: the file was opened with O_TRUNC.
PwriteRestTruncated(i) ==
    /\ phase = "patch"
    /\ i \in DOMAIN fetched
    /\ local' = [exists |-> TRUE, data |-> Patched(<< >>, i, fetched[i]),
                 ragged |-> FALSE, mtime |-> LocalNow]
    /\ wrote_any' = TRUE
    /\ fetched' = [j \in DOMAIN fetched \ {i} |-> fetched[j]]
    /\ UNCHANGED <<envVars, phase, action, s3_size, buf, temp, local_size,
                   pending, download_failed, cancelled, result, disturbed,
                   mishaps>>

\* ... and the rest of it: the worker looks for another chunk.
PwriteRest(i) ==
    /\ phase = "patch"
    /\ i \in DOMAIN fetched
    /\ local' = [exists |-> TRUE, data |-> Patched(local.data, i, fetched[i]),
                 ragged |-> i < Len(local.data) /\ local.ragged, mtime |-> LocalNow]
    /\ wrote_any' = TRUE
    /\ fetched' = [j \in DOMAIN fetched \ {i} |-> fetched[j]]
    /\ UNCHANGED <<envVars, phase, action, s3_size, buf, temp, local_size,
                   pending, download_failed, cancelled, result, disturbed,
                   mishaps>>

\* Retries exhausted before or after a partial write: the other workers stop
\* after the chunk they hold.
ChunkFails(i) ==
    /\ phase = "patch"
    /\ \/ /\ i \in DOMAIN fetched
          /\ Mishap
          /\ fetched' = [j \in DOMAIN fetched \ {i} |-> fetched[j]]
          /\ UNCHANGED pending
       \/ /\ i \in pending /\ ~cancelled /\ ~download_failed
          /\ \/ i > Len(s3.data) /\ UNCHANGED mishaps
             \/ Mishap
          /\ pending' = pending \ {i}
          /\ UNCHANGED fetched
    /\ download_failed' = TRUE
    /\ UNCHANGED <<envVars, local, phase, action, s3_size, buf, temp,
                   local_size, wrote_any, cancelled, result, disturbed>>

\* Mutation of PatchAbandoned: the half-patched file keeps its mtime.
PatchAbandonedUnmarked ==
    /\ phase = "patch"
    /\ fetched = NoChunks
    /\ cancelled \/ download_failed
    /\ RunEnds("failed")
    /\ UNCHANGED <<envVars, local, disturbed, mishaps>>

\* The workers are joined after a failure or a cancellation: a file that was
\* written to gets the epoch as its mtime.
PatchAbandoned ==
    /\ phase = "patch"
    /\ fetched = NoChunks
    /\ cancelled \/ download_failed
    /\ local' = IF wrote_any THEN [local EXCEPT !.mtime = 0] ELSE local
    /\ RunEnds("failed")
    /\ UNCHANGED <<envVars, disturbed, mishaps>>

\* The workers are joined and every chunk is written: a longer file is cut.
PatchCompleted ==
    /\ phase = "patch"
    /\ fetched = NoChunks /\ pending = {}
    /\ ~cancelled /\ ~download_failed
    /\ local' = IF s3_size < local_size
                THEN [exists |-> TRUE, data |-> Prefix(local.data, s3_size),
                      ragged |-> FALSE, mtime |-> LocalNow]
                ELSE local
    /\ RunEnds("ok")
    /\ UNCHANGED <<envVars, disturbed, mishaps>>

\* ftruncate fails: the same marking as for an abandoned patch.
TruncateFails ==
    /\ phase = "patch"
    /\ fetched = NoChunks /\ pending = {}
    /\ ~cancelled /\ ~download_failed
    /\ s3_size < local_size
    /\ Mishap
    /\ local' = IF wrote_any THEN [local EXCEPT !.mtime = 0] ELSE local
    /\ RunEnds("failed")
    /\ UNCHANGED <<envVars, disturbed>>

-----------------------------------------------------------------------------
(* The environment.                                                        *)

\* Ctrl-C.
Cancel ==
    /\ phase # "idle" /\ ~cancelled
    /\ Mishap
    /\ cancelled' = TRUE
    /\ UNCHANGED <<envVars, local, phase, action, s3_size, buf, temp,
                   patchVars, result, disturbed>>

\* A second Ctrl-C (_Exit), or a kill: no cleanup runs.  An orphaned temporary
\* file is swept by the next run.
Kill ==
    /\ phase # "idle"
    /\ Mishap
    /\ disturbed' = IF wrote_any THEN disturbed \cup {"killed"} ELSE disturbed
    /\ RunEnds("failed")
    /\ UNCHANGED <<envVars, local>>

\* The object is overwritten.  Between two runs that restarts the story.
SourceEdit ==
    /\ edits < MaxEdits /\ now <= LastEdit
    /\ edits' = edits + 1
    /\ \E d \in Contents : s3' = [data |-> d, mtime |-> now]
    /\ disturbed' = IF phase = "idle" THEN {} ELSE {"source_edited"}
    /\ result' = "none"
    /\ UNCHANGED <<now, local, phase, action, s3_size, buf, temp, patchVars,
                   cancelled, mishaps>>

Tick ==
    /\ now < MaxTime
    /\ now' = now + 1
    /\ UNCHANGED <<s3, edits, local, phase, action, s3_size, buf, temp,
                   patchVars, cancelled, result, disturbed, mishaps>>

-----------------------------------------------------------------------------

\* The steps of the program that go well.
SyncStep ==
    \/ Plan \/ FetchWhole \/ WriteTemp \/ Commit \/ Compare
    \/ \E i \in 1..MaxChunks : FetchChunk(i) \/ PwriteRest(i)
    \/ PatchAbandoned \/ PatchCompleted

FailureStep ==
    \/ FetchWholeFails \/ DropFetched \/ WriteFails \/ CrcFails
    \/ \E i \in 1..MaxChunks : PwritePart(i) \/ ChunkFails(i)
    \/ TruncateFails

Next == SyncStep \/ FailureStep \/ Cancel \/ Kill \/ SourceEdit \/ Tick

Spec == Init /\ [][Next]_vars

(***************************************************************************)
(* The user runs the sync again and again, a run is scheduled to its end,  *)
(* requests end (the client has timeouts) and time passes.  What goes      *)
(* wrong goes wrong at most MaxMishaps times.                              *)
(***************************************************************************)
FairSpec ==
    Spec /\ WF_vars(SyncStep) /\ WF_vars(Tick)
         /\ WF_vars(FetchWholeFails) /\ WF_vars(CrcFails)
         /\ WF_vars(\E i \in 1..MaxChunks : ChunkFails(i))

-----------------------------------------------------------------------------

\* The type invariant of the object, the file and the run's locals.
TypeOK ==
    /\ now \in Nat
    /\ s3 \in [data : Contents, mtime : Nat]
    /\ local \in [exists : BOOLEAN, data : Seq(Data \cup {Torn}),
                 ragged : BOOLEAN, mtime : Int]
    /\ phase \in Phases /\ action \in {"Skip", "Download", "DownloadDiff"}
    /\ s3_size \in 0..MaxChunks /\ buf \in Contents
    /\ temp \in [exists : BOOLEAN, data : Contents, ragged : {FALSE}, mtime : Int]
    /\ local_size \in Nat /\ pending \subseteq 1..MaxChunks
    /\ DOMAIN fetched \subseteq 1..MaxChunks
    /\ fetched \in [DOMAIN fetched -> Data]
    /\ wrote_any \in BOOLEAN /\ download_failed \in BOOLEAN
    /\ cancelled \in BOOLEAN /\ result \in Results
    /\ disturbed \subseteq {"killed", "source_edited"}
    /\ edits \in Nat /\ mishaps \in Nat
    /\ phase = "patch" => local_size <= Len(local.data)

(***************************************************************************)
(* What a run reports as transferred or skips as current really is the     *)
(* object, however the runs before it ended, provided none was killed      *)
(* while it patched the file and the object did not change under one       *)
(* (destination_is_current, and the marking of an abandoned patch).        *)
(***************************************************************************)
ReportedCurrent ==
    (phase = "idle" /\ result \in {"ok", "skip"} /\ disturbed = {}) =>
        local.exists /\ local.data = s3.data

(***************************************************************************)
(* Why ReportedCurrent holds.                                              *)
(* A file that would be skipped is the object, unless a patch is under way *)
(* (wrote_any); the data a run holds, and the chunks it has finished, are  *)
(* the object's; and no stamp is later than the clock, so that an object   *)
(* changed between two runs is at least as new as the file.                *)
(***************************************************************************)
Believed ==
    /\ local.exists /\ Len(local.data) = Len(s3.data) /\ ~local.ragged
    /\ DestinationIsCurrent(s3.mtime, local.mtime)

StampsPast == s3.mtime <= now /\ local.mtime <= now /\ temp.mtime <= now

PhaseOrder ==
    /\ phase # "patch" => ~wrote_any /\ fetched = NoChunks
    /\ phase \in {"crc", "patch"} => local.exists

BelievedIsCurrent == (Believed /\ ~wrote_any) => local.data = s3.data

HeldData ==
    /\ phase # "idle" => s3_size = Len(s3.data)
    /\ phase \in {"write", "commit"} => buf = s3.data
    /\ phase = "commit" => temp.exists /\ temp.data = s3.data

ChunksAccounted ==
    phase = "patch" =>
        /\ pending \subseteq 1..s3_size /\ DOMAIN fetched \subseteq 1..s3_size
        /\ \A i \in DOMAIN fetched : fetched[i] = s3.data[i]
        /\ Len(local.data) <= local_size \/ Len(local.data) <= s3_size
        /\ ~download_failed =>
              \A i \in 1..s3_size :
                 \/ i \in pending \cup DOMAIN fetched
                 \/ i <= Len(local.data) /\ local.data[i] = s3.data[i]

DownloadInv ==
    /\ TypeOK /\ StampsPast /\ PhaseOrder
    /\ disturbed = {} =>
          BelievedIsCurrent /\ HeldData /\ ChunksAccounted /\ ReportedCurrent

(***************************************************************************)
(* exit-codes.md: "Running the same sync again converges ... Anything      *)
(* caught mid-transfer does not match, and gets redone."                   *)
(***************************************************************************)
InterruptedIsRedone ==
    (phase = "idle" /\ result \in {"ok", "skip"} /\ "source_edited" \notin disturbed) =>
        local.exists /\ local.data = s3.data

\* Repeated runs converge once the object and the environment are quiet.
Converges == <>[](disturbed # {} \/ (local.exists /\ local.data = s3.data))
=============================================================================

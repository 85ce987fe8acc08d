----------------------------- MODULE UploadsProofs -----------------------------
(***************************************************************************)
(* UploadsInv is an invariant of Uploads, for every set of jobs, size,     *)
(* window and number of retries: the checksums of GetHashes are those of   *)
(* chunks there were, no upload is aborted while threads add parts to it,  *)
(* a registered upload is closed or has been tried twice when the command  *)
(* ends, success means that the data is in place, and a leftovers that     *)
(* reports success has left nothing.                                       *)
(***************************************************************************)
EXTENDS Uploads, FiniteSetTheorems, SequenceTheorems, WellFoundedInduction, TLAPS

-----------------------------------------------------------------------------
(* Multipart uploads: the inductive invariant.                             *)

\* A chunk of some data, or none.
Cells == (0..MaxChunks) \X {"none", "source", "old", "late"}
Data  == {data \in Seq(Cells) : Len(data) <= MaxChunks}
Works == [state : {"idle", "posted", "running", "counted", "done"}, attempt : Nat, before : Nat]

JobRecords ==
    [pc : Pcs, size : 0..MaxChunks, local : Data, remote : 0..MaxChunks, ids : Requests,
     crcs : Seq(Cells), upload : Nat, part : Nat \ {0}, attempt : Nat, tries : Nat,
     pool : BOOLEAN, window : Int, threshold : Int, wait : Nat, sums : [Chunks -> Cells],
     work : [Chunks -> Works], errors : Nat, should_abort : BOOLEAN,
     success : BOOLEAN, want : Data]

UploadRecords ==
    [owner : Jobs \cup {None}, known : BOOLEAN, registers : BOOLEAN,
     state : {"open", "aborted", "completed"}, parts : [Chunks -> Cells], aborts : Nat]

LeftRecords ==
    [pc : {"start", "list", "page", "done"}, prefix : Jobs \cup {None}, older : BOOLEAN,
     start : SUBSET Nat, marker : Nat, page : SUBSET Nat, truncated : BOOLEAN,
     failures : 0..1, exit : -1..1, missed : SUBSET Nat]

DataTypes ==
    /\ kind \in [Jobs -> Kinds] /\ touched \in [Jobs -> BOOLEAN]
    /\ source \in [Jobs -> Data] /\ object \in [Jobs -> Data]
    /\ was \in [Jobs -> SUBSET Data] /\ \A j \in Jobs : object[j] \in was[j]
JobTypes     == job \in [Jobs -> JobRecords]
UploadTypes  == uploads \in Seq(UploadRecords)
RegistryTypes == registered \subseteq DOMAIN uploads /\ to_abort \subseteq DOMAIN uploads
PhaseTypes   == phase \in {"running", "abort_all", "exited", "killed"}
LeftTypes    == left \in LeftRecords

UploadsTyped ==
    DataTypes /\ JobTypes /\ UploadTypes /\ RegistryTypes /\ PhaseTypes /\ LeftTypes

\* A job whose upload is in its hands.
Holding == {"submit", "launch", "wait", "join", "hash_abort", "open", "part", "abort"}

\* Threads work for a job only while it fans out, and jobs run only while the
\* command does.
BusyBelongs(j) == Busy(j) # {} => job[j].pc \in {"submit", "wait", "join"}
JobsEnd        == phase # "running" => \A j \in Jobs : job[j].pc = "returned"

\* The upload a job holds is its own.
Owned(j) ==
    job[j].pc \in Holding =>
        job[j].upload \in DOMAIN uploads /\ uploads[job[j].upload].owner = j

\* An upload that nobody has tried to abort is in the hands of a job, and one
\* that was not tried twice is still in the registry or taken from it.
Held(u)   == \E j \in Jobs : job[j].pc \in Holding /\ job[j].upload = u
Pending(u) == uploads[u].registers /\ uploads[u].known /\ IsOpen(u)
Registry ==
    \A u \in DOMAIN uploads : Pending(u) =>
        /\ phase = "running" => u \in registered /\ (uploads[u].aborts >= 1 \/ Held(u))
        /\ phase = "abort_all" =>
              uploads[u].aborts >= 1 /\ (u \in to_abort \/ uploads[u].aborts >= 2)
        /\ phase = "exited" => uploads[u].aborts >= 2

\* Hashing
FanOut == {"submit", "launch", "wait", "join"}
Afterwards == {"hash_abort", "decide", "put", "open", "part", "abort", "copy", "again", "returned"}

SumsHonest(j) ==
    \A c \in Chunks : job[j].sums[c] # None =>
        \E data \in was[j] : c \in DOMAIN data /\ job[j].sums[c] = data[c]
AskedFor(r) == IF r.ids = <<>> THEN [c \in 1..r.remote |-> c] ELSE r.ids
Honest(j) ==
    job[j].crcs # <<>> =>
        /\ Len(job[j].crcs) = Len(AskedFor(job[j]))
        /\ \A i \in DOMAIN AskedFor(job[j]) : \E data \in was[j] :
              /\ AskedFor(job[j])[i] \in DOMAIN data
              /\ job[j].crcs[i] = data[AskedFor(job[j])[i]]
HashSound(j) ==
    /\ job[j].crcs # <<>> => job[j].pc \in Afterwards
    /\ job[j].pc \in FanOut => chunk_request_is_valid(job[j].ids, job[j].remote)
    /\ SumsHonest(j) /\ Honest(j)

\* Content
CopyPcs == {"start", "copy", "again", "part", "abort", "returned"}
DiffPcs == {"crcs", "head", "decide", "put", "open", "part", "abort"}
Unwritten == {"start", "crcs", "head", "hash_check", "submit", "launch", "wait", "join",
              "hash_abort", "decide", "open", "part"}
KindSound(j) ==
    /\ kind[j] = "copy" => job[j].pc \in CopyPcs
    /\ kind[j] # "copy" => job[j].pc \notin {"copy", "again"}
    /\ kind[j] = "diff_upload" => job[j].ids = <<>>
    /\ kind[j] = "hashes" => job[j].pc \notin DiffPcs
    /\ kind[j] = "diff_upload" /\ job[j].pc \notin {"start", "crcs", "abort", "returned"} =>
          job[j].local # <<>>
SizesSound(j) ==
    ~touched[j] =>
        /\ kind[j] = "copy" /\ job[j].pc \in {"copy", "again", "part", "abort"} =>
              job[j].size = Len(source[j])
        /\ kind[j] # "copy" /\ job[j].pc \in Unwritten => was[j] = {object[j]}
        /\ kind[j] # "copy" /\ job[j].pc \in Unwritten =>
              \/ job[j].remote = Len(object[j])
              \/ job[j].crcs = <<>> /\ job[j].pc \notin {"hash_check"} \cup FanOut
PartsSound(j) ==
    /\ job[j].pc = "open" => job[j].part = 1
    /\ job[j].pc = "part" /\ ~touched[j] /\ IsOpen(job[j].upload) =>
          \A p \in 1..(job[j].part - 1) : p <= NumParts(j) =>
              uploads[job[j].upload].parts[p] = Want(j)[p]
SuccessSound(j) ==
    job[j].success =>
        /\ job[j].pc = "returned"
        /\ ~touched[j] /\ (kind[j] = "diff_upload" => Len(job[j].local) = job[j].size) =>
              object[j] = job[j].want

LeftSound ==
    /\ left.start \subseteq DOMAIN uploads
    /\ left.pc = "start" => left.marker = 0
    /\ left.pc \in {"list", "page"} /\ left.failures = 0 =>
          \A u \in left.start : Matches(u) /\ IsOpen(u) =>
              \/ left.pc = "page" /\ u \in left.page
              \/ (left.pc = "page" => left.truncated) /\ u > left.marker
    /\ left.exit = 0 => left.missed = {}

JobSound(j) ==
    /\ BusyBelongs(j) /\ Owned(j) /\ HashSound(j) /\ KindSound(j) /\ SizesSound(j)
    /\ PartsSound(j) /\ SuccessSound(j)
JobsSound  == \A j \in Jobs : JobSound(j)
UploadsInv == UploadsTyped /\ JobsEnd /\ Registry /\ LeftSound /\ JobsSound

-----------------------------------------------------------------------------
(* The records of the jobs.                                                *)

\* What the invariant says of the data of a job, and of its threads.
SameData(q, r) ==
    /\ q.size = r.size /\ q.local = r.local /\ q.remote = r.remote /\ q.ids = r.ids
    /\ q.crcs = r.crcs /\ q.upload = r.upload /\ q.part = r.part
    /\ q.success = r.success /\ q.want = r.want
SameWork(q, r) == q.work = r.work /\ q.sums = r.sums

\* A job that moves is still a job, where it was told to go, and the others stay.
LEMMA GotoFacts ==
    ASSUME JobTypes, NEW j \in Jobs, NEW r \in JobRecords, NEW pc \in Pcs, Goto(j, pc, r)
    PROVE  /\ JobTypes' /\ job'[j] \in JobRecords
           /\ job'[j].pc = pc /\ SameData(job'[j], r) /\ SameWork(job'[j], r)
           /\ \A k \in Jobs : k # j => job'[k] = job[k]
  <1>1. /\ [r EXCEPT !.pc = pc] \in JobRecords
        /\ [r EXCEPT !.pc = pc].pc = pc
        /\ SameData([r EXCEPT !.pc = pc], r) /\ SameWork([r EXCEPT !.pc = pc], r)
    BY DEF JobRecords, SameData, SameWork
  <1>2. /\ JobTypes' /\ job'[j] = [r EXCEPT !.pc = pc]
        /\ \A k \in Jobs : k # j => job'[k] = job[k]
    BY <1>1, Zenon DEF JobTypes, Goto
  <1>3. QED
    BY <1>1, <1>2, Zenon

\* The fields that only the control of a job depends on.
LEMMA ControlFields ==
    ASSUME NEW r \in JobRecords, NEW n \in Nat, NEW m \in Nat, NEW b \in BOOLEAN
    PROVE  /\ [r EXCEPT !.attempt = n] \in JobRecords
           /\ SameData([r EXCEPT !.attempt = n], r) /\ SameWork([r EXCEPT !.attempt = n], r)
           /\ [r EXCEPT !.tries = n, !.attempt = m] \in JobRecords
           /\ SameData([r EXCEPT !.tries = n, !.attempt = m], r)
           /\ [r EXCEPT !.wait = n, !.should_abort = b] \in JobRecords
           /\ [r EXCEPT !.should_abort = b] \in JobRecords
           /\ SameData([r EXCEPT !.should_abort = b], r)
           /\ SameWork([r EXCEPT !.should_abort = b], r)
           /\ SameWork([r EXCEPT !.tries = n, !.attempt = m], r)
           /\ [r EXCEPT !.wait = n] \in JobRecords
           /\ SameData([r EXCEPT !.wait = n], r) /\ SameWork([r EXCEPT !.wait = n], r)
           /\ [r EXCEPT !.wait = n, !.errors = m] \in JobRecords
           /\ SameData([r EXCEPT !.wait = n, !.errors = m], r)
           /\ SameWork([r EXCEPT !.wait = n, !.errors = m], r)
    BY DEF JobRecords, SameData, SameWork

\* The counters of a job stay numbers when they are counted up.
LEMMA CounterFields ==
    ASSUME NEW r \in JobRecords
    PROVE  /\ r.wait + 1 \in Nat /\ r.errors + 1 \in Nat /\ r.tries + 1 \in Nat
           /\ r.attempt + 1 \in Nat /\ r.part + 1 \in Nat \ {0} /\ r.errors \in Nat
           /\ r.part \in Nat \ {0} /\ r.window \in Int
  <1>1. r.wait \in Nat /\ r.errors \in Nat /\ r.tries \in Nat /\ r.attempt \in Nat
    BY DEF JobRecords
  <1>2. r.part \in Nat \ {0} /\ r.window \in Int
    BY DEF JobRecords
  <1>3. r.part + 1 \in Nat \ {0}
    BY <1>2
  <1>4. QED
    BY <1>1, <1>2, <1>3

\* The window of a fan-out and its threshold do not concern the data of a job.
LEMMA WindowFields ==
    ASSUME NEW r \in JobRecords, NEW n \in Int, NEW t \in Int
    PROVE  /\ [r EXCEPT !.window = n, !.threshold = t] \in JobRecords
           /\ SameData([r EXCEPT !.window = n, !.threshold = t], r)
           /\ SameWork([r EXCEPT !.window = n, !.threshold = t], r)
           /\ [r EXCEPT !.window = n] \in JobRecords
           /\ SameData([r EXCEPT !.window = n], r) /\ SameWork([r EXCEPT !.window = n], r)
    BY DEF JobRecords, SameData, SameWork

\* The thread of one chunk.
IsThread(q, r, c, w) ==
    /\ q \in JobRecords /\ SameData(q, r) /\ q.sums = r.sums
    /\ q.work[c] = w /\ \A d \in Chunks : d # c => q.work[d] = r.work[d]

\* A thread is given another record, and nothing else changes.
LEMMA ThreadFields ==
    ASSUME NEW r \in JobRecords, NEW c \in Chunks, NEW w \in Works
    PROVE  IsThread([r EXCEPT !.work = [r.work EXCEPT ![c] = w]], r, c, w)
  <1> DEFINE ws == [r.work EXCEPT ![c] = w]
  <1>1. r.work \in [Chunks -> Works]
    BY DEF JobRecords
  <1>2. ws \in [Chunks -> Works] /\ ws[c] = w /\ \A d \in Chunks : d # c => ws[d] = r.work[d]
    BY <1>1
  <1> HIDE DEF ws
  <1>3. /\ [r EXCEPT !.work = ws] \in JobRecords /\ SameData([r EXCEPT !.work = ws], r)
        /\ [r EXCEPT !.work = ws].sums = r.sums /\ [r EXCEPT !.work = ws].work = ws
    BY <1>2 DEF JobRecords, SameData
  <1>4. QED
    BY <1>2, <1>3, Zenon DEF ws, IsThread

\* What the threads do to it.
LEMMA ThreadSteps ==
    ASSUME NEW r \in JobRecords, NEW c \in Chunks
    PROVE  /\ r.work[c] \in Works
           /\ \E w \in Works : /\ w.state = "posted"
                               /\ IsThread([r EXCEPT !.work[c].state = "posted"], r, c, w)
           /\ \E w \in Works : /\ w.state = "running"
                               /\ IsThread([r EXCEPT !.work[c].state = "running",
                                                     !.work[c].before = r.errors], r, c, w)
           /\ \E w \in Works : /\ w.state = r.work[c].state
                               /\ IsThread([r EXCEPT !.work[c].attempt = @ + 1], r, c, w)
           /\ \E w \in Works : /\ w.state = "done"
                               /\ IsThread([r EXCEPT !.work[c].state = "done"], r, c, w)
  <1>1. r.work \in [Chunks -> Works] /\ r.work[c] \in Works /\ r.errors \in Nat
    BY DEF JobRecords
  <1>2. ASSUME NEW w \in Works, NEW t \in {"posted", "running", "done"}
        PROVE  [w EXCEPT !.state = t] \in Works /\ [w EXCEPT !.state = t].state = t
    BY DEF Works
  <1>3. ASSUME NEW w \in Works, NEW n \in Nat
        PROVE  /\ [w EXCEPT !.before = n] \in Works /\ [w EXCEPT !.before = n].state = w.state
               /\ [w EXCEPT !.attempt = n] \in Works /\ [w EXCEPT !.attempt = n].state = w.state
    BY DEF Works
  <1>4. r.work[c].attempt + 1 \in Nat
    BY <1>1 DEF Works
  <1>5. \E w \in Works : /\ w.state = "posted"
                        /\ IsThread([r EXCEPT !.work[c].state = "posted"], r, c, w)
    <2>1. [r EXCEPT !.work[c].state = "posted"]
             = [r EXCEPT !.work = [r.work EXCEPT ![c] = [r.work[c] EXCEPT !.state = "posted"]]]
      OBVIOUS
    <2>2. QED
      BY <1>1, <1>2, <2>1, ThreadFields, Zenon
  <1>6. \E w \in Works : w.state = "done" /\ IsThread([r EXCEPT !.work[c].state = "done"], r, c, w)
    <2>1. [r EXCEPT !.work[c].state = "done"]
             = [r EXCEPT !.work = [r.work EXCEPT ![c] = [r.work[c] EXCEPT !.state = "done"]]]
      OBVIOUS
    <2>2. QED
      BY <1>1, <1>2, <2>1, ThreadFields, Zenon
  <1>7. \E w \in Works : /\ w.state = "running"
                        /\ IsThread([r EXCEPT !.work[c].state = "running",
                                              !.work[c].before = r.errors], r, c, w)
    <2> DEFINE q == [r EXCEPT !.work[c].state = "running"]
               v == [r.work[c] EXCEPT !.state = "running"]
    <2>1. v \in Works /\ v.state = "running" /\ IsThread(q, r, c, v)
      <3>1. q = [r EXCEPT !.work = [r.work EXCEPT ![c] = v]]
        OBVIOUS
      <3>2. QED
        BY <1>1, <1>2, <3>1, ThreadFields, Zenon
    <2>2. [r EXCEPT !.work[c].state = "running", !.work[c].before = r.errors]
             = [q EXCEPT !.work = [q.work EXCEPT ![c] = [q.work[c] EXCEPT !.before = r.errors]]]
      OBVIOUS
    <2>3. q \in JobRecords /\ q.work[c] = v
      BY <2>1, Zenon DEF IsThread
    <2> HIDE DEF q, v
    <2> DEFINE w == [v EXCEPT !.before = r.errors]
    <2>4. w \in Works /\ w.state = "running"
      BY <1>1, <1>3, <2>1, Zenon
    <2>5. IsThread([q EXCEPT !.work = [q.work EXCEPT ![c] = w]], q, c, w)
      BY <2>3, <2>4, ThreadFields, Zenon
    <2>6. IsThread([q EXCEPT !.work = [q.work EXCEPT ![c] = w]], r, c, w)
      BY <2>1, <2>5, Zenon DEF IsThread, SameData
    <2>7. QED
      BY <2>2, <2>3, <2>4, <2>6, Zenon
  <1>8. \E w \in Works : /\ w.state = r.work[c].state
                        /\ IsThread([r EXCEPT !.work[c].attempt = @ + 1], r, c, w)
    <2>1. [r EXCEPT !.work[c].attempt = @ + 1]
             = [r EXCEPT !.work = [r.work EXCEPT ![c] = [r.work[c] EXCEPT !.attempt = @ + 1]]]
      OBVIOUS
    <2>2. QED
      BY <1>1, <1>3, <1>4, <2>1, ThreadFields, Zenon
  <1>9. QED
    BY <1>1, <1>5, <1>6, <1>7, <1>8, Zenon

-----------------------------------------------------------------------------
(* The multipart uploads.                                                  *)

\* What may become of an upload: its past stays, and it is never opened again.
Grows(u) ==
    /\ u \in DOMAIN uploads' /\ uploads'[u].owner = uploads[u].owner
    /\ uploads'[u].known = uploads[u].known /\ uploads'[u].registers = uploads[u].registers
    /\ uploads'[u].aborts >= uploads[u].aborts
    /\ IsOpen(u)' => IsOpen(u)
UploadsGrow == \A u \in DOMAIN uploads : Grows(u)

\* Its parts, as long as it is open.
PartsKept(u) == IsOpen(u)' => uploads'[u].parts = uploads[u].parts

\* One upload is replaced by another record.
LEMMA ReplaceUpload ==
    ASSUME NEW us \in Seq(UploadRecords), NEW u \in DOMAIN us, NEW x \in UploadRecords
    PROVE  /\ [us EXCEPT ![u] = x] \in Seq(UploadRecords)
           /\ DOMAIN [us EXCEPT ![u] = x] = DOMAIN us
           /\ [us EXCEPT ![u] = x][u] = x
           /\ \A v \in DOMAIN us : v # u => [us EXCEPT ![u] = x][v] = us[v]
    BY ExceptSeq

\* The fields of an upload.
LEMMA UploadFields ==
    ASSUME NEW x \in UploadRecords
    PROVE  /\ x.owner \in Jobs \cup {None} /\ x.known \in BOOLEAN /\ x.registers \in BOOLEAN
           /\ x.state \in {"open", "aborted", "completed"}
           /\ x.parts \in [Chunks -> Cells] /\ x.aborts \in Nat
    BY DEF UploadRecords

\* No part and no checksum is one of the cells.
LEMMA NoSumsFacts == None \in Cells /\ NoSums \in [Chunks -> Cells]
    BY UploadsAssumption DEF None, Cells, NoSums

\* x is the upload y, closed in the given way or as it was, with n failed aborts.
IsUpload(x, y, state, parts, aborts) ==
    /\ x \in UploadRecords
    /\ x.owner = y.owner /\ x.known = y.known /\ x.registers = y.registers
    /\ x.state = state /\ x.parts = parts /\ x.aborts = aborts

\* What completing, aborting or adding a part makes of the record of an upload.
LEMMA RecordOfUpload ==
    ASSUME NEW y \in UploadRecords
    PROVE  /\ IsUpload(y, y, y.state, y.parts, y.aborts)
           /\ \A state \in {"open", "aborted", "completed"} :
                 IsUpload([y EXCEPT !.state = state, !.parts = NoSums], y, state, NoSums, y.aborts)
           /\ \A n \in Nat : IsUpload([y EXCEPT !.aborts = n], y, y.state, y.parts, n)
           /\ \A parts \in [Chunks -> Cells] :
                 IsUpload([y EXCEPT !.parts = parts], y, y.state, parts, y.aborts)
  <1>1. IsUpload(y, y, y.state, y.parts, y.aborts)
    BY Zenon DEF IsUpload
  <1>2. ASSUME NEW state \in {"open", "aborted", "completed"}
        PROVE  IsUpload([y EXCEPT !.state = state, !.parts = NoSums], y, state, NoSums, y.aborts)
    BY NoSumsFacts DEF UploadRecords, IsUpload
  <1>3. ASSUME NEW n \in Nat
        PROVE  IsUpload([y EXCEPT !.aborts = n], y, y.state, y.parts, n)
    BY DEF UploadRecords, IsUpload
  <1>4. ASSUME NEW parts \in [Chunks -> Cells]
        PROVE  IsUpload([y EXCEPT !.parts = parts], y, y.state, parts, y.aborts)
    BY DEF UploadRecords, IsUpload
  <1>5. QED
    BY <1>1, <1>2, <1>3, <1>4, Zenon

\* An upload there has been.
LEMMA UploadOf ==
    ASSUME UploadTypes, NEW u \in DOMAIN uploads
    PROVE  u \in Nat /\ u # 0 /\ u <= Len(uploads) /\ uploads[u] \in UploadRecords
  <1>1. DOMAIN uploads = 1..Len(uploads) /\ Len(uploads) \in Nat
    BY LenProperties DEF UploadTypes
  <1>2. QED
    BY <1>1, ElementOfSeq DEF UploadTypes

\* An upload that is closed.
LEMMA ClosedFacts ==
    ASSUME UploadTypes, NEW u \in DOMAIN uploads, NEW state \in {"aborted", "completed"}
    PROVE  /\ Closed(u, state) \in Seq(UploadRecords)
           /\ DOMAIN Closed(u, state) = DOMAIN uploads
           /\ IsUpload(Closed(u, state)[u], uploads[u], state, NoSums, uploads[u].aborts)
           /\ \A v \in DOMAIN uploads : v # u => Closed(u, state)[v] = uploads[v]
  <1>1. uploads[u] \in UploadRecords
    BY UploadOf
  <1> DEFINE x == [uploads[u] EXCEPT !.state = state, !.parts = NoSums]
  <1>2. IsUpload(x, uploads[u], state, NoSums, uploads[u].aborts) /\ x \in UploadRecords
    <2>1. state \in {"open", "aborted", "completed"}
      OBVIOUS
    <2>2. IsUpload(x, uploads[u], state, NoSums, uploads[u].aborts)
      BY <1>1, <2>1, RecordOfUpload
    <2>3. QED
      BY <2>2, Zenon DEF IsUpload
  <1>3. Closed(u, state) = [uploads EXCEPT ![u] = x]
    <2> DEFINE us == [uploads EXCEPT ![u].state = state]
    <2>1. us \in Seq(UploadRecords) /\ DOMAIN us = DOMAIN uploads
      BY <1>1, ReplaceUpload DEF UploadTypes, UploadRecords
    <2>2. QED
      BY <1>1 DEF Closed, UploadRecords, UploadTypes
  <1> HIDE DEF x
  <1>4. /\ [uploads EXCEPT ![u] = x] \in Seq(UploadRecords)
        /\ DOMAIN [uploads EXCEPT ![u] = x] = DOMAIN uploads
        /\ [uploads EXCEPT ![u] = x][u] = x
        /\ \A v \in DOMAIN uploads : v # u => [uploads EXCEPT ![u] = x][v] = uploads[v]
    BY <1>2, ReplaceUpload DEF UploadTypes
  <1>5. QED
    BY <1>2, <1>3, <1>4, Zenon

\* What a request to abort does to the upload, and to no other.
LEMMA AbortFacts ==
    ASSUME UploadTypes, NEW u \in DOMAIN uploads, NEW ok \in BOOLEAN, AbortAnswer(u, ok)
    PROVE  /\ UploadTypes' /\ DOMAIN uploads' = DOMAIN uploads
           /\ UploadsGrow /\ \A v \in DOMAIN uploads : PartsKept(v)
           /\ IsOpen(u)' => ~ok /\ uploads'[u].aborts = uploads[u].aborts + 1
           /\ \A v \in DOMAIN uploads : v # u => uploads'[v] = uploads[v]
  <1>1. PICK applied \in {ok, IsOpen(u)} :
           uploads' = [(IF applied THEN Closed(u, "aborted") ELSE uploads)
                       EXCEPT ![u].aborts = IF ok THEN @ ELSE @ + 1]
    BY Zenon DEF AbortAnswer
  <1>2. ok => IsOpen(u) /\ applied
    BY <1>1 DEF AbortAnswer
  <1> DEFINE us == IF applied THEN Closed(u, "aborted") ELSE uploads
             n  == IF ok THEN uploads[u].aborts ELSE uploads[u].aborts + 1
  <1>3. /\ us \in Seq(UploadRecords) /\ DOMAIN us = DOMAIN uploads
        /\ \A v \in DOMAIN uploads : v # u => us[v] = uploads[v]
        /\ IF applied THEN IsUpload(us[u], uploads[u], "aborted", NoSums, uploads[u].aborts)
                      ELSE us[u] = uploads[u]
    <2>1. CASE applied
      BY <2>1, ClosedFacts
    <2>2. CASE ~applied
      BY <2>2, Zenon DEF UploadTypes
    <2>3. QED
      BY <2>1, <2>2, Zenon
  <1>4. uploads[u] \in UploadRecords /\ us[u] \in UploadRecords /\ us[u].aborts = uploads[u].aborts
        /\ us[u].owner = uploads[u].owner /\ us[u].known = uploads[u].known
        /\ us[u].registers = uploads[u].registers
    BY <1>3, UploadOf, Zenon DEF IsUpload
  <1>5. n \in Nat /\ n >= uploads[u].aborts /\ (~ok => n = uploads[u].aborts + 1)
    BY <1>4, UploadFields
  <1>6. uploads' = [us EXCEPT ![u] = [us[u] EXCEPT !.aborts = n]]
    <2>1. uploads' = [us EXCEPT ![u].aborts = IF ok THEN us[u].aborts ELSE us[u].aborts + 1]
      BY <1>1, Zenon
    <2>2. n = IF ok THEN us[u].aborts ELSE us[u].aborts + 1
      BY <1>4, Zenon
    <2> HIDE DEF us, n
    <2>3. QED
      BY <2>1, <2>2, Zenon
  <1> HIDE DEF us, n
  <1> DEFINE x == [us[u] EXCEPT !.aborts = n]
  <1>7. IsUpload(x, us[u], us[u].state, us[u].parts, n)
    BY <1>4, <1>5, RecordOfUpload
  <1>8. x \in UploadRecords /\ x.state = us[u].state /\ x.parts = us[u].parts /\ x.aborts = n
        /\ x.owner = uploads[u].owner /\ x.known = uploads[u].known
        /\ x.registers = uploads[u].registers
    BY <1>4, <1>7, Zenon DEF IsUpload
  <1> HIDE DEF x
  <1>9. /\ uploads' \in Seq(UploadRecords) /\ DOMAIN uploads' = DOMAIN uploads
        /\ uploads'[u] = x
        /\ \A v \in DOMAIN uploads : v # u => uploads'[v] = uploads[v]
    <2>1. uploads' = [us EXCEPT ![u] = x]
      BY <1>6, Zenon DEF x
    <2>2. QED
      BY <1>3, <1>8, <2>1, ReplaceUpload
  <1>10. IsOpen(u)' => ~applied /\ us[u] = uploads[u]
    <2>1. applied => x.state = "aborted"
      BY <1>3, <1>8, Zenon DEF IsUpload
    <2>2. QED
      BY <1>3, <1>9, <2>1 DEF IsOpen
  <1>11. Grows(u) /\ PartsKept(u)
    BY <1>5, <1>8, <1>9, <1>10 DEF Grows, PartsKept, IsOpen
  <1>12. ASSUME NEW v \in DOMAIN uploads, v # u PROVE Grows(v) /\ PartsKept(v)
    <2>1. uploads[v].aborts \in Nat
      BY UploadOf, UploadFields
    <2>2. QED
      BY <1>9, <1>12, <2>1 DEF Grows, PartsKept, IsOpen
  <1>13. QED
    BY <1>2, <1>5, <1>8, <1>9, <1>10, <1>11, <1>12, Zenon DEF UploadTypes, UploadsGrow

\* An upload that is closed has its past, and the others stay.
LEMMA CloseGrows ==
    ASSUME UploadTypes, NEW u \in DOMAIN uploads, NEW state \in {"aborted", "completed"},
           uploads' = Closed(u, state)
    PROVE  /\ UploadTypes' /\ DOMAIN uploads' = DOMAIN uploads
           /\ UploadsGrow /\ \A v \in DOMAIN uploads : PartsKept(v)
           /\ ~IsOpen(u)'
           /\ \A v \in DOMAIN uploads : v # u => uploads'[v] = uploads[v]
  <1>1. /\ uploads' \in Seq(UploadRecords) /\ DOMAIN uploads' = DOMAIN uploads
        /\ IsUpload(uploads'[u], uploads[u], state, NoSums, uploads[u].aborts)
        /\ \A v \in DOMAIN uploads : v # u => uploads'[v] = uploads[v]
    BY ClosedFacts, Zenon
  <1>2. ~IsOpen(u)'
    BY <1>1 DEF IsOpen, IsUpload
  <1>3. ASSUME NEW v \in DOMAIN uploads PROVE Grows(v) /\ PartsKept(v)
    <2>1. uploads[v].aborts \in Nat
      BY UploadOf, UploadFields
    <2>2. CASE v = u
      BY <1>1, <1>2, <2>1, <2>2 DEF Grows, PartsKept, IsUpload
    <2>3. CASE v # u
      BY <1>1, <2>1, <2>3 DEF Grows, PartsKept, IsOpen
    <2>4. QED
      BY <2>2, <2>3
  <1>4. QED
    BY <1>1, <1>2, <1>3, Zenon DEF UploadTypes, UploadsGrow

\* A part is added to an open upload.
LEMMA PartFacts ==
    ASSUME UploadTypes, NEW u \in DOMAIN uploads, NEW c \in Chunks, NEW data \in Cells,
           AddPart(u, c, data)
    PROVE  /\ UploadTypes' /\ DOMAIN uploads' = DOMAIN uploads /\ UploadsGrow
           /\ \A v \in DOMAIN uploads : v # u => uploads'[v] = uploads[v]
           /\ uploads'[u].parts[c] = data
           /\ \A d \in Chunks : d # c => uploads'[u].parts[d] = uploads[u].parts[d]
           /\ IsOpen(u)' = IsOpen(u) /\ uploads'[u].aborts = uploads[u].aborts
  <1>1. uploads[u] \in UploadRecords /\ uploads[u].parts \in [Chunks -> Cells]
    BY UploadOf, UploadFields
  <1> DEFINE parts == [uploads[u].parts EXCEPT ![c] = data]
             x     == [uploads[u] EXCEPT !.parts = parts]
  <1>2. /\ parts \in [Chunks -> Cells] /\ parts[c] = data
        /\ \A d \in Chunks : d # c => parts[d] = uploads[u].parts[d]
    BY <1>1
  <1>3. uploads' = [uploads EXCEPT ![u] = x]
    BY Zenon DEF AddPart
  <1> HIDE DEF parts
  <1>4. IsUpload(x, uploads[u], uploads[u].state, parts, uploads[u].aborts)
    BY <1>1, <1>2, RecordOfUpload
  <1>5. x \in UploadRecords
    BY <1>4, Zenon DEF IsUpload
  <1> HIDE DEF x
  <1>6. /\ uploads' \in Seq(UploadRecords) /\ DOMAIN uploads' = DOMAIN uploads
        /\ uploads'[u] = x /\ \A v \in DOMAIN uploads : v # u => uploads'[v] = uploads[v]
    BY <1>3, <1>5, ReplaceUpload DEF UploadTypes
  <1>7. x.aborts = uploads[u].aborts /\ x.state = uploads[u].state /\ x.parts = parts
        /\ x.owner = uploads[u].owner /\ x.known = uploads[u].known
        /\ x.registers = uploads[u].registers
    BY <1>4, Zenon DEF IsUpload
  <1>8. IsOpen(u)' = IsOpen(u)
    BY <1>6, <1>7, Zenon DEF IsOpen
  <1>9. ASSUME NEW v \in DOMAIN uploads PROVE Grows(v)
    <2>1. uploads[v].aborts \in Nat
      BY UploadOf, UploadFields
    <2>2. CASE v = u
      BY <1>6, <1>7, <1>8, <2>1, <2>2 DEF Grows
    <2>3. CASE v # u
      BY <1>6, <2>1, <2>3 DEF Grows, IsOpen
    <2>4. QED
      BY <2>2, <2>3
  <1>10. QED
    BY <1>2, <1>6, <1>7, <1>8, <1>9, Zenon DEF UploadTypes, UploadsGrow

\* A new upload.
LEMMA NewUpload ==
    ASSUME UploadTypes, NEW y \in UploadRecords, uploads' = Append(uploads, y)
    PROVE  /\ UploadTypes' /\ DOMAIN uploads' = DOMAIN uploads \cup {Len(uploads) + 1}
           /\ Len(uploads) + 1 \in Nat /\ Len(uploads) + 1 \notin DOMAIN uploads
           /\ UploadsGrow /\ \A v \in DOMAIN uploads : PartsKept(v)
           /\ uploads'[Len(uploads) + 1] = y
           /\ \A v \in DOMAIN uploads : uploads'[v] = uploads[v]
  <1>1. /\ uploads' \in Seq(UploadRecords) /\ Len(uploads') = Len(uploads) + 1
        /\ uploads'[Len(uploads) + 1] = y
        /\ \A v \in 1..Len(uploads) : uploads'[v] = uploads[v]
    BY AppendProperties DEF UploadTypes
  <1>2. /\ DOMAIN uploads = 1..Len(uploads) /\ Len(uploads) \in Nat
        /\ DOMAIN uploads' = 1..Len(uploads')
    BY <1>1, LenProperties DEF UploadTypes
  <1>3. ASSUME NEW v \in DOMAIN uploads PROVE Grows(v) /\ PartsKept(v)
    <2>1. uploads[v].aborts \in Nat
      BY UploadOf, UploadFields
    <2>2. v \in DOMAIN uploads' /\ uploads'[v] = uploads[v]
      BY <1>1, <1>2
    <2>3. QED
      BY <2>1, <2>2 DEF Grows, PartsKept, IsOpen
  <1>4. QED
    BY <1>1, <1>2, <1>3 DEF UploadTypes, UploadsGrow

\* Nothing happens to the uploads.
LEMMA UploadsStay ==
    ASSUME UploadTypes, UNCHANGED uploads
    PROVE  /\ UploadTypes' /\ DOMAIN uploads' = DOMAIN uploads
           /\ UploadsGrow /\ \A v \in DOMAIN uploads : PartsKept(v) /\ IsOpen(v)' = IsOpen(v)
           /\ \A v \in DOMAIN uploads : uploads'[v] = uploads[v]
  <1>1. ASSUME NEW v \in DOMAIN uploads PROVE Grows(v) /\ PartsKept(v) /\ IsOpen(v)' = IsOpen(v)
    <2>1. uploads[v].aborts \in Nat
      BY UploadOf, UploadFields
    <2>2. QED
      BY <2>1 DEF Grows, PartsKept, IsOpen
  <1>2. QED
    BY <1>1, Zenon DEF UploadTypes, UploadsGrow

-----------------------------------------------------------------------------
(* What a step leaves alone.                                               *)

\* What belongs to a job.
Apart(k) ==
    /\ job'[k] = job[k] /\ kind'[k] = kind[k] /\ source'[k] = source[k]
    /\ object'[k] = object[k] /\ was'[k] = was[k] /\ touched'[k] = touched[k]

\* A job that nothing happens to stays as it is, whatever others do to uploads
\* that are not its own.
LEMMA ApartKeeps ==
    ASSUME NEW k \in Jobs, JobSound(k), Apart(k), UploadsGrow,
           \A u \in DOMAIN uploads : uploads[u].owner = k => PartsKept(u)
    PROVE  JobSound(k)'
  <1>1. BusyBelongs(k)' /\ KindSound(k)' /\ SuccessSound(k)' /\ SizesSound(k)'
    <2>1. BusyBelongs(k)'
      BY Zenon DEF JobSound, Apart, BusyBelongs, Busy
    <2>2. KindSound(k)'
      BY Zenon DEF JobSound, Apart, KindSound
    <2>3. SuccessSound(k)'
      BY Zenon DEF JobSound, Apart, SuccessSound
    <2>4. SizesSound(k)'
      BY Zenon DEF JobSound, Apart, SizesSound
    <2>5. QED
      BY <2>1, <2>2, <2>3, <2>4
  <1>2. HashSound(k)'
    <2>1. SumsHonest(k)'
      BY Zenon DEF JobSound, Apart, HashSound, SumsHonest
    <2>2. Honest(k)'
      BY Zenon DEF JobSound, Apart, HashSound, Honest
    <2>3. QED
      BY <2>1, <2>2, Zenon DEF JobSound, Apart, HashSound
  <1>3. Owned(k)'
    BY Zenon DEF JobSound, Apart, Owned, UploadsGrow, Grows
  <1>4. PartsSound(k)'
    <2>1. job[k].pc = "part" => PartsKept(job[k].upload) /\ Grows(job[k].upload)
      BY DEF JobSound, Owned, Holding, UploadsGrow
    <2>2. NumParts(k)' = NumParts(k) /\ Want(k)' = Want(k)
      BY Zenon DEF Apart, NumParts, Want
    <2>3. job[k].pc = "open" => job[k].part = 1
      BY Zenon DEF JobSound, PartsSound
    <2>4. ASSUME job[k].pc = "part", ~touched[k], IsOpen(job[k].upload)',
                 NEW p \in 1..(job[k].part - 1), p <= NumParts(k)
          PROVE  uploads'[job[k].upload].parts[p] = Want(k)[p]
      BY <2>1, <2>4, Zenon DEF JobSound, PartsSound, PartsKept, Grows
    <2>5. QED
      BY <2>2, <2>3, <2>4, Zenon DEF PartsSound, Apart
  <1>5. QED
    BY <1>1, <1>2, <1>3, <1>4, Zenon DEF JobSound

\* What leftovers has listed stays listed.
LEMMA LeftStays ==
    ASSUME LeftSound, UploadsGrow, UNCHANGED left
    PROVE  LeftSound'
  <1>1. left.start \subseteq DOMAIN uploads
    BY Zenon DEF LeftSound
  <1>2. \A u \in left.start :
           u \in DOMAIN uploads' /\ (Matches(u)' => Matches(u)) /\ (IsOpen(u)' => IsOpen(u))
    BY <1>1, Zenon DEF UploadsGrow, Grows, Matches
  <1>3. QED
    BY <1>2, Zenon DEF LeftSound

\* A job that goes on with its upload holds it.
LEMMA HeldStays ==
    ASSUME NEW j \in Jobs, \A k \in Jobs : k # j => job'[k] = job[k],
           job[j].pc \in Holding => job'[j].pc \in Holding /\ job'[j].upload = job[j].upload
    PROVE  \A u : Held(u) => Held(u)'
    BY Zenon DEF Held

\* The failed aborts are counted.
AbortsCounted == UploadTypes => \A u \in DOMAIN uploads : uploads[u].aborts \in Nat
\* They are numbers in this state ...
LEMMA AbortsNow == AbortsCounted
    BY UploadOf, UploadFields DEF AbortsCounted
\* ... and in the next.
LEMMA NextAborts == AbortsCounted'
    BY AbortsNow, PTL

\* The registry while the command runs.
LEMMA RegistryKeeps ==
    ASSUME Registry, UploadTypes, UploadTypes', phase = "running", phase' = "running", UploadsGrow,
           DOMAIN uploads' = DOMAIN uploads,
           \A u \in DOMAIN uploads : IsOpen(u)' =>
              /\ u \in registered => u \in registered'
              /\ Held(u) => uploads'[u].aborts >= 1 \/ Held(u)'
    PROVE  Registry'
  <1> SUFFICES ASSUME NEW u \in DOMAIN uploads, Pending(u)'
               PROVE  u \in registered' /\ (uploads'[u].aborts >= 1 \/ Held(u)')
    BY DEF Registry
  <1>1. Grows(u) /\ IsOpen(u)'
    BY Zenon DEF UploadsGrow, Pending
  <1>2. Pending(u)
    BY <1>1, Zenon DEF Grows, Pending
  <1>3. u \in registered /\ (uploads[u].aborts >= 1 \/ Held(u))
    BY <1>2 DEF Registry
  <1>4. uploads[u].aborts >= 1 => uploads'[u].aborts >= 1
    <2>1. uploads[u].aborts \in Nat
      BY UploadOf, UploadFields
    <2>2. uploads'[u].aborts >= uploads[u].aborts
      BY <1>1, Zenon DEF Grows
    <2>3. uploads'[u].aborts \in Nat
      BY <1>1, NextAborts, Zenon DEF Grows, AbortsCounted
    <2>4. QED
      BY <2>1, <2>2, <2>3
  <1>5. QED
    BY <1>1, <1>3, <1>4, Zenon

\* What is left to show of the step of a job.
LEMMA JobStepKeeps ==
    ASSUME UploadsInv, NEW j \in Jobs, phase = "running",
           UNCHANGED <<commandVars, left, otherVars>>, UploadsTyped', UploadsGrow, Registry',
           \A k \in Jobs : k # j => /\ job'[k] = job[k] /\ source'[k] = source[k]
                                    /\ object'[k] = object[k] /\ was'[k] = was[k],
           \A u \in DOMAIN uploads : uploads[u].owner # j => PartsKept(u),
           JobSound(j)'
    PROVE  UploadsInv'
  <1>1. phase' = phase /\ left' = left /\ kind' = kind /\ touched' = touched
    BY Zenon DEF commandVars, otherVars
  <1>2. JobsEnd'
    BY <1>1, Zenon DEF JobsEnd
  <1>3. LeftSound'
    BY <1>1, LeftStays, Zenon DEF UploadsInv
  <1>4. ASSUME NEW k \in Jobs, k # j PROVE JobSound(k)'
    <2>1. JobSound(k) /\ Apart(k)
      BY <1>1, <1>4, Zenon DEF UploadsInv, JobsSound, Apart
    <2>2. \A u \in DOMAIN uploads : uploads[u].owner = k => PartsKept(u)
      BY <1>4, Zenon
    <2>3. QED
      BY <2>1, <2>2, ApartKeeps, Zenon
  <1>5. QED
    BY <1>2, <1>3, <1>4, Zenon DEF UploadsInv, JobsSound

-----------------------------------------------------------------------------
(* Steps of a job that move it and carry no data.                          *)

Edges ==
    {<<"start", "returned">>, <<"crcs", "returned">>, <<"head", "decide">>,
     <<"hash_check", "decide">>, <<"hash_check", "returned">>, <<"submit", "join">>,
     <<"launch", "wait">>, <<"wait", "join">>,
     <<"hash_abort", "decide">>, <<"hash_abort", "returned">>,
     <<"copy", "again">>, <<"copy", "returned">>, <<"again", "copy">>, <<"again", "returned">>,
     <<"decide", "put">>, <<"decide", "returned">>, <<"put", "returned">>,
     <<"open", "part">>, <<"open", "abort">>, <<"part", "abort">>,
     <<"abort", "again">>, <<"abort", "returned">>}

Follows(a, b) == <<a, b>> \in Edges \/ (b = a /\ a # "returned")

\* What the program counters on the two sides of such a step have in common.
LEMMA EdgeFacts ==
    ASSUME NEW a, NEW b, Follows(a, b)
    PROVE  /\ a # "returned"
           /\ b \in Holding => a \in Holding
           /\ a \in Afterwards => b \in Afterwards
           /\ b \in FanOut => a \in FanOut
           /\ b \in Unwritten => a \in Unwritten
           /\ b \in {"hash_check"} \cup FanOut => a \in {"hash_check"} \cup FanOut
           /\ b \in {"copy", "again", "part", "abort"} =>
                 a \in {"copy", "again", "part", "abort", "open"}
           /\ b = "open" => a = "open"
           /\ b = "part" => a \in {"open", "part"}
           /\ a \in CopyPcs => b \in CopyPcs
           /\ b \in {"copy", "again"} => a \in {"copy", "again"} \/ b = "again"
           /\ b \in DiffPcs => a \in DiffPcs \/ (a \in {"hash_check", "hash_abort"} /\ b = "decide")
           /\ b \notin {"start", "crcs", "abort", "returned"} =>
                 a \notin {"start", "crcs", "abort", "returned"} \/ b = "again"
  <1>1. CASE <<a, b>> \in Edges
    <2>1. \/ a \in {"start", "crcs"} /\ b = "returned"
          \/ a \in {"head", "hash_check", "hash_abort"} /\ b = "decide"
          \/ a \in {"hash_check", "hash_abort"} /\ b = "returned"
          \/ a = "submit" /\ b = "join"
          \/ a = "launch" /\ b = "wait"
          \/ a = "wait" /\ b = "join"
          \/ a = "copy" /\ b \in {"again", "returned"}
          \/ a = "again" /\ b \in {"copy", "returned"}
          \/ a = "decide" /\ b \in {"put", "returned"}
          \/ a = "put" /\ b = "returned"
          \/ a = "open" /\ b \in {"part", "abort"}
          \/ a = "part" /\ b = "abort"
          \/ a = "abort" /\ b \in {"again", "returned"}
      BY <1>1 DEF Edges
    <2>2. a # "returned" /\ (b \in Holding => a \in Holding)
      BY <2>1 DEF Holding
    <2>3. a \in Afterwards => b \in Afterwards
      BY <2>1 DEF Afterwards
    <2>4. /\ b \in FanOut => a \in FanOut
          /\ b \in {"hash_check"} \cup FanOut => a \in {"hash_check"} \cup FanOut
      BY <2>1 DEF FanOut
    <2>5. b \in Unwritten => a \in Unwritten
      BY <2>1 DEF Unwritten
    <2>6. a \in CopyPcs => b \in CopyPcs
      BY <2>1 DEF CopyPcs
    <2>7. b \in DiffPcs => a \in DiffPcs \/ (a \in {"hash_check", "hash_abort"} /\ b = "decide")
      BY <2>1 DEF DiffPcs
    <2>8. /\ b \in {"copy", "again", "part", "abort"} =>
                a \in {"copy", "again", "part", "abort", "open"}
          /\ b = "open" => a = "open"
          /\ b = "part" => a \in {"open", "part"}
          /\ b \in {"copy", "again"} => a \in {"copy", "again"} \/ b = "again"
          /\ b \notin {"start", "crcs", "abort", "returned"} =>
                a \notin {"start", "crcs", "abort", "returned"} \/ b = "again"
      BY <2>1
    <2>9. QED
      BY <2>2, <2>3, <2>4, <2>5, <2>6, <2>7, <2>8
  <1>2. CASE b = a /\ a # "returned"
    BY <1>2
  <1>3. QED
    BY <1>1, <1>2 DEF Follows

\* A job that moves without data keeps what is known of it.
LEMMA MoveKeeps ==
    ASSUME UploadsInv, NEW j \in Jobs,
           UNCHANGED <<kind, touched, source>>, SameData(job'[j], job[j]),
           Follows(job[j].pc, job'[j].pc),
           job'[j].pc = "again" => kind[j] = "copy",
           job[j].pc \in {"hash_check", "hash_abort"} /\ job'[j].pc = "decide" =>
              kind[j] # "hashes",
           BusyBelongs(j)', SumsHonest(j)', UploadsGrow,
           job'[j].pc = "part" => \A u \in DOMAIN uploads : PartsKept(u),
           was[j] \subseteq was'[j],
           \/ object'[j] = object[j] /\ was'[j] = was[j]
           \/ kind[j] = "copy"
           \/ job'[j].pc \notin Unwritten
    PROVE  JobSound(j)'
  <1> DEFINE a == job[j].pc
             b == job'[j].pc
  <1>1. /\ b \in Holding => a \in Holding
        /\ a \in Afterwards => b \in Afterwards
        /\ b \in FanOut => a \in FanOut
        /\ b \in Unwritten => a \in Unwritten
        /\ b \in {"hash_check"} \cup FanOut => a \in {"hash_check"} \cup FanOut
        /\ b \in {"copy", "again", "part", "abort"} =>
              a \in {"copy", "again", "part", "abort", "open"}
        /\ b = "open" => a = "open"
        /\ b = "part" => a \in {"open", "part"}
        /\ a \in CopyPcs => b \in CopyPcs
        /\ b \in {"copy", "again"} => a \in {"copy", "again"} \/ b = "again"
        /\ b \in DiffPcs => a \in DiffPcs \/ (a \in {"hash_check", "hash_abort"} /\ b = "decide")
        /\ b \notin {"start", "crcs", "abort", "returned"} =>
              a \notin {"start", "crcs", "abort", "returned"} \/ b = "again"
        /\ a # "returned"
    BY EdgeFacts
  <1>2. /\ job'[j].size = job[j].size /\ job'[j].local = job[j].local
        /\ job'[j].remote = job[j].remote /\ job'[j].ids = job[j].ids
        /\ job'[j].crcs = job[j].crcs /\ job'[j].upload = job[j].upload
        /\ job'[j].part = job[j].part /\ job'[j].success = job[j].success
        /\ job'[j].want = job[j].want
        /\ kind' = kind /\ touched' = touched /\ source' = source
    BY Zenon DEF SameData
  <1>3. JobSound(j)
    BY Zenon DEF UploadsInv, JobsSound
  <1>4. Owned(j)'
    BY <1>1, <1>2, <1>3, Zenon DEF JobSound, Owned, UploadsGrow, Grows
  <1>5. HashSound(j)'
    <2>1. AskedFor(job'[j]) = AskedFor(job[j])
      BY <1>2, Zenon DEF AskedFor
    <2>2. Honest(j)'
      BY <1>2, <1>3, <2>1, Zenon DEF JobSound, HashSound, Honest
    <2>3. QED
      BY <1>1, <1>2, <1>3, <2>2, Zenon DEF JobSound, HashSound
  <1>6. KindSound(j)'
    <2>1. kind[j] = "copy" => b \in CopyPcs
      BY <1>1, <1>3, Zenon DEF JobSound, KindSound
    <2>2. kind[j] # "copy" => b \notin {"copy", "again"}
      BY <1>1, <1>3, Zenon DEF JobSound, KindSound
    <2>3. kind[j] = "hashes" => b \notin DiffPcs
      BY <1>1, <1>3, Zenon DEF JobSound, KindSound
    <2>4. kind[j] = "diff_upload" /\ b \notin {"start", "crcs", "abort", "returned"} =>
             job[j].local # <<>>
      BY <1>1, <1>3 DEF JobSound, KindSound
    <2>5. QED
      BY <1>2, <1>3, <2>1, <2>2, <2>3, <2>4, Zenon DEF JobSound, KindSound
  <1>7. SizesSound(j)'
    <2>1. kind[j] = "copy" => a # "open"
      BY <1>3 DEF JobSound, KindSound, CopyPcs
    <2>2. ASSUME ~touched[j], kind[j] = "copy", b \in {"copy", "again", "part", "abort"}
          PROVE  job[j].size = Len(source[j])
      <3>1. a \in {"copy", "again", "part", "abort"}
        BY <1>1, <2>1, <2>2
      <3>2. QED
        BY <1>3, <2>2, <3>1, Zenon DEF JobSound, SizesSound
    <2>3. ASSUME ~touched[j], kind[j] # "copy", b \in Unwritten
          PROVE  /\ was'[j] = {object'[j]}
                 /\ \/ job[j].remote = Len(object'[j])
                    \/ job[j].crcs = <<>> /\ b \notin {"hash_check"} \cup FanOut
      <3>1. a \in Unwritten /\ object'[j] = object[j] /\ was'[j] = was[j]
        BY <1>1, <2>3, Zenon
      <3>2. QED
        BY <1>1, <1>3, <2>3, <3>1, Zenon DEF JobSound, SizesSound
    <2>4. QED
      BY <1>2, <2>2, <2>3, Zenon DEF SizesSound
  <1>8. PartsSound(j)'
    <2>1. NumParts(j)' = NumParts(j) /\ Want(j)' = Want(j)
      BY <1>2, Zenon DEF NumParts, Want
    <2>2. b = "open" => job[j].part = 1
      BY <1>1, <1>3, Zenon DEF JobSound, PartsSound
    <2>3. ASSUME b = "part", ~touched[j], NEW u, u = job[j].upload, IsOpen(u)',
                 NEW p \in 1..(job[j].part - 1), p <= NumParts(j)
          PROVE  uploads'[u].parts[p] = Want(j)[p]
      <3>1. a # "open"
        BY <1>3, <2>3 DEF JobSound, PartsSound
      <3>2. a = "part" /\ u \in DOMAIN uploads
        BY <1>1, <1>3, <2>3, <3>1 DEF JobSound, Owned, Holding
      <3>3. IsOpen(u) /\ uploads'[u].parts = uploads[u].parts
        BY <2>3, <3>2, Zenon DEF PartsKept, UploadsGrow, Grows
      <3>4. QED
        BY <1>3, <2>3, <3>2, <3>3, Zenon DEF JobSound, PartsSound
    <2>4. QED
      BY <1>2, <2>1, <2>2, <2>3, Zenon DEF PartsSound
  <1>9. SuccessSound(j)'
    <2>1. ~job[j].success
      BY <1>1, <1>3, Zenon DEF JobSound, SuccessSound
    <2>2. QED
      BY <1>2, <2>1, Zenon DEF SuccessSound
  <1>10. QED
    BY <1>4, <1>5, <1>6, <1>7, <1>8, <1>9, Zenon DEF JobSound

\* The steps of a job that are about nothing but the job.
Local == UNCHANGED <<source, bucketVars, registered, commandVars, left, otherVars>>

\* Everything else stays.
LEMMA LocalFacts ==
    ASSUME Local
    PROVE  UNCHANGED <<source, object, uploads, was, registered, shutdown, cancelled,
                       phase, to_abort, left, kind, touched>>
    BY Zenon DEF Local, bucketVars, commandVars, otherVars

\* Such a step keeps the invariant when the job stays sound and keeps its upload.
LEMMA LocalKeeps ==
    ASSUME UploadsInv, NEW j \in Jobs, phase = "running", Local, JobTypes',
           \A k \in Jobs : k # j => job'[k] = job[k],
           job[j].pc \in Holding => job'[j].pc \in Holding /\ job'[j].upload = job[j].upload,
           JobSound(j)'
    PROVE  UploadsInv'
  <1>1. UNCHANGED <<source, object, uploads, was, registered, shutdown, cancelled,
                    phase, to_abort, left, kind, touched>>
    BY LocalFacts
  <1>2. /\ UploadTypes' /\ DOMAIN uploads' = DOMAIN uploads /\ UploadsGrow
        /\ \A u \in DOMAIN uploads : PartsKept(u)
    BY <1>1, UploadsStay, Zenon DEF UploadsInv, UploadsTyped
  <1>3. UploadsTyped'
    BY <1>1, <1>2, Zenon DEF UploadsInv, UploadsTyped, DataTypes, RegistryTypes, PhaseTypes,
       LeftTypes
  <1>4. Registry'
    BY <1>1, <1>2, HeldStays, RegistryKeeps, Zenon DEF UploadsInv, UploadsTyped
  <1>5. UNCHANGED <<commandVars, left, otherVars>>
    BY Zenon DEF Local
  <1>6. QED
    BY <1>1, <1>2, <1>3, <1>4, <1>5, JobStepKeeps, Zenon

\* The threads of a job, and the checksums they have found, stay.
LEMMA WorkStays ==
    ASSUME NEW j \in Jobs, JobSound(j), SameWork(job'[j], job[j]), was[j] \subseteq was'[j],
           job[j].pc \in {"submit", "wait", "join"} => job'[j].pc \in {"submit", "wait", "join"}
    PROVE  BusyBelongs(j)' /\ SumsHonest(j)'
  <1>1. job'[j].work = job[j].work /\ job'[j].sums = job[j].sums
    BY Zenon DEF SameWork
  <1>2. Busy(j)' = Busy(j)
    BY <1>1, Zenon DEF Busy
  <1>3. BusyBelongs(j)'
    BY <1>2, Zenon DEF JobSound, BusyBelongs
  <1>4. SumsHonest(j)'
    BY <1>1, Zenon DEF JobSound, HashSound, SumsHonest
  <1>5. QED
    BY <1>3, <1>4

\* A move that carries no data, of a job that keeps its upload if it has one.
LEMMA LocalMove ==
    ASSUME UploadsInv, NEW j \in Jobs, phase = "running", Local,
           NEW r \in JobRecords, NEW b \in Pcs, Goto(j, b, r),
           SameData(r, job[j]), SameWork(r, job[j]), Follows(job[j].pc, b),
           job[j].pc \in Holding => b \in Holding,
           job[j].pc \in {"submit", "wait", "join"} => b \in {"submit", "wait", "join"},
           b = "again" => kind[j] = "copy",
           job[j].pc \in {"hash_check", "hash_abort"} /\ b = "decide" => kind[j] # "hashes"
    PROVE  UploadsInv'
  <1>1. UNCHANGED <<source, object, uploads, was, kind, touched>>
    BY LocalFacts, Zenon
  <1>2. /\ JobTypes' /\ job'[j].pc = b /\ SameData(job'[j], r) /\ SameWork(job'[j], r)
        /\ \A k \in Jobs : k # j => job'[k] = job[k]
    BY GotoFacts, Zenon DEF UploadsInv, UploadsTyped
  <1>3. SameData(job'[j], job[j]) /\ SameWork(job'[j], job[j])
    BY <1>2, Zenon DEF SameData, SameWork
  <1>4. UploadsGrow /\ \A u \in DOMAIN uploads : PartsKept(u)
    BY <1>1, UploadsStay, Zenon DEF UploadsInv, UploadsTyped
  <1>5. BusyBelongs(j)' /\ SumsHonest(j)'
    BY <1>1, <1>2, <1>3, WorkStays, Zenon DEF UploadsInv, JobsSound
  <1>6. JobSound(j)'
    BY <1>1, <1>2, <1>3, <1>4, <1>5, MoveKeeps, Zenon
  <1>7. QED
    BY <1>2, <1>3, <1>6, LocalKeeps, Zenon DEF SameData

\* The record of a job, and what it is at a program counter.
LEMMA JobOf ==
    ASSUME UploadsInv, NEW j \in Jobs
    PROVE  /\ job[j] \in JobRecords /\ SameData(job[j], job[j]) /\ SameWork(job[j], job[j])
           /\ kind[j] \in Kinds /\ source[j] \in Data /\ object[j] \in Data
           /\ object[j] \in was[j] /\ JobSound(j)
    BY Zenon DEF UploadsInv, UploadsTyped, DataTypes, JobTypes, JobsSound, SameData, SameWork

\* copy_s3_object tries the copy again, or gives up.
LEMMA AgainKeeps ==
    ASSUME UploadsInv, NEW j \in Jobs, copy_s3_object(j)
    PROVE  UploadsInv'
  <1>1. phase = "running" /\ job[j].pc = "again" /\ Local
    BY Zenon DEF copy_s3_object, At, Local
  <1>2. KindSound(j) /\ kind[j] = "copy"
    <2>1. KindSound(j)
      BY JobOf, Zenon DEF JobSound
    <2>2. QED
      BY <1>1, <2>1 DEF KindSound
  <1> DEFINE r == [job[j] EXCEPT !.tries = @ + 1, !.attempt = 0]
  <1>3. r \in JobRecords /\ SameData(r, job[j]) /\ SameWork(r, job[j])
    <2>1. job[j] \in JobRecords /\ job[j].tries + 1 \in Nat
      BY JobOf, CounterFields
    <2>2. QED
      BY <2>1, ControlFields
  <1>4. CASE Goto(j, "copy", r)
    <2>1. Follows("again", "copy") /\ "copy" \in Pcs /\ "again" \notin Holding
      BY DEF Follows, Edges, Pcs, Holding
    <2> HIDE DEF r
    <2>2. QED
      BY <1>1, <1>2, <1>3, <1>4, <2>1, LocalMove
  <1>5. CASE Goto(j, "returned", job[j])
    <2>1. Follows("again", "returned") /\ "returned" \in Pcs /\ "again" \notin Holding
      BY DEF Follows, Edges, Pcs, Holding
    <2>2. QED
      BY <1>1, <1>5, <2>1, JobOf, LocalMove
  <1>6. QED
    BY <1>4, <1>5, Zenon DEF copy_s3_object

\* The file is opened, or the upload given up.
LEMMA OpenKeeps ==
    ASSUME UploadsInv, NEW j \in Jobs, Open(j)
    PROVE  UploadsInv'
  <1>1. phase = "running" /\ job[j].pc = "open" /\ Local
    BY Zenon DEF Open, At, Local
  <1>2. ASSUME NEW b \in {"part", "abort"}, Goto(j, b, job[j]) PROVE UploadsInv'
    <2>1. Follows("open", b) /\ b \in Pcs /\ b \in Holding /\ b # "again"
      BY DEF Follows, Edges, Pcs, Holding
    <2>2. QED
      BY <1>1, <1>2, <2>1, JobOf, LocalMove
  <1>3. QED
    BY <1>2, Zenon DEF Open

\* The wait for the futures, with the check before each.
LEMMA CheckedFields ==
    ASSUME NEW r \in JobRecords
    PROVE  Checked(r) \in JobRecords /\ SameData(Checked(r), r) /\ SameWork(Checked(r), r)
  <1>1. (r.should_abort \/ r.errors > MaxErrors \/ shutdown) \in BOOLEAN
    OBVIOUS
  <1>2. QED
    BY <1>1, ControlFields DEF Checked

\* Waiting for a future counts its error, and may decide to abort.
LEMMA WaitForKeeps ==
    ASSUME UploadsInv, NEW j \in Jobs, WaitFor(j)
    PROVE  UploadsInv'
  <1>1. phase = "running" /\ job[j].pc = "wait" /\ Local
    BY Zenon DEF WaitFor, At, Local
  <1> DEFINE q == [job[j] EXCEPT !.wait = job[j].wait + 1]
             p == [job[j] EXCEPT !.wait = job[j].wait + 1, !.errors = @ + 1]
  <1>2. /\ q \in JobRecords /\ SameData(q, job[j]) /\ SameWork(q, job[j])
        /\ p \in JobRecords /\ SameData(p, job[j]) /\ SameWork(p, job[j])
    <2>1. job[j] \in JobRecords /\ job[j].wait + 1 \in Nat /\ job[j].errors + 1 \in Nat
      BY JobOf, CounterFields
    <2>2. QED
      BY <2>1, ControlFields
  <1>3. \/ Goto(j, "join", job[j]) \/ Goto(j, "wait", Checked(q)) \/ Goto(j, "wait", Checked(p))
    BY Zenon DEF WaitFor
  <1> HIDE DEF p, q
  <1>4. ASSUME NEW b \in {"wait", "join"}, NEW r \in JobRecords, Goto(j, b, r),
               SameData(r, job[j]), SameWork(r, job[j])
        PROVE  UploadsInv'
    <2>1. Follows("wait", b) /\ b \in Pcs /\ b \in Holding /\ b # "again"
          /\ b \in {"submit", "wait", "join"}
      BY DEF Follows, Edges, Pcs, Holding
    <2>2. QED
      BY <1>1, <1>4, <2>1, LocalMove
  <1>5. ASSUME NEW x \in JobRecords, SameData(x, job[j]), SameWork(x, job[j])
        PROVE  /\ Checked(x) \in JobRecords
               /\ SameData(Checked(x), job[j]) /\ SameWork(Checked(x), job[j])
    BY <1>5, CheckedFields, Zenon DEF SameData, SameWork
  <1>6. QED
    BY <1>2, <1>3, <1>4, <1>5, JobOf

-----------------------------------------------------------------------------
(* The fan-out of GetHashes.                                               *)

\* Work may only be under way while the job fans out.
AtWork == {"submit", "wait", "join"}

\* A step of the fan-out keeps the invariant when what it finds is honest.
LEMMA LocalWork ==
    ASSUME UploadsInv, NEW j \in Jobs, phase = "running", Local,
           NEW r \in JobRecords, NEW b \in AtWork, Goto(j, b, r), SameData(r, job[j]),
           Follows(job[j].pc, b),
           \A c \in Chunks : r.sums[c] # None =>
              \E data \in was[j] : c \in DOMAIN data /\ r.sums[c] = data[c]
    PROVE  UploadsInv'
  <1>1. UNCHANGED <<source, object, uploads, was, kind, touched>>
    BY LocalFacts, Zenon
  <1>2. b \in Pcs /\ b \in Holding /\ b # "again" /\ b # "decide"
    BY DEF AtWork, Pcs, Holding
  <1>3. /\ JobTypes' /\ job'[j].pc = b /\ SameData(job'[j], r) /\ SameWork(job'[j], r)
        /\ \A k \in Jobs : k # j => job'[k] = job[k]
    BY <1>2, GotoFacts, Zenon DEF UploadsInv, UploadsTyped
  <1>4. SameData(job'[j], job[j])
    BY <1>3, Zenon DEF SameData
  <1>5. UploadsGrow /\ \A u \in DOMAIN uploads : PartsKept(u)
    BY <1>1, UploadsStay, Zenon DEF UploadsInv, UploadsTyped
  <1>6. BusyBelongs(j)'
    BY <1>3, Zenon DEF BusyBelongs, AtWork
  <1>7. SumsHonest(j)'
    BY <1>1, <1>3, Zenon DEF SumsHonest, SameWork
  <1>8. JobSound(j)'
    BY <1>1, <1>2, <1>3, <1>4, <1>5, <1>6, <1>7, MoveKeeps, Zenon
  <1>9. QED
    BY <1>2, <1>3, <1>4, <1>8, LocalKeeps, Zenon DEF SameData

\* What a job has found so far.
LEMMA FoundSoFar ==
    ASSUME UploadsInv, NEW j \in Jobs, NEW r, r.sums = job[j].sums
    PROVE  \A c \in Chunks : r.sums[c] # None =>
              \E data \in was[j] : c \in DOMAIN data /\ r.sums[c] = data[c]
    BY JobOf, Zenon DEF JobSound, HashSound, SumsHonest

\* A chunk that somebody works for.
LEMMA AtWorkFacts ==
    ASSUME UploadsInv, NEW j \in Jobs, NEW c \in Chunks,
           job[j].work[c].state \in {"posted", "running", "counted"}
    PROVE  job[j].pc \in AtWork /\ Follows(job[j].pc, job[j].pc)
  <1>1. Busy(j) # {}
    BY DEF Busy
  <1>2. job[j].pc \in AtWork
    BY <1>1, JobOf, Zenon DEF JobSound, BusyBelongs, AtWork
  <1>3. QED
    BY <1>2 DEF Follows, AtWork

\* The chunks of a request that passed chunk_request_is_valid.
LEMMA IdsAreChunks ==
    ASSUME UploadsInv, NEW j \in Jobs, job[j].pc \in FanOut
    PROVE  /\ Ids(j) \subseteq Chunks /\ Ids(j) \subseteq 1..job[j].remote
           /\ 1..job[j].remote \subseteq Chunks
  <1>1. chunk_request_is_valid(job[j].ids, job[j].remote)
    BY JobOf, Zenon DEF JobSound, HashSound
  <1>2. job[j].remote \in 0..MaxChunks
    BY JobOf DEF JobRecords
  <1>3. 1..job[j].remote \subseteq Chunks
    BY <1>2, UploadsAssumption DEF Chunks
  <1>4. Ids(j) \subseteq 1..job[j].remote
    BY <1>1, Zenon DEF Ids, chunk_request_is_valid
  <1>5. QED
    BY <1>3, <1>4

\* The submit loop posts a chunk that was asked for.
LEMMA SubmitKeeps ==
    ASSUME UploadsInv, NEW j \in Jobs, Submit(j)
    PROVE  UploadsInv'
  <1>1. phase = "running" /\ job[j].pc = "submit" /\ Local
    BY Zenon DEF Submit, At, Local
  <1>2. CASE Goto(j, "join", job[j])
    <2>1. Follows("submit", "join") /\ "join" \in AtWork
      BY DEF Follows, Edges, AtWork
    <2>2. QED
      BY <1>1, <1>2, <2>1, JobOf, FoundSoFar, LocalWork
  <1>3. ASSUME NEW c \in Chunks, Goto(j, "submit", [job[j] EXCEPT !.work[c].state = "posted"])
        PROVE  UploadsInv'
    <2> DEFINE r == [job[j] EXCEPT !.work[c].state = "posted"]
    <2>1. r \in JobRecords /\ SameData(r, job[j]) /\ r.sums = job[j].sums
      BY JobOf, ThreadSteps, Zenon DEF IsThread
    <2>2. Follows("submit", "submit") /\ "submit" \in AtWork
      BY DEF Follows, AtWork
    <2>3. Goto(j, "submit", r)
      BY <1>3
    <2> HIDE DEF r
    <2>4. QED
      BY <1>1, <2>1, <2>2, <2>3, FoundSoFar, LocalWork
  <1>4. Submit(j) => \/ Goto(j, "join", job[j])
                     \/ \E c \in Chunks :
                           Goto(j, "submit", [job[j] EXCEPT !.work[c].state = "posted"])
    <2>1. Ids(j) \subseteq Chunks
      BY <1>1, IdsAreChunks DEF FanOut
    <2>2. QED
      BY <2>1, Zenon DEF Submit
  <1>5. QED
    BY <1>2, <1>3, <1>4, Zenon

\* The variant without a bound starts a thread for every chunk at once.
LEMMA LaunchKeeps ==
    ASSUME UploadsInv, NEW j \in Jobs, Launch(j)
    PROVE  UploadsInv'
  <1>1. phase = "running" /\ job[j].pc = "launch" /\ Local
    BY Zenon DEF Launch, At, Local
  <1> DEFINE ws == [c \in Chunks |-> [Idle EXCEPT !.state = IF c \in Ids(j) THEN "posted"
                                                           ELSE "idle"]]
             r  == [job[j] EXCEPT !.work = ws]
  <1>2. Goto(j, "wait", Checked(r))
    BY Zenon DEF Launch
  <1>3. ws \in [Chunks -> Works]
    BY DEF Works, Idle
  <1> HIDE DEF ws
  <1>4. r \in JobRecords /\ SameData(r, job[j]) /\ r.sums = job[j].sums
    <2>1. job[j] \in JobRecords
      BY JobOf
    <2>2. QED
      BY <1>3, <2>1 DEF JobRecords, SameData
  <1> HIDE DEF r
  <1>5. /\ Checked(r) \in JobRecords /\ SameData(Checked(r), job[j])
        /\ Checked(r).sums = job[j].sums
    BY <1>4, CheckedFields, Zenon DEF SameData, SameWork
  <1>6. Follows("launch", "wait") /\ "wait" \in AtWork
    BY DEF Follows, Edges, AtWork
  <1>7. QED
    BY <1>1, <1>2, <1>5, <1>6, FoundSoFar, LocalWork

\* A thread of the pool begins with its chunk.
LEMMA BeginChunkKeeps ==
    ASSUME UploadsInv, NEW j \in Jobs, NEW c \in Chunks, BeginChunk(j, c)
    PROVE  UploadsInv'
  <1>1. phase = "running" /\ job[j].work[c].state = "posted" /\ Local
    BY Zenon DEF BeginChunk, Local
  <1> DEFINE r == [job[j] EXCEPT !.work[c].state = "running", !.work[c].before = job[j].errors]
  <1>2. r \in JobRecords /\ SameData(r, job[j]) /\ r.sums = job[j].sums
    BY JobOf, ThreadSteps, Zenon DEF IsThread
  <1>3. Goto(j, job[j].pc, r)
    BY Zenon DEF BeginChunk
  <1>4. job[j].pc \in AtWork /\ Follows(job[j].pc, job[j].pc)
    BY <1>1, AtWorkFacts
  <1> HIDE DEF r
  <1>5. QED
    BY <1>1, <1>2, <1>3, <1>4, FoundSoFar, LocalWork

\* The end of a chunk: its checksum, if it has one, joins the others.
Counted(r, c, sum, errors) ==
    [r EXCEPT !.work[c].state = "counted", !.sums[c] = sum, !.errors = @ + errors]

\* The record of the job has that sum, and the other sums stay.
LEMMA CountedFields ==
    ASSUME NEW r \in JobRecords, NEW c \in Chunks, NEW sum \in Cells, NEW errors \in Nat
    PROVE  LET q == Counted(r, c, sum, errors)
           IN  /\ q \in JobRecords /\ SameData(q, r) /\ q.sums[c] = sum
               /\ \A d \in Chunks : d # c => q.sums[d] = r.sums[d]
  <1> DEFINE w    == [r.work EXCEPT ![c] = [r.work[c] EXCEPT !.state = "counted"]]
             sums == [r.sums EXCEPT ![c] = sum]
             n    == r.errors + errors
  <1>1. r.work \in [Chunks -> Works] /\ r.sums \in [Chunks -> Cells] /\ n \in Nat
    BY DEF JobRecords
  <1>2. w \in [Chunks -> Works]
    <2>1. [r.work[c] EXCEPT !.state = "counted"] \in Works
      BY <1>1 DEF Works
    <2>2. QED
      BY <1>1, <2>1
  <1>3. /\ sums \in [Chunks -> Cells] /\ sums[c] = sum
        /\ \A d \in Chunks : d # c => sums[d] = r.sums[d]
    BY <1>1
  <1>4. Counted(r, c, sum, errors) = [r EXCEPT !.work = w, !.sums = sums, !.errors = n]
    BY DEF JobRecords, Counted
  <1> HIDE DEF w, sums, n
  <1>5. LET q == [r EXCEPT !.work = w, !.sums = sums, !.errors = n]
        IN  q \in JobRecords /\ SameData(q, r) /\ q.sums = sums
    BY <1>1, <1>2, <1>3 DEF JobRecords, SameData
  <1>6. QED
    BY <1>3, <1>4, <1>5, Zenon

\* The end of a chunk is honest when its checksum is that of the chunk.
LEMMA EndChunkKeeps ==
    ASSUME UploadsInv, NEW j \in Jobs, NEW c \in Chunks, phase = "running", Local,
           job[j].work[c].state = "running", NEW errors \in Nat, NEW sum \in Cells,
           EndChunk(j, c, sum, errors),
           sum # None => \E data \in was[j] : c \in DOMAIN data /\ sum = data[c]
    PROVE  UploadsInv'
  <1> DEFINE r == Counted(job[j], c, sum, errors)
  <1>1. /\ r \in JobRecords /\ SameData(r, job[j]) /\ r.sums[c] = sum
        /\ \A d \in Chunks : d # c => r.sums[d] = job[j].sums[d]
    <2>1. job[j] \in JobRecords
      BY JobOf
    <2>2. QED
      BY <2>1, CountedFields
  <1>2. Goto(j, job[j].pc, r)
    BY Zenon DEF EndChunk, Counted
  <1> HIDE DEF r
  <1>3. job[j].pc \in AtWork /\ Follows(job[j].pc, job[j].pc)
    BY AtWorkFacts
  <1>4. \A d \in Chunks : r.sums[d] # None =>
           \E data \in was[j] : d \in DOMAIN data /\ r.sums[d] = data[d]
    <2>1. SumsHonest(j)
      BY JobOf, Zenon DEF JobSound, HashSound
    <2>2. ASSUME NEW d \in Chunks, d # c, r.sums[d] # None
          PROVE  \E data \in was[j] : d \in DOMAIN data /\ r.sums[d] = data[d]
      BY <1>1, <2>1, <2>2, Zenon DEF SumsHonest
    <2>3. QED
      BY <1>1, <2>2, Zenon
  <1>5. QED
    BY <1>1, <1>2, <1>3, <1>4, LocalWork

\* A chunk is skipped, tried again, given up or has the checksum of its copy.
LEMMA ProcessSingleChunkKeeps ==
    ASSUME UploadsInv, NEW j \in Jobs, NEW c \in Chunks, ProcessSingleChunk(j, c)
    PROVE  UploadsInv'
  <1>1. phase = "running" /\ job[j].work[c].state = "running" /\ Local
    BY Zenon DEF ProcessSingleChunk, Local
  <1>2. \/ EndChunk(j, c, None, 0) \/ EndChunk(j, c, None, 1)
        \/ c <= Len(object[j]) /\ EndChunk(j, c, object[j][c], 0)
        \/ Goto(j, job[j].pc, [job[j] EXCEPT !.work[c].attempt = @ + 1])
    BY Zenon DEF ProcessSingleChunk
  <1>3. None \in Cells /\ 0 \in Nat /\ 1 \in Nat
    BY NoSumsFacts
  <1>4. CASE EndChunk(j, c, None, 0) \/ EndChunk(j, c, None, 1)
    BY <1>1, <1>3, <1>4, EndChunkKeeps
  <1>5. CASE c <= Len(object[j]) /\ EndChunk(j, c, object[j][c], 0)
    <2>1. object[j] \in Data /\ object[j] \in was[j] /\ c \in Nat \ {0}
      BY JobOf, UploadsAssumption DEF Chunks
    <2>2. object[j][c] \in Cells /\ c \in DOMAIN object[j]
      BY <1>5, <2>1, ElementOfSeq, LenProperties DEF Data
    <2>3. QED
      BY <1>1, <1>3, <1>5, <2>1, <2>2, EndChunkKeeps
  <1>6. CASE Goto(j, job[j].pc, [job[j] EXCEPT !.work[c].attempt = @ + 1])
    <2> DEFINE r == [job[j] EXCEPT !.work[c].attempt = @ + 1]
    <2>1. r \in JobRecords /\ SameData(r, job[j]) /\ r.sums = job[j].sums
      BY JobOf, ThreadSteps, Zenon DEF IsThread
    <2>2. Goto(j, job[j].pc, r)
      BY <1>6
    <2>3. job[j].pc \in AtWork /\ Follows(job[j].pc, job[j].pc)
      BY <1>1, AtWorkFacts
    <2> HIDE DEF r
    <2>4. QED
      BY <1>1, <2>1, <2>2, <2>3, FoundSoFar, LocalWork
  <1>7. QED
    BY <1>2, <1>4, <1>5, <1>6, Zenon

\* The window of the fan-out.
LEMMA TrackedFields ==
    ASSUME NEW r \in JobRecords, NEW failed
    PROVE  Tracked(r, failed) \in JobRecords /\ SameData(Tracked(r, failed), r)
           /\ SameWork(Tracked(r, failed), r)
  <1> DEFINE completed == Cardinality({c \in Chunks : r.work[c].state = "done"})
             halved    == Larger(r.window \div 2, Smaller(MinWindow, NumThreads))
             doubled   == Smaller(r.window * 2, NumThreads)
  <1>1. completed \in Nat
    <2>1. IsFiniteSet(Chunks)
      BY UploadsAssumption, FS_Interval DEF Chunks
    <2>2. IsFiniteSet({c \in Chunks : r.work[c].state = "done"})
      BY <2>1, FS_Subset
    <2>3. QED
      BY <2>2, FS_CardinalityType
  <1>2. r.window \in Int /\ r.window \div 2 \in Int /\ r.window * 2 \in Int
    BY CounterFields
  <1>3. halved \in Int /\ doubled \in Int
    BY <1>2, UploadsAssumption DEF Larger, Smaller
  <1>4. completed + doubled \in Int
    BY <1>1, <1>3
  <1> HIDE DEF completed, halved, doubled
  <1>5. Smaller(r.window, halved) \in Int
    BY <1>2, <1>3 DEF Smaller
  <1>6. \/ Tracked(r, failed) = [r EXCEPT !.window = Smaller(r.window, halved)]
        \/ Tracked(r, failed) = [r EXCEPT !.window = doubled, !.threshold = completed + doubled]
        \/ Tracked(r, failed) = r
    BY Zenon DEF Tracked, completed, halved, doubled
  <1>7. r \in JobRecords /\ SameData(r, r) /\ SameWork(r, r)
    BY Zenon DEF SameData, SameWork
  <1>8. QED
    BY <1>3, <1>4, <1>5, <1>6, <1>7, WindowFields

\* The window follows the chunks that end.
LEMMA FinishChunkKeeps ==
    ASSUME UploadsInv, NEW j \in Jobs, NEW c \in Chunks, FinishChunk(j, c)
    PROVE  UploadsInv'
  <1>1. phase = "running" /\ job[j].work[c].state = "counted" /\ Local
    BY Zenon DEF FinishChunk, Local
  <1> DEFINE b == job[j].should_abort \/ TooMany(j)
             q == [job[j] EXCEPT !.should_abort = b]
             r == [q EXCEPT !.work[c].state = "done"]
  <1>2. \/ Goto(j, r.pc, r)
        \/ Goto(j, r.pc, Tracked(r, r.errors > r.work[c].before))
    BY Zenon DEF FinishChunk
  <1>3. q \in JobRecords /\ SameData(q, job[j]) /\ q.sums = job[j].sums /\ q.pc = job[j].pc
    <2>1. job[j] \in JobRecords /\ b \in BOOLEAN
      BY JobOf
    <2> HIDE DEF b
    <2>2. QED
      BY <2>1 DEF JobRecords, SameData
  <1> HIDE DEF q
  <1>4. r \in JobRecords /\ SameData(r, q) /\ r.sums = q.sums /\ r.pc = q.pc
    <2>1. r \in JobRecords /\ SameData(r, q) /\ r.sums = q.sums
      BY <1>3, ThreadSteps, Zenon DEF IsThread
    <2>2. r.pc = q.pc
      BY <1>3 DEF JobRecords
    <2>3. QED
      BY <2>1, <2>2
  <1>5. r \in JobRecords /\ SameData(r, job[j]) /\ r.sums = job[j].sums /\ r.pc = job[j].pc
    BY <1>3, <1>4, Zenon DEF SameData
  <1> HIDE DEF r
  <1>6. job[j].pc \in AtWork /\ Follows(job[j].pc, job[j].pc)
    BY <1>1, AtWorkFacts
  <1>7. \A f : LET t == Tracked(r, f)
               IN  t \in JobRecords /\ SameData(t, job[j]) /\ t.sums = job[j].sums
    BY <1>5, TrackedFields, Zenon DEF SameData, SameWork
  <1>8. \E t \in JobRecords : Goto(j, job[j].pc, t) /\ SameData(t, job[j]) /\ t.sums = job[j].sums
    BY <1>2, <1>5, <1>7, Zenon
  <1>9. QED
    BY <1>1, <1>6, <1>8, FoundSoFar, LocalWork

\* The types of the fields of a job that carry data.
LEMMA JobFields ==
    ASSUME NEW r \in JobRecords
    PROVE  /\ r.pc \in Pcs /\ r.size \in 0..MaxChunks /\ r.remote \in 0..MaxChunks
           /\ r.local \in Data /\ r.ids \in Requests /\ r.crcs \in Seq(Cells)
           /\ r.upload \in Nat /\ r.part \in Nat \ {0} /\ r.sums \in [Chunks -> Cells]
           /\ r.success \in BOOLEAN /\ r.want \in Data /\ r.attempt \in Nat
           /\ r.work \in [Chunks -> Works]
  <1>1. r.pc \in Pcs /\ r.size \in 0..MaxChunks /\ r.remote \in 0..MaxChunks
    BY DEF JobRecords
  <1>2. r.local \in Data /\ r.want \in Data
    BY DEF JobRecords
  <1>3. r.ids \in Requests
    BY DEF JobRecords
  <1>4. r.crcs \in Seq(Cells) /\ r.upload \in Nat
    BY DEF JobRecords
  <1>5. r.part \in Nat \ {0} /\ r.attempt \in Nat /\ r.success \in BOOLEAN
    BY DEF JobRecords
  <1>6. r.sums \in [Chunks -> Cells] /\ r.work \in [Chunks -> Works]
    BY DEF JobRecords
  <1>7. QED
    BY <1>1, <1>2, <1>3, <1>4, <1>5, <1>6

\* The fan-out returns what the threads have found.
LEMMA CollectHonest ==
    ASSUME UploadsInv, NEW j \in Jobs, job[j].pc \in FanOut
    PROVE  /\ Collect(j) \in Seq(Cells)
           /\ Collect(j) # <<>> =>
                 /\ Len(Collect(j)) = Len(AskedFor(job[j]))
                 /\ \A i \in DOMAIN AskedFor(job[j]) : \E data \in was[j] :
                       /\ AskedFor(job[j])[i] \in DOMAIN data
                       /\ Collect(j)[i] = data[AskedFor(job[j])[i]]
  <1>1. /\ Ids(j) \subseteq Chunks /\ 1..job[j].remote \subseteq Chunks
        /\ job[j].remote \in Nat
    <2>1. Ids(j) \subseteq Chunks /\ 1..job[j].remote \subseteq Chunks
      BY IdsAreChunks
    <2>2. job[j].remote \in 0..MaxChunks
      BY JobOf, JobFields, Zenon
    <2>3. QED
      BY <2>1, <2>2
  <1>2. job[j].sums \in [Chunks -> Cells] /\ job[j].ids \in Requests
    BY JobOf, JobFields, Zenon
  <1>3. SumsHonest(j)
    BY JobOf, Zenon DEF JobSound, HashSound
  <1>4. /\ job[j].ids \in Seq(Nat) /\ \A i \in DOMAIN job[j].ids : job[j].ids[i] \in Ids(j)
    <2>1. <<2, 1, 2>> \in Seq(Nat) /\ <<MaxChunks + 1>> \in Seq(Nat) /\ <<>> \in Seq(Nat)
      BY UploadsAssumption
    <2>2. job[j].ids \in Seq(Nat)
      BY <1>2, <2>1, Zenon DEF Requests
    <2>3. job[j].ids # <<>> => \A i \in DOMAIN job[j].ids : job[j].ids[i] \in Ids(j)
      BY Zenon DEF Ids
    <2>4. job[j].ids = <<>> => DOMAIN job[j].ids = {}
      OBVIOUS
    <2>5. QED
      BY <2>2, <2>3, <2>4, Zenon
  <1>5. Asked(j) \in Seq(Cells) /\ Len(Asked(j)) = Len(AskedFor(job[j]))
        /\ \A i \in DOMAIN AskedFor(job[j]) : /\ AskedFor(job[j])[i] \in Ids(j)
                                              /\ Asked(j)[i] = job[j].sums[AskedFor(job[j])[i]]
    <2>1. CASE job[j].ids = <<>>
      <3>1. Ids(j) = 1..job[j].remote
        BY <2>1, Zenon DEF Ids
      <3>2. AskedFor(job[j]) = [c \in 1..job[j].remote |-> c]
            /\ Asked(j) = [c \in 1..job[j].remote |-> job[j].sums[c]]
        BY <2>1, Zenon DEF AskedFor, Asked
      <3>3. \A c \in 1..job[j].remote : job[j].sums[c] \in Cells
        BY <1>1, <1>2
      <3>4. Asked(j) \in Seq(Cells)
        BY <1>1, <3>2, <3>3, IsASeq
      <3>5. QED
        BY <1>1, <3>1, <3>2, <3>4
    <2>2. CASE job[j].ids # <<>>
      <3>1. AskedFor(job[j]) = job[j].ids
            /\ Asked(j) = [i \in DOMAIN job[j].ids |-> job[j].sums[job[j].ids[i]]]
        BY <2>2, Zenon DEF AskedFor, Asked
      <3>2. DOMAIN job[j].ids = 1..Len(job[j].ids) /\ Len(job[j].ids) \in Nat
        BY <1>4, LenProperties
      <3>3. \A i \in 1..Len(job[j].ids) : job[j].sums[job[j].ids[i]] \in Cells
        BY <1>1, <1>2, <1>4, <3>2
      <3>4. Asked(j) \in Seq(Cells)
        BY <3>1, <3>2, <3>3, IsASeq
      <3>5. QED
        BY <1>4, <3>1, <3>2, <3>4
    <2>3. QED
      BY <2>1, <2>2
  <1>6. CASE job[j].errors > 0 \/ \E c \in Ids(j) : job[j].sums[c] = None
    BY <1>6, EmptySeq DEF Collect
  <1>7. CASE ~(job[j].errors > 0 \/ \E c \in Ids(j) : job[j].sums[c] = None)
    <2>1. Collect(j) = Asked(j) /\ \A c \in Ids(j) : job[j].sums[c] # None
      BY <1>7, Zenon DEF Collect
    <2>2. \A c \in Ids(j) : \E data \in was[j] : c \in DOMAIN data /\ job[j].sums[c] = data[c]
      BY <1>1, <1>3, <2>1, Zenon DEF SumsHonest
    <2>3. QED
      BY <1>5, <2>1, <2>2, Zenon
  <1>8. QED
    BY <1>6, <1>7, Zenon

\* What is left of the fan-out when GetHashes returns: the checksums it collects.
LEMMA ReturnedFields ==
    ASSUME UploadsInv, NEW j \in Jobs, Collect(j) \in Seq(Cells), Busy(j) = {}
    PROVE  LET q == Returned(j)
           IN  /\ q \in JobRecords /\ q.crcs = Collect(j) /\ q.sums = NoSums
               /\ \A c \in Chunks : q.work[c] = Idle
               /\ q.size = job[j].size /\ q.local = job[j].local /\ q.remote = job[j].remote
               /\ q.ids = job[j].ids /\ q.upload = job[j].upload /\ q.part = job[j].part
               /\ q.success = job[j].success /\ q.want = job[j].want
  <1> DEFINE ws == [c \in Chunks |-> IF c \in Busy(j) THEN job[j].work[c] ELSE Idle]
             x  == Collect(j)
             q  == [job[j] EXCEPT !.crcs = x, !.sums = NoSums, !.errors = 0, !.work = ws,
                                  !.should_abort = FALSE, !.wait = 1, !.window = 0,
                                  !.threshold = 0]
  <1>1. job[j] \in JobRecords
    BY JobOf
  <1>2. ws \in [Chunks -> Works] /\ \A c \in Chunks : ws[c] = Idle
    BY DEF Idle, Works
  <1>3. Returned(j) = q
    BY Zenon DEF Returned
  <1> HIDE DEF ws, x
  <1>4. x \in Seq(Cells)
    BY DEF x
  <1>5. q \in JobRecords /\ q.crcs = x /\ q.sums = NoSums /\ q.work = ws
    <2>1. q \in JobRecords
      <3> DEFINE y == [job[j] EXCEPT !.crcs = x, !.sums = NoSums, !.errors = 0, !.work = ws]
      <3>1. y \in JobRecords
        BY <1>1, <1>2, <1>4, NoSumsFacts DEF JobRecords
      <3>2. q = [y EXCEPT !.should_abort = FALSE, !.wait = 1, !.window = 0, !.threshold = 0]
        BY Zenon
      <3> HIDE DEF y
      <3>3. [y EXCEPT !.should_abort = FALSE, !.wait = 1, !.window = 0, !.threshold = 0]
               \in JobRecords
        <4> DEFINE v == [y EXCEPT !.should_abort = FALSE]
                   w == [v EXCEPT !.wait = 1]
        <4>1. v \in JobRecords
          BY <3>1, ControlFields
        <4>2. [y EXCEPT !.should_abort = FALSE, !.wait = 1, !.window = 0, !.threshold = 0]
                 = [w EXCEPT !.window = 0, !.threshold = 0]
          BY Zenon
        <4> HIDE DEF v
        <4>3. w \in JobRecords
          BY <4>1, ControlFields
        <4> HIDE DEF w
        <4>4. [w EXCEPT !.window = 0, !.threshold = 0] \in JobRecords
          <5>1. 0 \in Int
            OBVIOUS
          <5>2. QED
            BY <4>3, <5>1, WindowFields, Zenon
        <4>5. QED
          BY <4>2, <4>4, Zenon
      <3>4. QED
        BY <3>2, <3>3, Zenon
    <2>2. q.crcs = x /\ q.sums = NoSums /\ q.work = ws
      BY <1>1 DEF JobRecords
    <2>3. QED
      BY <2>1, <2>2
  <1>6. /\ q.size = job[j].size /\ q.local = job[j].local /\ q.remote = job[j].remote
        /\ q.ids = job[j].ids /\ q.upload = job[j].upload /\ q.part = job[j].part
        /\ q.success = job[j].success /\ q.want = job[j].want
    <2>1. q.size = job[j].size /\ q.local = job[j].local /\ q.remote = job[j].remote
      BY <1>1 DEF JobRecords
    <2>2. q.ids = job[j].ids /\ q.upload = job[j].upload /\ q.part = job[j].part
      BY <1>1 DEF JobRecords
    <2>3. q.success = job[j].success /\ q.want = job[j].want
      BY <1>1 DEF JobRecords
    <2>4. QED
      BY <2>1, <2>2, <2>3
  <1> HIDE DEF q
  <1>7. QED
    BY <1>2, <1>3, <1>5, <1>6, Zenon DEF x

\* A job that has not returned has not succeeded.
LEMMA NotYet ==
    ASSUME UploadsInv, NEW j \in Jobs, job[j].pc # "returned"
    PROVE  ~job[j].success
  <1>1. SuccessSound(j)
    BY JobOf, Zenon DEF JobSound
  <1>2. QED
    BY <1>1, Zenon DEF SuccessSound

\* A job that is neither with its upload nor with its parts, and has no success.
LEMMA PlainJob ==
    ASSUME NEW j \in Jobs, ~job'[j].success, job'[j].pc \notin {"open", "part"}
    PROVE  PartsSound(j)' /\ SuccessSound(j)'
  <1>1. PartsSound(j)'
    BY Zenon DEF PartsSound
  <1>2. SuccessSound(j)'
    BY Zenon DEF SuccessSound
  <1>3. QED
    BY <1>1, <1>2

\* Nobody works for a job that has found nothing.
LEMMA NothingFound ==
    ASSUME NEW j \in Jobs, job'[j].sums = NoSums, \A c \in Chunks : job'[j].work[c] = Idle
    PROVE  BusyBelongs(j)' /\ SumsHonest(j)'
  <1>1. Busy(j)' = {}
    <2>1. \A c \in Chunks : job'[j].work[c].state = "idle"
      BY DEF Idle
    <2>2. QED
      BY <2>1 DEF Busy
  <1>2. \A c \in Chunks : NoSums[c] = None
    BY DEF NoSums
  <1>3. BusyBelongs(j)'
    BY <1>1, Zenon DEF BusyBelongs
  <1>4. SumsHonest(j)'
    BY <1>2, Zenon DEF SumsHonest
  <1>5. QED
    BY <1>3, <1>4

\* The fan-out is joined: nobody is at work, and the upload is to be aborted.
LEMMA JoinKeeps ==
    ASSUME UploadsInv, NEW j \in Jobs, Join(j)
    PROVE  UploadsInv'
  <1>1. phase = "running" /\ job[j].pc = "join" /\ Busy(j) = {} /\ Local
        /\ Goto(j, "hash_abort", Returned(j))
    BY Zenon DEF Join, At, Local
  <1>2. UNCHANGED <<source, object, uploads, was, kind, touched>>
    BY <1>1, LocalFacts, Zenon
  <1>3. /\ "join" \in FanOut /\ "join" \in Holding /\ "hash_abort" \in Holding
        /\ "hash_abort" \in Pcs /\ "hash_abort" \in Afterwards /\ "hash_abort" \notin FanOut
        /\ "join" \in Unwritten /\ "join" \notin CopyPcs
        /\ "hash_abort" \notin {"copy", "again"} /\ "hash_abort" \notin DiffPcs
        /\ "join" \notin {"start", "crcs", "abort", "returned"} /\ "join" # "returned"
        /\ "hash_abort" \notin {"copy", "again", "part", "abort"}
        /\ "hash_abort" \notin {"hash_check"} \cup FanOut
        /\ "hash_abort" \notin {"open", "part"}
    BY DEF FanOut, Holding, Pcs, Afterwards, Unwritten, CopyPcs, DiffPcs
  <1> DEFINE q == Returned(j)
  <1>4. /\ q \in JobRecords /\ q.crcs = Collect(j) /\ q.sums = NoSums
        /\ \A c \in Chunks : q.work[c] = Idle
        /\ q.size = job[j].size /\ q.local = job[j].local /\ q.remote = job[j].remote
        /\ q.ids = job[j].ids /\ q.upload = job[j].upload /\ q.part = job[j].part
        /\ q.success = job[j].success /\ q.want = job[j].want
    BY <1>1, <1>3, CollectHonest, ReturnedFields, Zenon
  <1> HIDE DEF q
  <1>5. /\ JobTypes' /\ job'[j].pc = "hash_abort"
        /\ SameData(job'[j], q) /\ SameWork(job'[j], q)
        /\ \A k \in Jobs : k # j => job'[k] = job[k]
    <2>1. Goto(j, "hash_abort", q) /\ JobTypes
      BY <1>1, Zenon DEF q, UploadsInv, UploadsTyped
    <2>2. QED
      BY <1>3, <1>4, <2>1, GotoFacts, Zenon
  <1>6. /\ job'[j].sums = NoSums /\ \A c \in Chunks : job'[j].work[c] = Idle
        /\ job'[j].crcs = Collect(j)
        /\ job'[j].local = job[j].local /\ job'[j].remote = job[j].remote
        /\ job'[j].ids = job[j].ids /\ job'[j].upload = job[j].upload
        /\ job'[j].success = job[j].success
    BY <1>4, <1>5, Zenon DEF SameData, SameWork
  <1>7. BusyBelongs(j)' /\ SumsHonest(j)'
    BY <1>6, NothingFound
  <1>8. PartsSound(j)' /\ SuccessSound(j)'
    BY <1>1, <1>3, <1>5, <1>6, NotYet, PlainJob, Zenon
  <1>9. JobSound(j)
    BY JobOf
  <1>10. Owned(j)'
    BY <1>1, <1>2, <1>3, <1>6, <1>9, Zenon DEF JobSound, Owned
  <1>11. HashSound(j)'
    <2>1. AskedFor(job'[j]) = AskedFor(job[j])
      BY <1>6, Zenon DEF AskedFor
    <2>2. Honest(j)'
      <3>1. Collect(j) # <<>> =>
               /\ Len(Collect(j)) = Len(AskedFor(job[j]))
               /\ \A i \in DOMAIN AskedFor(job[j]) : \E data \in was[j] :
                     /\ AskedFor(job[j])[i] \in DOMAIN data
                     /\ Collect(j)[i] = data[AskedFor(job[j])[i]]
        BY <1>1, <1>3, CollectHonest, Zenon
      <3>2. was'[j] = was[j] /\ job'[j].crcs = Collect(j)
        BY <1>2, <1>6, Zenon
      <3>3. QED
        BY <2>1, <3>1, <3>2, Zenon DEF Honest
    <2>3. QED
      BY <1>3, <1>5, <1>7, <2>2, Zenon DEF HashSound
  <1>12. KindSound(j)'
    BY <1>1, <1>2, <1>3, <1>5, <1>6, <1>9, Zenon DEF JobSound, KindSound
  <1>13. SizesSound(j)'
    <2>1. ~touched[j] => was[j] = {object[j]} /\ job[j].remote = Len(object[j])
      <3>1. kind[j] # "copy"
        BY <1>1, <1>3, <1>9, Zenon DEF JobSound, KindSound
      <3>2. job[j].pc \in Unwritten /\ job[j].pc \in {"hash_check"} \cup FanOut
        BY <1>1, <1>3
      <3>3. QED
        BY <1>9, <3>1, <3>2, Zenon DEF JobSound, SizesSound
    <2>2. QED
      BY <1>2, <1>3, <1>5, <1>6, <2>1, Zenon DEF SizesSound
  <1>14. JobSound(j)'
    BY <1>7, <1>8, <1>10, <1>11, <1>12, <1>13, Zenon DEF JobSound
  <1>15. QED
    BY <1>1, <1>3, <1>5, <1>6, <1>14, LocalKeeps, Zenon

-----------------------------------------------------------------------------
(* The steps of a job before it has an upload.                             *)

Early == {"start", "crcs", "head", "hash_check"}

\* What such a job has and has not yet.
LEMMA EarlyFacts ==
    ASSUME UploadsInv, NEW j \in Jobs, job[j].pc \in Early
    PROVE  /\ job[j].pc \notin Holding /\ Busy(j) = {} /\ SumsHonest(j) /\ ~job[j].success
           /\ job[j].crcs = <<>>
           /\ ~touched[j] /\ kind[j] # "copy" => was[j] = {object[j]}
  <1>1. /\ job[j].pc \notin Holding /\ job[j].pc \notin {"submit", "wait", "join"}
        /\ job[j].pc \notin Afterwards /\ job[j].pc \in Unwritten /\ job[j].pc # "returned"
    BY DEF Early, Holding, Afterwards, Unwritten
  <1>2. JobSound(j)
    BY JobOf
  <1>3. Busy(j) = {} /\ SumsHonest(j)
    BY <1>1, <1>2, Zenon DEF JobSound, BusyBelongs, HashSound
  <1>4. job[j].crcs = <<>>
    BY <1>1, <1>2, Zenon DEF JobSound, HashSound
  <1>5. ~touched[j] /\ kind[j] # "copy" => was[j] = {object[j]}
    BY <1>1, <1>2, Zenon DEF JobSound, SizesSound
  <1>6. QED
    BY <1>1, <1>3, <1>4, <1>5, NotYet

\* A job that has no upload yet takes a step of its own.
LEMMA EarlyKeeps ==
    ASSUME UploadsInv, NEW j \in Jobs, phase = "running", Local, job[j].pc \in Early,
           NEW r \in JobRecords, NEW b \in Pcs, Goto(j, b, r), SameWork(r, job[j]),
           b \notin Holding, r.success = job[j].success, r.crcs = job[j].crcs,
           KindSound(j)', SizesSound(j)'
    PROVE  UploadsInv'
  <1>1. UNCHANGED <<source, object, uploads, was, kind, touched>>
    BY LocalFacts, Zenon
  <1>2. /\ JobTypes' /\ job'[j].pc = b /\ SameData(job'[j], r) /\ SameWork(job'[j], r)
        /\ \A k \in Jobs : k # j => job'[k] = job[k]
    BY GotoFacts, Zenon DEF UploadsInv, UploadsTyped
  <1>3. /\ job[j].pc \notin Holding /\ Busy(j) = {} /\ SumsHonest(j) /\ ~job[j].success
        /\ job[j].crcs = <<>>
    BY EarlyFacts
  <1>4. /\ job'[j].work = job[j].work /\ job'[j].sums = job[j].sums
        /\ job'[j].crcs = <<>> /\ ~job'[j].success
    BY <1>2, <1>3, Zenon DEF SameData, SameWork
  <1>5. BusyBelongs(j)'
    <2>1. Busy(j)' = Busy(j)
      BY <1>4, Zenon DEF Busy
    <2>2. QED
      BY <1>3, <2>1, Zenon DEF BusyBelongs
  <1>6. HashSound(j)'
    <2>1. SumsHonest(j)'
      BY <1>1, <1>3, <1>4, Zenon DEF SumsHonest
    <2>2. Honest(j)'
      BY <1>4, Zenon DEF Honest
    <2>3. b \notin FanOut
      BY DEF FanOut, Holding
    <2>4. QED
      BY <1>2, <1>4, <2>1, <2>2, <2>3, Zenon DEF HashSound
  <1>7. Owned(j)'
    BY <1>2, Zenon DEF Owned
  <1>8. PartsSound(j)' /\ SuccessSound(j)'
    <2>1. b \notin {"open", "part"}
      BY DEF Holding
    <2>2. QED
      BY <1>2, <1>4, <2>1, PlainJob, Zenon
  <1>9. JobSound(j)'
    BY <1>5, <1>6, <1>7, <1>8, Zenon DEF JobSound
  <1>10. QED
    BY <1>2, <1>3, <1>9, LocalKeeps, Zenon

\* A length that a job may note.
LEMMA DataLength ==
    ASSUME NEW data \in Data
    PROVE  /\ Len(data) \in 0..MaxChunks /\ DOMAIN data = 1..Len(data)
           /\ \A c \in DOMAIN data : data[c] \in Cells
           /\ data \in Seq(Cells)
  <1>1. data \in Seq(Cells) /\ Len(data) <= MaxChunks
    BY DEF Data
  <1>2. Len(data) \in Nat /\ DOMAIN data = 1..Len(data)
    BY <1>1, LenProperties
  <1>3. \A c \in DOMAIN data : data[c] \in Cells
    BY <1>1, <1>2, ElementOfSeq
  <1>4. QED
    BY <1>1, <1>2, <1>3, UploadsAssumption

\* The window of a fan-out that is about to begin.
LEMMA Windowed ==
    ASSUME NEW r \in JobRecords, NEW m \in Nat
    PROVE  /\ WithWindow(r, m) \in JobRecords
           /\ SameData(WithWindow(r, m), r) /\ SameWork(WithWindow(r, m), r)
  <1>1. m \in Int
    OBVIOUS
  <1>2. QED
    BY <1>1, WindowFields, Zenon DEF WithWindow

\* What the first steps of a job note: a size to hash, a size to send, checksums.
LEMMA NotedRemote ==
    ASSUME NEW r \in JobRecords, NEW n \in 0..MaxChunks, NEW m \in Nat
    PROVE  LET q == WithWindow([r EXCEPT !.remote = n], m)
           IN  /\ q \in JobRecords /\ SameWork(q, r) /\ q.success = r.success
               /\ q.crcs = r.crcs /\ q.remote = n /\ q.ids = r.ids /\ q.local = r.local
  <1> DEFINE x == [r EXCEPT !.remote = n]
  <1>1. /\ x \in JobRecords /\ SameWork(x, r) /\ x.success = r.success
        /\ x.crcs = r.crcs /\ x.remote = n /\ x.ids = r.ids /\ x.local = r.local
    BY DEF JobRecords, SameWork
  <1> HIDE DEF x
  <1>2. /\ WithWindow(x, m) \in JobRecords
        /\ SameData(WithWindow(x, m), x) /\ SameWork(WithWindow(x, m), x)
    BY <1>1, Windowed, Zenon
  <1>3. QED
    BY <1>1, <1>2, Zenon DEF SameData, SameWork, x

\* The size of the file or of the object is noted.
LEMMA NotedSize ==
    ASSUME NEW r \in JobRecords, NEW n \in 0..MaxChunks
    PROVE  LET q == [r EXCEPT !.size = n]
           IN  /\ q \in JobRecords /\ SameWork(q, r) /\ q.success = r.success
               /\ q.crcs = r.crcs /\ q.size = n /\ q.ids = r.ids /\ q.local = r.local
    BY DEF JobRecords, SameWork

\* The checksums of the file are noted.
LEMMA NotedLocal ==
    ASSUME NEW r \in JobRecords, NEW data \in Data
    PROVE  LET q == [r EXCEPT !.local = data]
           IN  /\ q \in JobRecords /\ SameWork(q, r) /\ q.success = r.success
               /\ q.crcs = r.crcs /\ q.local = data /\ q.ids = r.ids
    BY DEF JobRecords, SameWork

\* What is known of an early job after it has moved to b as r.
LEMMA EarlyMove ==
    ASSUME UploadsInv, NEW j \in Jobs, Local, NEW r \in JobRecords, NEW b \in Pcs,
           Goto(j, b, r)
    PROVE  /\ job'[j].pc = b /\ job'[j].size = r.size /\ job'[j].local = r.local
           /\ job'[j].remote = r.remote /\ job'[j].ids = r.ids /\ job'[j].crcs = r.crcs
           /\ kind' = kind /\ touched' = touched /\ was' = was /\ object' = object
           /\ source' = source
  <1>1. /\ kind' = kind /\ touched' = touched /\ was' = was /\ object' = object
        /\ source' = source
    BY LocalFacts, Zenon
  <1>2. job'[j].pc = b /\ SameData(job'[j], r)
    BY GotoFacts, Zenon DEF UploadsInv, UploadsTyped
  <1>3. QED
    BY <1>1, <1>2, Zenon DEF SameData

\* GetHashes asks for the size of the object first.
LEMMA HashSizeKeeps ==
    ASSUME UploadsInv, NEW j \in Jobs, HashSize(j)
    PROVE  UploadsInv'
  <1>1. phase = "running" /\ job[j].pc = "start" /\ kind[j] = "hashes" /\ Local
    BY Zenon DEF HashSize, At, Local
  <1>2. PICK ids \in Requests, pool \in BOOLEAN, ramp_up \in BOOLEAN :
           Goto(j, "hash_check",
                WithWindow([job[j] EXCEPT !.remote = Len(object[j]), !.ids = ids, !.pool = pool],
                           IF ramp_up THEN Smaller(MinWindow, NumThreads) ELSE NumThreads))
    BY Zenon DEF HashSize
  <1> DEFINE m == IF ramp_up THEN Smaller(MinWindow, NumThreads) ELSE NumThreads
             n == Len(object[j])
             r == WithWindow([job[j] EXCEPT !.remote = n, !.ids = ids, !.pool = pool], m)
  <1>3. m \in Nat /\ n \in 0..MaxChunks /\ job[j] \in JobRecords /\ object[j] \in Data
    <2>1. m \in Nat
      BY UploadsAssumption DEF Smaller
    <2>2. job[j] \in JobRecords /\ object[j] \in Data
      BY JobOf
    <2>3. QED
      BY <2>1, <2>2, DataLength
  <1>4. Goto(j, "hash_check", r)
    BY <1>2
  <1> HIDE DEF m, n
  <1>5. /\ r \in JobRecords /\ SameWork(r, job[j]) /\ r.success = job[j].success
        /\ r.crcs = job[j].crcs /\ r.remote = n
    <2> DEFINE x == [job[j] EXCEPT !.remote = n, !.ids = ids, !.pool = pool]
    <2>1. /\ x \in JobRecords /\ SameWork(x, job[j]) /\ x.success = job[j].success
          /\ x.crcs = job[j].crcs /\ x.remote = n
      BY <1>3 DEF JobRecords, SameWork
    <2>2. r = WithWindow(x, m)
      BY Zenon
    <2> HIDE DEF r, x
    <2>3. /\ WithWindow(x, m) \in JobRecords
          /\ SameData(WithWindow(x, m), x) /\ SameWork(WithWindow(x, m), x)
      BY <1>3, <2>1, Windowed, Zenon
    <2>4. QED
      BY <2>1, <2>2, <2>3, Zenon DEF SameData, SameWork
  <1> HIDE DEF r
  <1>6. /\ "hash_check" \in Pcs /\ "start" \in Early /\ "hash_check" \notin Holding
        /\ "hash_check" \notin DiffPcs
    BY DEF Pcs, Early, Holding, DiffPcs
  <1>7. /\ job'[j].pc = "hash_check" /\ job'[j].remote = n
        /\ kind' = kind /\ touched' = touched /\ was' = was /\ object' = object
    BY <1>1, <1>4, <1>5, <1>6, EarlyMove, Zenon
  <1>8. KindSound(j)'
    BY <1>1, <1>6, <1>7 DEF KindSound
  <1>9. SizesSound(j)'
    <2>1. ~touched[j] => was[j] = {object[j]}
      BY <1>1, <1>6, EarlyFacts
    <2>2. QED
      BY <1>1, <1>7, <2>1 DEF SizesSound, n
  <1>10. QED
    BY <1>1, <1>4, <1>5, <1>6, <1>8, <1>9, EarlyKeeps

\* The upload asks whether there is an object, and how large it is.
LEMMA HeadObjectKeeps ==
    ASSUME UploadsInv, NEW j \in Jobs, HeadObject(j)
    PROVE  UploadsInv'
  <1>1. phase = "running" /\ job[j].pc = "head" /\ Local
    BY Zenon DEF HeadObject, At, Local
  <1>2. KindSound(j) /\ job[j] \in JobRecords /\ object[j] \in Data /\ kind[j] \in Kinds
    BY JobOf DEF JobSound
  <1>3. kind[j] = "diff_upload"
    BY <1>1, <1>2 DEF KindSound, CopyPcs, DiffPcs, Kinds
  <1>4. CASE Goto(j, "decide", job[j])
    <2>1. /\ Follows("head", "decide") /\ "decide" \in Pcs /\ "head" \notin Holding
          /\ "head" \notin {"submit", "wait", "join"} /\ "head" \notin {"hash_check", "hash_abort"}
      BY DEF Follows, Edges, Pcs, Holding
    <2>2. QED
      BY <1>1, <1>4, <2>1, JobOf, LocalMove
  <1> DEFINE n == Len(object[j])
             r == WithWindow([job[j] EXCEPT !.remote = n], NumThreads)
  <1>5. CASE Goto(j, "hash_check", r)
    <2>1. n \in 0..MaxChunks
      BY <1>2, DataLength
    <2> HIDE DEF n
    <2>2. /\ r \in JobRecords /\ SameWork(r, job[j]) /\ r.success = job[j].success
          /\ r.crcs = job[j].crcs /\ r.remote = n /\ r.ids = job[j].ids
          /\ r.local = job[j].local
      <3>1. NumThreads \in Nat
        BY UploadsAssumption
      <3>2. QED
        BY <1>2, <2>1, <3>1, NotedRemote, Zenon
    <2> HIDE DEF r
    <2>3. /\ "hash_check" \in Pcs /\ "head" \in Early /\ "hash_check" \notin Holding
      BY DEF Pcs, Early, Holding
    <2>4. /\ job'[j].pc = "hash_check" /\ job'[j].remote = n
          /\ job'[j].ids = job[j].ids /\ job'[j].local = job[j].local
          /\ kind' = kind /\ touched' = touched /\ was' = was /\ object' = object
      BY <1>1, <1>5, <2>2, <2>3, EarlyMove, Zenon
    <2>5. KindSound(j)'
      <3>1. job[j].ids = <<>> /\ job[j].local # <<>>
        BY <1>1, <1>2, <1>3 DEF KindSound
      <3>2. QED
        BY <1>3, <2>4, <3>1 DEF KindSound
    <2>6. SizesSound(j)'
      <3>1. ~touched[j] => was[j] = {object[j]}
        BY <1>1, <1>3, <2>3, EarlyFacts
      <3>2. QED
        BY <1>3, <2>4, <3>1 DEF SizesSound, n
    <2>7. QED
      BY <1>1, <1>5, <2>2, <2>3, <2>5, <2>6, EarlyKeeps
  <1>6. QED
    BY <1>4, <1>5, Zenon DEF HeadObject

\* The copy has the size of its source from the listing.
LEMMA CopyStartKeeps ==
    ASSUME UploadsInv, NEW j \in Jobs, CopyStart(j)
    PROVE  UploadsInv'
  <1> DEFINE n == Len(source[j])
             r == [job[j] EXCEPT !.size = n]
  <1>1. phase = "running" /\ job[j].pc = "start" /\ kind[j] = "copy" /\ Local
        /\ Goto(j, "copy", r)
    BY Zenon DEF CopyStart, At, Local
  <1>2. n \in 0..MaxChunks /\ job[j] \in JobRecords
    <2>1. job[j] \in JobRecords /\ source[j] \in Data
      BY JobOf
    <2>2. QED
      BY <2>1, DataLength
  <1> HIDE DEF n
  <1>3. /\ r \in JobRecords /\ SameWork(r, job[j]) /\ r.success = job[j].success
        /\ r.crcs = job[j].crcs /\ r.size = n
    BY <1>2, NotedSize, Zenon
  <1> HIDE DEF r
  <1>4. "copy" \in Pcs /\ "start" \in Early /\ "copy" \notin Holding /\ "copy" \in CopyPcs
    BY DEF Pcs, Early, Holding, CopyPcs
  <1>5. /\ job'[j].pc = "copy" /\ job'[j].size = n
        /\ kind' = kind /\ touched' = touched /\ source' = source
    BY <1>1, <1>3, <1>4, EarlyMove, Zenon
  <1>6. KindSound(j)'
    BY <1>1, <1>4, <1>5 DEF KindSound
  <1>7. SizesSound(j)'
    BY <1>1, <1>5 DEF SizesSound, n
  <1>8. QED
    BY <1>1, <1>3, <1>4, <1>6, <1>7, EarlyKeeps

\* The first two steps of an upload.
LEMMA UploadBegins ==
    ASSUME UploadsInv, NEW j \in Jobs, phase = "running", Local, kind[j] = "diff_upload",
           job[j].pc \in Early, NEW r \in JobRecords, NEW b \in {"crcs", "head"}, Goto(j, b, r),
           SameWork(r, job[j]), r.success = job[j].success, r.crcs = job[j].crcs,
           r.ids = job[j].ids, b = "head" => r.local # <<>>
    PROVE  UploadsInv'
  <1>1. b \in Pcs /\ b \notin Holding /\ b \notin {"hash_check"} \cup FanOut /\ b \in Unwritten
    BY DEF Pcs, Holding, FanOut, Unwritten
  <1>2. /\ job'[j].pc = b /\ job'[j].ids = job[j].ids /\ job'[j].local = r.local
        /\ job'[j].crcs = job[j].crcs
        /\ kind' = kind /\ touched' = touched /\ was' = was /\ object' = object
    BY <1>1, EarlyMove, Zenon
  <1>3. job[j].crcs = <<>> /\ (~touched[j] => was[j] = {object[j]})
    BY EarlyFacts
  <1>4. KindSound(j)'
    <2>1. KindSound(j)
      BY JobOf DEF JobSound
    <2>2. job[j].ids = <<>>
      BY <2>1 DEF KindSound
    <2>3. QED
      BY <1>2, <2>2 DEF KindSound
  <1>5. SizesSound(j)'
    BY <1>1, <1>2, <1>3 DEF SizesSound
  <1>6. QED
    BY <1>1, <1>4, <1>5, EarlyKeeps

\* The upload takes the size of its file.
LEMMA StatKeeps ==
    ASSUME UploadsInv, NEW j \in Jobs, Stat(j)
    PROVE  UploadsInv'
  <1>1. phase = "running" /\ job[j].pc = "start" /\ kind[j] = "diff_upload" /\ Local
    BY Zenon DEF Stat, At, Local
  <1>2. job[j] \in JobRecords /\ source[j] \in Data
    BY JobOf
  <1> DEFINE n == Len(source[j])
             r == [job[j] EXCEPT !.size = n]
  <1>3. CASE Goto(j, "crcs", r)
    <2>1. n \in 0..MaxChunks /\ "start" \in Early
      BY <1>2, DataLength DEF Early
    <2> HIDE DEF n
    <2>2. /\ r \in JobRecords /\ SameWork(r, job[j]) /\ r.success = job[j].success
          /\ r.crcs = job[j].crcs /\ r.ids = job[j].ids
      BY <1>2, <2>1, NotedSize, Zenon
    <2> HIDE DEF r
    <2>3. QED
      BY <1>1, <1>3, <2>1, <2>2, UploadBegins
  <1>4. CASE Goto(j, "returned", job[j])
    <2>1. /\ Follows("start", "returned") /\ "returned" \in Pcs /\ "start" \notin Holding
          /\ "start" \notin {"submit", "wait", "join"}
      BY DEF Follows, Edges, Pcs, Holding
    <2>2. QED
      BY <1>1, <1>4, <2>1, JobOf, LocalMove
  <1>5. QED
    BY <1>3, <1>4, Zenon DEF Stat

\* The upload reads its file for its checksums.
LEMMA LocalCRCsKeeps ==
    ASSUME UploadsInv, NEW j \in Jobs, LocalCRCs(j)
    PROVE  UploadsInv'
  <1>1. phase = "running" /\ job[j].pc = "crcs" /\ Local
    BY Zenon DEF LocalCRCs, At, Local
  <1>2. job[j] \in JobRecords /\ source[j] \in Data /\ KindSound(j) /\ kind[j] \in Kinds
    BY JobOf DEF JobSound
  <1>3. kind[j] = "diff_upload"
    BY <1>1, <1>2 DEF KindSound, CopyPcs, DiffPcs, Kinds
  <1> DEFINE data == source[j]
             r == [job[j] EXCEPT !.local = data]
  <1>4. CASE data # <<>> /\ Goto(j, "head", r)
    <2>1. "crcs" \in Early /\ data \in Data
      BY <1>2 DEF Early
    <2> HIDE DEF data
    <2>2. /\ r \in JobRecords /\ SameWork(r, job[j]) /\ r.success = job[j].success
          /\ r.crcs = job[j].crcs /\ r.local = data /\ r.ids = job[j].ids
      BY <1>2, <2>1, NotedLocal, Zenon
    <2> HIDE DEF r
    <2>3. QED
      BY <1>1, <1>3, <1>4, <2>1, <2>2, UploadBegins
  <1>5. CASE Goto(j, "returned", job[j])
    <2>1. /\ Follows("crcs", "returned") /\ "returned" \in Pcs /\ "crcs" \notin Holding
          /\ "crcs" \notin {"submit", "wait", "join"}
      BY DEF Follows, Edges, Pcs, Holding
    <2>2. QED
      BY <1>1, <1>5, <2>1, JobOf, LocalMove
  <1>6. QED
    BY <1>4, <1>5, Zenon DEF LocalCRCs

-----------------------------------------------------------------------------
(* The steps of a job that create or abort its upload.                     *)

\* The upload of a job, before its id is known and after.
LEMMA UploadRecord ==
    ASSUME NEW j \in Jobs, NEW registers \in BOOLEAN
    PROVE  /\ IsUpload(Upload(j, registers), Upload(j, registers), "open", NoSums, 0)
           /\ Upload(j, registers).owner = j /\ ~Upload(j, registers).known
           /\ Upload(j, registers).registers = registers
           /\ LET y == [Upload(j, registers) EXCEPT !.known = TRUE]
              IN  y \in UploadRecords /\ y.owner = j /\ y.registers = registers
  <1> DEFINE x == Upload(j, registers)
  <1>1. /\ x \in UploadRecords /\ x.owner = j /\ x.known = FALSE /\ x.registers = registers
        /\ x.state = "open" /\ x.parts = NoSums /\ x.aborts = 0
    BY NoSumsFacts DEF Upload, UploadRecords
  <1> HIDE DEF x
  <1>2. LET y == [x EXCEPT !.known = TRUE]
        IN  y \in UploadRecords /\ y.owner = j /\ y.registers = registers
    BY <1>1 DEF UploadRecords
  <1>3. QED
    BY <1>1, <1>2, Zenon DEF IsUpload, x

\* A new upload that its owner registers is registered, and in its hands.
LEMMA CreatedRegistry ==
    ASSUME Registry, UploadTypes, phase = "running", phase' = "running",
           NEW y \in UploadRecords, uploads' = Append(uploads, y), registered \subseteq registered',
           \A u : Held(u) => Held(u)',
           \A n : n = Len(uploads) + 1 /\ y.known /\ y.registers => n \in registered' /\ Held(n)'
    PROVE  Registry'
  <1>1. /\ DOMAIN uploads' = DOMAIN uploads \cup {Len(uploads) + 1}
        /\ uploads'[Len(uploads) + 1] = y
        /\ \A v \in DOMAIN uploads : uploads'[v] = uploads[v]
    BY NewUpload
  <1> SUFFICES ASSUME NEW u \in DOMAIN uploads', Pending(u)'
               PROVE  u \in registered' /\ (uploads'[u].aborts >= 1 \/ Held(u)')
    BY Zenon DEF Registry
  <1>2. CASE u = Len(uploads) + 1
    <2>1. uploads'[u].registers /\ uploads'[u].known
      BY <1>2, Zenon DEF Pending
    <2>2. uploads'[u] = y
      BY <1>1, <1>2, Zenon
    <2>3. QED
      BY <1>2, <2>1, <2>2, Zenon
  <1>3. CASE u \in DOMAIN uploads
    <2>1. Pending(u)
      BY <1>1, <1>3, Zenon DEF Pending, IsOpen
    <2>2. u \in registered /\ (uploads[u].aborts >= 1 \/ Held(u))
      BY <1>3, <2>1, Zenon DEF Registry
    <2>3. QED
      BY <1>1, <1>3, <2>2, Zenon
  <1>4. QED
    BY <1>1, <1>2, <1>3, Zenon

\* The record of a job with a new upload.
LEMMA CreatedFields ==
    ASSUME NEW r \in JobRecords, NEW u \in Nat
    PROVE  LET q == [r EXCEPT !.upload = u, !.part = 1, !.attempt = 0]
           IN  /\ q \in JobRecords /\ SameWork(q, r) /\ q.upload = u /\ q.part = 1
               /\ q.size = r.size /\ q.local = r.local /\ q.remote = r.remote /\ q.ids = r.ids
               /\ q.crcs = r.crcs /\ q.success = r.success /\ q.want = r.want
  <1> DEFINE q == [r EXCEPT !.upload = u, !.part = 1, !.attempt = 0]
  <1>1. q \in JobRecords /\ SameWork(q, r) /\ q.upload = u /\ q.part = 1
    <2> DEFINE x == [r EXCEPT !.upload = u, !.part = 1]
    <2>1. x \in JobRecords
      <3> DEFINE y == [r EXCEPT !.upload = u]
      <3>1. y \in JobRecords
        BY DEF JobRecords
      <3>2. x = [y EXCEPT !.part = 1]
        BY Zenon
      <3> HIDE DEF y, x
      <3>3. [y EXCEPT !.part = 1] \in JobRecords
        <4>1. ASSUME NEW n, n \in Nat \ {0} PROVE [y EXCEPT !.part = n] \in JobRecords
          BY <3>1, <4>1 DEF JobRecords
        <4>2. 1 \in Nat \ {0}
          OBVIOUS
        <4>3. QED
          BY <4>1, <4>2, Zenon
      <3>4. QED
        BY <3>2, <3>3, Zenon
    <2>2. SameWork(x, r)
      BY DEF JobRecords, SameWork
    <2>3. x.upload = u /\ x.part = 1
      BY DEF JobRecords
    <2>4. q = [x EXCEPT !.attempt = 0]
      BY Zenon
    <2> HIDE DEF x, q
    <2>5. q \in JobRecords /\ SameData(q, x) /\ SameWork(q, x)
      BY <2>1, <2>4, ControlFields
    <2>6. QED
      BY <2>2, <2>3, <2>5, Zenon DEF SameData, SameWork
  <1>2. q.size = r.size /\ q.local = r.local /\ q.remote = r.remote /\ q.ids = r.ids
    BY DEF JobRecords
  <1>3. q.crcs = r.crcs /\ q.success = r.success /\ q.want = r.want
    BY DEF JobRecords
  <1>4. QED
    BY <1>1, <1>2, <1>3, Zenon

\* What a request to create an upload does to its job.
LEMMA CreatedMove ==
    ASSUME UploadsInv, NEW j \in Jobs, NEW registers \in BOOLEAN, NEW a \in Pcs, NEW b \in Pcs,
           CreateMultipartUpload(j, registers, a, b)
    PROVE  /\ JobTypes' /\ SameWork(job'[j], job[j])
           /\ \A k \in Jobs : k # j => job'[k] = job[k]
           /\ job'[j].size = job[j].size /\ job'[j].local = job[j].local
           /\ job'[j].remote = job[j].remote /\ job'[j].ids = job[j].ids
           /\ job'[j].crcs = job[j].crcs /\ job'[j].success = job[j].success
           /\ \/ /\ job'[j].pc = a /\ job'[j].upload = Len(uploads) + 1 /\ job'[j].part = 1
                 /\ uploads' = Append(uploads, [Upload(j, registers) EXCEPT !.known = TRUE])
                 /\ registered' = IF registers THEN registered \cup {Len(uploads) + 1}
                                               ELSE registered
              \/ /\ job'[j].pc = b /\ UNCHANGED registered
                 /\ uploads' = Append(uploads, Upload(j, registers)) \/ UNCHANGED uploads
  <1> DEFINE u == Len(uploads) + 1
             q == [job[j] EXCEPT !.upload = u, !.part = 1, !.attempt = 0]
  <1>1. job[j] \in JobRecords /\ JobTypes
    BY JobOf, Zenon DEF UploadsInv, UploadsTyped
  <1>2. u \in Nat
    BY LenProperties DEF UploadsInv, UploadsTyped, UploadTypes
  <1>3. CASE /\ uploads' = Append(uploads, [Upload(j, registers) EXCEPT !.known = TRUE])
             /\ registered' = IF registers THEN registered \cup {u} ELSE registered
             /\ Goto(j, a, q)
    <2> HIDE DEF u
    <2>1. /\ q \in JobRecords /\ SameWork(q, job[j]) /\ q.upload = u /\ q.part = 1
          /\ q.size = job[j].size /\ q.local = job[j].local /\ q.remote = job[j].remote
          /\ q.ids = job[j].ids /\ q.crcs = job[j].crcs /\ q.success = job[j].success
          /\ q.want = job[j].want
      BY <1>1, <1>2, CreatedFields, Zenon
    <2> HIDE DEF q
    <2>2. /\ JobTypes' /\ job'[j].pc = a /\ SameData(job'[j], q) /\ SameWork(job'[j], q)
          /\ \A k \in Jobs : k # j => job'[k] = job[k]
      BY <1>1, <1>3, <2>1, GotoFacts, Zenon
    <2>3. /\ job'[j].size = job[j].size /\ job'[j].local = job[j].local
          /\ job'[j].remote = job[j].remote /\ job'[j].ids = job[j].ids
          /\ job'[j].crcs = job[j].crcs /\ job'[j].success = job[j].success
          /\ job'[j].upload = u /\ job'[j].part = 1 /\ SameWork(job'[j], job[j])
      BY <2>1, <2>2, Zenon DEF SameData, SameWork
    <2>4. QED
      BY <1>3, <2>2, <2>3, Zenon DEF u
  <1>4. CASE /\ Goto(j, b, job[j]) /\ UNCHANGED registered
             /\ uploads' = Append(uploads, Upload(j, registers)) \/ UNCHANGED uploads
    <2>1. /\ JobTypes' /\ job'[j].pc = b /\ SameData(job'[j], job[j]) /\ SameWork(job'[j], job[j])
          /\ \A k \in Jobs : k # j => job'[k] = job[k]
      BY <1>1, <1>4, GotoFacts, Zenon
    <2>2. QED
      BY <1>4, <2>1, Zenon DEF SameData
  <1>5. QED
    BY <1>3, <1>4, Zenon DEF CreateMultipartUpload

\* A request to create an upload keeps the invariant.
LEMMA CreateKeeps ==
    ASSUME UploadsInv, NEW j \in Jobs, phase = "running", NEW registers \in BOOLEAN,
           UNCHANGED <<source, object, was, commandVars, left, otherVars>>,
           job[j].pc \in {"hash_check", "copy", "decide"},
           NEW a \in {"submit", "launch", "part", "open"},
           NEW b \in {"decide", "returned", "again"},
           CreateMultipartUpload(j, registers, a, b),
           a \in FanOut => /\ chunk_request_is_valid(job[j].ids, job[j].remote)
                           /\ job[j].crcs = <<>>,
           KindSound(j)', SizesSound(j)'
    PROVE  UploadsInv'
  <1>1. /\ UNCHANGED <<source, object, was, phase, to_abort, left, kind, touched>>
    BY Zenon DEF commandVars, otherVars
  <1>2. /\ a \in Pcs /\ b \in Pcs /\ a \in Holding /\ b \notin Holding /\ b \in Afterwards
        /\ b \notin FanOut /\ b \notin {"open", "part"} /\ a # "returned"
        /\ a \notin FanOut => a \in Afterwards
        /\ job[j].pc \notin Holding /\ job[j].pc \notin {"submit", "wait", "join"}
        /\ job[j].pc # "returned"
    BY DEF Pcs, Holding, Afterwards, FanOut
  <1>3. /\ JobTypes' /\ SameWork(job'[j], job[j])
        /\ \A k \in Jobs : k # j => job'[k] = job[k]
        /\ job'[j].size = job[j].size /\ job'[j].local = job[j].local
        /\ job'[j].remote = job[j].remote /\ job'[j].ids = job[j].ids
        /\ job'[j].crcs = job[j].crcs /\ job'[j].success = job[j].success
    BY <1>2, CreatedMove, Zenon
  <1> DEFINE n == Len(uploads) + 1
             y == [Upload(j, registers) EXCEPT !.known = TRUE]
             x == Upload(j, registers)
  <1>4. \/ /\ job'[j].pc = a /\ job'[j].upload = n /\ job'[j].part = 1
           /\ uploads' = Append(uploads, y)
           /\ registered' = IF registers THEN registered \cup {n} ELSE registered
        \/ /\ job'[j].pc = b /\ UNCHANGED registered
           /\ uploads' = Append(uploads, x) \/ UNCHANGED uploads
    BY <1>2, CreatedMove, Zenon
  <1>5. /\ UploadTypes /\ registered \subseteq DOMAIN uploads /\ to_abort \subseteq DOMAIN uploads
        /\ JobSound(j) /\ Registry
    BY JobOf, Zenon DEF UploadsInv, UploadsTyped, RegistryTypes
  <1>6. /\ x \in UploadRecords /\ ~x.known
        /\ y \in UploadRecords /\ y.owner = j /\ y.registers = registers
    BY UploadRecord, Zenon DEF IsUpload
  <1> HIDE DEF x, y
  <1>7. \A u : Held(u) => Held(u)'
    BY <1>2, <1>3, HeldStays
  <1>8. SumsHonest(j)' /\ BusyBelongs(j)'
    <2>1. Busy(j) = {} /\ SumsHonest(j)
      BY <1>2, <1>5, Zenon DEF JobSound, BusyBelongs, HashSound
    <2>2. Busy(j)' = Busy(j)
      BY <1>3, Zenon DEF Busy, SameWork
    <2>3. BusyBelongs(j)'
      BY <2>1, <2>2, Zenon DEF BusyBelongs
    <2>4. SumsHonest(j)'
      BY <1>1, <1>3, <2>1, Zenon DEF SumsHonest, SameWork
    <2>5. QED
      BY <2>3, <2>4
  <1>9. HashSound(j)'
    <2>1. AskedFor(job'[j]) = AskedFor(job[j])
      BY <1>3, Zenon DEF AskedFor
    <2>2. Honest(j)'
      BY <1>1, <1>3, <1>5, <2>1, Zenon DEF JobSound, HashSound, Honest
    <2>3. job'[j].crcs # <<>> => job'[j].pc \in Afterwards
      BY <1>2, <1>3, <1>4, Zenon
    <2>4. job'[j].pc \in FanOut => chunk_request_is_valid(job'[j].ids, job'[j].remote)
      BY <1>2, <1>3, <1>4, Zenon
    <2>5. QED
      BY <1>8, <2>2, <2>3, <2>4, Zenon DEF HashSound
  <1>10. SuccessSound(j)'
    BY <1>2, <1>3, NotYet, Zenon DEF SuccessSound
  <1>11. PartsSound(j)'
    <2>1. job'[j].pc \in {"open", "part"} => job'[j].part = 1
      BY <1>2, <1>4, Zenon
    <2>2. 1..(1 - 1) = {}
      OBVIOUS
    <2>3. QED
      BY <2>1, <2>2 DEF PartsSound
  <1>12. UploadTypes' /\ UploadsGrow /\ \A v \in DOMAIN uploads : PartsKept(v)
    BY <1>4, <1>5, <1>6, NewUpload, UploadsStay, Zenon
  <1>13. Registry' /\ RegistryTypes' /\ Owned(j)'
    <2>1. CASE /\ job'[j].pc = a /\ job'[j].upload = n
               /\ uploads' = Append(uploads, y)
               /\ registered' = IF registers THEN registered \cup {n} ELSE registered
      <3>1. DOMAIN uploads' = DOMAIN uploads \cup {n} /\ uploads'[n] = y
        BY <1>5, <1>6, <2>1, NewUpload, Zenon
      <3>2. \A u : u = n => Held(u)'
        BY <1>2, <2>1, Zenon DEF Held
      <3>3. registered \subseteq registered' /\ (registers => n \in registered')
        BY <2>1
      <3>4. Registry'
        BY <1>1, <1>5, <1>6, <1>7, <2>1, <3>2, <3>3, CreatedRegistry, Zenon
      <3>5. RegistryTypes'
        BY <1>1, <1>5, <2>1, <3>1 DEF RegistryTypes
      <3>6. Owned(j)'
        BY <1>6, <2>1, <3>1, Zenon DEF Owned
      <3>7. QED
        BY <3>4, <3>5, <3>6
    <2>2. CASE job'[j].pc = b /\ UNCHANGED registered /\ uploads' = Append(uploads, x)
      <3>1. DOMAIN uploads' = DOMAIN uploads \cup {n}
        BY <1>5, <1>6, <2>2, NewUpload, Zenon
      <3>2. Registry'
        BY <1>1, <1>5, <1>6, <1>7, <2>2, CreatedRegistry, Zenon
      <3>3. RegistryTypes'
        BY <1>1, <1>5, <2>2, <3>1 DEF RegistryTypes
      <3>4. Owned(j)'
        BY <1>2, <2>2, Zenon DEF Owned
      <3>5. QED
        BY <3>2, <3>3, <3>4
    <2>3. CASE job'[j].pc = b /\ UNCHANGED <<registered, uploads>>
      <3>1. DOMAIN uploads' = DOMAIN uploads /\ UploadTypes' /\ UploadsGrow
        BY <1>5, <2>3, UploadsStay, Zenon
      <3>2. Registry'
        BY <1>1, <1>5, <1>7, <2>3, <3>1, RegistryKeeps, Zenon
      <3>3. RegistryTypes'
        BY <1>1, <1>5, <2>3, <3>1, Zenon DEF RegistryTypes
      <3>4. Owned(j)'
        BY <1>2, <2>3, Zenon DEF Owned
      <3>5. QED
        BY <3>2, <3>3, <3>4
    <2>4. QED
      BY <1>4, <2>1, <2>2, <2>3, Zenon
  <1>14. JobSound(j)'
    BY <1>8, <1>9, <1>10, <1>11, <1>13, Zenon DEF JobSound
  <1>15. UploadsTyped'
    BY <1>1, <1>3, <1>12, <1>13, Zenon DEF UploadsInv, UploadsTyped, DataTypes, PhaseTypes,
       LeftTypes
  <1>16. UNCHANGED <<commandVars, left, otherVars>>
    BY Zenon
  <1>17. QED
    BY <1>1, <1>3, <1>12, <1>13, <1>14, <1>15, <1>16, JobStepKeeps, Zenon

\* What is known of the object at the check of the request stays known.
LEMMA CheckedSound ==
    ASSUME UploadsInv, NEW j \in Jobs, job[j].pc = "hash_check",
           job'[j].pc \in {"submit", "launch", AfterHashes(j)},
           job'[j].local = job[j].local /\ job'[j].remote = job[j].remote,
           job'[j].ids = job[j].ids,
           UNCHANGED <<object, was, kind, touched>>
    PROVE  KindSound(j)' /\ SizesSound(j)'
  <1>1. KindSound(j) /\ SizesSound(j) /\ kind[j] \in Kinds
    BY JobOf, Zenon DEF JobSound
  <1>2. kind[j] # "copy"
    BY <1>1 DEF KindSound, CopyPcs
  <1>3. kind[j] = "diff_upload" => job[j].ids = <<>> /\ job[j].local # <<>>
    BY <1>1 DEF KindSound
  <1>4. kind[j] = "hashes" => job'[j].pc \in {"submit", "launch", "returned"}
    BY DEF AfterHashes
  <1>5. kind[j] # "hashes" => job'[j].pc \in {"submit", "launch", "decide"}
    BY DEF AfterHashes
  <1>6. KindSound(j)'
    BY <1>1, <1>2, <1>3, <1>4, <1>5 DEF KindSound, DiffPcs, Kinds
  <1>7. "hash_check" \in Unwritten /\ "hash_check" \in {"hash_check"} \cup FanOut
    BY DEF Unwritten
  <1>8. ~touched[j] => was[j] = {object[j]} /\ job[j].remote = Len(object[j])
    BY <1>1, <1>2, <1>7, Zenon DEF SizesSound
  <1>9. SizesSound(j)'
    BY <1>2, <1>8, Zenon DEF SizesSound
  <1>10. QED
    BY <1>6, <1>9

\* The checksum of the one chunk of an object answers the request.
LEMMA SingleHonest ==
    ASSUME UploadsInv, NEW j \in Jobs, job[j].remote = 1, object[j] # <<>>,
           chunk_request_is_valid(job[j].ids, job[j].remote),
           NEW crcs, crcs = IF job[j].ids = <<>> THEN <<object[j][1]>>
                            ELSE [i \in DOMAIN job[j].ids |-> object[j][1]]
    PROVE  /\ crcs \in Seq(Cells)
           /\ Len(crcs) = Len(AskedFor(job[j]))
           /\ \A i \in DOMAIN AskedFor(job[j]) :
                 /\ AskedFor(job[j])[i] \in DOMAIN object[j]
                 /\ crcs[i] = object[j][AskedFor(job[j])[i]]
  <1>1. /\ object[j] \in Seq(Cells) /\ DOMAIN object[j] = 1..Len(object[j])
        /\ Len(object[j]) \in 0..MaxChunks /\ \A c \in DOMAIN object[j] : object[j][c] \in Cells
    <2>1. object[j] \in Data
      BY JobOf
    <2>2. QED
      BY <2>1, DataLength, Zenon
  <1>2. 1 \in DOMAIN object[j] /\ object[j][1] \in Cells
    <2>1. Len(object[j]) # 0
      BY <1>1, EmptySeq
    <2>2. QED
      BY <1>1, <2>1
  <1>3. CASE job[j].ids = <<>>
    <2>1. crcs = <<object[j][1]>> /\ AskedFor(job[j]) = [c \in 1..1 |-> c]
      BY <1>3, Zenon DEF AskedFor
    <2>2. QED
      BY <1>2, <2>1
  <1>4. CASE job[j].ids # <<>>
    <2>1. crcs = [i \in DOMAIN job[j].ids |-> object[j][1]] /\ AskedFor(job[j]) = job[j].ids
      BY <1>4, Zenon DEF AskedFor
    <2>2. job[j].ids \in Seq(Nat)
      <3>1. job[j].ids \in Requests
        BY JobOf, JobFields, Zenon
      <3>2. <<2, 1, 2>> \in Seq(Nat) /\ <<MaxChunks + 1>> \in Seq(Nat) /\ <<>> \in Seq(Nat)
        BY UploadsAssumption
      <3>3. QED
        BY <3>1, <3>2, Zenon DEF Requests
    <2>3. DOMAIN job[j].ids = 1..Len(job[j].ids) /\ Len(job[j].ids) \in Nat
      BY <2>2, LenProperties
    <2>4. \A i \in DOMAIN job[j].ids : job[j].ids[i] = 1
      BY DEF chunk_request_is_valid
    <2>5. crcs \in Seq(Cells) /\ Len(crcs) = Len(job[j].ids)
      BY <1>2, <2>1, <2>3, IsASeq
    <2>6. QED
      BY <1>2, <2>1, <2>4, <2>5
  <1>5. QED
    BY <1>3, <1>4

\* GetHashes refuses the request, answers it, or creates its upload.
LEMMA GetChunkCRC32sKeeps ==
    ASSUME UploadsInv, NEW j \in Jobs, GetChunkCRC32s(j)
    PROVE  UploadsInv'
  <1>1. phase = "running" /\ job[j].pc = "hash_check"
        /\ UNCHANGED <<source, object, was, commandVars, left, otherVars>>
    BY Zenon DEF GetChunkCRC32s, At
  <1>2. UNCHANGED <<object, was, kind, touched>>
    BY <1>1, Zenon DEF otherVars
  <1> DEFINE b == AfterHashes(j)
             crcs == IF job[j].ids = <<>> THEN <<object[j][1]>>
                     ELSE [i \in DOMAIN job[j].ids |-> object[j][1]]
             r == [job[j] EXCEPT !.crcs = crcs]
             valid == chunk_request_is_valid(job[j].ids, job[j].remote)
  <1>3. b \in {"returned", "decide"} /\ (b = "decide" => kind[j] # "hashes") /\ b \in Pcs
        /\ b \notin Holding /\ b \in Afterwards /\ b \notin FanOut /\ b # "again"
    BY DEF AfterHashes, Pcs, Holding, Afterwards, FanOut
  <1>4. \/ UNCHANGED <<uploads, registered>> /\ Goto(j, b, job[j])
        \/ /\ valid /\ job[j].remote = 1 /\ object[j] # <<>> /\ Goto(j, b, r)
           /\ UNCHANGED <<uploads, registered>>
        \/ /\ valid
           /\ CreateMultipartUpload(j, TRUE, IF job[j].pool THEN "submit" ELSE "launch", b)
    BY Zenon DEF GetChunkCRC32s
  <1>5. job[j] \in JobRecords /\ JobSound(j) /\ job[j].crcs = <<>>
    <2>1. "hash_check" \in Early
      BY DEF Early
    <2>2. QED
      BY <1>1, <2>1, EarlyFacts, JobOf, Zenon
  <1> HIDE DEF b, crcs, r
  <1>6. CASE UNCHANGED <<uploads, registered>> /\ Goto(j, b, job[j])
    <2>1. Local
      BY <1>1, <1>6, Zenon DEF Local, bucketVars
    <2>2. /\ Follows("hash_check", b) /\ "hash_check" \notin Holding
          /\ "hash_check" \notin {"submit", "wait", "join"}
      BY <1>3 DEF Follows, Edges, Holding
    <2>3. QED
      BY <1>1, <1>3, <1>6, <2>1, <2>2, JobOf, LocalMove
  <1>7. CASE /\ valid /\ job[j].remote = 1 /\ object[j] # <<>> /\ Goto(j, b, r)
             /\ UNCHANGED <<uploads, registered>>
    <2>1. Local
      BY <1>1, <1>7, Zenon DEF Local, bucketVars
    <2>2. /\ crcs \in Seq(Cells) /\ Len(crcs) = Len(AskedFor(job[j]))
          /\ \A i \in DOMAIN AskedFor(job[j]) :
                /\ AskedFor(job[j])[i] \in DOMAIN object[j]
                /\ crcs[i] = object[j][AskedFor(job[j])[i]]
      BY <1>7, SingleHonest, Zenon DEF crcs
    <2>3. r \in JobRecords /\ SameWork(r, job[j]) /\ r.crcs = crcs
      BY <1>5, <2>2 DEF r, JobRecords, SameWork
    <2>4. /\ r.size = job[j].size /\ r.local = job[j].local /\ r.remote = job[j].remote
          /\ r.ids = job[j].ids /\ r.success = job[j].success
      BY <1>5 DEF r, JobRecords
    <2>5. /\ JobTypes' /\ job'[j].pc = b /\ SameData(job'[j], r) /\ SameWork(job'[j], r)
          /\ \A k \in Jobs : k # j => job'[k] = job[k]
      BY <1>3, <1>7, <2>3, GotoFacts, Zenon DEF UploadsInv, UploadsTyped
    <2>6. /\ job'[j].crcs = crcs /\ job'[j].local = job[j].local
          /\ job'[j].remote = job[j].remote /\ job'[j].ids = job[j].ids
          /\ job'[j].success = job[j].success /\ SameWork(job'[j], job[j])
      BY <2>3, <2>4, <2>5, Zenon DEF SameData, SameWork
    <2>7. KindSound(j)' /\ SizesSound(j)'
      BY <1>1, <1>2, <2>5, <2>6, CheckedSound, Zenon DEF b
    <2>8. BusyBelongs(j)' /\ SumsHonest(j)'
      <3>1. job[j].pc \notin {"submit", "wait", "join"} /\ was[j] \subseteq was'[j]
        BY <1>1, <1>2
      <3>2. QED
        BY <1>5, <2>6, <3>1, WorkStays, Zenon
    <2>9. Honest(j)'
      <3>1. AskedFor(job'[j]) = AskedFor(job[j])
        BY <2>6, Zenon DEF AskedFor
      <3>2. object[j] \in was'[j]
        BY <1>2, JobOf, Zenon
      <3>3. QED
        BY <2>2, <2>6, <3>1, <3>2, Zenon DEF Honest
    <2>10. HashSound(j)'
      BY <1>3, <2>5, <2>8, <2>9, Zenon DEF HashSound
    <2>11. Owned(j)'
      BY <1>3, <2>5, Zenon DEF Owned
    <2>12. PartsSound(j)' /\ SuccessSound(j)'
      <3>1. ~job'[j].success /\ job'[j].pc \notin {"open", "part"}
        BY <1>1, <1>3, <2>5, <2>6, NotYet
      <3>2. QED
        BY <3>1, PlainJob, Zenon
    <2>13. JobSound(j)'
      BY <2>7, <2>8, <2>10, <2>11, <2>12, Zenon DEF JobSound
    <2>14. "hash_check" \notin Holding
      BY DEF Holding
    <2>15. QED
      BY <1>1, <2>1, <2>5, <2>13, <2>14, LocalKeeps, Zenon
  <1>8. ASSUME valid, NEW a \in {"submit", "launch"}, CreateMultipartUpload(j, TRUE, a, b)
        PROVE  UploadsInv'
    <2>1. a \in Pcs /\ TRUE \in BOOLEAN
      BY DEF Pcs
    <2>2. /\ job'[j].local = job[j].local /\ job'[j].remote = job[j].remote
          /\ job'[j].ids = job[j].ids /\ job'[j].pc \in {a, b}
      BY <1>3, <1>8, <2>1, CreatedMove
    <2>3. KindSound(j)' /\ SizesSound(j)'
      <3>1. job'[j].pc \in {"submit", "launch", AfterHashes(j)}
        BY <2>2 DEF b
      <3>2. QED
        BY <1>1, <1>2, <2>2, <3>1, CheckedSound
    <2>4. /\ a \in {"submit", "launch", "part", "open"} /\ b \in {"decide", "returned", "again"}
          /\ job[j].pc \in {"hash_check", "copy", "decide"}
      BY <1>1, <1>3
    <2>5. QED
      BY <1>1, <1>5, <1>8, <2>1, <2>3, <2>4, CreateKeeps, Zenon
  <1>9. QED
    BY <1>4, <1>6, <1>7, <1>8, Zenon

\* The request of a job to abort its upload keeps the invariant: the upload is
\* closed, or stays in the registry with one failure more.
LEMMA AbortRequestKeeps ==
    ASSUME UploadsInv, NEW j \in Jobs, phase = "running",
           UNCHANGED <<source, object, was, commandVars, left, otherVars>>,
           job[j].pc \in {"hash_abort", "abort"}, NEW next \in Pcs, next \notin Holding,
           Follows(job[j].pc, next), next = "again" => kind[j] = "copy",
           next = "decide" => kind[j] # "hashes",
           AbortMultipartUpload(j, next)
    PROVE  UploadsInv'
  <1>1. UNCHANGED <<source, object, was, phase, to_abort, left, kind, touched>>
    BY Zenon DEF commandVars, otherVars
  <1>2. PICK ok \in BOOLEAN : /\ AbortAnswer(job[j].upload, ok)
                              /\ registered' = Released(job[j].upload, ok)
                              /\ Goto(j, next, job[j])
    BY Zenon DEF AbortMultipartUpload
  <1>3. /\ job[j].pc \in Holding /\ job[j].pc \notin {"submit", "wait", "join"}
    BY DEF Holding
  <1>4. /\ JobSound(j) /\ job[j] \in JobRecords /\ JobTypes /\ UploadTypes /\ Registry
        /\ registered \subseteq DOMAIN uploads /\ to_abort \subseteq DOMAIN uploads
    BY JobOf, Zenon DEF UploadsInv, UploadsTyped, RegistryTypes
  <1>5. PICK u \in DOMAIN uploads : u = job[j].upload
    BY <1>3, <1>4, Zenon DEF JobSound, Owned
  <1>6. /\ AbortAnswer(u, ok) /\ registered' = IF ok THEN registered \ {u} ELSE registered
    BY <1>2, <1>5, Zenon DEF Released
  <1>7. /\ UploadTypes' /\ DOMAIN uploads' = DOMAIN uploads
        /\ UploadsGrow /\ \A v \in DOMAIN uploads : PartsKept(v)
        /\ IsOpen(u)' => ~ok /\ uploads'[u].aborts = uploads[u].aborts + 1
    BY <1>2, <1>4, <1>6, AbortFacts
  <1>8. /\ JobTypes' /\ job'[j].pc = next /\ SameData(job'[j], job[j])
        /\ SameWork(job'[j], job[j]) /\ \A k \in Jobs : k # j => job'[k] = job[k]
    BY <1>2, <1>4, GotoFacts, Zenon
  <1>9. ASSUME NEW v \in DOMAIN uploads, IsOpen(v)'
        PROVE  /\ v \in registered => v \in registered'
               /\ Held(v) => uploads'[v].aborts >= 1 \/ Held(v)'
    <2>1. CASE v = u
      <3>1. uploads[u].aborts \in Nat
        BY <1>4, AbortsNow, Zenon DEF AbortsCounted
      <3>2. ~ok /\ uploads'[u].aborts = uploads[u].aborts + 1
        BY <1>7, <1>9, <2>1, Zenon
      <3>3. uploads'[u].aborts >= 1
        BY <3>1, <3>2
      <3>4. QED
        BY <1>6, <2>1, <3>2, <3>3, Zenon
    <2>2. CASE v # u
      <3>1. v \in registered => v \in registered'
        BY <1>6, <2>2
      <3>2. Held(v) => Held(v)'
        BY <1>5, <1>8, <2>2, Zenon DEF Held
      <3>3. QED
        BY <3>1, <3>2
    <2>3. QED
      BY <2>1, <2>2
  <1>10. Registry'
    BY <1>1, <1>4, <1>7, <1>9, RegistryKeeps, Zenon
  <1>11. RegistryTypes'
    BY <1>1, <1>4, <1>6, <1>7 DEF RegistryTypes
  <1>12. UploadsTyped'
    BY <1>1, <1>7, <1>8, <1>11, Zenon DEF UploadsInv, UploadsTyped, DataTypes, PhaseTypes,
       LeftTypes
  <1>13. BusyBelongs(j)' /\ SumsHonest(j)'
    BY <1>1, <1>3, <1>4, <1>8, WorkStays, Zenon
  <1>14. JobSound(j)'
    <2>1. Follows(job[j].pc, job'[j].pc) /\ job'[j].pc # "part"
      BY <1>8 DEF Holding
    <2>2. was[j] \subseteq was'[j] /\ object'[j] = object[j] /\ was'[j] = was[j]
      BY <1>1
    <2>3. QED
      BY <1>1, <1>7, <1>8, <1>13, <2>1, <2>2, MoveKeeps, Zenon
  <1>15. UNCHANGED <<commandVars, left, otherVars>>
    BY Zenon
  <1>16. QED
    BY <1>1, <1>7, <1>8, <1>10, <1>12, <1>14, <1>15, JobStepKeeps, Zenon

\* GetHashes aborts its upload, and goes on with what it has found.
LEMMA HashAbortKeeps ==
    ASSUME UploadsInv, NEW j \in Jobs, HashAbort(j)
    PROVE  UploadsInv'
  <1>1. /\ phase = "running" /\ job[j].pc = "hash_abort"
        /\ UNCHANGED <<source, object, was, commandVars, left, otherVars>>
        /\ AbortMultipartUpload(j, AfterHashes(j))
    BY Zenon DEF HashAbort, At
  <1>2. PICK next \in {"decide", "returned"} :
           next = AfterHashes(j) /\ (next = "decide" => kind[j] # "hashes")
    BY DEF AfterHashes
  <1>3. /\ next \in Pcs /\ next \notin Holding /\ Follows("hash_abort", next)
        /\ next # "again"
    BY DEF Pcs, Holding, Follows, Edges
  <1>4. AbortMultipartUpload(j, next)
    BY <1>1, <1>2, Zenon
  <1>5. job[j].pc \in {"hash_abort", "abort"}
    BY <1>1
  <1>6. QED
    BY <1>1, <1>2, <1>3, <1>4, <1>5, AbortRequestKeeps, Zenon

\* A copy or an upload that has failed aborts its upload.
LEMMA AbortKeeps ==
    ASSUME UploadsInv, NEW j \in Jobs, Abort(j)
    PROVE  UploadsInv'
  <1>1. /\ phase = "running" /\ job[j].pc = "abort"
        /\ UNCHANGED <<source, object, was, commandVars, left, otherVars>>
        /\ AbortMultipartUpload(j, Fails(j))
    BY Zenon DEF Abort, At
  <1>2. PICK next \in {"again", "returned"} :
           next = Fails(j) /\ (next = "again" => kind[j] = "copy")
    BY DEF Fails
  <1>3. /\ next \in Pcs /\ next \notin Holding /\ Follows("abort", next)
        /\ next # "decide"
    BY DEF Pcs, Holding, Follows, Edges
  <1>4. AbortMultipartUpload(j, next)
    BY <1>1, <1>2, Zenon
  <1>5. job[j].pc \in {"hash_abort", "abort"}
    BY <1>1
  <1>6. QED
    BY <1>1, <1>2, <1>3, <1>4, <1>5, AbortRequestKeeps, Zenon

-----------------------------------------------------------------------------
(* The steps of a job that may write its destination.                      *)

\* The destination has other data, and has had what it had.
LEMMA SetObjectFacts ==
    ASSUME DataTypes, NEW j \in Jobs, NEW data \in Data, SetObject(j, data),
           UNCHANGED <<kind, touched, source>>
    PROVE  /\ DataTypes' /\ object'[j] = data /\ was'[j] = was[j] \cup {data}
           /\ \A k \in Jobs : k # j => object'[k] = object[k] /\ was'[k] = was[k]
  <1>1. /\ object \in [Jobs -> Data] /\ was \in [Jobs -> SUBSET Data]
        /\ \A k \in Jobs : object[k] \in was[k]
    BY Zenon DEF DataTypes
  <1>2. /\ object' = [object EXCEPT ![j] = data] /\ was' = [was EXCEPT ![j] = was[j] \cup {data}]
    BY Zenon DEF SetObject
  <1>3. /\ object' \in [Jobs -> Data] /\ object'[j] = data
        /\ \A k \in Jobs : k # j => object'[k] = object[k]
    BY <1>1, <1>2
  <1>4. /\ was' \in [Jobs -> SUBSET Data] /\ was'[j] = was[j] \cup {data}
        /\ \A k \in Jobs : k # j => was'[k] = was[k]
    BY <1>1, <1>2
  <1>5. \A k \in Jobs : object'[k] \in was'[k]
    BY <1>1, <1>3, <1>4
  <1>6. DataTypes'
    BY <1>3, <1>4, <1>5, Zenon DEF DataTypes
  <1>7. QED
    BY <1>3, <1>4, <1>6

\* A job without an upload, whose step leaves the uploads alone.
LEMMA WriteKeeps ==
    ASSUME UploadsInv, NEW j \in Jobs, phase = "running",
           UNCHANGED <<source, uploads, registered, commandVars, left, otherVars>>,
           JobTypes', DataTypes', job[j].pc \notin Holding,
           \A k \in Jobs : k # j => /\ job'[k] = job[k]
                                    /\ object'[k] = object[k] /\ was'[k] = was[k],
           JobSound(j)'
    PROVE  UploadsInv'
  <1>1. UNCHANGED <<phase, to_abort, left, kind, touched>>
    BY Zenon DEF commandVars, otherVars
  <1>2. /\ UploadTypes' /\ DOMAIN uploads' = DOMAIN uploads /\ UploadsGrow
        /\ \A u \in DOMAIN uploads : PartsKept(u)
    BY UploadsStay, Zenon DEF UploadsInv, UploadsTyped
  <1>3. UploadsTyped'
    BY <1>1, <1>2, Zenon DEF UploadsInv, UploadsTyped, RegistryTypes, PhaseTypes, LeftTypes
  <1>4. \A u : Held(u) => Held(u)'
    BY HeldStays, Zenon
  <1>5. Registry'
    BY <1>1, <1>2, <1>4, RegistryKeeps, Zenon DEF UploadsInv, UploadsTyped
  <1>6. UNCHANGED <<commandVars, left, otherVars>>
    BY Zenon
  <1>7. \A k \in Jobs : k # j => /\ job'[k] = job[k] /\ source'[k] = source[k]
                                 /\ object'[k] = object[k] /\ was'[k] = was[k]
    BY Zenon
  <1>8. QED
    BY <1>2, <1>3, <1>5, <1>6, <1>7, JobStepKeeps, Zenon

\* A job that succeeds.
LEMMA SucceedsFacts ==
    ASSUME UploadsInv, NEW j \in Jobs, NEW want \in Data, Succeeds(j, want)
    PROVE  /\ JobTypes' /\ \A k \in Jobs : k # j => job'[k] = job[k]
           /\ job'[j].pc = "returned" /\ job'[j].want = want /\ SameWork(job'[j], job[j])
           /\ job'[j].size = job[j].size /\ job'[j].local = job[j].local
           /\ job'[j].remote = job[j].remote /\ job'[j].ids = job[j].ids
           /\ job'[j].crcs = job[j].crcs
  <1> DEFINE r == [job[j] EXCEPT !.success = TRUE, !.want = want]
  <1>1. job[j] \in JobRecords /\ JobTypes /\ "returned" \in Pcs
    BY JobOf DEF UploadsInv, UploadsTyped, Pcs
  <1>2. r \in JobRecords /\ r.want = want /\ SameWork(r, job[j])
    BY <1>1 DEF JobRecords, SameWork
  <1>3. /\ r.size = job[j].size /\ r.local = job[j].local /\ r.remote = job[j].remote
        /\ r.ids = job[j].ids /\ r.crcs = job[j].crcs
    BY <1>1 DEF JobRecords
  <1>4. Goto(j, "returned", r)
    BY Zenon DEF Succeeds
  <1> HIDE DEF r
  <1>5. /\ JobTypes' /\ job'[j].pc = "returned" /\ SameData(job'[j], r) /\ SameWork(job'[j], r)
        /\ \A k \in Jobs : k # j => job'[k] = job[k]
    BY <1>1, <1>2, <1>4, GotoFacts, Zenon
  <1>6. QED
    BY <1>2, <1>3, <1>5, Zenon DEF SameData, SameWork

\* It is sound when the destination is what it promises.
LEMMA SuccessKeeps ==
    ASSUME UploadsInv, NEW j \in Jobs, NEW want \in Data, Succeeds(j, want),
           job[j].pc \notin {"submit", "wait", "join"}, was[j] \subseteq was'[j],
           UNCHANGED <<kind, touched>>,
           ~touched[j] /\ (kind[j] = "diff_upload" => Len(job[j].local) = job[j].size) =>
              object'[j] = want
    PROVE  JobSound(j)'
  <1>1. /\ job'[j].pc = "returned" /\ job'[j].want = want /\ SameWork(job'[j], job[j])
        /\ job'[j].size = job[j].size /\ job'[j].local = job[j].local
        /\ job'[j].remote = job[j].remote /\ job'[j].ids = job[j].ids
        /\ job'[j].crcs = job[j].crcs
    BY SucceedsFacts, Zenon
  <1>2. JobSound(j)
    BY JobOf
  <1>3. /\ "returned" \notin Holding /\ "returned" \in Afterwards /\ "returned" \notin FanOut
        /\ "returned" \in CopyPcs /\ "returned" \notin DiffPcs /\ "returned" \notin Unwritten
    BY DEF Holding, Afterwards, FanOut, CopyPcs, DiffPcs, Unwritten
  <1>4. BusyBelongs(j)' /\ SumsHonest(j)'
    BY <1>1, <1>2, WorkStays, Zenon
  <1>5. Honest(j)'
    <2>1. AskedFor(job'[j]) = AskedFor(job[j])
      BY <1>1, Zenon DEF AskedFor
    <2>2. QED
      BY <1>1, <1>2, <2>1, Zenon DEF JobSound, HashSound, Honest
  <1>6. HashSound(j)'
    BY <1>1, <1>3, <1>4, <1>5, Zenon DEF HashSound
  <1>7. Owned(j)'
    BY <1>1, <1>3, Zenon DEF Owned
  <1>8. KindSound(j)'
    <2>1. kind[j] = "diff_upload" => job[j].ids = <<>>
      BY <1>2, Zenon DEF JobSound, KindSound
    <2>2. QED
      BY <1>1, <1>3, <2>1 DEF KindSound
  <1>9. SizesSound(j)'
    BY <1>1, <1>3 DEF SizesSound
  <1>10. PartsSound(j)'
    BY <1>1 DEF PartsSound
  <1>11. SuccessSound(j)'
    BY <1>1, Zenon DEF SuccessSound
  <1>12. QED
    BY <1>4, <1>6, <1>7, <1>8, <1>9, <1>10, <1>11, Zenon DEF JobSound

\* A move of a job without an upload, which may have written the destination.
LEMMA WrittenMove ==
    ASSUME UploadsInv, NEW j \in Jobs, phase = "running",
           UNCHANGED <<source, uploads, registered, commandVars, left, otherVars>>,
           job[j].pc \notin Holding, NEW b \in Pcs, b # "part", NEW r \in JobRecords,
           Goto(j, b, r), SameData(r, job[j]), SameWork(r, job[j]), Follows(job[j].pc, b),
           b = "again" => kind[j] = "copy",
           job[j].pc \in {"hash_check", "hash_abort"} /\ b = "decide" => kind[j] # "hashes",
           DataTypes', was[j] \subseteq was'[j],
           \A k \in Jobs : k # j => object'[k] = object[k] /\ was'[k] = was[k],
           kind[j] = "copy" \/ b \notin Unwritten
    PROVE  UploadsInv'
  <1>1. /\ JobTypes' /\ job'[j].pc = b /\ SameData(job'[j], r) /\ SameWork(job'[j], r)
        /\ \A k \in Jobs : k # j => job'[k] = job[k]
    BY GotoFacts, Zenon DEF UploadsInv, UploadsTyped
  <1>2. SameData(job'[j], job[j]) /\ SameWork(job'[j], job[j])
    BY <1>1, Zenon DEF SameData, SameWork
  <1>3. UNCHANGED <<kind, touched, source>> /\ UploadsGrow
    BY UploadsStay, Zenon DEF otherVars, UploadsInv, UploadsTyped
  <1>4. BusyBelongs(j)' /\ SumsHonest(j)'
    <2>1. job[j].pc \notin {"submit", "wait", "join"}
      BY DEF Holding
    <2>2. QED
      BY <1>2, <2>1, JobOf, WorkStays, Zenon
  <1>5. JobSound(j)'
    BY <1>1, <1>2, <1>3, <1>4, MoveKeeps, Zenon
  <1>6. QED
    BY <1>1, <1>5, WriteKeeps, Zenon

\* A job that writes what it was given, or nothing.
LEMMA Written ==
    ASSUME UploadsInv, NEW j \in Jobs, UNCHANGED <<kind, touched, source>>,
           SetObject(j, source[j]) \/ UNCHANGED <<object, was>>
    PROVE  /\ DataTypes' /\ was[j] \subseteq was'[j]
           /\ \A k \in Jobs : k # j => object'[k] = object[k] /\ was'[k] = was[k]
           /\ SetObject(j, source[j]) => object'[j] = source[j]
  <1>1. DataTypes /\ source[j] \in Data
    BY JobOf, Zenon DEF UploadsInv, UploadsTyped
  <1>2. CASE SetObject(j, source[j])
    <2>1. /\ DataTypes' /\ object'[j] = source[j] /\ was'[j] = was[j] \cup {source[j]}
          /\ \A k \in Jobs : k # j => object'[k] = object[k] /\ was'[k] = was[k]
      BY <1>1, <1>2, SetObjectFacts, Zenon
    <2>2. QED
      BY <2>1
  <1>3. CASE UNCHANGED <<object, was>>
    <2>1. DataTypes'
      BY <1>1, <1>3, Zenon DEF DataTypes
    <2>2. SetObject(j, source[j]) => object'[j] = source[j]
      BY <1>1, SetObjectFacts, Zenon
    <2>3. QED
      BY <1>3, <2>1, <2>2, Zenon
  <1>4. QED
    BY <1>2, <1>3

\* The object is copied by one request, or the request fails.
LEMMA CopyObjectKeeps ==
    ASSUME UploadsInv, NEW j \in Jobs, CopyObject(j)
    PROVE  UploadsInv'
  <1>1. /\ phase = "running" /\ job[j].pc = "copy"
        /\ UNCHANGED <<source, commandVars, left, otherVars>>
    BY Zenon DEF CopyObject, At
  <1>2. UNCHANGED <<kind, touched, source>>
    BY <1>1, Zenon DEF otherVars
  <1>3. /\ KindSound(j) /\ SizesSound(j) /\ job[j] \in JobRecords /\ source[j] \in Data
    BY JobOf, Zenon DEF JobSound
  <1>4. kind[j] = "copy"
    BY <1>1, <1>3 DEF KindSound
  <1>5. /\ "copy" \notin Holding /\ "copy" \notin {"submit", "wait", "join"}
        /\ "copy" \in Pcs /\ "again" \in Pcs /\ "returned" \in Pcs
        /\ Follows("copy", "copy") /\ Follows("copy", "again") /\ Follows("copy", "returned")
    BY DEF Holding, Pcs, Follows, Edges
  <1>6. CASE Goto(j, "returned", job[j]) /\ UNCHANGED <<bucketVars, registered>>
    <2>1. Local
      BY <1>1, <1>6, Zenon DEF Local
    <2>2. QED
      BY <1>1, <1>5, <1>6, <2>1, JobOf, LocalMove
  <1>7. CASE /\ SetObject(j, source[j]) /\ Succeeds(j, source[j])
             /\ UNCHANGED <<uploads, registered>>
    <2>1. /\ DataTypes' /\ was[j] \subseteq was'[j] /\ object'[j] = source[j]
          /\ \A k \in Jobs : k # j => object'[k] = object[k] /\ was'[k] = was[k]
      BY <1>2, <1>7, Written, Zenon
    <2>2. JobSound(j)'
      BY <1>1, <1>2, <1>3, <1>5, <1>7, <2>1, SuccessKeeps, Zenon
    <2>3. JobTypes' /\ \A k \in Jobs : k # j => job'[k] = job[k]
      BY <1>3, <1>7, SucceedsFacts, Zenon
    <2>4. QED
      BY <1>1, <1>5, <1>7, <2>1, <2>2, <2>3, WriteKeeps, Zenon
  <1>8. CASE /\ SetObject(j, source[j]) \/ UNCHANGED <<object, was>>
             /\ UNCHANGED <<uploads, registered>>
             /\ \/ Goto(j, "again", job[j])
                \/ Goto(j, "copy", [job[j] EXCEPT !.attempt = @ + 1])
    <2>1. /\ DataTypes' /\ was[j] \subseteq was'[j]
          /\ \A k \in Jobs : k # j => object'[k] = object[k] /\ was'[k] = was[k]
      BY <1>2, <1>8, Written, Zenon
    <2> DEFINE r == [job[j] EXCEPT !.attempt = @ + 1]
    <2>2. r \in JobRecords /\ SameData(r, job[j]) /\ SameWork(r, job[j])
      <3>1. job[j].attempt + 1 \in Nat
        BY <1>3, CounterFields
      <3>2. QED
        BY <1>3, <3>1, ControlFields
    <2> HIDE DEF r
    <2>3. ASSUME NEW b \in {"again", "copy"}, NEW q \in JobRecords, Goto(j, b, q),
                 SameData(q, job[j]), SameWork(q, job[j])
          PROVE  UploadsInv'
      <3>1. b \in Pcs /\ Follows("copy", b) /\ b # "part"
        BY <1>5
      <3>2. job[j].pc \notin {"hash_check", "hash_abort"} /\ job[j].pc \notin Holding
        BY <1>1, <1>5
      <3>3. QED
        BY <1>1, <1>4, <1>8, <2>1, <2>3, <3>1, <3>2, WrittenMove, Zenon
    <2>4. SameData(job[j], job[j]) /\ SameWork(job[j], job[j])
      BY JobOf
    <2>5. Goto(j, "again", job[j]) \/ Goto(j, "copy", r)
      BY <1>8, Zenon DEF r
    <2>6. QED
      BY <1>3, <2>2, <2>3, <2>4, <2>5
  <1>9. CASE CreateMultipartUpload(j, TRUE, "part", "again") /\ UNCHANGED <<object, was>>
    <2>1. /\ job'[j].size = job[j].size /\ job'[j].pc \in {"part", "again"}
      <3>1. "part" \in Pcs /\ TRUE \in BOOLEAN
        BY DEF Pcs
      <3>2. QED
        BY <1>5, <1>9, <3>1, CreatedMove
    <2>2. KindSound(j)'
      BY <1>2, <1>4, <2>1 DEF KindSound, CopyPcs
    <2>3. SizesSound(j)'
      BY <1>1, <1>2, <1>3, <1>4, <2>1 DEF SizesSound
    <2>4. /\ "part" \in {"submit", "launch", "part", "open"}
          /\ "again" \in {"decide", "returned", "again"} /\ "part" \notin FanOut
          /\ job[j].pc \in {"hash_check", "copy", "decide"} /\ TRUE \in BOOLEAN
      BY <1>1 DEF FanOut
    <2>5. UNCHANGED <<source, object, was, commandVars, left, otherVars>>
      BY <1>1, <1>9, Zenon
    <2>6. QED
      BY <1>1, <1>9, <2>2, <2>3, <2>4, <2>5, CreateKeeps, Zenon
  <1>10. QED
    BY <1>6, <1>7, <1>8, <1>9, Zenon DEF CopyObject

\* A small file is put by one request, or the request fails.
LEMMA PutKeeps ==
    ASSUME UploadsInv, NEW j \in Jobs, Put(j)
    PROVE  UploadsInv'
  <1>1. /\ phase = "running" /\ job[j].pc = "put"
        /\ UNCHANGED <<source, uploads, registered, commandVars, left, otherVars>>
    BY Zenon DEF Put, At
  <1>2. UNCHANGED <<kind, touched, source>>
    BY <1>1, Zenon DEF otherVars
  <1>3. job[j] \in JobRecords /\ source[j] \in Data
    BY JobOf
  <1>4. /\ "put" \notin Holding /\ "put" \notin {"submit", "wait", "join"}
        /\ "put" \in Pcs /\ "returned" \in Pcs /\ "put" \notin Unwritten
        /\ "returned" \notin Unwritten
        /\ Follows("put", "put") /\ Follows("put", "returned")
    BY DEF Holding, Pcs, Follows, Edges, Unwritten
  <1>5. CASE SetObject(j, source[j]) /\ Succeeds(j, source[j])
    <2>1. /\ DataTypes' /\ was[j] \subseteq was'[j] /\ object'[j] = source[j]
          /\ \A k \in Jobs : k # j => object'[k] = object[k] /\ was'[k] = was[k]
      BY <1>2, <1>5, Written, Zenon
    <2>2. JobSound(j)'
      BY <1>1, <1>2, <1>3, <1>4, <1>5, <2>1, SuccessKeeps, Zenon
    <2>3. JobTypes' /\ \A k \in Jobs : k # j => job'[k] = job[k]
      BY <1>3, <1>5, SucceedsFacts, Zenon
    <2>4. QED
      BY <1>1, <1>4, <1>5, <2>1, <2>2, <2>3, WriteKeeps, Zenon
  <1>6. CASE /\ SetObject(j, source[j]) \/ UNCHANGED <<object, was>>
             /\ \/ Goto(j, "put", [job[j] EXCEPT !.attempt = @ + 1])
                \/ Goto(j, "returned", job[j])
    <2>1. /\ DataTypes' /\ was[j] \subseteq was'[j]
          /\ \A k \in Jobs : k # j => object'[k] = object[k] /\ was'[k] = was[k]
      BY <1>2, <1>6, Written, Zenon
    <2> DEFINE r == [job[j] EXCEPT !.attempt = @ + 1]
    <2>2. r \in JobRecords /\ SameData(r, job[j]) /\ SameWork(r, job[j])
      <3>1. job[j].attempt + 1 \in Nat
        BY <1>3, CounterFields
      <3>2. QED
        BY <1>3, <3>1, ControlFields
    <2> HIDE DEF r
    <2>3. ASSUME NEW b \in {"put", "returned"}, NEW q \in JobRecords, Goto(j, b, q),
                 SameData(q, job[j]), SameWork(q, job[j])
          PROVE  UploadsInv'
      <3>1. b \in Pcs /\ Follows("put", b) /\ b # "part" /\ b # "again" /\ b \notin Unwritten
        BY <1>4
      <3>2. job[j].pc \notin {"hash_check", "hash_abort"} /\ job[j].pc \notin Holding
        BY <1>1, <1>4
      <3>3. QED
        BY <1>1, <2>1, <2>3, <3>1, <3>2, WrittenMove, Zenon
    <2>4. SameData(job[j], job[j]) /\ SameWork(job[j], job[j])
      BY JobOf
    <2>5. Goto(j, "returned", job[j]) \/ Goto(j, "put", r)
      BY <1>6, Zenon DEF r
    <2>6. QED
      BY <1>3, <2>2, <2>3, <2>4, <2>5
  <1>7. QED
    BY <1>5, <1>6, Zenon DEF Put

\* When every checksum agrees and the sizes too, the destination is the file.
LEMMA CurrentMeansContent ==
    ASSUME UploadsInv, NEW j \in Jobs, job[j].pc = "decide", IsCurrent(job[j]), ~touched[j],
           Len(job[j].local) = job[j].size
    PROVE  object[j] = job[j].local
  <1>1. /\ KindSound(j) /\ SizesSound(j) /\ Honest(j) /\ kind[j] \in Kinds
        /\ job[j] \in JobRecords /\ object[j] \in Data
    BY JobOf, Zenon DEF JobSound, HashSound
  <1>2. kind[j] = "diff_upload"
    BY <1>1 DEF KindSound, CopyPcs, DiffPcs, Kinds
  <1>3. job[j].ids = <<>> /\ job[j].local # <<>>
    BY <1>1, <1>2 DEF KindSound
  <1>4. /\ job[j].local \in Data /\ job[j].remote \in 0..MaxChunks
        /\ job[j].crcs \in Seq(Cells)
    BY <1>1, JobFields, Zenon
  <1>5. /\ DOMAIN job[j].local = 1..Len(job[j].local) /\ Len(job[j].local) \in Nat
        /\ DOMAIN object[j] = 1..Len(object[j]) /\ Len(object[j]) \in Nat
        /\ object[j] \in Seq(Cells) /\ job[j].local \in Seq(Cells)
    BY <1>1, <1>4, DataLength, UploadsAssumption
  <1>6. \A c \in DOMAIN job[j].local :
           c \in DOMAIN job[j].crcs /\ job[j].local[c] = job[j].crcs[c]
    BY Zenon DEF IsCurrent, Unchanged
  <1>7. job[j].remote = Len(job[j].local)
    BY Zenon DEF IsCurrent
  <1>8. job[j].crcs # <<>>
    <2>1. Len(job[j].local) # 0
      BY <1>3, <1>5, EmptySeq
    <2>2. 1 \in DOMAIN job[j].crcs
      BY <1>5, <1>6, <2>1
    <2>3. QED
      BY <2>2
  <1>9. was[j] = {object[j]} /\ job[j].remote = Len(object[j])
    <2>1. "decide" \in Unwritten
      BY DEF Unwritten
    <2>2. QED
      BY <1>1, <1>2, <1>8, <2>1 DEF SizesSound
  <1>10. AskedFor(job[j]) = [c \in 1..job[j].remote |-> c]
    BY <1>3, Zenon DEF AskedFor
  <1>11. ASSUME NEW c \in 1..job[j].remote PROVE object[j][c] = job[j].local[c]
    <2>1. c \in DOMAIN AskedFor(job[j]) /\ AskedFor(job[j])[c] = c
      BY <1>10
    <2>2. \E data \in was[j] : job[j].crcs[AskedFor(job[j])[c]] = data[AskedFor(job[j])[c]]
      <3>1. \E data \in was[j] : job[j].crcs[c] = data[AskedFor(job[j])[c]]
        BY <1>1, <1>8, <2>1, Zenon DEF Honest
      <3>2. QED
        BY <2>1, <3>1, Zenon
    <2>3. job[j].crcs[c] = object[j][c]
      BY <1>9, <2>1, <2>2
    <2>4. job[j].local[c] = job[j].crcs[c]
      BY <1>5, <1>6, <1>7
    <2>5. QED
      BY <2>3, <2>4
  <1>12. QED
    BY <1>5, <1>7, <1>9, <1>11, SeqEqual

\* The upload is skipped, put at once or begun, by what the object is known to be.
LEMMA DecideKeeps ==
    ASSUME UploadsInv, NEW j \in Jobs, Decide(j)
    PROVE  UploadsInv'
  <1>1. /\ phase = "running" /\ job[j].pc = "decide"
        /\ UNCHANGED <<source, object, was, commandVars, left, otherVars>>
    BY Zenon DEF Decide, At
  <1>2. UNCHANGED <<kind, touched, source>>
    BY <1>1, Zenon DEF otherVars
  <1>3. /\ KindSound(j) /\ SizesSound(j) /\ job[j] \in JobRecords /\ kind[j] \in Kinds
    BY JobOf, Zenon DEF JobSound
  <1>4. kind[j] = "diff_upload"
    BY <1>1, <1>3 DEF KindSound, CopyPcs, DiffPcs, Kinds
  <1>5. /\ "decide" \notin Holding /\ "decide" \notin {"submit", "wait", "join"}
        /\ "put" \in Pcs /\ "returned" \in Pcs
        /\ Follows("decide", "put") /\ Follows("decide", "returned")
    BY DEF Holding, Pcs, Follows, Edges
  <1> DEFINE r == [job[j] EXCEPT !.attempt = 0]
  <1>6. CASE IsCurrent(job[j]) /\ Succeeds(j, job[j].local) /\ UNCHANGED <<uploads, registered>>
    <2>1. job[j].local \in Data
      BY <1>3, JobFields, Zenon
    <2>2. was[j] \subseteq was'[j] /\ object'[j] = object[j]
          /\ \A k \in Jobs : k # j => object'[k] = object[k] /\ was'[k] = was[k]
      BY <1>1
    <2>3. ~touched[j] /\ (kind[j] = "diff_upload" => Len(job[j].local) = job[j].size) =>
             object'[j] = job[j].local
      BY <1>1, <1>4, <1>6, <2>2, CurrentMeansContent, Zenon
    <2>4. PICK want \in Data : want = job[j].local
      BY <2>1
    <2>5. Succeeds(j, want)
      BY <1>6, <2>4, Zenon
    <2>6. JobSound(j)'
      <3>1. job[j].pc \notin {"submit", "wait", "join"}
        BY <1>1
      <3>2. UNCHANGED <<kind, touched>>
        BY <1>2, Zenon
      <3>3. ~touched[j] /\ (kind[j] = "diff_upload" => Len(job[j].local) = job[j].size) =>
               object'[j] = want
        BY <2>3, <2>4, Zenon
      <3>4. QED
        BY <2>2, <2>5, <3>1, <3>2, <3>3, SuccessKeeps, Zenon
    <2>7. JobTypes' /\ \A k \in Jobs : k # j => job'[k] = job[k]
      BY <2>5, SucceedsFacts, Zenon
    <2>8. DataTypes'
      BY <1>1, <1>2, Zenon DEF UploadsInv, UploadsTyped, DataTypes
    <2>9. QED
      BY <1>1, <1>5, <1>6, <2>2, <2>6, <2>7, <2>8, WriteKeeps, Zenon
  <1>7. CASE /\ Goto(j, "put", r) \/ Goto(j, "returned", job[j])
             /\ UNCHANGED <<uploads, registered>>
    <2>1. Local
      BY <1>1, <1>7, Zenon DEF Local, bucketVars
    <2>2. r \in JobRecords /\ SameData(r, job[j]) /\ SameWork(r, job[j])
      BY <1>3, ControlFields
    <2> HIDE DEF r
    <2>3. SameData(job[j], job[j]) /\ SameWork(job[j], job[j])
      BY JobOf
    <2>4. ASSUME NEW b \in {"put", "returned"}, NEW q \in JobRecords, Goto(j, b, q),
                 SameData(q, job[j]), SameWork(q, job[j])
          PROVE  UploadsInv'
      <3>1. /\ b \in Pcs /\ Follows("decide", b) /\ b # "again"
            /\ job[j].pc \notin {"hash_check", "hash_abort"}
        BY <1>1, <1>5
      <3>2. QED
        BY <1>1, <1>5, <2>1, <2>4, <3>1, LocalMove, Zenon
    <2>5. QED
      BY <1>3, <1>7, <2>2, <2>3, <2>4
  <1>8. CASE CreateMultipartUpload(j, FALSE, "open", "returned")
    <2>1. "open" \in Pcs /\ FALSE \in BOOLEAN
      BY DEF Pcs
    <2>2. /\ job'[j].size = job[j].size /\ job'[j].pc \in {"open", "returned"}
          /\ job'[j].local = job[j].local /\ job'[j].remote = job[j].remote
          /\ job'[j].ids = job[j].ids /\ job'[j].crcs = job[j].crcs
      BY <1>5, <1>8, <2>1, CreatedMove
    <2>3. KindSound(j)'
      <3>1. job[j].ids = <<>> /\ job[j].local # <<>>
        BY <1>1, <1>3, <1>4 DEF KindSound
      <3>2. QED
        BY <1>2, <1>4, <2>2, <3>1 DEF KindSound
    <2>4. SizesSound(j)'
      <3>1. /\ "decide" \in Unwritten /\ "decide" \notin {"hash_check"} \cup FanOut
            /\ "open" \notin {"hash_check"} \cup FanOut /\ "returned" \notin Unwritten
        BY DEF Unwritten, FanOut
      <3>2. ~touched[j] => /\ was[j] = {object[j]}
                           /\ job[j].remote = Len(object[j]) \/ job[j].crcs = <<>>
        BY <1>1, <1>3, <1>4, <3>1, Zenon DEF SizesSound
      <3>3. kind'[j] # "copy" /\ was' = was /\ object' = object /\ touched' = touched
        BY <1>1, <1>2, <1>4
      <3>4. job'[j].pc \in Unwritten => job'[j].pc \notin {"hash_check"} \cup FanOut
        BY <2>2, <3>1
      <3>5. QED
        BY <2>2, <3>2, <3>3, <3>4, Zenon DEF SizesSound
    <2>5. /\ "open" \in {"submit", "launch", "part", "open"}
          /\ "returned" \in {"decide", "returned", "again"} /\ "open" \notin FanOut
          /\ job[j].pc \in {"hash_check", "copy", "decide"}
      BY <1>1 DEF FanOut
    <2>6. QED
      BY <1>1, <1>8, <2>1, <2>3, <2>4, <2>5, CreateKeeps, Zenon
  <1>9. QED
    BY <1>6, <1>7, <1>8, Zenon DEF Decide

-----------------------------------------------------------------------------
(* The parts.                                                              *)

\* A job at its parts.
LEMMA PartOf ==
    ASSUME UploadsInv, NEW j \in Jobs, job[j].pc = "part"
    PROVE  /\ job[j].upload \in DOMAIN uploads /\ uploads[job[j].upload].owner = j
           /\ kind[j] \in {"copy", "diff_upload"} /\ NumParts(j) \in 0..MaxChunks
           /\ Want(j) \in Data /\ job[j].part \in Nat \ {0}
           /\ ~touched[j] => NumParts(j) = Len(Want(j))
  <1>1. /\ JobSound(j) /\ job[j] \in JobRecords /\ kind[j] \in Kinds /\ source[j] \in Data
    BY JobOf
  <1>2. job[j].upload \in DOMAIN uploads /\ uploads[job[j].upload].owner = j
    BY <1>1 DEF JobSound, Owned, Holding
  <1>3. kind[j] \in {"copy", "diff_upload"}
    BY <1>1 DEF JobSound, KindSound, DiffPcs, Kinds
  <1>4. /\ job[j].size \in 0..MaxChunks /\ job[j].local \in Data /\ job[j].part \in Nat \ {0}
    BY <1>1, JobFields, Zenon
  <1>5. Len(job[j].local) \in 0..MaxChunks
    BY <1>4, DataLength
  <1>6. NumParts(j) \in 0..MaxChunks /\ Want(j) \in Data
    BY <1>1, <1>4, <1>5 DEF NumParts, Want
  <1>7. ~touched[j] /\ kind[j] = "copy" => job[j].size = Len(source[j])
    BY <1>1 DEF JobSound, SizesSound
  <1>8. ~touched[j] => NumParts(j) = Len(Want(j))
    BY <1>7, Zenon DEF NumParts, Want
  <1>9. QED
    BY <1>2, <1>3, <1>4, <1>6, <1>8

\* A step at a part of an upload that touches no other upload.
LEMMA PartMove ==
    ASSUME UploadsInv, NEW j \in Jobs, phase = "running", job[j].pc = "part",
           UNCHANGED <<source, object, was, registered, commandVars, left, otherVars>>,
           NEW r \in JobRecords, NEW b \in {"part", "abort"}, Goto(j, b, r), SameWork(r, job[j]),
           r.size = job[j].size, r.local = job[j].local, r.remote = job[j].remote,
           r.ids = job[j].ids, r.crcs = job[j].crcs, r.upload = job[j].upload,
           r.success = job[j].success,
           UploadTypes', DOMAIN uploads' = DOMAIN uploads, UploadsGrow,
           \A v \in DOMAIN uploads : v # job[j].upload => PartsKept(v),
           b = "part" => PartsSound(j)'
    PROVE  UploadsInv'
  <1>1. UNCHANGED <<source, object, was, registered, phase, to_abort, left, kind, touched>>
    BY Zenon DEF commandVars, otherVars
  <1>2. /\ b \in Pcs /\ b \in Holding /\ "part" \in Holding /\ b \in Afterwards /\ b \notin FanOut
        /\ "part" \in Unwritten /\ "abort" \notin Unwritten
        /\ "part" \notin {"hash_check"} \cup FanOut
        /\ "part" \notin {"submit", "wait", "join"} /\ b # "returned"
    BY DEF Pcs, Holding, Afterwards, FanOut, Unwritten
  <1>3. JobTypes /\ JobSound(j) /\ Registry /\ UploadTypes
    BY JobOf, Zenon DEF UploadsInv, UploadsTyped
  <1>4. /\ JobTypes' /\ job'[j].pc = b /\ SameData(job'[j], r) /\ SameWork(job'[j], r)
        /\ \A k \in Jobs : k # j => job'[k] = job[k]
    BY <1>2, <1>3, GotoFacts, Zenon
  <1>5. /\ job'[j].size = job[j].size /\ job'[j].local = job[j].local
        /\ job'[j].remote = job[j].remote /\ job'[j].ids = job[j].ids
        /\ job'[j].crcs = job[j].crcs /\ job'[j].upload = job[j].upload
        /\ job'[j].success = job[j].success /\ SameWork(job'[j], job[j])
    BY <1>4, Zenon DEF SameData, SameWork
  <1>6. \A u : Held(u) => Held(u)'
    BY <1>2, <1>4, <1>5, HeldStays
  <1>7. Registry'
    BY <1>1, <1>3, <1>6, RegistryKeeps, Zenon
  <1>8. UploadsTyped'
    BY <1>1, <1>4, Zenon DEF UploadsInv, UploadsTyped, DataTypes, RegistryTypes, PhaseTypes,
       LeftTypes
  <1>9. BusyBelongs(j)' /\ SumsHonest(j)'
    <2>1. was[j] \subseteq was'[j] /\ job[j].pc \notin {"submit", "wait", "join"}
      BY <1>1, <1>2
    <2>2. QED
      BY <1>3, <1>5, <2>1, WorkStays, Zenon
  <1>10. HashSound(j)'
    <2>1. AskedFor(job'[j]) = AskedFor(job[j])
      BY <1>5, Zenon DEF AskedFor
    <2>2. Honest(j)'
      BY <1>1, <1>3, <1>5, <2>1, Zenon DEF JobSound, HashSound, Honest
    <2>3. QED
      BY <1>2, <1>4, <1>9, <2>2, Zenon DEF HashSound
  <1>11. Owned(j)'
    BY <1>2, <1>3, <1>5, Zenon DEF JobSound, Owned, UploadsGrow, Grows
  <1>12. KindSound(j)'
    <2>1. kind[j] \in {"copy", "diff_upload"}
      BY PartOf
    <2>2. kind[j] = "diff_upload" => job[j].ids = <<>> /\ job[j].local # <<>>
      BY <1>3 DEF JobSound, KindSound
    <2>3. QED
      BY <1>1, <1>4, <1>5, <2>1, <2>2 DEF KindSound, CopyPcs
  <1>13. SizesSound(j)'
    <2>1. ~touched[j] /\ kind[j] = "copy" => job[j].size = Len(source[j])
      BY <1>3 DEF JobSound, SizesSound
    <2>2. ~touched[j] /\ kind[j] # "copy" =>
             /\ was[j] = {object[j]}
             /\ job[j].remote = Len(object[j]) \/ job[j].crcs = <<>>
      BY <1>2, <1>3, Zenon DEF JobSound, SizesSound
    <2>3. job'[j].pc \in Unwritten => job'[j].pc \notin {"hash_check"} \cup FanOut
      BY <1>2, <1>4
    <2>4. QED
      BY <1>1, <1>5, <2>1, <2>2, <2>3, Zenon DEF SizesSound
  <1>14. SuccessSound(j)'
    BY <1>5, NotYet DEF SuccessSound
  <1>15. PartsSound(j)'
    BY <1>4 DEF PartsSound
  <1>16. JobSound(j)'
    BY <1>9, <1>10, <1>11, <1>12, <1>13, <1>14, <1>15, Zenon DEF JobSound
  <1>17. \A u \in DOMAIN uploads : uploads[u].owner # j => PartsKept(u)
    <2>1. uploads[job[j].upload].owner = j
      BY PartOf
    <2>2. QED
      BY <2>1, Zenon
  <1>18. UNCHANGED <<commandVars, left, otherVars>>
    BY Zenon
  <1>19. QED
    BY <1>1, <1>4, <1>7, <1>8, <1>16, <1>17, <1>18, JobStepKeeps, Zenon

\* What is put into a part is what it is to be, when nobody has interfered.
LEMMA PartIsWanted ==
    ASSUME UploadsInv, NEW j \in Jobs, job[j].pc = "part", job[j].part <= NumParts(j), Accepted(j)
    PROVE  /\ PartData(j) \in Cells
           /\ ~touched[j] => PartData(j) = Want(j)[job[j].part]
  <1> DEFINE p == job[j].part
  <1>1. /\ kind[j] \in {"copy", "diff_upload"} /\ p \in Nat \ {0}
        /\ NumParts(j) \in 0..MaxChunks
    BY PartOf
  <1>2. /\ job[j] \in JobRecords /\ source[j] \in Data /\ object[j] \in Data /\ Honest(j)
        /\ SizesSound(j) /\ KindSound(j)
    BY JobOf, Zenon DEF JobSound, HashSound
  <1>3. job[j].local \in Data /\ job[j].crcs \in Seq(Cells)
    BY <1>2, JobFields, Zenon
  <1>4. CASE IsCopied(j)
    <2>1. PartData(j) = CopySource(j)[p] /\ p <= Len(CopySource(j)) /\ CopySource(j) \in Data
      BY <1>2, <1>4, Zenon DEF PartData, Accepted, CopySource
    <2>2. PartData(j) \in Cells
      BY <1>1, <2>1, DataLength
    <2>3. CASE kind[j] = "copy"
      BY <2>1, <2>2, <2>3, Zenon DEF CopySource, Want
    <2>4. CASE kind[j] = "diff_upload"
      <3>1. p \in DOMAIN job[j].crcs /\ job[j].local[p] = job[j].crcs[p]
        BY <1>4, <2>4 DEF IsCopied, Unchanged
      <3>2. job[j].crcs # <<>>
        BY <3>1
      <3>3. job[j].ids = <<>>
        BY <1>2, <2>4 DEF KindSound
      <3>4. PartData(j) = object[j][p] /\ Want(j) = job[j].local
        BY <2>1, <2>4 DEF CopySource, Want
      <3>5. ASSUME ~touched[j] PROVE job[j].crcs[p] = object[j][p]
        <4>1. was[j] = {object[j]}
          BY <1>2, <2>4, <3>5 DEF SizesSound, Unwritten
        <4>2. AskedFor(job[j]) = [c \in 1..job[j].remote |-> c]
          BY <3>3, Zenon DEF AskedFor
        <4>3. Len(job[j].crcs) = Len(AskedFor(job[j]))
          BY <1>2, <3>2, Zenon DEF Honest
        <4>4. DOMAIN job[j].crcs = 1..Len(job[j].crcs)
          BY <1>3, LenProperties
        <4>5. Len(AskedFor(job[j])) = job[j].remote
          <5>1. job[j].remote \in 0..MaxChunks
            BY <1>2, JobFields, Zenon
          <5>2. QED
            BY <4>2, <5>1
        <4>6. p \in DOMAIN AskedFor(job[j]) /\ AskedFor(job[j])[p] = p
          BY <3>1, <4>2, <4>3, <4>4, <4>5
        <4>7. \E data \in was[j] : job[j].crcs[p] = data[AskedFor(job[j])[p]]
          BY <1>2, <3>2, <4>6, Zenon DEF Honest
        <4>8. QED
          BY <4>1, <4>6, <4>7
      <3>6. QED
        BY <2>2, <3>1, <3>4, <3>5
    <2>5. QED
      BY <1>1, <2>3, <2>4
  <1>5. CASE ~IsCopied(j)
    <2>1. kind[j] # "copy" /\ PartData(j) = job[j].local[p]
      BY <1>5, Zenon DEF IsCopied, PartData
    <2>2. NumParts(j) = Len(job[j].local) /\ Want(j) = job[j].local
      BY <2>1, Zenon DEF NumParts, Want
    <2>3. job[j].local[p] \in Cells
      BY <1>1, <1>3, <2>2, DataLength
    <2>4. QED
      BY <2>1, <2>2, <2>3
  <1>6. QED
    BY <1>4, <1>5

\* The record of a job that goes on to another part.
LEMMA NextPartFields ==
    ASSUME NEW r \in JobRecords, NEW n, n \in Nat \ {0}
    PROVE  LET q == [r EXCEPT !.part = n, !.attempt = 0]
           IN  /\ q \in JobRecords /\ SameWork(q, r) /\ q.part = n
               /\ q.size = r.size /\ q.local = r.local /\ q.remote = r.remote /\ q.ids = r.ids
               /\ q.crcs = r.crcs /\ q.upload = r.upload /\ q.success = r.success
  <1> DEFINE x == [r EXCEPT !.part = n]
             q == [r EXCEPT !.part = n, !.attempt = 0]
  <1>1. x \in JobRecords
    BY DEF JobRecords
  <1>2. SameWork(x, r) /\ x.part = n
    BY DEF JobRecords, SameWork
  <1>3. /\ x.size = r.size /\ x.local = r.local /\ x.remote = r.remote /\ x.ids = r.ids
        /\ x.crcs = r.crcs /\ x.upload = r.upload /\ x.success = r.success
    BY DEF JobRecords
  <1>4. q = [x EXCEPT !.attempt = 0]
    BY Zenon
  <1> HIDE DEF x, q
  <1>5. q \in JobRecords /\ SameData(q, x) /\ SameWork(q, x)
    BY <1>1, <1>4, ControlFields
  <1>6. QED
    BY <1>2, <1>3, <1>5, Zenon DEF SameData, SameWork, q

\* A part that is taken, or not, is followed by the next part, by another
\* attempt, or by the end of the upload.
LEMMA UploadPartKeeps ==
    ASSUME UploadsInv, NEW j \in Jobs, UploadPart(j)
    PROVE  UploadsInv'
  <1>1. /\ phase = "running" /\ job[j].pc = "part" /\ job[j].part <= NumParts(j)
        /\ UNCHANGED <<source, object, was, registered, commandVars, left, otherVars>>
    BY Zenon DEF UploadPart, At
  <1>2. UNCHANGED <<source, kind, touched>>
    BY <1>1, Zenon DEF otherVars
  <1>3. /\ UploadTypes /\ PartsSound(j) /\ job[j] \in JobRecords
        /\ SameData(job[j], job[j]) /\ SameWork(job[j], job[j])
    BY JobOf, Zenon DEF UploadsInv, UploadsTyped, JobSound
  <1>4. PICK u \in DOMAIN uploads : u = job[j].upload
    BY <1>1, PartOf
  <1>5. PICK p \in Chunks : p = job[j].part
    <2>1. job[j].part \in Nat \ {0} /\ NumParts(j) \in 0..MaxChunks
      BY <1>1, PartOf
    <2>2. QED
      BY <1>1, <2>1, UploadsAssumption DEF Chunks
  <1>6. p \in Nat /\ p # 0 /\ p <= NumParts(j) /\ NumParts(j) \in Nat
    <2>1. NumParts(j) \in 0..MaxChunks
      BY <1>1, PartOf
    <2>2. QED
      BY <1>1, <1>5, <2>1, UploadsAssumption DEF Chunks
  <1> DEFINE again == [job[j] EXCEPT !.attempt = @ + 1]
             on    == [job[j] EXCEPT !.part = p + 1, !.attempt = 0]
             taken == Accepted(j) /\ AddPart(u, p, PartData(j))
  <1>7. \/ UNCHANGED uploads /\ Goto(j, "abort", job[j])
        \/ taken /\ Goto(j, "part", on)
        \/ /\ taken \/ UNCHANGED uploads
           /\ Goto(j, "part", again) \/ Goto(j, "abort", job[j])
    BY <1>4, <1>5, Zenon DEF UploadPart, NextAttempt
  <1>8. /\ UploadTypes' /\ DOMAIN uploads' = DOMAIN uploads /\ UploadsGrow
        /\ \A v \in DOMAIN uploads : v # job[j].upload => PartsKept(v)
        /\ IsOpen(u)' => IsOpen(u)
        /\ \A d \in Chunks : d # p /\ IsOpen(u)' => uploads'[u].parts[d] = uploads[u].parts[d]
    <2>1. CASE taken
      <3>1. /\ UploadTypes' /\ DOMAIN uploads' = DOMAIN uploads /\ UploadsGrow
            /\ \A v \in DOMAIN uploads : v # u => uploads'[v] = uploads[v]
            /\ \A d \in Chunks : d # p => uploads'[u].parts[d] = uploads[u].parts[d]
            /\ IsOpen(u)' = IsOpen(u)
        <4>1. PartData(j) \in Cells
          BY <1>1, <2>1, PartIsWanted
        <4>2. PICK data \in Cells : data = PartData(j)
          BY <4>1
        <4>3. AddPart(u, p, data)
          BY <2>1, <4>2, Zenon
        <4>4. QED
          BY <1>3, <4>3, PartFacts
      <3>2. QED
        BY <1>4, <3>1, Zenon DEF PartsKept
    <2>2. CASE UNCHANGED uploads
      <3>1. /\ UploadTypes' /\ DOMAIN uploads' = DOMAIN uploads /\ UploadsGrow
            /\ \A v \in DOMAIN uploads : PartsKept(v) /\ IsOpen(v)' = IsOpen(v)
        BY <1>3, <2>2, UploadsStay, Zenon
      <3>2. QED
        BY <1>4, <2>2, <3>1, Zenon
    <2>3. QED
      BY <1>7, <2>1, <2>2, Zenon
  <1>9. ASSUME ~touched[j], IsOpen(u)', NEW q \in 1..(p - 1), q <= NumParts(j)
        PROVE  uploads'[u].parts[q] = Want(j)[q]
    <2>1. q \in Chunks /\ q # p /\ q \in 1..(job[j].part - 1)
      BY <1>5, UploadsAssumption DEF Chunks
    <2>2. uploads[u].parts[q] = Want(j)[q]
      BY <1>1, <1>3, <1>4, <1>8, <1>9, <2>1, Zenon DEF PartsSound
    <2>3. QED
      BY <1>8, <1>9, <2>1, <2>2, Zenon
  <1> HIDE DEF again, on, taken
  <1>10. again \in JobRecords /\ SameData(again, job[j]) /\ SameWork(again, job[j])
    <2>1. job[j].attempt + 1 \in Nat
      BY <1>3, CounterFields
    <2>2. QED
      BY <1>3, <2>1, ControlFields DEF again
  <1>11. ASSUME NEW b \in {"part", "abort"}, NEW q \in JobRecords, Goto(j, b, q),
                SameData(q, job[j]), SameWork(q, job[j])
         PROVE  UploadsInv'
    <2>1. b = "part" => PartsSound(j)'
      <3>1. job'[j].pc = b /\ job'[j].part = p /\ job'[j].upload = u
            /\ job'[j].local = job[j].local /\ job'[j].size = job[j].size
        <4>1. b \in Pcs
          BY DEF Pcs
        <4>2. job'[j].pc = b /\ SameData(job'[j], q)
          BY <1>11, <4>1, GotoFacts, Zenon DEF UploadsInv, UploadsTyped
        <4>3. QED
          BY <1>4, <1>5, <1>11, <4>2, Zenon DEF SameData
      <3>2. NumParts(j)' = NumParts(j) /\ Want(j)' = Want(j)
        BY <1>2, <3>1, Zenon DEF NumParts, Want
      <3>3. QED
        BY <1>2, <1>9, <3>1, <3>2 DEF PartsSound
    <2>2. QED
      BY <1>1, <1>8, <1>11, <2>1, PartMove, Zenon DEF SameData
  <1>12. CASE taken /\ Goto(j, "part", on)
    <2>1. /\ on \in JobRecords /\ SameWork(on, job[j]) /\ on.part = p + 1
          /\ on.size = job[j].size /\ on.local = job[j].local /\ on.remote = job[j].remote
          /\ on.ids = job[j].ids /\ on.crcs = job[j].crcs /\ on.upload = job[j].upload
          /\ on.success = job[j].success
      <3>1. PICK n : n = p + 1 /\ n \in Nat \ {0}
        BY <1>6
      <3>2. QED
        BY <1>3, <3>1, NextPartFields, Zenon DEF on
    <2>2. PartsSound(j)'
      <3>1. job'[j].pc = "part" /\ job'[j].part = p + 1 /\ job'[j].upload = u
            /\ job'[j].local = job[j].local /\ job'[j].size = job[j].size
        <4>1. "part" \in Pcs
          BY DEF Pcs
        <4>2. job'[j].pc = "part" /\ SameData(job'[j], on)
          BY <1>12, <2>1, <4>1, GotoFacts, Zenon DEF UploadsInv, UploadsTyped
        <4>3. QED
          BY <1>4, <2>1, <4>2, Zenon DEF SameData
      <3>2. NumParts(j)' = NumParts(j) /\ Want(j)' = Want(j)
        BY <1>2, <3>1, Zenon DEF NumParts, Want
      <3>3. ~touched[j] => uploads'[u].parts[p] = Want(j)[p]
        <4>1. PartData(j) \in Cells /\ (~touched[j] => PartData(j) = Want(j)[p])
          BY <1>1, <1>5, <1>12, PartIsWanted, Zenon DEF taken
        <4>2. PICK data \in Cells : data = PartData(j)
          BY <4>1
        <4>3. uploads'[u].parts[p] = data
          <5>1. AddPart(u, p, data)
            BY <1>12, <4>2, Zenon DEF taken
          <5>2. QED
            BY <1>3, <5>1, PartFacts
        <4>4. QED
          BY <4>1, <4>2, <4>3
      <3>4. ASSUME ~touched[j], IsOpen(u)', NEW q \in 1..p, q <= NumParts(j)
            PROVE  uploads'[u].parts[q] = Want(j)[q]
        <4>1. q = p \/ q \in 1..(p - 1)
          BY <1>6
        <4>2. QED
          BY <1>9, <3>3, <3>4, <4>1, Zenon
      <3>5. 1..(p + 1 - 1) = 1..p
        BY <1>6
      <3>6. 1..(job'[j].part - 1) = 1..p /\ job'[j].pc # "open"
        BY <1>6, <3>1, <3>5
      <3>7. touched'[j] = touched[j]
        BY <1>2
      <3>8. QED
        BY <3>1, <3>2, <3>4, <3>6, <3>7, Zenon DEF PartsSound
    <2>3. QED
      BY <1>1, <1>8, <1>12, <2>1, <2>2, PartMove
  <1>13. QED
    BY <1>3, <1>7, <1>10, <1>11, <1>12

\* What the parts in order are: the data that was wanted, if nobody interfered.
LEMMA PartsInOrder ==
    ASSUME UploadsInv, NEW j \in Jobs, job[j].pc = "part", job[j].part > NumParts(j),
           IsOpen(job[j].upload),
           NEW data, data = [p \in 1..NumParts(j) |-> uploads[job[j].upload].parts[p]]
    PROVE  data \in Data /\ (~touched[j] => data = Want(j))
  <1>1. /\ job[j].upload \in DOMAIN uploads /\ NumParts(j) \in 0..MaxChunks
        /\ Want(j) \in Data /\ job[j].part \in Nat \ {0}
        /\ ~touched[j] => NumParts(j) = Len(Want(j))
    BY PartOf
  <1>2. PICK u \in DOMAIN uploads : u = job[j].upload
    BY <1>1
  <1>3. uploads[u].parts \in [Chunks -> Cells] /\ PartsSound(j)
    <2>1. uploads[u] \in UploadRecords
      BY UploadOf DEF UploadsInv, UploadsTyped
    <2>2. PartsSound(j)
      BY JobOf, Zenon DEF JobSound
    <2>3. QED
      BY <2>1, <2>2, UploadFields
  <1>4. data = [p \in 1..NumParts(j) |-> uploads[u].parts[p]]
    BY <1>2, Zenon
  <1>5. NumParts(j) \in Nat /\ NumParts(j) <= MaxChunks /\ 1..NumParts(j) \subseteq Chunks
    BY <1>1, UploadsAssumption DEF Chunks
  <1>6. data \in Seq(Cells) /\ Len(data) = NumParts(j)
    <2>1. \A p \in 1..NumParts(j) : uploads[u].parts[p] \in Cells
      BY <1>3, <1>5
    <2>2. QED
      BY <1>4, <1>5, <2>1, IsASeq
  <1>7. data \in Data
    BY <1>5, <1>6 DEF Data
  <1>8. ASSUME ~touched[j] PROVE data = Want(j)
    <2>1. \A p \in 1..NumParts(j) : p \in 1..(job[j].part - 1) /\ p <= NumParts(j)
      BY <1>1, <1>5
    <2>2. \A p \in 1..NumParts(j) : uploads[u].parts[p] = Want(j)[p]
      BY <1>2, <1>3, <1>8, <2>1, Zenon DEF PartsSound
    <2>3. Want(j) \in Seq(Cells) /\ Len(Want(j)) = NumParts(j)
      BY <1>1, <1>8, DataLength
    <2>4. \A p \in 1..Len(data) : data[p] = Want(j)[p]
      BY <1>4, <1>6, <2>2
    <2>5. QED
      BY <1>6, <2>3, <2>4, SeqEqual
  <1>9. QED
    BY <1>7, <1>8

\* The upload is completed: the parts become the object.
LEMMA CompleteKeeps ==
    ASSUME UploadsInv, NEW j \in Jobs, Complete(j)
    PROVE  UploadsInv'
  <1>1. /\ phase = "running" /\ job[j].pc = "part" /\ job[j].part > NumParts(j)
        /\ UNCHANGED <<source, commandVars, left, otherVars>>
    BY Zenon DEF Complete, At
  <1>2. UNCHANGED <<source, kind, touched, phase, to_abort, left>>
    BY <1>1, Zenon DEF otherVars, commandVars
  <1>3. /\ UploadTypes /\ JobTypes /\ DataTypes /\ job[j] \in JobRecords
        /\ registered \subseteq DOMAIN uploads /\ to_abort \subseteq DOMAIN uploads
        /\ SameData(job[j], job[j]) /\ SameWork(job[j], job[j]) /\ JobSound(j) /\ Registry
    BY JobOf, Zenon DEF UploadsInv, UploadsTyped, RegistryTypes
  <1>4. PICK u \in DOMAIN uploads : u = job[j].upload
    BY <1>1, PartOf
  <1>5. /\ "part" \in Holding /\ "abort" \in Holding /\ "abort" \in Pcs /\ "abort" \notin Unwritten
        /\ "part" \notin {"submit", "wait", "join"} /\ Follows("part", "abort")
        /\ "part" \notin {"hash_check", "hash_abort"}
    BY DEF Holding, Pcs, Unwritten, Follows, Edges
  <1> DEFINE data == [p \in 1..NumParts(j) |-> uploads[job[j].upload].parts[p]]
             applied == SetObject(j, data) /\ uploads' = Closed(u, "completed")
  <1>6. \/ /\ IsOpen(u) /\ applied /\ Succeeds(j, Want(j)) /\ registered' = registered \ {u}
        \/ IsOpen(u) /\ applied /\ Goto(j, "abort", job[j]) /\ UNCHANGED registered
        \/ UNCHANGED <<object, was, uploads, registered>> /\ Goto(j, "abort", job[j])
    BY <1>4, Zenon DEF Complete
  <1>7. IsOpen(u) => data \in Data /\ (~touched[j] => data = Want(j))
    <2>1. IsOpen(u) => IsOpen(job[j].upload)
      BY <1>4, Zenon
    <2>2. QED
      BY <1>1, <2>1, PartsInOrder
  <1> HIDE DEF data, applied
  <1>8. ASSUME IsOpen(u), applied
        PROVE  /\ DataTypes' /\ was[j] \subseteq was'[j] /\ object'[j] = data
               /\ \A k \in Jobs : k # j => object'[k] = object[k] /\ was'[k] = was[k]
               /\ UploadTypes' /\ DOMAIN uploads' = DOMAIN uploads /\ UploadsGrow
               /\ \A v \in DOMAIN uploads : PartsKept(v)
               /\ ~IsOpen(u)'
    <2>1. SetObject(j, data) /\ uploads' = Closed(u, "completed") /\ data \in Data
      BY <1>7, <1>8, Zenon DEF applied
    <2>2. /\ DataTypes' /\ was'[j] = was[j] \cup {data} /\ object'[j] = data
          /\ \A k \in Jobs : k # j => object'[k] = object[k] /\ was'[k] = was[k]
      BY <1>2, <1>3, <2>1, SetObjectFacts, Zenon
    <2>3. /\ UploadTypes' /\ DOMAIN uploads' = DOMAIN uploads /\ UploadsGrow
          /\ \A v \in DOMAIN uploads : PartsKept(v)
          /\ ~IsOpen(u)'
      <3>1. "completed" \in {"aborted", "completed"}
        OBVIOUS
      <3>2. QED
        BY <1>3, <2>1, <3>1, CloseGrows
    <2>4. was[j] \subseteq was'[j]
      BY <2>2
    <2>5. QED
      BY <2>2, <2>3, <2>4, Zenon
  <1>9. ASSUME IsOpen(u), applied, JobTypes', \A k \in Jobs : k # j => job'[k] = job[k],
               registered' \subseteq registered,
               \A v \in DOMAIN uploads : v # u /\ v \in registered => v \in registered',
               JobSound(j)'
        PROVE  UploadsInv'
    <2>1. ASSUME NEW v \in DOMAIN uploads, IsOpen(v)'
          PROVE  /\ v \in registered => v \in registered'
                 /\ Held(v) => uploads'[v].aborts >= 1 \/ Held(v)'
      <3>1. v # u
        BY <1>8, <1>9, <2>1, Zenon
      <3>2. Held(v) => Held(v)'
        BY <1>4, <1>9, <3>1, Zenon DEF Held
      <3>3. QED
        BY <1>9, <3>1, <3>2, Zenon
    <2>2. Registry'
      BY <1>1, <1>2, <1>3, <1>8, <1>9, <2>1, RegistryKeeps, Zenon
    <2>3. RegistryTypes'
      BY <1>2, <1>3, <1>8, <1>9 DEF RegistryTypes
    <2>4. UploadsTyped'
      BY <1>2, <1>8, <1>9, <2>3, Zenon DEF UploadsInv, UploadsTyped, PhaseTypes, LeftTypes
    <2>5. \A k \in Jobs : k # j => /\ job'[k] = job[k] /\ source'[k] = source[k]
                                   /\ object'[k] = object[k] /\ was'[k] = was[k]
      BY <1>2, <1>8, <1>9, Zenon
    <2>6. UNCHANGED <<commandVars, left, otherVars>>
      BY <1>1, Zenon
    <2>7. UploadsGrow /\ \A v \in DOMAIN uploads : PartsKept(v)
      BY <1>8, <1>9, Zenon
    <2>8. \A v \in DOMAIN uploads : uploads[v].owner # j => PartsKept(v)
      BY <2>7, Zenon
    <2>9. QED
      BY <1>1, <1>9, <2>2, <2>4, <2>5, <2>6, <2>7, <2>8, JobStepKeeps, Zenon
  <1>10. CASE IsOpen(u) /\ applied /\ Succeeds(j, Want(j)) /\ registered' = registered \ {u}
    <2>1. PICK want \in Data : want = Want(j)
      BY <1>1, PartOf
    <2>2. Succeeds(j, want)
      BY <1>10, <2>1, Zenon
    <2>3. JobTypes' /\ \A k \in Jobs : k # j => job'[k] = job[k]
      BY <2>2, SucceedsFacts, Zenon
    <2>4. ~touched[j] => object'[j] = want
      BY <1>7, <1>8, <1>10, <2>1, Zenon
    <2>5. JobSound(j)'
      <3>1. job[j].pc \notin {"submit", "wait", "join"}
        BY <1>1
      <3>2. was[j] \subseteq was'[j] /\ UNCHANGED <<kind, touched>>
        BY <1>2, <1>8, <1>10, Zenon
      <3>3. ~touched[j] /\ (kind[j] = "diff_upload" => Len(job[j].local) = job[j].size) =>
               object'[j] = want
        BY <2>4, Zenon
      <3>4. QED
        BY <2>2, <3>1, <3>2, <3>3, SuccessKeeps, Zenon
    <2>6. /\ registered' \subseteq registered
          /\ \A v \in DOMAIN uploads : v # u /\ v \in registered => v \in registered'
      BY <1>10
    <2>7. QED
      BY <1>9, <1>10, <2>3, <2>5, <2>6, Zenon
  <1>11. CASE IsOpen(u) /\ applied /\ Goto(j, "abort", job[j]) /\ UNCHANGED registered
    <2>1. /\ JobTypes' /\ job'[j].pc = "abort" /\ SameData(job'[j], job[j])
          /\ SameWork(job'[j], job[j]) /\ \A k \in Jobs : k # j => job'[k] = job[k]
      BY <1>3, <1>5, <1>11, GotoFacts, Zenon
    <2>2. UploadsGrow /\ was[j] \subseteq was'[j]
      BY <1>8, <1>11, Zenon
    <2>3. BusyBelongs(j)' /\ SumsHonest(j)'
      <3>1. job[j].pc \notin {"submit", "wait", "join"}
        BY <1>1
      <3>2. QED
        BY <1>3, <2>1, <2>2, <3>1, WorkStays, Zenon
    <2>4. JobSound(j)'
      <3>1. /\ Follows(job[j].pc, job'[j].pc) /\ job'[j].pc # "part" /\ job'[j].pc # "again"
            /\ job[j].pc \notin {"hash_check", "hash_abort"} /\ job'[j].pc \notin Unwritten
        BY <1>1, <1>5, <2>1
      <3>2. UNCHANGED <<kind, touched, source>>
        BY <1>2, Zenon
      <3>3. QED
        BY <2>1, <2>2, <2>3, <3>1, <3>2, MoveKeeps, Zenon
    <2>5. /\ registered' \subseteq registered
          /\ \A v \in DOMAIN uploads : v # u /\ v \in registered => v \in registered'
      BY <1>11
    <2>6. QED
      BY <1>9, <1>11, <2>1, <2>4, <2>5, Zenon
  <1>12. CASE UNCHANGED <<object, was, uploads, registered>> /\ Goto(j, "abort", job[j])
    <2>1. Local
      BY <1>1, <1>12, Zenon DEF Local, bucketVars
    <2>2. QED
      BY <1>1, <1>3, <1>5, <1>12, <2>1, LocalMove
  <1>13. QED
    BY <1>6, <1>10, <1>11, <1>12, Zenon

-----------------------------------------------------------------------------
(* The command.                                                            *)

\* The jobs, when nothing happens to them.
LEMMA JobsStay ==
    ASSUME UploadsInv, UNCHANGED <<job, kind, source, object, was, touched>>, UploadsGrow,
           \A u \in DOMAIN uploads : PartsKept(u)
    PROVE  JobsSound' /\ DataTypes' /\ JobTypes'
  <1>1. ASSUME NEW k \in Jobs PROVE JobSound(k)'
    <2>1. JobSound(k) /\ Apart(k)
      BY Zenon DEF UploadsInv, JobsSound, Apart
    <2>2. QED
      BY <2>1, ApartKeeps, Zenon
  <1>2. DataTypes' /\ JobTypes'
    BY Zenon DEF UploadsInv, UploadsTyped, DataTypes, JobTypes
  <1>3. QED
    BY <1>1, <1>2, Zenon DEF JobsSound

\* Steps that only set a flag, and no step at all.
LEMMA NothingKeeps ==
    ASSUME UploadsInv,
           UNCHANGED <<kind, source, object, uploads, was, registered, job, phase, to_abort, left,
                       touched>>
    PROVE  UploadsInv'
  <1>1. UploadTypes' /\ UploadsGrow /\ \A u \in DOMAIN uploads : PartsKept(u)
    BY UploadsStay, Zenon DEF UploadsInv, UploadsTyped
  <1>2. JobsSound' /\ DataTypes' /\ JobTypes'
    BY <1>1, JobsStay, Zenon
  <1>3. LeftSound'
    BY <1>1, LeftStays, Zenon DEF UploadsInv
  <1>4. Registry' /\ JobsEnd'
    BY Zenon DEF UploadsInv, Registry, Pending, IsOpen, Held, JobsEnd
  <1>5. UploadsTyped'
    BY <1>1, <1>2, Zenon DEF UploadsInv, UploadsTyped, RegistryTypes, PhaseTypes, LeftTypes
  <1>6. QED
    BY <1>2, <1>3, <1>4, <1>5, Zenon DEF UploadsInv

\* A job at its beginning, and one whose process is gone.
LEMMA NewJobFields ==
    LET r == [NewJob EXCEPT !.pc = "returned"]
    IN  /\ NewJob \in JobRecords /\ r \in JobRecords /\ r.pc = "returned" /\ r.sums = NoSums
        /\ \A c \in Chunks : r.work[c] = Idle
        /\ r.crcs = <<>> /\ r.ids = <<>> /\ r.success = FALSE
  <1>1. /\ <<>> \in Data /\ <<>> \in Requests /\ <<>> \in Seq(Cells) /\ 0 \in 0..MaxChunks
        /\ [c \in Chunks |-> Idle] \in [Chunks -> Works] /\ NoSums \in [Chunks -> Cells]
        /\ 1 \in Nat \ {0} /\ "start" \in Pcs /\ "returned" \in Pcs
    <2>1. <<>> \in Seq(Cells) /\ Len(<<>>) = 0
      BY EmptySeq
    <2>2. <<>> \in Data
      BY <2>1, UploadsAssumption DEF Data
    <2>3. Idle \in Works
      BY DEF Idle, Works
    <2>4. <<>> \in Requests /\ "start" \in Pcs /\ "returned" \in Pcs
      BY DEF Requests, Pcs
    <2>5. 0 \in 0..MaxChunks
      BY UploadsAssumption
    <2>6. QED
      BY <2>1, <2>2, <2>3, <2>4, <2>5, NoSumsFacts
  <1>2. NewJob \in JobRecords
    BY <1>1 DEF NewJob, JobRecords
  <1>3. [NewJob EXCEPT !.pc = "returned"] \in JobRecords
    BY <1>1, <1>2 DEF JobRecords
  <1>4. /\ NewJob.sums = NoSums /\ NewJob.work = [c \in Chunks |-> Idle]
        /\ NewJob.crcs = <<>> /\ NewJob.ids = <<>> /\ NewJob.success = FALSE
    BY DEF NewJob
  <1>5. LET r == [NewJob EXCEPT !.pc = "returned"]
        IN  /\ r.pc = "returned" /\ r.sums = NewJob.sums /\ r.work = NewJob.work
            /\ r.crcs = NewJob.crcs /\ r.ids = NewJob.ids /\ r.success = NewJob.success
    BY <1>2 DEF JobRecords
  <1>6. QED
    BY <1>2, <1>3, <1>4, <1>5, Zenon

\* The end of the process: the jobs are gone.
LEMMA GoneKeeps ==
    ASSUME UploadsInv, Gone, UNCHANGED <<kind, source, object, uploads, was, left, touched>>,
           phase' \in {"exited", "killed"}, Registry'
    PROVE  UploadsInv'
  <1> DEFINE r == [NewJob EXCEPT !.pc = "returned"]
  <1>1. /\ r \in JobRecords /\ r.pc = "returned" /\ r.sums = NoSums
        /\ \A c \in Chunks : r.work[c] = Idle
        /\ r.crcs = <<>> /\ r.ids = <<>> /\ r.success = FALSE
    BY NewJobFields, Zenon
  <1>2. job' = [j \in Jobs |-> r] /\ registered' = {} /\ to_abort' = {}
    BY Zenon DEF Gone
  <1> HIDE DEF r
  <1>3. JobTypes' /\ \A j \in Jobs : job'[j] = r
    BY <1>1, <1>2 DEF JobTypes
  <1>4. /\ "returned" \notin Holding /\ "returned" \notin FanOut /\ "returned" \in CopyPcs
        /\ "returned" \notin DiffPcs /\ "returned" \notin Unwritten
    BY DEF Holding, FanOut, CopyPcs, DiffPcs, Unwritten
  <1>5. ASSUME NEW j \in Jobs PROVE JobSound(j)'
    <2>1. /\ job'[j].pc = "returned" /\ job'[j].sums = NoSums
          /\ \A c \in Chunks : job'[j].work[c] = Idle
          /\ job'[j].crcs = <<>> /\ job'[j].ids = <<>> /\ ~job'[j].success
      BY <1>1, <1>3, Zenon
    <2>2. BusyBelongs(j)' /\ SumsHonest(j)'
      BY <2>1, NothingFound, Zenon
    <2>3. Owned(j)'
      BY <1>4, <2>1, Zenon DEF Owned
    <2>4. HashSound(j)'
      BY <1>4, <2>1, <2>2, Zenon DEF HashSound, Honest
    <2>5. KindSound(j)'
      BY <1>4, <2>1 DEF KindSound
    <2>6. SizesSound(j)'
      BY <1>4, <2>1 DEF SizesSound
    <2>7. PartsSound(j)' /\ SuccessSound(j)'
      BY <2>1 DEF PartsSound, SuccessSound
    <2>8. QED
      BY <2>2, <2>3, <2>4, <2>5, <2>6, <2>7, Zenon DEF JobSound
  <1>6. JobsEnd'
    BY <1>1, <1>3, Zenon DEF JobsEnd
  <1>7. UploadTypes' /\ UploadsGrow
    BY UploadsStay, Zenon DEF UploadsInv, UploadsTyped
  <1>8. LeftSound'
    BY <1>7, LeftStays, Zenon DEF UploadsInv
  <1>9. RegistryTypes' /\ PhaseTypes'
    BY <1>2 DEF RegistryTypes, PhaseTypes
  <1>10. UploadsTyped'
    BY <1>3, <1>7, <1>9, Zenon DEF UploadsInv, UploadsTyped, DataTypes, LeftTypes
  <1>11. QED
    BY <1>5, <1>6, <1>8, <1>10, Zenon DEF UploadsInv, JobsSound

\* A second signal ends the process wherever it is.
LEMMA KillKeeps ==
    ASSUME UploadsInv, Kill
    PROVE  UploadsInv'
  <1>1. Gone /\ phase' = "killed" /\ UNCHANGED <<kind, source, object, uploads, was, left, touched>>
    BY Zenon DEF Kill, bucketVars, otherVars
  <1>2. Registry'
    BY <1>1 DEF Registry
  <1>3. QED
    BY <1>1, <1>2, GoneKeeps

\* abort_all has tried every upload that is left.
LEMMA ExitKeeps ==
    ASSUME UploadsInv, Exit
    PROVE  UploadsInv'
  <1>1. /\ Gone /\ phase = "abort_all" /\ to_abort = {} /\ phase' = "exited"
        /\ UNCHANGED <<kind, source, object, uploads, was, left, touched>>
    BY Zenon DEF Exit, bucketVars, otherVars
  <1>2. \A u \in DOMAIN uploads : Pending(u) => uploads[u].aborts >= 2
    BY <1>1 DEF UploadsInv, Registry
  <1>3. \A u : Pending(u)' => Pending(u)
    BY <1>1, Zenon DEF Pending, IsOpen
  <1>4. Registry'
    BY <1>1, <1>2, <1>3 DEF Registry
  <1>5. QED
    BY <1>1, <1>4, GoneKeeps

\* The uploads that abort_all takes are those whose abort has failed.
LEMMA AbortAllKeeps ==
    ASSUME UploadsInv, AbortAll
    PROVE  UploadsInv'
  <1>1. /\ phase = "running" /\ AllReturned /\ phase' = "abort_all" /\ to_abort' = registered
        /\ registered' = {}
        /\ UNCHANGED <<job, kind, source, object, uploads, was, left, touched>>
    BY Zenon DEF AbortAll, bucketVars, otherVars
  <1>2. UploadTypes' /\ UploadsGrow /\ \A u \in DOMAIN uploads : PartsKept(u)
    BY <1>1, UploadsStay, Zenon DEF UploadsInv, UploadsTyped
  <1>3. JobsSound' /\ DataTypes' /\ JobTypes'
    BY <1>1, <1>2, JobsStay, Zenon
  <1>4. LeftSound'
    BY <1>1, <1>2, LeftStays, Zenon DEF UploadsInv
  <1>5. \A u : ~Held(u)
    <2>1. "returned" \notin Holding
      BY DEF Holding
    <2>2. QED
      BY <1>1, <2>1, Zenon DEF Held, AllReturned
  <1>6. ASSUME NEW u \in DOMAIN uploads, Pending(u) PROVE u \in registered /\ uploads[u].aborts >= 1
    BY <1>1, <1>5, <1>6, Zenon DEF UploadsInv, Registry
  <1>7. \A u : Pending(u)' => Pending(u)
    BY <1>1, Zenon DEF Pending, IsOpen
  <1>8. Registry'
    BY <1>1, <1>6, <1>7 DEF Registry
  <1>9. JobsEnd'
    BY <1>1, Zenon DEF JobsEnd, AllReturned
  <1>10. RegistryTypes' /\ PhaseTypes'
    BY <1>1 DEF RegistryTypes, PhaseTypes, UploadsInv, UploadsTyped
  <1>11. UploadsTyped'
    BY <1>1, <1>2, <1>3, <1>10, Zenon DEF UploadsInv, UploadsTyped, LeftTypes
  <1>12. QED
    BY <1>3, <1>4, <1>8, <1>9, <1>11, Zenon DEF UploadsInv

\* An upload that abort_all has tried is closed, or has failed a second time.
LEMMA AbortOneKeeps ==
    ASSUME UploadsInv, AbortOne
    PROVE  UploadsInv'
  <1>1. /\ phase = "abort_all"
        /\ UNCHANGED <<job, kind, source, object, was, registered, phase, left, touched>>
    BY Zenon DEF AbortOne, otherVars
  <1>2. PICK u \in to_abort, ok \in BOOLEAN : AbortAnswer(u, ok) /\ to_abort' = to_abort \ {u}
    BY Zenon DEF AbortOne
  <1>3. /\ UploadTypes /\ registered \subseteq DOMAIN uploads /\ to_abort \subseteq DOMAIN uploads
        /\ Registry /\ JobsEnd
    BY Zenon DEF UploadsInv, UploadsTyped, RegistryTypes
  <1>4. /\ UploadTypes' /\ DOMAIN uploads' = DOMAIN uploads
        /\ UploadsGrow /\ \A v \in DOMAIN uploads : PartsKept(v)
        /\ IsOpen(u)' => ~ok /\ uploads'[u].aborts = uploads[u].aborts + 1
        /\ \A v \in DOMAIN uploads : v # u => uploads'[v] = uploads[v]
    <2>1. u \in DOMAIN uploads
      BY <1>2, <1>3
    <2>2. QED
      BY <1>2, <1>3, <2>1, AbortFacts
  <1>5. JobsSound' /\ DataTypes' /\ JobTypes'
    BY <1>1, <1>4, JobsStay, Zenon
  <1>6. LeftSound'
    BY <1>1, <1>4, LeftStays, Zenon DEF UploadsInv
  <1>7. ASSUME NEW v \in DOMAIN uploads, Pending(v)'
        PROVE  uploads'[v].aborts >= 1 /\ (v \in to_abort' \/ uploads'[v].aborts >= 2)
    <2>1. Pending(v) /\ IsOpen(v)'
      BY <1>4, <1>7, Zenon DEF UploadsGrow, Grows, Pending
    <2>2. uploads[v].aborts >= 1 /\ (v \in to_abort \/ uploads[v].aborts >= 2)
      BY <1>1, <1>3, <2>1 DEF Registry
    <2>3. uploads[v].aborts \in Nat
      BY <1>3, AbortsNow, Zenon DEF AbortsCounted
    <2>4. CASE v = u
      <3>1. uploads'[v].aborts = uploads[v].aborts + 1
        BY <1>4, <2>1, <2>4, Zenon
      <3>2. QED
        BY <2>2, <2>3, <3>1
    <2>5. CASE v # u
      BY <1>2, <1>4, <2>2, <2>5
    <2>6. QED
      BY <2>4, <2>5
  <1>8. Registry'
    BY <1>1, <1>4, <1>7 DEF Registry
  <1>9. JobsEnd'
    BY <1>1, <1>3, Zenon DEF JobsEnd
  <1>10. RegistryTypes'
    BY <1>1, <1>2, <1>3, <1>4 DEF RegistryTypes
  <1>11. UploadsTyped'
    BY <1>1, <1>4, <1>5, <1>10, Zenon DEF UploadsInv, UploadsTyped, PhaseTypes, LeftTypes
  <1>12. QED
    BY <1>5, <1>6, <1>8, <1>9, <1>11, Zenon DEF UploadsInv

-----------------------------------------------------------------------------
(* What others write.                                                      *)

\* Data that one hand has written.
LEMMA ByData ==
    ASSUME NEW who \in {"source", "old", "late"}, NEW n \in 0..MaxChunks
    PROVE  By(who, n) \in Data /\ Len(By(who, n)) = n
  <1>1. n \in Nat /\ n <= MaxChunks
    BY UploadsAssumption
  <1>2. \A c \in 1..n : <<c, who>> \in Cells
    <2>1. \A c \in 1..n : c \in 0..MaxChunks
      BY <1>1, UploadsAssumption
    <2>2. who \in {"none", "source", "old", "late"}
      OBVIOUS
    <2>3. QED
      BY <2>1, <2>2 DEF Cells
  <1>3. By(who, n) \in Seq(Cells) /\ Len(By(who, n)) = n
    BY <1>1, <1>2, IsASeq DEF By
  <1>4. QED
    BY <1>1, <1>3 DEF Data

\* What others write instead of some data is data.
LEMMA RewrittenIsData ==
    ASSUME NEW old \in Data, NEW data \in Rewritten(old)
    PROVE  data \in Data
  <1>1. PICK n \in 0..MaxChunks : n = Len(old)
    BY DataLength
  <1>2. n \in Nat /\ n <= MaxChunks /\ MaxChunks \in Nat
    BY UploadsAssumption
  <1>3. CASE data = By("late", n)
    BY <1>3, ByData
  <1>4. ASSUME NEW m \in {n - 1} \cap Chunks, data = SubSeq(old, 1, m) PROVE data \in Data
    <2>1. m = n - 1 /\ m \in Nat /\ m >= 1 /\ 1 \in Int /\ m \in Int
      BY <1>2 DEF Chunks
    <2>2. \A i \in 1..m : old[i] \in Cells
      BY <1>1, <2>1, DataLength
    <2>3. SubSeq(old, 1, m) \in Seq(Cells) /\ Len(SubSeq(old, 1, m)) = m - 1 + 1
      BY <2>1, <2>2, SubSeqProperties
    <2>4. QED
      BY <1>2, <1>4, <2>1, <2>3 DEF Data
  <1>5. ASSUME NEW m \in {n + 1} \cap Chunks, data = Append(old, <<m, "late">>)
        PROVE  data \in Data
    <2>1. m = n + 1 /\ m \in 0..MaxChunks
      BY <1>2 DEF Chunks
    <2>2. PICK cell \in Cells : cell = <<m, "late">>
      BY <2>1 DEF Cells
    <2>3. old \in Seq(Cells)
      BY DataLength
    <2>4. Append(old, cell) \in Seq(Cells) /\ Len(Append(old, cell)) = n + 1
      BY <1>1, <2>3, AppendProperties
    <2>5. m <= MaxChunks
      BY <2>1, <1>2
    <2>6. QED
      BY <1>5, <2>1, <2>2, <2>4, <2>5 DEF Data
  <1>6. QED
    BY <1>1, <1>3, <1>4, <1>5 DEF Rewritten

\* A write by others: the jobs are where they were, and their uploads too.
LEMMA OthersKeep ==
    ASSUME UploadsInv, UNCHANGED <<kind, uploads, registered, job, phase, to_abort, left>>,
           DataTypes', NEW j \in Jobs, JobSound(j)',
           \A k \in Jobs : k # j =>
              /\ source'[k] = source[k] /\ object'[k] = object[k] /\ was'[k] = was[k]
              /\ touched'[k] = touched[k]
    PROVE  UploadsInv'
  <1>1. UploadTypes' /\ UploadsGrow /\ \A u \in DOMAIN uploads : PartsKept(u)
    BY UploadsStay, Zenon DEF UploadsInv, UploadsTyped
  <1>2. ASSUME NEW k \in Jobs PROVE JobSound(k)'
    <2>1. CASE k = j
      BY <2>1
    <2>2. CASE k # j
      <3>1. JobSound(k) /\ Apart(k)
        BY <2>2, Zenon DEF UploadsInv, JobsSound, Apart
      <3>2. QED
        BY <1>1, <3>1, ApartKeeps, Zenon
    <2>3. QED
      BY <2>1, <2>2
  <1>3. LeftSound'
    BY <1>1, LeftStays, Zenon DEF UploadsInv
  <1>4. Registry' /\ JobsEnd'
    BY Zenon DEF UploadsInv, Registry, Pending, IsOpen, Held, JobsEnd
  <1>5. UploadsTyped'
    BY <1>1, Zenon DEF UploadsInv, UploadsTyped, JobTypes, RegistryTypes, PhaseTypes, LeftTypes
  <1>6. QED
    BY <1>2, <1>3, <1>4, <1>5, Zenon DEF UploadsInv, JobsSound

\* The source of a copy may be written, which is noted, and the file of an
\* upload, of which the job goes by the checksums it has.
LEMMA WriteSourceKeeps ==
    ASSUME UploadsInv, NEW j \in Jobs, WriteSource(j)
    PROVE  UploadsInv'
  <1>1. /\ job[j].pc # "returned" /\ kind[j] # "hashes"
        /\ touched' = [touched EXCEPT ![j] = @ \/ kind[j] = "copy"]
        /\ UNCHANGED <<kind, object, was, uploads, registered, job, phase, to_abort, left>>
    BY Zenon DEF WriteSource, UnderWay, bucketVars, commandVars
  <1>2. PICK data \in Rewritten(source[j]) : source' = [source EXCEPT ![j] = data]
    BY Zenon DEF WriteSource
  <1>3. /\ DataTypes /\ source[j] \in Data /\ JobSound(j)
    BY JobOf, Zenon DEF UploadsInv, UploadsTyped
  <1>4. data \in Data
    BY <1>2, <1>3, RewrittenIsData
  <1>5. /\ source' \in [Jobs -> Data] /\ \A k \in Jobs : k # j => source'[k] = source[k]
    BY <1>2, <1>3, <1>4 DEF DataTypes
  <1>6. /\ touched' \in [Jobs -> BOOLEAN] /\ \A k \in Jobs : k # j => touched'[k] = touched[k]
        /\ touched'[j] = (touched[j] \/ kind[j] = "copy")
    BY <1>1, <1>3 DEF DataTypes
  <1>7. DataTypes'
    BY <1>1, <1>3, <1>5, <1>6, Zenon DEF DataTypes
  <1>8. ~job[j].success
    BY <1>1, NotYet
  <1>9. /\ BusyBelongs(j)' /\ Owned(j)' /\ KindSound(j)'
    BY <1>1, <1>3, Zenon DEF JobSound, BusyBelongs, Busy, Owned, KindSound
  <1>10. HashSound(j)'
    BY <1>1, <1>3, Zenon DEF JobSound, HashSound, SumsHonest, Honest
  <1>11. SizesSound(j)'
    BY <1>1, <1>3, <1>6, Zenon DEF JobSound, SizesSound
  <1>12. PartsSound(j)'
    <2>1. CASE kind[j] = "copy"
      BY <1>1, <1>3, <1>6, <2>1, Zenon DEF JobSound, PartsSound
    <2>2. CASE kind[j] # "copy"
      <3>1. NumParts(j)' = NumParts(j) /\ Want(j)' = Want(j)
        BY <1>1, <2>2, Zenon DEF NumParts, Want
      <3>2. touched[j] => touched'[j]
        BY <1>6, Zenon
      <3>3. PartsSound(j)
        BY <1>3, Zenon DEF JobSound
      <3>4. ASSUME job[j].pc = "part", ~touched'[j], IsOpen(job[j].upload)',
                   NEW p \in 1..(job[j].part - 1), p <= NumParts(j)
            PROVE  uploads'[job[j].upload].parts[p] = Want(j)[p]
        <4>1. IsOpen(job[j].upload)
          BY <1>1, <3>4, Zenon DEF IsOpen
        <4>2. QED
          BY <1>1, <3>2, <3>3, <3>4, <4>1, Zenon DEF PartsSound
      <3>5. QED
        BY <1>1, <3>1, <3>3, <3>4, Zenon DEF PartsSound
    <2>3. QED
      BY <2>1, <2>2
  <1>13. SuccessSound(j)'
    BY <1>1, <1>8, Zenon DEF SuccessSound
  <1>14. JobSound(j)'
    BY <1>9, <1>10, <1>11, <1>12, <1>13, Zenon DEF JobSound
  <1>15. \A k \in Jobs : k # j =>
            /\ source'[k] = source[k] /\ object'[k] = object[k] /\ was'[k] = was[k]
            /\ touched'[k] = touched[k]
    BY <1>1, <1>5, <1>6, Zenon
  <1>16. QED
    BY <1>1, <1>7, <1>14, <1>15, OthersKeep, Zenon

\* The destination may be written, which is noted; what has been found of it
\* is still what it once had.
LEMMA WriteObjectKeeps ==
    ASSUME UploadsInv, NEW j \in Jobs, WriteObject(j)
    PROVE  UploadsInv'
  <1>1. /\ job[j].pc # "returned"
        /\ touched' = [touched EXCEPT ![j] = TRUE]
        /\ UNCHANGED <<kind, source, uploads, registered, job, phase, to_abort, left>>
    BY Zenon DEF WriteObject, UnderWay, commandVars
  <1>2. PICK data \in Rewritten(object[j]) : SetObject(j, data)
    BY Zenon DEF WriteObject
  <1>3. /\ DataTypes /\ object[j] \in Data /\ JobSound(j)
    BY JobOf, Zenon DEF UploadsInv, UploadsTyped
  <1>4. data \in Data
    BY <1>2, <1>3, RewrittenIsData
  <1>5. /\ object \in [Jobs -> Data] /\ was \in [Jobs -> SUBSET Data]
        /\ \A k \in Jobs : object[k] \in was[k]
    BY <1>3, Zenon DEF DataTypes
  <1>6. /\ object' \in [Jobs -> Data] /\ object'[j] = data
        /\ \A k \in Jobs : k # j => object'[k] = object[k]
    BY <1>2, <1>4, <1>5 DEF SetObject
  <1>7. /\ was' \in [Jobs -> SUBSET Data] /\ was'[j] = was[j] \cup {data}
        /\ \A k \in Jobs : k # j => was'[k] = was[k]
    BY <1>2, <1>4, <1>5 DEF SetObject
  <1>8. /\ touched' \in [Jobs -> BOOLEAN] /\ touched'[j]
        /\ \A k \in Jobs : k # j => touched'[k] = touched[k]
    BY <1>1, <1>3 DEF DataTypes
  <1>9. \A k \in Jobs : object'[k] \in was'[k]
    BY <1>5, <1>6, <1>7
  <1>10. DataTypes'
    BY <1>1, <1>3, <1>6, <1>7, <1>8, <1>9, Zenon DEF DataTypes
  <1>11. was[j] \subseteq was'[j]
    BY <1>7
  <1>12. ~job[j].success
    BY <1>1, NotYet
  <1>13. /\ BusyBelongs(j)' /\ Owned(j)' /\ KindSound(j)'
    BY <1>1, <1>3, Zenon DEF JobSound, BusyBelongs, Busy, Owned, KindSound
  <1>14. HashSound(j)'
    <2>1. SumsHonest(j)'
      BY <1>1, <1>3, <1>11 DEF JobSound, HashSound, SumsHonest
    <2>2. Honest(j)'
      <3>1. job[j].crcs # <<>> =>
               /\ Len(job[j].crcs) = Len(AskedFor(job[j]))
               /\ \A i \in DOMAIN AskedFor(job[j]) : \E d \in was'[j] :
                     /\ AskedFor(job[j])[i] \in DOMAIN d
                     /\ job[j].crcs[i] = d[AskedFor(job[j])[i]]
        BY <1>3, <1>11, Zenon DEF JobSound, HashSound, Honest
      <3>2. QED
        BY <1>1, <3>1, Zenon DEF Honest
    <2>3. QED
      BY <1>1, <1>3, <2>1, <2>2, Zenon DEF JobSound, HashSound
  <1>15. SizesSound(j)' /\ PartsSound(j)' /\ SuccessSound(j)'
    BY <1>1, <1>3, <1>8, <1>12, Zenon DEF JobSound, SizesSound, PartsSound, SuccessSound
  <1>16. JobSound(j)'
    BY <1>13, <1>14, <1>15, Zenon DEF JobSound
  <1>17. \A k \in Jobs : k # j =>
            /\ source'[k] = source[k] /\ object'[k] = object[k] /\ was'[k] = was[k]
            /\ touched'[k] = touched[k]
    BY <1>1, <1>6, <1>7, <1>8, Zenon
  <1>18. QED
    BY <1>1, <1>10, <1>16, <1>17, OthersKeep, Zenon

-----------------------------------------------------------------------------
(* The leftovers command.                                                  *)

\* A set of numbers that is not empty has a least one ...
LEMMA HasLeast ==
    ASSUME NEW S \in SUBSET Nat, S # {}
    PROVE  \E x \in S : \A y \in S : x <= y
  <1>1. PICK x \in S : \A y \in S : ~ (<<y, x>> \in OpToRel(<, Nat))
    BY NatLessThanWellFounded, WFMin, Zenon
  <1>2. \A y \in S : y \in Nat
    OBVIOUS
  <1>3. \A y \in S : ~ (y < x)
    BY <1>1, <1>2 DEF OpToRel
  <1>4. QED
    BY <1>2, <1>3

\* ... and, when it is bounded, a greatest: the marker of a page.
LEMMA HasGreatest ==
    ASSUME NEW n \in Nat, NEW S \in SUBSET (1..n), S # {}
    PROVE  \E x \in S : \A y \in S : y <= x
  <1> DEFINE T == {m \in 0..n : n - m \in S}
  <1>1. T \in SUBSET Nat /\ T # {}
    <2>1. PICK x \in S : TRUE
      OBVIOUS
    <2>2. n - x \in 0..n /\ n - (n - x) = x
      OBVIOUS
    <2>3. n - x \in T
      BY <2>2
    <2>4. T \in SUBSET Nat
      OBVIOUS
    <2>5. T # {}
      BY <2>3, Zenon
    <2>6. QED
      BY <2>4, <2>5
  <1>2. PICK t \in T : \A y \in T : t <= y
    BY <1>1, HasLeast, Zenon
  <1>3. n - t \in S
    BY <1>2
  <1>4. ASSUME NEW y \in S PROVE y <= n - t
    <2>1. n - y \in 0..n /\ n - (n - y) = y
      OBVIOUS
    <2>2. n - y \in T
      BY <2>1
    <2>3. t <= n - y /\ t \in 0..n
      BY <1>2, <2>2
    <2>4. QED
      BY <2>3
  <1>5. QED
    BY <1>3, <1>4

\* The fields of leftovers.
LEMMA LeftFields ==
    ASSUME NEW r \in LeftRecords
    PROVE  /\ r.start \subseteq Nat /\ r.marker \in Nat /\ r.page \subseteq Nat
           /\ r.failures \in 0..1 /\ r.truncated \in BOOLEAN
    BY DEF LeftRecords

\* What it is when it has ended.
IsEnd(q, exit, missed) ==
    q \in LeftRecords /\ q.pc = "done" /\ q.start = {} /\ q.exit = exit /\ q.missed = missed

\* LeftoversEnd is that.
LEMMA EndFields ==
    ASSUME NEW exit \in 0..1, NEW missed \in SUBSET Nat
    PROVE  IsEnd([NoLeftovers EXCEPT !.pc = "done", !.exit = exit, !.missed = missed],
                 exit, missed)
  <1>1. exit \in -1..1 /\ 0 \in 0..1 /\ {} \in SUBSET Nat /\ None \in Jobs \cup {None}
    OBVIOUS
  <1>2. NoLeftovers \in [pc : {"start", "list", "page", "done"}, prefix : Jobs \cup {None},
                         older : BOOLEAN, start : SUBSET Nat, marker : Nat, page : SUBSET Nat,
                         truncated : BOOLEAN, failures : 0..1, exit : {-1},
                         missed : SUBSET Nat]
    BY <1>1 DEF NoLeftovers
  <1>3. NoLeftovers.start = {}
    BY DEF NoLeftovers
  <1>4. QED
    BY <1>1, <1>2, <1>3 DEF LeftRecords, IsEnd

\* A step of leftovers that leaves the uploads alone.
LEMMA LeftKeeps ==
    ASSUME UploadsInv, left' \in LeftRecords, LeftSound',
           UNCHANGED <<kind, source, object, uploads, was, registered, job, phase, to_abort,
                       touched>>
    PROVE  UploadsInv'
  <1>1. UploadTypes' /\ UploadsGrow /\ \A u \in DOMAIN uploads : PartsKept(u)
    BY UploadsStay, Zenon DEF UploadsInv, UploadsTyped
  <1>2. JobsSound' /\ DataTypes' /\ JobTypes'
    BY <1>1, JobsStay, Zenon
  <1>3. Registry' /\ JobsEnd'
    BY Zenon DEF UploadsInv, Registry, Pending, IsOpen, Held, JobsEnd
  <1>4. UploadsTyped'
    BY <1>1, <1>2, Zenon DEF UploadsInv, UploadsTyped, RegistryTypes, PhaseTypes, LeftTypes
  <1>5. QED
    BY <1>2, <1>3, <1>4, Zenon DEF UploadsInv

\* It ends: with success when nothing is left of what it was to abort.
LEMMA EndKeeps ==
    ASSUME UploadsInv, NEW exit \in 0..1, left' = LeftoversEnd(exit),
           exit = 0 => \A u \in left.start : ~(Matches(u) /\ IsOpen(u)),
           UNCHANGED <<kind, source, object, uploads, was, registered, job, phase, to_abort,
                       touched>>
    PROVE  UploadsInv'
  <1>1. left \in LeftRecords
    BY Zenon DEF UploadsInv, UploadsTyped, LeftTypes
  <1>2. PICK gone \in SUBSET Nat : gone = {u \in left.start : Matches(u) /\ IsOpen(u)}
    BY <1>1, LeftFields
  <1>3. exit = 0 => gone = {}
    BY <1>2, Zenon
  <1>4. left' = [NoLeftovers EXCEPT !.pc = "done", !.exit = exit, !.missed = gone]
    BY <1>2, Zenon DEF LeftoversEnd
  <1>5. /\ left' \in LeftRecords /\ left'.pc = "done" /\ left'.start = {} /\ left'.exit = exit
        /\ left'.missed = gone
    <2>1. IsEnd([NoLeftovers EXCEPT !.pc = "done", !.exit = exit, !.missed = gone], exit, gone)
      BY EndFields, Zenon
    <2>2. IsEnd(left', exit, gone)
      BY <1>4, <2>1, Zenon
    <2>3. QED
      BY <2>2, Zenon DEF IsEnd
  <1>6. LeftSound'
    BY <1>3, <1>5 DEF LeftSound
  <1>7. QED
    BY <1>5, <1>6, LeftKeeps, Zenon

\* The uploads there are at the start are all ahead of the marker.
LEMMA LeftoversStartKeeps ==
    ASSUME UploadsInv, LeftoversStart
    PROVE  UploadsInv'
  <1>1. /\ left.pc = "start"
        /\ UNCHANGED <<kind, source, object, uploads, was, registered, job, phase, to_abort,
                       touched>>
    BY Zenon DEF LeftoversStart, bucketVars, commandVars
  <1> DEFINE start == {u \in DOMAIN uploads : IsOpen(u)}
  <1>2. PICK prefix \in Jobs \cup {None}, older \in BOOLEAN :
           left' = [left EXCEPT !.pc = "list", !.prefix = prefix, !.older = older,
                                !.start = start]
    BY Zenon DEF LeftoversStart
  <1>3. left \in LeftRecords /\ LeftSound /\ UploadTypes
    BY Zenon DEF UploadsInv, UploadsTyped, LeftTypes
  <1>4. start \in SUBSET Nat /\ start \subseteq DOMAIN uploads /\ \A u \in start : u > 0
    BY <1>3, UploadOf
  <1> HIDE DEF start
  <1>5. /\ left' \in LeftRecords /\ left'.pc = "list" /\ left'.start = start
        /\ left'.marker = left.marker /\ left'.exit = left.exit /\ left'.missed = left.missed
    BY <1>2, <1>3, <1>4 DEF LeftRecords
  <1>6. left.marker = 0
    BY <1>1, <1>3 DEF LeftSound
  <1>7. /\ left'.exit = 0 => left'.missed = {}
        /\ left'.start \subseteq DOMAIN uploads'
        /\ \A u \in left'.start : u > left'.marker
    <2>1. left.exit = 0 => left.missed = {}
      BY <1>3, Zenon DEF LeftSound
    <2>2. \A u \in left'.start : u > left'.marker
      BY <1>4, <1>5, <1>6, Zenon
    <2>3. QED
      BY <1>1, <1>4, <1>5, <2>1, <2>2, Zenon
  <1>8. LeftSound'
    BY <1>5, <1>7 DEF LeftSound
  <1>9. QED
    BY <1>1, <1>5, <1>8, LeftKeeps, Zenon

\* A page of the listing, of which marker is the last upload.
LEMMA PageFacts ==
    ASSUME UploadTypes, NEW marker \in Nat, NEW page,
           page = {u \in After(marker) : Cardinality({v \in After(marker) : v < u}) < PageSize}
    PROVE  /\ page \subseteq After(marker) /\ After(marker) \subseteq Nat
           /\ page # {} =>
                 LET m == CHOOSE u \in page : \A v \in page : v <= u
                 IN  /\ m \in Nat /\ m > marker
                     /\ \A u \in After(marker) : u \notin page => u > m
  <1>1. /\ After(marker) \subseteq 1..Len(uploads) /\ Len(uploads) \in Nat
        /\ \A u \in After(marker) : u \in Nat /\ u > marker
    <2>1. DOMAIN uploads = 1..Len(uploads) /\ Len(uploads) \in Nat
      BY LenProperties DEF UploadTypes
    <2>2. QED
      BY <2>1 DEF After
  <1>2. page \subseteq After(marker)
    BY Zenon
  <1>3. ASSUME page # {}
        PROVE  LET m == CHOOSE u \in page : \A v \in page : v <= u
               IN  /\ m \in Nat /\ m > marker
                   /\ \A u \in After(marker) : u \notin page => u > m
    <2>1. page \in SUBSET (1..Len(uploads))
      BY <1>1, <1>2
    <2>2. \E x \in page : \A y \in page : y <= x
      BY <1>1, <1>3, <2>1, HasGreatest
    <2>3. PICK m : m = CHOOSE u \in page : \A v \in page : v <= u
      OBVIOUS
    <2>4. m \in page /\ \A y \in page : y <= m
      BY <2>2, <2>3, Zenon
    <2>5. m \in Nat /\ m > marker /\ m \in After(marker)
      BY <1>1, <1>2, <2>4
    <2>6. ASSUME NEW u \in After(marker), u \notin page PROVE u > m
      <3> SUFFICES ASSUME u <= m PROVE FALSE
        BY <1>1, <2>5
      <3>1. u < m /\ u \in Nat
        BY <1>1, <2>4, <2>5, <2>6
      <3> DEFINE L(x) == {v \in After(marker) : v < x}
      <3>2. IsFiniteSet(L(m))
        <4>1. IsFiniteSet(1..Len(uploads))
          BY <1>1, FS_Interval
        <4>2. L(m) \in SUBSET (1..Len(uploads))
          BY <1>1
        <4>3. QED
          BY <4>1, <4>2, FS_Subset, Zenon
      <3>3. L(u) \in SUBSET L(m)
        BY <1>1, <2>5, <3>1
      <3>4. Cardinality(L(u)) <= Cardinality(L(m)) /\ IsFiniteSet(L(u))
        BY <3>2, <3>3, FS_Subset, Zenon
      <3>5. Cardinality(L(u)) \in Nat /\ Cardinality(L(m)) \in Nat
        BY <3>2, <3>4, FS_CardinalityType, Zenon
      <3>6. Cardinality(L(m)) < PageSize
        BY <2>4, Zenon
      <3>7. ~(Cardinality(L(u)) < PageSize)
        BY <2>6, Zenon
      <3> HIDE DEF L
      <3>8. QED
        BY <3>4, <3>5, <3>6, <3>7, UploadsAssumption
    <2>7. QED
      BY <2>3, <2>5, <2>6, Zenon
  <1>4. QED
    BY <1>1, <1>2, <1>3

\* What is not on a page is ahead of the marker, and the listing is truncated.
LEMMA ListMultipartUploadsKeeps ==
    ASSUME UploadsInv, ListMultipartUploads
    PROVE  UploadsInv'
  <1>1. /\ left.pc = "list"
        /\ left' = Listed \/ left' = LeftoversEnd(1)
        /\ UNCHANGED <<kind, source, object, uploads, was, registered, job, phase, to_abort,
                       touched>>
    BY Zenon DEF ListMultipartUploads, bucketVars, commandVars
  <1>2. left \in LeftRecords /\ LeftSound /\ UploadTypes
    BY Zenon DEF UploadsInv, UploadsTyped, LeftTypes
  <1>3. left.start \subseteq DOMAIN uploads /\ (left.exit = 0 => left.missed = {})
        /\ (left.failures = 0 => \A u \in left.start : Matches(u) /\ IsOpen(u) => u > left.marker)
    BY <1>1, <1>2 DEF LeftSound
  <1>4. CASE left' = LeftoversEnd(1)
    <2>1. 1 \in 0..1 /\ 1 # 0
      OBVIOUS
    <2>2. QED
      BY <1>1, <1>4, <2>1, EndKeeps, Zenon
  <1>5. CASE left' = Listed
    <2> DEFINE P == {u \in After(left.marker) :
                        Cardinality({v \in After(left.marker) : v < u}) < PageSize}
    <2>1. left' = [left EXCEPT !.pc = "page", !.page = {u \in P : Matches(u)},
                               !.truncated = P # After(left.marker),
                               !.marker = IF P = {} THEN left.marker
                                          ELSE CHOOSE u \in P : \A v \in P : v <= u]
      BY <1>5, Zenon DEF Listed
    <2>2. PICK marker \in Nat : marker = left.marker
      BY <1>2, LeftFields
    <2>3. PICK page : page = P
      OBVIOUS
    <2>4. page = {u \in After(marker) : Cardinality({v \in After(marker) : v < u}) < PageSize}
      BY <2>2, <2>3, Zenon
    <2> HIDE DEF P
    <2>5. /\ page \subseteq After(marker) /\ After(marker) \subseteq Nat
          /\ page # {} =>
                LET m == CHOOSE u \in page : \A v \in page : v <= u
                IN  /\ m \in Nat /\ m > marker
                    /\ \A u \in After(marker) : u \notin page => u > m
      BY <1>2, <2>4, PageFacts
    <2>6. PICK last \in Nat :
             /\ last = IF P = {} THEN left.marker ELSE CHOOSE u \in P : \A v \in P : v <= u
             /\ \A u \in After(marker) : u \notin page => u > last
      <3>1. CASE P = {}
        <4>1. \A u \in After(marker) : u > marker
          BY DEF After
        <4>2. QED
          BY <2>2, <3>1, <4>1
      <3>2. CASE P # {}
        BY <2>3, <2>5, <3>2
      <3>3. QED
        BY <3>1, <3>2
    <2>7. PICK found : found = {u \in P : Matches(u)}
      OBVIOUS
    <2>8. PICK truncated \in BOOLEAN : truncated = (P # After(left.marker))
      OBVIOUS
    <2>9. left' = [left EXCEPT !.pc = "page", !.page = found, !.truncated = truncated,
                                !.marker = last]
      BY <2>1, <2>6, <2>7, <2>8
    <2>10. found = {u \in page : Matches(u)} /\ (page # After(marker) => truncated)
      BY <2>2, <2>3, <2>7, <2>8
    <2>11. found \in SUBSET Nat
      BY <2>5, <2>10
    <2>12. /\ left' \in LeftRecords /\ left'.pc = "page" /\ left'.page = found
           /\ left'.truncated = truncated /\ left'.marker = last /\ left'.start = left.start
           /\ left'.failures = left.failures /\ left'.prefix = left.prefix
           /\ left'.older = left.older /\ left'.exit = left.exit /\ left'.missed = left.missed
      BY <1>2, <2>9, <2>11 DEF LeftRecords
    <2>13. \A u : Matches(u)' = Matches(u) /\ IsOpen(u)' = IsOpen(u)
      BY <1>1, <2>12, Zenon DEF Matches, IsOpen
    <2>14. ASSUME left.failures = 0, NEW u \in left.start, Matches(u), IsOpen(u)
           PROVE  u \in found \/ (truncated /\ u > last)
      <3>1. u \in After(marker)
        BY <1>3, <2>2, <2>14, Zenon DEF After
      <3>2. QED
        BY <2>6, <2>10, <2>14, <3>1, Zenon
    <2>15. LeftSound'
      <3>1. /\ left'.start \subseteq DOMAIN uploads' /\ (left'.exit = 0 => left'.missed = {})
            /\ \A u \in left'.start : left'.failures = 0 /\ Matches(u)' /\ IsOpen(u)' =>
                  u \in left'.page \/ (left'.truncated /\ u > left'.marker)
        BY <1>1, <1>3, <2>12, <2>13, <2>14, Zenon
      <3>2. QED
        BY <2>12, <3>1 DEF LeftSound
    <2>16. QED
      BY <1>1, <2>12, <2>15, LeftKeeps, Zenon
  <1>6. QED
    BY <1>1, <1>4, <1>5

\* What is on a page is aborted, or has failed.
LEMMA AbortPageKeeps ==
    ASSUME UploadsInv, AbortPage
    PROVE  UploadsInv'
  <1>1. /\ left.pc = "page"
        /\ UNCHANGED <<kind, source, object, was, registered, job, phase, to_abort, touched>>
    BY Zenon DEF AbortPage, commandVars
  <1>2. PICK u \in left.page, ok \in BOOLEAN :
           /\ ok => IsOpen(u)
           /\ uploads' = IF ok THEN Closed(u, "aborted") ELSE uploads
           /\ left' = [left EXCEPT !.page = @ \ {u}, !.failures = FailuresAfter(ok)]
    BY Zenon DEF AbortPage
  <1>3. left \in LeftRecords /\ LeftSound /\ UploadTypes /\ RegistryTypes /\ Registry /\ JobsEnd
    BY Zenon DEF UploadsInv, UploadsTyped, LeftTypes
  <1>4. /\ UploadTypes' /\ DOMAIN uploads' = DOMAIN uploads /\ UploadsGrow
        /\ \A v \in DOMAIN uploads : PartsKept(v)
        /\ ok => ~IsOpen(u)'
    <2>1. CASE ok
      <3>1. u \in DOMAIN uploads /\ uploads' = Closed(u, "aborted")
        BY <1>2, <2>1, Zenon DEF IsOpen
      <3>2. "aborted" \in {"aborted", "completed"}
        OBVIOUS
      <3>3. QED
        BY <1>3, <3>1, <3>2, CloseGrows
    <2>2. CASE ~ok
      BY <1>2, <1>3, <2>2, UploadsStay, Zenon
    <2>3. QED
      BY <2>1, <2>2
  <1>5. PICK failures \in 0..1 : failures = FailuresAfter(ok)
    <2>1. left.failures \in 0..1 /\ 1 \in 0..1
      BY <1>3, LeftFields
    <2>2. FailuresAfter(ok) \in 0..1
      BY <2>1, Zenon DEF FailuresAfter
    <2>3. QED
      BY <2>2, Zenon
  <1>6. PICK page \in SUBSET Nat : page = left.page \ {u}
    BY <1>3, LeftFields
  <1>7. left' = [left EXCEPT !.page = page, !.failures = failures]
    BY <1>2, <1>5, <1>6, Zenon
  <1>8. /\ left' \in LeftRecords /\ left'.pc = "page" /\ left'.page = page
        /\ left'.truncated = left.truncated /\ left'.marker = left.marker
        /\ left'.start = left.start /\ left'.failures = failures
        /\ left'.prefix = left.prefix /\ left'.older = left.older /\ left'.exit = left.exit
        /\ left'.missed = left.missed
    BY <1>1, <1>3, <1>7 DEF LeftRecords
  <1>9. left.start \subseteq DOMAIN uploads /\ (left.exit = 0 => left.missed = {})
        /\ (left.failures = 0 => \A v \in left.start : Matches(v) /\ IsOpen(v) =>
               v \in left.page \/ (left.truncated /\ v > left.marker))
    BY <1>1, <1>3 DEF LeftSound
  <1>10. ASSUME failures = 0, NEW v \in left.start, Matches(v)', IsOpen(v)'
         PROVE  v \in page \/ (left.truncated /\ v > left.marker)
    <2>1. ok /\ left.failures = 0
      BY <1>5, <1>10 DEF FailuresAfter
    <2>2. Matches(v) /\ IsOpen(v) /\ v # u
      BY <1>4, <1>8, <1>9, <1>10, <2>1, Zenon DEF UploadsGrow, Grows, Matches
    <2>3. QED
      BY <1>6, <1>9, <1>10, <2>1, <2>2
  <1>11. LeftSound'
    <2>1. /\ left'.start \subseteq DOMAIN uploads' /\ (left'.exit = 0 => left'.missed = {})
          /\ \A v \in left'.start : left'.failures = 0 /\ Matches(v)' /\ IsOpen(v)' =>
                v \in left'.page \/ (left'.truncated /\ v > left'.marker)
      BY <1>4, <1>8, <1>9, <1>10, Zenon
    <2>2. QED
      BY <1>8, <2>1 DEF LeftSound
  <1>12. JobsSound' /\ DataTypes' /\ JobTypes'
    BY <1>1, <1>4, JobsStay, Zenon
  <1>13. ASSUME NEW v \in DOMAIN uploads, Pending(v)'
         PROVE  /\ Pending(v) /\ (Held(v)' <=> Held(v))
                /\ \A n \in Nat : uploads[v].aborts >= n => uploads'[v].aborts >= n
    <2>1. Pending(v) /\ Grows(v)
      BY <1>4, <1>13, Zenon DEF UploadsGrow, Grows, Pending
    <2>2. Held(v)' <=> Held(v)
      BY <1>1, Zenon DEF Held
    <2>3. uploads[v].aborts \in Nat /\ uploads'[v].aborts \in Nat
      BY <1>3, <1>4, AbortsNow, NextAborts, Zenon DEF AbortsCounted
    <2>4. uploads'[v].aborts >= uploads[v].aborts
      BY <2>1, Zenon DEF Grows
    <2>5. QED
      BY <2>1, <2>2, <2>3, <2>4
  <1>14. Registry'
    BY <1>1, <1>3, <1>4, <1>13 DEF Registry
  <1>15. JobsEnd' /\ RegistryTypes' /\ PhaseTypes'
    BY <1>1, <1>3, <1>4, Zenon DEF JobsEnd, RegistryTypes, UploadsInv, UploadsTyped, PhaseTypes
  <1>16. UploadsTyped'
    BY <1>4, <1>8, <1>12, <1>15, Zenon DEF UploadsTyped, LeftTypes
  <1>17. QED
    BY <1>11, <1>12, <1>14, <1>15, <1>16, Zenon DEF UploadsInv

\* After the last page nothing is left; after another, the rest is ahead.
LEMMA PageEndKeeps ==
    ASSUME UploadsInv, PageEnd
    PROVE  UploadsInv'
  <1>1. /\ left.pc = "page" /\ left.page = {}
        /\ UNCHANGED <<kind, source, object, uploads, was, registered, job, phase, to_abort,
                       touched>>
    BY Zenon DEF PageEnd, bucketVars, commandVars
  <1>2. left \in LeftRecords /\ LeftSound
    BY Zenon DEF UploadsInv, UploadsTyped, LeftTypes
  <1>3. left.start \subseteq DOMAIN uploads /\ (left.exit = 0 => left.missed = {})
        /\ (left.failures = 0 => \A u \in left.start : Matches(u) /\ IsOpen(u) =>
               left.truncated /\ u > left.marker)
    BY <1>1, <1>2 DEF LeftSound
  <1>4. CASE ~left.truncated
    <2>1. left' = LeftoversEnd(left.failures)
      BY <1>4, Zenon DEF PageEnd, NextPage
    <2>2. PICK failures \in 0..1 : failures = left.failures
      BY <1>2, LeftFields
    <2>3. failures = 0 => \A u \in left.start : ~(Matches(u) /\ IsOpen(u))
      BY <1>3, <1>4, <2>2, Zenon
    <2>4. QED
      BY <1>1, <2>1, <2>2, <2>3, EndKeeps, Zenon
  <1>5. CASE left.truncated
    <2>1. left' = [left EXCEPT !.pc = "list"]
      BY <1>5 DEF PageEnd, NextPage
    <2>2. /\ left' \in LeftRecords /\ left'.pc = "list" /\ left'.marker = left.marker
          /\ left'.start = left.start /\ left'.failures = left.failures
          /\ left'.prefix = left.prefix /\ left'.older = left.older /\ left'.exit = left.exit
          /\ left'.missed = left.missed
      BY <1>2, <2>1 DEF LeftRecords
    <2>3. \A u : Matches(u)' = Matches(u) /\ IsOpen(u)' = IsOpen(u)
      BY <1>1, <2>2, Zenon DEF Matches, IsOpen
    <2>4. LeftSound'
      <3>1. /\ left'.start \subseteq DOMAIN uploads' /\ (left'.exit = 0 => left'.missed = {})
            /\ \A u \in left'.start : left'.failures = 0 /\ Matches(u)' /\ IsOpen(u)' =>
                  u > left'.marker
        BY <1>1, <1>3, <2>2, <2>3, Zenon
      <3>2. QED
        BY <2>2, <3>1 DEF LeftSound
    <2>5. QED
      BY <1>1, <2>2, <2>4, LeftKeeps, Zenon
  <1>6. QED
    BY <1>4, <1>5

-----------------------------------------------------------------------------
(* The theorems.                                                           *)

\* The contents of an object are data.
LEMMA ContentsAreData == Contents \subseteq Data
  <1> SUFFICES ASSUME NEW data \in Contents PROVE data \in Data
    OBVIOUS
  <1>1. PICK n \in 0..MaxChunks :
           /\ data \in [1..n -> UNION {Chunk(c) : c \in 1..n}]
           /\ \A c \in 1..n : data[c] \in Chunk(c)
    BY Zenon DEF Contents
  <1>2. n \in Nat /\ n <= MaxChunks
    BY UploadsAssumption
  <1>3. ASSUME NEW c \in 1..n PROVE data[c] \in Cells
    <2>1. data[c] \in {c} \X {"source", "old", "late"}
      BY <1>1 DEF Chunk
    <2>2. c \in 0..MaxChunks
      BY <1>2, UploadsAssumption
    <2>3. QED
      BY <2>1, <2>2 DEF Cells
  <1>4. data = [c \in 1..n |-> data[c]]
    BY <1>1
  <1>5. data \in Seq(Cells) /\ Len(data) = n
    BY <1>2, <1>3, <1>4, IsASeq
  <1>6. QED
    BY <1>2, <1>5 DEF Data

\* At first there is an upload of an earlier run, and the jobs have not begun.
LEMMA InitInv == Init => UploadsInv
  <1> SUFFICES ASSUME Init PROVE UploadsInv
    OBVIOUS
  <1>1. DataTypes
    <2>1. source \in [Jobs -> Data]
      <3>1. {By("source", n) : n \in 1..MaxChunks} \subseteq Data
        <4>1. \A n \in 1..MaxChunks : n \in 0..MaxChunks
          BY UploadsAssumption
        <4>2. QED
          BY <4>1, ByData
      <3>2. QED
        BY <3>1 DEF Init
    <2>2. object \in [Jobs -> Data]
      BY ContentsAreData DEF Init
    <2>3. was = [j \in Jobs |-> {object[j]}] /\ kind \in [Jobs -> Kinds]
          /\ touched = [j \in Jobs |-> FALSE]
      BY Zenon DEF Init
    <2>4. was \in [Jobs -> SUBSET Data] /\ \A j \in Jobs : object[j] \in was[j]
      BY <2>2, <2>3
    <2>5. touched \in [Jobs -> BOOLEAN]
      BY <2>3
    <2>6. QED
      BY <2>1, <2>2, <2>3, <2>4, <2>5, Zenon DEF DataTypes
  <1>2. NewJob \in JobRecords /\ job = [j \in Jobs |-> NewJob]
    BY NewJobFields, Zenon DEF Init
  <1>3. JobTypes
    BY <1>2 DEF JobTypes
  <1> DEFINE orphan == [Upload(None, FALSE) EXCEPT !.known = TRUE]
  <1>4. orphan \in UploadRecords /\ orphan.registers = FALSE
    <2>1. None \in Jobs \cup {None} /\ NoSums \in [Chunks -> Cells]
      BY NoSumsFacts
    <2>2. QED
      BY <2>1 DEF Upload, UploadRecords
  <1>5. uploads = [u \in {1} |-> orphan]
    BY Zenon DEF Init, Orphan
  <1> HIDE DEF orphan
  <1>6. uploads \in Seq(UploadRecords) /\ DOMAIN uploads = {1} /\ uploads[1] = orphan
    <2>1. {1} = 1..1
      OBVIOUS
    <2>2. uploads = [u \in 1..1 |-> orphan]
      BY <1>5, <2>1, Zenon
    <2>3. uploads \in Seq(UploadRecords)
      BY <1>4, <2>2, IsASeq
    <2>4. QED
      BY <1>5, <2>3
  <1>7. UploadTypes /\ RegistryTypes /\ PhaseTypes
    BY <1>6 DEF UploadTypes, RegistryTypes, PhaseTypes, Init
  <1>8. LeftTypes /\ LeftSound
    <2>1. left = NoLeftovers
      BY Zenon DEF Init
    <2>2. NoLeftovers \in LeftRecords
      <3>1. -1 \in -1..1 /\ 0 \in 0..1 /\ {} \in SUBSET Nat /\ None \in Jobs \cup {None}
        OBVIOUS
      <3>2. QED
        BY <3>1 DEF NoLeftovers, LeftRecords
    <2>3. /\ NoLeftovers.start = {} /\ NoLeftovers.marker = 0 /\ NoLeftovers.exit = -1
          /\ NoLeftovers.pc = "start"
      BY DEF NoLeftovers
    <2>4. QED
      BY <2>1, <2>2, <2>3 DEF LeftTypes, LeftSound
  <1>9. JobsEnd
    BY Zenon DEF JobsEnd, Init
  <1>10. Registry
    BY <1>4, <1>6 DEF Registry, Pending
  <1>11. ASSUME NEW j \in Jobs PROVE JobSound(j)
    <2>1. /\ job[j] = NewJob /\ NewJob.pc = "start" /\ NewJob.crcs = <<>> /\ NewJob.ids = <<>>
          /\ NewJob.success = FALSE /\ \A c \in Chunks : NewJob.sums[c] = None
          /\ \A c \in Chunks : NewJob.work[c].state = "idle"
      BY <1>2 DEF NewJob, NoSums, Idle
    <2>2. BusyBelongs(j) /\ SumsHonest(j)
      <3>1. Busy(j) = {}
        BY <2>1 DEF Busy
      <3>2. QED
        BY <2>1, <3>1 DEF BusyBelongs, SumsHonest
    <2>3. /\ "start" \notin Holding /\ "start" \notin FanOut /\ "start" \notin DiffPcs
          /\ "start" \in CopyPcs /\ "start" \notin {"hash_check"} \cup FanOut
      BY DEF Holding, FanOut, DiffPcs, CopyPcs
    <2>4. Owned(j) /\ HashSound(j)
      BY <2>1, <2>2, <2>3, Zenon DEF Owned, HashSound, Honest
    <2>5. KindSound(j)
      BY <2>1, <2>3 DEF KindSound
    <2>6. was[j] = {object[j]}
      BY DEF Init
    <2>7. SizesSound(j)
      BY <2>1, <2>3, <2>6 DEF SizesSound
    <2>8. PartsSound(j) /\ SuccessSound(j)
      BY <2>1 DEF PartsSound, SuccessSound
    <2>9. QED
      BY <2>2, <2>4, <2>5, <2>7, <2>8, Zenon DEF JobSound
  <1>12. QED
    BY <1>1, <1>3, <1>7, <1>8, <1>9, <1>10, <1>11, Zenon DEF UploadsInv, UploadsTyped, JobsSound

\* Every step of a job, of a thread, of the command, of others and of leftovers.
LEMMA StepInv == UploadsInv /\ [Next]_vars => UploadsInv'
  <1> SUFFICES ASSUME UploadsInv, [Next]_vars PROVE UploadsInv'
    OBVIOUS
  <1>1. ASSUME NEW j \in Jobs, JobStep(j) PROVE UploadsInv'
    BY <1>1, HashSizeKeeps, GetChunkCRC32sKeeps, SubmitKeeps, LaunchKeeps, WaitForKeeps,
       JoinKeeps, HashAbortKeeps, CopyStartKeeps, AgainKeeps, CopyObjectKeeps, StatKeeps,
       LocalCRCsKeeps, HeadObjectKeeps, DecideKeeps, PutKeeps, OpenKeeps, UploadPartKeeps,
       CompleteKeeps, AbortKeeps, Zenon DEF JobStep
  <1>2. ASSUME NEW j \in Jobs, ChunkStep(j) PROVE UploadsInv'
    BY <1>2, BeginChunkKeeps, ProcessSingleChunkKeeps, FinishChunkKeeps, Zenon DEF ChunkStep
  <1>3. ASSUME RequestShutdown \/ Cancel \/ Terminated \/ UNCHANGED vars
        PROVE  UploadsInv'
    <2>1. UNCHANGED <<kind, source, object, uploads, was, registered, job, phase, to_abort, left,
                      touched>>
      BY <1>3, Zenon DEF RequestShutdown, Cancel, Terminated, vars, bucketVars,
         commandVars, otherVars
    <2>2. QED
      BY <2>1, NothingKeeps, Zenon
  <1>4. CASE CommandStep
    BY <1>3, <1>4, AbortAllKeeps, AbortOneKeeps, ExitKeeps, Zenon DEF CommandStep
  <1>5. CASE ProgramStep
    BY <1>1, <1>2, <1>4, <1>5, Zenon DEF ProgramStep
  <1>6. CASE \E j \in Jobs : WriteSource(j) \/ WriteObject(j)
    BY <1>6, WriteSourceKeeps, WriteObjectKeeps, Zenon
  <1>7. CASE LeftoversStep
    BY <1>7, ListMultipartUploadsKeeps, AbortPageKeeps, PageEndKeeps, Zenon DEF LeftoversStep
  <1>8. QED
    BY <1>3, <1>5, <1>6, <1>7, KillKeeps, LeftoversStartKeeps, Zenon DEF Next

\* The inductive invariant.
THEOREM UploadsInvariant == Spec => []UploadsInv
    BY InitInv, StepInv, PTL DEF Spec

\* What GetHashes returns has one checksum for each chunk asked for, each one
\* that this chunk really had: nothing is made up for a chunk that failed, was
\* skipped by a shutdown or timed out.
THEOREM ChecksumsAreHonest == Spec => []HashesHonest
  <1>1. UploadsInv => HashesHonest
    <2> SUFFICES ASSUME UploadsInv, NEW j \in Jobs, job[j].crcs # <<>>
                 PROVE  /\ Len(job[j].crcs) = Len(AskedFor(job[j]))
                        /\ \A i \in DOMAIN AskedFor(job[j]) :
                              \E data \in was[j] :
                                 /\ AskedFor(job[j])[i] \in DOMAIN data
                                 /\ job[j].crcs[i] = data[AskedFor(job[j])[i]]
      BY Zenon DEF HashesHonest, AskedFor
    <2>1. Honest(j)
      BY JobOf, Zenon DEF JobSound, HashSound
    <2>2. QED
      BY <2>1, Zenon DEF Honest
  <1>2. QED
    BY <1>1, UploadsInvariant, PTL

\* No thread of the process adds parts to an upload that the process has begun
\* to abort: the fan-out is joined first, and abort_all runs after the jobs.
THEOREM AbortsAreAlone == Spec => []NoLiveAbort
  <1>1. UploadsInv => NoLiveAbort
    <2> SUFFICES ASSUME UploadsInv, NEW j \in Jobs
                 PROVE  /\ job[j].pc \in {"hash_abort", "decide", "returned"} => Busy(j) = {}
                        /\ phase = "abort_all" => job[j].pc = "returned"
      BY Zenon DEF NoLiveAbort
    <2>1. BusyBelongs(j)
      BY JobOf, Zenon DEF JobSound
    <2>2. phase = "abort_all" => job[j].pc = "returned"
      BY DEF UploadsInv, JobsEnd
    <2>3. QED
      BY <2>1, <2>2 DEF BusyBelongs
  <1>2. QED
    BY <1>1, UploadsInvariant, PTL

\* When the command ends, a registered upload whose id was received is closed,
\* or its abort has failed twice: in the job, and in abort_all.
THEOREM AbortsAreRetried == Spec => []RetriedAtExit
  <1>1. UploadsInv => RetriedAtExit
    BY DEF UploadsInv, Registry, Pending, RetriedAtExit
  <1>2. QED
    BY <1>1, UploadsInvariant, PTL

\* A copy or an upload that reports success has put in place what it was to
\* put, whatever failed on the way, if others wrote neither the objects nor,
\* between its stat and its checksums, the file.
THEOREM SuccessIsTrue == Spec => []SuccessMeansContent
  <1>1. UploadsInv => SuccessMeansContent
    <2> SUFFICES ASSUME UploadsInv, NEW j \in Jobs, job[j].success, ~touched[j],
                        kind[j] = "diff_upload" => Len(job[j].local) = job[j].size
                 PROVE  object[j] = job[j].want
      BY Zenon DEF SuccessMeansContent
    <2>1. SuccessSound(j)
      BY JobOf, Zenon DEF JobSound
    <2>2. QED
      BY <2>1, Zenon DEF SuccessSound
  <1>2. QED
    BY <1>1, UploadsInvariant, PTL

\* After a leftovers --abort that reports success, every upload there was at
\* its start, under the prefix and old enough, is gone.
THEOREM LeftoversAreGone == Spec => []LeftoversClean
  <1>1. UploadsInv => LeftoversClean
    BY Zenon DEF UploadsInv, LeftSound, LeftoversClean
  <1>2. QED
    BY <1>1, UploadsInvariant, PTL
================================================================

------------------------------- MODULE S3Client --------------------------------
(***************************************************************************)
(* The requests of the S3 client (s3_client_impl.cpp) and their retries,   *)
(* against a service that need not behave like S3: it may ignore a range,  *)
(* omit or garble Content-Range, cut a body short, answer HEAD with 404    *)
(* for a key it lists, fail for a moment or for good, and apply a request  *)
(* that it then reports as failed.  The object and the local file may be   *)
(* written by others between any two requests.                             *)
(*                                                                         *)
(* Contents are sequences of blocks; a block carries the writer that wrote *)
(* it and its offset, so a block at the wrong place can be told from the   *)
(* right one.                                                              *)
(***************************************************************************)
EXTENDS Integers, Sequences, FiniteSets

CONSTANTS
    MaxLen,      \* bound: blocks of an object
    MaxFile,     \* bound: blocks of a local file
    MaxWrites,   \* bound: writes by others
    MaxRetries,  \* m_max_retries
    Int64Max,    \* the largest offset
    MaxPut       \* kMaxSinglePutBytes, in blocks

ASSUME S3ClientAssumption ==
    /\ MaxLen \in Nat /\ MaxWrites \in Nat /\ MaxRetries \in Nat
    /\ Int64Max \in Nat /\ Int64Max > MaxLen
    /\ MaxPut \in Nat /\ MaxFile \in Nat

VARIABLES
    gateway,  \* how the service behaves: fixed for a run
    allow_unverified_ranges,
    object,   \* the object at the key: [exists, data]
    sibling,  \* there is an object at a key that the key is a prefix of
    file,     \* the local file to upload, an argument of the call
    writes,   \* writes by others so far
    call,     \* the call under way or the last one
    step,     \* what it does next, or "returned"
    attempt,
    sent,     \* PutObjectStreamed: the blocks read from the file so far
    limit,    \* PutObjectStreamed: the declared Content-Length
    result,
    seen,     \* ghost: what the bucket held at some time during the call
    failures  \* ghost: the kinds of answer the call has met

bucketVars == <<object, sibling>>
otherVars  == <<gateway, allow_unverified_ranges, writes>>
putVars    == <<sent, limit>>
clientVars == <<bucketVars, otherVars, putVars, file, call, step, attempt, result, seen, failures>>

Content(writer, n) == [i \in 1..n |-> <<writer, i>>]
Absent  == [exists |-> FALSE, data |-> <<>>]
Object(data) == [exists |-> TRUE, data |-> data]
Keys    == {"key", "key/sub"}

Operations == {"GetObjectSize", "CheckObjectPresence", "GetObjectRange",
               "GetObjectRangeInto", "GetChunkCRC32s", "ListObjects",
               "DeleteObject", "DeleteObjects", "PutObjectFromFile"}
RangeReads == {"GetObjectRange", "GetObjectRangeInto", "GetChunkCRC32s"}

\* What every operation returns when it fails.
Failed == [ok |-> FALSE, data |-> <<>>, size |-> -1, presence |-> "Unknown", keys |-> {}]

Snapshot == [object |-> object, keys |-> {k \in Keys : IF k = "key" THEN object.exists ELSE sibling}]

Gateways ==
    [range  : {"honours", "ignores"},
     header : {"sent", "omitted", "unreadable"},
     head_encodes_key : BOOLEAN,  \* otherwise HEAD of the key is a 404
     bucket : BOOLEAN]            \* the bucket exists

ClientInit ==
    /\ gateway \in Gateways /\ allow_unverified_ranges \in BOOLEAN
    /\ object \in {Absent} \cup {Object(Content(0, n)) : n \in 0..MaxLen}
    /\ sibling \in BOOLEAN
    /\ ~gateway.bucket => object = Absent /\ ~sibling
    /\ file = <<>>
    /\ writes = 0
    /\ call = [op |-> "GetObjectSize", start |-> 0, end |-> 0, ids |-> <<>>]
    /\ step = "returned" /\ attempt = 0 /\ sent = <<>> /\ limit = 0
    /\ result = Failed /\ seen = {} /\ failures = {}

-----------------------------------------------------------------------------
(* Errors and retries.                                                     *)

\* An error as the client sees it: its type, the curl code in its message, and
\* whether the message has one of the phrases that hint at a retry.
Error(type, curl, hint) == [type |-> type, curl |-> curl, hint |-> hint]
Errors == {Error("SLOW_DOWN", -1, FALSE), Error("UNKNOWN", 28, FALSE),
           Error("UNKNOWN", -1, TRUE), Error("UNKNOWN", 60, FALSE),
           Error("ACCESS_DENIED", -1, FALSE)}

RetryableTypes == {"NETWORK_CONNECTION", "REQUEST_TIMEOUT", "THROTTLING", "SLOW_DOWN",
                   "INTERNAL_FAILURE", "SERVICE_UNAVAILABLE"}

\* ExtractCurlCode matches all the digits: 60 is not 6.
IsRetryableS3Error(e) == e.type \in RetryableTypes \/ e.curl \in {6, 7, 28} \/ e.hint

Return(r) == step' = "returned" /\ result' = r /\ UNCHANGED attempt
Retry     == attempt' = attempt + 1 /\ UNCHANGED <<step, result>>

\* Mutation of RetryOrReturn: one attempt too few.
RetryOrReturnEarly(transient, r) ==
    IF attempt + 1 < MaxRetries /\ transient THEN Retry ELSE Return(r)

\* The end of every attempt that failed.
RetryOrReturn(transient, r) ==
    IF attempt < MaxRetries /\ transient THEN Retry ELSE Return(r)

\* The request does not succeed: an error answer, or an exception.  Of an
\* operation without a retry loop it is the result.
NoSuccess ==
    \/ \E e \in Errors :
          /\ RetryOrReturn(IsRetryableS3Error(e), Failed)
          /\ failures' = failures \cup {IF IsRetryableS3Error(e) THEN "transient" ELSE "permanent"}
    \/ RetryOrReturn(TRUE, Failed) /\ failures' = failures \cup {"transient"}

\* Any other answer than the one hoped for.
OtherAnswer == failures' = failures \cup {"permanent"}

-----------------------------------------------------------------------------
(* HEAD and the listing probe.                                             *)

HeadFinds == object.exists /\ gateway.head_encodes_key

GetObjectSize ==
    /\ step = "request" /\ call.op = "GetObjectSize"
    /\ \/ HeadFinds /\ Return([Failed EXCEPT !.ok = TRUE, !.size = Len(object.data)])
                    /\ UNCHANGED failures
       \/ ~HeadFinds /\ Return(Failed) /\ OtherAnswer
       \/ NoSuccess
    /\ UNCHANGED <<bucketVars, otherVars, putVars, file, call, seen>>

Presence(p) == [Failed EXCEPT !.ok = TRUE, !.presence = p]

\* A 404 may come from a missing bucket, which is told apart by its error type
\* or not at all.
CheckObjectPresence ==
    /\ step = "request" /\ call.op = "CheckObjectPresence"
    /\ \/ HeadFinds /\ Return(Presence("Exists")) /\ UNCHANGED failures
       \/ ~HeadFinds /\ ~gateway.bucket /\ Return(Failed) /\ OtherAnswer
       \/ ~HeadFinds /\ step' = "probe" /\ OtherAnswer /\ UNCHANGED <<attempt, result>>
       \/ NoSuccess
    /\ UNCHANGED <<bucketVars, otherVars, putVars, file, call, seen>>

\* Mutation of Probe: the probe only shows that there is a bucket.
ProbeBucket ==
    /\ step = "probe"
    /\ \/ gateway.bucket /\ Return(Presence("NotFound"))
       \/ Return(Failed)
    /\ UNCHANGED <<bucketVars, otherVars, putVars, file, call, seen, failures>>

\* ListObjectsV2 with the key as prefix and MaxKeys 1.  The key sorts before every
\* key it is a prefix of.  An error answer is not retried, whatever it is; an
\* exception starts the next attempt with HEAD.
Probe ==
    /\ step = "probe"
    /\ \/ /\ gateway.bucket
          /\ Return(Presence(IF object.exists THEN "Exists" ELSE "NotFound"))
       \/ Return(Failed)
       \/ attempt < MaxRetries /\ attempt' = attempt + 1 /\ step' = "request" /\ UNCHANGED result
    /\ UNCHANGED <<bucketVars, otherVars, putVars, file, call, seen, failures>>

ListObjects ==
    /\ step = "request" /\ call.op = "ListObjects"
    /\ \/ /\ gateway.bucket
          /\ Return([Failed EXCEPT !.ok = TRUE, !.keys = Snapshot.keys])
          /\ UNCHANGED failures
       \/ ~gateway.bucket /\ Return(Failed) /\ OtherAnswer
       \/ NoSuccess
    /\ UNCHANGED <<bucketVars, otherVars, putVars, file, call, seen>>

-----------------------------------------------------------------------------
(* Reading a range.                                                        *)

\* ValidateRange; a span of Int64Max has no length in int64_t.
ValidateRange(start, end) == start >= 0 /\ end >= start /\ end - start # Int64Max
ExpectedLength == call.end - call.start + 1

\* GetChunkCRC32s of an object of one chunk: what it refuses or answers without a
\* request.  The size is call.end + 1.
ChunkRequestOk ==
    /\ \A i \in 1..Len(call.ids) : call.ids[i] = 0
    /\ call.end >= 0

\* Mutation of RangeResponseHonoursRequest: the length of the body is proof enough.
RangeResponseHonoursRequestByLength(range) == TRUE

\* range: the Content-Range of the answer.
RangeResponseHonoursRequest(range) ==
    IF range.header = "omitted"
    THEN call.start = 0 \/ allow_unverified_ranges
    ELSE range.header = "sent" /\ range.first = call.start /\ range.last = call.end

\* The whole answer of the service to the range: an honoured one ends with the
\* object, and one that starts behind it is an error.
Honoured == gateway.range = "honours"
Satisfiable == object.exists /\ (Honoured => call.start < Len(object.data))
LastSent == IF call.end < Len(object.data) THEN call.end ELSE Len(object.data) - 1
FullBody == IF Honoured THEN SubSeq(object.data, call.start + 1, LastSent + 1) ELSE object.data
ContentRange ==
    [header |-> IF Honoured THEN gateway.header ELSE "omitted",
     first  |-> call.start, last |-> LastSent]

\* The checksums, one for each id asked for, in their order.
ReadResult(body) ==
    [Failed EXCEPT !.ok = TRUE, !.data =
        IF call.op = "GetChunkCRC32s"
        THEN [i \in 1..(IF call.ids = <<>> THEN 1 ELSE Len(call.ids)) |-> body]
        ELSE body]

\* A body that is too long is a range ignored; one that is too short is worth one
\* more attempt, if this is the first.
Accept(body) ==
    IF Len(body) > ExpectedLength THEN Return(Failed)
    ELSE IF Len(body) < ExpectedLength
         THEN IF attempt < 1 /\ attempt < MaxRetries THEN Retry ELSE Return(Failed)
         ELSE Return(ReadResult(body))

\* GetObjectRange and GetObjectRangeInto, whose buffer is the data of the result:
\* every failure clears it.
GetObjectRange ==
    /\ step = "request" /\ call.op \in RangeReads
    /\ call.op = "GetChunkCRC32s" => ChunkRequestOk
    /\ \/ /\ Satisfiable
          /\ \E n \in 0..Len(FullBody) :
                IF RangeResponseHonoursRequest(ContentRange)
                THEN Accept(SubSeq(FullBody, 1, n))
                ELSE Return(Failed)
          /\ OtherAnswer
       \/ ~Satisfiable /\ Return(Failed) /\ OtherAnswer
       \/ NoSuccess
       \* the buffer cannot be sized
       \/ Satisfiable /\ call.op = "GetObjectRangeInto" /\ Return(Failed) /\ OtherAnswer
    /\ UNCHANGED <<bucketVars, otherVars, putVars, file, call, seen>>

-----------------------------------------------------------------------------
(* Deleting.  A request that fails may have been applied, to some keys.    *)

Asked == IF call.op = "DeleteObject" THEN {"key"} ELSE Keys

Remove(ks) ==
    /\ object' = IF "key" \in ks THEN Absent ELSE object
    /\ sibling' = (sibling /\ "key/sub" \notin ks)
    /\ seen' = seen \cup {Snapshot'}

\* The keys not confirmed: the result of DeleteObjects.
Unconfirmed(ks) == [Failed EXCEPT !.ok = (ks = {}), !.keys = ks]

\* Mutation of DeleteFails: the errors named in the answer are all there is to know.
DeleteFailsEmpty(applied) == Remove(applied) /\ Return(Unconfirmed({}))

\* The whole request failed or threw: every key is reported, none is retried here.
DeleteFails(applied) == Remove(applied) /\ Return(Unconfirmed(Asked))

DeleteObjects ==
    /\ step = "request" /\ call.op \in {"DeleteObject", "DeleteObjects"}
    /\ \/ \E refused \in SUBSET Asked :
             /\ gateway.bucket
             /\ call.op = "DeleteObject" => refused = {}
             /\ Remove(Asked \ refused) /\ Return(Unconfirmed(refused))
       \/ \E applied \in SUBSET Asked : DeleteFails(applied)
    /\ UNCHANGED <<otherVars, putVars, file, call, failures>>

-----------------------------------------------------------------------------
(* Uploading a file without a copy in memory.                              *)

\* PutObjectFromFile: the size is that of now, and too large a file is refused.
Stat ==
    /\ step = "stat"
    /\ IF Len(file) > MaxPut
       THEN Return(Failed) /\ UNCHANGED limit
       ELSE step' = "stream" /\ limit' = Len(file) /\ UNCHANGED <<attempt, result>>
    /\ UNCHANGED <<bucketVars, otherVars, sent, file, call, seen, failures>>

\* Mutation of Underflow: the stream ends with the file.
UnderflowUnbounded ==
    /\ step = "stream" /\ Len(sent) < Len(file)
    /\ sent' = Append(sent, file[Len(sent) + 1])
    /\ UNCHANGED <<bucketVars, otherVars, limit, file, call, step, attempt, result, seen, failures>>

\* BoundedFileBuf::underflow fills its buffer, here one block, from the file as
\* it is now.
Underflow ==
    /\ step = "stream" /\ Len(sent) < limit /\ Len(sent) < Len(file)
    /\ sent' = Append(sent, file[Len(sent) + 1])
    /\ UNCHANGED <<bucketVars, otherVars, limit, file, call, step, attempt, result, seen, failures>>

\* BoundedFileBuf::seekoff: the SDK starts again from the beginning.
Seek ==
    /\ step = "stream" /\ sent # <<>>
    /\ sent' = <<>>
    /\ UNCHANGED <<bucketVars, otherVars, limit, file, call, step, attempt, result, seen, failures>>

\* The end of the stream.  The service takes a body of the declared length only;
\* an upload that is reported as failed may have been stored.
PutObjectStreamed ==
    /\ step = "stream" /\ (Len(sent) >= limit \/ Len(sent) >= Len(file))
    /\ \/ /\ gateway.bucket /\ Len(sent) >= limit
          /\ object' = Object(sent)
          /\ \E stored \in BOOLEAN : Return([Failed EXCEPT !.ok = stored])
       \/ Return(Failed) /\ UNCHANGED object
    /\ sibling' = sibling
    /\ seen' = seen \cup {Snapshot'}
    /\ UNCHANGED <<otherVars, putVars, file, call, failures>>

\* The file is missing or cannot be opened, before the first block is read.
OpenFails ==
    /\ step \in {"stat", "stream"} /\ sent = <<>>
    /\ Return(Failed)
    /\ UNCHANGED <<bucketVars, otherVars, putVars, file, call, seen, failures>>

-----------------------------------------------------------------------------
(* The callers and the others who write.                                   *)

FirstStep(c) ==
    IF c.op = "PutObjectFromFile" THEN "stat"
    ELSE IF c.op \in {"GetObjectRange", "GetObjectRangeInto"} /\ ~ValidateRange(c.start, c.end)
         THEN "returned" ELSE "request"

\* Every range, reversed, negative and overlong ones included.
Calls ==
    LET C(op, start, end, ids) == [op |-> op, start |-> start, end |-> end, ids |-> ids]
    IN  {C(op, 0, 0, <<>>) : op \in Operations \ RangeReads}
        \cup {C(op, s, e, <<>>) : op \in {"GetObjectRange", "GetObjectRangeInto"},
                                  s \in -1..MaxLen, e \in (-1..MaxLen) \cup {Int64Max}}
        \cup {C("GetChunkCRC32s", 0, e, ids) : e \in -2..MaxLen - 1,
                                               ids \in {<<>>, <<0>>, <<0, 0>>, <<1>>}}

Call(c) ==
    /\ step = "returned"
    /\ call' = c /\ result' = Failed /\ attempt' = 0 /\ sent' = <<>> /\ limit' = 0
    /\ seen' = {Snapshot} /\ failures' = {}
    /\ step' = FirstStep(c)
    /\ file' \in IF c.op = "PutObjectFromFile" THEN {Content(0, n) : n \in 0..MaxFile} ELSE {<<>>}
    /\ UNCHANGED <<bucketVars, otherVars>>

\* GetChunkCRC32s that makes no request.
RefuseChunks ==
    /\ step = "request" /\ call.op = "GetChunkCRC32s" /\ ~ChunkRequestOk
    /\ Return(Failed)
    /\ UNCHANGED <<bucketVars, otherVars, putVars, file, call, seen, failures>>

\* Another client replaces or removes the object during a call.
ObjectWritten ==
    /\ step # "returned" /\ gateway.bucket /\ writes < MaxWrites
    /\ writes' = writes + 1
    /\ object' \in {Absent} \cup {Object(Content(writes', n)) : n \in 0..MaxLen}
    /\ sibling' = sibling
    /\ seen' = seen \cup {Snapshot'}
    /\ UNCHANGED <<gateway, allow_unverified_ranges, putVars, file, call, step, attempt,
                   result, failures>>

\* Another process appends to the file, truncates it or rewrites it.
FileWritten ==
    /\ step \in {"stat", "stream"} /\ writes < MaxWrites
    /\ writes' = writes + 1
    /\ \/ \E n \in 0..Len(file) - 1 : file' = SubSeq(file, 1, n)
       \/ Len(file) < MaxFile /\ file' = Append(file, <<writes', Len(file) + 1>>)
       \/ \E n \in 0..MaxFile : file' = Content(writes', n)
    /\ UNCHANGED <<gateway, allow_unverified_ranges, bucketVars, putVars, call, step, attempt,
                   result, seen, failures>>

ClientNext ==
    \/ \E c \in Calls : Call(c)
    \/ GetObjectSize \/ CheckObjectPresence \/ Probe \/ ListObjects
    \/ GetObjectRange \/ RefuseChunks
    \/ DeleteObjects
    \/ Stat \/ Underflow \/ Seek \/ PutObjectStreamed \/ OpenFails
    \/ ObjectWritten \/ FileWritten

ClientSpec == ClientInit /\ [][ClientNext]_clientVars

-----------------------------------------------------------------------------
Blocks == (0..MaxWrites) \X (1..MaxLen + MaxFile)

\* The variables hold what the code can hold.
ClientTypeOK ==
    /\ gateway \in Gateways /\ allow_unverified_ranges \in BOOLEAN
    /\ object.exists \in BOOLEAN
    /\ \A d \in {object.data, file, sent} : \A i \in 1..Len(d) : d[i] \in Blocks
    /\ sibling \in BOOLEAN /\ writes \in 0..MaxWrites
    /\ call \in Calls /\ step \in {"request", "probe", "stat", "stream", "returned"}
    /\ attempt \in 0..MaxRetries /\ limit \in 0..MaxPut
    /\ result.ok \in BOOLEAN /\ result.size \in -1..MaxLen + MaxFile
    /\ result.presence \in {"Exists", "NotFound", "Unknown"} /\ result.keys \subseteq Keys

Answered(ops) == step = "returned" /\ call.op \in ops /\ result.ok

\* The exception that --allow-unverified-ranges makes: the service ignores ranges
\* and says nothing of what it sends.
Unplaceable == allow_unverified_ranges /\ gateway.range = "ignores"

\* A range read that succeeds (GetObjectRange, GetObjectRangeInto, and the
\* checksums GetChunkCRC32s takes of a small object, one for each id asked for)
\* returns exactly the bytes asked for, at their place, all of one version the
\* object had during the call: whatever the service does with the range, its
\* header or its body, and whichever attempt it was.
RangeIsExact ==
    Answered(RangeReads) /\ ~Unplaceable =>
        \E s \in seen :
            LET bytes == SubSeq(s.object.data, call.start + 1, call.end + 1)
            IN  /\ call.end < Len(s.object.data)
                /\ result.data = IF call.op = "GetChunkCRC32s"
                                 THEN [i \in 1..(IF call.ids = <<>> THEN 1 ELSE Len(call.ids)) |-> bytes]
                                 ELSE bytes

\* What CheckObjectPresence, GetObjectSize and ListObjects report was so at some
\* time during the call; in particular NotFound means that there was a bucket and
\* no such object in it, never that a request failed.
ReportsAreTrue ==
    /\ Answered({"CheckObjectPresence"}) =>
          /\ result.presence = "NotFound" =>
                gateway.bucket /\ \E s \in seen : ~s.object.exists
          /\ result.presence = "Exists" => \E s \in seen : s.object.exists
    /\ Answered({"GetObjectSize"}) =>
          \E s \in seen : s.object.exists /\ Len(s.object.data) = result.size
    /\ Answered({"ListObjects"}) => \E s \in seen : s.keys = result.keys

\* A key that DeleteObject or DeleteObjects does not report as failed was gone at
\* some time during the call.
DeletesAreConfirmed ==
    step = "returned" /\ call.op \in {"DeleteObject", "DeleteObjects"} /\ seen # {} =>
        \A k \in Asked \ result.keys : \E s \in seen : k \notin s.keys

\* An upload that succeeds stored as many blocks as the file had when it was
\* measured, each as the file had it at that offset; if the file was only appended
\* to, the object is a prefix of it.
UploadIsThePrefix ==
    Answered({"PutObjectFromFile"}) =>
        /\ Len(sent) = limit
        /\ \E s \in seen : s.object = Object(sent)
        /\ \A i \in 1..Len(sent) : sent[i][2] = i

\* A call that only met transient failures gives up after its last attempt, not
\* before (IsRetryableS3Error and the retry loops).
TransientIsRetried ==
    step = "returned" /\ failures = {"transient"} /\ ~result.ok => attempt = MaxRetries
=============================================================================

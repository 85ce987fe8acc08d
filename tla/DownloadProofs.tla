---------------------------- MODULE DownloadProofs ----------------------------
(***************************************************************************)
(* The downloads.  WriteQueue is type correct, the counts of a download    *)
(* are complete, and when the pool is small enough for the queue           *)
(* (PoolFitsQueue) backpressure never stalls it, for every set of files,   *)
(* of pool threads and of disk writers, and for every capacity.            *)
(* DownloadInv is an invariant of DownloadFile, so what a run reports as   *)
(* current is the object, for every size, chunk contents, bound and clock  *)
(* lag.                                                                    *)
(***************************************************************************)
EXTENDS WriteQueue, DownloadFile, FiniteSetTheorems, TLAPS

-----------------------------------------------------------------------------
(* The queue of the disk writers.                                          *)

\* The number of elements of S that f maps to s.
Count(S, f, s) == Cardinality({x \in S : f[x] = s})

\* A count is a natural number no larger than the set.
LEMMA CountType ==
    ASSUME NEW S, IsFiniteSet(S), NEW f, NEW s
    PROVE  /\ IsFiniteSet({x \in S : f[x] = s})
           /\ Count(S, f, s) \in Nat
           /\ Count(S, f, s) <= Cardinality(S)
           /\ Cardinality(S) \in Nat
    BY FS_Subset, FS_CardinalityType DEF Count

\* Counts of three different states are disjoint parts of the set.
LEMMA CountDisjoint ==
    ASSUME NEW S, IsFiniteSet(S), NEW f, NEW s, NEW t, NEW u,
           s # t, s # u, t # u
    PROVE  Count(S, f, s) + Count(S, f, t) + Count(S, f, u) <= Cardinality(S)
  <1> DEFINE A == {x \in S : f[x] = s}
             B == {x \in S : f[x] = t}
             C == {x \in S : f[x] = u}
             D == A \cup B
  <1>1. /\ A \in SUBSET S /\ B \in SUBSET S /\ C \in SUBSET S
        /\ A \cap B = {} /\ D \cap C = {} /\ D \cup C \in SUBSET S
    OBVIOUS
  <1>2. Count(S, f, s) = Cardinality(A) /\ Count(S, f, t) = Cardinality(B)
        /\ Count(S, f, u) = Cardinality(C)
    BY DEF Count
  <1>3. D = A \cup B
    OBVIOUS
  <1> HIDE DEF A, B, C, D
  <1>4. IsFiniteSet(A) /\ IsFiniteSet(B) /\ IsFiniteSet(C)
    BY <1>1, FS_Subset
  <1>5. /\ Cardinality(A) \in Nat /\ Cardinality(B) \in Nat
        /\ Cardinality(C) \in Nat /\ Cardinality(S) \in Nat
    BY <1>4, FS_CardinalityType
  <1>6. Cardinality({}) = 0
    BY FS_EmptySet
  <1>7. IsFiniteSet(D) /\ Cardinality(D) = Cardinality(A) + Cardinality(B)
    <2>1. /\ IsFiniteSet(A \cup B)
          /\ Cardinality(A \cup B) =
                Cardinality(A) + Cardinality(B) - Cardinality(A \cap B)
      BY <1>4, FS_Union
    <2>2. Cardinality(A \cap B) = 0
      BY <1>1, <1>6, Zenon
    <2>3. Cardinality(A \cup B) = Cardinality(A) + Cardinality(B)
      BY <2>1, <2>2, <1>5
    <2>4. QED
      BY <2>1, <2>3, <1>3, Zenon
  <1>8. Cardinality(D \cup C) = Cardinality(D) + Cardinality(C)
    <2>1. Cardinality(D \cup C) =
             Cardinality(D) + Cardinality(C) - Cardinality(D \cap C)
      BY <1>4, <1>7, FS_Union
    <2>2. Cardinality(D \cap C) = 0
      BY <1>1, <1>6, Zenon
    <2>3. QED
      BY <2>1, <2>2, <1>5, <1>7
  <1>9. Cardinality(D \cup C) <= Cardinality(S)
    BY <1>1, FS_Subset
  <1>10. QED
    BY <1>2, <1>5, <1>7, <1>8, <1>9

\* g is f with one element of S moved from state s to state t.
Moves(S, f, g, x, s, t) ==
    /\ IsFiniteSet(S) /\ DOMAIN f = S /\ x \in S
    /\ f[x] = s /\ s # t /\ g = [f EXCEPT ![x] = t]

\* A move adds one to the new state's count and takes one from the old one's.
LEMMA CountMove ==
    ASSUME NEW S, NEW f, NEW g, NEW x, NEW s, NEW t, Moves(S, f, g, x, s, t)
    PROVE  /\ Count(S, g, t) = Count(S, f, t) + 1
           /\ Count(S, g, s) = Count(S, f, s) - 1
           /\ \A u : u # t /\ u # s => Count(S, g, u) = Count(S, f, u)
  <1> DEFINE In(h, v) == {y \in S : h[y] = v}
  <1> USE DEF Moves
  <1>1. In(g, t) = In(f, t) \cup {x} /\ x \notin In(f, t)
    OBVIOUS
  <1>2. In(g, s) = In(f, s) \ {x} /\ x \in In(f, s)
    OBVIOUS
  <1>3. \A u : u # t /\ u # s => In(g, u) = In(f, u)
    OBVIOUS
  <1>4. In(f, s) \in SUBSET S /\ In(f, t) \in SUBSET S
    OBVIOUS
  <1>5. \A h, v : Count(S, h, v) = Cardinality(In(h, v))
    BY DEF Count
  <1> HIDE DEF In
  <1>6. IsFiniteSet(In(f, s)) /\ IsFiniteSet(In(f, t))
    BY <1>4, FS_Subset
  <1>7. Cardinality(In(f, t) \cup {x}) = Cardinality(In(f, t)) + 1
    BY <1>1, <1>6, FS_AddElement
  <1>8. Cardinality(In(f, s) \ {x}) = Cardinality(In(f, s)) - 1
    BY <1>2, <1>6, FS_RemoveElement
  <1>9. QED
    BY <1>1, <1>2, <1>3, <1>5, <1>7, <1>8

-----------------------------------------------------------------------------

\* A notification leaves every thread in a legal state and holding its file.
LEMMA NotifyOneType ==
    ASSUME NEW ps \in [Producers -> ProducerStates],
           NEW ws \in [Writers -> WriterStates],
           NotifyOne(ps, ws)
    PROVE  /\ pst' \in [Producers -> ProducerStates]
           /\ wst' \in [Writers -> WriterStates]
           /\ \A p \in Producers : pst'[p] = ps[p] \/ (ps[p] = "waiting" /\ pst'[p] = "enqueue")
           /\ \A w \in Writers : wst'[w] = ws[w] \/ (ws[w] = "waiting" /\ wst'[w] = "check")
    BY DEF NotifyOne, ProducerStates, WriterStates

\* Every step keeps the state type correct.
LEMMA QueueTypeStep == QueueTypeOK /\ [QueueNext]_queueVars => QueueTypeOK'
  <1> SUFFICES ASSUME QueueTypeOK, [QueueNext]_queueVars PROVE QueueTypeOK'
    OBVIOUS
  <1> USE ConstantsAssumption DEF QueueTypeOK, ProducerStates, WriterStates, MainStates
  <1>1. CASE UNCHANGED queueVars
    BY <1>1 DEF queueVars
  <1>2. ASSUME NEW p \in Producers, ProducerStep(p) PROVE QueueTypeOK'
    <2>1. ASSUME NEW f \in Files, StartFile(p, f) PROVE QueueTypeOK'
      BY <2>1 DEF StartFile
    <2>2. CASE FetchSucceeds(p)
      BY <2>2 DEF FetchSucceeds
    <2>3. CASE WriteEmptyFile(p)
      BY <2>3 DEF WriteEmptyFile
    <2>4. CASE FetchFails(p)
      BY <2>4 DEF FetchFails
    <2>5. CASE EnqueueBlocks(p)
      BY <2>5 DEF EnqueueBlocks
    <2>6. CASE Enqueue(p)
      <3>1. pjob[p] \in Files
        BY <2>6 DEF Enqueue
      <3>2. write_queue' \in Seq(Files) /\ Len(write_queue') <= Capacity
        <4>1. /\ write_queue' = write_queue \/ write_queue' = Append(write_queue, pjob[p])
              /\ write_queue' # write_queue => Len(write_queue) < Capacity
          BY <2>6, Zenon DEF Enqueue
        <4>2. write_queue \in Seq(Files) /\ Len(write_queue) <= Capacity /\ Capacity \in Nat
          OBVIOUS
        <4>3. PICK f \in Files : f = pjob[p]
          BY <3>1
        <4>4. CASE write_queue' = Append(write_queue, f) /\ Len(write_queue) < Capacity
          BY <4>2, <4>4
        <4>5. QED
          BY <4>1, <4>2, <4>3, <4>4
      <3>3. QED
        BY <2>6, <3>1, <3>2 DEF Enqueue
    <2>7. CASE EnqueueNotify(p)
      <3> DEFINE ps == [pst EXCEPT ![p] = "idle"]
      <3>1. ps \in [Producers -> ProducerStates] /\ NotifyOne(ps, wst)
        BY <2>7 DEF EnqueueNotify
      <3>2. /\ pst' \in [Producers -> ProducerStates]
            /\ wst' \in [Writers -> WriterStates]
            /\ \A q \in Producers : pst'[q] = ps[q] \/ (ps[q] = "waiting" /\ pst'[q] = "enqueue")
            /\ \A w \in Writers : wst'[w] = wst[w] \/ (wst[w] = "waiting" /\ wst'[w] = "check")
        <4> HIDE DEF ps
        <4>1. wst \in [Writers -> WriterStates]
          OBVIOUS
        <4>2. QED
          BY <3>1, <4>1, NotifyOneType
      <3>3. UNCHANGED <<todo, write_queue, pjob, wjob, progress_cancelled,
                        write_queue_done, main, written, failed, dropped>>
        BY <2>7 DEF EnqueueNotify
      <3>4. \A q \in Producers :
              pst'[q] \in {"fetch", "enqueue", "waiting"} <=> pjob'[q] # NoFile
        BY <2>7, <3>2, <3>3 DEF EnqueueNotify
      <3>5. \A w \in Writers : wst'[w] \in {"notify", "write"} <=> wjob'[w] # NoFile
        BY <3>2, <3>3
      <3>6. QED
        BY <3>2, <3>3, <3>4, <3>5
    <2>8. QED
      BY <1>2, <2>1, <2>2, <2>3, <2>4, <2>5, <2>6, <2>7 DEF ProducerStep
  <1>3. ASSUME NEW w \in Writers, WriterStep(w) PROVE QueueTypeOK'
    <2>1. CASE Dequeue(w)
      <3>1. Head(write_queue) \in Files /\ Tail(write_queue) \in Seq(Files)
            /\ Len(Tail(write_queue)) <= Capacity
        BY <2>1 DEF Dequeue
      <3>2. QED
        BY <2>1, <3>1 DEF Dequeue
    <2>2. CASE DequeueBlocks(w)
      BY <2>2 DEF DequeueBlocks
    <2>3. CASE DequeueNotify(w)
      <3> DEFINE ws == [wst EXCEPT ![w] = "write"]
      <3>1. ws \in [Writers -> WriterStates] /\ NotifyOne(pst, ws)
        BY <2>3 DEF DequeueNotify
      <3>2. /\ pst' \in [Producers -> ProducerStates]
            /\ wst' \in [Writers -> WriterStates]
            /\ \A q \in Producers : pst'[q] = pst[q] \/ (pst[q] = "waiting" /\ pst'[q] = "enqueue")
            /\ \A v \in Writers : wst'[v] = ws[v] \/ (ws[v] = "waiting" /\ wst'[v] = "check")
        <4> HIDE DEF ws
        <4>1. pst \in [Producers -> ProducerStates]
          OBVIOUS
        <4>2. QED
          BY <3>1, <4>1, NotifyOneType
      <3>3. UNCHANGED <<todo, write_queue, pjob, wjob, progress_cancelled,
                        write_queue_done, main, written, failed, dropped>>
        BY <2>3 DEF DequeueNotify
      <3>4. \A v \in Writers : wst'[v] \in {"notify", "write"} <=> wjob'[v] # NoFile
        BY <2>3, <3>2, <3>3 DEF DequeueNotify
      <3>5. \A q \in Producers :
              pst'[q] \in {"fetch", "enqueue", "waiting"} <=> pjob'[q] # NoFile
        BY <3>2, <3>3
      <3>6. QED
        BY <3>2, <3>3, <3>4, <3>5
    <2>4. CASE WriteFile(w)
      BY <2>4 DEF WriteFile
    <2>5. QED
      BY <1>3, <2>1, <2>2, <2>3, <2>4 DEF WriterStep
  <1>4. CASE MainStep
    <2>1. CASE SetDone
      BY <2>1 DEF SetDone
    <2>2. CASE NotifyAll
      BY <2>2 DEF NotifyAll
    <2>3. CASE Join
      BY <2>3 DEF Join
    <2>4. QED
      BY <1>4, <2>1, <2>2, <2>3 DEF MainStep
  <1>5. CASE CancelProgress
    BY <1>5 DEF CancelProgress
  <1>6. CASE SpuriousWake
    BY <1>6 DEF SpuriousWake
  <1>7. QED
    BY <1>1, <1>2, <1>3, <1>4, <1>5, <1>6 DEF QueueNext

\* The initial state is type correct.
LEMMA QueueTypeInit == QueueInit => QueueTypeOK
  <1> SUFFICES ASSUME QueueInit PROVE QueueTypeOK
    OBVIOUS
  <1>1. write_queue \in Seq(Files) /\ Len(write_queue) <= Capacity
    BY ConstantsAssumption DEF QueueInit
  <1>2. QED
    BY <1>1 DEF QueueInit, QueueTypeOK, ProducerStates, WriterStates, MainStates

(***************************************************************************)
(* Type correctness: in particular the queue never exceeds                 *)
(* WRITE_QUEUE_MAX_SIZE and a thread holds a file exactly in the states    *)
(* where the code has one to enqueue or to write.                          *)
(***************************************************************************)
THEOREM TypeCorrect == QueueSpec => []QueueTypeOK
  BY QueueTypeInit, QueueTypeStep, PTL DEF QueueSpec

-----------------------------------------------------------------------------
(* The counts of the inductive invariant.                                  *)

\* The counts of the states of producers and of writers are bounded by their number.
LEMMA NumBounds ==
    ASSUME QueueTypeOK
    PROVE  /\ \A s : NumP(s) \in Nat /\ NumW(s) \in Nat
           /\ Cardinality(Producers) \in Nat
           /\ Cardinality(Writers) \in Nat /\ Cardinality(Writers) >= 1
           /\ NumP("waiting") + NumP("notify") + NumP("enqueue") <= Cardinality(Producers)
           /\ NumW("waiting") + NumW("notify") + NumW("check") <= Cardinality(Writers)
           /\ Len(write_queue) \in Nat /\ Len(write_queue) <= Capacity
           /\ Capacity \in Nat
  <1>1. \A s : NumP(s) = Count(Producers, pst, s) /\ NumW(s) = Count(Writers, wst, s)
    BY DEF NumP, NumW, Count
  <1>2. IsFiniteSet(Producers) /\ IsFiniteSet(Writers) /\ Writers # {} /\ Capacity \in Nat
    BY ConstantsAssumption
  <1>3. \A s : NumP(s) \in Nat /\ NumW(s) \in Nat
    BY <1>1, <1>2, CountType
  <1>4. Cardinality(Producers) \in Nat /\ Cardinality(Writers) \in Nat
    BY <1>2, FS_CardinalityType
  <1>5. Cardinality(Writers) # 0
    BY <1>2, FS_EmptySet
  <1>6. Count(Producers, pst, "waiting") + Count(Producers, pst, "notify")
          + Count(Producers, pst, "enqueue") <= Cardinality(Producers)
    BY <1>2, CountDisjoint
  <1>7. Count(Writers, wst, "waiting") + Count(Writers, wst, "notify")
          + Count(Writers, wst, "check") <= Cardinality(Writers)
    BY <1>2, CountDisjoint
  <1>8. Len(write_queue) \in Nat /\ Len(write_queue) <= Capacity
    BY DEF QueueTypeOK
  <1>9. QED
    BY <1>1, <1>2, <1>3, <1>4, <1>5, <1>6, <1>7, <1>8

\* One pool thread changes state, or none does.
LEMMA ProducerMoves ==
    ASSUME NEW p, NEW s, NEW t, Moves(Producers, pst, pst', p, s, t)
    PROVE  /\ NumP(t)' = NumP(t) + 1
           /\ NumP(s)' = NumP(s) - 1
           /\ \A u : u # t /\ u # s => NumP(u)' = NumP(u)
  <1>1. \A u : NumP(u) = Count(Producers, pst, u) /\ NumP(u)' = Count(Producers, pst', u)
    BY DEF NumP, Count
  <1>3. /\ Count(Producers, pst', t) = Count(Producers, pst, t) + 1
        /\ Count(Producers, pst', s) = Count(Producers, pst, s) - 1
        /\ \A u : u # t /\ u # s => Count(Producers, pst', u) = Count(Producers, pst, u)
    BY CountMove
  <1>4. QED
    BY <1>1, <1>3

\* A writer that moves from one state to another is one more there, one less here.
LEMMA WriterMoves ==
    ASSUME NEW w, NEW s, NEW t, Moves(Writers, wst, wst', w, s, t)
    PROVE  /\ NumW(t)' = NumW(t) + 1
           /\ NumW(s)' = NumW(s) - 1
           /\ \A u : u # t /\ u # s => NumW(u)' = NumW(u)
  <1>1. \A u : NumW(u) = Count(Writers, wst, u) /\ NumW(u)' = Count(Writers, wst', u)
    BY DEF NumW, Count
  <1>3. /\ Count(Writers, wst', t) = Count(Writers, wst, t) + 1
        /\ Count(Writers, wst', s) = Count(Writers, wst, s) - 1
        /\ \A u : u # t /\ u # s => Count(Writers, wst', u) = Count(Writers, wst, u)
    BY CountMove
  <1>4. QED
    BY <1>1, <1>3

\* Nobody moves, no count changes.
LEMMA NothingMoves ==
    /\ pst' = pst => \A u : NumP(u)' = NumP(u)
    /\ wst' = wst => \A u : NumW(u)' = NumW(u)
  BY DEF NumP, NumW

\* A count is zero exactly when nobody is in the state.
LEMMA NumZero ==
    ASSUME QueueTypeOK, NEW s
    PROVE  /\ (\A p \in Producers : pst[p] # s) <=> NumP(s) = 0
           /\ (\A w \in Writers : wst[w] # s) <=> NumW(s) = 0
  <1>1. IsFiniteSet({p \in Producers : pst[p] = s}) /\ IsFiniteSet({w \in Writers : wst[w] = s})
    <2>1. IsFiniteSet(Producers) /\ IsFiniteSet(Writers)
      BY ConstantsAssumption
    <2>2. /\ {p \in Producers : pst[p] = s} \in SUBSET Producers
          /\ {w \in Writers : wst[w] = s} \in SUBSET Writers
      OBVIOUS
    <2>3. QED
      BY <2>1, <2>2, FS_Subset
  <1>2. NumP(s) = 0 <=> {p \in Producers : pst[p] = s} = {}
    BY <1>1, FS_EmptySet DEF NumP
  <1>3. NumW(s) = 0 <=> {w \in Writers : wst[w] = s} = {}
    BY <1>1, FS_EmptySet DEF NumW
  <1>4. QED
    BY <1>2, <1>3

\* Where the notification after an enqueue goes.
LEMMA EnqueueNotifyCounts ==
    ASSUME QueueTypeOK, NEW p \in Producers, EnqueueNotify(p)
    PROVE  /\ NumP("notify")' = NumP("notify") - 1
           /\ NumW("notify")' = NumW("notify")
           /\ \/ /\ NumP("waiting")' = NumP("waiting") - 1
                 /\ NumP("enqueue")' = NumP("enqueue") + 1
                 /\ NumW("waiting")' = NumW("waiting")
              \/ /\ NumP("waiting")' = NumP("waiting")
                 /\ NumP("enqueue")' = NumP("enqueue")
                 /\ NumW("waiting")' = NumW("waiting") - 1
              \/ /\ NumP("waiting")' = 0 /\ NumP("waiting") = 0
                 /\ NumP("enqueue")' = NumP("enqueue")
                 /\ NumW("waiting")' = 0 /\ NumW("waiting") = 0
  <1> DEFINE ps == [pst EXCEPT ![p] = "idle"]
             CP(f, u) == Count(Producers, f, u)
  <1>1. \A u : NumP(u) = CP(pst, u) /\ NumP(u)' = CP(pst', u)
    BY DEF NumP, Count
  <1>2. DOMAIN pst = Producers /\ IsFiniteSet(Producers) /\ pst[p] = "notify"
    BY ConstantsAssumption DEF QueueTypeOK, EnqueueNotify
  <1>3. /\ CP(ps, "notify") = CP(pst, "notify") - 1
        /\ CP(ps, "waiting") = CP(pst, "waiting")
        /\ CP(ps, "enqueue") = CP(pst, "enqueue")
    <2>1. Moves(Producers, pst, ps, p, "notify", "idle")
      BY <1>2 DEF Moves
    <2> HIDE DEF ps
    <2>2. QED
      BY <2>1, CountMove
  <1>4. CASE \E q \in Producers : /\ ps[q] = "waiting"
                                  /\ pst' = [ps EXCEPT ![q] = "enqueue"]
                                  /\ wst' = wst
    <2>1. PICK q \in Producers : /\ ps[q] = "waiting"
                                 /\ pst' = [ps EXCEPT ![q] = "enqueue"]
                                 /\ wst' = wst
      BY <1>4
    <2>2. Moves(Producers, ps, pst', q, "waiting", "enqueue")
      BY <1>2, <2>1 DEF Moves
    <2>3. /\ CP(pst', "enqueue") = CP(ps, "enqueue") + 1
          /\ CP(pst', "waiting") = CP(ps, "waiting") - 1
          /\ CP(pst', "notify") = CP(ps, "notify")
      <3> HIDE DEF ps
      <3>1. QED
        BY <2>2, CountMove
    <2>5. \A u : NumW(u)' = NumW(u)
      BY <2>1, NothingMoves
    <2> HIDE DEF ps, CP
    <2>6. QED
      BY <1>1, <1>3, <2>3, <2>5
  <1>5. CASE \E w \in Writers : /\ wst[w] = "waiting"
                                /\ wst' = [wst EXCEPT ![w] = "check"]
                                /\ pst' = ps
    <2>1. PICK w \in Writers : /\ wst[w] = "waiting"
                               /\ wst' = [wst EXCEPT ![w] = "check"]
                               /\ pst' = ps
      BY <1>5
    <2>2. /\ NumW("waiting")' = NumW("waiting") - 1
          /\ NumW("notify")' = NumW("notify")
      <3>1. Moves(Writers, wst, wst', w, "waiting", "check")
        BY <2>1, ConstantsAssumption DEF Moves, QueueTypeOK
      <3>2. QED
        BY <3>1, WriterMoves
    <2>3. pst' = ps
      BY <2>1
    <2> HIDE DEF ps, CP
    <2>4. QED
      BY <1>1, <1>3, <2>2, <2>3
  <1>6. CASE /\ \A q \in Producers : ps[q] # "waiting"
             /\ \A w \in Writers : wst[w] # "waiting"
             /\ pst' = ps
             /\ wst' = wst
    <2>1. \A q \in Producers : pst[q] # "waiting"
      BY <1>2, <1>6
    <2>2. NumP("waiting") = 0 /\ NumW("waiting") = 0
      BY <1>6, <2>1, NumZero
    <2>3. \A u : NumW(u)' = NumW(u)
      BY <1>6, NothingMoves
    <2>4. pst' = ps
      BY <1>6
    <2> HIDE DEF ps, CP
    <2>5. QED
      BY <1>1, <1>3, <2>2, <2>3, <2>4
  <1>7. QED
    BY <1>4, <1>5, <1>6 DEF EnqueueNotify, NotifyOne

\* Where the notification after a dequeue goes.
LEMMA DequeueNotifyCounts ==
    ASSUME QueueTypeOK, NEW w \in Writers, DequeueNotify(w)
    PROVE  /\ NumW("notify")' = NumW("notify") - 1
           /\ NumP("notify")' = NumP("notify")
           /\ \/ /\ NumP("waiting")' = NumP("waiting") - 1
                 /\ NumP("enqueue")' = NumP("enqueue") + 1
                 /\ NumW("waiting")' = NumW("waiting")
              \/ /\ NumP("waiting")' = NumP("waiting")
                 /\ NumP("enqueue")' = NumP("enqueue")
                 /\ NumW("waiting")' = NumW("waiting") - 1
              \/ /\ NumP("waiting")' = 0 /\ NumP("waiting") = 0
                 /\ NumP("enqueue")' = NumP("enqueue")
                 /\ NumW("waiting")' = 0 /\ NumW("waiting") = 0
  <1> DEFINE ws == [wst EXCEPT ![w] = "write"]
             CW(f, u) == Count(Writers, f, u)
  <1>1. \A u : NumW(u) = CW(wst, u) /\ NumW(u)' = CW(wst', u)
    BY DEF NumW, Count
  <1>2. DOMAIN wst = Writers /\ IsFiniteSet(Writers) /\ wst[w] = "notify"
    BY ConstantsAssumption DEF QueueTypeOK, DequeueNotify
  <1>3. /\ CW(ws, "notify") = CW(wst, "notify") - 1
        /\ CW(ws, "waiting") = CW(wst, "waiting")
    <2>1. Moves(Writers, wst, ws, w, "notify", "write")
      BY <1>2 DEF Moves
    <2> HIDE DEF ws
    <2>2. QED
      BY <2>1, CountMove
  <1>4. CASE \E p \in Producers : /\ pst[p] = "waiting"
                                  /\ pst' = [pst EXCEPT ![p] = "enqueue"]
                                  /\ wst' = ws
    <2>1. PICK p \in Producers : /\ pst[p] = "waiting"
                                 /\ pst' = [pst EXCEPT ![p] = "enqueue"]
                                 /\ wst' = ws
      BY <1>4
    <2>2. Moves(Producers, pst, pst', p, "waiting", "enqueue")
      BY <2>1, ConstantsAssumption DEF Moves, QueueTypeOK
    <2>3. /\ NumP("waiting")' = NumP("waiting") - 1
          /\ NumP("enqueue")' = NumP("enqueue") + 1
          /\ NumP("notify")' = NumP("notify")
      BY <2>2, ProducerMoves
    <2>4. wst' = ws
      BY <2>1
    <2> HIDE DEF ws, CW
    <2>5. QED
      BY <1>1, <1>3, <2>3, <2>4
  <1>5. CASE \E v \in Writers : /\ ws[v] = "waiting"
                                /\ wst' = [ws EXCEPT ![v] = "check"]
                                /\ pst' = pst
    <2>1. PICK v \in Writers : /\ ws[v] = "waiting"
                               /\ wst' = [ws EXCEPT ![v] = "check"]
                               /\ pst' = pst
      BY <1>5
    <2>2. Moves(Writers, ws, wst', v, "waiting", "check")
      BY <1>2, <2>1 DEF Moves
    <2>3. /\ CW(wst', "waiting") = CW(ws, "waiting") - 1
          /\ CW(wst', "notify") = CW(ws, "notify")
      <3> HIDE DEF ws
      <3>1. QED
        BY <2>2, CountMove
    <2>4. \A u : NumP(u)' = NumP(u)
      BY <2>1, NothingMoves
    <2> HIDE DEF ws, CW
    <2>5. QED
      BY <1>1, <1>3, <2>3, <2>4
  <1>6. CASE /\ \A p \in Producers : pst[p] # "waiting"
             /\ \A v \in Writers : ws[v] # "waiting"
             /\ pst' = pst
             /\ wst' = ws
    <2>1. \A v \in Writers : wst[v] # "waiting"
      BY <1>2, <1>6
    <2>2. NumP("waiting") = 0 /\ NumW("waiting") = 0
      BY <1>6, <2>1, NumZero
    <2>3. \A u : NumP(u)' = NumP(u)
      BY <1>6, NothingMoves
    <2>4. wst' = ws
      BY <1>6
    <2> HIDE DEF ws, CW
    <2>5. QED
      BY <1>1, <1>3, <2>2, <2>3, <2>4
  <1>7. QED
    BY <1>4, <1>5, <1>6 DEF DequeueNotify, NotifyOne

-----------------------------------------------------------------------------

\* The shutdown sequence starts with an idle pool, which stays idle.
LEMMA ShutdownStep ==
    ASSUME QueueTypeOK, ShutdownOrder, [QueueNext]_queueVars
    PROVE  ShutdownOrder'
  <1> USE DEF ShutdownOrder
  <1>1. CASE UNCHANGED queueVars
    BY <1>1 DEF queueVars
  <1>2. ASSUME NEW p \in Producers, ProducerStep(p) PROVE ShutdownOrder'
    <2>1. main = "submitting" /\ main' = main /\ write_queue_done' = write_queue_done
      BY <1>2 DEF ProducerStep, StartFile, FetchSucceeds, WriteEmptyFile, FetchFails,
                  EnqueueBlocks, Enqueue, EnqueueNotify
    <2>2. \A w \in Writers : wst'[w] = "exited" => wst[w] = "exited"
      BY <1>2 DEF ProducerStep, StartFile, FetchSucceeds, WriteEmptyFile, FetchFails,
                  EnqueueBlocks, Enqueue, EnqueueNotify, NotifyOne, QueueTypeOK
    <2>3. QED
      BY <2>1, <2>2
  <1>3. ASSUME NEW w \in Writers, WriterStep(w) PROVE ShutdownOrder'
    <2>1. main' = main /\ write_queue_done' = write_queue_done
      BY <1>3 DEF WriterStep, Dequeue, DequeueBlocks, DequeueNotify, WriteFile
    <2>2. \A v \in Writers : wst'[v] = "exited" => wst[v] = "exited" \/ write_queue_done
      BY <1>3 DEF WriterStep, Dequeue, DequeueBlocks, DequeueNotify, WriteFile,
                  NotifyOne, QueueTypeOK
    <2>3. \A p \in Producers : pst[p] = "idle" => pst'[p] = "idle"
      BY <1>3 DEF WriterStep, Dequeue, DequeueBlocks, DequeueNotify, WriteFile,
                  NotifyOne, QueueTypeOK
    <2>4. QED
      BY <2>1, <2>2, <2>3
  <1>4. CASE MainStep
    BY <1>4 DEF MainStep, SetDone, NotifyAll, Join, QueueTypeOK
  <1>5. CASE CancelProgress
    BY <1>5 DEF CancelProgress
  <1>6. CASE SpuriousWake
    BY <1>6 DEF SpuriousWake, QueueTypeOK
  <1>7. QED
    BY <1>1, <1>2, <1>3, <1>4, <1>5, <1>6 DEF QueueNext

(***************************************************************************)
(* The counting argument, one step per action.                             *)
(***************************************************************************)
LEMMA BackpressureStep ==
    ASSUME PoolFitsQueue, BackpressureInv, [QueueNext]_queueVars
    PROVE  SlotsCovered' /\ JobsAnnounced'
  <1> DEFINE P == Cardinality(Producers)
             W == Cardinality(Writers)
             q == Len(write_queue)
             pw == NumP("waiting")
             pn == NumP("notify")
             pe == NumP("enqueue")
             ww == NumW("waiting")
             wn == NumW("notify")
             wc == NumW("check")
  <1>t. QueueTypeOK
    BY DEF BackpressureInv
  <1>b. /\ pw \in Nat /\ pn \in Nat /\ pe \in Nat /\ ww \in Nat /\ wn \in Nat
        /\ wc \in Nat /\ P \in Nat /\ W \in Nat /\ W >= 1
        /\ pw + pn + pe <= P /\ ww + wn + wc <= W
        /\ q \in Nat /\ q <= Capacity /\ Capacity \in Nat
    BY <1>t, NumBounds
  <1>f. P + 2 * W <= Capacity
    BY DEF PoolFitsQueue
  <1>i. /\ pw > 0 => Capacity - q <= wn + pn + pe + (W - ww)
        /\ ww = W => pw = 0 /\ q <= pn
    BY DEF BackpressureInv, SlotsCovered, JobsAnnounced
  <1> DEFINE Goal == /\ pw' > 0 => Capacity - q' <= wn' + pn' + pe' + (W - ww')
                     /\ ww' = W => pw' = 0 /\ q' <= pn'
  <1> SUFFICES Goal
    BY DEF SlotsCovered, JobsAnnounced
  <1>0. ASSUME pst' = pst, wst' = wst, write_queue' = write_queue PROVE Goal
    BY <1>0, <1>i, NothingMoves
  <1>1. CASE UNCHANGED queueVars
    BY <1>1, <1>0 DEF queueVars
  <1>2. ASSUME NEW p \in Producers, ProducerStep(p) PROVE Goal
    <2>1. CASE \E f \in Files : StartFile(p, f)
      <3>1. Moves(Producers, pst, pst', p, "idle", "fetch")
            /\ wst' = wst /\ write_queue' = write_queue
        BY <2>1, <1>t, ConstantsAssumption DEF StartFile, Moves, QueueTypeOK
      <3>2. pw' = pw /\ pn' = pn /\ pe' = pe
        BY <3>1, ProducerMoves
      <3>3. QED
        BY <3>1, <3>2, <1>i, NothingMoves
    <2>2. CASE FetchSucceeds(p)
      <3>1. Moves(Producers, pst, pst', p, "fetch", "enqueue")
            /\ wst' = wst /\ write_queue' = write_queue
        BY <2>2, <1>t, ConstantsAssumption DEF FetchSucceeds, Moves, QueueTypeOK
      <3>2. pw' = pw /\ pn' = pn /\ pe' = pe + 1
        BY <3>1, ProducerMoves
      <3>3. ww' = ww /\ wn' = wn /\ q' = q
        BY <3>1, NothingMoves
      <3> HIDE DEF P, W, q, pw, pn, pe, ww, wn, wc
      <3>4. QED
        BY <3>2, <3>3, <1>i, <1>b
    <2>3. CASE WriteEmptyFile(p) \/ FetchFails(p)
      <3>1. Moves(Producers, pst, pst', p, "fetch", "idle")
            /\ wst' = wst /\ write_queue' = write_queue
        BY <2>3, <1>t, ConstantsAssumption DEF WriteEmptyFile, FetchFails, Moves, QueueTypeOK
      <3>2. pw' = pw /\ pn' = pn /\ pe' = pe
        BY <3>1, ProducerMoves
      <3>3. QED
        BY <3>1, <3>2, <1>i, NothingMoves
    <2>4. CASE EnqueueBlocks(p)
      <3>1. Moves(Producers, pst, pst', p, "enqueue", "waiting")
            /\ wst' = wst /\ write_queue' = write_queue
        BY <2>4, <1>t, ConstantsAssumption DEF EnqueueBlocks, Moves, QueueTypeOK
      <3>2. pw' = pw + 1 /\ pn' = pn /\ pe' = pe - 1
        BY <3>1, ProducerMoves
      <3>3. ww' = ww /\ wn' = wn /\ q' = q
        BY <3>1, NothingMoves
      <3>4. q >= Capacity
        BY <2>4 DEF EnqueueBlocks
      <3>5. pe # 0
        BY <2>4, <1>t, NumZero DEF EnqueueBlocks
      <3> HIDE DEF P, W, q, pw, pn, pe, ww, wn, wc
      <3>6. QED
        BY <3>2, <3>3, <3>4, <3>5, <1>i, <1>b, <1>f
    <2>5. CASE Enqueue(p)
      <3>1. Moves(Producers, pst, pst', p, "enqueue", "notify") /\ wst' = wst
        BY <2>5, <1>t, ConstantsAssumption DEF Enqueue, Moves, QueueTypeOK
      <3>2. pw' = pw /\ pn' = pn + 1 /\ pe' = pe - 1
        BY <3>1, ProducerMoves
      <3>3. ww' = ww /\ wn' = wn
        BY <3>1, NothingMoves
      <3>4. q' = q + 1 \/ q' = q
        BY <2>5, <1>t DEF Enqueue, QueueTypeOK
      <3> HIDE DEF P, W, q, pw, pn, pe, ww, wn, wc
      <3>5. QED
        BY <3>2, <3>3, <3>4, <1>i, <1>b
    <2>6. CASE EnqueueNotify(p)
      <3>1. /\ pn' = pn - 1 /\ wn' = wn
            /\ \/ pw' = pw - 1 /\ pe' = pe + 1 /\ ww' = ww
               \/ pw' = pw /\ pe' = pe /\ ww' = ww - 1
               \/ pw' = 0 /\ pw = 0 /\ pe' = pe /\ ww' = 0 /\ ww = 0
        BY <2>6, <1>t, EnqueueNotifyCounts
      <3>2. q' = q
        BY <2>6 DEF EnqueueNotify
      <3>3. pw' = pw - 1 => pw # 0
        <4>1. pw' \in Nat
          BY <1>t, QueueTypeStep, ConstantsAssumption, FS_Subset, FS_CardinalityType DEF NumP
        <4> HIDE DEF pw
        <4>2. QED
          BY <4>1, <1>b
      <3> HIDE DEF P, W, q, pw, pn, pe, ww, wn, wc
      <3>4. QED
        BY <3>1, <3>2, <3>3, <1>i, <1>b
    <2>7. QED
      BY <1>2, <2>1, <2>2, <2>3, <2>4, <2>5, <2>6 DEF ProducerStep
  <1>3. ASSUME NEW w \in Writers, WriterStep(w) PROVE Goal
    <2>1. CASE Dequeue(w)
      <3>1. Moves(Writers, wst, wst', w, "check", "notify") /\ pst' = pst
        BY <2>1, <1>t, ConstantsAssumption DEF Dequeue, Moves, QueueTypeOK
      <3>2. ww' = ww /\ wn' = wn + 1
        BY <3>1, WriterMoves
      <3>3. pw' = pw /\ pn' = pn /\ pe' = pe
        BY <3>1, NothingMoves
      <3>4. q' = q - 1
        BY <2>1, <1>t DEF Dequeue, QueueTypeOK
      <3>5. wc # 0
        BY <2>1, <1>t, NumZero DEF Dequeue
      <3> HIDE DEF P, W, q, pw, pn, pe, ww, wn, wc
      <3>6. QED
        BY <3>2, <3>3, <3>4, <3>5, <1>i, <1>b
    <2>2. CASE DequeueBlocks(w)
      <3>1. q = 0 /\ q' = q /\ pst' = pst
        BY <2>2 DEF DequeueBlocks
      <3>2. pw' = pw /\ pn' = pn /\ pe' = pe
        BY <3>1, NothingMoves
      <3>3. pw = 0
        <4> HIDE DEF P, W, q, pw, pn, pe, ww, wn, wc
        <4>1. QED
          BY <3>1, <1>i, <1>b, <1>f
      <3> HIDE DEF P, W, q, pw, pn, pe, ww, wn, wc
      <3>4. QED
        BY <3>1, <3>2, <3>3, <1>b
    <2>3. CASE DequeueNotify(w)
      <3>1. /\ wn' = wn - 1 /\ pn' = pn
            /\ \/ pw' = pw - 1 /\ pe' = pe + 1 /\ ww' = ww
               \/ pw' = pw /\ pe' = pe /\ ww' = ww - 1
               \/ pw' = 0 /\ pw = 0 /\ pe' = pe /\ ww' = 0 /\ ww = 0
        BY <2>3, <1>t, DequeueNotifyCounts
      <3>2. q' = q
        BY <2>3 DEF DequeueNotify
      <3>3. wn # 0
        BY <2>3, <1>t, NumZero DEF DequeueNotify
      <3> HIDE DEF P, W, q, pw, pn, pe, ww, wn, wc
      <3>4. QED
        BY <3>1, <3>2, <3>3, <1>i, <1>b
    <2>4. CASE WriteFile(w)
      <3>1. Moves(Writers, wst, wst', w, "write", "check") /\ pst' = pst
            /\ write_queue' = write_queue
        BY <2>4, <1>t, ConstantsAssumption DEF WriteFile, Moves, QueueTypeOK
      <3>2. ww' = ww /\ wn' = wn
        BY <3>1, WriterMoves
      <3>3. QED
        BY <3>1, <3>2, <1>i, NothingMoves
    <2>5. QED
      BY <1>3, <2>1, <2>2, <2>3, <2>4 DEF WriterStep
  <1>4. CASE MainStep
    <2>1. CASE SetDone \/ Join
      BY <2>1, <1>0 DEF SetDone, Join
    <2>2. CASE NotifyAll
      <3>1. pst' = pst /\ \A p \in Producers : pst[p] # "waiting"
        BY <2>2 DEF NotifyAll, BackpressureInv, ShutdownOrder
      <3>2. pw = 0 /\ pw' = pw
        BY <3>1, <1>t, NumZero, NothingMoves
      <3>3. {v \in Writers : wst'[v] = "waiting"} = {}
        BY <2>2, <1>t DEF NotifyAll, QueueTypeOK
      <3>4. ww' = 0
        BY <3>3, FS_EmptySet DEF NumW
      <3> HIDE DEF P, W, q, pw, pn, pe, ww, wn, wc
      <3>5. QED
        BY <3>2, <3>4, <1>b
    <2>3. QED
      BY <1>4, <2>1, <2>2 DEF MainStep
  <1>5. CASE CancelProgress
    BY <1>5, <1>0 DEF CancelProgress
  <1>6. CASE SpuriousWake
    <2>1. q' = q
      BY <1>6 DEF SpuriousWake
    <2>2. CASE \E p \in Producers : /\ pst[p] = "waiting"
                                    /\ pst' = [pst EXCEPT ![p] = "enqueue"]
                                    /\ UNCHANGED wst
      <3>1. PICK p \in Producers : /\ pst[p] = "waiting"
                                   /\ pst' = [pst EXCEPT ![p] = "enqueue"]
                                   /\ UNCHANGED wst
        BY <2>2
      <3>2. Moves(Producers, pst, pst', p, "waiting", "enqueue")
        BY <3>1, <1>t, ConstantsAssumption DEF Moves, QueueTypeOK
      <3>3. pw' = pw - 1 /\ pn' = pn /\ pe' = pe + 1
        BY <3>2, ProducerMoves
      <3>4. ww' = ww /\ wn' = wn
        BY <3>1, NothingMoves
      <3>5. pw # 0
        BY <3>1, <1>t, NumZero
      <3> HIDE DEF P, W, q, pw, pn, pe, ww, wn, wc
      <3>6. QED
        BY <2>1, <3>3, <3>4, <3>5, <1>i, <1>b
    <2>3. CASE \E w \in Writers : /\ wst[w] = "waiting"
                                  /\ wst' = [wst EXCEPT ![w] = "check"]
                                  /\ UNCHANGED pst
      <3>1. PICK w \in Writers : /\ wst[w] = "waiting"
                                 /\ wst' = [wst EXCEPT ![w] = "check"]
                                 /\ UNCHANGED pst
        BY <2>3
      <3>2. Moves(Writers, wst, wst', w, "waiting", "check")
        BY <3>1, <1>t, ConstantsAssumption DEF Moves, QueueTypeOK
      <3>3. ww' = ww - 1 /\ wn' = wn
        BY <3>2, WriterMoves
      <3>4. pw' = pw /\ pn' = pn /\ pe' = pe
        BY <3>1, NothingMoves
      <3> HIDE DEF P, W, q, pw, pn, pe, ww, wn, wc
      <3>5. QED
        BY <2>1, <3>3, <3>4, <1>i, <1>b
    <2>4. QED
      BY <1>6, <2>2, <2>3 DEF SpuriousWake
  <1>7. QED
    BY <1>1, <1>2, <1>3, <1>4, <1>5, <1>6 DEF QueueNext

\* The inductive invariant gives NoStall.
LEMMA InvImpliesNoStall ==
    ASSUME BackpressureInv
    PROVE  NoStall
  <1>t. QueueTypeOK
    BY DEF BackpressureInv
  <1>1. /\ Cardinality(Writers) \in Nat /\ IsFiniteSet(Writers)
        /\ NumW("waiting") \in Nat /\ NumP("waiting") \in Nat /\ NumP("notify") \in Nat
        /\ Len(write_queue) \in Nat
    BY <1>t, NumBounds, ConstantsAssumption
  <1>2. ASSUME WaitingProducers # {}
        PROVE  \E w \in Writers : wst[w] \notin {"waiting", "exited"}
    <2>1. NumP("waiting") # 0
      BY <1>2, <1>t, NumZero DEF WaitingProducers
    <2>2. NumW("waiting") # Cardinality(Writers)
      BY <2>1 DEF BackpressureInv, JobsAnnounced
    <2>3. {w \in Writers : wst[w] = "waiting"} # Writers
      BY <2>2 DEF NumW
    <2>4. \A w \in Writers : wst[w] # "exited"
      BY <1>2 DEF WaitingProducers, BackpressureInv, ShutdownOrder
    <2>5. QED
      BY <2>3, <2>4
  <1>3. ASSUME WaitingWriters = Writers, write_queue # << >>
        PROVE  \E p \in Producers : pst[p] = "notify"
    <2>1. NumW("waiting") = Cardinality(Writers)
      BY <1>3 DEF NumW, WaitingWriters
    <2>2. Len(write_queue) <= NumP("notify")
      BY <2>1 DEF BackpressureInv, JobsAnnounced
    <2>3. Len(write_queue) # 0
      BY <1>3, <1>t DEF QueueTypeOK
    <2>4. NumP("notify") # 0
      BY <1>1, <2>2, <2>3
    <2>5. QED
      BY <2>4, <1>t, NumZero
  <1>4. QED
    BY <1>2, <1>3 DEF NoStall

(***************************************************************************)
(* With a pool that fits the queue, backpressure never stalls a download:  *)
(* no pool thread waits for room while every disk writer sleeps, and no    *)
(* queued job is left with every disk writer asleep and nobody about to    *)
(* notify (the enqueue and dequeue of process_file and of the disk writer  *)
(* loop, sharing write_queue_cv).                                          *)
(***************************************************************************)
THEOREM BackpressureNeverStalls ==
    ASSUME PoolFitsQueue
    PROVE  QueueSpec => []NoStall
  <1>1. QueueInit => BackpressureInv
    <2> SUFFICES ASSUME QueueInit PROVE BackpressureInv
      OBVIOUS
    <2>1. Len(write_queue) = 0
      BY DEF QueueInit
    <2>2. QueueTypeOK
      BY QueueTypeInit
    <2>3. NumP("waiting") = 0 /\ NumW("waiting") = 0
      BY <2>2, NumZero DEF QueueInit
    <2>4. SlotsCovered /\ JobsAnnounced
      BY <2>1, <2>2, <2>3, NumBounds DEF SlotsCovered, JobsAnnounced
    <2>5. ShutdownOrder
      BY DEF QueueInit, ShutdownOrder
    <2>6. QED
      BY <2>2, <2>4, <2>5 DEF BackpressureInv
  <1>2. BackpressureInv /\ [QueueNext]_queueVars => BackpressureInv'
    BY QueueTypeStep, ShutdownStep, BackpressureStep DEF BackpressureInv
  <1>3. BackpressureInv => NoStall
    BY InvImpliesNoStall
  <1>4. QED
    BY <1>1, <1>2, <1>3, PTL DEF QueueSpec

-----------------------------------------------------------------------------
(* The counts are complete: a file is in one place at a time.              *)

\* The files with a pool thread, in the queue, and with a disk writer.
InPool  == {f \in Files : \E p \in Producers : pjob[p] = f}
InQueue == {f \in Files : \E i \in 1..Len(write_queue) : write_queue[i] = f}
OnDisk  == {f \in Files : \E w \in Writers : wjob[w] = f}

\* Seven sets that divide the files among them.
Divided(t, p, q, d, w, x, r) ==
    /\ t \cup p \cup q \cup d \cup w \cup x \cup r = Files
    /\ p \cap t = {}
    /\ q \cap (t \cup p) = {}
    /\ d \cap (t \cup p \cup q) = {}
    /\ w \cap (t \cup p \cup q \cup d) = {}
    /\ x \cap (t \cup p \cup q \cup d \cup w) = {}
    /\ r \cap (t \cup p \cup q \cup d \cup w \cup x) = {}

OnePlace == Divided(todo, InPool, InQueue, OnDisk, written, failed, dropped)

\* No two threads, and no two slots of the queue, have the same file.
OneHolder ==
    /\ \A p, o \in Producers : pjob[p] # NoFile /\ pjob[p] = pjob[o] => p = o
    /\ \A i, j \in 1..Len(write_queue) : write_queue[i] = write_queue[j] => i = j
    /\ \A w, v \in Writers : wjob[w] # NoFile /\ wjob[w] = wjob[v] => w = v

\* A disk writer leaves an empty queue, to which nobody adds; only a cancelled run
\* drops what it fetched, or ends with files it never started.
Drained ==
    /\ (\E w \in Writers : wst[w] = "exited") => write_queue = << >>
    /\ main = "finished" => \A w \in Writers : wst[w] = "exited"
    /\ ~progress_cancelled => dropped = {} /\ (main # "submitting" => todo = {})

CountsInv == QueueTypeOK /\ ShutdownOrder /\ OnePlace /\ OneHolder /\ Drained

\* What a thread holds is a file; a slot of the queue as well.
LEMMA HeldFiles ==
    ASSUME QueueTypeOK
    PROVE  /\ \A p \in Producers : pjob[p] # NoFile => pjob[p] \in InPool /\ pjob[p] \in Files
           /\ \A w \in Writers : wjob[w] # NoFile => wjob[w] \in OnDisk /\ wjob[w] \in Files
           /\ \A i \in 1..Len(write_queue) : write_queue[i] \in InQueue /\ write_queue[i] \in Files
  BY ConstantsAssumption DEF QueueTypeOK, InPool, OnDisk, InQueue

\* A pool thread takes a file that no other has.
LEMMA PoolTakes ==
    ASSUME QueueTypeOK, OneHolder, NEW p \in Producers, NEW f \in Files, f \notin InPool,
           pjob[p] = NoFile, pjob' = [pjob EXCEPT ![p] = f]
    PROVE  /\ InPool' = InPool \cup {f}
           /\ \A n, o \in Producers : pjob'[n] # NoFile /\ pjob'[n] = pjob'[o] => n = o
<1>1. pjob \in [Producers -> Files \cup {NoFile}] /\ NoFile \notin Files
  BY ConstantsAssumption DEF QueueTypeOK
<1>2. \A o \in Producers : pjob'[o] = IF o = p THEN f ELSE pjob[o]
  BY <1>1
<1>3. InPool' = InPool \cup {f}
  BY <1>1, <1>2 DEF InPool
<1>4. \A o \in Producers : pjob[o] # f
  BY DEF InPool
<1> QED
  BY <1>2, <1>3, <1>4 DEF OneHolder

\* A pool thread gives its file away.
LEMMA PoolGives ==
    ASSUME QueueTypeOK, OneHolder, NEW p \in Producers, pjob[p] # NoFile,
           pjob' = [pjob EXCEPT ![p] = NoFile]
    PROVE  /\ InPool' = InPool \ {pjob[p]}
           /\ \A n, o \in Producers : pjob'[n] # NoFile /\ pjob'[n] = pjob'[o] => n = o
<1>1. pjob \in [Producers -> Files \cup {NoFile}] /\ NoFile \notin Files
  BY ConstantsAssumption DEF QueueTypeOK
<1>2. \A o \in Producers : pjob'[o] = IF o = p THEN NoFile ELSE pjob[o]
  BY <1>1
<1>3. InPool' = InPool \ {pjob[p]}
  BY <1>1, <1>2 DEF InPool, OneHolder
<1> QED
  BY <1>2, <1>3 DEF OneHolder

\* The same of the disk writers.
LEMMA DiskTakes ==
    ASSUME QueueTypeOK, OneHolder, NEW w \in Writers, NEW f \in Files, f \notin OnDisk,
           wjob[w] = NoFile, wjob' = [wjob EXCEPT ![w] = f]
    PROVE  /\ OnDisk' = OnDisk \cup {f}
           /\ \A v, u \in Writers : wjob'[v] # NoFile /\ wjob'[v] = wjob'[u] => v = u
<1>1. wjob \in [Writers -> Files \cup {NoFile}] /\ NoFile \notin Files
  BY ConstantsAssumption DEF QueueTypeOK
<1>2. \A v \in Writers : wjob'[v] = IF v = w THEN f ELSE wjob[v]
  BY <1>1
<1>3. OnDisk' = OnDisk \cup {f}
  BY <1>1, <1>2 DEF OnDisk
<1>4. \A v \in Writers : wjob[v] # f
  BY DEF OnDisk
<1> QED
  BY <1>2, <1>3, <1>4 DEF OneHolder

\* A writer that is done with a file leaves it to nobody else.
LEMMA DiskGives ==
    ASSUME QueueTypeOK, OneHolder, NEW w \in Writers, wjob[w] # NoFile,
           wjob' = [wjob EXCEPT ![w] = NoFile]
    PROVE  /\ OnDisk' = OnDisk \ {wjob[w]}
           /\ \A v, u \in Writers : wjob'[v] # NoFile /\ wjob'[v] = wjob'[u] => v = u
<1>1. wjob \in [Writers -> Files \cup {NoFile}] /\ NoFile \notin Files
  BY ConstantsAssumption DEF QueueTypeOK
<1>2. \A v \in Writers : wjob'[v] = IF v = w THEN NoFile ELSE wjob[v]
  BY <1>1
<1>3. OnDisk' = OnDisk \ {wjob[w]}
  BY <1>1, <1>2 DEF OnDisk, OneHolder
<1> QED
  BY <1>2, <1>3 DEF OneHolder

\* The queue gets one file more at its end, or loses the one at its head.
LEMMA QueueTakes ==
    ASSUME QueueTypeOK, OneHolder, NEW f \in Files, f \notin InQueue,
           write_queue' = Append(write_queue, f)
    PROVE  /\ InQueue' = InQueue \cup {f}
           /\ \A i, j \in 1..Len(write_queue') : write_queue'[i] = write_queue'[j] => i = j
<1>1. /\ write_queue \in Seq(Files) /\ Len(write_queue) \in Nat
      /\ Len(write_queue') = Len(write_queue) + 1
      /\ \A i \in 1..Len(write_queue) : write_queue'[i] = write_queue[i]
      /\ write_queue'[Len(write_queue) + 1] = f
  BY DEF QueueTypeOK
<1>2. 1..Len(write_queue') = 1..Len(write_queue) \cup {Len(write_queue) + 1}
  BY <1>1
<1>3. InQueue' = InQueue \cup {f}
  BY <1>1, <1>2 DEF InQueue
<1>4. \A i \in 1..Len(write_queue) : write_queue[i] # f
  BY DEF InQueue
<1> QED
  BY <1>1, <1>2, <1>3, <1>4 DEF OneHolder

\* A file taken from the queue is in it once.
LEMMA QueueGives ==
    ASSUME QueueTypeOK, OneHolder, write_queue # << >>, write_queue' = Tail(write_queue)
    PROVE  /\ InQueue' = InQueue \ {Head(write_queue)}
           /\ Head(write_queue) \in InQueue /\ Head(write_queue) \in Files
           /\ \A i, j \in 1..Len(write_queue') : write_queue'[i] = write_queue'[j] => i = j
<1>1. /\ write_queue \in Seq(Files) /\ Len(write_queue) \in Nat \ {0}
      /\ Len(write_queue') = Len(write_queue) - 1
      /\ \A i \in 1..Len(write_queue') : write_queue'[i] = write_queue[i + 1]
      /\ Head(write_queue) = write_queue[1]
  BY DEF QueueTypeOK
<1>2. Head(write_queue) \in InQueue /\ Head(write_queue) \in Files
  BY <1>1, HeldFiles
<1>3. ASSUME NEW i \in 1..Len(write_queue')
      PROVE  i + 1 \in 1..Len(write_queue) /\ i + 1 # 1
  BY <1>1, <1>3
<1>4. ASSUME NEW j \in 1..Len(write_queue), j # 1
      PROVE  j - 1 \in 1..Len(write_queue') /\ (j - 1) + 1 = j
  BY <1>1, <1>4
<1>5. InQueue' = InQueue \ {Head(write_queue)}
  <2>1. InQueue' \subseteq InQueue \ {Head(write_queue)}
    BY <1>1, <1>3 DEF InQueue, OneHolder
  <2>2. InQueue \ {Head(write_queue)} \subseteq InQueue'
    <3> SUFFICES ASSUME NEW f \in InQueue, f # write_queue[1] PROVE f \in InQueue'
      BY <1>1
    <3>1. PICK j \in 1..Len(write_queue) : write_queue[j] = f
      BY DEF InQueue
    <3>2. j - 1 \in 1..Len(write_queue') /\ (j - 1) + 1 = j
      BY <1>4, <3>1
    <3>3. write_queue'[j - 1] = f
      BY <1>1, <3>1, <3>2
    <3> QED
      BY <3>2, <3>3 DEF InQueue
  <2> QED
    BY <2>1, <2>2
<1>6. \A i, j \in 1..Len(write_queue') : write_queue'[i] = write_queue'[j] => i = j
  BY <1>1, <1>3 DEF OneHolder
<1> QED
  BY <1>2, <1>5, <1>6

\* The invariant of the counts holds initially.
LEMMA CountsInit == QueueInit => CountsInv
<1> SUFFICES ASSUME QueueInit PROVE CountsInv
  OBVIOUS
<1>1. QueueTypeOK
  BY QueueTypeInit
<1>2. ShutdownOrder /\ Drained
  BY DEF QueueInit, ShutdownOrder, Drained
<1>3. InPool = {} /\ InQueue = {} /\ OnDisk = {}
  BY ConstantsAssumption DEF QueueInit, InPool, InQueue, OnDisk
<1>4. OnePlace
  BY <1>3 DEF QueueInit, OnePlace, Divided
<1>5. OneHolder
  BY DEF QueueInit, OneHolder
<1> QED
  BY <1>1, <1>2, <1>4, <1>5 DEF CountsInv

\* A step that moves no file.
LEMMA NoMove ==
    ASSUME OnePlace, OneHolder,
           UNCHANGED <<todo, write_queue, pjob, wjob, written, failed, dropped>>
    PROVE  OnePlace' /\ OneHolder'
<1>1. InPool' = InPool /\ InQueue' = InQueue /\ OnDisk' = OnDisk
  BY DEF InPool, InQueue, OnDisk
<1> QED
  BY <1>1 DEF OnePlace, OneHolder

\* Every step moves at most one file, from one place to the next.
LEMMA PlaceStep ==
    ASSUME QueueTypeOK, OnePlace, OneHolder, [QueueNext]_queueVars
    PROVE  OnePlace' /\ OneHolder'
<1>p. ASSUME UNCHANGED pjob
      PROVE  /\ InPool' = InPool
             /\ \A n, o \in Producers : pjob'[n] # NoFile /\ pjob'[n] = pjob'[o] => n = o
  BY <1>p DEF InPool, OneHolder
<1>q. ASSUME UNCHANGED write_queue
      PROVE  /\ InQueue' = InQueue
             /\ \A i, j \in 1..Len(write_queue') : write_queue'[i] = write_queue'[j] => i = j
  BY <1>q DEF InQueue, OneHolder
<1>d. ASSUME UNCHANGED wjob
      PROVE  /\ OnDisk' = OnDisk
             /\ \A v, u \in Writers : wjob'[v] # NoFile /\ wjob'[v] = wjob'[u] => v = u
  BY <1>d DEF OnDisk, OneHolder
<1>1. ASSUME NEW p \in Producers, NEW f \in Files, StartFile(p, f)
      PROVE  OnePlace' /\ OneHolder'
  <2>1. f \in todo /\ f \notin InPool /\ pjob[p] = NoFile
    BY <1>1 DEF StartFile, OnePlace, Divided, QueueTypeOK
  <2>2. /\ InPool' = InPool \cup {f}
        /\ \A n, o \in Producers : pjob'[n] # NoFile /\ pjob'[n] = pjob'[o] => n = o
    BY <1>1, <2>1, PoolTakes DEF StartFile
  <2>3. todo' = todo \ {f} /\ UNCHANGED <<write_queue, wjob, written, failed, dropped>>
    BY <1>1 DEF StartFile
  <2>4. OnePlace'
    BY <2>1, <2>2, <2>3, <1>q, <1>d DEF OnePlace, Divided
  <2>5. OneHolder'
    BY <2>2, <2>3, <1>q, <1>d DEF OneHolder
  <2> QED
    BY <2>4, <2>5
<1>2. ASSUME NEW p \in Producers, WriteEmptyFile(p) \/ FetchFails(p)
      PROVE  OnePlace' /\ OneHolder'
  <2>1. pjob[p] # NoFile
    BY <1>2 DEF WriteEmptyFile, FetchFails, QueueTypeOK
  <2>2. pjob' = [pjob EXCEPT ![p] = NoFile] /\ UNCHANGED <<todo, write_queue, wjob>>
    BY <1>2 DEF WriteEmptyFile, FetchFails
  <2>3. /\ InPool' = InPool \ {pjob[p]}
        /\ \A n, o \in Producers : pjob'[n] # NoFile /\ pjob'[n] = pjob'[o] => n = o
    BY <2>1, <2>2, PoolGives
  <2>4. pjob[p] \in InPool /\ pjob[p] \in Files
    BY <2>1, HeldFiles
  <2>5. \/ written' = written \cup {pjob[p]} /\ UNCHANGED <<failed, dropped>>
        \/ failed' = failed \cup {pjob[p]} /\ UNCHANGED <<written, dropped>>
        \/ dropped' = dropped \cup {pjob[p]} /\ UNCHANGED <<written, failed>>
    BY <1>2 DEF WriteEmptyFile, FetchFails
  <2>6. OnePlace'
    BY <2>2, <2>3, <2>4, <2>5, <1>q, <1>d DEF OnePlace, Divided
  <2>7. OneHolder'
    BY <2>2, <2>3, <1>q, <1>d DEF OneHolder
  <2> QED
    BY <2>6, <2>7
<1>3. ASSUME NEW p \in Producers, Enqueue(p)
      PROVE  OnePlace' /\ OneHolder'
  <2>1. pjob[p] # NoFile
    BY <1>3 DEF Enqueue, QueueTypeOK
  <2>2. pjob' = [pjob EXCEPT ![p] = NoFile] /\ UNCHANGED <<todo, wjob, written, failed>>
    BY <1>3 DEF Enqueue
  <2>3. /\ InPool' = InPool \ {pjob[p]}
        /\ \A n, o \in Producers : pjob'[n] # NoFile /\ pjob'[n] = pjob'[o] => n = o
    BY <2>1, <2>2, PoolGives
  <2>4. pjob[p] \in InPool /\ pjob[p] \in Files
    BY <2>1, HeldFiles
  <2>5. CASE write_queue' = Append(write_queue, pjob[p]) /\ UNCHANGED dropped
    <3>1. pjob[p] \notin InQueue
      BY <2>4 DEF OnePlace, Divided
    <3>2. /\ InQueue' = InQueue \cup {pjob[p]}
          /\ \A i, j \in 1..Len(write_queue') : write_queue'[i] = write_queue'[j] => i = j
      BY <2>4, <2>5, <3>1, QueueTakes
    <3>3. OnePlace'
      BY <2>2, <2>3, <2>4, <2>5, <3>2, <1>d DEF OnePlace, Divided
    <3> QED
      BY <2>2, <2>3, <3>2, <3>3, <1>d DEF OneHolder
  <2>6. CASE dropped' = dropped \cup {pjob[p]} /\ UNCHANGED write_queue
    <3>1. OnePlace'
      BY <2>2, <2>3, <2>4, <2>6, <1>q, <1>d DEF OnePlace, Divided
    <3> QED
      BY <2>2, <2>3, <2>6, <3>1, <1>q, <1>d DEF OneHolder
  <2> QED
    BY <1>3, <2>5, <2>6 DEF Enqueue
<1>4. ASSUME NEW w \in Writers, Dequeue(w)
      PROVE  OnePlace' /\ OneHolder'
  <2>1. wjob[w] = NoFile
    BY <1>4 DEF Dequeue, QueueTypeOK
  <2>2. /\ write_queue # << >> /\ write_queue' = Tail(write_queue)
        /\ wjob' = [wjob EXCEPT ![w] = Head(write_queue)]
        /\ UNCHANGED <<todo, pjob, written, failed, dropped>>
    BY <1>4 DEF Dequeue
  <2>3. /\ InQueue' = InQueue \ {Head(write_queue)}
        /\ Head(write_queue) \in InQueue /\ Head(write_queue) \in Files
        /\ \A i, j \in 1..Len(write_queue') : write_queue'[i] = write_queue'[j] => i = j
    BY <2>2, QueueGives
  <2>4. Head(write_queue) \notin OnDisk
    BY <2>3 DEF OnePlace, Divided
  <2>5. /\ OnDisk' = OnDisk \cup {Head(write_queue)}
        /\ \A v, u \in Writers : wjob'[v] # NoFile /\ wjob'[v] = wjob'[u] => v = u
    BY <2>1, <2>2, <2>3, <2>4, DiskTakes
  <2>6. OnePlace'
    BY <2>2, <2>3, <2>5, <1>p DEF OnePlace, Divided
  <2> QED
    BY <2>2, <2>3, <2>5, <2>6, <1>p DEF OneHolder
<1>5. ASSUME NEW w \in Writers, WriteFile(w)
      PROVE  OnePlace' /\ OneHolder'
  <2>1. wjob[w] # NoFile
    BY <1>5 DEF WriteFile, QueueTypeOK
  <2>2. wjob' = [wjob EXCEPT ![w] = NoFile] /\ UNCHANGED <<todo, write_queue, pjob, dropped>>
    BY <1>5 DEF WriteFile
  <2>3. /\ OnDisk' = OnDisk \ {wjob[w]}
        /\ \A v, u \in Writers : wjob'[v] # NoFile /\ wjob'[v] = wjob'[u] => v = u
    BY <2>1, <2>2, DiskGives
  <2>4. wjob[w] \in OnDisk /\ wjob[w] \in Files
    BY <2>1, HeldFiles
  <2>5. \/ written' = written \cup {wjob[w]} /\ UNCHANGED failed
        \/ failed' = failed \cup {wjob[w]} /\ UNCHANGED written
    BY <1>5 DEF WriteFile
  <2>6. OnePlace'
    BY <2>2, <2>3, <2>4, <2>5, <1>p, <1>q DEF OnePlace, Divided
  <2> QED
    BY <2>2, <2>3, <2>6, <1>p, <1>q DEF OneHolder
<1>6. ASSUME NEW p \in Producers, FetchSucceeds(p) \/ EnqueueBlocks(p) \/ EnqueueNotify(p)
      PROVE  OnePlace' /\ OneHolder'
  BY <1>6, NoMove DEF FetchSucceeds, EnqueueBlocks, EnqueueNotify
<1>7. ASSUME NEW w \in Writers, DequeueBlocks(w) \/ DequeueNotify(w)
      PROVE  OnePlace' /\ OneHolder'
  BY <1>7, NoMove DEF DequeueBlocks, DequeueNotify
<1>8. CASE MainStep \/ CancelProgress \/ SpuriousWake \/ UNCHANGED queueVars
  BY <1>8, NoMove DEF MainStep, SetDone, NotifyAll, Join, CancelProgress, SpuriousWake, queueVars
<1> QED
  BY <1>1, <1>2, <1>3, <1>4, <1>5, <1>6, <1>7, <1>8, Zenon DEF QueueNext, ProducerStep, WriterStep

\* Nothing is added to the queue once a disk writer has left it.
LEMMA DrainedStep ==
    ASSUME QueueTypeOK, ShutdownOrder, Drained, [QueueNext]_queueVars
    PROVE  Drained'
<1> USE DEF QueueTypeOK
<1>0. (\E w \in Writers : wst[w] = "exited") =>
          main # "submitting" /\ \A p \in Producers : pst[p] = "idle"
  BY DEF ShutdownOrder
<1>1. ASSUME NEW p \in Producers, ProducerStep(p)
      PROVE  Drained'
  <2>1. pst[p] # "idle" \/ main = "submitting"
    BY <1>1 DEF ProducerStep, StartFile, FetchSucceeds, WriteEmptyFile, FetchFails,
       EnqueueBlocks, Enqueue, EnqueueNotify
  <2>2. /\ main = "submitting" /\ UNCHANGED <<main, progress_cancelled>>
        /\ \A w \in Writers : wst[w] # "exited"
    <3>1. main = "submitting"
      BY <2>1 DEF ShutdownOrder
    <3>2. UNCHANGED <<main, progress_cancelled>>
      BY <1>1 DEF ProducerStep, StartFile, FetchSucceeds, WriteEmptyFile, FetchFails,
         EnqueueBlocks, Enqueue, EnqueueNotify
    <3> QED
      BY <1>0, <3>1, <3>2
  <2>3. \A w \in Writers : wst'[w] # "exited"
    BY <1>1, <2>2 DEF ProducerStep, StartFile, FetchSucceeds, WriteEmptyFile, FetchFails,
       EnqueueBlocks, Enqueue, EnqueueNotify, NotifyOne
  <2>4. ~progress_cancelled => dropped' = dropped
    BY <1>1 DEF ProducerStep, StartFile, FetchSucceeds, WriteEmptyFile, FetchFails,
       EnqueueBlocks, Enqueue, EnqueueNotify
  <2> QED
    BY <2>2, <2>3, <2>4 DEF Drained
<1>2. ASSUME NEW w \in Writers, WriterStep(w)
      PROVE  Drained'
  <2>1. /\ UNCHANGED <<main, progress_cancelled, todo, dropped>>
        /\ wst[w] # "exited"
    BY <1>2 DEF WriterStep, Dequeue, DequeueBlocks, DequeueNotify, WriteFile
  <2>2. main # "finished"
    BY <2>1 DEF Drained
  <2>3. (\E v \in Writers : wst'[v] = "exited") => write_queue' = << >>
    <3>1. CASE Dequeue(w)
      BY <3>1 DEF Dequeue, Drained
    <3>2. CASE DequeueBlocks(w)
      BY <3>2 DEF DequeueBlocks
    <3>3. CASE DequeueNotify(w)
      BY <3>3 DEF DequeueNotify, NotifyOne, Drained
    <3>4. CASE WriteFile(w)
      BY <3>4 DEF WriteFile, Drained
    <3> QED
      BY <1>2, <3>1, <3>2, <3>3, <3>4 DEF WriterStep
  <2> QED
    BY <2>1, <2>2, <2>3 DEF Drained
<1>3. CASE SetDone
  BY <1>3 DEF SetDone, Drained
<1>4. CASE NotifyAll
  BY <1>4 DEF NotifyAll, Drained
<1>5. CASE Join
  BY <1>5 DEF Join, Drained
<1>6. CASE CancelProgress
  BY <1>6 DEF CancelProgress, Drained
<1>7. CASE SpuriousWake
  BY <1>7 DEF SpuriousWake, Drained
<1>8. CASE UNCHANGED queueVars
  BY <1>8 DEF queueVars, Drained
<1> QED
  BY <1>1, <1>2, <1>3, <1>4, <1>5, <1>6, <1>7, <1>8, Zenon DEF QueueNext, MainStep

(***************************************************************************)
(* When run_sync reads the counts, every file is counted once: for every   *)
(* number of threads and every capacity, whether the pool fits the queue   *)
(* or not, and whenever the run is cancelled.                              *)
(***************************************************************************)
THEOREM CountsAreComplete == QueueSpec => []CountsComplete
<1>1. QueueInit => CountsInv
  BY CountsInit
<1>2. CountsInv /\ [QueueNext]_queueVars => CountsInv'
  <2> SUFFICES ASSUME CountsInv, [QueueNext]_queueVars PROVE CountsInv'
    OBVIOUS
  <2>1. QueueTypeOK /\ ShutdownOrder /\ OnePlace /\ OneHolder /\ Drained
    BY DEF CountsInv
  <2>2. QueueTypeOK' /\ ShutdownOrder' /\ OnePlace' /\ OneHolder' /\ Drained'
    BY <2>1, QueueTypeStep, ShutdownStep, PlaceStep, DrainedStep
  <2> QED
    BY <2>2 DEF CountsInv
<1>3. CountsInv => CountsComplete
  <2> SUFFICES ASSUME CountsInv PROVE CountsComplete
    OBVIOUS
  <2>1. QueueTypeOK /\ ShutdownOrder /\ OnePlace /\ Drained
    BY DEF CountsInv
  <2>2. written \cap failed = {} /\ dropped \cap (written \cup failed) = {}
    BY <2>1 DEF OnePlace, Divided
  <2>3. ASSUME main = "finished"
        PROVE  /\ write_queue = << >>
               /\ written \cup failed \cup dropped \cup todo = Files
               /\ ~progress_cancelled => written \cup failed = Files
    <3>1. \A w \in Writers : wst[w] = "exited"
      BY <2>1, <2>3 DEF Drained
    <3>2. write_queue = << >>
      BY <2>1, <3>1, ConstantsAssumption DEF Drained
    <3>3. \A p \in Producers : pjob[p] = NoFile
      BY <2>1, <2>3 DEF ShutdownOrder, QueueTypeOK
    <3>4. \A w \in Writers : wjob[w] = NoFile
      BY <2>1, <3>1 DEF QueueTypeOK
    <3>5. InPool = {} /\ OnDisk = {} /\ InQueue = {}
      BY <3>2, <3>3, <3>4, ConstantsAssumption DEF InPool, OnDisk, InQueue
    <3>6. written \cup failed \cup dropped \cup todo = Files
      BY <2>1, <3>5 DEF OnePlace, Divided
    <3>7. ~progress_cancelled => dropped = {} /\ todo = {}
      BY <2>1, <2>3 DEF Drained
    <3> QED
      BY <3>2, <3>6, <3>7
  <2> QED
    BY <2>2, <2>3 DEF CountsComplete
<1> QED
  BY <1>1, <1>2, <1>3, PTL DEF QueueSpec

-----------------------------------------------------------------------------
(* One file, over repeated runs.                                           *)

USE DownloadAssumption

\* What the set of contents is: sequences of at most MaxChunks chunks.
LEMMA ContentsFacts ==
    ASSUME NEW d \in Contents
    PROVE  d \in Seq(Data) /\ Len(d) \in 0..MaxChunks
  BY SMT DEF Contents

\* A prefix of some contents, as GetObjectRange(0, size - 1) returns it.
LEMMA PrefixFacts ==
    ASSUME NEW S, NEW d \in Seq(S), NEW n \in Nat, n <= Len(d)
    PROVE  /\ Prefix(d, n) \in [1..n -> S]
           /\ Prefix(d, n) \in Seq(S) /\ Len(Prefix(d, n)) = n
           /\ \A i \in 1..n : Prefix(d, n)[i] = d[i]
           /\ n = Len(d) => Prefix(d, n) = d
<1>1. Prefix(d, n) \in [1..n -> S]
  BY SMT DEF Prefix
<1>2. \A i \in 1..n : Prefix(d, n)[i] = d[i]
  BY SMT DEF Prefix
<1>3. Prefix(d, n) \in Seq(S) /\ Len(Prefix(d, n)) = n
  BY <1>1, SMT
<1>4. ASSUME n = Len(d) PROVE Prefix(d, n) = d
  BY <1>4, SMT DEF Prefix
<1> QED
  BY <1>1, <1>2, <1>3, <1>4

\* Two sequences of one length with the same elements are the same.
LEMMA SameSequence ==
    ASSUME NEW S, NEW d \in Seq(S), NEW e \in Seq(S), Len(d) = Len(e),
           \A i \in 1..Len(d) : d[i] = e[i]
    PROVE  d = e
  BY SMT

\* What a write of one chunk does to the file's contents.
LEMMA PatchedFacts ==
    ASSUME NEW d \in Seq(Data \cup {Torn}), NEW i \in Nat \ {0},
           NEW v \in Data \cup {Torn}
    PROVE  /\ Patched(d, i, v) \in Seq(Data \cup {Torn})
           /\ Len(Patched(d, i, v)) = IF i > Len(d) THEN i ELSE Len(d)
           /\ Patched(d, i, v)[i] = v
           /\ \A j \in 1..Len(d) : j # i => Patched(d, i, v)[j] = d[j]
<1> DEFINE n == IF i > Len(d) THEN i ELSE Len(d)
           p == [j \in 1..n |-> IF j = i THEN v ELSE IF j <= Len(d) THEN d[j] ELSE Torn]
<1>1. Len(d) \in Nat /\ \A j \in 1..Len(d) : d[j] \in Data \cup {Torn}
  BY SMT
<1>2. n \in Nat /\ i \in 1..n /\ 1..Len(d) \subseteq 1..n
  BY <1>1, SMT
<1> HIDE DEF n
<1>3. p \in [1..n -> Data \cup {Torn}]
  BY <1>1, <1>2, SMT
<1>4. p \in Seq(Data \cup {Torn}) /\ Len(p) = n
  BY <1>2, <1>3, SMT
<1>5. p[i] = v /\ \A j \in 1..Len(d) : j # i => p[j] = d[j]
  BY <1>1, <1>2, SMT
<1>6. Patched(d, i, v) = p
  BY DEF Patched, n
<1> QED
  BY <1>4, <1>5, <1>6 DEF n

-----------------------------------------------------------------------------
(* Type correctness.                                                       *)

\* The empty contents and the empty set of chunks have their types.
LEMMA EmptyFacts ==
    /\ << >> \in Contents
    /\ DOMAIN NoChunks = {} /\ NoChunks \in [DOMAIN NoChunks -> Data]
    /\ Absent \in [exists : BOOLEAN, data : Contents, ragged : {FALSE}, mtime : Int]
<1>1. << >> \in [1..0 -> Data]
  BY SMT
<1>2. << >> \in Contents
  BY <1>1, SMT DEF Contents
<1>3. DOMAIN NoChunks = {} /\ NoChunks \in [DOMAIN NoChunks -> Data]
  BY SMT DEF NoChunks
<1>4. Absent \in [exists : BOOLEAN, data : Contents, ragged : {FALSE}, mtime : Int]
  BY <1>2, SMT DEF Absent
<1> QED
  BY <1>2, <1>3, <1>4

\* Contents are sequences over the chunks and the torn chunk as well.
LEMMA ContentsAreSequences ==
    ASSUME NEW d \in Contents
    PROVE  d \in Seq(Data \cup {Torn})
<1>1. d \in Seq(Data)
  BY ContentsFacts
<1> QED
  BY <1>1, SMT

\* The variables of the environment and the file.
EnvOK ==
    /\ now \in Nat
    /\ s3 \in [data : Contents, mtime : Nat]
    /\ disturbed \subseteq {"killed", "source_edited"}
    /\ edits \in Nat /\ mishaps \in Nat

LocalOK == local \in [exists : BOOLEAN, data : Seq(Data \cup {Torn}),
                      ragged : BOOLEAN, mtime : Int]

\* The locals of the run.
RunOK ==
    /\ phase \in Phases /\ action \in {"Skip", "Download", "DownloadDiff"}
    /\ s3_size \in 0..MaxChunks /\ buf \in Contents
    /\ temp \in [exists : BOOLEAN, data : Contents, ragged : {FALSE}, mtime : Int]
    /\ local_size \in Nat /\ pending \subseteq 1..MaxChunks
    /\ DOMAIN fetched \subseteq 1..MaxChunks
    /\ fetched \in [DOMAIN fetched -> Data]
    /\ wrote_any \in BOOLEAN /\ download_failed \in BOOLEAN
    /\ cancelled \in BOOLEAN /\ result \in Results

\* Until it is cut, a file being patched is no shorter than it was.
NotShorter == phase = "patch" => local_size <= Len(local.data)

\* TypeOK is the four together.
LEMMA TypeParts == TypeOK <=> EnvOK /\ LocalOK /\ RunOK /\ NotShorter
  BY Zenon DEF TypeOK, EnvOK, LocalOK, RunOK, NotShorter

\* A run that ends leaves well-typed locals.
LEMMA RunEndsType ==
    ASSUME NEW r \in Results, RunEnds(r)
    PROVE  RunOK'
<1>1. phase' \in Phases /\ action' \in {"Skip", "Download", "DownloadDiff"}
      /\ result' \in Results /\ s3_size' \in 0..MaxChunks /\ local_size' \in Nat
      /\ pending' \subseteq 1..MaxChunks
  BY SMT DEF RunEnds, Phases, Results
<1>2. wrote_any' \in BOOLEAN /\ download_failed' \in BOOLEAN /\ cancelled' \in BOOLEAN
  BY Zenon DEF RunEnds
<1>3. buf' \in Contents
      /\ temp' \in [exists : BOOLEAN, data : Contents, ragged : {FALSE}, mtime : Int]
      /\ DOMAIN fetched' \subseteq 1..MaxChunks
      /\ fetched' \in [DOMAIN fetched' -> Data]
  BY EmptyFacts, Zenon DEF RunEnds
<1> QED
  BY <1>1, <1>2, <1>3, Zenon DEF RunOK

\* Every step is one of the actions; the others change nothing.
LEMMA NextCases ==
    ASSUME [Next]_vars
    PROVE  \/ Plan \/ FetchWhole \/ WriteTemp \/ Commit \/ Compare
           \/ (\E i \in 1..MaxChunks : FetchChunk(i))
           \/ (\E i \in 1..MaxChunks : PwriteRest(i))
           \/ PatchAbandoned \/ PatchCompleted
           \/ FetchWholeFails \/ DropFetched \/ WriteFails \/ CrcFails
           \/ (\E i \in 1..MaxChunks : PwritePart(i))
           \/ (\E i \in 1..MaxChunks : ChunkFails(i))
           \/ TruncateFails \/ Cancel \/ Kill \/ SourceEdit \/ Tick
           \/ UNCHANGED vars
  BY Zenon DEF Next, SyncStep, FailureStep

\* The environment keeps its types.
LEMMA EnvStep ==
    ASSUME TypeOK, [Next]_vars
    PROVE  EnvOK'
<1> USE DEF envVars
<1>1. EnvOK
  BY TypeParts
<1>2. ASSUME UNCHANGED <<envVars, disturbed, mishaps>> PROVE EnvOK'
  BY <1>1, <1>2, Zenon DEF EnvOK
<1>3. ASSUME UNCHANGED <<envVars, disturbed>>, UNCHANGED mishaps \/ Mishap PROVE EnvOK'
  <2>1. mishaps' \in Nat
    BY <1>1, <1>3, SMT DEF EnvOK, Mishap
  <2> QED
    BY <1>1, <1>3, <2>1, Zenon DEF EnvOK
<1>4. CASE Plan \/ FetchWhole \/ DropFetched \/ WriteTemp \/ Commit \/ Compare
           \/ (\E i \in 1..MaxChunks : FetchChunk(i) \/ PwritePart(i) \/ PwriteRest(i))
           \/ PatchAbandoned \/ PatchCompleted
  BY <1>2, <1>4, Zenon DEF Plan, FetchWhole, DropFetched, WriteTemp, Commit, Compare,
     FetchChunk, PwritePart, PwriteRest, PatchAbandoned, PatchCompleted
<1>5. CASE FetchWholeFails \/ WriteFails \/ CrcFails \/ TruncateFails \/ Cancel
  BY <1>3, <1>5, Zenon DEF FetchWholeFails, WriteFails, CrcFails, TruncateFails, Cancel
<1>6. CASE \E i \in 1..MaxChunks : ChunkFails(i)
  BY <1>3, <1>6, Zenon DEF ChunkFails
<1>7. CASE Kill
  <2>1. mishaps' \in Nat
    BY <1>1, <1>7, SMT DEF EnvOK, Kill, Mishap
  <2>2. disturbed' \subseteq {"killed", "source_edited"}
    BY <1>1, <1>7, SMT DEF EnvOK, Kill
  <2> QED
    BY <1>1, <1>7, <2>1, <2>2, Zenon DEF EnvOK, Kill
<1>8. CASE SourceEdit
  <2>1. edits' \in Nat /\ s3' \in [data : Contents, mtime : Nat]
    BY <1>1, <1>8, SMT DEF EnvOK, SourceEdit
  <2>2. disturbed' \subseteq {"killed", "source_edited"}
    BY <1>8, SMT DEF SourceEdit
  <2> QED
    BY <1>1, <1>8, <2>1, <2>2, Zenon DEF EnvOK, SourceEdit
<1>9. CASE Tick
  <2>1. now' \in Nat
    BY <1>1, <1>9, SMT DEF EnvOK, Tick
  <2> QED
    BY <1>1, <1>9, <2>1, Zenon DEF EnvOK, Tick
<1>10. CASE UNCHANGED vars
  BY <1>2, <1>10, Zenon DEF vars
<1> QED
  BY <1>4, <1>5, <1>6, <1>7, <1>8, <1>9, <1>10, NextCases, Zenon

\* The file keeps its type.
LEMMA LocalStep ==
    ASSUME TypeOK, [Next]_vars
    PROVE  LocalOK'
<1>1. EnvOK /\ LocalOK /\ RunOK /\ NotShorter
  BY TypeParts
<1>2. LocalNow \in Int /\ local.data \in Seq(Data \cup {Torn}) /\ Len(local.data) \in Nat
  BY <1>1, SMT DEF EnvOK, LocalOK, LocalNow
<1>3. ASSUME UNCHANGED local PROVE LocalOK'
  BY <1>1, <1>3, Zenon DEF LocalOK
<1>4. ASSUME NEW m \in Int, local' = [local EXCEPT !.mtime = m] PROVE LocalOK'
  BY <1>1, <1>4, SMT DEF LocalOK
<1>5. CASE Commit
  <2>1. temp.data \in Contents
    BY <1>1, Zenon DEF RunOK
  <2>2. temp.data \in Seq(Data \cup {Torn})
    BY <2>1, ContentsAreSequences
  <2>3. temp \in [exists : BOOLEAN, data : Seq(Data \cup {Torn}), ragged : BOOLEAN, mtime : Int]
    <3>1. temp \in [exists : BOOLEAN, data : Contents, ragged : {FALSE}, mtime : Int]
      BY <1>1, Zenon DEF RunOK
    <3> QED
      BY <2>2, <3>1, Zenon
  <2> QED
    BY <1>5, <2>3, Zenon DEF Commit, LocalOK
<1>6. ASSUME NEW i \in 1..MaxChunks, PwritePart(i) PROVE LocalOK'
  <2>1. Patched(local.data, i, Torn) \in Seq(Data \cup {Torn})
    BY <1>2, PatchedFacts, SMT
  <2> QED
    BY <1>1, <1>2, <1>6, <2>1, SMT DEF PwritePart, LocalOK
<1>7. ASSUME NEW i \in 1..MaxChunks, PwriteRest(i) PROVE LocalOK'
  <2>1. fetched[i] \in Data \cup {Torn}
    BY <1>1, <1>7, Zenon DEF PwriteRest, RunOK
  <2>2. Patched(local.data, i, fetched[i]) \in Seq(Data \cup {Torn})
    BY <1>2, <2>1, PatchedFacts, SMT
  <2> QED
    BY <1>1, <1>2, <1>7, <2>2, SMT DEF PwriteRest, LocalOK
<1>8. CASE PatchAbandoned \/ TruncateFails
  <2>1. local' = [local EXCEPT !.mtime = 0] \/ UNCHANGED local
    BY <1>8, Zenon DEF PatchAbandoned, TruncateFails
  <2> QED
    BY <1>3, <1>4, <2>1, SMT
<1>9. CASE PatchCompleted
  <2>1. CASE UNCHANGED local
    BY <1>3, <2>1
  <2>2. CASE ~ UNCHANGED local
    <3>1. s3_size < local_size
      BY <1>9, <2>2, Zenon DEF PatchCompleted
    <3>2. Prefix(local.data, s3_size) \in Seq(Data \cup {Torn})
      <4>1. s3_size \in Nat /\ s3_size <= Len(local.data)
        BY <1>1, <1>2, <1>9, <3>1, SMT DEF PatchCompleted, NotShorter, RunOK
      <4> QED
        BY <1>2, <4>1, PrefixFacts
    <3> QED
      BY <1>1, <1>2, <1>9, <3>1, <3>2, SMT DEF PatchCompleted, LocalOK
  <2> QED
    BY <2>1, <2>2
<1>10. CASE UNCHANGED vars \/ SourceEdit \/ Tick \/ Cancel \/ Kill \/ Plan \/ FetchWhole
            \/ FetchWholeFails \/ DropFetched \/ WriteTemp \/ WriteFails \/ CrcFails \/ Compare
  BY <1>3, <1>10, Zenon DEF vars, SourceEdit, Tick, Cancel, Kill, Plan, FetchWhole,
     FetchWholeFails, DropFetched, WriteTemp, WriteFails, CrcFails, Compare
<1>11. CASE \E i \in 1..MaxChunks : FetchChunk(i) \/ ChunkFails(i)
  BY <1>3, <1>11, Zenon DEF FetchChunk, ChunkFails
<1> QED
  BY <1>5, <1>6, <1>7, <1>8, <1>9, <1>10, <1>11, NextCases, Zenon

\* The locals of a run keep their types.
LEMMA RunStep ==
    ASSUME TypeOK, [Next]_vars
    PROVE  RunOK'
<1> USE DEF patchVars
<1>1. EnvOK /\ LocalOK /\ RunOK /\ NotShorter
  BY TypeParts
<1>2. s3.data \in Contents /\ s3.data \in Seq(Data) /\ Len(s3.data) \in 0..MaxChunks
  <2>1. s3.data \in Contents
    BY <1>1, Zenon DEF EnvOK
  <2> QED
    BY <2>1, ContentsFacts
<1>3. {"ok", "failed", "skip", "none"} \subseteq Results
  BY Zenon DEF Results
<1>4. ASSUME RunEnds("ok") \/ RunEnds("failed") \/ RunEnds("skip") PROVE RunOK'
  BY <1>3, <1>4, RunEndsType, Zenon
<1>5. CASE UNCHANGED vars \/ Tick
  BY <1>1, <1>5, Zenon DEF vars, Tick, RunOK
<1>6. CASE Commit \/ FetchWholeFails \/ DropFetched \/ WriteFails \/ PatchAbandoned
           \/ PatchCompleted \/ TruncateFails \/ Kill
  BY <1>4, <1>6, Zenon DEF Commit, FetchWholeFails, DropFetched, WriteFails,
     PatchAbandoned, PatchCompleted, TruncateFails, Kill
<1>7. CASE Plan
  <2>1. CASE RunEnds("skip")
    BY <1>4, <2>1
  <2>2. CASE ~ RunEnds("skip")
    <3>1. /\ action' = ClassifyDownload
          /\ phase' = IF action' = "DownloadDiff" THEN "crc" ELSE "fetch"
          /\ s3_size' = Len(s3.data) /\ result' = "none"
          /\ UNCHANGED <<buf, temp, patchVars, cancelled>>
      BY <1>7, <2>2, Zenon DEF Plan
    <3>2. action' \in {"Skip", "Download", "DownloadDiff"}
      BY <3>1, SMT DEF ClassifyDownload
    <3>3. phase' \in Phases /\ result' \in Results
      BY <3>1, SMT DEF Phases, Results
    <3>4. s3_size' \in 0..MaxChunks
      BY <1>2, <3>1
    <3> QED
      BY <1>1, <3>1, <3>2, <3>3, <3>4, Zenon DEF RunOK
  <2> QED
    BY <2>1, <2>2
<1>8. CASE FetchWhole
  <2>1. buf' \in [1..s3_size -> Data]
    <3>1. s3_size \in Nat /\ s3_size <= Len(s3.data)
      BY <1>1, <1>8, SMT DEF RunOK, FetchWhole
    <3> QED
      BY <1>2, <1>8, <3>1, PrefixFacts, Zenon DEF FetchWhole
  <2>2. buf' \in Contents
    BY <1>1, <2>1, Zenon DEF Contents, RunOK
  <2>3. phase' \in Phases
    BY <1>8, SMT DEF FetchWhole, Phases
  <2> QED
    BY <1>1, <1>8, <2>2, <2>3, Zenon DEF FetchWhole, RunOK
<1>9. CASE WriteTemp
  <2>1. LocalNow \in Int
    BY <1>1, SMT DEF EnvOK, LocalNow
  <2>2. temp' \in [exists : BOOLEAN, data : Contents, ragged : {FALSE}, mtime : Int]
    BY <1>1, <1>9, <2>1, Zenon DEF WriteTemp, RunOK
  <2>3. phase' \in Phases
    BY <1>9, SMT DEF WriteTemp, Phases
  <2> QED
    BY <1>1, <1>9, <2>2, <2>3, Zenon DEF WriteTemp, RunOK
<1>10. CASE CrcFails
  <2>1. phase' \in Phases
    BY <1>10, SMT DEF CrcFails, Phases
  <2> QED
    BY <1>1, <1>10, <2>1, Zenon DEF CrcFails, RunOK
<1>11. CASE Compare
  <2>1. CASE RunEnds("ok")
    BY <1>4, <2>1
  <2>2. CASE /\ phase' = "fetch"
             /\ UNCHANGED <<action, s3_size, buf, temp, patchVars, cancelled, result>>
    <3>1. phase' \in Phases
      BY <2>2, SMT DEF Phases
    <3> QED
      BY <1>1, <2>2, <3>1, Zenon DEF RunOK
  <2>3. CASE /\ phase' = "patch" /\ local_size' = Len(local.data)
             /\ pending' = ChunksToDownload
             /\ UNCHANGED <<action, s3_size, buf, temp, fetched, wrote_any,
                            download_failed, cancelled, result>>
    <3>1. phase' \in Phases
      BY <2>3, SMT DEF Phases
    <3>2. local_size' \in Nat
      BY <1>1, <2>3, SMT DEF LocalOK
    <3>3. pending' \subseteq 1..MaxChunks
      BY <1>1, <2>3, SMT DEF ChunksToDownload, RunOK
    <3> QED
      BY <1>1, <2>3, <3>1, <3>2, <3>3, Zenon DEF RunOK
  <2> QED
    BY <1>11, <2>1, <2>2, <2>3, Zenon DEF Compare
<1>12. ASSUME NEW i \in 1..MaxChunks, FetchChunk(i) PROVE RunOK'
  <2>1. i \in 1..Len(s3.data)
    BY <1>2, <1>12, SMT DEF FetchChunk
  <2>2. s3.data[i] \in Data
    BY <1>2, <2>1, SMT
  <2>3. /\ DOMAIN fetched' = DOMAIN fetched \cup {i}
        /\ fetched' \in [DOMAIN fetched' -> Data]
    BY <1>1, <1>12, <2>2, SMT DEF FetchChunk, RunOK
  <2>4. DOMAIN fetched' \subseteq 1..MaxChunks /\ pending' \subseteq 1..MaxChunks
    BY <1>1, <1>12, <2>3, Zenon DEF FetchChunk, RunOK
  <2> QED
    BY <1>1, <1>12, <2>3, <2>4, Zenon DEF FetchChunk, RunOK
<1>13. ASSUME NEW i \in 1..MaxChunks, PwritePart(i) PROVE RunOK'
  <2>1. wrote_any' \in BOOLEAN
    BY <1>13, Zenon DEF PwritePart
  <2> QED
    BY <1>1, <1>13, <2>1, Zenon DEF PwritePart, RunOK
<1>14. ASSUME NEW i \in 1..MaxChunks, PwriteRest(i) PROVE RunOK'
  <2>1. wrote_any' \in BOOLEAN
    BY <1>14, Zenon DEF PwriteRest
  <2>2. /\ DOMAIN fetched' = DOMAIN fetched \ {i}
        /\ fetched' \in [DOMAIN fetched' -> Data]
    BY <1>1, <1>14, SMT DEF PwriteRest, RunOK
  <2>3. DOMAIN fetched' \subseteq 1..MaxChunks
    BY <1>1, <2>2, Zenon DEF RunOK
  <2> QED
    BY <1>1, <1>14, <2>1, <2>2, <2>3, Zenon DEF PwriteRest, RunOK
<1>15. ASSUME NEW i \in 1..MaxChunks, ChunkFails(i) PROVE RunOK'
  <2>1. /\ DOMAIN fetched' \subseteq DOMAIN fetched
        /\ fetched' \in [DOMAIN fetched' -> Data]
    BY <1>1, <1>15, SMT DEF ChunkFails, RunOK
  <2>2. DOMAIN fetched' \subseteq 1..MaxChunks /\ pending' \subseteq 1..MaxChunks
    BY <1>1, <1>15, <2>1, Zenon DEF ChunkFails, RunOK
  <2>3. download_failed' \in BOOLEAN
    BY <1>15, Zenon DEF ChunkFails
  <2> QED
    BY <1>1, <1>15, <2>1, <2>2, <2>3, Zenon DEF ChunkFails, RunOK
<1>16. CASE Cancel
  <2>1. cancelled' \in BOOLEAN
    BY <1>16, Zenon DEF Cancel
  <2> QED
    BY <1>1, <1>16, <2>1, Zenon DEF Cancel, RunOK
<1>17. CASE SourceEdit
  BY <1>1, <1>3, <1>17, Zenon DEF SourceEdit, RunOK
<1> QED
  BY <1>5, <1>6, <1>7, <1>8, <1>9, <1>10, <1>11, <1>12, <1>13, <1>14, <1>15,
     <1>16, <1>17, NextCases, Zenon

\* A patch never shortens the file before it is cut.
LEMMA NotShorterStep ==
    ASSUME TypeOK, [Next]_vars
    PROVE  NotShorter'
<1> USE DEF patchVars
<1>1. EnvOK /\ LocalOK /\ RunOK /\ NotShorter
  BY TypeParts
<1>2. local.data \in Seq(Data \cup {Torn}) /\ Len(local.data) \in Nat /\ local_size \in Nat
  BY <1>1, SMT DEF LocalOK, RunOK
<1>3. ASSUME UNCHANGED <<phase, local_size, local>> PROVE NotShorter'
  BY <1>1, <1>3, Zenon DEF NotShorter
<1>4. ASSUME phase' # "patch" PROVE NotShorter'
  BY <1>4, Zenon DEF NotShorter
<1>5. CASE UNCHANGED vars \/ Tick \/ Cancel \/ SourceEdit
  BY <1>3, <1>5, Zenon DEF vars, Tick, Cancel, SourceEdit
<1>6. CASE \E i \in 1..MaxChunks : FetchChunk(i) \/ ChunkFails(i)
  BY <1>3, <1>6, Zenon DEF FetchChunk, ChunkFails
<1>7. CASE Commit \/ FetchWholeFails \/ DropFetched \/ WriteFails \/ PatchAbandoned
           \/ PatchCompleted \/ TruncateFails \/ Kill \/ FetchWhole \/ WriteTemp \/ CrcFails
  <2>1. phase' \in {"idle", "write", "commit", "fetch"}
    BY <1>7, Zenon DEF Commit, FetchWholeFails, DropFetched, WriteFails, PatchAbandoned,
       PatchCompleted, TruncateFails, Kill, FetchWhole, WriteTemp, CrcFails, RunEnds
  <2> QED
    BY <1>4, <2>1
<1>8. CASE Plan
  <2>1. phase' \in {"idle", "crc", "fetch"}
    BY <1>8, Zenon DEF Plan, RunEnds
  <2> QED
    BY <1>4, <2>1
<1>9. CASE Compare
  <2>1. \/ phase' \in {"idle", "fetch"}
        \/ local_size' = Len(local.data) /\ local' = local
    BY <1>9, Zenon DEF Compare, RunEnds
  <2>2. CASE phase' \in {"idle", "fetch"}
    BY <1>4, <2>2
  <2>3. CASE local_size' = Len(local.data) /\ local' = local
    BY <1>2, <2>3, SMT DEF NotShorter
  <2> QED
    BY <2>1, <2>2, <2>3
<1>10. ASSUME NEW i \in 1..MaxChunks, NEW v \in Data \cup {Torn},
              local'.data = Patched(local.data, i, v),
              UNCHANGED <<phase, local_size>>
       PROVE  NotShorter'
  <2>1. Len(local'.data) = IF i > Len(local.data) THEN i ELSE Len(local.data)
    BY <1>2, <1>10, PatchedFacts, SMT
  <2> QED
    BY <1>1, <1>2, <1>10, <2>1, SMT DEF NotShorter
<1>11. ASSUME NEW i \in 1..MaxChunks, PwritePart(i) PROVE NotShorter'
  <2>1. local'.data = Patched(local.data, i, Torn)
    BY <1>11, Zenon DEF PwritePart
  <2> QED
    BY <1>10, <1>11, <2>1, Zenon DEF PwritePart
<1>12. ASSUME NEW i \in 1..MaxChunks, PwriteRest(i) PROVE NotShorter'
  <2>1. local'.data = Patched(local.data, i, fetched[i])
    BY <1>12, Zenon DEF PwriteRest
  <2>2. fetched[i] \in Data \cup {Torn}
    BY <1>1, <1>12, Zenon DEF PwriteRest, RunOK
  <2> QED
    BY <1>10, <1>12, <2>1, <2>2, Zenon DEF PwriteRest
<1> QED
  BY <1>5, <1>6, <1>7, <1>8, <1>9, <1>11, <1>12, NextCases, Zenon

\* TypeOK holds initially.
LEMMA TypeInit == Init => TypeOK
<1> SUFFICES ASSUME Init PROVE TypeOK
  OBVIOUS
<1>1. EnvOK
  BY SMT DEF Init, EnvOK
<1>2. LocalOK
  <2>1. CASE local = Absent
    <3>1. << >> \in Seq(Data \cup {Torn})
      BY EmptyFacts, ContentsAreSequences
    <3> QED
      BY <2>1, <3>1, SMT DEF Absent, LocalOK
  <2>2. CASE local \in [exists : {TRUE}, data : Contents, ragged : {FALSE}, mtime : {0, 1}]
    <3>1. local.data \in Seq(Data \cup {Torn})
      <4>1. local.data \in Contents
        BY <2>2, Zenon
      <4> QED
        BY <4>1, ContentsAreSequences
    <3>2. local.mtime \in Int
      BY <2>2, SMT
    <3>3. local.exists \in BOOLEAN /\ local.ragged \in BOOLEAN
      BY <2>2, Zenon
    <3>4. local = [exists |-> local.exists, data |-> local.data,
                   ragged |-> local.ragged, mtime |-> local.mtime]
      BY <2>2, Zenon
    <3> QED
      BY <3>1, <3>2, <3>3, <3>4, Zenon DEF LocalOK
  <2> QED
    BY <2>1, <2>2, Zenon DEF Init
<1>3. RunOK
  <2>1. phase \in Phases /\ action \in {"Skip", "Download", "DownloadDiff"}
        /\ result \in Results /\ s3_size \in 0..MaxChunks /\ local_size \in Nat
        /\ pending \subseteq 1..MaxChunks
    BY SMT DEF Init, Phases, Results
  <2>2. buf \in Contents /\ DOMAIN fetched \subseteq 1..MaxChunks
        /\ fetched \in [DOMAIN fetched -> Data]
        /\ temp \in [exists : BOOLEAN, data : Contents, ragged : {FALSE}, mtime : Int]
    BY EmptyFacts, Zenon DEF Init
  <2>3. wrote_any \in BOOLEAN /\ download_failed \in BOOLEAN /\ cancelled \in BOOLEAN
    BY Zenon DEF Init
  <2> QED
    BY <2>1, <2>2, <2>3, Zenon DEF RunOK
<1>4. NotShorter
  BY SMT DEF Init, NotShorter
<1> QED
  BY <1>1, <1>2, <1>3, <1>4, TypeParts

\* A step keeps TypeOK.
LEMMA TypeStep ==
    ASSUME TypeOK, [Next]_vars
    PROVE  TypeOK'
<1>1. EnvOK' /\ LocalOK' /\ RunOK' /\ NotShorter'
  BY EnvStep, LocalStep, RunStep, NotShorterStep
<1> QED
  BY <1>1, Zenon DEF TypeOK, EnvOK, LocalOK, RunOK, NotShorter

(***************************************************************************)
(* Every variable keeps its type, and a file being patched in place is     *)
(* never shorter than it was: the truncation of diff_download_file cuts a  *)
(* file that is long enough, whatever happened to the object meanwhile.    *)
(***************************************************************************)
THEOREM DownloadTypeCorrect == Spec => []TypeOK
<1>1. Init => TypeOK
  BY TypeInit
<1>2. TypeOK /\ [Next]_vars => TypeOK'
  BY TypeStep
<1> QED
  BY <1>1, <1>2, PTL DEF Spec

-----------------------------------------------------------------------------
(* The invariant.                                                          *)

\* No stamp is later than the clock of S3.
LEMMA StampsStep ==
    ASSUME TypeOK, StampsPast, [Next]_vars
    PROVE  StampsPast'
<1> USE DEF envVars, patchVars
<1>1. EnvOK /\ LocalOK /\ RunOK
  BY TypeParts
<1>2. /\ now \in Nat /\ s3.mtime \in Nat /\ local.mtime \in Int /\ temp.mtime \in Int
      /\ LocalNow \in Int /\ LocalNow <= now
      /\ s3.mtime <= now /\ local.mtime <= now /\ temp.mtime <= now
  BY <1>1, SMT DEF EnvOK, LocalOK, RunOK, LocalNow, StampsPast
<1>3. Absent.mtime = 0
  BY SMT DEF Absent
<1>4. ASSUME UNCHANGED <<now, s3>>,
             local' = local \/ local' = temp \/ local'.mtime \in {0, LocalNow},
             temp' = temp \/ temp' = Absent \/ temp'.mtime = LocalNow
      PROVE  StampsPast'
  BY <1>2, <1>3, <1>4, SMT DEF StampsPast
<1>5. CASE UNCHANGED vars
  BY <1>4, <1>5, Zenon DEF vars
<1>6. CASE Tick
  BY <1>2, <1>6, SMT DEF Tick, StampsPast
<1>7. CASE SourceEdit
  BY <1>2, <1>7, SMT DEF SourceEdit, StampsPast
<1>8. CASE Plan
  BY <1>4, <1>8, Zenon DEF Plan, RunEnds
<1>9. CASE FetchWhole \/ FetchWholeFails \/ DropFetched \/ WriteFails \/ CrcFails
           \/ Compare \/ Kill \/ Cancel
  <2>1. UNCHANGED <<now, s3, local>> /\ (temp' = temp \/ temp' = Absent)
    BY <1>9, Zenon DEF FetchWhole, FetchWholeFails, DropFetched, WriteFails,
       CrcFails, Compare, Kill, Cancel, RunEnds
  <2> QED
    BY <1>4, <2>1
<1>10. CASE Commit
  BY <1>4, <1>10, Zenon DEF Commit, RunEnds
<1>11. CASE WriteTemp
  <2>1. temp'.mtime = LocalNow
    BY <1>11, Zenon DEF WriteTemp
  <2> QED
    BY <1>4, <1>11, <2>1, Zenon DEF WriteTemp
<1>12. CASE \E i \in 1..MaxChunks : FetchChunk(i) \/ ChunkFails(i)
  BY <1>4, <1>12, Zenon DEF FetchChunk, ChunkFails
<1>13. ASSUME NEW i \in 1..MaxChunks, PwritePart(i) \/ PwriteRest(i) PROVE StampsPast'
  <2>1. local'.mtime = LocalNow
    BY <1>13, SMT DEF PwritePart, PwriteRest
  <2> QED
    BY <1>4, <1>13, <2>1, Zenon DEF PwritePart, PwriteRest
<1>14. CASE PatchAbandoned \/ TruncateFails
  <2>1. local' = local \/ local'.mtime = 0
    BY <1>1, <1>14, SMT DEF PatchAbandoned, TruncateFails, LocalOK
  <2> QED
    BY <1>4, <1>14, <2>1, Zenon DEF PatchAbandoned, TruncateFails, RunEnds
<1>15. CASE PatchCompleted
  <2>1. local' = local \/ local'.mtime = LocalNow
    BY <1>15, SMT DEF PatchCompleted
  <2> QED
    BY <1>4, <1>15, <2>1, Zenon DEF PatchCompleted, RunEnds
<1> QED
  BY <1>5, <1>6, <1>7, <1>8, <1>9, <1>10, <1>11, <1>12, <1>13, <1>14, <1>15,
     NextCases, Zenon

\* Only a patch writes in place, and only an existing file is compared.
LEMMA PhaseStep ==
    ASSUME TypeOK, PhaseOrder, [Next]_vars
    PROVE  PhaseOrder'
<1> USE DEF envVars, patchVars
<1>1. ASSUME phase' # "patch", ~wrote_any', fetched' = NoChunks, phase' # "crc"
      PROVE  PhaseOrder'
  BY <1>1, Zenon DEF PhaseOrder
<1>2. ASSUME NEW r, RunEnds(r) PROVE PhaseOrder'
  <2>1. phase' = "idle" /\ wrote_any' = FALSE /\ fetched' = NoChunks
    BY <1>2, Zenon DEF RunEnds
  <2> QED
    BY <1>1, <2>1, SMT
<1>3. ASSUME UNCHANGED <<phase, wrote_any, fetched, local>> PROVE PhaseOrder'
  BY <1>3, Zenon DEF PhaseOrder
<1>4. CASE UNCHANGED vars \/ Tick \/ SourceEdit \/ Cancel
  BY <1>3, <1>4, Zenon DEF vars, Tick, SourceEdit, Cancel
<1>5. CASE \E i \in 1..MaxChunks : FetchChunk(i) \/ ChunkFails(i)
  BY <1>5, Zenon DEF FetchChunk, ChunkFails, PhaseOrder
<1>6. CASE Commit \/ FetchWholeFails \/ DropFetched \/ WriteFails \/ PatchAbandoned
           \/ PatchCompleted \/ TruncateFails \/ Kill
  BY <1>2, <1>6, Zenon DEF Commit, FetchWholeFails, DropFetched, WriteFails,
     PatchAbandoned, PatchCompleted, TruncateFails, Kill
<1>7. CASE Plan
  <2>1. CASE RunEnds("skip")
    BY <1>2, <2>1
  <2>2. CASE ~ RunEnds("skip")
    <3>1. /\ phase = "idle" /\ UNCHANGED <<local, wrote_any, fetched>>
          /\ phase' = IF ClassifyDownload = "DownloadDiff" THEN "crc" ELSE "fetch"
      BY <1>7, <2>2, Zenon DEF Plan
    <3>2. phase' = "crc" => local.exists
      BY <3>1, SMT DEF ClassifyDownload
    <3>3. ~wrote_any /\ fetched = NoChunks
      BY <3>1, SMT DEF PhaseOrder
    <3> QED
      BY <3>1, <3>2, <3>3, SMT DEF PhaseOrder
  <2> QED
    BY <2>1, <2>2
<1>8. CASE FetchWhole \/ WriteTemp \/ CrcFails
  <2>1. /\ phase \in {"fetch", "write", "crc"} /\ phase' \in {"write", "commit", "fetch"}
        /\ UNCHANGED <<wrote_any, fetched>>
    BY <1>8, Zenon DEF FetchWhole, WriteTemp, CrcFails
  <2> QED
    BY <1>1, <2>1, SMT DEF PhaseOrder
<1>9. CASE Compare
  <2>1. CASE RunEnds("ok")
    BY <1>2, <2>1
  <2>2. CASE ~ RunEnds("ok")
    <3>1. /\ phase = "crc" /\ phase' \in {"fetch", "patch"}
          /\ UNCHANGED <<wrote_any, fetched, local>>
      BY <1>9, <2>2, Zenon DEF Compare
    <3> QED
      BY <3>1, SMT DEF PhaseOrder
  <2> QED
    BY <2>1, <2>2
<1>10. ASSUME NEW i \in 1..MaxChunks, PwritePart(i) \/ PwriteRest(i) PROVE PhaseOrder'
  BY <1>10, SMT DEF PwritePart, PwriteRest, PhaseOrder
<1> QED
  BY <1>4, <1>5, <1>6, <1>7, <1>8, <1>9, <1>10, NextCases, Zenon

\* The part of the invariant that a disturbed run gives up.
QuietInv == BelievedIsCurrent /\ HeldData /\ ChunksAccounted /\ ReportedCurrent

\* DownloadInv in terms of QuietInv.
LEMMA InvParts ==
    DownloadInv <=> TypeOK /\ StampsPast /\ PhaseOrder /\ (disturbed = {} => QuietInv)
  BY Zenon DEF DownloadInv, QuietInv

\* A run that ends establishes QuietInv if it leaves a file that is the object
\* whenever it reports so or the next run would believe it.
LEMMA EndsQuiet ==
    ASSUME NEW r, RunEnds(r),
           Believed' => local'.data = s3'.data,
           r \in {"ok", "skip"} => local'.exists /\ local'.data = s3'.data
    PROVE  QuietInv'
<1>1. phase' = "idle" /\ result' = r
  BY Zenon DEF RunEnds
<1>2. BelievedIsCurrent'
  BY Zenon DEF BelievedIsCurrent
<1>3. HeldData' /\ ChunksAccounted'
  BY <1>1, SMT DEF HeldData, ChunksAccounted
<1>4. ReportedCurrent'
  BY <1>1, Zenon DEF ReportedCurrent
<1> QED
  BY <1>2, <1>3, <1>4, Zenon DEF QuietInv

\* A file whose chunks are all the object's, cut to its length, is the object.
LEMMA AllChunksMatch ==
    ASSUME TypeOK, NEW d \in Seq(Data \cup {Torn}), Len(d) = Len(s3.data),
           \A i \in 1..Len(s3.data) : d[i] = s3.data[i]
    PROVE  d = s3.data
<1>1. s3.data \in Contents
  BY Zenon DEF TypeOK
<1>2. s3.data \in Seq(Data \cup {Torn})
  BY <1>1, ContentsAreSequences
<1> QED
  BY <1>2, SameSequence, Zenon

\* A completed patch is the object.
LEMMA CompletedIsObject ==
    ASSUME TypeOK, PhaseOrder, QuietInv, PatchCompleted
    PROVE  local'.exists /\ local'.data = s3.data
<1>1. EnvOK /\ LocalOK /\ RunOK /\ NotShorter
  BY TypeParts
<1>2. /\ phase = "patch" /\ pending = {} /\ DOMAIN fetched = {} /\ ~download_failed
      /\ local.exists
  BY EmptyFacts, Zenon DEF PatchCompleted, PhaseOrder
<1>3. s3_size = Len(s3.data)
  BY <1>2, SMT DEF QuietInv, HeldData
<1>4. /\ local.data \in Seq(Data \cup {Torn}) /\ Len(local.data) \in Nat
      /\ s3_size \in Nat /\ local_size \in Nat
  BY <1>1, SMT DEF LocalOK, RunOK
<1>5. /\ \A i \in 1..s3_size : i <= Len(local.data) /\ local.data[i] = s3.data[i]
      /\ Len(local.data) <= local_size \/ Len(local.data) <= s3_size
      /\ local_size <= Len(local.data)
  BY <1>1, <1>2, Zenon DEF QuietInv, ChunksAccounted, NotShorter
<1>6. CASE s3_size < local_size
  <2>1. local'.exists /\ local'.data = Prefix(local.data, s3_size)
    BY <1>6, SMT DEF PatchCompleted
  <2>2. s3_size <= Len(local.data)
    BY <1>4, <1>5, <1>6, SMT
  <2>3. /\ Prefix(local.data, s3_size) \in Seq(Data \cup {Torn})
        /\ Len(Prefix(local.data, s3_size)) = s3_size
        /\ \A i \in 1..s3_size : Prefix(local.data, s3_size)[i] = local.data[i]
    BY <1>4, <2>2, PrefixFacts
  <2>4. \A i \in 1..Len(s3.data) : Prefix(local.data, s3_size)[i] = s3.data[i]
    BY <1>3, <1>5, <2>3
  <2>5. Prefix(local.data, s3_size) = s3.data
    BY <1>3, <2>3, <2>4, AllChunksMatch
  <2> QED
    BY <2>1, <2>5
<1>7. CASE ~(s3_size < local_size)
  <2>1. local' = local
    BY <1>7, Zenon DEF PatchCompleted
  <2>2. s3_size <= Len(local.data)
    <3>1. CASE s3_size = 0
      BY <1>4, <3>1, SMT
    <3>2. CASE s3_size # 0
      BY <1>4, <1>5, <3>2, SMT
    <3> QED
      BY <3>1, <3>2
  <2>3. Len(local.data) = s3_size
    BY <1>4, <1>5, <1>7, <2>2, SMT
  <2>4. local.data = s3.data
    BY <1>3, <1>4, <1>5, <2>3, AllChunksMatch
  <2> QED
    BY <1>2, <2>1, <2>4
<1> QED
  BY <1>6, <1>7

\* Chunk i of the file becomes v, partly or wholly: d is the file after it.
ChunkWritten(i, v, d) ==
    /\ phase = "patch" /\ i \in DOMAIN fetched /\ v \in Data \cup {Torn}
    /\ local'.data = d /\ wrote_any' = TRUE
    /\ Len(d) = IF i > Len(local.data) THEN i ELSE Len(local.data)
    /\ d[i] = v
    /\ \A j \in 1..Len(local.data) : j # i => d[j] = local.data[j]
    /\ \/ fetched' = fetched
       \/ fetched' = [j \in DOMAIN fetched \ {i} |-> fetched[j]] /\ v = fetched[i]
    /\ UNCHANGED <<s3, phase, s3_size, local_size, pending, download_failed>>

\* A write of a chunk keeps every finished chunk.
LEMMA PwriteAccounted ==
    ASSUME TypeOK, QuietInv, NEW i, NEW v, NEW d, ChunkWritten(i, v, d)
    PROVE  QuietInv'
<1> USE DEF ChunkWritten
<1>1. EnvOK /\ LocalOK /\ RunOK /\ NotShorter
  BY TypeParts
<1>2. /\ local.data \in Seq(Data \cup {Torn}) /\ Len(local.data) \in Nat
      /\ s3_size \in Nat /\ local_size \in Nat /\ i \in Nat \ {0}
  BY <1>1, SMT DEF LocalOK, RunOK
<1>3. /\ Len(d) = IF i > Len(local.data) THEN i ELSE Len(local.data)
      /\ d[i] = v
      /\ \A j \in 1..Len(local.data) : j # i => d[j] = local.data[j]
  BY Zenon
<1>4. /\ pending \subseteq 1..s3_size /\ DOMAIN fetched \subseteq 1..s3_size
      /\ \A j \in DOMAIN fetched : fetched[j] = s3.data[j]
      /\ Len(local.data) <= local_size \/ Len(local.data) <= s3_size
      /\ ~download_failed =>
            \A j \in 1..s3_size :
               \/ j \in pending \cup DOMAIN fetched
               \/ j <= Len(local.data) /\ local.data[j] = s3.data[j]
  BY Zenon DEF QuietInv, ChunksAccounted
<1>5. i <= s3_size
  BY <1>2, <1>4, SMT
<1>6. Len(d) <= local_size \/ Len(d) <= s3_size
  BY <1>2, <1>3, <1>4, <1>5, SMT
<1>7. /\ DOMAIN fetched' \subseteq DOMAIN fetched
      /\ \A j \in DOMAIN fetched' : fetched'[j] = fetched[j]
      /\ i \notin DOMAIN fetched' => v = s3.data[i]
      /\ \A j \in DOMAIN fetched : j # i => j \in DOMAIN fetched'
  BY <1>4, SMT
<1>8. ASSUME ~download_failed, NEW j \in 1..s3_size
      PROVE  j \in pending \cup DOMAIN fetched' \/ (j <= Len(d) /\ d[j] = s3.data[j])
  <2>1. CASE j = i
    BY <1>2, <1>3, <1>7, <2>1, SMT
  <2>2. CASE j # i /\ j \in pending \cup DOMAIN fetched
    BY <1>7, <2>2, Zenon
  <2>3. CASE j # i /\ j <= Len(local.data) /\ local.data[j] = s3.data[j]
    BY <1>2, <1>3, <2>3, SMT
  <2> QED
    BY <1>4, <1>8, <2>1, <2>2, <2>3, Zenon
<1>9. ChunksAccounted'
  BY <1>4, <1>6, <1>7, <1>8, Zenon DEF ChunksAccounted
<1>10. BelievedIsCurrent'
  BY Zenon DEF BelievedIsCurrent
<1>11. HeldData' /\ ReportedCurrent'
  BY SMT DEF QuietInv, HeldData, ReportedCurrent
<1> QED
  BY <1>9, <1>10, <1>11, Zenon DEF QuietInv

\* A step that leaves QuietInv's variables alone keeps it.
LEMMA UntouchedQuiet ==
    ASSUME QuietInv,
           UNCHANGED <<s3, local, phase, s3_size, buf, temp, patchVars, result, disturbed>>
    PROVE  QuietInv'
<1> USE DEF patchVars
<1>1. Believed' = Believed
  BY Zenon DEF Believed, DestinationIsCurrent
<1>2. BelievedIsCurrent'
  BY <1>1, Zenon DEF QuietInv, BelievedIsCurrent
<1>3. HeldData' /\ ReportedCurrent'
  BY Zenon DEF QuietInv, HeldData, ReportedCurrent
<1>4. ChunksAccounted'
  BY Zenon DEF QuietInv, ChunksAccounted
<1> QED
  BY <1>2, <1>3, <1>4, Zenon DEF QuietInv

\* A step of a run that stays out of the patch and does not touch the file.
LEMMA HeldQuiet ==
    ASSUME QuietInv, ~wrote_any,
           UNCHANGED <<s3, local, wrote_any>>,
           phase' \in {"fetch", "write", "commit", "crc"},
           HeldData'
    PROVE  QuietInv'
<1>1. Believed' = Believed
  BY Zenon DEF Believed, DestinationIsCurrent
<1>2. BelievedIsCurrent'
  BY <1>1, Zenon DEF QuietInv, BelievedIsCurrent
<1>3. ReportedCurrent' /\ ChunksAccounted'
  BY SMT DEF ReportedCurrent, ChunksAccounted
<1> QED
  BY <1>2, <1>3, Zenon DEF QuietInv

\* One step of a run that nothing has disturbed.
LEMMA QuietStep ==
    ASSUME DownloadInv, [Next]_vars, disturbed' = {}
    PROVE  QuietInv'
<1> USE DEF envVars, patchVars
<1>1. TypeOK /\ StampsPast /\ PhaseOrder /\ (disturbed = {} => QuietInv)
  BY InvParts
<1>2. EnvOK /\ LocalOK /\ RunOK /\ NotShorter
  BY <1>1, TypeParts
<1>3. CASE SourceEdit
  <2>1. phase = "idle" /\ phase' = "idle" /\ local' = local /\ s3'.mtime = now
        /\ result' = "none"
    BY <1>3, SMT DEF SourceEdit
  <2>2. ~ Believed'
    BY <1>1, <1>2, <2>1, SMT DEF StampsPast, Believed, DestinationIsCurrent, EnvOK, LocalOK
  <2>3. BelievedIsCurrent' /\ HeldData' /\ ChunksAccounted' /\ ReportedCurrent'
    BY <2>1, <2>2, SMT DEF BelievedIsCurrent, HeldData, ChunksAccounted, ReportedCurrent
  <2> QED
    BY <2>3, Zenon DEF QuietInv
<1>4. CASE ~ SourceEdit
  <2>1. disturbed = {}
    <3>1. CASE Kill
      BY <3>1, SMT DEF Kill
    <3>2. CASE ~ Kill
      <4>1. UNCHANGED disturbed
        BY <1>4, <3>2, NextCases, Zenon DEF vars, Plan, FetchWhole, WriteTemp, Commit,
           Compare, FetchChunk, PwriteRest, PatchAbandoned, PatchCompleted,
           FetchWholeFails, DropFetched, WriteFails, CrcFails, PwritePart, ChunkFails,
           TruncateFails, Cancel, Tick
      <4> QED
        BY <4>1
    <3> QED
      BY <3>1, <3>2
  <2>2. QuietInv
    BY <1>1, <2>1
  <2>3. Believed /\ ~wrote_any => local.data = s3.data
    BY <2>2, Zenon DEF QuietInv, BelievedIsCurrent
  <2>4. ASSUME NEW r, RunEnds(r), r \notin {"ok", "skip"}, UNCHANGED <<s3, local>>, ~wrote_any
        PROVE  QuietInv'
    <3>1. Believed' => local'.data = s3'.data
      BY <2>3, <2>4, Zenon DEF Believed, DestinationIsCurrent
    <3> QED
      BY <2>4, <3>1, EndsQuiet, Zenon
  <2>5. ASSUME NEW r, RunEnds(r), UNCHANGED s3, local'.exists, local'.data = s3.data
        PROVE  QuietInv'
    BY <2>5, EndsQuiet, Zenon
  <2>6. CASE UNCHANGED vars \/ Tick \/ Cancel
    BY <2>2, <2>6, UntouchedQuiet, Zenon DEF vars, Tick, Cancel
  <2>7. CASE Plan
    <3>1. phase = "idle" /\ ~wrote_any
      BY <1>1, <2>7, SMT DEF Plan, PhaseOrder
    <3>2. CASE ClassifyDownload = "Skip"
      <4>1. Believed
        BY <3>2, SMT DEF ClassifyDownload, Believed
      <4>2. local.data = s3.data /\ local.exists
        BY <2>3, <3>1, <4>1, Zenon DEF Believed
      <4> QED
        BY <2>5, <2>7, <3>2, <4>2, Zenon DEF Plan
    <3>3. CASE ClassifyDownload # "Skip"
      <4>1. phase' \in {"crc", "fetch"} /\ s3_size' = Len(s3.data)
            /\ UNCHANGED <<s3, local, wrote_any>>
        BY <2>7, <3>3, Zenon DEF Plan
      <4>2. HeldData'
        BY <4>1, SMT DEF HeldData
      <4> QED
        BY <2>2, <3>1, <4>1, <4>2, HeldQuiet, Zenon
    <3> QED
      BY <3>2, <3>3
  <2>8. CASE FetchWhole
    <3>1. ~wrote_any
      BY <1>1, <2>8, SMT DEF FetchWhole, PhaseOrder
    <3>2. s3_size = Len(s3.data)
      BY <2>2, <2>8, SMT DEF QuietInv, HeldData, FetchWhole
    <3>3. buf' = s3.data
      <4>1. s3.data \in Contents
        BY <1>2, Zenon DEF EnvOK
      <4>2. s3.data \in Seq(Data) /\ Len(s3.data) \in Nat
        BY <4>1, ContentsFacts, SMT
      <4> QED
        BY <2>8, <3>2, <4>2, PrefixFacts, SMT DEF FetchWhole
    <3>4. HeldData'
      BY <2>8, <3>2, <3>3, SMT DEF FetchWhole, HeldData
    <3> QED
      BY <2>2, <2>8, <3>1, <3>4, HeldQuiet, Zenon DEF FetchWhole
  <2>9. CASE WriteTemp
    <3>1. ~wrote_any
      BY <1>1, <2>9, SMT DEF WriteTemp, PhaseOrder
    <3>2. HeldData'
      BY <2>2, <2>9, SMT DEF QuietInv, WriteTemp, HeldData
    <3> QED
      BY <2>2, <2>9, <3>1, <3>2, HeldQuiet, Zenon DEF WriteTemp
  <2>10. CASE CrcFails
    <3>1. ~wrote_any
      BY <1>1, <2>10, SMT DEF CrcFails, PhaseOrder
    <3>2. HeldData'
      BY <2>2, <2>10, SMT DEF QuietInv, CrcFails, HeldData
    <3> QED
      BY <2>2, <2>10, <3>1, <3>2, HeldQuiet, Zenon DEF CrcFails
  <2>11. CASE FetchWholeFails \/ DropFetched \/ WriteFails
    <3>1. ~wrote_any
      BY <1>1, <2>11, SMT DEF FetchWholeFails, DropFetched, WriteFails, PhaseOrder
    <3>2. RunEnds("failed") /\ UNCHANGED <<s3, local>>
      BY <2>11, Zenon DEF FetchWholeFails, DropFetched, WriteFails
    <3> QED
      BY <2>4, <3>1, <3>2, SMT
  <2>12. CASE Commit
    <3>1. local'.exists /\ local'.data = s3.data
      BY <2>2, <2>12, SMT DEF QuietInv, HeldData, Commit
    <3> QED
      BY <2>5, <2>12, <3>1, Zenon DEF Commit
  <2>13. CASE Kill
    <3>1. ~wrote_any
      BY <2>13, SMT DEF Kill
    <3>2. RunEnds("failed") /\ UNCHANGED <<s3, local>>
      BY <2>13, Zenon DEF Kill
    <3> QED
      BY <2>4, <3>1, <3>2, SMT
  <2>14. CASE Compare
    <3>1. ~wrote_any /\ local.exists /\ phase = "crc" /\ UNCHANGED <<s3, local>>
      BY <1>1, <2>14, SMT DEF Compare, PhaseOrder
    <3>2. s3_size = Len(s3.data)
      BY <2>2, <3>1, SMT DEF QuietInv, HeldData
    <3>3. local.data \in Seq(Data \cup {Torn}) /\ Len(local.data) \in Nat /\ s3_size \in Nat
      BY <1>2, SMT DEF LocalOK, RunOK
    <3>4. \A i \in 1..s3_size :
             i \in ChunksToDownload \/ (i <= Len(local.data) /\ local.data[i] = s3.data[i])
      BY <3>3, SMT DEF ChunksToDownload
    <3>5. CASE RunEnds("ok") /\ ChunksToDownload = {} /\ Len(local.data) = s3_size
      <4>1. \A i \in 1..Len(s3.data) : local.data[i] = s3.data[i]
        BY <3>2, <3>4, <3>5, Zenon
      <4>2. local.data = s3.data
        BY <1>1, <3>2, <3>3, <3>5, <4>1, AllChunksMatch, Zenon
      <4> QED
        BY <2>5, <3>1, <3>5, <4>2, Zenon
    <3>6. CASE phase' = "fetch" /\ UNCHANGED <<s3_size, wrote_any>>
      <4>1. HeldData'
        BY <3>1, <3>2, <3>6, SMT DEF HeldData
      <4> QED
        BY <2>2, <3>1, <3>6, <4>1, HeldQuiet, Zenon
    <3>7. CASE /\ phase' = "patch" /\ local_size' = Len(local.data)
               /\ pending' = ChunksToDownload
               /\ UNCHANGED <<s3_size, fetched, wrote_any, download_failed, result>>
      <4>1. HeldData' /\ ReportedCurrent'
        BY <3>1, <3>2, <3>7, SMT DEF HeldData, ReportedCurrent
      <4>2. Believed' = Believed
        BY <3>1, Zenon DEF Believed, DestinationIsCurrent
      <4>3. BelievedIsCurrent'
        BY <2>3, <3>1, <3>7, <4>2, Zenon DEF BelievedIsCurrent
      <4>4. ChunksToDownload \subseteq 1..s3_size
        BY Zenon DEF ChunksToDownload
      <4>5. DOMAIN fetched = {}
        BY <1>1, <3>1, EmptyFacts, Zenon DEF PhaseOrder
      <4>6. local_size' \in Nat /\ Len(local.data) <= local_size'
        BY <3>3, <3>7, SMT
      <4>7. ChunksAccounted'
        BY <3>1, <3>4, <3>7, <4>4, <4>5, <4>6, Zenon DEF ChunksAccounted
      <4> QED
        BY <4>1, <4>3, <4>7, Zenon DEF QuietInv
    <3> QED
      BY <2>14, <3>5, <3>6, <3>7, Zenon DEF Compare
  <2>15. ASSUME NEW i \in 1..MaxChunks, FetchChunk(i) PROVE QuietInv'
    <3>1. HeldData' /\ ReportedCurrent'
      BY <2>2, <2>15, SMT DEF FetchChunk, QuietInv, HeldData, ReportedCurrent
    <3>2. Believed' = Believed
      BY <2>15, Zenon DEF FetchChunk, Believed, DestinationIsCurrent
    <3>3. BelievedIsCurrent'
      BY <2>2, <2>15, <3>2, Zenon DEF FetchChunk, QuietInv, BelievedIsCurrent
    <3>4. /\ DOMAIN fetched' = DOMAIN fetched \cup {i}
          /\ \A j \in DOMAIN fetched' : fetched'[j] = IF j = i THEN s3.data[i] ELSE fetched[j]
          /\ i \in pending /\ pending' = pending \ {i}
          /\ UNCHANGED <<s3, local, phase, s3_size, local_size, download_failed>>
      BY <2>15, Zenon DEF FetchChunk
    <3>5. ChunksAccounted'
      BY <2>2, <3>4, Zenon DEF QuietInv, ChunksAccounted
    <3> QED
      BY <3>1, <3>3, <3>5, Zenon DEF QuietInv
  <2>16. ASSUME NEW i \in 1..MaxChunks, PwritePart(i) PROVE QuietInv'
    <3>1. local'.data = Patched(local.data, i, Torn)
      BY <2>16, Zenon DEF PwritePart
    <3>2. local.data \in Seq(Data \cup {Torn}) /\ i \in Nat \ {0}
      BY <1>2, SMT DEF LocalOK
    <3> DEFINE d == Patched(local.data, i, Torn)
    <3>3. /\ Len(d) = IF i > Len(local.data) THEN i ELSE Len(local.data)
          /\ d[i] = Torn
          /\ \A j \in 1..Len(local.data) : j # i => d[j] = local.data[j]
      BY <3>2, PatchedFacts, SMT
    <3> HIDE DEF d
    <3>4. local'.data = d
      BY <3>1 DEF d
    <3>5. ChunkWritten(i, Torn, d)
      BY <2>16, <3>3, <3>4, Zenon DEF ChunkWritten, PwritePart
    <3> QED
      BY <1>1, <2>2, <3>5, PwriteAccounted
  <2>17. ASSUME NEW i \in 1..MaxChunks, PwriteRest(i) PROVE QuietInv'
    <3>1. local'.data = Patched(local.data, i, fetched[i])
      BY <2>17, Zenon DEF PwriteRest
    <3>2. fetched[i] \in Data \cup {Torn}
      BY <1>2, <2>17, Zenon DEF PwriteRest, RunOK
    <3>3. local.data \in Seq(Data \cup {Torn}) /\ i \in Nat \ {0}
      BY <1>2, SMT DEF LocalOK
    <3> DEFINE v == fetched[i]
               d == Patched(local.data, i, v)
    <3>4. v \in Data \cup {Torn} /\ v = fetched[i]
      BY <3>2
    <3> HIDE DEF v
    <3>5. /\ Len(d) = IF i > Len(local.data) THEN i ELSE Len(local.data)
          /\ d[i] = v
          /\ \A j \in 1..Len(local.data) : j # i => d[j] = local.data[j]
      BY <3>3, <3>4, PatchedFacts, SMT
    <3>6. local'.data = d
      BY <3>1, <3>4
    <3> HIDE DEF d
    <3>7. ChunkWritten(i, v, d)
      BY <2>17, <3>4, <3>5, <3>6, Zenon DEF ChunkWritten, PwriteRest
    <3> QED
      BY <1>1, <2>2, <3>7, PwriteAccounted
  <2>18. ASSUME NEW i \in 1..MaxChunks, ChunkFails(i) PROVE QuietInv'
    <3>1. HeldData' /\ ReportedCurrent'
      BY <2>2, <2>18, SMT DEF ChunkFails, QuietInv, HeldData, ReportedCurrent
    <3>2. Believed' = Believed
      BY <2>18, Zenon DEF ChunkFails, Believed, DestinationIsCurrent
    <3>3. BelievedIsCurrent'
      BY <2>2, <2>18, <3>2, Zenon DEF ChunkFails, QuietInv, BelievedIsCurrent
    <3>4. /\ DOMAIN fetched' \subseteq DOMAIN fetched
          /\ \A j \in DOMAIN fetched' : fetched'[j] = fetched[j]
          /\ pending' \subseteq pending /\ download_failed'
          /\ UNCHANGED <<s3, local, phase, s3_size, local_size>>
      BY <2>18, SMT DEF ChunkFails
    <3>5. ChunksAccounted'
      BY <2>2, <3>4, Zenon DEF QuietInv, ChunksAccounted
    <3> QED
      BY <3>1, <3>3, <3>5, Zenon DEF QuietInv
  <2>19. CASE PatchAbandoned \/ TruncateFails
    <3>1. RunEnds("failed") /\ UNCHANGED s3
      BY <2>19, Zenon DEF PatchAbandoned, TruncateFails
    <3>2. CASE wrote_any
      <4>1. local'.mtime = 0
        BY <1>2, <2>19, <3>2, SMT DEF PatchAbandoned, TruncateFails, LocalOK
      <4>2. ~ Believed'
        BY <4>1, SMT DEF Believed, DestinationIsCurrent
      <4>3. "failed" \notin {"ok", "skip"}
        BY SMT
      <4> QED
        BY <3>1, <4>2, <4>3, EndsQuiet, Zenon
    <3>3. CASE ~wrote_any
      <4>1. local' = local
        BY <2>19, <3>3, Zenon DEF PatchAbandoned, TruncateFails
      <4> QED
        BY <2>4, <3>1, <3>3, <4>1, SMT
    <3> QED
      BY <3>2, <3>3
  <2>20. CASE PatchCompleted
    <3>1. local'.exists /\ local'.data = s3.data
      BY <1>1, <2>2, <2>20, CompletedIsObject
    <3> QED
      BY <2>5, <2>20, <3>1, Zenon DEF PatchCompleted
  <2> QED
    BY <1>4, <2>6, <2>7, <2>8, <2>9, <2>10, <2>11, <2>12, <2>13, <2>14, <2>15, <2>16,
       <2>17, <2>18, <2>19, <2>20, NextCases, Zenon
<1> QED
  BY <1>3, <1>4

\* DownloadInv holds initially: the file is not newer than the object.
LEMMA InvInit == Init => DownloadInv
<1> SUFFICES ASSUME Init PROVE DownloadInv
  OBVIOUS
<1>1. TypeOK
  BY TypeInit
<1>2. EnvOK /\ LocalOK /\ RunOK
  BY <1>1, TypeParts
<1>3. StampsPast
  <2>1. temp.mtime = 0
    BY SMT DEF Init, Absent
  <2>2. s3.mtime = 1 /\ now = 1 /\ local.mtime <= s3.mtime
    BY SMT DEF Init
  <2> QED
    BY <1>2, <2>1, <2>2, SMT DEF StampsPast, LocalOK
<1>4. PhaseOrder
  BY SMT DEF Init, PhaseOrder
<1>5. ~ Believed
  BY <1>2, SMT DEF Init, Believed, DestinationIsCurrent, LocalOK, EnvOK
<1>6. HeldData /\ ChunksAccounted /\ ReportedCurrent /\ BelievedIsCurrent
  BY <1>5, SMT DEF Init, HeldData, ChunksAccounted, ReportedCurrent, BelievedIsCurrent
<1> QED
  BY <1>1, <1>3, <1>4, <1>6, Zenon DEF DownloadInv

(***************************************************************************)
(* What a run reports as transferred or skips as current is the object,    *)
(* for every number of chunks, workers, failures and edits: the mtime rule *)
(* of destination_is_current and the marking of an abandoned patch suffice *)
(* as long as no run is killed inside a patch, the object does not change  *)
(* under a run, and the local clock is not ahead of that of S3.            *)
(***************************************************************************)
THEOREM ReportedIsCurrent == Spec => []ReportedCurrent
<1>1. Init => DownloadInv
  BY InvInit
<1>2. DownloadInv /\ [Next]_vars => DownloadInv'
  <2> SUFFICES ASSUME DownloadInv, [Next]_vars PROVE DownloadInv'
    OBVIOUS
  <2>1. TypeOK /\ StampsPast /\ PhaseOrder
    BY InvParts
  <2>2. TypeOK' /\ StampsPast' /\ PhaseOrder'
    BY <2>1, TypeStep, StampsStep, PhaseStep
  <2>3. disturbed' = {} => QuietInv'
    BY QuietStep
  <2> QED
    BY <2>2, <2>3, Zenon DEF DownloadInv, QuietInv
<1>3. DownloadInv => ReportedCurrent
  BY Zenon DEF DownloadInv, ReportedCurrent
<1> QED
  BY <1>1, <1>2, <1>3, PTL DEF Spec
=============================================================================

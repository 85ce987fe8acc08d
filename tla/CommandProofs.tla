----------------------------- MODULE CommandProofs -----------------------------
(***************************************************************************)
(* The metrics file and the exit codes, for every set of processes, every  *)
(* number of calls and every number of kills and failed writes.            *)
(***************************************************************************)
EXTENDS Command, TLAPS

USE CommandAssumption

\* What a file or the memory of a process can hold.
Content == [kind : {"none", "part", "whole"}, calls : [Procs -> 0 .. MaxCalls],
            regions : SUBSET Procs]

\* The parts of TypeOK.
ControlOK ==
    /\ cmd \in [Procs -> Commands \cup {"none"}]
    /\ pc \in [Procs -> {"start", "exited", "killed"} \cup Live]
    /\ outcome \in [Procs -> Outcomes]
    /\ code \in [Procs -> Codes \cup {NoCode}]
SignalsOK ==
    shutdown \in [Procs -> BOOLEAN] /\ cancelled \in [Procs -> BOOLEAN]
MemOK    == mem \in [Procs -> Content]
FilesOK  == temp \in [Procs -> Content] /\ file \in Content /\ old \subseteq Procs
FaultsOK == faults \in 0 .. MaxFaults
CallsOK  == calls \in [Procs -> 0 .. MaxCalls] /\ located \subseteq Procs
LoadedOK == read \in [Procs -> BOOLEAN] /\ before \in [Procs -> SUBSET Procs]
OwedOK   == saved \subseteq Procs /\ owed \subseteq saved

Typed ==
    ControlOK /\ SignalsOK /\ MemOK /\ FilesOK /\ FaultsOK /\ CallsOK /\ LoadedOK /\ OwedOK

\* Where a process is in its life: what it has not done yet, and that only one
\* that has exited has saved.
Stage(p) ==
    /\ pc[p] = "start" => cmd[p] = "none"
    /\ pc[p] \in Live => cmd[p] \in Commands
    /\ pc[p] \in Working => cmd[p] # "reset"
    /\ p \in saved => pc[p] = "exited"
    /\ pc[p] \in {"start", "load", "region"} => calls[p] = 0 /\ p \notin located
    /\ pc[p] \in {"start", "load", "region", "run"} => code[p] = NoCode
    /\ before[p] \subseteq saved

\* The memory of a process counts its own calls, and none of a run that has not
\* saved.  What it is about to rename is what it holds in memory, and is there
\* unless an hour has passed.
Memory(p) ==
    /\ mem[p].kind = "whole"
    /\ pc[p] \in Working \cup Saving =>
          mem[p].calls[p] = calls[p] /\ (p \in located => p \in mem[p].regions)
    /\ \A q \in Procs \ (saved \cup {p}) : mem[p].calls[q] = 0
    /\ pc[p] = "rename" => temp[p].kind = "none" \/ temp[p] = mem[p]
    /\ pc[p] \in {"write", "rename"} /\ p \notin old => temp[p].kind # "none"

\* The file counts nothing of a run that has not saved.
FileSound ==
    /\ file.kind \in {"none", "whole"}
    /\ \A q \in Procs \ saved : file.calls[q] = 0

\* The contents account for the run q.
Accounts(content, q) ==
    /\ content.kind = "whole"
    /\ content.calls[q] = calls[q]
    /\ q \in located => q \in content.regions

\* The runs that a save by p would keep are those it has in memory.
Carried(p) ==
    (pc[p] \in Working \cup Saving /\ read[p] /\ cmd[p] # "reset") =>
       \A q \in owed \ (saved \ before[p]) : Accounts(mem[p], q)

CommandInv ==
    /\ Typed /\ FileSound
    /\ \A p \in Procs : Stage(p) /\ Memory(p) /\ Carried(p)
    /\ \A q \in owed : Accounts(file, q)

\* The invariant says what the runs check, but for the exit codes.
LEMMA InvImplies == CommandInv => TypeOK /\ FileWhole /\ HistoryKept
<1> SUFFICES ASSUME CommandInv PROVE TypeOK /\ FileWhole /\ HistoryKept
  OBVIOUS
<1>1. owed \subseteq Procs
  BY DEF CommandInv, Typed, OwedOK
<1>2. TypeOK
  BY <1>1, Zenon DEF CommandInv, Typed, TypeOK, Content, ControlOK, SignalsOK, MemOK, FilesOK,
     FaultsOK, CallsOK, LoadedOK, OwedOK
<1>3. FileWhole /\ HistoryKept
  BY DEF CommandInv, FileSound, FileWhole, HistoryKept, Accounts
<1> QED
  BY <1>2, <1>3

-----------------------------------------------------------------------------
(* Contents.                                                               *)

\* What Metrics makes is a content, with the fields it was given.
LEMMA MetricsFacts ==
    ASSUME NEW k \in {"none", "part", "whole"}, NEW c \in [Procs -> 0 .. MaxCalls],
           NEW r \in SUBSET Procs
    PROVE  /\ Metrics(k, c, r) \in Content
           /\ Metrics(k, c, r).kind = k /\ Metrics(k, c, r).calls = c
           /\ Metrics(k, c, r).regions = r
  BY SMT DEF Metrics, Content

\* The contents that are named.
LEMMA EmptyContents ==
    /\ Zero \in [Procs -> 0 .. MaxCalls] /\ \A q \in Procs : Zero[q] = 0
    /\ NoFile \in Content /\ NoFile.kind = "none"
    /\ Cleared \in Content /\ Cleared.kind = "whole" /\ Cleared.calls = Zero
    /\ Metrics("part", Zero, {}) \in Content /\ Metrics("part", Zero, {}).kind = "part"
<1>1. Zero \in [Procs -> 0 .. MaxCalls] /\ \A q \in Procs : Zero[q] = 0
  BY SMT DEF Zero
<1> HIDE DEF Zero
<1>2. \A k \in {"none", "part", "whole"} :
         /\ Metrics(k, Zero, {}) \in Content /\ Metrics(k, Zero, {}).kind = k
         /\ Metrics(k, Zero, {}).calls = Zero
  BY <1>1, MetricsFacts
<1> QED
  BY <1>1, <1>2 DEF NoFile, Cleared

\* A content has the fields of its type.
LEMMA ContentFacts ==
    ASSUME NEW c \in Content
    PROVE  /\ c.kind \in {"none", "part", "whole"}
           /\ c.calls \in [Procs -> 0 .. MaxCalls] /\ c.regions \in SUBSET Procs
           /\ c = Metrics(c.kind, c.calls, c.regions)
  BY SMT DEF Content, Metrics

\* recordStart counts one call of p and leaves the rest.
LEMMA RecordFacts ==
    ASSUME NEW c \in Content, NEW p \in Procs, c.calls[p] < MaxCalls
    PROVE  /\ RecordStart(c, p) \in Content
           /\ RecordStart(c, p).kind = c.kind /\ RecordStart(c, p).regions = c.regions
           /\ RecordStart(c, p).calls[p] = c.calls[p] + 1
           /\ \A q \in Procs \ {p} : RecordStart(c, p).calls[q] = c.calls[q]
<1> DEFINE d == [c.calls EXCEPT ![p] = c.calls[p] + 1]
<1>1. RecordStart(c, p) = Metrics(c.kind, d, c.regions)
  BY SMT DEF RecordStart, Metrics, Content
<1>2. d \in [Procs -> 0 .. MaxCalls] /\ d[p] = c.calls[p] + 1
      /\ \A q \in Procs \ {p} : d[q] = c.calls[q]
  BY ContentFacts, SMT
<1> HIDE DEF d
<1>3. c.kind \in {"none", "part", "whole"} /\ c.regions \in SUBSET Procs
  BY ContentFacts
<1> QED
  BY <1>1, <1>2, <1>3, MetricsFacts

\* addRegion adds a region and leaves the counters.
LEMMA RegionFacts ==
    ASSUME NEW c \in Content, NEW p \in Procs
    PROVE  /\ AddRegion(c, p) \in Content
           /\ AddRegion(c, p).kind = c.kind /\ AddRegion(c, p).calls = c.calls
           /\ AddRegion(c, p).regions = c.regions \cup {p}
<1>1. AddRegion(c, p) = Metrics(c.kind, c.calls, c.regions \cup {p})
  BY SMT DEF AddRegion, Metrics, Content
<1> QED
  BY <1>1, ContentFacts, MetricsFacts

-----------------------------------------------------------------------------
(* The other processes.                                                    *)

\* A step of p leaves the others where they are.
Others(p) ==
    \A q \in Procs \ {p} :
       /\ cmd'[q] = cmd[q] /\ pc'[q] = pc[q] /\ shutdown'[q] = shutdown[q]
       /\ cancelled'[q] = cancelled[q] /\ outcome'[q] = outcome[q] /\ code'[q] = code[q]
       /\ mem'[q] = mem[q] /\ calls'[q] = calls[q] /\ read'[q] = read[q]
       /\ before'[q] = before[q] /\ (q \in located' <=> q \in located)
       /\ temp'[q] = temp[q] \/ (q \in old /\ temp'[q] = NoFile)

\* Only a save of p makes a run saved or owed, and then it is p.
Saves(p) ==
    /\ saved \subseteq saved' /\ saved' \subseteq saved \cup {p}
    /\ owed' \subseteq owed \cup (saved' \ saved)
    /\ old' = old

\* So the invariant stays true of the others.
LEMMA OthersKept ==
    ASSUME CommandInv, NEW p \in Procs, p \notin saved, Others(p), Saves(p), NEW q \in Procs \ {p}
    PROVE  Stage(q)' /\ Memory(q)' /\ Carried(q)'
<1>0. Stage(q) /\ Memory(q) /\ Carried(q)
  BY DEF CommandInv
<1>1. Stage(q)'
  BY <1>0 DEF Stage, Others, Saves
<1>2. Memory(q)'
  BY <1>0, EmptyContents DEF Memory, Others, Saves
<1>3. \A r \in owed' \ (saved' \ before'[q]) : r \in owed \ (saved \ before[q]) /\ r \in Procs \ {p}
  BY <1>0 DEF Stage, Others, Saves, CommandInv, Typed, OwedOK
<1>4. \A r \in Procs \ {p} : Accounts(mem[q], r) => Accounts(mem[q], r)'
  BY DEF Accounts, Others
<1>5. Carried(q)'
  BY <1>0, <1>3, <1>4 DEF Carried, Others
<1> QED
  BY <1>1, <1>2, <1>5

\* And of the file, when p does not rename.
LEMMA FileKept ==
    ASSUME CommandInv, NEW p \in Procs, p \notin saved, Others(p), UNCHANGED <<file, saved>>,
           owed' \subseteq owed
    PROVE  FileSound' /\ \A q \in owed' : Accounts(file, q)'
<1>1. FileSound'
  BY DEF CommandInv, FileSound
<1>2. \A q \in owed' : q \in owed /\ q \in Procs \ {p}
  BY DEF CommandInv, Typed, OwedOK
<1>3. \A q \in Procs \ {p} : Accounts(file, q) => Accounts(file, q)'
  BY DEF Accounts, Others
<1> QED
  BY <1>1, <1>2, <1>3 DEF CommandInv

-----------------------------------------------------------------------------
(* One lemma per step: the type, and the invariant of the process itself.  *)

\* What a step of p has to establish.
StepGoal(p) ==
    /\ Typed' /\ Others(p) /\ Saves(p)
    /\ Stage(p)' /\ Memory(p)' /\ Carried(p)'
    /\ FileSound' /\ \A q \in owed' : Accounts(file, q)'

\* Exit: the memory of a process goes with it.
LEMMA ExitFacts ==
    ASSUME Typed, NEW p \in Procs, NEW c \in Codes \cup {NoCode}, NEW how \in {"exited", "killed"},
           Exit(p, c, how)
    PROVE  /\ pc'[p] = how /\ code'[p] = c /\ mem'[p] = Cleared
           /\ shutdown'[p] = FALSE /\ cancelled'[p] = FALSE
           /\ \A q \in Procs \ {p} :
                 /\ pc'[q] = pc[q] /\ shutdown'[q] = shutdown[q] /\ cancelled'[q] = cancelled[q]
                 /\ outcome'[q] = outcome[q] /\ code'[q] = code[q] /\ mem'[q] = mem[q]
           /\ pc' \in [Procs -> {"start", "exited", "killed"} \cup Live]
           /\ outcome' \in [Procs -> Outcomes]
           /\ code' \in [Procs -> Codes \cup {NoCode}]
           /\ SignalsOK' /\ MemOK'
<1>1. Cleared \in Content
  BY EmptyContents
<1> HIDE DEF Cleared
<1>2. /\ pc \in [Procs -> {"start", "exited", "killed"} \cup Live]
      /\ outcome \in [Procs -> Outcomes] /\ code \in [Procs -> Codes \cup {NoCode}]
      /\ SignalsOK /\ MemOK
  BY DEF Typed, ControlOK
<1>3. /\ pc' \in [Procs -> {"start", "exited", "killed"} \cup Live] /\ pc'[p] = how
      /\ \A q \in Procs \ {p} : pc'[q] = pc[q]
  BY <1>2, SMT DEF Exit, Goto
<1>4. /\ outcome' \in [Procs -> Outcomes]
      /\ \A q \in Procs \ {p} : outcome'[q] = outcome[q]
  BY <1>2, SMT DEF Exit, Outcomes
<1>5. /\ code' \in [Procs -> Codes \cup {NoCode}] /\ code'[p] = c
      /\ \A q \in Procs \ {p} : code'[q] = code[q]
  BY <1>2, SMT DEF Exit
<1>6. /\ SignalsOK' /\ shutdown'[p] = FALSE /\ cancelled'[p] = FALSE
      /\ \A q \in Procs \ {p} : shutdown'[q] = shutdown[q] /\ cancelled'[q] = cancelled[q]
  BY <1>2, SMT DEF Exit, SignalsOK
<1>7. /\ MemOK' /\ mem'[p] = Cleared
      /\ \A q \in Procs \ {p} : mem'[q] = mem[q]
  BY <1>1, <1>2, SMT DEF Exit, MemOK
<1> QED
  BY <1>3, <1>4, <1>5, <1>6, <1>7

\* A process that has exited or died has an empty memory and nothing left to do.
LEMMA ExitedSound ==
    ASSUME NEW p \in Procs, CommandInv, pc'[p] \in {"exited", "killed"}, mem'[p] = Cleared,
           p \in saved' => pc'[p] = "exited", before'[p] = before[p], saved \subseteq saved'
    PROVE  Stage(p)' /\ Memory(p)' /\ Carried(p)'
<1>1. pc'[p] \notin Live /\ pc'[p] \notin Working \cup Saving
  BY SMT DEF Live, Working, Saving
<1>2. pc'[p] \notin {"start", "load", "region", "run", "write", "rename"} /\ pc'[p] \notin Working
  BY SMT DEF Working
<1>3. before[p] \subseteq saved
  BY DEF CommandInv, Stage
<1>4. Stage(p)'
  BY <1>1, <1>2, <1>3 DEF Stage
<1>5. Memory(p)'
  BY <1>1, <1>2, EmptyContents, SMT DEF Memory
<1>6. Carried(p)'
  BY <1>1 DEF Carried
<1> QED
  BY <1>4, <1>5, <1>6

\* A process that has not exited has not saved.
LEMMA NotSaved ==
    ASSUME CommandInv, NEW p \in Procs, pc[p] # "exited" PROVE p \notin saved
  BY DEF CommandInv, Stage

\* Exits that neither save nor touch the file: a wrong command line, a kill.
LEMMA ExitStep ==
    ASSUME CommandInv, NEW p \in Procs, NEW c \in Codes \cup {NoCode},
           NEW how \in {"exited", "killed"},
           pc[p] # "exited", Exit(p, c, how), faults' \in 0 .. MaxFaults,
           UNCHANGED <<cmd, file, old, saved, owed, calls, located, read, before>>,
           FilesOK', \A q \in Procs \ {p} : temp'[q] = temp[q]
    PROVE  StepGoal(p)
<1>1. Typed
  BY DEF CommandInv
<1>2. ControlOK' /\ SignalsOK' /\ MemOK'
  BY <1>1, ExitFacts DEF Typed, ControlOK
<1>3. Typed'
  BY <1>1, <1>2 DEF Typed, FaultsOK, CallsOK, LoadedOK, OwedOK
<1>4. Others(p)
  <2>0. \A q \in Procs \ {p} : shutdown'[q] = shutdown[q] /\ cancelled'[q] = cancelled[q]
    BY <1>1, SMT DEF Exit, Typed, SignalsOK
  <2>1. \A q \in Procs \ {p} :
           /\ pc'[q] = pc[q] /\ outcome'[q] = outcome[q] /\ code'[q] = code[q]
           /\ mem'[q] = mem[q]
    BY <1>1, SMT DEF Exit, Goto, Typed, ControlOK, MemOK
  <2>2. \A q \in Procs \ {p} :
           /\ cmd'[q] = cmd[q] /\ calls'[q] = calls[q] /\ read'[q] = read[q]
           /\ before'[q] = before[q] /\ (q \in located' <=> q \in located)
    OBVIOUS
  <2> QED
    BY <2>0, <2>1, <2>2, Zenon DEF Others
<1>5. p \notin saved
  BY NotSaved
<1>6. Saves(p)
  BY DEF Saves
<1>7. Stage(p)' /\ Memory(p)' /\ Carried(p)'
  BY <1>1, <1>5, ExitFacts, ExitedSound
<1>8. FileSound' /\ \A q \in owed' : Accounts(file, q)'
  BY <1>4, <1>5, FileKept
<1> QED
  BY <1>3, <1>4, <1>6, <1>7, <1>8 DEF StepGoal

\* A usage error ends a process that has loaded nothing and owes nothing.
LEMMA UsageErrorStep ==
    ASSUME CommandInv, NEW p \in Procs, UsageError(p) PROVE StepGoal(p)
<1>1. PICK c \in {1, 2} : Exit(p, c, "exited")
  BY DEF UsageError
<1>2. pc[p] # "exited"
  BY DEF UsageError
<1>3. UNCHANGED <<cmd, file, old, saved, owed, calls, located, read, before, temp, faults>>
  BY Zenon DEF UsageError, saveVars, ghostVars
<1>4. FilesOK' /\ faults' \in 0 .. MaxFaults
  BY <1>3 DEF CommandInv, Typed, FilesOK, FaultsOK
<1>5. c \in Codes \cup {NoCode}
  BY SMT DEF Codes
<1> QED
  BY <1>1, <1>2, <1>3, <1>4, <1>5, ExitStep

\* A process may be killed wherever it is: the file stays as it was.
LEMMA DieStep ==
    ASSUME CommandInv, NEW p \in Procs, Die(p) PROVE StepGoal(p)
<1>1. Exit(p, NoCode, "killed") /\ NoCode \in Codes \cup {NoCode}
  BY DEF Die
<1>2. pc[p] # "exited"
  BY SMT DEF Die, Live, Working, Saving
<1>3. UNCHANGED <<cmd, file, old, saved, owed, calls, located, read, before, temp>>
  BY Zenon DEF Die, saveVars, ghostVars
<1>4. FilesOK'
  BY <1>3 DEF CommandInv, Typed, FilesOK
<1>5. faults' \in 0 .. MaxFaults
  BY SMT DEF Die, Fault, CommandInv, Typed, FaultsOK
<1> QED
  BY <1>1, <1>2, <1>3, <1>4, <1>5, ExitStep

\* Steps on which neither the disk nor the control of others changes: what is left
\* to show is the type of what p changed, and the invariant of p.
LEMMA QuietGoal ==
    ASSUME CommandInv, NEW p \in Procs, pc[p] # "exited",
           UNCHANGED <<file, temp, old, saved, owed>>,
           ControlOK', SignalsOK', MemOK', FaultsOK', CallsOK', LoadedOK', Others(p),
           Stage(p)', Memory(p)', Carried(p)'
    PROVE  StepGoal(p)
<1>1. Typed'
  BY DEF CommandInv, Typed, FilesOK, OwedOK
<1>2. p \notin saved
  BY NotSaved
<1>3. Saves(p)
  BY DEF Saves
<1>4. FileSound' /\ \A q \in owed' : Accounts(file, q)'
  BY <1>2, FileKept
<1> QED
  BY <1>1, <1>3, <1>4 DEF StepGoal

\* What Goto does to the control state.
LEMMA GotoFacts ==
    ASSUME Typed, NEW p \in Procs, NEW next \in {"start", "exited", "killed"} \cup Live,
           Goto(p, next)
    PROVE  /\ pc' \in [Procs -> {"start", "exited", "killed"} \cup Live] /\ pc'[p] = next
           /\ \A q \in Procs \ {p} : pc'[q] = pc[q]
  BY SMT DEF Typed, ControlOK, Goto

\* A process that starts has read nothing yet.
LEMMA StartStep ==
    ASSUME CommandInv, NEW p \in Procs, Start(p) PROVE StepGoal(p)
<1>0. Typed /\ Stage(p) /\ Memory(p)
  BY DEF CommandInv
<1>1. PICK c \in Commands : cmd' = [cmd EXCEPT ![p] = c]
  BY DEF Start
<1>2. /\ pc[p] = "start" /\ Goto(p, "load")
      /\ UNCHANGED <<shutdown, cancelled, outcome, code, mem, file, temp, old, saved, owed,
                     faults, calls, located, read, before>>
  BY Zenon DEF Start, saveVars, ghostVars
<1>3. /\ pc' \in [Procs -> {"start", "exited", "killed"} \cup Live] /\ pc'[p] = "load"
      /\ \A q \in Procs \ {p} : pc'[q] = pc[q]
  BY <1>0, <1>2, GotoFacts DEF Live
<1>4. /\ cmd' \in [Procs -> Commands \cup {"none"}] /\ cmd'[p] = c
      /\ \A q \in Procs \ {p} : cmd'[q] = cmd[q]
  BY <1>0, <1>1, SMT DEF Typed, ControlOK
<1>5. ControlOK' /\ SignalsOK' /\ MemOK' /\ FaultsOK' /\ CallsOK' /\ LoadedOK'
  BY <1>0, <1>2, <1>3, <1>4 DEF Typed, ControlOK, SignalsOK, MemOK, FaultsOK, CallsOK, LoadedOK
<1>6. Others(p)
  BY <1>2, <1>3, <1>4, Zenon DEF Others
<1>7. Stage(p)'
  BY <1>0, <1>2, <1>3, <1>4, SMT DEF Stage, Live, Working
<1>8. Memory(p)'
  BY <1>0, <1>2, <1>3, SMT DEF Memory, Working, Saving
<1>9. Carried(p)'
  BY <1>3, SMT DEF Carried, Working, Saving
<1> QED
  BY <1>2, <1>5, <1>6, <1>7, <1>8, <1>9, QuietGoal

\* load(): what the file has of the runs that are owed is in memory.
LEMMA LoadStep ==
    ASSUME CommandInv, NEW p \in Procs, Load(p) PROVE StepGoal(p)
<1>0. Typed /\ Stage(p) /\ Memory(p) /\ FileSound /\ \A q \in owed : Accounts(file, q)
  BY DEF CommandInv
<1>1. PICK readable \in BOOLEAN :
          /\ IF readable THEN UNCHANGED faults ELSE Fault
          /\ mem' = [mem EXCEPT ![p] = IF readable /\ file.kind = "whole" /\ cmd[p] # "reset"
                                       THEN file ELSE Cleared]
          /\ read' = [read EXCEPT ![p] = readable]
  BY DEF Load
<1> DEFINE loaded == IF readable /\ file.kind = "whole" /\ cmd[p] # "reset" THEN file ELSE Cleared
           next == IF cmd[p] = "reset" THEN "sweep" ELSE "region"
<1>2. /\ pc[p] = "load" /\ Goto(p, next)
      /\ before' = [before EXCEPT ![p] = saved]
      /\ UNCHANGED <<cmd, shutdown, cancelled, outcome, code, file, temp, old, saved, owed,
                     calls, located>>
  BY Zenon DEF Load, saveVars
<1>3. next \in {"sweep", "region"} /\ next \in Live
  BY DEF Live, Working, Saving
<1>4. /\ pc' \in [Procs -> {"start", "exited", "killed"} \cup Live] /\ pc'[p] = next
      /\ \A q \in Procs \ {p} : pc'[q] = pc[q]
  BY <1>0, <1>2, <1>3, GotoFacts
<1>5. /\ loaded \in Content /\ loaded.kind = "whole"
      /\ \A q \in Procs \ saved : loaded.calls[q] = 0
  BY <1>0, EmptyContents DEF Typed, FilesOK, FileSound
<1>6. p \notin saved /\ calls[p] = 0 /\ p \notin located /\ cmd[p] \in Commands /\ code[p] = NoCode
  BY <1>0, <1>2, SMT DEF Stage, Live
<1>7. (readable /\ cmd[p] # "reset") => \A q \in owed : Accounts(loaded, q)
  BY <1>0 DEF Accounts
<1> HIDE DEF loaded, next
<1>8. MemOK' /\ mem'[p] = loaded /\ \A q \in Procs \ {p} : mem'[q] = mem[q]
  BY <1>0, <1>1, <1>5, SMT DEF Typed, MemOK, loaded
<1>9. /\ LoadedOK' /\ read'[p] = readable /\ before'[p] = saved
      /\ \A q \in Procs \ {p} : read'[q] = read[q] /\ before'[q] = before[q]
  BY <1>0, <1>1, <1>2, SMT DEF Typed, LoadedOK, OwedOK
<1>10. FaultsOK'
  BY <1>0, <1>1, SMT DEF Typed, FaultsOK, Fault
<1>11. ControlOK' /\ SignalsOK' /\ CallsOK'
  BY <1>0, <1>2, <1>4 DEF Typed, ControlOK, SignalsOK, CallsOK
<1>12. Others(p)
  BY <1>2, <1>4, <1>8, <1>9, Zenon DEF Others
<1>13. Stage(p)'
  BY <1>2, <1>3, <1>4, <1>6, <1>9, SMT DEF Stage, Live, Working, next
<1>14. Memory(p)'
  BY <1>2, <1>3, <1>4, <1>5, <1>6, <1>8, SMT DEF Memory
<1>15. Carried(p)'
  <2>1. \A q \in owed : Accounts(loaded, q) => Accounts(mem[p], q)'
    BY <1>2, <1>8 DEF Accounts
  <2> QED
    BY <1>2, <1>7, <1>9, <2>1 DEF Carried
<1> QED
  BY <1>2, <1>8, <1>9, <1>10, <1>11, <1>12, <1>13, <1>14, <1>15, QuietGoal

\* Work: p counts the calls n and its region, if l has it, in memory as it goes.
Works(p, m, n, next, l) ==
    /\ pc[p] \in Working /\ pc'[p] = next
    /\ \A q \in Procs \ {p} : pc'[q] = pc[q]
    /\ next = "run" => UNCHANGED <<outcome, code>>
    /\ ControlOK' /\ \A q \in Procs \ {p} : outcome'[q] = outcome[q] /\ code'[q] = code[q]
    /\ mem' = [mem EXCEPT ![p] = m] /\ calls' = [calls EXCEPT ![p] = n]
    /\ located' = located \cup l
    /\ m.kind = "whole" /\ m.calls[p] = n
    /\ p \in located' => p \in m.regions
    /\ \A q \in Procs \ {p} : m.calls[q] = mem[p].calls[q]
    /\ mem[p].regions \subseteq m.regions
    /\ UNCHANGED <<cmd, shutdown, cancelled, file, temp, old, saved, owed, faults, read, before>>

\* A step of the command's work only adds to the memory of its process.
LEMMA WorkStep ==
    ASSUME CommandInv, NEW p \in Procs, NEW m \in Content, NEW n \in 0 .. MaxCalls,
           NEW next \in {"run", "sweep"}, NEW l \in SUBSET {p}, Works(p, m, n, next, l)
    PROVE  StepGoal(p)
<1> USE DEF Works
<1>0. Typed /\ Stage(p) /\ Memory(p) /\ Carried(p)
  BY DEF CommandInv
<1>1. MemOK' /\ mem'[p] = m /\ \A q \in Procs \ {p} : mem'[q] = mem[q]
  BY <1>0, SMT DEF Typed, MemOK
<1>2. /\ CallsOK' /\ calls'[p] = n
      /\ \A q \in Procs \ {p} : calls'[q] = calls[q] /\ (q \in located' <=> q \in located)
  BY <1>0, SMT DEF Typed, CallsOK
<1>3. SignalsOK' /\ FaultsOK' /\ LoadedOK'
  BY <1>0 DEF Typed, SignalsOK, FaultsOK, LoadedOK
<1>4. Others(p)
  <2>1. \A q \in Procs \ {p} :
           /\ cmd'[q] = cmd[q] /\ shutdown'[q] = shutdown[q] /\ cancelled'[q] = cancelled[q]
           /\ read'[q] = read[q] /\ before'[q] = before[q] /\ temp'[q] = temp[q]
    OBVIOUS
  <2> QED
    BY <1>1, <1>2, <2>1, Zenon DEF Others
<1>5. /\ pc[p] \in Live /\ pc[p] \in {"region", "run"} /\ pc[p] # "exited"
      /\ next \in Live /\ next \in Working \cup Saving
      /\ next \in Working => next = "run"
  BY SMT DEF Live, Working, Saving
<1>6. p \notin saved
  BY <1>5, NotSaved
<1>7. Stage(p)'
  BY <1>0, <1>5, <1>6, SMT DEF Stage
<1>8. Memory(p)'
  BY <1>0, <1>1, <1>2, SMT DEF Memory
<1>9. Carried(p)'
  <2>1. \A q \in owed : q \in Procs \ {p}
    BY <1>0, <1>6 DEF Typed, OwedOK
  <2>2. \A q \in Procs \ {p} : Accounts(mem[p], q) => Accounts(mem[p], q)'
    BY <1>1, <1>2 DEF Accounts
  <2>3. pc[p] \in Working \cup Saving
    OBVIOUS
  <2> QED
    BY <1>0, <2>1, <2>2, <2>3 DEF Carried
<1> QED
  BY <1>1, <1>2, <1>3, <1>4, <1>5, <1>7, <1>8, <1>9, QuietGoal

\* The region of the bucket is known, and perhaps was asked for.
LEMMA KnowRegionStep ==
    ASSUME CommandInv, NEW p \in Procs, KnowRegion(p) PROVE StepGoal(p)
<1>0. Typed /\ Stage(p) /\ Memory(p)
  BY DEF CommandInv
<1>1. PICK asked \in BOOLEAN :
          /\ mem' = [mem EXCEPT ![p] = IF RecordsRegion(p)
                        THEN AddRegion(IF asked THEN RecordStart(mem[p], p) ELSE mem[p], p)
                        ELSE IF asked THEN RecordStart(mem[p], p) ELSE mem[p]]
          /\ calls' = [calls EXCEPT ![p] = IF asked THEN 1 ELSE 0]
  BY DEF KnowRegion
<1> DEFINE counted == IF asked THEN RecordStart(mem[p], p) ELSE mem[p]
           m == IF RecordsRegion(p) THEN AddRegion(counted, p) ELSE counted
           n == IF asked THEN 1 ELSE 0
           l == IF RecordsRegion(p) THEN {p} ELSE {}
<1>2. /\ pc[p] = "region" /\ Goto(p, "run")
      /\ located' = IF RecordsRegion(p) THEN located \cup {p} ELSE located
      /\ UNCHANGED <<cmd, shutdown, cancelled, outcome, code, file, temp, old, saved, owed,
                     faults, read, before>>
  BY Zenon DEF KnowRegion, saveVars
<1>3. /\ pc' \in [Procs -> {"start", "exited", "killed"} \cup Live] /\ pc'[p] = "run"
      /\ \A q \in Procs \ {p} : pc'[q] = pc[q]
  BY <1>0, <1>2, GotoFacts DEF Live, Working
<1>4. pc[p] \in Working /\ calls[p] = 0 /\ p \notin located
  BY <1>0, <1>2, SMT DEF Stage, Working
<1>5. mem[p] \in Content /\ mem[p].calls[p] = 0 /\ mem[p].kind = "whole"
  BY <1>0, <1>4 DEF Typed, MemOK, Memory
<1>6. /\ counted \in Content /\ counted.kind = "whole" /\ counted.regions = mem[p].regions
      /\ counted.calls[p] = n
      /\ \A q \in Procs \ {p} : counted.calls[q] = mem[p].calls[q]
  BY <1>5, RecordFacts, SMT
<1> HIDE DEF counted
<1>7. /\ m \in Content /\ m.kind = "whole" /\ m.calls = counted.calls
      /\ m.regions = counted.regions \cup l
  BY <1>6, RegionFacts
<1>8. n \in 0 .. MaxCalls /\ l \in SUBSET {p} /\ located' = located \cup l
  BY <1>2, SMT
<1>9. mem' = [mem EXCEPT ![p] = m] /\ calls' = [calls EXCEPT ![p] = n]
  BY <1>1 DEF counted
<1> HIDE DEF m, n, l
<1>10. p \in located' => p \in m.regions
  BY <1>4, <1>7, <1>8
<1>11. ControlOK'
  BY <1>0, <1>2, <1>3 DEF Typed, ControlOK
<1>12. /\ m.calls[p] = n /\ mem[p].regions \subseteq m.regions
       /\ \A q \in Procs \ {p} : m.calls[q] = mem[p].calls[q]
  BY <1>6, <1>7
<1>13. \A q \in Procs \ {p} : outcome'[q] = outcome[q] /\ code'[q] = code[q]
  BY <1>2
<1>w. Works(p, m, n, "run", l)
  BY <1>2, <1>3, <1>4, <1>7, <1>8, <1>9, <1>10, <1>11, <1>12, <1>13 DEF Works
<1> QED
  BY <1>w, <1>7, <1>8, WorkStep

\* The region cannot be detected: the call is counted all the same.
LEMMA NoRegionStep ==
    ASSUME CommandInv, NEW p \in Procs, NoRegion(p) PROVE StepGoal(p)
<1>0. Typed /\ Stage(p) /\ Memory(p)
  BY DEF CommandInv
<1> DEFINE m == RecordStart(mem[p], p)
<1>1. /\ pc[p] = "region" /\ Goto(p, "sweep")
      /\ calls' = [calls EXCEPT ![p] = 1]
      /\ outcome' = [outcome EXCEPT ![p] = "noregion"]
      /\ code' = [code EXCEPT ![p] = IF cmd[p] = "rm" THEN 2 ELSE 1]
      /\ UNCHANGED <<cmd, shutdown, cancelled, file, temp, old, saved, owed, faults, located,
                     read, before>>
  BY Zenon DEF NoRegion, saveVars
<1>2. mem' = [mem EXCEPT ![p] = m]
  BY <1>0, SMT DEF NoRegion, Typed, MemOK
<1>3. /\ pc' \in [Procs -> {"start", "exited", "killed"} \cup Live] /\ pc'[p] = "sweep"
      /\ \A q \in Procs \ {p} : pc'[q] = pc[q]
  BY <1>0, <1>1, GotoFacts DEF Live, Saving
<1>4. pc[p] \in Working /\ calls[p] = 0 /\ p \notin located
  BY <1>0, <1>1, SMT DEF Stage, Working
<1>5. mem[p] \in Content /\ mem[p].calls[p] = 0 /\ mem[p].kind = "whole"
  BY <1>0, <1>4 DEF Typed, MemOK, Memory
<1>6. /\ m \in Content /\ m.kind = "whole" /\ m.regions = mem[p].regions /\ m.calls[p] = 1
      /\ \A q \in Procs \ {p} : m.calls[q] = mem[p].calls[q]
  BY <1>5, RecordFacts, SMT
<1> HIDE DEF m
<1>7. ControlOK' /\ \A q \in Procs \ {p} : outcome'[q] = outcome[q] /\ code'[q] = code[q]
  <2>1. /\ outcome' \in [Procs -> Outcomes]
        /\ \A q \in Procs \ {p} : outcome'[q] = outcome[q]
    BY <1>0, <1>1, SMT DEF Typed, ControlOK, Outcomes
  <2>2. /\ code' \in [Procs -> Codes \cup {NoCode}]
        /\ \A q \in Procs \ {p} : code'[q] = code[q]
    BY <1>0, <1>1, SMT DEF Typed, ControlOK, Codes
  <2> QED
    BY <1>0, <1>1, <1>3, <2>1, <2>2 DEF Typed, ControlOK
<1>8. 1 \in 0 .. MaxCalls /\ {} \in SUBSET {p} /\ located' = located \cup {}
  BY <1>1, SMT
<1>9. p \in located' => p \in m.regions
  BY <1>1, <1>4
<1>w. Works(p, m, 1, "sweep", {})
  BY <1>1, <1>2, <1>3, <1>4, <1>6, <1>7, <1>8, <1>9 DEF Works
<1> QED
  BY <1>w, <1>6, <1>8, WorkStep

\* A request, counted or not, is such a step.
LEMMA RequestStep ==
    ASSUME CommandInv, NEW p \in Procs, Request(p) PROVE StepGoal(p)
<1>0. Typed /\ Stage(p) /\ Memory(p)
  BY DEF CommandInv
<1> DEFINE m == RecordStart(mem[p], p)
<1>1. /\ pc[p] = "run" /\ calls[p] < MaxCalls
      /\ UNCHANGED <<pc, outcome, code, cmd, shutdown, cancelled, file, temp, old, saved, owed,
                     faults, located, read, before>>
  BY Zenon DEF Request, saveVars
<1>2. mem' = [mem EXCEPT ![p] = m] /\ calls' = [calls EXCEPT ![p] = calls[p] + 1]
  BY <1>0, SMT DEF Request, Typed, MemOK, CallsOK
<1>3. pc[p] \in Working
  BY <1>1, SMT DEF Working
<1>4. /\ mem[p] \in Content /\ mem[p].calls[p] = calls[p] /\ mem[p].kind = "whole"
      /\ p \in located => p \in mem[p].regions
  BY <1>0, <1>3 DEF Typed, MemOK, Memory
<1>5. /\ m \in Content /\ m.kind = "whole" /\ m.regions = mem[p].regions
      /\ m.calls[p] = calls[p] + 1
      /\ \A q \in Procs \ {p} : m.calls[q] = mem[p].calls[q]
  BY <1>1, <1>4, RecordFacts
<1> HIDE DEF m
<1>6. ControlOK' /\ pc' \in [Procs -> {"start", "exited", "killed"} \cup Live]
  BY <1>0, <1>1 DEF Typed, ControlOK
<1>7. calls[p] + 1 \in 0 .. MaxCalls /\ {} \in SUBSET {p} /\ located' = located \cup {}
  BY <1>0, <1>1, SMT DEF Typed, CallsOK
<1>8. p \in located' => p \in m.regions
  BY <1>1, <1>4, <1>5
<1>w. Works(p, m, calls[p] + 1, "run", {})
  BY <1>1, <1>2, <1>3, <1>5, <1>6, <1>7, <1>8 DEF Works
<1> QED
  BY <1>w, <1>5, <1>7, WorkStep

-----------------------------------------------------------------------------
(* Signals and the end of the work: the counters stay as they are.         *)

\* A step from work to work or to the save on which no content changes.
LEMMA SignalStep ==
    ASSUME CommandInv, NEW p \in Procs, NEW next \in {"region", "run", "sweep"},
           pc[p] \in Working, pc'[p] = next, next \in Working => pc'[p] = pc[p],
           \A q \in Procs \ {p} : pc'[q] = pc[q],
           next \in Working => UNCHANGED code,
           ControlOK', SignalsOK',
           \A q \in Procs \ {p} : outcome'[q] = outcome[q] /\ code'[q] = code[q],
           \A q \in Procs \ {p} : shutdown'[q] = shutdown[q] /\ cancelled'[q] = cancelled[q],
           UNCHANGED <<cmd, mem, file, temp, old, saved, owed, faults, calls, located, read, before>>
    PROVE  StepGoal(p)
<1>0. Typed /\ Stage(p) /\ Memory(p) /\ Carried(p)
  BY DEF CommandInv
<1>1. MemOK' /\ CallsOK' /\ FaultsOK' /\ LoadedOK'
  BY <1>0 DEF Typed, MemOK, CallsOK, FaultsOK, LoadedOK
<1>2. Others(p)
  <2>1. \A q \in Procs \ {p} :
           /\ cmd'[q] = cmd[q] /\ mem'[q] = mem[q] /\ calls'[q] = calls[q]
           /\ read'[q] = read[q] /\ before'[q] = before[q] /\ temp'[q] = temp[q]
           /\ (q \in located' <=> q \in located)
    OBVIOUS
  <2> QED
    BY <2>1, Zenon DEF Others
<1>3. /\ pc[p] \in Live /\ pc[p] \in {"region", "run"} /\ pc[p] # "exited"
      /\ next \in Live /\ next \in Working \cup Saving
  BY SMT DEF Live, Working, Saving
<1>4. Stage(p)'
  BY <1>0, <1>3, SMT DEF Stage, Working
<1>5. Memory(p)'
  BY <1>0, <1>3, SMT DEF Memory
<1>6. Carried(p)'
  <2>1. \A q \in owed : Accounts(mem[p], q) => Accounts(mem[p], q)'
    BY DEF Accounts
  <2> QED
    BY <1>0, <2>1 DEF Carried
<1> QED
  BY <1>1, <1>2, <1>3, <1>4, <1>5, <1>6, QuietGoal

\* Polling the flag changes nothing that is saved.
LEMMA PollStep ==
    ASSUME CommandInv, NEW p \in Procs, Poll(p) PROVE StepGoal(p)
<1>0. Typed
  BY DEF CommandInv
<1>1. /\ pc[p] = "run" /\ cancelled' = [cancelled EXCEPT ![p] = TRUE]
      /\ UNCHANGED <<pc, outcome, code, shutdown, cmd, mem, file, temp, old, saved, owed, faults,
                     calls, located, read, before>>
  BY Zenon DEF Poll, saveVars, ghostVars
<1>2. SignalsOK' /\ \A q \in Procs \ {p} : cancelled'[q] = cancelled[q]
  BY <1>0, <1>1, SMT DEF Typed, SignalsOK
<1>3. ControlOK' /\ pc[p] \in Working
  BY <1>0, <1>1 DEF Typed, ControlOK, Working
<1> QED
  BY <1>1, <1>2, <1>3, SignalStep

\* The first signal sets a flag and changes nothing that is saved.
LEMMA FirstSignalStep ==
    ASSUME CommandInv, NEW p \in Procs, FirstSignal(p) PROVE StepGoal(p)
<1>0. Typed
  BY DEF CommandInv
<1>1. /\ pc[p] \in Working /\ shutdown' = [shutdown EXCEPT ![p] = TRUE]
      /\ UNCHANGED <<pc, outcome, code, cancelled, cmd, mem, file, temp, old, saved, owed, faults,
                     calls, located, read, before>>
  BY Zenon DEF FirstSignal, saveVars, ghostVars
<1>2. SignalsOK' /\ \A q \in Procs \ {p} : shutdown'[q] = shutdown[q]
  BY <1>0, <1>1, SMT DEF Typed, SignalsOK
<1>3. ControlOK' /\ pc[p] \in {"region", "run", "sweep"}
  BY <1>0, <1>1 DEF Typed, ControlOK, Working
<1> QED
  BY <1>1, <1>2, <1>3, SignalStep

\* The code a command that has worked exits with.
LEMMA ExitCodeFacts ==
    ASSUME NEW p \in Procs, cmd[p] \in Commands \ {"reset"},
           NEW how \in {"done", "partly", "error", "cut"}
    PROVE  /\ ExitCode(p, how) \in Codes
           /\ (cmd[p] = "rm" /\ cancelled[p]) \/ (cmd[p] = "diff" /\ shutdown[p]) =>
                 ExitCode(p, how) = 130
           /\ ExitCode(p, how) = 130 =>
                 (cmd[p] = "rm" /\ cancelled[p]) \/ (cmd[p] = "diff" /\ shutdown[p])
           /\ ExitCode(p, how) = 0 =>
                 how = "done" \/ (cmd[p] = "rm" /\ ~cancelled[p] /\ how = "cut")
<1>1. cmd[p] \in {"sync", "rm", "diff", "leftovers"}
  BY DEF Commands
<1>2. CASE cmd[p] = "rm"
  <2>1. ExitCode(p, how) = IF cancelled[p] THEN 130 ELSE IF how = "error" THEN 2
                           ELSE IF how = "partly" THEN 1 ELSE 0
    BY <1>2, Zenon DEF ExitCode
  <2> QED
    BY <1>2, <2>1 DEF Codes
<1>3. CASE cmd[p] = "diff"
  <2>1. ExitCode(p, how) = IF shutdown[p] THEN 130 ELSE IF how = "done" THEN 0 ELSE 1
    BY <1>3, Zenon DEF ExitCode
  <2> QED
    BY <1>3, <2>1 DEF Codes
<1>4. CASE cmd[p] = "sync"
  <2>1. ExitCode(p, how) = IF how = "done" THEN 0 ELSE 1
    BY <1>4, Zenon DEF ExitCode
  <2> QED
    BY <1>4, <2>1 DEF Codes
<1>5. CASE cmd[p] = "leftovers"
  <2>1. ExitCode(p, how) = IF how = "done" THEN 0 ELSE 1
    BY <1>5, Zenon DEF ExitCode
  <2> QED
    BY <1>5, <2>1 DEF Codes
<1> QED
  BY <1>1, <1>2, <1>3, <1>4, <1>5

\* A command that ends settles its outcome and goes on to save.
LEMMA FinishStep ==
    ASSUME CommandInv, NEW p \in Procs, Finish(p) PROVE StepGoal(p)
<1>0. Typed /\ Stage(p)
  BY DEF CommandInv
<1>1. PICK how \in {"done", "partly", "error", "cut"} :
          /\ outcome' = [outcome EXCEPT ![p] = how]
          /\ code' = [code EXCEPT ![p] = ExitCode(p, how)]
  BY Zenon DEF Finish
<1>2. /\ pc[p] = "run" /\ Goto(p, "sweep")
      /\ UNCHANGED <<cmd, shutdown, cancelled, mem, file, temp, old, saved, owed, faults,
                     calls, located, read, before>>
  BY Zenon DEF Finish, saveVars, ghostVars
<1>3. pc[p] \in Working /\ "sweep" \notin Working /\ cmd[p] \in Commands \ {"reset"}
  BY <1>0, <1>2, SMT DEF Stage, Working, Live
<1>4. ExitCode(p, how) \in Codes
  BY <1>3, ExitCodeFacts
<1>5. /\ pc' \in [Procs -> {"start", "exited", "killed"} \cup Live] /\ pc'[p] = "sweep"
      /\ \A q \in Procs \ {p} : pc'[q] = pc[q]
  BY <1>0, <1>2, GotoFacts DEF Live, Saving
<1>6. /\ outcome' \in [Procs -> Outcomes]
      /\ \A q \in Procs \ {p} : outcome'[q] = outcome[q]
  BY <1>0, <1>1, SMT DEF Typed, ControlOK, Outcomes
<1>7. /\ code' \in [Procs -> Codes \cup {NoCode}]
      /\ \A q \in Procs \ {p} : code'[q] = code[q]
  BY <1>0, <1>1, <1>4, SMT DEF Typed, ControlOK
<1>8. ControlOK' /\ SignalsOK'
  BY <1>0, <1>2, <1>5, <1>6, <1>7 DEF Typed, ControlOK, SignalsOK
<1>9. \A q \in Procs \ {p} : shutdown'[q] = shutdown[q] /\ cancelled'[q] = cancelled[q]
  BY <1>2
<1> QED
  BY <1>2, <1>3, <1>5, <1>6, <1>7, <1>8, <1>9, SignalStep

-----------------------------------------------------------------------------
(* CloudMetrics::save.                                                     *)

\* A step of the save that goes on.
LEMMA SaveGoesOn ==
    ASSUME CommandInv, NEW p \in Procs, NEW next \in {"mkstemp", "write", "rename"},
           pc[p] \in Saving, Goto(p, next), FilesOK',
           \A q \in Procs \ {p} : temp'[q] = temp[q] \/ (q \in old /\ temp'[q] = NoFile),
           next = "write" => temp'[p].kind # "none",
           next = "rename" =>
              /\ temp'[p].kind = "none" \/ temp'[p] = mem[p]
              /\ p \notin old => temp'[p].kind # "none",
           UNCHANGED <<cmd, shutdown, cancelled, outcome, code, mem, file, old, saved, owed,
                       faults, calls, located, read, before>>
    PROVE  StepGoal(p)
<1>0. Typed /\ Stage(p) /\ Memory(p) /\ Carried(p)
  BY DEF CommandInv
<1>1. /\ pc[p] \in Live /\ pc[p] # "exited" /\ next \in Live
      /\ next \notin Working /\ next \in Saving
  BY SMT DEF Live, Working, Saving
<1>2. /\ pc' \in [Procs -> {"start", "exited", "killed"} \cup Live] /\ pc'[p] = next
      /\ \A q \in Procs \ {p} : pc'[q] = pc[q]
  BY <1>0, <1>1, GotoFacts
<1>3. Typed'
  BY <1>0, <1>2 DEF Typed, ControlOK, SignalsOK, MemOK, FaultsOK, CallsOK, LoadedOK, OwedOK
<1>4. Others(p)
  <2>1. \A q \in Procs \ {p} :
           /\ cmd'[q] = cmd[q] /\ shutdown'[q] = shutdown[q] /\ cancelled'[q] = cancelled[q]
           /\ outcome'[q] = outcome[q] /\ code'[q] = code[q] /\ mem'[q] = mem[q]
           /\ calls'[q] = calls[q] /\ read'[q] = read[q] /\ before'[q] = before[q]
           /\ (q \in located' <=> q \in located)
    OBVIOUS
  <2> QED
    BY <1>2, <2>1, Zenon DEF Others
<1>5. p \notin saved
  BY <1>1, NotSaved
<1>6. Saves(p)
  BY DEF Saves
<1>7. FileSound' /\ \A q \in owed' : Accounts(file, q)'
  BY <1>4, <1>5, FileKept
<1>8. Stage(p)'
  BY <1>0, <1>1, <1>2, <1>5, SMT DEF Stage
<1>9. Memory(p)'
  BY <1>0, <1>1, <1>2, SMT DEF Memory
<1>10. Carried(p)'
  <2>1. \A q \in owed : Accounts(mem[p], q) => Accounts(mem[p], q)'
    BY DEF Accounts
  <2> QED
    BY <1>0, <1>1, <1>2, <2>1 DEF Carried
<1> QED
  BY <1>3, <1>4, <1>6, <1>7, <1>8, <1>9, <1>10 DEF StepGoal

\* A save that fails: the process exits, and nothing was saved.
LEMMA SaveFailsStep ==
    ASSUME CommandInv, NEW p \in Procs, pc[p] # "exited", SaveFails(p),
           faults' \in 0 .. MaxFaults,
           UNCHANGED <<cmd, file, old, saved, owed, calls, located, read, before>>,
           FilesOK', \A q \in Procs \ {p} : temp'[q] = temp[q]
    PROVE  StepGoal(p)
<1> DEFINE c == IF cmd[p] = "reset" THEN 1 ELSE code[p]
<1>1. c \in Codes \cup {NoCode}
  BY SMT DEF CommandInv, Typed, ControlOK, Codes
<1>2. Exit(p, c, "exited")
  BY DEF SaveFails
<1> HIDE DEF c
<1> QED
  BY <1>1, <1>2, ExitStep

\* The sweep of old temporary files leaves the file alone.
LEMMA SweepStep ==
    ASSUME CommandInv, NEW p \in Procs, Sweep(p) PROVE StepGoal(p)
<1>0. Typed
  BY DEF CommandInv
<1>1. /\ pc[p] = "sweep" /\ Goto(p, "mkstemp")
      /\ temp' = [t \in Procs |-> IF t \in Sweepable THEN NoFile ELSE temp[t]]
      /\ UNCHANGED <<cmd, shutdown, cancelled, outcome, code, mem, file, old, saved, owed,
                     faults, calls, located, read, before>>
  BY Zenon DEF Sweep, ghostVars
<1>2. FilesOK'
  BY <1>0, <1>1, EmptyContents, SMT DEF Typed, FilesOK
<1>3. \A q \in Procs : temp'[q] = temp[q] \/ (q \in old /\ temp'[q] = NoFile)
  BY <1>1 DEF Sweepable
<1>4. pc[p] \in Saving
  BY <1>1, SMT DEF Saving
<1> QED
  BY <1>1, <1>2, <1>3, <1>4, SaveGoesOn

\* A temporary file of p's own name is written.
LEMMA TempFacts ==
    ASSUME Typed, NEW p \in Procs, NEW c \in Content, temp' = [temp EXCEPT ![p] = c],
           UNCHANGED <<file, old>>
    PROVE  FilesOK' /\ temp'[p] = c /\ \A q \in Procs \ {p} : temp'[q] = temp[q]
  BY SMT DEF Typed, FilesOK

\* The new temporary file is the process's own.
LEMMA MkStempStep ==
    ASSUME CommandInv, NEW p \in Procs, MkStemp(p) PROVE StepGoal(p)
<1>0. Typed
  BY DEF CommandInv
<1>1. pc[p] = "mkstemp" /\ pc[p] \in Saving /\ pc[p] # "exited"
  BY SMT DEF MkStemp, Saving
<1>2. UNCHANGED <<cmd, file, old, saved, owed, calls, located, read, before>>
  BY Zenon DEF MkStemp, ghostVars
<1>3. CASE /\ temp' = [temp EXCEPT ![p] = Metrics("part", Zero, {})]
           /\ Goto(p, "write")
           /\ UNCHANGED <<shutdown, cancelled, outcome, code, mem, faults>>
  <2>1. /\ FilesOK' /\ temp'[p] = Metrics("part", Zero, {})
        /\ \A q \in Procs \ {p} : temp'[q] = temp[q]
    BY <1>0, <1>2, <1>3, EmptyContents, TempFacts
  <2>2. temp'[p].kind # "none"
    BY <2>1, EmptyContents
  <2> QED
    BY <1>1, <1>2, <1>3, <2>1, <2>2, SaveGoesOn
<1>4. CASE Fault /\ SaveFails(p) /\ UNCHANGED temp
  <2>1. faults' \in 0 .. MaxFaults /\ FilesOK'
    BY <1>0, <1>2, <1>4, SMT DEF Fault, Typed, FaultsOK, FilesOK
  <2> QED
    BY <1>1, <1>2, <1>4, <2>1, SaveFailsStep
<1> QED
  BY <1>3, <1>4, Zenon DEF MkStemp, TempName

\* A temporary file that was written and not swept holds the whole memory.
LEMMA WriteStep ==
    ASSUME CommandInv, NEW p \in Procs, Write(p) PROVE StepGoal(p)
<1>0. Typed /\ Memory(p)
  BY DEF CommandInv
<1>1. pc[p] = "write" /\ pc[p] \in Saving /\ pc[p] # "exited"
  BY SMT DEF Write, Saving
<1>2. UNCHANGED <<cmd, file, old, saved, owed, calls, located, read, before>>
  BY Zenon DEF Write, ghostVars
<1> DEFINE w == IF temp[p].kind = "none" THEN NoFile ELSE mem[p]
<1>3. CASE /\ temp' = [temp EXCEPT ![p] = IF @.kind = "none" THEN NoFile ELSE mem[p]]
           /\ Goto(p, "rename")
           /\ UNCHANGED <<shutdown, cancelled, outcome, code, mem, faults>>
  <2>1. temp' = [temp EXCEPT ![p] = w]
    BY <1>3
  <2>2. w \in Content
    BY <1>0, EmptyContents DEF Typed, MemOK
  <2>3. /\ w.kind = "none" \/ w = mem[p]
        /\ p \notin old => w.kind # "none"
    BY <1>0, <1>1, EmptyContents, SMT DEF Memory
  <2> HIDE DEF w
  <2>4. FilesOK' /\ temp'[p] = w /\ \A q \in Procs \ {p} : temp'[q] = temp[q]
    BY <1>0, <1>2, <2>1, <2>2, TempFacts
  <2> QED
    BY <1>1, <1>2, <1>3, <2>3, <2>4, SaveGoesOn
<1>4. CASE Fault /\ temp' = [temp EXCEPT ![p] = NoFile] /\ SaveFails(p)
  <2>1. FilesOK' /\ \A q \in Procs \ {p} : temp'[q] = temp[q]
    BY <1>0, <1>2, <1>4, EmptyContents, TempFacts
  <2>2. faults' \in 0 .. MaxFaults
    BY <1>0, <1>4, SMT DEF Fault, Typed, FaultsOK
  <2> QED
    BY <1>1, <1>2, <1>4, <2>1, <2>2, SaveFailsStep
<1> QED
  BY <1>3, <1>4, Zenon DEF Write, TempName

\* rename() fails: without a fault only when the temporary file was swept, which
\* takes an hour, so nothing is newly owed.
LEMMA RenameFailsStep ==
    ASSUME CommandInv, NEW p \in Procs, RenameFails(p) PROVE StepGoal(p)
<1>0. Typed /\ Memory(p)
  BY DEF CommandInv
<1>1. pc[p] = "rename" /\ pc[p] # "exited" /\ SaveFails(p)
  BY SMT DEF RenameFails
<1>2. UNCHANGED <<cmd, file, old, saved, calls, located, read, before>>
  BY Zenon DEF RenameFails, ghostVars
<1>3. temp[p].kind # "none" \/ p \in old
  BY <1>0, <1>1 DEF Memory
<1>4. UNCHANGED owed
  BY <1>3, Zenon DEF RenameFails, TempName
<1>5. temp' = [temp EXCEPT ![p] = NoFile]
  BY Zenon DEF RenameFails, TempName
<1>6. FilesOK' /\ \A q \in Procs \ {p} : temp'[q] = temp[q]
  BY <1>0, <1>2, <1>5, EmptyContents, TempFacts
<1>7. faults' \in 0 .. MaxFaults
  BY <1>0, SMT DEF RenameFails, Fault, Typed, FaultsOK
<1> QED
  BY <1>1, <1>2, <1>4, <1>6, <1>7, SaveFailsStep

\* rename(): the file becomes what p has in memory, which counts p and all the
\* runs that are still owed.
LEMMA RenameStep ==
    ASSUME CommandInv, NEW p \in Procs, Rename(p) PROVE StepGoal(p)
<1>0. Typed /\ Stage(p) /\ Memory(p) /\ Carried(p)
  BY DEF CommandInv
<1>1. /\ pc[p] = "rename" /\ pc[p] # "exited" /\ pc[p] \in Working \cup Saving /\ pc[p] \in Live
  BY SMT DEF Rename, Saving, Live
<1>2. /\ temp[p].kind # "none" /\ file' = temp[p] /\ temp' = [temp EXCEPT ![p] = NoFile]
      /\ saved' = saved \cup {p}
      /\ owed' = {p} \cup
            (IF read[p] /\ cmd[p] # "reset" THEN owed \ (saved \ before[p]) ELSE {})
      /\ SaveSucceeds(p)
      /\ UNCHANGED <<cmd, old, faults, calls, located, read, before>>
  BY Zenon DEF Rename, TempName, ghostVars
<1>3. file' = mem[p] /\ mem[p] \in Content /\ p \notin saved
  BY <1>0, <1>1, <1>2, NotSaved DEF Memory, Typed, MemOK
<1> DEFINE c == IF cmd[p] = "reset" THEN 0 ELSE code[p]
<1>4. c \in Codes \cup {NoCode} /\ Exit(p, c, "exited")
  BY <1>0, <1>2, SMT DEF Typed, ControlOK, Codes, SaveSucceeds
<1> HIDE DEF c
<1>5. /\ pc'[p] = "exited" /\ mem'[p] = Cleared
      /\ pc' \in [Procs -> {"start", "exited", "killed"} \cup Live]
      /\ outcome' \in [Procs -> Outcomes]
      /\ code' \in [Procs -> Codes \cup {NoCode}]
      /\ SignalsOK' /\ MemOK'
  BY <1>0, <1>4, ExitFacts
<1>6. temp' \in [Procs -> Content] /\ \A q \in Procs \ {p} : temp'[q] = temp[q]
  BY <1>0, <1>2, EmptyContents, SMT DEF Typed, FilesOK
<1>7. ControlOK' /\ FilesOK' /\ FaultsOK' /\ CallsOK' /\ LoadedOK'
  BY <1>0, <1>2, <1>3, <1>5, <1>6 DEF Typed, ControlOK, FilesOK, FaultsOK, CallsOK, LoadedOK
<1>8. OwedOK' /\ owed' \subseteq owed \cup {p}
  BY <1>0, <1>2 DEF Typed, OwedOK
<1>9. Typed'
  BY <1>5, <1>7, <1>8 DEF Typed
<1>10. Others(p)
  <2>0. \A q \in Procs \ {p} : shutdown'[q] = shutdown[q] /\ cancelled'[q] = cancelled[q]
    BY <1>0, <1>4, SMT DEF Exit, Typed, SignalsOK
  <2>1. \A q \in Procs \ {p} :
           /\ pc'[q] = pc[q] /\ outcome'[q] = outcome[q] /\ code'[q] = code[q]
           /\ mem'[q] = mem[q]
    BY <1>0, <1>4, SMT DEF Exit, Goto, Typed, ControlOK, MemOK
  <2>2. \A q \in Procs \ {p} :
           /\ cmd'[q] = cmd[q] /\ calls'[q] = calls[q] /\ read'[q] = read[q]
           /\ before'[q] = before[q] /\ (q \in located' <=> q \in located)
    BY <1>2
  <2> QED
    BY <1>6, <2>0, <2>1, <2>2, Zenon DEF Others
<1>11. Saves(p)
  BY <1>2, <1>3, <1>8 DEF Saves
<1>12. Stage(p)' /\ Memory(p)' /\ Carried(p)'
  BY <1>2, <1>5, ExitedSound
<1>13. FileSound'
  BY <1>0, <1>2, <1>3 DEF Memory, FileSound
<1>14. ASSUME NEW q \in owed' PROVE Accounts(file, q)'
  <2>1. CASE q = p
    BY <1>0, <1>1, <1>2, <1>3, <2>1 DEF Memory, Accounts
  <2>2. CASE q # p
    <3>1. Accounts(mem[p], q)
      BY <1>0, <1>1, <1>2, <2>2 DEF Carried
    <3> QED
      BY <1>2, <1>3, <3>1 DEF Accounts
  <2> QED
    BY <2>1, <2>2
<1> QED
  BY <1>9, <1>10, <1>11, <1>12, <1>13, <1>14 DEF StepGoal

\* An hour passes: only the age of temporary files changes.
LEMMA HourStep ==
    ASSUME CommandInv, Hour PROVE CommandInv'
<1>1. /\ old \subseteq old' /\ old' \subseteq old \cup Procs
      /\ UNCHANGED <<cmd, pc, shutdown, cancelled, outcome, code, mem, file, temp, saved,
                     owed, faults, calls, located, read, before>>
  BY DEF Hour, ghostVars
<1>2. Typed'
  BY <1>1 DEF CommandInv, Typed, ControlOK, SignalsOK, MemOK, FilesOK, FaultsOK, CallsOK,
     LoadedOK, OwedOK
<1>3. FileSound' /\ \A q \in owed' : Accounts(file, q)'
  BY <1>1 DEF CommandInv, FileSound, Accounts
<1>4. ASSUME NEW p \in Procs PROVE Stage(p)' /\ Memory(p)' /\ Carried(p)'
  <2>0. Stage(p) /\ Memory(p) /\ Carried(p)
    BY DEF CommandInv
  <2>1. Stage(p)'
    BY <1>1, <2>0 DEF Stage
  <2>2. Memory(p)'
    BY <1>1, <2>0 DEF Memory
  <2>3. \A q : Accounts(mem[p], q) => Accounts(mem[p], q)'
    BY <1>1 DEF Accounts
  <2>4. Carried(p)'
    BY <1>1, <2>0, <2>3 DEF Carried
  <2> QED
    BY <2>1, <2>2, <2>4
<1> QED
  BY <1>2, <1>3, <1>4 DEF CommandInv

\* A stuttering step keeps the invariant.
LEMMA StutterStep ==
    ASSUME CommandInv, UNCHANGED vars PROVE CommandInv'
<1>1. UNCHANGED <<cmd, pc, shutdown, cancelled, outcome, code, mem, file, temp, old, saved,
                  owed, faults, calls, located, read, before>>
  BY Zenon DEF vars, saveVars, ghostVars
<1>2. Typed'
  BY <1>1 DEF CommandInv, Typed, ControlOK, SignalsOK, MemOK, FilesOK, FaultsOK, CallsOK,
     LoadedOK, OwedOK
<1>3. FileSound' /\ \A q \in owed' : Accounts(file, q)'
  BY <1>1 DEF CommandInv, FileSound, Accounts
<1>4. ASSUME NEW p \in Procs PROVE Stage(p)' /\ Memory(p)' /\ Carried(p)'
  <2>0. Stage(p) /\ Memory(p) /\ Carried(p)
    BY DEF CommandInv
  <2>1. Stage(p)' /\ Memory(p)'
    BY <1>1, <2>0 DEF Stage, Memory
  <2>2. \A q : Accounts(mem[p], q) => Accounts(mem[p], q)'
    BY <1>1 DEF Accounts
  <2>3. Carried(p)'
    BY <1>1, <2>0, <2>2 DEF Carried
  <2> QED
    BY <2>1, <2>3
<1> QED
  BY <1>2, <1>3, <1>4 DEF CommandInv

\* Every step of a process, by the lemma of its action.
LEMMA ProcessStep ==
    ASSUME CommandInv, NEW p \in Procs,
           \/ UsageError(p) \/ Start(p) \/ Load(p) \/ KnowRegion(p) \/ NoRegion(p)
           \/ Request(p) \/ Poll(p) \/ Finish(p) \/ FirstSignal(p) \/ Die(p)
           \/ Sweep(p) \/ MkStemp(p) \/ Write(p) \/ Rename(p) \/ RenameFails(p)
    PROVE  StepGoal(p) /\ pc[p] # "exited"
<1>1. StepGoal(p)
  BY UsageErrorStep, StartStep, LoadStep, KnowRegionStep, NoRegionStep, RequestStep, PollStep,
     FinishStep, FirstSignalStep, DieStep, SweepStep, MkStempStep, WriteStep, RenameStep,
     RenameFailsStep
<1>2. pc[p] # "exited"
  BY SMT DEF UsageError, Start, Load, KnowRegion, NoRegion, Request, Poll, Finish, FirstSignal,
     Die, Sweep, MkStemp, Write, Rename, RenameFails, Live, Working, Saving
<1> QED
  BY <1>1, <1>2

\* Every step keeps the invariant: one case per action.
LEMMA InvStep ==
    ASSUME CommandInv, [Next]_vars PROVE CommandInv'
<1>1. ASSUME NEW p \in Procs,
             \/ UsageError(p) \/ Start(p) \/ Load(p) \/ KnowRegion(p) \/ NoRegion(p)
             \/ Request(p) \/ Poll(p) \/ Finish(p) \/ FirstSignal(p) \/ Die(p)
             \/ Sweep(p) \/ MkStemp(p) \/ Write(p) \/ Rename(p) \/ RenameFails(p)
      PROVE  CommandInv'
  <2>1. StepGoal(p) /\ pc[p] # "exited"
    BY <1>1, ProcessStep
  <2>2. p \notin saved
    BY <2>1, NotSaved
  <2>3. \A q \in Procs \ {p} : Stage(q)' /\ Memory(q)' /\ Carried(q)'
    BY <2>1, <2>2, OthersKept DEF StepGoal
  <2> QED
    BY <2>1, <2>3 DEF StepGoal, CommandInv
<1>2. CASE Hour
  BY <1>2, HourStep
<1>3. CASE Ended \/ UNCHANGED vars
  BY <1>3, StutterStep DEF Ended
<1> QED
  BY <1>1, <1>2, <1>3, Zenon DEF Next

\* The invariant holds initially.
LEMMA InvInit == Init => CommandInv
<1> SUFFICES ASSUME Init PROVE CommandInv
  OBVIOUS
<1>1. calls \in [Procs -> 0 .. MaxCalls] /\ \A p \in Procs : calls[p] = IF p \in Past THEN 1 ELSE 0
  BY SMT DEF Init
<1>2. /\ file \in Content /\ file.kind \in {"none", "whole"}
      /\ \A q \in Procs \ Past : file.calls[q] = 0
      /\ owed \subseteq Past
      /\ owed # {} => file = Metrics("whole", calls, Past)
  <2>1. CASE file = Metrics("whole", calls, Past) /\ owed = Past
    <3>1. file \in Content /\ file.kind = "whole" /\ file.calls = calls
      BY <1>1, <2>1, MetricsFacts
    <3> QED
      BY <1>1, <2>1, <3>1
  <2>2. CASE file = NoFile /\ owed = {}
    <3>1. NoFile.calls = Zero
      BY EmptyContents, MetricsFacts DEF NoFile
    <3> QED
      BY <2>2, <3>1, EmptyContents
  <2> QED
    BY <2>1, <2>2 DEF Init
<1>3. Typed
  <2>1. ControlOK
    BY SMT DEF Init, ControlOK, Commands, Outcomes, Codes
  <2>2. SignalsOK /\ LoadedOK /\ FaultsOK
    BY SMT DEF Init, SignalsOK, LoadedOK, FaultsOK
  <2>3. MemOK /\ FilesOK
    BY <1>2, EmptyContents, SMT DEF Init, MemOK, FilesOK
  <2>4. CallsOK /\ OwedOK
    BY <1>1, <1>2 DEF Init, CallsOK, OwedOK
  <2> QED
    BY <2>1, <2>2, <2>3, <2>4 DEF Typed
<1>4. FileSound
  BY <1>2 DEF Init, FileSound
<1>5. \A p \in Procs : /\ pc[p] = IF p \in Past THEN "exited" ELSE "start"
                       /\ cmd[p] = IF p \in Past THEN "sync" ELSE "none"
                       /\ code[p] = IF p \in Past THEN 0 ELSE NoCode
                       /\ mem[p] = Cleared /\ before[p] = {}
  BY SMT DEF Init
<1>6. ASSUME NEW p \in Procs PROVE Stage(p) /\ Memory(p) /\ Carried(p)
  <2>1. pc[p] \notin Live /\ pc[p] \notin Working \cup Saving /\ pc[p] \notin Working
        /\ pc[p] \notin {"load", "region", "run", "write", "rename"}
    BY <1>5, SMT DEF Live, Working, Saving
  <2>2. saved = Past /\ located = Past
    BY DEF Init
  <2>3. Stage(p)
    BY <1>1, <1>5, <2>1, <2>2, SMT DEF Stage
  <2>4. Memory(p) /\ Carried(p)
    BY <1>5, <2>1, EmptyContents DEF Memory, Carried
  <2> QED
    BY <2>3, <2>4
<1>7. ASSUME NEW q \in owed PROVE Accounts(file, q)
  <2>1. file = Metrics("whole", calls, Past) /\ q \in Past /\ located = Past
    BY <1>2 DEF Init
  <2>2. file.kind = "whole" /\ file.calls = calls /\ file.regions = Past
    BY <1>1, <2>1, MetricsFacts
  <2> QED
    BY <2>1, <2>2 DEF Accounts
<1> QED
  BY <1>3, <1>4, <1>6, <1>7 DEF CommandInv

(***************************************************************************)
(* Every variable keeps its type: no process counts more calls for another *)
(* than that one made.                                                     *)
(***************************************************************************)
THEOREM CommandTypeCorrect == Spec => []TypeOK
<1>1. Init => CommandInv
  BY InvInit
<1>2. CommandInv /\ [Next]_vars => CommandInv'
  BY InvStep
<1>3. CommandInv => TypeOK
  BY InvImplies
<1> QED
  BY <1>1, <1>2, <1>3, PTL DEF Spec

(***************************************************************************)
(* The metrics file is missing or whole at every moment, for every number  *)
(* of processes that save at once and are killed at any step of it.        *)
(***************************************************************************)
THEOREM FileIsWhole == Spec => []FileWhole
<1>1. Init => CommandInv
  BY InvInit
<1>2. CommandInv /\ [Next]_vars => CommandInv'
  BY InvStep
<1>3. CommandInv => FileWhole
  BY InvImplies
<1> QED
  BY <1>1, <1>2, <1>3, PTL DEF Spec

(***************************************************************************)
(* The calls and the region of a run whose save went through stay in the   *)
(* file until a process that had loaded before, could not read the file,   *)
(* or was told to reset it saves.                                          *)
(***************************************************************************)
THEOREM HistoryIsKept == Spec => []HistoryKept
<1>1. Init => CommandInv
  BY InvInit
<1>2. CommandInv /\ [Next]_vars => CommandInv'
  BY InvStep
<1>3. CommandInv => HistoryKept
  BY InvImplies
<1> QED
  BY <1>1, <1>2, <1>3, PTL DEF Spec

-----------------------------------------------------------------------------
(* Exit codes.                                                             *)

\* What CodesHonest says of p, that only a signal cancels, and no leftovers, and
\* that a process whose work was cut short saves.
Honest(p) ==
    /\ cancelled[p] => shutdown[p] /\ cmd[p] \notin {"none", "leftovers"}
    /\ outcome[p] = "cut" => pc[p] \in Saving
    /\ pc[p] \in Saving =>
          /\ code[p] = 0 => outcome[p] = "done"
          /\ code[p] = 130 => shutdown[p]
          /\ outcome[p] = "cut" /\ cmd[p] # "sync" => code[p] = 130
    /\ pc[p] = "exited" /\ cmd[p] = "reset" /\ code[p] = 0 => p \in saved

\* The others keep their codes.
LEMMA OthersHonest ==
    ASSUME NEW p \in Procs, Others(p), Saves(p), NEW q \in Procs \ {p}, Honest(q)
    PROVE  Honest(q)'
  BY Zenon DEF Honest, Others, Saves

\* An exit is honest when a reset exits with 0 only once it has saved.
LEMMA ExitHonest ==
    ASSUME Typed, NEW p \in Procs, NEW c \in Codes \cup {NoCode}, NEW how \in {"exited", "killed"},
           Exit(p, c, how), UNCHANGED cmd,
           how = "exited" /\ cmd[p] = "reset" /\ c = 0 => p \in saved'
    PROVE  Honest(p)'
<1>1. pc'[p] = how /\ code'[p] = c /\ cancelled'[p] = FALSE
  BY ExitFacts
<1>2. how \notin Saving
  BY SMT DEF Saving
<1>3. ~cancelled'[p]
  BY <1>1, Zenon
<1>4. outcome'[p] = "none"
  BY SMT DEF Exit, Typed, ControlOK
<1> QED
  BY <1>1, <1>2, <1>3, <1>4 DEF Honest

\* A step that changes none of what Honest is about, or leaves p at work.
LEMMA StillHonest ==
    ASSUME NEW p \in Procs, Honest(p), UNCHANGED <<cmd, cancelled, shutdown>>,
           \/ pc'[p] \notin Saving \cup {"exited"} /\ pc[p] \notin Saving /\ UNCHANGED outcome
           \/ pc[p] \in Saving /\ pc'[p] \in Saving /\ UNCHANGED <<code, outcome>>
    PROVE  Honest(p)'
<1>1. "exited" \notin Saving
  BY SMT DEF Saving
<1> QED
  BY <1>1 DEF Honest

\* The steps before the save.
LEMMA WorkHonest ==
    ASSUME CommandInv, NEW p \in Procs, Honest(p),
           \/ Start(p) \/ Load(p) \/ KnowRegion(p) \/ NoRegion(p) \/ Request(p)
    PROVE  Honest(p)'
<1>0. Typed /\ Stage(p)
  BY DEF CommandInv
<1>1. {"load", "region", "run"} \cap (Saving \cup {"exited"}) = {}
  BY SMT DEF Saving
<1>2. pc[p] \in {"start", "load", "region", "run"}
  BY SMT DEF Start, Load, KnowRegion, NoRegion, Request
<1>3. UNCHANGED <<cancelled, shutdown>> /\ (~Start(p) => UNCHANGED cmd)
  BY Zenon DEF Start, Load, KnowRegion, NoRegion, Request
<1>x. outcome[p] # "cut" /\ pc[p] \notin Saving
  BY <1>2, SMT DEF Honest, Saving
<1>s. CASE Start(p)
  <2>1. pc'[p] = "load" /\ cmd[p] = "none"
    BY <1>0, <1>s, SMT DEF Start, Goto, Typed, ControlOK, Stage
  <2>2. ~cancelled[p]
    BY <2>1, Zenon DEF Honest
  <2>3. "load" \notin Saving \cup {"exited"}
    BY SMT DEF Saving
  <2>4. outcome'[p] # "cut"
    BY <1>s, <1>x, Zenon DEF Start
  <2> QED
    BY <1>3, <2>1, <2>2, <2>3, <2>4 DEF Honest
<1>4. CASE KnowRegion(p) \/ Request(p)
  <2>1. pc'[p] = "run" /\ UNCHANGED <<cmd, outcome>>
    BY <1>0, <1>4, SMT DEF KnowRegion, Request, Goto, Typed, ControlOK
  <2> QED
    BY <1>1, <1>3, <1>x, <2>1, StillHonest
<1>5. CASE Load(p)
  <2>1. pc'[p] \in {"region", "sweep"} /\ code'[p] = NoCode /\ outcome'[p] # "cut"
    BY <1>0, <1>5, <1>x, SMT DEF Load, Goto, Typed, ControlOK, Stage
  <2>2. NoCode \notin {0, 130} /\ UNCHANGED cmd
    BY <1>5, SMT DEF NoCode, Load
  <2> QED
    BY <1>3, <2>1, <2>2 DEF Honest
<1>6. CASE NoRegion(p)
  <2>1. pc'[p] = "sweep" /\ code'[p] \in {1, 2} /\ outcome'[p] = "noregion" /\ UNCHANGED cmd
    BY <1>0, <1>6, SMT DEF NoRegion, Goto, Typed, ControlOK
  <2> QED
    BY <1>3, <2>1, SMT DEF Honest
<1> QED
  BY <1>s, <1>4, <1>5, <1>6

\* A process that takes a signal has no exit code yet.
LEMMA SignalHonest ==
    ASSUME CommandInv, NEW p \in Procs, Honest(p), Poll(p) \/ FirstSignal(p)
    PROVE  Honest(p)'
<1>0. Typed /\ Stage(p)
  BY DEF CommandInv
<1>1. pc'[p] = pc[p] /\ pc[p] \in {"region", "run"}
  BY Zenon DEF Poll, FirstSignal, Working
<1>2. pc'[p] \notin Saving \cup {"exited"}
  BY <1>1, SMT DEF Saving
<1>3. CASE Poll(p)
  <2>1. /\ cmd[p] \notin {"none", "leftovers"} /\ shutdown[p]
        /\ UNCHANGED <<cmd, shutdown, outcome>>
    BY <1>0, <1>1, <1>3, SMT DEF Poll, Stage, Live, Working, Commands
  <2>2. pc[p] \notin Saving
    BY <1>1, <1>2
  <2>3. outcome'[p] # "cut" /\ shutdown'[p] /\ cmd'[p] \notin {"none", "leftovers"}
    BY <2>1, <2>2, Zenon DEF Honest
  <2> QED
    BY <1>2, <2>3, Zenon DEF Honest
<1>4. CASE FirstSignal(p)
  <2>1. shutdown'[p] = TRUE
    BY <1>0, <1>4, SMT DEF FirstSignal, Typed, SignalsOK
  <2> QED
    BY <1>2, <1>4, <2>1, Zenon DEF Honest, FirstSignal
<1> QED
  BY <1>3, <1>4

\* The code is decided when the work has ended.
LEMMA FinishHonest ==
    ASSUME CommandInv, NEW p \in Procs, Honest(p), Finish(p)
    PROVE  Honest(p)'
<1>0. Typed /\ Stage(p)
  BY DEF CommandInv
<1>1. PICK how \in {"done", "partly", "error", "cut"} :
          /\ how = "cut" => MayCut(p)
          /\ outcome' = [outcome EXCEPT ![p] = how]
          /\ code' = [code EXCEPT ![p] = ExitCode(p, how)]
  BY Zenon DEF Finish
<1>2. pc[p] = "run" /\ UNCHANGED <<cmd, shutdown, cancelled>>
  BY Zenon DEF Finish
<1>3. cmd[p] \in Commands \ {"reset"}
  BY <1>0, <1>2, SMT DEF Stage, Live, Working
<1>4. pc'[p] = "sweep" /\ outcome'[p] = how /\ code'[p] = ExitCode(p, how)
  BY <1>0, <1>1, SMT DEF Finish, Goto, Typed, ControlOK
<1>5. cancelled[p] => shutdown[p] /\ cmd[p] \notin {"none", "leftovers"}
  BY DEF Honest
<1>6. /\ (cmd[p] = "rm" /\ cancelled[p]) \/ (cmd[p] = "diff" /\ shutdown[p]) =>
            ExitCode(p, how) = 130
      /\ ExitCode(p, how) = 130 => cancelled[p] \/ shutdown[p]
      /\ ExitCode(p, how) = 0 => how = "done" \/ (cmd[p] = "rm" /\ ~cancelled[p] /\ how = "cut")
  BY <1>3, ExitCodeFacts
<1>7. ~(cmd[p] = "rm" /\ ~cancelled[p] /\ how = "cut")
  BY <1>1 DEF MayCut
<1>8. how = "cut" /\ cmd[p] # "sync" => ExitCode(p, how) = 130
  BY <1>1, <1>3, <1>5, <1>6 DEF MayCut, Commands
<1>9. "sweep" \in Saving /\ "sweep" # "exited"
  BY SMT DEF Saving
<1> QED
  BY <1>2, <1>4, <1>5, <1>6, <1>7, <1>8, <1>9 DEF Honest

\* The save changes the code of a reset only.
LEMMA SaveHonest ==
    ASSUME CommandInv, NEW p \in Procs, Honest(p),
           Sweep(p) \/ MkStemp(p) \/ Write(p) \/ Rename(p) \/ RenameFails(p)
    PROVE  Honest(p)'
<1>0. Typed
  BY DEF CommandInv
<1>1. pc[p] \in Saving /\ UNCHANGED cmd
  BY SMT DEF Sweep, MkStemp, Write, Rename, RenameFails, Saving
<1>2. ASSUME NEW next \in {"mkstemp", "write", "rename"}, Goto(p, next),
             UNCHANGED <<cmd, cancelled, shutdown, code, outcome>>
      PROVE  Honest(p)'
  <2>1. pc'[p] \in Saving
    BY <1>0, <1>2, SMT DEF Goto, Typed, ControlOK, Saving
  <2> QED
    BY <1>1, <1>2, <2>1, StillHonest
<1>3. CASE SaveFails(p)
  <2> DEFINE c == IF cmd[p] = "reset" THEN 1 ELSE code[p]
  <2>1. c \in Codes \cup {NoCode} /\ (cmd[p] = "reset" => c # 0) /\ Exit(p, c, "exited")
    BY <1>0, <1>3, SMT DEF Typed, ControlOK, Codes, SaveFails
  <2> HIDE DEF c
  <2> QED
    BY <1>0, <1>1, <2>1, ExitHonest
<1>4. CASE Rename(p)
  <2> DEFINE c == IF cmd[p] = "reset" THEN 0 ELSE code[p]
  <2>1. c \in Codes \cup {NoCode} /\ p \in saved' /\ Exit(p, c, "exited")
    BY <1>0, <1>4, SMT DEF Typed, ControlOK, Codes, Rename, SaveSucceeds
  <2> HIDE DEF c
  <2> QED
    BY <1>0, <1>1, <2>1, ExitHonest
<1> QED
  BY <1>2, <1>3, <1>4, Zenon DEF Sweep, MkStemp, Write, RenameFails

(***************************************************************************)
(* The exit codes are honest: 0 only for work that was done and a reset    *)
(* that reached the file, 130 only when the user did interrupt, and always *)
(* when that cut rm or diff short, for every number of processes.          *)
(***************************************************************************)
THEOREM CodesAreHonest == Spec => []CodesHonest
<1> DEFINE Inv == CommandInv /\ \A p \in Procs : Honest(p)
<1>1. ASSUME Init PROVE Inv
  <2>1. CommandInv
    BY <1>1, InvInit
  <2>2. \A p \in Procs : /\ pc[p] = IF p \in Past THEN "exited" ELSE "start"
                         /\ cmd[p] = IF p \in Past THEN "sync" ELSE "none"
                         /\ ~cancelled[p] /\ outcome[p] # "cut"
    BY <1>1, SMT DEF Init
  <2>3. {"start", "exited"} \cap Saving = {}
    BY SMT DEF Saving
  <2> QED
    BY <2>1, <2>2, <2>3 DEF Honest
<1>2. ASSUME Inv, [Next]_vars PROVE Inv'
  <2>1. CommandInv'
    BY <1>2, InvStep
  <2>2. ASSUME NEW p \in Procs,
               \/ UsageError(p) \/ Start(p) \/ Load(p) \/ KnowRegion(p) \/ NoRegion(p)
               \/ Request(p) \/ Poll(p) \/ Finish(p) \/ FirstSignal(p) \/ Die(p)
               \/ Sweep(p) \/ MkStemp(p) \/ Write(p) \/ Rename(p) \/ RenameFails(p)
        PROVE  \A q \in Procs : Honest(q)'
    <3>0. Honest(p) /\ Typed /\ Stage(p)
      BY <1>2 DEF CommandInv
    <3>1. Others(p) /\ Saves(p)
      BY <1>2, <2>2, ProcessStep DEF StepGoal
    <3>2. \A q \in Procs \ {p} : Honest(q)'
      BY <1>2, <3>1, OthersHonest
    <3>3. CASE UsageError(p)
      <4>1. PICK c \in {1, 2} : Exit(p, c, "exited")
        BY <3>3 DEF UsageError
      <4>2. c \in Codes \cup {NoCode} /\ c # 0 /\ UNCHANGED cmd
        BY <3>3, SMT DEF Codes, UsageError
      <4> QED
        BY <3>0, <3>2, <4>1, <4>2, ExitHonest
    <3>4. CASE Die(p)
      <4>1. Exit(p, NoCode, "killed") /\ UNCHANGED cmd /\ NoCode \in Codes \cup {NoCode}
        BY <3>4 DEF Die
      <4> QED
        BY <3>0, <3>2, <4>1, ExitHonest
    <3> QED
      BY <1>2, <2>2, <3>0, <3>2, <3>3, <3>4, WorkHonest, SignalHonest, FinishHonest, SaveHonest
  <2>3. ASSUME Hour \/ Ended \/ UNCHANGED vars PROVE \A q \in Procs : Honest(q)'
    <3>1. UNCHANGED <<cmd, pc, shutdown, cancelled, outcome, code, saved>>
      BY <2>3, Zenon DEF Hour, Ended, vars, saveVars
    <3> QED
      BY <1>2, <3>1, Zenon DEF Honest
  <2> QED
    BY <1>2, <2>1, <2>2, <2>3, Zenon DEF Next
<1>3. Inv => CodesHonest
  BY Zenon DEF Honest, CodesHonest
<1> QED
  BY <1>1, <1>2, <1>3, PTL DEF Spec
================================================================================

----------------------------- MODULE SyncRunProofs -----------------------------
(***************************************************************************)
(* What a run of mito sync does to the destination and to the temporary    *)
(* files of others, for every set of files and of temporary files.         *)
(***************************************************************************)
EXTENDS SyncRun, FiniteSetTheorems, TLAPS

USE SyncAssumption

\* The parts of TypeOK.
ConfigOK ==
    config \in [direction : Directions, delete_orphans : BOOLEAN, dry_run : BOOLEAN]
TreesOK ==
    /\ source \subseteq Paths /\ original \subseteq Paths /\ dest \subseteq Names
    /\ up_to_date \subseteq Paths
TempOK   == temp \in [Temps -> [side : Sides, state : TempStates]]
PhaseOK  == phase \in Phases
UnlistedOK == unlisted \subseteq Sides
ListedOK ==
    listed \in [Sides -> [entries : SUBSET Names, complete : BOOLEAN, alias : BOOLEAN]]
PlanOK   == plan \in [Names -> Actions]
FlagsOK  == cancelled \in BOOLEAN /\ success \in BOOLEAN

\* The steps of Next, one by one.
LEMMA NextCases ==
    ASSUME [Next]_vars
    PROVE  \/ Sweep \/ (\E s \in Sides : List(s)) \/ Decide \/ Resweep
           \/ (\E n \in Names : Transfer(n)) \/ (\E n \in Names : TransferFails(n))
           \/ (\E n \in Names : DeleteOrphan(n)) \/ (\E n \in Names : DeleteFails(n))
           \/ Return \/ Cancel
           \/ (\E t \in Temps : OtherRun(t))
           \/ UNCHANGED vars
  BY Zenon DEF Next, Execute

\* The roots that a sweep looks at are sides, and fixed for the run.
LEMMA LocalSidesFacts ==
    ASSUME ConfigOK PROVE LocalSides \subseteq Sides
  BY SMT DEF ConfigOK, LocalSides, Sides, Directions

\* What is local does not change in a run.
LEMMA LocalSidesFixed ==
    ASSUME UNCHANGED config PROVE LocalSides' = LocalSides
  BY DEF LocalSides

-----------------------------------------------------------------------------
(* Type correctness.  A name has one action in the plan, which is taken    *)
(* out of it when it is counted as failed.                                 *)

Planned == {n \in Names : plan[n] # "None"}

FailuresBounded == failed \in Nat /\ failed + Cardinality(Planned) <= Cardinality(Names)

\* Until the plan is carried out nothing has failed and the destination is as it was.
NothingDone ==
    phase \in {"sweep", "list", "decide", "resweep"} => failed = 0 /\ dest = original

Typed ==
    /\ ConfigOK /\ TreesOK /\ TempOK /\ PhaseOK /\ UnlistedOK /\ ListedOK
    /\ PlanOK /\ FlagsOK /\ FailuresBounded /\ NothingDone

\* There are finitely many names, and what is planned is among them.
LEMMA NamesFinite ==
    /\ IsFiniteSet(Names) /\ Cardinality(Names) \in Nat
    /\ IsFiniteSet(Planned) /\ Cardinality(Planned) \in Nat
    /\ Cardinality(Planned) <= Cardinality(Names)
<1>1. IsFiniteSet(Names)
  BY FS_Union DEF Names
<1>2. Planned \in SUBSET Names
  BY DEF Planned
<1> QED
  BY <1>1, <1>2, FS_Subset, FS_CardinalityType

\* The same of the next state.
LEMMA NamesFiniteNext ==
    /\ IsFiniteSet(Planned') /\ Cardinality(Planned') \in Nat
    /\ Cardinality(Planned') <= Cardinality(Names)
<1>1. IsFiniteSet(Names)
  BY FS_Union DEF Names
<1>2. Planned' \in SUBSET Names
  BY DEF Planned
<1> QED
  BY <1>1, <1>2, FS_Subset, FS_CardinalityType

\* An action that is done is no longer planned.
LEMMA DoneCounts ==
    ASSUME PlanOK, NEW n \in Names, plan[n] # "None", Done(n)
    PROVE  Cardinality(Planned') = Cardinality(Planned) - 1
<1>1. n \in Planned /\ Planned' = Planned \ {n}
  BY SMT DEF PlanOK, Planned, Done
<1> QED
  BY <1>1, NamesFinite, FS_RemoveElement

\* Done keeps the plan a plan.
LEMMA DoneTyped ==
    ASSUME PlanOK, NEW n \in Names, Done(n)
    PROVE  PlanOK'
  BY SMT DEF PlanOK, Done, Actions

\* Typed says all of TypeOK.
LEMMA TypedTypeOK == Typed => TypeOK
<1> SUFFICES ASSUME Typed PROVE TypeOK
  OBVIOUS
<1>1. failed \in 0..Cardinality(Names)
  BY NamesFinite, SMT DEF Typed, FailuresBounded
<1> QED
  BY <1>1, Zenon DEF Typed, TypeOK, ConfigOK, TreesOK, TempOK, PhaseOK, UnlistedOK, ListedOK,
     PlanOK, FlagsOK

\* The typing holds initially.
LEMMA InitTyped == Init => Typed
<1> SUFFICES ASSUME Init PROVE Typed
  OBVIOUS
<1>1. ConfigOK /\ TreesOK /\ PhaseOK /\ UnlistedOK
  BY SMT DEF Init, ConfigOK, TreesOK, PhaseOK, UnlistedOK, Phases, Names
<1>2. TempOK
  BY SMT DEF Init, TempOK, TempStates
<1>3. ListedOK
  BY SMT DEF Init, ListedOK, NotListed
<1>4. PlanOK
  BY SMT DEF Init, PlanOK, Actions
<1>5. FlagsOK
  BY Zenon DEF Init, FlagsOK
<1>6. FailuresBounded /\ NothingDone
  BY NamesFinite, SMT DEF Init, FailuresBounded, NothingDone
<1> QED
  BY <1>1, <1>2, <1>3, <1>4, <1>5, <1>6 DEF Typed

\* A listing is a record of the type that listed holds.
LEMMA OutcomeTyped ==
    ASSUME TreesOK, TempOK, NEW side \in Sides, NEW o \in Outcomes(Tree(side), cancelled)
    PROVE  o \in [entries : SUBSET Names, complete : BOOLEAN, alias : BOOLEAN]
<1>1. Tree(side) \subseteq Names
  BY SMT DEF TreesOK, Tree, TempsAt, Names
<1> QED
  BY <1>1, SMT DEF Outcomes

\* Removed changes the states of temporary files only.
LEMMA RemovedTyped ==
    ASSUME TempOK, NEW ts, temp' = Removed(ts)
    PROVE  TempOK'
  BY SMT DEF TempOK, Removed, TempStates

\* Removing a name at the destination keeps the types.
LEMMA RemoveTyped ==
    ASSUME TreesOK, TempOK, NEW n \in Names, Remove(n)
    PROVE  dest' \subseteq Names /\ TempOK'
<1>1. dest' \subseteq Names
  BY SMT DEF Remove, TreesOK
<1>2. TempOK'
  BY SMT DEF Remove, TempOK, TempStates
<1> QED
  BY <1>1, <1>2

\* The names of one file are names.
LEMMA AliasesTyped ==
    ASSUME NEW n \in Names PROVE NamesAtDest(n) \subseteq Names
  BY SMT DEF NamesAtDest, Names

\* Every step keeps the typing: one case per action.
LEMMA StepTyped ==
    ASSUME Typed, [Next]_vars
    PROVE  Typed'
<1> USE DEF listVars, treeVars
<1>0. /\ ConfigOK /\ TreesOK /\ TempOK /\ PhaseOK /\ UnlistedOK /\ ListedOK
      /\ PlanOK /\ FlagsOK /\ FailuresBounded /\ NothingDone
  BY DEF Typed
<1>u. ASSUME UNCHANGED <<failed, plan>> PROVE PlanOK' /\ FailuresBounded'
  <2>1. Planned' = Planned
    BY <1>u DEF Planned
  <2> QED
    BY <1>u, <1>0, <2>1 DEF PlanOK, FailuresBounded
<1>d. ASSUME NEW n \in Names, plan[n] # "None", Done(n), failed' \in {failed, failed + 1}
      PROVE PlanOK' /\ FailuresBounded'
  <2>1. Cardinality(Planned') = Cardinality(Planned) - 1
    BY <1>d, <1>0, DoneCounts
  <2>2. FailuresBounded'
    BY <1>d, <1>0, <2>1, NamesFinite, NamesFiniteNext, SMT DEF FailuresBounded
  <2> QED
    BY <1>d, <1>0, <2>2, DoneTyped
<1>a. CASE Sweep
  <2>1. ConfigOK' /\ TreesOK' /\ UnlistedOK' /\ ListedOK' /\ UNCHANGED <<failed, plan>>
    BY <1>a, <1>0, Zenon DEF Sweep, GoTo, Refuse, ConfigOK, TreesOK, UnlistedOK, ListedOK
  <2>2. PhaseOK' /\ NothingDone'
    BY <1>a, <1>0, SMT DEF Sweep, GoTo, Refuse, PhaseOK, Phases, NothingDone
  <2>3. FlagsOK'
    BY <1>a, <1>0, Zenon DEF Sweep, GoTo, Refuse, FlagsOK
  <2>4. TempOK'
    BY <1>a, <1>0, RemovedTyped, Zenon DEF Sweep
  <2> QED
    BY <2>1, <2>2, <2>3, <2>4, <1>u DEF Typed
<1>b. CASE \E s \in Sides : List(s)
  <2> PICK side \in Sides : List(side)
    BY <1>b
  <2> PICK o \in Outcomes(Tree(side), cancelled) : listed' = [listed EXCEPT ![side] = o]
    BY Zenon DEF List
  <2>1. ConfigOK' /\ TreesOK' /\ TempOK' /\ FlagsOK' /\ UNCHANGED <<failed, plan>>
    BY <1>0, Zenon DEF List, ConfigOK, TreesOK, TempOK, FlagsOK
  <2>2. PhaseOK' /\ UnlistedOK' /\ NothingDone'
    BY <1>0, SMT DEF List, PhaseOK, UnlistedOK, Phases, NothingDone
  <2>3. ListedOK'
    BY <1>0, OutcomeTyped, SMT DEF ListedOK
  <2> QED
    BY <2>1, <2>2, <2>3, <1>u DEF Typed
<1>c. CASE Decide
  <2>1. ConfigOK' /\ TreesOK' /\ TempOK' /\ UnlistedOK' /\ ListedOK' /\ UNCHANGED failed
    BY <1>c, <1>0, Zenon DEF Decide, Refuse, ConfigOK, TreesOK, TempOK, UnlistedOK, ListedOK
  <2>2. PhaseOK' /\ NothingDone'
    BY <1>c, <1>0, SMT DEF Decide, Refuse, PhaseOK, Phases, NothingDone
  <2>3. FlagsOK'
    BY <1>c, <1>0, Zenon DEF Decide, Refuse, FlagsOK
  <2>4. PlanOK' /\ FailuresBounded'
    <3>1. CASE cancelled \/ ~enumeration_ok
      <4> UNCHANGED <<failed, plan>>
        BY <1>c, <3>1, Zenon DEF Decide, Refuse
      <4> QED
        BY <1>u
    <3>2. CASE ~(cancelled \/ ~enumeration_ok)
      <4>1. plan' = Classify /\ UNCHANGED failed
        BY <1>c, <3>2, Zenon DEF Decide
      <4>2. PlanOK'
        BY <4>1, SMT DEF PlanOK, Classify, Actions
      <4>3. failed = 0 /\ failed' = 0
        BY <1>c, <1>0, <4>1, SMT DEF Decide, NothingDone
      <4>4. FailuresBounded'
        BY <4>3, NamesFiniteNext, SMT DEF FailuresBounded
      <4> QED
        BY <4>2, <4>4
    <3> QED
      BY <3>1, <3>2
  <2> QED
    BY <2>1, <2>2, <2>3, <2>4 DEF Typed
<1>e. CASE Resweep
  <2>1. /\ ConfigOK' /\ TreesOK' /\ TempOK' /\ UnlistedOK' /\ ListedOK'
        /\ UNCHANGED <<failed, plan>>
    BY <1>e, <1>0, Zenon DEF Resweep, GoTo, Refuse, ConfigOK, TreesOK, TempOK, UnlistedOK,
       ListedOK
  <2>2. PhaseOK' /\ NothingDone'
    BY <1>e, <1>0, SMT DEF Resweep, GoTo, Refuse, PhaseOK, Phases, NothingDone
  <2>3. FlagsOK'
    BY <1>e, <1>0, Zenon DEF Resweep, GoTo, Refuse, FlagsOK
  <2> QED
    BY <2>1, <2>2, <2>3, <1>u DEF Typed
<1>g. CASE \E n \in Names : Transfer(n)
  <2> PICK n \in Names : Transfer(n)
    BY <1>g
  <2>1. ConfigOK' /\ TempOK' /\ UnlistedOK' /\ ListedOK' /\ FlagsOK'
    BY <1>0, Zenon DEF Transfer, ConfigOK, TempOK, UnlistedOK, ListedOK, FlagsOK
  <2>2. PhaseOK' /\ NothingDone'
    BY <1>0, SMT DEF Transfer, PhaseOK, Phases, NothingDone
  <2>3. TreesOK'
    BY <1>0, AliasesTyped, SMT DEF Transfer, TreesOK
  <2>4. PlanOK' /\ FailuresBounded'
    BY <1>d, SMT DEF Transfer
  <2> QED
    BY <2>1, <2>2, <2>3, <2>4 DEF Typed
<1>h. CASE \E n \in Names : TransferFails(n)
  <2> PICK n \in Names : TransferFails(n)
    BY <1>h
  <2>1. ConfigOK' /\ TempOK' /\ UnlistedOK' /\ ListedOK' /\ FlagsOK'
    BY <1>0, Zenon DEF TransferFails, ConfigOK, TempOK, UnlistedOK, ListedOK, FlagsOK
  <2>2. PhaseOK' /\ NothingDone'
    BY <1>0, SMT DEF TransferFails, PhaseOK, Phases, NothingDone
  <2>3. TreesOK'
    BY <1>0, AliasesTyped, SMT DEF TransferFails, TreesOK
  <2>4. PlanOK' /\ FailuresBounded'
    BY <1>d, SMT DEF TransferFails, CountFailure
  <2> QED
    BY <2>1, <2>2, <2>3, <2>4 DEF Typed
<1>i. CASE \E n \in Names : DeleteOrphan(n)
  <2> PICK n \in Names : DeleteOrphan(n)
    BY <1>i
  <2>1. ConfigOK' /\ UnlistedOK' /\ ListedOK' /\ FlagsOK'
    BY <1>0, Zenon DEF DeleteOrphan, ConfigOK, UnlistedOK, ListedOK, FlagsOK
  <2>2. PhaseOK' /\ NothingDone'
    BY <1>0, SMT DEF DeleteOrphan, PhaseOK, Phases, NothingDone
  <2>3. TreesOK' /\ TempOK'
    BY <1>0, RemoveTyped, SMT DEF DeleteOrphan, TreesOK
  <2>4. PlanOK' /\ FailuresBounded'
    BY <1>d, SMT DEF DeleteOrphan
  <2> QED
    BY <2>1, <2>2, <2>3, <2>4 DEF Typed
<1>j. CASE \E n \in Names : DeleteFails(n)
  <2> PICK n \in Names : DeleteFails(n)
    BY <1>j
  <2>1. ConfigOK' /\ UnlistedOK' /\ ListedOK' /\ FlagsOK'
    BY <1>0, Zenon DEF DeleteFails, ConfigOK, UnlistedOK, ListedOK, FlagsOK
  <2>2. PhaseOK' /\ NothingDone'
    BY <1>0, SMT DEF DeleteFails, PhaseOK, Phases, NothingDone
  <2>3. TreesOK' /\ TempOK'
    <3>1. CASE Remove(n)
      BY <3>1, <1>0, RemoveTyped, SMT DEF DeleteFails, TreesOK
    <3>2. CASE UNCHANGED <<dest, temp>>
      BY <3>2, <1>0, SMT DEF DeleteFails, TreesOK, TempOK
    <3> QED
      BY <3>1, <3>2 DEF DeleteFails
  <2>4. PlanOK' /\ FailuresBounded'
    BY <1>d, SMT DEF DeleteFails, CountFailure
  <2> QED
    BY <2>1, <2>2, <2>3, <2>4 DEF Typed
<1>k. CASE Return
  <2>1. /\ ConfigOK' /\ TreesOK' /\ TempOK' /\ UnlistedOK' /\ ListedOK'
        /\ UNCHANGED <<failed, plan>>
    BY <1>k, <1>0, Zenon DEF Return, ConfigOK, TreesOK, TempOK, UnlistedOK, ListedOK
  <2>2. PhaseOK' /\ NothingDone'
    BY <1>k, <1>0, SMT DEF Return, PhaseOK, Phases, NothingDone
  <2>3. FlagsOK'
    BY <1>k, <1>0, Zenon DEF Return, FlagsOK
  <2> QED
    BY <2>1, <2>2, <2>3, <1>u DEF Typed
<1>l. CASE Cancel
  <2>1. /\ ConfigOK' /\ TreesOK' /\ TempOK' /\ UnlistedOK' /\ ListedOK' /\ PhaseOK'
        /\ FlagsOK' /\ UNCHANGED <<failed, plan>>
    BY <1>l, <1>0, Zenon DEF Cancel, ConfigOK, TreesOK, TempOK, UnlistedOK, ListedOK,
       PhaseOK, FlagsOK
  <2>2. NothingDone'
    BY <1>l, <1>0, Zenon DEF Cancel, NothingDone
  <2> QED
    BY <2>1, <2>2, <1>u DEF Typed
<1>m. CASE \E t \in Temps : OtherRun(t)
  <2> PICK t \in Temps : OtherRun(t)
    BY <1>m
  <2>1. /\ ConfigOK' /\ TreesOK' /\ UnlistedOK' /\ ListedOK' /\ PhaseOK' /\ FlagsOK'
        /\ UNCHANGED <<failed, plan>>
    BY <1>0, Zenon DEF OtherRun, ConfigOK, TreesOK, UnlistedOK, ListedOK, PhaseOK, FlagsOK
  <2>2. NothingDone'
    BY <1>0, Zenon DEF OtherRun, NothingDone
  <2>3. TempOK'
    BY <1>0, SMT DEF OtherRun, TempOK, TempStates
  <2> QED
    BY <2>1, <2>2, <2>3, <1>u DEF Typed
<1>n. CASE UNCHANGED vars
  <2>1. /\ ConfigOK' /\ TreesOK' /\ TempOK' /\ UnlistedOK' /\ ListedOK' /\ PhaseOK'
        /\ FlagsOK' /\ NothingDone' /\ UNCHANGED <<failed, plan>>
    BY <1>n, <1>0, Zenon DEF vars, ConfigOK, TreesOK, TempOK, UnlistedOK, ListedOK,
       PhaseOK, FlagsOK, NothingDone
  <2> QED
    BY <2>1, <1>u DEF Typed
<1> QED
  BY <1>a, <1>b, <1>c, <1>e, <1>g, <1>h, <1>i, <1>j, <1>k, <1>l, <1>m, <1>n, NextCases

(***************************************************************************)
(* Every variable keeps its type; no name is counted as failed twice.      *)
(***************************************************************************)
THEOREM SyncTypeCorrect == Spec => []TypeOK
<1>1. Init => Typed
  BY InitTyped
<1>2. Typed /\ [Next]_vars => Typed'
  BY StepTyped
<1>3. Typed => TypeOK
  BY TypedTypeOK
<1> QED
  BY <1>1, <1>2, <1>3, PTL DEF Spec

-----------------------------------------------------------------------------
(* The listings and the plan.                                              *)

\* The files of a side that the listings are to find: execution changes dest.
Files(side) == IF side = "source" THEN source ELSE original

\* A listing invents no file, and one that calls itself exact missed none,
\* unless the run has been cancelled, which Decide looks at.
ListedSound ==
    \A s \in Sides :
       /\ listed[s].entries \cap Paths \subseteq Files(s)
       /\ (~cancelled /\ listed[s].complete /\ ~listed[s].alias) =>
             Files(s) \subseteq listed[s].entries

\* Whatever was missed, a source file is not planned to be deleted, and what is
\* planned to be transferred is a source file or a temporary one.
PlanSound ==
    /\ \A n \in Names : plan[n] = "Delete" => n \notin source /\ config.delete_orphans
    /\ \A p \in Paths : plan[p] = "Transfer" => p \in source
    /\ up_to_date \subseteq source \cap original

\* A temporary file that was listed has been created, and is created once: what
\* the second sweep does not find is gone for good.
TempSound ==
    \A t \in Temps :
       /\ temp[t].state \in {"live", "orphan"} => temp[t].side \in LocalSides
       /\ (plan[t] # "None" \/ \E s \in Sides : t \in listed[s].entries) =>
             temp[t].state # "unborn"
       /\ t \notin Unreached =>
             /\ temp[t].state # "lost"
             /\ phase = "execute" /\ plan[t] # "None" => temp[t].state = "gone"

\* As long as nothing failed, what is missing at the destination is still planned
\* to be transferred, and what is too much, and was seen, to be deleted.
MissingPlanned == \A p \in source : p \in dest \/ plan[p] = "Transfer"
Seen(n) == n \in listed["dest"].entries \/ (listed["dest"].complete /\ ~listed["dest"].alias)
OrphansPlanned ==
    config.delete_orphans =>
       \A n \in dest \ Unreached : Seen(n) => n \in source \/ plan[n] = "Delete"
MirrorPlanned ==
    (/\ phase \in {"resweep", "execute"} \/ (phase = "returned" /\ success)
     /\ failed = 0 /\ ~cancelled) =>
       MissingPlanned /\ OrphansPlanned

\* Success is reported when nothing failed and nothing is left to do.
SuccessSound ==
    (phase = "returned" /\ success) =>
       /\ ~cancelled /\ failed = 0
       /\ config.dry_run \/ \A n \in Names : plan[n] = "None"

\* Nothing is listed, planned or done initially.
LEMMA InitSound ==
    Init => ListedSound /\ PlanSound /\ TempSound /\ SuccessSound /\ MirrorPlanned
<1> SUFFICES ASSUME Init
             PROVE  ListedSound /\ PlanSound /\ TempSound /\ SuccessSound /\ MirrorPlanned
  OBVIOUS
<1>1. ListedSound
  <2>1. \A s \in Sides : listed[s].entries = {} /\ listed[s].complete = FALSE
    BY SMT DEF Init, NotListed
  <2> QED
    BY <2>1 DEF ListedSound
<1>2. PlanSound
  BY SMT DEF Init, PlanSound, Names
<1>3. TempSound
  <2>1. \A s \in Sides : listed[s].entries = {}
    BY SMT DEF Init, NotListed
  <2>2. \A t \in Temps : plan[t] = "None" /\ temp[t].state \in {"unborn", "orphan"}
    BY SMT DEF Init, Names
  <2> QED
    BY <2>1, <2>2 DEF TempSound, Init
<1>4. SuccessSound /\ MirrorPlanned
  BY DEF Init, SuccessSound, MirrorPlanned
<1> QED
  BY <1>1, <1>2, <1>3, <1>4

\* What there is to list: the files, and temporary files that have been created.
LEMMA TreeFacts ==
    ASSUME Typed, phase = "list", NEW side \in Sides
    PROVE  /\ Tree(side) \cap Paths = Files(side)
           /\ \A t \in Tree(side) \cap Temps : temp[t].state \in {"live", "orphan"}
<1>1. source \subseteq Paths /\ original \subseteq Paths /\ dest = original
  BY DEF Typed, TreesOK, NothingDone
<1> QED
  BY <1>1, SMT DEF Tree, TempsAt, Files, Sides

\* The listings stay sound: List adds what Listing promises, and Cancel withdraws
\* the promise.
LEMMA ListedStep ==
    ASSUME Typed, ListedSound, [Next]_vars
    PROVE  ListedSound'
<1> USE DEF listVars, treeVars
<1>u. ASSUME UNCHANGED <<listed, source, original>>, cancelled => cancelled'
      PROVE  ListedSound'
  <2>1. \A s \in Sides : Files(s)' = Files(s)
    BY <1>u DEF Files
  <2> QED
    BY <1>u, <2>1, Zenon DEF ListedSound
<1>1. CASE \E s \in Sides : List(s)
  <2> PICK side \in Sides : List(side)
    BY <1>1
  <2> PICK o \in Outcomes(Tree(side), cancelled) : listed' = [listed EXCEPT ![side] = o]
    BY Zenon DEF List
  <2>1. /\ o.entries \subseteq Tree(side)
        /\ (~cancelled /\ o.complete /\ ~o.alias) => o.entries = Tree(side)
    BY DEF Outcomes
  <2>2. Tree(side) \cap Paths = Files(side)
    BY TreeFacts DEF List
  <2>3. \A s \in Sides : listed'[s] = IF s = side THEN o ELSE listed[s]
    BY SMT DEF Typed, ListedOK
  <2>4. cancelled' = cancelled /\ \A s \in Sides : Files(s)' = Files(s)
    BY Zenon DEF List, Files
  <2>5. SUFFICES ASSUME NEW s \in Sides
                 PROVE  /\ listed'[s].entries \cap Paths \subseteq Files(s)
                        /\ (~cancelled /\ listed'[s].complete /\ ~listed'[s].alias) =>
                              Files(s) \subseteq listed'[s].entries
    BY <2>4 DEF ListedSound
  <2>6. CASE s = side
    BY <2>1, <2>2, <2>3, <2>6
  <2>7. CASE s # side
    BY <2>3, <2>7 DEF ListedSound
  <2> QED
    BY <2>6, <2>7
<1>2. CASE Cancel
  BY <1>2, <1>u, Zenon DEF Cancel
<1>3. ASSUME Sweep \/ Decide \/ Resweep \/ Return \/ \E t \in Temps : OtherRun(t)
      PROVE  UNCHANGED <<listed, source, original, cancelled>>
  BY <1>3, Zenon DEF Sweep, Decide, Resweep, Return, OtherRun, GoTo, Refuse
<1>4. ASSUME NEW n \in Names, Transfer(n) \/ TransferFails(n) \/ DeleteOrphan(n) \/ DeleteFails(n)
      PROVE  UNCHANGED <<listed, source, original, cancelled>>
  BY <1>4, Zenon DEF Transfer, TransferFails, DeleteOrphan, DeleteFails
<1>5. CASE UNCHANGED vars
  BY <1>5, <1>u, Zenon DEF vars
<1>6. ASSUME UNCHANGED <<listed, source, original, cancelled>> PROVE ListedSound'
  BY <1>6, <1>u
<1> QED
  BY <1>1, <1>2, <1>3, <1>4, <1>5, <1>6, NextCases, Zenon

\* What Classify makes of sound listings of which the source is exact.
LEMMA ClassifySound ==
    ASSUME Typed, ListedSound, PlanSound, ~cancelled, enumeration_ok
    PROVE  /\ \A n \in Names : Classify[n] = "Delete" => n \notin source /\ config.delete_orphans
           /\ \A p \in Paths : Classify[p] = "Transfer" => p \in source
           /\ \A t \in Temps : Classify[t] # "None" =>
                 \E s \in Sides : t \in listed[s].entries
           /\ \A p \in source : p \in original \/ Classify[p] = "Transfer"
           /\ config.delete_orphans =>
                 \A p \in original : Seen(p) => p \in source \/ Classify[p] = "Delete"
<1>1. source \subseteq Paths /\ original \subseteq Paths
  BY DEF Typed, TreesOK
<1>2. /\ listed["source"].entries \cap Paths \subseteq source
      /\ source \subseteq listed["source"].entries
  BY SMT DEF ListedSound, enumeration_ok, Files, Sides
<1>3. (listed["dest"].complete /\ ~listed["dest"].alias) => original \subseteq listed["dest"].entries
  BY SMT DEF ListedSound, Files, Sides
<1>4. up_to_date \subseteq original
  BY DEF PlanSound
<1>5. \A n \in Names :
         Classify[n] = IF n \in listed["source"].entries
                       THEN IF n \in listed["dest"].entries \cap up_to_date THEN "None" ELSE "Transfer"
                       ELSE IF n \in listed["dest"].entries /\ config.delete_orphans THEN "Delete"
                       ELSE "None"
  BY DEF Classify
<1> HIDE DEF Classify
<1>6. \A n \in Names : Classify[n] = "Delete" => n \notin source /\ config.delete_orphans
  BY <1>2, <1>5
<1>7. \A p \in Paths : Classify[p] = "Transfer" => p \in source
  BY <1>2, <1>5 DEF Names
<1>8. \A t \in Temps : Classify[t] # "None" => \E s \in Sides : t \in listed[s].entries
  BY <1>5 DEF Names, Sides
<1>9. \A p \in source : p \in original \/ Classify[p] = "Transfer"
  BY <1>1, <1>2, <1>4, <1>5 DEF Names
<1>10. ASSUME config.delete_orphans, NEW p \in original, Seen(p)
       PROVE  p \in source \/ Classify[p] = "Delete"
  BY <1>10, <1>1, <1>2, <1>3, <1>5 DEF Names, Seen
<1> QED
  BY <1>6, <1>7, <1>8, <1>9, <1>10

\* Carrying out an action takes it out of the plan and adds none.
PlanShrinks == \A m \in Names : plan'[m] \in {plan[m], "None"}

\* An action that is done is taken out of the plan, and no other is.
LEMMA DoneShrinks ==
    ASSUME PlanOK, NEW n \in Names, Done(n)
    PROVE  PlanShrinks /\ plan'[n] = "None" /\ \A m \in Names \ {n} : plan'[m] = plan[m]
  BY SMT DEF PlanOK, PlanShrinks, Done

\* The steps that neither list nor classify: of the plan they leave what they do
\* not carry out.
LEMMA QuietSteps ==
    ASSUME Typed, [Next]_vars, ~Decide, \A s \in Sides : ~List(s)
    PROVE  /\ PlanShrinks
           /\ UNCHANGED <<config, source, original, up_to_date, listed>>
<1> USE DEF listVars, treeVars
<1>1. ASSUME UNCHANGED plan PROVE PlanShrinks
  BY <1>1 DEF PlanShrinks
<1>2. CASE Sweep
  BY <1>1, <1>2, Zenon DEF Sweep, GoTo, Refuse
<1>3. CASE Resweep
  BY <1>1, <1>3, Zenon DEF Resweep, GoTo, Refuse
<1>4. CASE Return \/ Cancel \/ \E t \in Temps : OtherRun(t)
  BY <1>1, <1>4, Zenon DEF Return, Cancel, OtherRun
<1>5. ASSUME NEW n \in Names, Transfer(n) \/ TransferFails(n) \/ DeleteOrphan(n) \/ DeleteFails(n)
      PROVE  /\ PlanShrinks
             /\ UNCHANGED <<config, source, original, up_to_date, listed>>
  <2>1. Done(n) /\ UNCHANGED <<config, source, original, up_to_date, listed>>
    BY <1>5, Zenon DEF Transfer, TransferFails, DeleteOrphan, DeleteFails
  <2> QED
    BY <2>1, DoneShrinks DEF Typed
<1>6. CASE UNCHANGED vars
  BY <1>1, <1>6, Zenon DEF vars
<1> QED
  BY <1>2, <1>3, <1>4, <1>5, <1>6, NextCases, Zenon

\* The plan stays sound.
LEMMA PlanStep ==
    ASSUME Typed, ListedSound, PlanSound, [Next]_vars
    PROVE  PlanSound'
<1> USE DEF listVars, treeVars
<1>u. ASSUME PlanShrinks, UNCHANGED <<config, source, original, up_to_date>>
      PROVE  PlanSound'
  BY <1>u DEF PlanShrinks, PlanSound, Names
<1>1. CASE Decide
  <2>1. CASE cancelled \/ ~enumeration_ok
    BY <1>1, <2>1, <1>u, Zenon DEF Decide, Refuse, PlanShrinks
  <2>2. CASE ~(cancelled \/ ~enumeration_ok)
    <3>1. plan' = Classify /\ UNCHANGED <<config, source, original, up_to_date>>
      BY <1>1, <2>2, Zenon DEF Decide
    <3> HIDE DEF Classify
    <3>2. /\ \A n \in Names : Classify[n] = "Delete" => n \notin source /\ config.delete_orphans
          /\ \A p \in Paths : Classify[p] = "Transfer" => p \in source
      BY <2>2, ClassifySound
    <3> QED
      BY <3>1, <3>2 DEF PlanSound
  <2> QED
    BY <2>1, <2>2
<1>2. CASE \E s \in Sides : List(s)
  BY <1>2, <1>u, Zenon DEF List, PlanShrinks
<1>3. CASE ~Decide /\ \A s \in Sides : ~List(s)
  BY <1>3, <1>u, QuietSteps
<1> QED
  BY <1>1, <1>2, <1>3

\* What a sweep does to a temporary file.
LEMMA RemovedFacts ==
    ASSUME TempOK, NEW ts, temp' = Removed(ts), NEW t \in Temps
    PROVE  temp'[t].side = temp[t].side /\ temp'[t].state \in {temp[t].state, "gone"}
  BY SMT DEF TempOK, Removed

\* What a deletion does to a temporary file: it is lost if it was that of a process
\* that lives.
LEMMA RemoveFacts ==
    ASSUME TempOK, NEW n, Remove(n), NEW t \in Temps
    PROVE  \/ temp'[t] = temp[t]
           \/ /\ t = n /\ temp[t].state = "live"
              /\ temp'[t].side = temp[t].side /\ temp'[t].state = "lost"
  BY SMT DEF TempOK, Remove, TempsAt

\* Temporary files stay sound: with the second sweep, what is planned of a file
\* that a sweep reaches is about one that is gone.
LEMMA TempStep ==
    ASSUME Typed, ListedSound, PlanSound, TempSound, [Next]_vars
    PROVE  TempSound'
<1> USE DEF listVars, treeVars
<1>0. TempOK
  BY DEF Typed
<1>u. ASSUME UNCHANGED <<config, listed>>, PlanShrinks,
             phase' = "execute" => phase = "execute",
             \A t \in Temps : \/ temp'[t] = temp[t]
                              \/ /\ temp'[t].side = temp[t].side
                                 /\ temp'[t].state \in {temp[t].state, "gone"}
                              \/ /\ t \in Unreached
                                 /\ temp'[t].state = "lost"
      PROVE  TempSound'
  <2>1. LocalSides' = LocalSides
    BY <1>u, LocalSidesFixed
  <2> SUFFICES ASSUME NEW t \in Temps
               PROVE  /\ temp'[t].state \in {"live", "orphan"} => temp'[t].side \in LocalSides
                      /\ (plan'[t] # "None" \/ \E s \in Sides : t \in listed[s].entries) =>
                            temp'[t].state # "unborn"
                      /\ t \notin Unreached =>
                            /\ temp'[t].state # "lost"
                            /\ phase' = "execute" /\ plan'[t] # "None" => temp'[t].state = "gone"
    BY <1>u, <2>1 DEF TempSound
  <2>2. plan'[t] # "None" => plan[t] # "None"
    BY <1>u DEF PlanShrinks, Names
  <2> QED
    BY <1>u, <2>2 DEF TempSound
<1>1. CASE Sweep
  <2>1. \E ts : temp' = Removed(ts)
    BY <1>1, Zenon DEF Sweep
  <2>2. \A t \in Temps : temp'[t].side = temp[t].side /\ temp'[t].state \in {temp[t].state, "gone"}
    BY <2>1, <1>0, RemovedFacts
  <2>3. UNCHANGED <<config, listed, plan>> /\ phase' # "execute"
    BY <1>1, SMT DEF Sweep, GoTo, Refuse
  <2> QED
    BY <2>2, <2>3, <1>u DEF PlanShrinks
<1>2. CASE \E s \in Sides : List(s)
  <2> PICK side \in Sides : List(side)
    BY <1>2
  <2> PICK o \in Outcomes(Tree(side), cancelled) : listed' = [listed EXCEPT ![side] = o]
    BY Zenon DEF List
  <2>1. UNCHANGED <<config, temp, plan>> /\ phase' # "execute"
    BY SMT DEF List
  <2>2. LocalSides' = LocalSides
    BY <2>1, LocalSidesFixed
  <2>3. \A t \in Temps : t \in o.entries => temp[t].state # "unborn"
    BY TreeFacts DEF List, Outcomes
  <2>4. \A s \in Sides : listed'[s] = IF s = side THEN o ELSE listed[s]
    BY SMT DEF Typed, ListedOK
  <2>5. \A t \in Temps : (\E s \in Sides : t \in listed'[s].entries) => temp[t].state # "unborn"
    BY <2>3, <2>4 DEF TempSound
  <2> QED
    BY <2>1, <2>2, <2>5 DEF TempSound
<1>3. CASE Decide
  <2>1. CASE cancelled \/ ~enumeration_ok
    BY <1>3, <2>1, <1>u, SMT DEF Decide, Refuse, PlanShrinks
  <2>2. CASE ~(cancelled \/ ~enumeration_ok)
    <3>1. plan' = Classify /\ UNCHANGED <<config, temp, listed>> /\ phase' = "resweep"
      BY <1>3, <2>2, Zenon DEF Decide
    <3>2. LocalSides' = LocalSides
      BY <3>1, LocalSidesFixed
    <3>3. \A t \in Temps : plan'[t] # "None" => \E s \in Sides : t \in listed[s].entries
      BY <2>2, <3>1, ClassifySound
    <3> QED
      BY <3>1, <3>2, <3>3 DEF TempSound
  <2> QED
    BY <2>1, <2>2
<1>4. CASE Resweep
  <2>1. UNCHANGED <<config, temp, plan, listed>>
    BY <1>4, Zenon DEF Resweep, GoTo, Refuse
  <2>2. LocalSides' = LocalSides
    BY <2>1, LocalSidesFixed
  <2>3. CASE SweptTemps({"live", "orphan"}) = {}
    <3>1. ASSUME NEW t \in Temps, t \notin Unreached
          PROVE  temp[t].state \notin {"live", "orphan"}
      <4>1. ASSUME temp[t].state \in {"live", "orphan"} PROVE FALSE
        <5>1. temp[t].side \in LocalSides
          BY <4>1 DEF TempSound
        <5>2. t \in TempsAt(temp[t].side, {"live", "orphan"}) \ Unreached
          BY <3>1, <4>1 DEF TempsAt
        <5> QED
          BY <5>1, <5>2, <2>3 DEF SweptTemps
      <4> QED
        BY <4>1
    <3>2. \A t \in Temps : temp[t].state \in {"unborn", "live", "orphan", "gone", "lost"}
      BY <1>0, SMT DEF TempOK, TempStates
    <3> QED
      BY <2>1, <2>2, <3>1, <3>2 DEF TempSound
  <2>4. CASE Refuse
    BY <2>1, <2>4, <1>u, SMT DEF Refuse, PlanShrinks
  <2> QED
    BY <1>4, <2>3, <2>4 DEF Resweep
<1>5. ASSUME NEW n \in Names, Transfer(n) \/ TransferFails(n) \/ DeleteOrphan(n) \/ DeleteFails(n)
      PROVE  TempSound'
  <2>1. /\ phase = "execute" /\ phase' = "execute" /\ plan[n] # "None" /\ Done(n)
        /\ UNCHANGED <<config, listed>>
        /\ UNCHANGED temp \/ Remove(n)
    BY <1>5, SMT DEF Transfer, TransferFails, DeleteOrphan, DeleteFails
  <2>2. PlanShrinks
    BY <2>1, DoneShrinks DEF Typed
  <2>3. ASSUME Remove(n), NEW t \in Temps
        PROVE  \/ temp'[t] = temp[t]
               \/ t \in Unreached /\ temp'[t].state = "lost"
    BY <2>1, <2>3, <1>0, RemoveFacts DEF TempSound
  <2> QED
    BY <2>1, <2>2, <2>3, <1>u
<1>6. CASE \E t \in Temps : OtherRun(t)
  <2> PICK u \in Temps : OtherRun(u)
    BY <1>6
  <2>1. PICK from \in {"unborn", "live"}, to \in {"live", "gone", "orphan"} :
          /\ temp[u].state = from /\ temp[u].side \in LocalSides
          /\ (from = "unborn") = (to = "live")
          /\ temp' = [temp EXCEPT ![u].state = to]
    BY Zenon DEF OtherRun
  <2>2. UNCHANGED <<config, plan, listed, phase>>
    BY Zenon DEF OtherRun
  <2>3. LocalSides' = LocalSides
    BY <2>2, LocalSidesFixed
  <2>4. temp'[u].side = temp[u].side /\ temp'[u].state = to
    BY <1>0, <2>1, SMT DEF TempOK
  <2>5. \A t \in Temps \ {u} : temp'[t] = temp[t]
    BY <1>0, <2>1, SMT DEF TempOK
  <2> SUFFICES ASSUME NEW t \in Temps
               PROVE  /\ temp'[t].state \in {"live", "orphan"} => temp'[t].side \in LocalSides
                      /\ (plan[t] # "None" \/ \E s \in Sides : t \in listed[s].entries) =>
                            temp'[t].state # "unborn"
                      /\ t \notin Unreached =>
                            /\ temp'[t].state # "lost"
                            /\ phase = "execute" /\ plan[t] # "None" => temp'[t].state = "gone"
    BY <2>2, <2>3 DEF TempSound
  <2>6. CASE t = u
    BY <2>1, <2>4, <2>6 DEF TempSound
  <2>7. CASE t # u
    BY <2>5, <2>7 DEF TempSound
  <2> QED
    BY <2>6, <2>7
<1>7. CASE Return \/ Cancel
  BY <1>7, <1>u, SMT DEF Return, Cancel, PlanShrinks
<1>8. CASE UNCHANGED vars
  BY <1>8, <1>u, SMT DEF vars, PlanShrinks
<1> QED
  BY <1>1, <1>2, <1>3, <1>4, <1>5, <1>6, <1>7, <1>8, NextCases, Zenon

-----------------------------------------------------------------------------
(* Temporary files are left alone.                                         *)

\* No link in the destination gives a temporary file that a sweep reaches the
\* content of another file.
ReachedTempsUnlinked == \A n \in Names : SameFile[n] \cap (Temps \ Unreached) \subseteq {n}

SyncInv == Typed /\ ListedSound /\ PlanSound /\ TempSound

\* What is transferred is a file of the source, or a temporary one that no sweep
\* reaches.
LEMMA TransferredFacts ==
    ASSUME SyncInv, NEW n \in Names, phase = "execute", plan[n] = "Transfer",
           n \in Tree("source")
    PROVE  n \in source \/ n \in Unreached
<1>1. CASE n \in Temps \ Unreached
  <2>1. n \notin source
    BY <1>1 DEF SyncInv, Typed, TreesOK
  <2>2. temp[n].state = "gone"
    BY <1>1 DEF SyncInv, TempSound
  <2> QED
    BY <2>1, <2>2, SMT DEF Tree, TempsAt
<1>2. CASE n \in Paths
  BY <1>2 DEF SyncInv, PlanSound
<1> QED
  BY <1>1, <1>2 DEF Names

\* SyncInv is inductive.
LEMMA SyncInvariant ==
    /\ Init => SyncInv
    /\ SyncInv /\ [Next]_vars => SyncInv'
<1>1. Init => SyncInv
  BY InitTyped, InitSound DEF SyncInv
<1>2. ASSUME SyncInv, [Next]_vars PROVE SyncInv'
  BY <1>2, StepTyped, ListedStep, PlanStep, TempStep DEF SyncInv
<1> QED
  BY <1>1, <1>2

\* How the destination changes: only execution changes it, and names join it by
\* a transfer of what TransferredFacts describes and leave it by a planned deletion.
LEMMA DestSteps ==
    ASSUME SyncInv, [Next]_vars
    PROVE  \/ UNCHANGED dest
           \/ \E n \in Names :
                 /\ phase = "execute" /\ phase' = "execute" /\ ~config.dry_run /\ Done(n)
                 /\ \/ /\ plan[n] = "Transfer" /\ n \in source \cup Unreached
                       /\ dest' = dest \cup NamesAtDest(n)
                    \/ /\ plan[n] = "Delete"
                       /\ dest' = dest \ NamesAtDest(n)
<1> USE DEF listVars, treeVars
<1>1. ASSUME NEW n \in Names, Transfer(n) \/ TransferFails(n)
      PROVE  \/ UNCHANGED dest
             \/ /\ phase = "execute" /\ phase' = "execute" /\ ~config.dry_run /\ Done(n)
                /\ plan[n] = "Transfer" /\ n \in source \cup Unreached
                /\ dest' = dest \cup NamesAtDest(n)
  BY <1>1, TransferredFacts, Zenon DEF Transfer, TransferFails
<1>2. ASSUME NEW n \in Names, DeleteOrphan(n) \/ DeleteFails(n)
      PROVE  \/ UNCHANGED dest
             \/ /\ phase = "execute" /\ phase' = "execute" /\ ~config.dry_run /\ Done(n)
                /\ plan[n] = "Delete"
                /\ dest' = dest \ NamesAtDest(n)
  BY <1>2, Zenon DEF DeleteOrphan, DeleteFails, Remove
<1>3. ASSUME Sweep \/ Decide \/ Resweep \/ Return \/ Cancel \/ \E s \in Sides : List(s)
      PROVE  UNCHANGED dest
  BY <1>3, Zenon DEF Sweep, Decide, Resweep, Return, Cancel, List, GoTo, Refuse
<1>4. ASSUME UNCHANGED vars \/ \E t \in Temps : OtherRun(t)
      PROVE  UNCHANGED dest
  BY <1>4, Zenon DEF vars, OtherRun
<1> QED
  BY <1>1, <1>2, <1>3, <1>4, NextCases, Zenon

(***************************************************************************)
(* The temporary file of another sync is never transferred as data nor     *)
(* removed while its owner lives, for every number of other syncs and at   *)
(* whatever moment they create, rename or abandon it: the sweep before the *)
(* listings does not settle this, the one after them does.                 *)
(***************************************************************************)
THEOREM TempsAreRespected ==
    ASSUME ReachedTempsUnlinked
    PROVE  Spec => []TempsRespected
<1> DEFINE Out == \A t \in Temps \ Unreached : t \notin dest
<1>1. Init => SyncInv /\ Out
  <2> SUFFICES ASSUME Init PROVE Out
    BY SyncInvariant
  <2>1. dest \subseteq Paths
    BY DEF Init
  <2> QED
    BY <2>1
<1>2. ASSUME SyncInv, Out, [Next]_vars PROVE SyncInv' /\ Out'
  <2>1. SyncInv'
    BY <1>2, SyncInvariant
  <2>2. CASE UNCHANGED dest
    BY <1>2, <2>1, <2>2
  <2>3. ASSUME NEW n \in Names, n \in source \cup Unreached, dest' = dest \cup NamesAtDest(n)
        PROVE  Out'
    <3>1. n \notin Temps \ Unreached
      BY <1>2, <2>3 DEF SyncInv, Typed, TreesOK
    <3>2. NamesAtDest(n) \cap (Temps \ Unreached) = {}
      BY <3>1 DEF NamesAtDest, ReachedTempsUnlinked
    <3> QED
      BY <1>2, <2>3, <3>2
  <2>4. ASSUME NEW n, dest' = dest \ NamesAtDest(n)
        PROVE  Out'
    BY <1>2, <2>4
  <2> QED
    BY <1>2, <2>1, <2>2, <2>3, <2>4, DestSteps
<1>3. SyncInv /\ Out => TempsRespected
  BY DEF SyncInv, TempSound, TempsRespected
<1> QED
  BY <1>1, <1>2, <1>3, PTL DEF Spec

-----------------------------------------------------------------------------
(* Deletions and success, where no file of the destination has two names.  *)

\* No file at the destination has two names.
NoLinks == \A n \in Names : SameFile[n] = {n}

\* Without links a name is the only one of its file.
LEMMA OneName ==
    ASSUME NoLinks, NEW n \in Names PROVE NamesAtDest(n) = {n}
  BY DEF NoLinks, NamesAtDest

(***************************************************************************)
(* Whatever the listings left out, whenever the run is cancelled and       *)
(* whatever fails, a file lost at the destination was no file of the       *)
(* source, and --delete asked for it.  Run sync_run_alias shows that       *)
(* NoLinks is needed.                                                      *)
(***************************************************************************)
THEOREM OnlyOrphansAreDeleted ==
    ASSUME NoLinks
    PROVE  Spec => []OnlyOrphansDeleted
<1>1. Init => SyncInv /\ OnlyOrphansDeleted
  BY SyncInvariant DEF Init, OnlyOrphansDeleted
<1>2. ASSUME SyncInv, OnlyOrphansDeleted, [Next]_vars PROVE SyncInv' /\ OnlyOrphansDeleted'
  <2>1. SyncInv'
    BY <1>2, SyncInvariant
  <2>2. UNCHANGED <<config, source, original>>
    <3>1. CASE Decide
      BY <3>1, Zenon DEF Decide, Refuse, treeVars
    <3>2. CASE \E s \in Sides : List(s)
      BY <3>2, Zenon DEF List, treeVars
    <3>3. CASE ~Decide /\ \A s \in Sides : ~List(s)
      BY <1>2, <3>3, QuietSteps DEF SyncInv
    <3> QED
      BY <3>1, <3>2, <3>3
  <2>3. CASE UNCHANGED dest
    BY <1>2, <2>1, <2>2, <2>3 DEF OnlyOrphansDeleted
  <2>4. ASSUME NEW n \in Names, dest' = dest \cup NamesAtDest(n)
        PROVE  OnlyOrphansDeleted'
    BY <1>2, <2>2, <2>4 DEF OnlyOrphansDeleted
  <2>5. ASSUME NEW n \in Names, plan[n] = "Delete", ~config.dry_run,
               dest' = dest \ NamesAtDest(n)
        PROVE  OnlyOrphansDeleted'
    <3>1. dest' = dest \ {n}
      BY <2>5, OneName
    <3>2. n \notin source /\ config.delete_orphans
      BY <1>2, <2>5 DEF SyncInv, PlanSound
    <3> QED
      BY <1>2, <2>2, <2>5, <3>1, <3>2 DEF OnlyOrphansDeleted
  <2> QED
    BY <1>2, <2>1, <2>3, <2>4, <2>5, DestSteps
<1> QED
  BY <1>1, <1>2, PTL DEF Spec

\* Success is reported by Return alone.
LEMMA SuccessStep ==
    ASSUME Typed, SuccessSound, [Next]_vars
    PROVE  SuccessSound'
<1> USE DEF listVars, treeVars
<1>1. CASE Return
  <2>1. /\ phase' = "returned" /\ success' = (~cancelled /\ failed = 0)
        /\ UNCHANGED <<config, plan, failed, cancelled>>
        /\ config.dry_run \/ cancelled \/ \A n \in Names : plan[n] = "None"
    BY <1>1, Zenon DEF Return
  <2> QED
    BY <2>1, Zenon DEF SuccessSound
<1>2. CASE Sweep
  BY <1>2, SMT DEF Sweep, GoTo, Refuse, SuccessSound
<1>3. CASE Resweep
  BY <1>3, SMT DEF Resweep, GoTo, Refuse, SuccessSound
<1>4. CASE Decide
  BY <1>4, SMT DEF Decide, Refuse, SuccessSound
<1>5. CASE Cancel
  BY <1>5, SMT DEF Cancel, SuccessSound
<1>6. ASSUME (\E s \in Sides : List(s)) \/ (\E t \in Temps : OtherRun(t)) PROVE phase' # "returned"
  BY <1>6, SMT DEF List, OtherRun
<1>7. ASSUME NEW n \in Names, Transfer(n) \/ TransferFails(n) \/ DeleteOrphan(n) \/ DeleteFails(n)
      PROVE  phase' # "returned"
  BY <1>7, SMT DEF Transfer, TransferFails, DeleteOrphan, DeleteFails
<1>8. CASE UNCHANGED vars
  BY <1>8, Zenon DEF vars, SuccessSound
<1>9. ASSUME phase' # "returned" PROVE SuccessSound'
  BY <1>9 DEF SuccessSound
<1> QED
  BY <1>1, <1>2, <1>3, <1>4, <1>5, <1>6, <1>7, <1>8, <1>9, NextCases, Zenon

\* A step that leaves what the mirror depends on alone.
LEMMA MirrorFrame ==
    ASSUME MirrorPlanned, UNCHANGED <<config, source, dest, listed, plan, failed, cancelled>>,
           phase \in {"resweep", "execute"}
    PROVE  MirrorPlanned'
  BY Zenon DEF MirrorPlanned, MissingPlanned, OrphansPlanned, Seen

\* As long as nothing fails the plan makes up for what the destination lacks and
\* for what it has too much.
LEMMA MirrorStep ==
    ASSUME NoLinks, SyncInv, MirrorPlanned, [Next]_vars
    PROVE  MirrorPlanned'
<1> USE DEF listVars, treeVars
<1>0. Typed /\ ListedSound /\ PlanSound
  BY DEF SyncInv
<1>v. ASSUME \/ phase' \notin {"resweep", "execute", "returned"}
             \/ phase' = "returned" /\ ~success'
             \/ cancelled'
      PROVE  MirrorPlanned'
  BY <1>v DEF MirrorPlanned
<1>1. CASE Sweep \/ \E s \in Sides : List(s)
  BY <1>1, <1>v, SMT DEF Sweep, GoTo, Refuse, List
<1>2. CASE Decide
  <2>1. CASE cancelled \/ ~enumeration_ok
    BY <1>2, <2>1, <1>v, Zenon DEF Decide, Refuse
  <2>2. CASE ~(cancelled \/ ~enumeration_ok)
    <3>1. plan' = Classify /\ UNCHANGED <<config, source, dest, listed>>
      BY <1>2, <2>2, Zenon DEF Decide
    <3>2. dest = original
      BY <1>0, <1>2 DEF Typed, NothingDone, Decide
    <3>3. /\ \A p \in source : p \in original \/ Classify[p] = "Transfer"
          /\ config.delete_orphans =>
                \A p \in original : Seen(p) => p \in source \/ Classify[p] = "Delete"
      BY <1>0, <2>2, ClassifySound
    <3>4. MissingPlanned' /\ OrphansPlanned'
      BY <3>1, <3>2, <3>3, Zenon DEF MissingPlanned, OrphansPlanned, Seen
    <3> QED
      BY <3>4 DEF MirrorPlanned
  <2> QED
    BY <2>1, <2>2
<1>3. CASE Resweep
  <2>1. CASE Refuse
    BY <2>1, <1>v, Zenon DEF Refuse
  <2>2. CASE GoTo("execute")
    BY <1>3, <2>2, MirrorFrame, Zenon DEF Resweep, GoTo
  <2> QED
    BY <1>3, <2>1, <2>2, Zenon DEF Resweep
<1>4. CASE Return
  BY <1>4, MirrorFrame, Zenon DEF Return
<1>5. CASE Cancel
  BY <1>5, <1>v, Zenon DEF Cancel
<1>6. CASE UNCHANGED vars \/ \E t \in Temps : OtherRun(t)
  <2>1. UNCHANGED <<phase, success, config, source, dest, listed, plan, failed, cancelled>>
    BY <1>6, Zenon DEF vars, OtherRun
  <2> QED
    BY <2>1, Zenon DEF MirrorPlanned, MissingPlanned, OrphansPlanned, Seen
<1>7. ASSUME NEW n \in Names, Transfer(n)
      PROVE  MirrorPlanned'
  <2>1. /\ phase = "execute" /\ plan[n] = "Transfer" /\ n \in Tree("source")
        /\ dest' = dest \cup NamesAtDest(n) /\ Done(n)
        /\ UNCHANGED <<phase, config, source, listed, failed, cancelled, success>>
    BY <1>7, Zenon DEF Transfer
  <2>2. n \in source \cup Unreached
    BY <2>1, TransferredFacts
  <2>3. dest' = dest \cup {n}
    BY <2>1, OneName
  <2>4. /\ plan'[n] = "None" /\ \A m \in Names \ {n} : plan'[m] = plan[m]
    BY <1>0, <2>1, DoneShrinks DEF Typed
  <2>5. dest \subseteq Names /\ source \subseteq Names
    BY <1>0 DEF Typed, TreesOK, Names
  <2>6. MissingPlanned => MissingPlanned'
    BY <2>1, <2>3, <2>4, <2>5 DEF MissingPlanned
  <2>7. OrphansPlanned => OrphansPlanned'
    BY <2>1, <2>2, <2>3, <2>4, <2>5 DEF OrphansPlanned, Seen
  <2> QED
    BY <2>1, <2>6, <2>7, Zenon DEF MirrorPlanned
<1>8. ASSUME NEW n \in Names, DeleteOrphan(n)
      PROVE  MirrorPlanned'
  <2>1. /\ phase = "execute" /\ plan[n] = "Delete"
        /\ dest' = dest \ NamesAtDest(n) /\ Done(n)
        /\ UNCHANGED <<phase, config, source, listed, failed, cancelled, success>>
    BY <1>8, Zenon DEF DeleteOrphan, Remove
  <2>2. n \notin source
    BY <1>0, <2>1 DEF PlanSound
  <2>3. dest' = dest \ {n}
    BY <2>1, OneName
  <2>4. /\ plan'[n] = "None" /\ \A m \in Names \ {n} : plan'[m] = plan[m]
    BY <1>0, <2>1, DoneShrinks DEF Typed
  <2>5. dest \subseteq Names /\ source \subseteq Names
    BY <1>0 DEF Typed, TreesOK, Names
  <2>6. MissingPlanned => MissingPlanned'
    BY <2>1, <2>2, <2>3, <2>4, <2>5 DEF MissingPlanned
  <2>7. OrphansPlanned => OrphansPlanned'
    BY <2>1, <2>3, <2>4, <2>5 DEF OrphansPlanned, Seen
  <2> QED
    BY <2>1, <2>6, <2>7, Zenon DEF MirrorPlanned
<1>9. ASSUME NEW n \in Names, TransferFails(n) \/ DeleteFails(n)
      PROVE  MirrorPlanned'
  <2>1. CountFailure /\ UNCHANGED cancelled
    BY <1>9, Zenon DEF TransferFails, DeleteFails
  <2>2. CASE cancelled
    BY <2>1, <2>2, <1>v
  <2>3. CASE ~cancelled
    <3>1. failed' = failed + 1
      BY <2>1, <2>3, Zenon DEF CountFailure
    <3>2. failed' # 0
      BY <1>0, <3>1, SMT DEF Typed, FailuresBounded
    <3> QED
      BY <3>2 DEF MirrorPlanned
  <2> QED
    BY <2>2, <2>3
<1> QED
  BY <1>1, <1>2, <1>3, <1>4, <1>5, <1>6, <1>7, <1>8, <1>9, NextCases, Zenon

(***************************************************************************)
(* A run that reports success has put every file of the source at the      *)
(* destination and, with --delete, left nothing there that was listed and  *)
(* is not at the source, nor anything else that is not when its listing of *)
(* the destination was exact: no interleaving of transfers, deletions,     *)
(* failures and a cancellation makes a run that fell short report success. *)
(***************************************************************************)
THEOREM SuccessIsAMirror ==
    ASSUME NoLinks
    PROVE  Spec => []SuccessMeansMirrored
<1> DEFINE Inv == SyncInv /\ SuccessSound /\ MirrorPlanned
<1>1. Init => Inv
  BY SyncInvariant, InitSound
<1>2. ASSUME Inv, [Next]_vars PROVE Inv'
  <2>1. Typed
    BY <1>2 DEF SyncInv
  <2> QED
    BY <1>2, <2>1, SyncInvariant, SuccessStep, MirrorStep
<1>3. ASSUME Inv PROVE SuccessMeansMirrored
  <2> SUFFICES ASSUME phase = "returned", success, ~config.dry_run
               PROVE  /\ source \subseteq dest
                      /\ config.delete_orphans =>
                            \A n \in dest \ Unreached : Seen(n) => n \in source
    BY DEF SuccessMeansMirrored, Seen
  <2>1. failed = 0 /\ ~cancelled /\ \A n \in Names : plan[n] = "None"
    BY <1>3, Zenon DEF SuccessSound
  <2>2. MissingPlanned /\ OrphansPlanned
    BY <1>3, <2>1, Zenon DEF MirrorPlanned
  <2>3. dest \subseteq Names /\ source \subseteq Names
    BY <1>3 DEF SyncInv, Typed, TreesOK, Names
  <2> QED
    BY <2>1, <2>2, <2>3 DEF MissingPlanned, OrphansPlanned, Seen
<1> QED
  BY <1>1, <1>2, <1>3, PTL DEF Spec
================================================================================

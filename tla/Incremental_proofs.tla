------------------------- MODULE Incremental_proofs -------------------------
(***************************************************************************)
(* Proofs about Incremental, for any documents, facts, sections, kinds and *)
(* inboxes, any number of runs and restarts, and any versions of the       *)
(* composer.                                                               *)
(***************************************************************************)
EXTENDS Incremental, WellFoundedInduction, TLAPS

(***************************************************************************)
(* The inductive invariant.  A run's sections are exactly what its plan    *)
(* makes of its own facts and of a previous run that is completed, and     *)
(* therefore frozen.  What the dependency map says about those facts can   *)
(* only be relied on while runs do not overlap: the second part.           *)
(***************************************************************************)
HasPlan(r) == phase[r] \in {"planned", "deleted"} \/ Composed(r)

Kept(r) == Desired(r) \ plan[r].rederive

\* The transaction that decided looked at every document of the run.
PlansCoverTheDocuments ==
  \A r \in Run : HasPlan(r) => plan[r].kinds \in [docs[r] -> Kind]

StartedInOrder ==
  \A q, r \in Run : q < r /\ phase[r] # "none" => phase[q] # "none"

\* A previous run is an earlier, completed one.
ParentIsFinal ==
  \A r \in Run :
    parent[r] # NoRun => parent[r] < r /\ phase[parent[r]] = "completed"

\* What is kept exists in the previous run, by the composer of the plan.
KeptIsThere ==
  \A r \in Run : HasPlan(r) =>
    \A s \in Kept(r) :
      /\ parent[r] # NoRun
      /\ Exists(versions[parent[r]][s])
      /\ versions[parent[r]][s].ver = plan[r].ver

ComposedAsPlanned == \A r \in Run : Composed(r) => versions[r] = Written(r)

RegisterInv ==
  /\ TypeOK
  /\ PlansCoverTheDocuments
  /\ StartedInOrder
  /\ ParentIsFinal
  /\ KeptIsThere
  /\ ComposedAsPlanned

\* The newest register, once no run overlaps another.
Newest(r) == Composed(r) /\ \A q \in Run : Composed(q) => q <= r

OneAtATime ==
  /\ \A q, r \in Run : Open(q) /\ Open(r) => q = r
  /\ \A r \in Run : phase[r] # "failed"

\* A run that has not composed follows every run that has.
ParentIsNewest ==
  \A r \in Run : Open(r) /\ ~Composed(r) =>
    \A q \in Run : Composed(q) => parent[r] # NoRun /\ q <= parent[r]

\* The dependency map describes the newest register.
MapIsCurrent ==
  \A r \in Run, s \in Section :
    Newest(r) /\ s \in Desired(r) => Recorded(s) = Contributing(r, s)

\* What is kept has the facts it had in the previous run.
KeptIsUnchanged ==
  \A r \in Run : HasPlan(r) =>
    \A s \in Kept(r) :
      versions[parent[r]][s].facts = Contributing(r, s)

\* What is composed again had to be.
RederivedForAReason ==
  \A r \in Run : HasPlan(r) =>
    \A s \in plan[r].rederive :
      ~ (/\ parent[r] # NoRun
         /\ Exists(versions[parent[r]][s])
         /\ versions[parent[r]][s].facts = Contributing(r, s)
         /\ versions[parent[r]][s].ver = plan[r].ver)

MapIsCurrentForPlan ==
  \A r \in Run : phase[r] \in {"planned", "deleted"} =>
    /\ \A s \in Kept(r) : Recorded(s) = Contributing(r, s)
    /\ phase[r] = "deleted" => plan[r].doomed = Doomed(r)

SerialInv ==
  ~disturbed =>
    /\ OneAtATime
    /\ ParentIsNewest
    /\ MapIsCurrent
    /\ KeptIsUnchanged
    /\ RederivedForAReason
    /\ MapIsCurrentForPlan

IInv == RegisterInv /\ SerialInv

-----------------------------------------------------------------------------
\* Of any runs, one is the newest.
LEMMA NewestExists ==
  ASSUME NEW C \in SUBSET Run, C # {}
  PROVE  \E r \in C : \A q \in C : q <= r
<1> DEFINE T == {MaxRuns - r : r \in C}
<1>0. \A r \in C : r \in Nat /\ MaxRuns - r \in Nat
  BY BoundAssumption DEF Run
<1>1. T \subseteq Nat /\ T # {}
  BY <1>0
<1>2. PICK x \in T : \A y \in T : ~ (<<y, x>> \in OpToRel(<, Nat))
  <2> HIDE DEF T
  <2> QED
    BY <1>1, NatLessThanWellFounded, WFMin
<1>3. \A y \in T : ~(y < x)
  <2>1. \A y \in T : y < x => <<y, x>> \in OpToRel(<, Nat)
    BY <1>1, <1>2 DEF OpToRel
  <2> QED
    BY <1>2, <2>1
<1>4. PICK r \in C : x = MaxRuns - r
  BY <1>2
<1>5. ASSUME NEW q \in C PROVE q <= r
  <2>1. ~(MaxRuns - q < MaxRuns - r)
    BY <1>3, <1>4
  <2> QED
    BY <1>0, <2>1, BoundAssumption
<1> QED
  BY <1>5

LEMMA PreviousRunIsNewest ==
  /\ PreviousRun \in Run \cup {NoRun}
  /\ PreviousRun # NoRun => phase[PreviousRun] = "completed"
  /\ \A q \in Run : phase[q] = "completed" => PreviousRun # NoRun /\ q <= PreviousRun
<1>1. CASE CompletedRuns = {}
  BY <1>1 DEF PreviousRun, CompletedRuns
<1>2. CASE CompletedRuns # {}
  <2>1. \E r \in CompletedRuns : \A q \in CompletedRuns : q <= r
    BY <1>2, NewestExists DEF CompletedRuns
  <2>2. /\ PreviousRun \in CompletedRuns
        /\ \A q \in CompletedRuns : q <= PreviousRun
    BY <1>2, <2>1 DEF PreviousRun
  <2>3. NoRun \notin Run
    BY DEF NoRun, Run
  <2> QED
    BY <2>2, <2>3 DEF CompletedRuns
<1> QED
  BY <1>1, <1>2

-----------------------------------------------------------------------------
(***************************************************************************)
(* Types.                                                                  *)
(***************************************************************************)
LEMMA KindMapMember ==
  ASSUME NEW D \in SUBSET Doc, NEW m \in [D -> Kind]
  PROVE  m \in KindMap
BY DEF KindMap

LEMMA EmptyTypes == NoPlan \in Plan /\ Missing \in Version
<1>1. [d \in {} |-> "unknown"] \in [{} -> Kind]
  OBVIOUS
<1>2. [d \in {} |-> "unknown"] \in KindMap
  BY <1>1, KindMapMember
<1>3. 0 \in 0..MaxComposer
  BY BoundAssumption
<1> QED
  BY <1>2, <1>3 DEF NoPlan, Plan, Missing, Version, Spelling

\* A section composed anew is a version, about the facts of its run.
LEMMA FreshType ==
  ASSUME TypeOK, NEW r \in Run, NEW s \in Section,
         plan[r].kinds \in [docs[r] -> Kind]
  PROVE  /\ Fresh(r, s) \in Version
         /\ Fresh(r, s).facts = Contributing(r, s)
         /\ Fresh(r, s).ver = plan[r].ver
         /\ Fresh(r, s).carried = FALSE
<1> DEFINE F == Contributing(r, s)
           K == [d \in {DocOf[f] : f \in F} |-> plan[r].kinds[d]]
<1>1. F \subseteq Fact /\ {DocOf[f] : f \in F} \subseteq docs[r]
  BY DEF Contributing, FactsOf
<1>2. docs[r] \subseteq Doc /\ plan[r].ver \in 0..MaxComposer
  BY DEF TypeOK, Plan
<1>3. K \in [{DocOf[f] : f \in F} -> Kind]
  BY <1>1
<1>4. K \in KindMap
  BY <1>1, <1>2, <1>3, KindMapMember
<1>5. DisplayName(FactsOf(r), plan[r].kinds) \in Spelling
  BY DEF DisplayName, Spelling
<1> QED
  BY <1>1, <1>2, <1>4, <1>5 DEF Fresh, Version

LEMMA CopyType ==
  ASSUME NEW r \in Run, NEW v \in Version
  PROVE  /\ CopyOf(r, v) \in Version
         /\ CopyOf(r, v).facts = v.facts
         /\ CopyOf(r, v).ver = v.ver
         /\ CopyOf(r, v).carried = TRUE
BY DEF CopyOf, Version

LEMMA WrittenType ==
  ASSUME RegisterInv, NEW r \in Run, HasPlan(r)
  PROVE  Written(r) \in [Section -> Version]
<1> SUFFICES ASSUME NEW s \in Section PROVE Written(r)[s] \in Version
  BY DEF Written
<1>1. CASE s \notin Desired(r)
  BY <1>1, EmptyTypes DEF Written
<1>2. CASE s \in plan[r].rederive /\ s \in Desired(r)
  BY <1>2, FreshType DEF Written, RegisterInv, PlansCoverTheDocuments
<1>3. CASE s \in Kept(r)
  <2>1. parent[r] \in Run
    BY <1>3 DEF RegisterInv, KeptIsThere, TypeOK
  <2>2. versions[parent[r]][s] \in Version
    BY <2>1 DEF RegisterInv, TypeOK
  <2> QED
    BY <1>3, <2>2, CopyType DEF Written, Kept
<1> QED
  BY <1>1, <1>2, <1>3 DEF Kept

LEMMA SeenKindType ==
  ASSUME TypeOK, NEW r \in Run
  PROVE  [d \in docs[r] |-> SeenKind(d)] \in [docs[r] -> Kind]
BY DataAssumption DEF TypeOK, SeenKind

LEMMA TypeInit == Init => TypeOK
<1> SUFFICES ASSUME Init PROVE TypeOK
  OBVIOUS
<1>1. /\ phase \in [Run -> Phase]
      /\ docs \in [Run -> SUBSET Doc]
      /\ asked \in [Run -> SUBSET Doc]
      /\ parent \in [Run -> Run \cup {NoRun}]
  BY DEF Init, Phase
<1>2. plan \in [Run -> Plan] /\ versions \in [Run -> [Section -> Version]]
  BY EmptyTypes DEF Init
<1>3. kind \in [Doc -> Kind \cup {Unset}] /\ deps \subseteq Edge
  BY DEF Init
<1>4. composer \in 1..MaxComposer /\ crashes \in Nat
  BY BoundAssumption DEF Init
<1>5. disturbed \in BOOLEAN
  BY DEF Init
<1> QED
  BY <1>1, <1>2, <1>3, <1>4, <1>5 DEF TypeOK

LEMMA TypeStep == RegisterInv /\ [Next]_vars => TypeOK'
<1> SUFFICES ASSUME RegisterInv, [Next]_vars PROVE TypeOK'
  OBVIOUS
<1>0. TypeOK
  BY DEF RegisterInv
<1> USE DEF docTable, Goes
<1>1. ASSUME NEW r \in Run, NEW D \in Inbox, StartRun(r, D) PROVE TypeOK'
  <2>1. D \in SUBSET Doc
    BY DataAssumption
  <2>2. disturbed' \in BOOLEAN
    BY <1>1 DEF StartRun
  <2> QED
    BY <1>0, <1>1, <2>1, <2>2, PreviousRunIsNewest DEF StartRun, TypeOK, Phase
<1>2. ASSUME NEW r \in Run, Classify(r) PROVE TypeOK'
  <2>1. kind' \in [Doc -> Kind \cup {Unset}]
    BY <1>0, <1>2 DEF Classify, TypeOK
  <2>2. asked' \in [Run -> SUBSET Doc] /\ phase' \in [Run -> Phase]
    BY <1>0, <1>2 DEF Classify, TypeOK, Phase
  <2> QED
    BY <1>0, <1>2, <2>1, <2>2 DEF Classify, TypeOK
<1>3. ASSUME NEW r \in Run, Escalate(r) PROVE TypeOK'
  BY <1>0, <1>3 DEF Escalate, TypeOK, Phase
<1>4. ASSUME NEW r \in Run, ComposePlan(r) PROVE TypeOK'
  <2>1. [d \in docs[r] |-> SeenKind(d)] \in KindMap
    BY <1>0, SeenKindType, KindMapMember DEF TypeOK
  <2>2. {s \in Desired(r) : MustRederive(r, s)} \subseteq Section
    BY DEF Desired
  <2>3. composer \in 0..MaxComposer
    BY <1>0 DEF TypeOK
  <2>4. plan' \in [Run -> Plan]
    BY <1>0, <1>4, <2>1, <2>2, <2>3 DEF ComposePlan, TypeOK, Plan
  <2> QED
    BY <1>0, <1>4, <2>4 DEF ComposePlan, TypeOK, Phase
<1>5. ASSUME NEW r \in Run, ComposeDelete(r) PROVE TypeOK'
  <2>1. plan' \in [Run -> Plan]
    BY <1>0, <1>5 DEF ComposeDelete, Doomed, TypeOK, Plan
  <2> QED
    BY <1>0, <1>5, <2>1 DEF ComposeDelete, TypeOK, Phase
<1>6. ASSUME NEW r \in Run, ComposeCommit(r) PROVE TypeOK'
  <2>1. Written(r) \in [Section -> Version]
    BY <1>6, WrittenType DEF ComposeCommit, HasPlan
  <2>2. plan' \in [Run -> Plan]
    BY <1>0, <1>6 DEF ComposeCommit, TypeOK, Plan
  <2>3. NewEdges(r) \subseteq Edge
    BY <1>0 DEF NewEdges, Edge, TypeOK, Plan, FactsOf
  <2>4. deps' \subseteq Edge
    BY <1>0, <1>6, <2>3 DEF ComposeCommit, Insert, TypeOK
  <2> QED
    BY <1>0, <1>6, <2>1, <2>2, <2>4 DEF ComposeCommit, TypeOK, Phase
<1>7. ASSUME NEW r \in Run, Checkpoint(r) PROVE TypeOK'
  BY <1>0, <1>7 DEF Checkpoint, TypeOK, Phase
<1>8. ASSUME NEW r \in Run, Finish(r) PROVE TypeOK'
  BY <1>0, <1>8 DEF Finish, TypeOK, Phase
<1>9. ASSUME Restart PROVE TypeOK'
  <2>1. phase' \in [Run -> Phase]
    BY <1>0, <1>9 DEF Restart, TypeOK, Phase
  <2>2. composer' \in 1..MaxComposer /\ crashes' \in Nat
    BY <1>0, <1>9, BoundAssumption DEF Restart, TypeOK
  <2>3. disturbed' \in BOOLEAN
    BY <1>9 DEF Restart
  <2> QED
    BY <1>0, <1>9, <2>1, <2>2, <2>3 DEF Restart, TypeOK
<1>10. ASSUME UNCHANGED vars PROVE TypeOK'
  BY <1>0, <1>10 DEF vars, TypeOK
<1> QED
  BY <1>1, <1>2, <1>3, <1>4, <1>5, <1>6, <1>7, <1>8, <1>9, <1>10
     DEF Next, Compose

-----------------------------------------------------------------------------
(***************************************************************************)
(* What a step leaves alone.                                               *)
(***************************************************************************)

\* A completed run is never touched again.
LEMMA CompletedIsFrozen ==
  ASSUME TypeOK, [Next]_vars, NEW q \in Run, phase[q] = "completed"
  PROVE  versions'[q] = versions[q] /\ phase'[q] = "completed"
BY DEF Next, vars, TypeOK, StartRun, Classify, Escalate, Compose, ComposePlan,
       ComposeDelete, ComposeCommit, Checkpoint, Finish, Restart, Goes

\* What a run was given is its own for good.
LEMMA GivenStays ==
  ASSUME TypeOK, [Next]_vars, NEW r \in Run, phase[r] # "none"
  PROVE  /\ docs'[r] = docs[r] /\ parent'[r] = parent[r]
         /\ phase'[r] # "none"
BY DEF Next, vars, TypeOK, StartRun, Classify, Escalate, Compose, ComposePlan,
       ComposeDelete, ComposeCommit, Checkpoint, Finish, Restart, Goes, docTable

\* A decided plan stays decided, but for what it deletes.
LEMMA PlanStays ==
  ASSUME TypeOK, [Next]_vars, NEW r \in Run, HasPlan(r)
  PROVE  /\ plan'[r].rederive = plan[r].rederive
         /\ plan'[r].kinds = plan[r].kinds
         /\ plan'[r].ver = plan[r].ver
<1>1. plan[r] \in Plan
  BY DEF TypeOK
<1>2. ASSUME NEW q \in Run, ComposePlan(q)
      PROVE  plan'[r] = plan[r]
  BY <1>2 DEF ComposePlan, HasPlan, Composed, TypeOK
<1>3. ASSUME NEW q \in Run, ComposeDelete(q) \/ ComposeCommit(q)
      PROVE  /\ plan'[r].rederive = plan[r].rederive
             /\ plan'[r].kinds = plan[r].kinds
             /\ plan'[r].ver = plan[r].ver
  <2>1. plan \in [Run -> Plan]
    BY DEF TypeOK
  <2>2. CASE q = r
    <3>1. \/ plan' = [plan EXCEPT ![r].doomed = Doomed(r)]
          \/ plan' = [plan EXCEPT ![r].doomed = {}]
      BY <1>3, <2>2 DEF ComposeDelete, ComposeCommit
    <3> QED
      BY <1>1, <2>1, <3>1 DEF Plan
  <2>3. CASE q # r
    BY <1>3, <2>1, <2>3 DEF ComposeDelete, ComposeCommit
  <2> QED
    BY <2>2, <2>3
<1>4. ASSUME UNCHANGED plan
      PROVE  plan'[r] = plan[r]
  BY <1>4
<1> QED
  BY <1>1, <1>2, <1>3, <1>4
     DEF Next, vars, StartRun, Classify, Escalate, Compose, Checkpoint, Finish,
         Restart, Plan

LEMMA PlanArises ==
  ASSUME TypeOK, [Next]_vars, NEW r \in Run, ~HasPlan(r), HasPlan(r)'
  PROVE  ComposePlan(r)
<1>1. ASSUME NEW q \in Run, q # r, \/ Compose(q) \/ Checkpoint(q) \/ Finish(q)
      PROVE  FALSE
  BY <1>1 DEF Compose, ComposePlan, ComposeDelete, ComposeCommit, Checkpoint,
              Finish, HasPlan, Composed, Goes, TypeOK
<1>2. ASSUME NEW q \in Run, NEW D \in Inbox,
             StartRun(q, D)
      PROVE  FALSE
  BY <1>2 DEF StartRun, HasPlan, Composed, Goes, TypeOK
<1>3. ASSUME Restart \/ UNCHANGED vars PROVE FALSE
  BY <1>3 DEF Restart, vars, HasPlan, Composed, TypeOK
<1>4. ASSUME ComposeDelete(r) \/ ComposeCommit(r) \/ Checkpoint(r) \/ Finish(r)
      PROVE  FALSE
  BY <1>4 DEF ComposeDelete, ComposeCommit, Checkpoint, Finish, HasPlan, Composed
<1>5. ASSUME NEW q \in Run, Classify(q) \/ Escalate(q)
      PROVE  FALSE
  BY <1>5 DEF Classify, Escalate, HasPlan, Composed, Goes, TypeOK
<1> QED
  BY <1>1, <1>2, <1>3, <1>4, <1>5 DEF Next, Compose

LEMMA ComposedArises ==
  ASSUME TypeOK, [Next]_vars, NEW r \in Run, ~Composed(r), Composed(r)'
  PROVE  ComposeCommit(r)
BY DEF Composed, Next, vars, TypeOK, StartRun, Classify, Escalate,
       Compose, ComposePlan, ComposeDelete, ComposeCommit, Checkpoint, Finish,
       Restart, Goes

LEMMA ComposedStays ==
  ASSUME TypeOK, [Next]_vars, NEW r \in Run, Composed(r)
  PROVE  versions'[r] = versions[r]
BY DEF Composed, Next, vars, TypeOK, StartRun, Classify, Escalate,
       Compose, ComposePlan, ComposeDelete, ComposeCommit, Checkpoint, Finish,
       Restart, Goes

\* What a run is about depends on its documents alone.
LEMMA SubjectStays ==
  ASSUME NEW r \in Run, docs'[r] = docs[r]
  PROVE  /\ FactsOf(r)' = FactsOf(r)
         /\ Desired(r)' = Desired(r)
         /\ \A s \in Section : Contributing(r, s)' = Contributing(r, s)
BY DEF FactsOf, Desired, Contributing

LEMMA ParentStays ==
  ASSUME RegisterInv, [Next]_vars, NEW r \in Run, HasPlan(r), parent[r] # NoRun
  PROVE  versions'[parent[r]] = versions[parent[r]]
<1>1. TypeOK /\ parent[r] \in Run /\ phase[parent[r]] = "completed"
  BY DEF RegisterInv, TypeOK, ParentIsFinal
<1> QED
  BY <1>1, CompletedIsFrozen

-----------------------------------------------------------------------------
(***************************************************************************)
(* The part of the invariant that survives overlap, failure and restarts.  *)
(***************************************************************************)
LEMMA PlansCoverStep ==
  ASSUME RegisterInv, TypeOK', [Next]_vars
  PROVE  PlansCoverTheDocuments'
<1> SUFFICES ASSUME NEW r \in Run, HasPlan(r)'
             PROVE  (plan[r].kinds \in [docs[r] -> Kind])'
  BY DEF PlansCoverTheDocuments
<1>0. TypeOK
  BY DEF RegisterInv
<1>1. CASE HasPlan(r)
  <2>1. phase[r] # "none"
    BY <1>1 DEF HasPlan, Composed
  <2> QED
    BY <1>0, <1>1, <2>1, GivenStays, PlanStays
       DEF RegisterInv, PlansCoverTheDocuments
<1>2. CASE ~HasPlan(r)
  <2>1. ComposePlan(r)
    BY <1>0, <1>2, PlanArises
  <2>2. plan'[r].kinds = [d \in docs[r] |-> SeenKind(d)] /\ docs' = docs
    BY <1>0, <2>1 DEF ComposePlan, TypeOK, docTable
  <2> QED
    BY <1>0, <2>2, SeenKindType
<1> QED
  BY <1>1, <1>2

LEMMA StartedInOrderStep ==
  ASSUME RegisterInv, [Next]_vars
  PROVE  StartedInOrder'
<1>1. TypeOK /\ StartedInOrder
  BY DEF RegisterInv
<1>2. ASSUME NEW r \in Run, NEW D \in Inbox, StartRun(r, D)
      PROVE  StartedInOrder'
  BY <1>1, <1>2 DEF StartRun, Goes, StartedInOrder, TypeOK
<1>3. ASSUME \A r \in Run : phase[r] = "none" <=> phase'[r] = "none"
      PROVE  StartedInOrder'
  BY <1>1, <1>3 DEF StartedInOrder
<1>4. ASSUME Restart
      PROVE  \A r \in Run : phase[r] = "none" <=> phase'[r] = "none"
  BY <1>4 DEF Restart
<1>5. ASSUME NEW r \in Run,
             \/ Classify(r) \/ Escalate(r) \/ Compose(r)
             \/ Checkpoint(r) \/ Finish(r)
      PROVE  \A q \in Run : phase[q] = "none" <=> phase'[q] = "none"
  BY <1>1, <1>5 DEF Classify, Escalate, Compose, ComposePlan, ComposeDelete,
                    ComposeCommit, Checkpoint, Finish, Goes, TypeOK
<1> QED
  BY <1>2, <1>3, <1>4, <1>5 DEF Next, vars

LEMMA ParentIsFinalStep ==
  ASSUME RegisterInv, TypeOK', [Next]_vars
  PROVE  ParentIsFinal'
<1> SUFFICES ASSUME NEW r \in Run, parent'[r] # NoRun
             PROVE  parent'[r] < r /\ phase'[parent'[r]] = "completed"
  BY DEF ParentIsFinal
<1>0. TypeOK /\ ParentIsFinal /\ StartedInOrder
  BY DEF RegisterInv
<1>1. CASE parent'[r] = parent[r]
  <2>1. parent[r] \in Run /\ phase[parent[r]] = "completed" /\ parent[r] < r
    BY <1>0, <1>1 DEF ParentIsFinal, TypeOK
  <2> QED
    BY <1>0, <1>1, <2>1, CompletedIsFrozen
<1>2. CASE parent'[r] # parent[r]
  <2>1. PICK D \in Inbox : StartRun(r, D)
    <3>1. ASSUME NEW q \in Run, NEW D \in Inbox, StartRun(q, D)
          PROVE  q = r
      BY <1>0, <1>2, <3>1 DEF StartRun, TypeOK
    <3>2. ASSUME UNCHANGED parent PROVE FALSE
      BY <1>2, <3>2
    <3> QED
      BY <3>1, <3>2
         DEF Next, vars, docTable, Classify, Escalate, Compose, ComposePlan,
             ComposeDelete, ComposeCommit, Checkpoint, Finish, Restart
  <2>2. parent'[r] = PreviousRun
    BY <1>0, <2>1 DEF StartRun, TypeOK
  <2>3. PreviousRun \in Run /\ phase[PreviousRun] = "completed"
    BY <2>2, PreviousRunIsNewest
  <2>4. phase[r] = "none"
    BY <2>1 DEF StartRun
  <2>5. PreviousRun < r
    BY <1>0, <2>3, <2>4, BoundAssumption DEF StartedInOrder, Run
  <2> QED
    BY <1>0, <2>2, <2>3, <2>5, CompletedIsFrozen
<1> QED
  BY <1>1, <1>2

\* A plan keeps only what exists and has the composer's version.
LEMMA PlanDecides ==
  ASSUME TypeOK, NEW r \in Run, ComposePlan(r)
  PROVE  /\ plan'[r].ver = composer
         /\ plan'[r].rederive = {s \in Desired(r) : MustRederive(r, s)}
         /\ \A s \in Kept(r)' : s \in Desired(r) /\ ~MustRederive(r, s)
         /\ UNCHANGED <<docs, parent, versions, deps>>
<1>1. /\ plan'[r].ver = composer
      /\ plan'[r].rederive = {s \in Desired(r) : MustRederive(r, s)}
      /\ UNCHANGED <<docs, parent, versions, deps>>
  BY DEF ComposePlan, TypeOK, docTable
<1>2. Desired(r)' = Desired(r)
  BY <1>1, SubjectStays
<1> QED
  BY <1>1, <1>2 DEF Kept

LEMMA KeptIsThereStep ==
  ASSUME RegisterInv, TypeOK', [Next]_vars
  PROVE  KeptIsThere'
<1> SUFFICES ASSUME NEW r \in Run, HasPlan(r)', NEW s \in Kept(r)'
             PROVE  /\ parent'[r] # NoRun
                    /\ Exists(versions'[parent'[r]][s])
                    /\ versions'[parent'[r]][s].ver = plan'[r].ver
  BY DEF KeptIsThere, Exists
<1>0. TypeOK
  BY DEF RegisterInv
<1>1. CASE HasPlan(r)
  <2>1. phase[r] # "none"
    BY <1>1 DEF HasPlan, Composed
  <2>2. docs'[r] = docs[r] /\ parent'[r] = parent[r]
    BY <1>0, <2>1, GivenStays
  <2>3. s \in Kept(r) /\ plan'[r].ver = plan[r].ver
    BY <1>0, <1>1, <2>2, PlanStays, SubjectStays DEF Kept
  <2>4. /\ parent[r] # NoRun
        /\ Exists(versions[parent[r]][s])
        /\ versions[parent[r]][s].ver = plan[r].ver
    BY <1>1, <2>3 DEF RegisterInv, KeptIsThere
  <2> QED
    BY <1>1, <2>2, <2>3, <2>4, ParentStays
<1>2. CASE ~HasPlan(r)
  <2>1. ComposePlan(r)
    BY <1>0, <1>2, PlanArises
  <2> QED
    BY <1>0, <2>1, PlanDecides DEF MustRederive, SameComposer
<1> QED
  BY <1>1, <1>2

\* The sections of a run are written by its plan.
LEMMA WrittenStays ==
  ASSUME RegisterInv, [Next]_vars, NEW r \in Run, HasPlan(r)
  PROVE  Written(r)' = Written(r)
<1>0. TypeOK /\ phase[r] # "none"
  BY DEF RegisterInv, HasPlan, Composed
<1>1. docs'[r] = docs[r] /\ parent'[r] = parent[r]
  BY <1>0, GivenStays
<1>2. /\ plan'[r].rederive = plan[r].rederive
      /\ plan'[r].kinds = plan[r].kinds
      /\ plan'[r].ver = plan[r].ver
  BY <1>0, PlanStays
<1>3. /\ FactsOf(r)' = FactsOf(r)
      /\ Desired(r)' = Desired(r)
      /\ \A s \in Section : Contributing(r, s)' = Contributing(r, s)
  BY <1>1, SubjectStays
<1>4. \A s \in Section : Fresh(r, s)' = Fresh(r, s)
  BY <1>2, <1>3 DEF Fresh
<1>5. \A s \in Kept(r) :
        CopyOf(r, versions[parent[r]][s])' = CopyOf(r, versions[parent[r]][s])
  <2> SUFFICES ASSUME NEW s \in Kept(r)
               PROVE  versions'[parent'[r]][s] = versions[parent[r]][s]
    BY DEF CopyOf
  <2>1. parent[r] # NoRun
    BY DEF RegisterInv, KeptIsThere
  <2> QED
    BY <1>1, <2>1, ParentStays
<1>6. \A s \in Section :
        (IF s \notin Desired(r) THEN Missing
         ELSE IF s \in plan[r].rederive THEN Fresh(r, s)
         ELSE CopyOf(r, versions[parent[r]][s]))'
        = IF s \notin Desired(r) THEN Missing
          ELSE IF s \in plan[r].rederive THEN Fresh(r, s)
          ELSE CopyOf(r, versions[parent[r]][s])
  BY <1>2, <1>3, <1>4, <1>5 DEF Kept
<1> QED
  BY <1>6 DEF Written

LEMMA ComposedAsPlannedStep ==
  ASSUME RegisterInv, TypeOK', [Next]_vars
  PROVE  ComposedAsPlanned'
<1> SUFFICES ASSUME NEW r \in Run, Composed(r)'
             PROVE  versions'[r] = Written(r)'
  BY DEF ComposedAsPlanned
<1>0. TypeOK
  BY DEF RegisterInv
<1>1. CASE Composed(r)
  <2>1. versions'[r] = versions[r]
    BY <1>0, <1>1, ComposedStays
  <2>2. HasPlan(r)
    BY <1>1 DEF HasPlan
  <2> QED
    BY <1>1, <2>1, <2>2, WrittenStays DEF RegisterInv, ComposedAsPlanned
<1>2. CASE ~Composed(r)
  <2>1. ComposeCommit(r)
    BY <1>0, <1>2, ComposedArises
  <2>2. versions'[r] = Written(r) /\ HasPlan(r)
    BY <1>0, <2>1 DEF ComposeCommit, TypeOK, HasPlan
  <2> QED
    BY <2>2, WrittenStays
<1> QED
  BY <1>1, <1>2

LEMMA RegisterInit == Init => RegisterInv
<1> SUFFICES ASSUME Init PROVE RegisterInv
  OBVIOUS
<1>1. \A r \in Run : phase[r] = "none" /\ parent[r] = NoRun
  BY DEF Init
<1>2. \A r \in Run : ~HasPlan(r) /\ ~Composed(r)
  BY <1>1 DEF HasPlan, Composed
<1> QED
  BY <1>1, <1>2, TypeInit
     DEF RegisterInv, PlansCoverTheDocuments, StartedInOrder, ParentIsFinal,
         KeptIsThere, ComposedAsPlanned

LEMMA RegisterStep == RegisterInv /\ [Next]_vars => RegisterInv'
<1> SUFFICES ASSUME RegisterInv, [Next]_vars PROVE RegisterInv'
  OBVIOUS
<1>1. TypeOK'
  BY TypeStep
<1> QED
  BY <1>1, PlansCoverStep, StartedInOrderStep, ParentIsFinalStep,
     KeptIsThereStep, ComposedAsPlannedStep
     DEF RegisterInv

\* Every variable stays in its type: the kind recorded for a section's
\* document is never the NULL an escalated document still has.
THEOREM TypeCorrect == Spec => []TypeOK
<1>1. RegisterInv => TypeOK
  BY DEF RegisterInv
<1> QED
  BY <1>1, RegisterInit, RegisterStep, PTL DEF Spec

LEMMA SectionsOfARun ==
  ASSUME RegisterInv, NEW r \in Run, Composed(r), NEW s \in Section
  PROVE  \/ s \notin Desired(r) /\ versions[r][s] = Missing
         \/ /\ s \in plan[r].rederive
            /\ versions[r][s].facts = Contributing(r, s)
            /\ versions[r][s].ver = plan[r].ver
            /\ versions[r][s].carried = FALSE
         \/ /\ s \in Kept(r)
            /\ parent[r] \in Run
            /\ versions[parent[r]][s] \in Version
            /\ versions[r][s] = [versions[parent[r]][s] EXCEPT !.carried = TRUE]
            /\ versions[parent[r]][s].ver = plan[r].ver
<1>1. versions[r] = Written(r) /\ HasPlan(r) /\ TypeOK
  BY DEF RegisterInv, ComposedAsPlanned, HasPlan
<1>2. CASE s \notin Desired(r)
  BY <1>1, <1>2 DEF Written
<1>3. CASE s \in Desired(r) /\ s \in plan[r].rederive
  BY <1>1, <1>3, FreshType DEF Written, RegisterInv, PlansCoverTheDocuments
<1>4. CASE s \in Kept(r)
  <2>1. parent[r] # NoRun /\ versions[parent[r]][s].ver = plan[r].ver
    BY <1>1, <1>4 DEF RegisterInv, KeptIsThere
  <2>2. parent[r] \in Run /\ versions[parent[r]][s] \in Version
    BY <1>1, <2>1 DEF TypeOK
  <2>3. versions[r][s] = CopyOf(r, versions[parent[r]][s])
    BY <1>1, <1>4 DEF Written, Kept
  <2> QED
    BY <1>4, <2>1, <2>2, <2>3 DEF CopyOf
<1> QED
  BY <1>2, <1>3, <1>4 DEF Kept

\* A section that is carried forward is the previous run's to the byte, its
\* composer and provenance included, however runs overlap, fail or re-enter
\* compose: the previous run is completed, and nothing writes to it again.
THEOREM CarriedVerbatim == Spec => []CarriedForwardIsVerbatim
<1>1. RegisterInv => CarriedForwardIsVerbatim
  <2> SUFFICES ASSUME RegisterInv, NEW r \in Run, NEW s \in Section,
                      Composed(r), versions[r][s].carried
               PROVE  /\ parent[r] # NoRun
                      /\ [versions[parent[r]][s] EXCEPT !.carried = TRUE]
                           = versions[r][s]
    BY DEF CarriedForwardIsVerbatim
  <2>1. Missing.carried = FALSE
    BY DEF Missing
  <2>2. NoRun \notin Run
    BY DEF NoRun, Run
  <2> QED
    BY <2>1, <2>2, SectionsOfARun
<1> QED
  BY <1>1, RegisterInit, RegisterStep, PTL DEF Spec

\* A register never mixes the sections of two composers, in whichever order
\* deployments, restarts and runs come.
THEOREM OneComposer == Spec => []OneComposerPerRegister
<1>1. RegisterInv => OneComposerPerRegister
  <2> SUFFICES ASSUME RegisterInv, NEW r \in Run, NEW s \in Section,
                      Composed(r), Exists(versions[r][s])
               PROVE  versions[r][s].ver = plan[r].ver
    BY DEF OneComposerPerRegister
  <2>1. ~Exists(Missing)
    BY DEF Missing, Exists
  <2>2. \A v \in Version : [v EXCEPT !.carried = TRUE].ver = v.ver
    BY DEF Version
  <2>3. CASE versions[r][s] = Missing
    BY <2>1, <2>3
  <2>4. CASE /\ parent[r] \in Run
             /\ versions[parent[r]][s] \in Version
             /\ versions[r][s] = [versions[parent[r]][s] EXCEPT !.carried = TRUE]
             /\ versions[parent[r]][s].ver = plan[r].ver
    BY <2>2, <2>4
  <2> QED
    BY <2>3, <2>4, SectionsOfARun
<1> QED
  BY <1>1, RegisterInit, RegisterStep, PTL DEF Spec

-----------------------------------------------------------------------------
(***************************************************************************)
(* The part that needs one run at a time: what the dependency map says.    *)
(***************************************************************************)
LEMMA CurrentFacts ==
  ASSUME RegisterInv, KeptIsUnchanged, NEW r \in Run, Composed(r),
         NEW s \in Section
  PROVE  versions[r][s].facts = Contributing(r, s)
<1>1. CASE s \notin Desired(r) /\ versions[r][s] = Missing
  BY <1>1 DEF Desired, Missing
<1>2. CASE versions[r][s].facts = Contributing(r, s)
  BY <1>2
<1>3. CASE /\ s \in Kept(r)
           /\ versions[parent[r]][s] \in Version
           /\ versions[r][s] = [versions[parent[r]][s] EXCEPT !.carried = TRUE]
  <2>1. HasPlan(r)
    BY DEF HasPlan
  <2>2. versions[r][s].facts = versions[parent[r]][s].facts
    BY <1>3 DEF Version
  <2> QED
    BY <1>3, <2>1, <2>2 DEF KeptIsUnchanged
<1> QED
  BY <1>1, <1>2, <1>3, SectionsOfARun

\* Before a run composes, the map describes its previous run.
LEMMA ParentIsDescribed ==
  ASSUME IInv, ~disturbed, NEW r \in Run, Open(r), ~Composed(r),
         parent[r] # NoRun, NEW s \in Section, Exists(versions[parent[r]][s])
  PROVE  Recorded(s) = versions[parent[r]][s].facts
<1> DEFINE p == parent[r]
<1>1. /\ RegisterInv /\ ParentIsNewest /\ MapIsCurrent /\ KeptIsUnchanged
  BY DEF IInv, SerialInv
<1>2. p \in Run /\ phase[p] = "completed"
  BY <1>1 DEF RegisterInv, ParentIsFinal, TypeOK
<1>3. Newest(p)
  BY <1>1, <1>2 DEF ParentIsNewest, Newest, Composed
<1>4. versions[p][s].facts = Contributing(p, s)
  BY <1>1, <1>3, <1>2, CurrentFacts DEF Newest
<1>5. s \in Desired(p)
  BY <1>4 DEF Exists, Desired
<1> QED
  BY <1>1, <1>2, <1>3, <1>4, <1>5 DEF MapIsCurrent

LEMMA DisturbedStays ==
  ASSUME TypeOK, [Next]_vars, ~disturbed'
  PROVE  ~disturbed
BY DEF Next, vars, StartRun, Classify, Escalate, Compose, ComposePlan,
       ComposeDelete, ComposeCommit, Checkpoint, Finish, Restart

\* Undisturbed, a register once composed stays.
LEMMA RegisterStays ==
  ASSUME TypeOK, [Next]_vars, ~disturbed', NEW r \in Run, Composed(r)
  PROVE  Composed(r)'
<1>1. ASSUME Restart PROVE phase'[r] = phase[r]
  BY <1>1 DEF Restart, Composed
<1>2. ASSUME NEW q \in Run, NEW D \in Inbox, StartRun(q, D)
      PROVE  phase'[r] = phase[r]
  BY <1>2 DEF StartRun, Goes, Composed, TypeOK
<1>3. ASSUME NEW q \in Run, Classify(q) \/ Escalate(q) \/ Compose(q)
      PROVE  phase'[r] = phase[r]
  BY <1>3 DEF Classify, Escalate, Compose, ComposePlan, ComposeDelete,
              ComposeCommit, Goes, Composed, TypeOK
<1>4. ASSUME NEW q \in Run, Checkpoint(q) \/ Finish(q)
      PROVE  phase'[r] \in {phase[r], "checked", "completed", "failed"}
  BY <1>4 DEF Checkpoint, Finish, Goes, Composed, TypeOK
<1> QED
  BY <1>1, <1>2, <1>3, <1>4 DEF Next, vars, Composed

LEMMA OneAtATimeStep ==
  ASSUME IInv, [Next]_vars, ~disturbed'
  PROVE  OneAtATime'
<1>0. TypeOK /\ OneAtATime
  BY DisturbedStays DEF IInv, RegisterInv, SerialInv
<1>1. ASSUME NEW r \in Run, NEW D \in Inbox, StartRun(r, D)
      PROVE  OneAtATime'
  BY <1>0, <1>1 DEF StartRun, Goes, OneAtATime, Open, TypeOK
<1>2. ASSUME NEW r \in Run, Classify(r) \/ Escalate(r) \/ Compose(r)
      PROVE  OneAtATime'
  BY <1>0, <1>2 DEF Classify, Escalate, Compose, ComposePlan, ComposeDelete,
              ComposeCommit, Goes, OneAtATime, Open, TypeOK
<1>3. ASSUME NEW r \in Run, Checkpoint(r) \/ Finish(r)
      PROVE  OneAtATime'
  BY <1>0, <1>3 DEF Checkpoint, Finish, Goes, OneAtATime, Open, TypeOK
<1>4. ASSUME Restart PROVE OneAtATime'
  <2>1. \A r \in Run : Open(r)' => Open(r)
    BY <1>4 DEF Restart, Open
  <2>2. \A r \in Run : phase'[r] # "failed"
    BY <1>0, <1>4 DEF Restart, OneAtATime
  <2> QED
    BY <1>0, <2>1, <2>2 DEF OneAtATime
<1>5. ASSUME UNCHANGED vars PROVE OneAtATime'
  BY <1>0, <1>5 DEF vars, OneAtATime, Open
<1> QED
  BY <1>1, <1>2, <1>3, <1>4, <1>5 DEF Next

LEMMA ParentIsNewestStep ==
  ASSUME IInv, [Next]_vars, ~disturbed'
  PROVE  ParentIsNewest'
<1> SUFFICES ASSUME NEW r \in Run, Open(r)', ~Composed(r)',
                    NEW q \in Run, Composed(q)'
             PROVE  parent'[r] # NoRun /\ q <= parent'[r]
  BY DEF ParentIsNewest
<1>0. TypeOK /\ OneAtATime /\ ParentIsNewest /\ ~disturbed
  BY DisturbedStays DEF IInv, RegisterInv, SerialInv
<1>1. CASE phase[r] = "none"
  <2>1. PICK D \in Inbox : StartRun(r, D)
    <3>1. ASSUME NEW x \in Run, NEW D \in Inbox, StartRun(x, D)
          PROVE  x = r
      BY <1>0, <1>1, <3>1 DEF StartRun, Goes, Open, TypeOK
    <3>2. ASSUME NEW x \in Run,
                 \/ Classify(x) \/ Escalate(x) \/ Compose(x)
                 \/ Checkpoint(x) \/ Finish(x)
          PROVE  FALSE
      BY <1>0, <1>1, <3>2
         DEF Classify, Escalate, Compose, ComposePlan, ComposeDelete,
             ComposeCommit, Checkpoint, Finish, Goes, Open, TypeOK
    <3>3. ASSUME Restart \/ UNCHANGED vars PROVE FALSE
      BY <1>1, <3>3 DEF Restart, vars, Open
    <3> QED
      BY <3>1, <3>2, <3>3 DEF Next
  <2>2. parent'[r] = PreviousRun /\ \A x \in Run : ~Open(x)
    BY <1>0, <2>1 DEF StartRun, TypeOK
  <2>3. phase[q] = "completed"
    BY <1>0, <2>1, <2>2 DEF StartRun, Goes, Open, Composed, OneAtATime, TypeOK
  <2> QED
    BY <2>2, <2>3, PreviousRunIsNewest
<1>2. CASE phase[r] # "none"
  <2>1. ~Composed(r)
    BY <1>0, RegisterStays
  <2>2. Open(r)
    BY <1>2, <2>1 DEF Open, Composed
  <2>3. parent'[r] = parent[r]
    BY <1>0, <1>2, GivenStays
  <2>4. Composed(q)
    <3>1. SUFFICES ASSUME ~Composed(q) PROVE FALSE
      OBVIOUS
    <3>2. ComposeCommit(q)
      BY <1>0, <3>1, ComposedArises
    <3>3. q = r
      BY <1>0, <2>2, <3>2 DEF ComposeCommit, Open, OneAtATime
    <3> QED
      BY <3>3
  <2> QED
    BY <1>0, <2>1, <2>2, <2>3, <2>4 DEF ParentIsNewest
<1> QED
  BY <1>1, <1>2

\* The transaction that composes leaves the map describing what it wrote.
LEMMA CommitDescribes ==
  ASSUME TypeOK, MapIsCurrentForPlan, NEW r \in Run, ComposeCommit(r),
         NEW s \in Desired(r)
  PROVE  Recorded(s)' = Contributing(r, s)
<1>1. /\ phase[r] = "deleted" /\ plan[r].doomed = Doomed(r)
      /\ deps' = Insert(deps \ plan[r].doomed, NewEdges(r))
  BY DEF ComposeCommit, MapIsCurrentForPlan
<1>2. s \in Section
  BY DEF Desired
<1>3. CASE s \in plan[r].rederive
  <2>1. \A e \in deps \ plan[r].doomed : e.key # s
    BY <1>1, <1>3 DEF Doomed
  <2>2. \A e \in deps' : e.key = s => e.fact \in Contributing(r, s)
    BY <1>1, <2>1 DEF Insert, NewEdges, Contributing
  <2>3. ASSUME NEW f \in Contributing(r, s)
        PROVE  \E e \in deps' : e.key = s /\ e.fact = f
    <3> DEFINE e == [key |-> s, fact |-> f, by |-> r]
    <3>1. e \in NewEdges(r)
      BY <1>3 DEF NewEdges, Contributing
    <3>2. e \in deps'
      BY <1>1, <2>1, <3>1 DEF Insert
    <3> QED
      BY <3>2
  <2> QED
    BY <2>2, <2>3 DEF Recorded
<1>4. CASE s \notin plan[r].rederive
  <2>1. Recorded(s) = Contributing(r, s)
    BY <1>1, <1>4 DEF MapIsCurrentForPlan, Kept
  <2>2. \A e : e.key = s => (e \in deps' <=> e \in deps)
    BY <1>1, <1>4 DEF Insert, NewEdges, Doomed
  <2> QED
    BY <2>1, <2>2 DEF Recorded
<1> QED
  BY <1>3, <1>4

LEMMA MapIsCurrentStep ==
  ASSUME IInv, [Next]_vars, ~disturbed'
  PROVE  MapIsCurrent'
<1> SUFFICES ASSUME NEW r \in Run, NEW s \in Section, Newest(r)',
                    s \in Desired(r)'
             PROVE  Recorded(s)' = Contributing(r, s)'
  BY DEF MapIsCurrent
<1>0. /\ TypeOK /\ RegisterInv /\ OneAtATime /\ ParentIsNewest /\ MapIsCurrent
      /\ MapIsCurrentForPlan /\ ~disturbed
  BY DisturbedStays DEF IInv, RegisterInv, SerialInv
<1>1. CASE ~Composed(r)
  <2>1. ComposeCommit(r)
    BY <1>0, <1>1, ComposedArises DEF Newest
  <2>2. docs' = docs
    BY <2>1 DEF ComposeCommit, docTable
  <2> QED
    BY <1>0, <2>1, <2>2, SubjectStays, CommitDescribes
<1>2. CASE Composed(r)
  <2>1. docs'[r] = docs[r]
    BY <1>0, <1>2, GivenStays DEF Composed
  <2>2. ASSUME NEW q \in Run, ComposeCommit(q) PROVE FALSE
    <3>1. Open(q) /\ ~Composed(q) /\ Composed(q)'
      BY <1>0, <2>2 DEF ComposeCommit, Open, Composed, Goes, TypeOK
    <3>2. parent[q] # NoRun /\ r <= parent[q] /\ parent[q] < q /\ q <= r
      BY <1>0, <1>2, <3>1
         DEF ParentIsNewest, RegisterInv, ParentIsFinal, Newest
    <3>3. parent[q] \in Run
      BY <1>0, <3>2 DEF TypeOK
    <3> QED
      BY <3>2, <3>3, BoundAssumption DEF Run
  <2>3. deps' = deps
    BY <2>2 DEF Next, vars, StartRun, Classify, Escalate, Compose, ComposePlan,
                ComposeDelete, Checkpoint, Finish, Restart
  <2>4. Newest(r)
    BY <1>0, <1>2, RegisterStays DEF Newest
  <2>5. Recorded(s)' = Recorded(s)
    BY <2>3 DEF Recorded
  <2> QED
    BY <1>0, <2>1, <2>4, <2>5, SubjectStays DEF MapIsCurrent
<1> QED
  BY <1>1, <1>2

\* A decision is taken while the map describes the previous run.
LEMMA DecidedOnTheMap ==
  ASSUME IInv, ~disturbed, NEW r \in Run, ComposePlan(r), NEW s \in Desired(r),
         parent[r] # NoRun, Exists(versions[parent[r]][s])
  PROVE  SameFacts(s, Contributing(r, s)) <=>
           versions[parent[r]][s].facts = Contributing(r, s)
<1>1. Open(r) /\ ~Composed(r)
  BY DEF ComposePlan, Open, Composed
<1>2. s \in Section
  BY DEF Desired
<1> QED
  BY <1>1, <1>2, ParentIsDescribed DEF SameFacts

LEMMA KeptIsUnchangedStep ==
  ASSUME IInv, [Next]_vars, ~disturbed'
  PROVE  KeptIsUnchanged'
<1> SUFFICES ASSUME NEW r \in Run, HasPlan(r)', NEW s \in Kept(r)'
             PROVE  versions'[parent'[r]][s].facts = Contributing(r, s)'
  BY DEF KeptIsUnchanged
<1>0. TypeOK /\ RegisterInv /\ KeptIsUnchanged /\ ~disturbed
  BY DisturbedStays DEF IInv, RegisterInv, SerialInv
<1>1. CASE HasPlan(r)
  <2>1. docs'[r] = docs[r] /\ parent'[r] = parent[r]
    BY <1>0, <1>1, GivenStays DEF HasPlan, Composed
  <2>2. s \in Kept(r) /\ s \in Section
    BY <1>0, <1>1, <2>1, PlanStays, SubjectStays DEF Kept, Desired
  <2>3. parent[r] # NoRun
    BY <1>0, <1>1, <2>2 DEF RegisterInv, KeptIsThere
  <2> QED
    BY <1>0, <1>1, <2>1, <2>2, <2>3, ParentStays, SubjectStays
       DEF KeptIsUnchanged
<1>2. CASE ~HasPlan(r)
  <2>1. ComposePlan(r)
    BY <1>0, <1>2, PlanArises
  <2>2. /\ s \in Desired(r) /\ ~MustRederive(r, s)
        /\ UNCHANGED <<docs, parent, versions, deps>>
    BY <1>0, <2>1, PlanDecides
  <2>3. versions[parent[r]][s].facts = Contributing(r, s)
    BY <1>0, <2>1, <2>2, DecidedOnTheMap DEF MustRederive
  <2>4. Contributing(r, s)' = Contributing(r, s)
    BY <2>2, SubjectStays DEF Desired
  <2> QED
    BY <2>2, <2>3, <2>4
<1> QED
  BY <1>1, <1>2

LEMMA RederivedForAReasonStep ==
  ASSUME IInv, [Next]_vars, ~disturbed'
  PROVE  RederivedForAReason'
<1> SUFFICES ASSUME NEW r \in Run, HasPlan(r)', NEW s \in plan'[r].rederive,
                    parent'[r] # NoRun, Exists(versions'[parent'[r]][s]),
                    versions'[parent'[r]][s].facts = Contributing(r, s)',
                    versions'[parent'[r]][s].ver = plan'[r].ver
             PROVE  FALSE
  BY DEF RederivedForAReason, Exists
<1>0. TypeOK /\ RegisterInv /\ RederivedForAReason /\ ~disturbed
  BY DisturbedStays DEF IInv, RegisterInv, SerialInv
<1>1. CASE HasPlan(r)
  <2>1. docs'[r] = docs[r] /\ parent'[r] = parent[r]
    BY <1>0, <1>1, GivenStays DEF HasPlan, Composed
  <2>2. s \in plan[r].rederive /\ plan'[r].ver = plan[r].ver
    BY <1>0, <1>1, PlanStays
  <2>3. s \in Section
    BY <1>0, <2>2 DEF TypeOK, Plan
  <2>4. versions'[parent[r]] = versions[parent[r]]
    BY <1>0, <1>1, <2>1, ParentStays
  <2>5. Contributing(r, s)' = Contributing(r, s)
    BY <2>1, <2>3, SubjectStays
  <2> QED
    BY <1>0, <1>1, <2>1, <2>2, <2>4, <2>5 DEF RederivedForAReason
<1>2. CASE ~HasPlan(r)
  <2>1. ComposePlan(r)
    BY <1>0, <1>2, PlanArises
  <2>2. /\ s \in Desired(r) /\ MustRederive(r, s) /\ plan'[r].ver = composer
        /\ UNCHANGED <<docs, parent, versions, deps>>
    BY <1>0, <2>1, PlanDecides
  <2>3. Contributing(r, s)' = Contributing(r, s)
    BY <2>2, SubjectStays DEF Desired
  <2> QED
    BY <1>0, <2>1, <2>2, <2>3, DecidedOnTheMap DEF MustRederive, SameComposer
<1> QED
  BY <1>1, <1>2

LEMMA MapForPlanStep ==
  ASSUME IInv, [Next]_vars, ~disturbed'
  PROVE  MapIsCurrentForPlan'
<1> SUFFICES ASSUME NEW r \in Run, phase'[r] \in {"planned", "deleted"}
             PROVE  /\ \A s \in Kept(r)' : Recorded(s)' = Contributing(r, s)'
                    /\ phase'[r] = "deleted" => plan'[r].doomed = Doomed(r)'
  BY DEF MapIsCurrentForPlan
<1>0. TypeOK /\ OneAtATime /\ MapIsCurrentForPlan /\ ~disturbed
  BY DisturbedStays DEF IInv, RegisterInv, SerialInv
<1>1. CASE ~HasPlan(r)
  <2>1. ComposePlan(r)
    BY <1>0, <1>1, PlanArises DEF HasPlan
  <2>2. phase'[r] = "planned"
    BY <1>0, <2>1 DEF ComposePlan, Goes, TypeOK
  <2>3. ASSUME NEW s \in Kept(r)'
        PROVE  Recorded(s)' = Contributing(r, s)'
    <3>1. /\ s \in Desired(r) /\ ~MustRederive(r, s)
          /\ UNCHANGED <<docs, parent, versions, deps>>
      BY <1>0, <2>1, <2>3, PlanDecides
    <3>2. Contributing(r, s)' = Contributing(r, s) /\ Recorded(s)' = Recorded(s)
      BY <3>1, SubjectStays DEF Desired, Recorded
    <3> QED
      BY <3>1, <3>2 DEF MustRederive, SameFacts
  <2> QED
    BY <2>2, <2>3
<1>2. CASE HasPlan(r)
  <2>1. docs'[r] = docs[r]
    BY <1>0, <1>2, GivenStays DEF HasPlan, Composed
  <2>2. phase[r] \in {"planned", "deleted"}
    <3> SUFFICES ASSUME Composed(r) PROVE FALSE
      BY <1>2 DEF HasPlan
    <3> QED
      BY <1>0, RegisterStays DEF Composed
  <2>3. Open(r)
    BY <2>2 DEF Open
  <2>4. ASSUME NEW q \in Run, ComposeCommit(q) PROVE FALSE
    <3>1. q = r
      BY <1>0, <2>3, <2>4 DEF ComposeCommit, Open, OneAtATime
    <3> QED
      BY <1>0, <2>4, <3>1 DEF ComposeCommit, Goes, TypeOK
  <2>5. deps' = deps
    BY <2>4 DEF Next, vars, StartRun, Classify, Escalate, Compose, ComposePlan,
                ComposeDelete, Checkpoint, Finish, Restart
  <2>6. /\ \A s \in Section : Recorded(s)' = Recorded(s)
        /\ plan'[r].rederive = plan[r].rederive
    BY <1>0, <1>2, <2>5, PlanStays DEF Recorded
  <2>7. Doomed(r)' = Doomed(r)
    BY <2>5, <2>6 DEF Doomed
  <2>8. ASSUME NEW s \in Kept(r)'
        PROVE  Recorded(s)' = Contributing(r, s)'
    <3>1. s \in Kept(r) /\ s \in Section
      BY <2>1, <2>6, <2>8, SubjectStays DEF Kept, Desired
    <3> QED
      BY <1>0, <2>1, <2>2, <2>6, <3>1, SubjectStays DEF MapIsCurrentForPlan
  <2>9. ASSUME phase'[r] = "deleted" PROVE plan'[r].doomed = Doomed(r)
    <3>1. CASE phase[r] = "planned"
      <4>1. ComposeDelete(r)
        BY <1>0, <2>9, <3>1
           DEF Next, vars, StartRun, Classify, Escalate, Compose, ComposePlan,
               ComposeDelete, ComposeCommit, Checkpoint, Finish, Restart, Goes,
               TypeOK
      <4> QED
        BY <1>0, <4>1 DEF ComposeDelete, TypeOK, Plan
    <3>2. CASE phase[r] = "deleted"
      <4>1. plan'[r] = plan[r]
        BY <1>0, <2>4, <3>2
           DEF Next, vars, StartRun, Classify, Escalate, Compose, ComposePlan,
               ComposeDelete, Checkpoint, Finish, Restart, TypeOK
      <4> QED
        BY <1>0, <3>2, <4>1 DEF MapIsCurrentForPlan
    <3> QED
      BY <2>2, <3>1, <3>2
  <2> QED
    BY <2>7, <2>8, <2>9
<1> QED
  BY <1>1, <1>2

LEMMA SerialInit == Init => SerialInv
<1> SUFFICES ASSUME Init PROVE SerialInv
  OBVIOUS
<1>1. \A r \in Run : phase[r] = "none"
  BY DEF Init
<1>2. \A r \in Run : ~HasPlan(r) /\ ~Composed(r) /\ ~Open(r)
  BY <1>1 DEF HasPlan, Composed, Open
<1> QED
  BY <1>1, <1>2
     DEF SerialInv, OneAtATime, ParentIsNewest, MapIsCurrent, Newest,
         KeptIsUnchanged, RederivedForAReason, MapIsCurrentForPlan

LEMMA SerialStep == IInv /\ [Next]_vars => SerialInv'
<1> SUFFICES ASSUME IInv, [Next]_vars, ~disturbed'
             PROVE  /\ OneAtATime' /\ ParentIsNewest' /\ MapIsCurrent'
                    /\ KeptIsUnchanged' /\ RederivedForAReason'
                    /\ MapIsCurrentForPlan'
  BY DEF SerialInv
<1> QED
  BY OneAtATimeStep, ParentIsNewestStep, MapIsCurrentStep, KeptIsUnchangedStep,
     RederivedForAReasonStep, MapForPlanStep

\* While each run completes before the next one starts, no section of the
\* register is left over from facts its run no longer has, or lacks facts its
\* run now has: the comparison with the dependency map misses nothing.
THEOREM FactsStayCurrent == Spec => []FactsAreCurrent
<1>1. IInv /\ [Next]_vars => IInv'
  BY RegisterStep, SerialStep DEF IInv
<1>2. IInv => FactsAreCurrent
  BY CurrentFacts DEF IInv, SerialInv, FactsAreCurrent
<1> QED
  BY RegisterInit, SerialInit, <1>1, <1>2, PTL DEF Spec, IInv

\* ... and it invents nothing: a section whose facts and composer are those of
\* the previous run is copied, never composed again.
THEOREM UnchangedSectionsAreCarried == Spec => []UnchangedIsCarried
<1>1. IInv /\ [Next]_vars => IInv'
  BY RegisterStep, SerialStep DEF IInv
<1>2. IInv => UnchangedIsCarried
  <2> SUFFICES ASSUME IInv, ~disturbed, NEW r \in Run, NEW s \in Section,
                      Composed(r), parent[r] # NoRun,
                      Exists(versions[parent[r]][s]),
                      versions[parent[r]][s].facts = Contributing(r, s),
                      versions[parent[r]][s].ver = plan[r].ver
               PROVE  versions[r][s].carried
    BY DEF UnchangedIsCarried
  <2>1. RegisterInv /\ RederivedForAReason /\ HasPlan(r)
    BY DEF IInv, SerialInv, HasPlan
  <2>2. s \in Desired(r)
    BY DEF Exists, Desired
  <2>3. s \notin plan[r].rederive
    BY <2>1 DEF RederivedForAReason
  <2>4. /\ versions[parent[r]][s] \in Version
        /\ versions[r][s] = [versions[parent[r]][s] EXCEPT !.carried = TRUE]
    BY <2>1, <2>2, <2>3, SectionsOfARun
  <2> QED
    BY <2>4 DEF Version
<1> QED
  BY RegisterInit, SerialInit, <1>1, <1>2, PTL DEF Spec, IInv

=============================================================================

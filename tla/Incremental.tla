---------------------------- MODULE Incremental ----------------------------
(***************************************************************************)
(* How the register is updated instead of rebuilt: domain/compose.py, the  *)
(* choice of the previous run in start_run, and the node of graph.py that  *)
(* calls them.  A section is composed again only when the facts recorded   *)
(* for it in the dependency map differ from the facts it has now; every    *)
(* other section is copied from the previous completed run.                *)
(*                                                                         *)
(* The dependency map is one table for the whole database, keyed by        *)
(* section alone, and compose commits its own transaction before the       *)
(* node's checkpoint is written.  What a section says is abstracted to     *)
(* what it is derived from: its facts, the kinds of their documents, the   *)
(* vendor's display name and the version of the composer.                  *)
(***************************************************************************)
EXTENDS Naturals, FiniteSets

CONSTANTS
  Doc, Fact, Section,
  DocOf,        \* the document a fact was extracted from
  SectionOf,    \* the section (vendor, term, scope) a fact contributes to
  Inbox,        \* the document sets a caller may start a run with
  SpellingOf,   \* how a document writes the vendor's name
  Kind,         \* the document kinds in use
  Unset,        \* sentinel: document.kind is NULL
  MaxRuns,      \* bound: runs started
  MaxOpen,      \* bound: runs in progress at once
  MaxComposer,  \* bound: values COMPOSER_VERSION takes
  MaxCrashes    \* bound: restarts of the service

Spelling == {"plain", "shouted"}

ASSUME DataAssumption ==
  /\ DocOf \in [Fact -> Doc]
  /\ SectionOf \in [Fact -> Section]
  /\ Inbox \subseteq SUBSET Doc
  /\ SpellingOf \in [Doc -> Spelling]
  /\ "unknown" \in Kind
  /\ Unset \notin Kind

ASSUME BoundAssumption ==
  /\ MaxRuns \in Nat
  /\ MaxOpen \in Nat
  /\ MaxComposer \in Nat \ {0}
  /\ MaxCrashes \in Nat

Run == 1..MaxRuns      \* in the order of started_at
NoRun == 0

\* The kinds that record what happened and never set a term.
Observational == {"invoice", "unknown", "renewal_notice"}

VARIABLES
  phase,      \* how far each run is
  docs,       \* the documents a run was given
  parent,     \* prev_run_id
  asked,      \* the documents a run escalated
  plan,       \* what the open compose transaction of a run has read
  kind,       \* document.kind
  deps,       \* the section_dependency table
  versions,   \* the section_version rows of each run
  composer,   \* COMPOSER_VERSION of the deployed service
  crashes,
  disturbed   \* history: runs have overlapped, failed or been composed twice

docTable == <<docs, parent, asked>>
vars == <<phase, docs, parent, asked, plan, kind, deps, versions, composer,
          crashes, disturbed>>

Phase == {"none", "classify", "escalate", "compose", "planned", "deleted",
          "written", "checked", "completed", "failed"}

\* A row of the dependency map; `by` tells two inserts of one key apart.
Edge == [key : Section, fact : Fact, by : Run]

KindMap == UNION {[D -> Kind] : D \in SUBSET Doc}

\* A section version; `from` is the run that derived its bytes, which the
\* chain of prev_version_id leads to.  No facts: there is no such row.
Version ==
  [facts : SUBSET Fact, kinds : KindMap, name : Spelling,
   ver : 0..MaxComposer, from : Run \cup {NoRun}, carried : BOOLEAN]

\* What a compose transaction has decided and deleted.
Plan ==
  [rederive : SUBSET Section, kinds : KindMap, doomed : SUBSET Edge,
   ver : 0..MaxComposer]

Missing == [facts |-> {}, kinds |-> [d \in {} |-> "unknown"],
            name |-> "plain", ver |-> 0, from |-> NoRun, carried |-> FALSE]

Exists(v) == v.facts # {}

NoPlan == [rederive |-> {}, kinds |-> [d \in {} |-> "unknown"], doomed |-> {},
           ver |-> 0]

Init ==
  /\ phase     = [r \in Run |-> "none"]
  /\ docs      = [r \in Run |-> {}]
  /\ parent    = [r \in Run |-> NoRun]
  /\ asked     = [r \in Run |-> {}]
  /\ plan      = [r \in Run |-> NoPlan]
  /\ kind      = [d \in Doc |-> Unset]
  /\ deps      = {}
  /\ versions  = [r \in Run |-> [s \in Section |-> Missing]]
  /\ composer  = 1
  /\ crashes   = 0
  /\ disturbed = FALSE

Goes(r, p) == phase' = [phase EXCEPT ![r] = p]

Open(r) == phase[r] \notin {"none", "completed", "failed"}

(***************************************************************************)
(* Starting a run, and what its documents are.                             *)
(***************************************************************************)

\* The newest completed run of the corpus.
CompletedRuns == {r \in Run : phase[r] = "completed"}

PreviousRun ==
  LET C == CompletedRuns
  IN IF C = {} THEN NoRun ELSE CHOOSE r \in C : \A q \in C : q <= r

StartRun(r, D) ==
  /\ phase[r] = "none"
  /\ \A q \in Run : q < r => phase[q] # "none"
  /\ Cardinality({q \in Run : Open(q)}) < MaxOpen
  /\ docs' = [docs EXCEPT ![r] = D]
  /\ parent' = [parent EXCEPT ![r] = PreviousRun]
  /\ disturbed' = (disturbed \/ \E q \in Run : Open(q))
  /\ Goes(r, "classify")
  /\ UNCHANGED <<asked, plan, kind, deps, versions, composer, crashes>>

\* classify: a document that has a kind keeps it; another is classified, or
\* escalated with its kind left unset.
Classify(r) ==
  /\ phase[r] = "classify"
  /\ LET new == {d \in docs[r] : kind[d] = Unset}
     IN \E E \in SUBSET new, K \in [new -> Kind] :
          /\ kind' = [d \in Doc |-> IF d \in new \ E THEN K[d] ELSE kind[d]]
          /\ asked' = [asked EXCEPT ![r] = E]
          /\ Goes(r, IF E = {} THEN "compose" ELSE "escalate")
  /\ UNCHANGED <<docs, parent, plan, deps, versions, composer, crashes,
                 disturbed>>

\* escalate: the answer overwrites the kind, whoever set it meanwhile; a
\* document left out of the answer, or answered off the list, keeps its own.
Escalate(r) ==
  /\ phase[r] = "escalate"
  /\ \E A \in SUBSET asked[r], K \in [asked[r] -> Kind] :
       kind' = [d \in Doc |-> IF d \in A THEN K[d] ELSE kind[d]]
  /\ asked' = [asked EXCEPT ![r] = {}]
  /\ Goes(r, "compose")
  /\ UNCHANGED <<docs, parent, plan, deps, versions, composer, crashes,
                 disturbed>>

(***************************************************************************)
(* Composing.                                                              *)
(***************************************************************************)

FactsOf(r) == {f \in Fact : DocOf[f] \in docs[r]}
Contributing(r, s) == {f \in FactsOf(r) : SectionOf[f] = s}
Desired(r) == {s \in Section : Contributing(r, s) # {}}

\* _fact_views: a document with no kind reads as unknown.
RawKind(d) == kind[d]
SeenKind(d) == IF kind[d] = Unset THEN "unknown" ELSE kind[d]

\* display_names: a vendor is written one way in the whole register; a fact
\* that can govern weighs double, a tie goes to the name that is not shouted.
DisplayName(F, K) ==
  LET spelled(w) == {f \in F : SpellingOf[DocOf[f]] = w}
      governing(w) == {f \in spelled(w) : K[DocOf[f]] \notin Observational}
      weight(w) == Cardinality(spelled(w)) + Cardinality(governing(w))
  IN IF weight("plain") >= weight("shouted") THEN "plain" ELSE "shouted"

Recorded(s) == {e.fact : e \in {x \in deps : x.key = s}}

\* plan_recomposition's comparison with the dependency map.
SubsetCountsAsSame(s, F) == Recorded(s) \subseteq F /\ Recorded(s) # {}
SameFacts(s, F) == Recorded(s) = F

\* ... and with the derivation logic that wrote the previous bytes.
AnyComposer(v) == TRUE
SameComposer(v) == v.ver = composer

MustRederive(r, s) ==
  LET p == parent[r] IN
  \/ p = NoRun
  \/ ~Exists(versions[p][s])
  \/ ~SameComposer(versions[p][s])
  \/ ~SameFacts(s, Contributing(r, s))

\* The transaction reads the facts, the kinds, the previous versions and the
\* dependency map (READ COMMITTED: each statement sees what is committed).
ComposePlan(r) ==
  /\ phase[r] = "compose"
  /\ plan' = [plan EXCEPT ![r] =
                [rederive |-> {s \in Desired(r) : MustRederive(r, s)},
                 kinds    |-> [d \in docs[r] |-> SeenKind(d)],
                 doomed   |-> {},
                 ver      |-> composer]]
  /\ Goes(r, "planned")
  /\ UNCHANGED <<docTable, kind, deps, versions, composer, crashes, disturbed>>

\* The delete statements of apply_plan, which see the edges committed so far.
NothingDeleted(r) == {}
Doomed(r) == {e \in deps : e.key \in plan[r].rederive}

ComposeDelete(r) ==
  /\ phase[r] = "planned"
  /\ plan' = [plan EXCEPT ![r].doomed = Doomed(r)]
  /\ Goes(r, "deleted")
  /\ UNCHANGED <<docTable, kind, deps, versions, composer, crashes, disturbed>>

\* ON CONFLICT DO NOTHING: an edge that is there already stays as it is.
Insert(table, new) ==
  table \cup {e \in new : ~\E x \in table : x.key = e.key /\ x.fact = e.fact}

NewEdges(r) ==
  {e \in [key : plan[r].rederive, fact : FactsOf(r), by : {r}] :
     SectionOf[e.fact] = e.key}

Fresh(r, s) ==
  LET F == Contributing(r, s)
      K == plan[r].kinds
  IN [facts |-> F, kinds |-> [d \in {DocOf[f] : f \in F} |-> K[d]],
      name |-> DisplayName(FactsOf(r), K), ver |-> plan[r].ver, from |-> r,
      carried |-> FALSE]

\* Copied, never recomputed - the version that produced the bytes included.
RestampedCopy(r, v) == [v EXCEPT !.carried = TRUE, !.ver = plan[r].ver,
                                 !.from = r]
CopyOf(r, v) == [v EXCEPT !.carried = TRUE]

Written(r) ==
  [s \in Section |->
     IF s \notin Desired(r) THEN Missing
     ELSE IF s \in plan[r].rederive THEN Fresh(r, s)
     ELSE CopyOf(r, versions[parent[r]][s])]

ComposeCommit(r) ==
  /\ phase[r] = "deleted"
  /\ versions' = [versions EXCEPT ![r] = Written(r)]
  /\ deps' = Insert(deps \ plan[r].doomed, NewEdges(r))
  /\ plan' = [plan EXCEPT ![r].doomed = {}]
  /\ Goes(r, "written")
  /\ UNCHANGED <<docTable, kind, composer, crashes, disturbed>>

Checkpoint(r) ==
  /\ phase[r] = "written"
  /\ Goes(r, "checked")
  /\ UNCHANGED <<docTable, plan, kind, deps, versions, composer, crashes,
                 disturbed>>

\* verify, gate and commit - or blocked.  A run may also stay at its gate.
Finish(r) ==
  /\ phase[r] = "checked"
  /\ \/ Goes(r, "completed") /\ UNCHANGED disturbed
     \/ Goes(r, "failed") /\ disturbed' = TRUE
  /\ UNCHANGED <<docTable, plan, kind, deps, versions, composer, crashes>>

\* The service dies, rolls back its open transactions and comes back, with a
\* later composer or the same; resumed runs run compose from its start.
Restart ==
  /\ crashes < MaxCrashes
  /\ crashes' = crashes + 1
  /\ composer' \in composer..MaxComposer
  /\ phase' = [r \in Run |->
                 IF phase[r] \in {"planned", "deleted", "written"}
                 THEN "compose" ELSE phase[r]]
  /\ disturbed' = (disturbed \/ \E r \in Run : phase[r] = "written")
  /\ UNCHANGED <<docTable, plan, kind, deps, versions>>

Compose(r) == ComposePlan(r) \/ ComposeDelete(r) \/ ComposeCommit(r)

Next ==
  \/ \E r \in Run : \E D \in Inbox : StartRun(r, D)
  \/ \E r \in Run : Classify(r) \/ Escalate(r) \/ Compose(r)
                      \/ Checkpoint(r) \/ Finish(r)
  \/ Restart

Spec == Init /\ [][Next]_vars

-----------------------------------------------------------------------------
Composed(r) == phase[r] \in {"written", "checked", "completed", "failed"}

\* Every variable stays in its type; a kind that is still NULL never reaches
\* a section.
TypeOK ==
  /\ phase \in [Run -> Phase]
  /\ docs \in [Run -> SUBSET Doc]
  /\ parent \in [Run -> Run \cup {NoRun}]
  /\ asked \in [Run -> SUBSET Doc]
  /\ plan \in [Run -> Plan]
  /\ kind \in [Doc -> Kind \cup {Unset}]
  /\ deps \subseteq Edge
  /\ versions \in [Run -> [Section -> Version]]
  /\ composer \in 1..MaxComposer
  /\ crashes \in Nat
  /\ disturbed \in BOOLEAN

\* While each run completes before the next one starts, the register is about
\* the facts it claims to be about: no section of it is left over from facts
\* its run no longer has, or lacks facts its run now has.
FactsAreCurrent ==
  ~disturbed =>
    \A r \in Run, s \in Section :
      Composed(r) => versions[r][s].facts = Contributing(r, s)

\* An update costs like an update: in the same undisturbed order, a section
\* whose facts and composer are those of the previous run is never composed
\* again (a stale edge would mean phantom re-derivations for ever).
UnchangedIsCarried ==
  ~disturbed =>
    \A r \in Run, s \in Section :
      LET prior == versions[parent[r]][s] IN
      /\ Composed(r) /\ parent[r] # NoRun
      /\ Exists(prior) /\ prior.facts = Contributing(r, s)
      /\ prior.ver = plan[r].ver
      => versions[r][s].carried

\* Untouched sections are byte-identical to the previous run's, their
\* provenance and composer version included - under any overlap, failure or
\* re-entry of compose.
CarriedForwardIsVerbatim ==
  \A r \in Run, s \in Section :
    Composed(r) /\ versions[r][s].carried =>
      /\ parent[r] # NoRun
      /\ [versions[parent[r]][s] EXCEPT !.carried = TRUE] = versions[r][s]

\* A change of derivation logic invalidates everything composed before it: a
\* register never mixes sections of two composers.
OneComposerPerRegister ==
  \A r \in Run, s \in Section :
    Composed(r) /\ Exists(versions[r][s]) => versions[r][s].ver = plan[r].ver

(***************************************************************************)
(* What the repository says of compose and the code does not deliver.      *)
(***************************************************************************)

\* A new document invalidates the sections whose facts it changes.
NewFactsInvalidate ==
  \A r \in Run, s \in Section :
    phase[r] = "completed" => versions[r][s].facts = Contributing(r, s)

\* Reuse is invalidated by everything the output depends on: what governs is
\* decided by the kinds the run's documents have when it is composed.
KindsInvalidate ==
  \A r \in Run, s \in Section :
    Composed(r) =>
      \A d \in DOMAIN versions[r][s].kinds :
        d \in DOMAIN plan[r].kinds
          => versions[r][s].kinds[d] = plan[r].kinds[d]

=============================================================================

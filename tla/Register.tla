----------------------------- MODULE Register -----------------------------
(***************************************************************************)
(* What a run decides about the facts it was given: domain/reconcile.py,   *)
(* conflicts.py, adjudicate.py, rules.py, verify.py and changes.py, in the *)
(* nodes of services/graph.py from detect_conflicts to the end of the run. *)
(*                                                                         *)
(* detect_conflicts, compose and examine each build their own view of the  *)
(* facts.  A view is a query without ORDER BY joined with the kinds the    *)
(* documents have at that moment, so two nodes of one run may see the      *)
(* rows in two orders, and another run may settle a kind in between.       *)
(*                                                                         *)
(* Runs follow one another and a node is one step: FactTables and          *)
(* Incremental have the runs that overlap.  One vendor; values that agree  *)
(* when normalized are one number, and a predicate determines its unit.    *)
(***************************************************************************)
EXTENDS Integers, Sequences, FiniteSets, SequencesExt, FiniteSetsExt

CONSTANTS
  Fact, Doc,
  Said,       \* what each fact says, and whether its chunk still shows it
  DatedAt,    \* document_date, 0 when there is none
  FirstKinds, \* what the kinds may be when the first run detects
  Kind,       \* the kinds in use
  Settles,    \* bound: the documents another run may settle, and as what
  Rules,      \* the playbook
  RowOrders,  \* bound: the orders the query returns the rows in
  Inbox,      \* the document sets a run may be given
  MaxRuns,    \* bound: runs
  MaxMoves    \* bound: kinds settled meanwhile

Governing == {"msa", "sow", "amendment"}

ASSUME RegisterAssumption ==
  /\ IsFiniteSet(Fact)
  /\ Said \in [Fact -> [doc : Doc, predicate : STRING, value : Nat, measured : BOOLEAN,
                        date : Nat, row : STRING, resolves : BOOLEAN]]
  /\ DatedAt \in [Doc -> Nat]
  /\ FirstKinds \subseteq [Doc -> Kind] /\ Settles \subseteq Doc \X Kind
  /\ \A o \in RowOrders : o \in [Fact -> 1..Cardinality(Fact)] /\ IsInjective(o)
  /\ Inbox \subseteq SUBSET Doc
  /\ MaxRuns \in Nat /\ MaxMoves \in Nat

VARIABLES
  kind,      \* document.kind, "unknown" when it is not set
  run,       \* the run under way, or the last one
  done,      \* the last completed run
  deps,      \* the section_dependency table
  conflict,  \* the conflict table
  runs, moves,
  seen,      \* history: the last detection
  ruled,     \* history: the conflicts a human has rejected
  failed     \* history: a run has ended without completing

vars == <<kind, run, done, deps, conflict, runs, moves, seen, ruled, failed>>

(***************************************************************************)
(* Views.                                                                  *)
(***************************************************************************)
Value(f) == Said[f].value
Measured(f) == Said[f].measured
KindOf(f) == kind[Said[f].doc]

\* A fact that carries no date of its own has its document's.
Dated(f) == IF Said[f].date # 0 THEN Said[f].date ELSE DatedAt[Said[f].doc]

\* One engagement, one row of a rate card, or both.
Scope(f) == [engagement |-> IF KindOf(f) = "sow" THEN {Said[f].doc} ELSE {},
             row |-> Said[f].row]
AgreementWide == [engagement |-> {}, row |-> ""]

Term(f) == [predicate |-> Said[f].predicate, scope |-> Scope(f)]
Views(D) == {f \in Fact : Said[f].doc \in D}
About(F, t) == {f \in F : Term(f) = t}

Governs(f) == KindOf(f) \in Governing
Precedence(f) == CASE KindOf(f) = "msa" -> 10
                   [] KindOf(f) = "sow" -> 20
                   [] KindOf(f) = "amendment" -> 30

(***************************************************************************)
(* reconcile: the later date, then the higher precedence, then whatever    *)
(* the query returned last.                                                *)
(***************************************************************************)
Outranks(f, g) ==
  \/ Dated(f) > Dated(g)
  \/ Dated(f) = Dated(g) /\ Precedence(f) > Precedence(g)

SameRank(f, g) == Dated(f) = Dated(g) /\ Precedence(f) = Precedence(g)

Before(f, g, o) == Outranks(g, f) \/ (SameRank(f, g) /\ o[f] < o[g])

\* Mutant: nothing tells the last ones apart.
WinnerOfRank(F, o) ==
  {f \in F : Governs(f) /\ \A g \in F : Governs(g) => ~Outranks(g, f)}

\* The winner as a set: empty when nothing governs.
Winner(F, o) ==
  {f \in F : Governs(f) /\ \A g \in F \ {f} : Governs(g) => Before(g, f, o)}

\* Mutant: what governs now.
InForceNow(F, day) == {f \in F : Governs(f) /\ Dated(f) > 0}

\* governing_value_at
InForce(F, day) == {f \in F : Governs(f) /\ Dated(f) \in 1..day}

WinnerAt(F, day, o) == Winner(InForce(F, day), o)

(***************************************************************************)
(* detect.  Comparator 1: two instruments nothing orders.                  *)
(***************************************************************************)
Comparable(f, g) == Measured(f) /\ Measured(g)

Findings == {"same_predicate_different_value", "temporal_precedence",
             "arithmetic_mismatch"}

Candidate(what, a, b) == [what |-> what, a |-> a, b |-> b]

\* Mutant: undated instruments are left alone.
UnorderedIfDated(f, g) == SameRank(f, g) /\ Dated(f) > 0

Unordered(f, g) == SameRank(f, g)

Ties(F, o) ==
  {Candidate("same_predicate_different_value", p[1], p[2]) :
     p \in {q \in F \X F : /\ o[q[1]] < o[q[2]]
                           /\ Governs(q[1]) /\ Governs(q[2])
                           /\ Term(q[1]) = Term(q[2])
                           /\ Unordered(q[1], q[2])
                           /\ Comparable(q[1], q[2])
                           /\ Value(q[1]) # Value(q[2])}}

(***************************************************************************)
(* Comparator 2: a document acted on another value than the one in force   *)
(* on its day.  One finding per document and term.                         *)
(***************************************************************************)
\* What was billed is evidence of what was agreed.
Observes(f) ==
  [Term(f) EXCEPT !.predicate = IF @ = "invoice_rate" THEN "hourly_rate" ELSE @]

Expected(F, f, o) ==
  {g \in WinnerAt({h \in F : Observes(h) = Observes(f)}, Dated(f), o) :
     Comparable(f, g) /\ Value(f) # Value(g)}

Problem(f) == <<Said[f].doc, Observes(f)>>

Stale(F, o) ==
  LET raised == {f \in F : ~Governs(f) /\ Dated(f) > 0 /\ Expected(F, f, o) # {}}
      firsts == {f \in raised : \A g \in raised : Problem(g) = Problem(f) => o[f] <= o[g]}
  IN UNION {{Candidate("temporal_precedence", f, g) :
               g \in Expected(F, f, o)} : f \in firsts}

(***************************************************************************)
(* Comparator 3: a line whose rate and hours do not make its amount.       *)
(***************************************************************************)
Line(f) == <<Said[f].doc, Scope(f)>>
Reads(F, l, p) == {f \in F : Line(f) = l /\ Said[f].predicate = p}

\* Mutant: any copy.
FirstReading(F, l, p, o) ==
  {f \in Reads(F, l, p) : \A g \in Reads(F, l, p) : Measured(f) /\ o[f] <= o[g]}

\* Copies that agree are one statement, copies that do not are none.
Unambiguous(F, l, p, o) ==
  LET R == Reads(F, l, p)
  IN {f \in R : \A g \in R : Comparable(f, g) /\ Value(g) = Value(f) /\ o[f] <= o[g]}

\* Mutant: headline figures are a line like any other.
HeadlineIsALine(F, l) == FALSE

\* The headline figures of a document that itemises summarise its lines.
Headline(F, l) ==
  l[2] = AgreementWide /\ \E f \in F : Said[f].doc = l[1] /\ Scope(f) # AgreementWide

MismatchOn(F, l, o) ==
  {Candidate("arithmetic_mismatch", p[1], p[2]) :
     p \in {q \in Unambiguous(F, l, "invoice_amount", o)
                  \X Unambiguous(F, l, "invoice_rate", o)
                  \X Unambiguous(F, l, "invoice_hours", o) :
              Value(q[2]) * Value(q[3]) # Value(q[1])}}

Mismatches(F, o) ==
  UNION {MismatchOn(F, l, o) : l \in {k \in {Line(f) : f \in F} : ~Headline(F, k)}}

Detected(F, o) == Ties(F, o) \cup Stale(F, o) \cup Mismatches(F, o)

(***************************************************************************)
(* adjudicate: each candidate is judged, and has a row from then on.       *)
(***************************************************************************)
\* Rows are found by their facts in this order.
SamePair(x, c) == x.what = c.what /\ x.a = c.a /\ x.b = c.b
Existing(c) == {x \in conflict : SamePair(x, c)}
Settled(c) == \E x \in Existing(c) : x.status # "open"

\* Nothing writes the status of a row again.
Opened(c, real) == [what |-> c.what, a |-> c.a, b |-> c.b,
                    status |-> IF real THEN "open" ELSE "dismissed"]

(***************************************************************************)
(* The register.  A row is what it shows and the facts it cites.           *)
(***************************************************************************)
Terms(F) == {Term(f) : f \in F}
Shown(f) == <<Measured(f), Value(f)>>

\* A list, as what it shows at each place.
Ranked(F, o) == {<<Cardinality({g \in F : Before(g, f, o)}), Shown(f)>> : f \in F}
Listed(F, o) == {<<Cardinality({g \in F : o[g] < o[f]}), Shown(f)>> : f \in F}

Row(F, o) ==
  LET governing == Winner(F, o)
      instruments == {f \in F : Governs(f)}
  IN [governing |-> governing,
      facts |-> F,
      content |-> [value |-> {Shown(f) : f \in governing},
                   source |-> {KindOf(f) : f \in governing},
                   since |-> {Dated(f) : f \in governing},
                   superseded |-> Ranked(instruments \ governing, o),
                   observed |-> Listed(F \ instruments, o)]]

Reconciled(F, o) == [t \in Terms(F) |-> Row(About(F, t), o)]

NoRegister == [t \in {} |-> {}]
Recorded(t) == IF t \in DOMAIN deps THEN deps[t] ELSE {}

\* Mutant: fewer facts count as no change.
CarriesSubset(t, row) ==
  /\ done.exists /\ t \in DOMAIN done.register
  /\ Recorded(t) \subseteq row.facts

\* plan_recomposition (Incremental has the version of the composer).
Carries(t, row) ==
  /\ done.exists /\ t \in DOMAIN done.register
  /\ Recorded(t) = row.facts

(***************************************************************************)
(* The playbook: it reads agreement-wide rows only.                        *)
(***************************************************************************)
AgreementRows(reg) ==
  [t \in {u \in DOMAIN reg : u.scope = AgreementWide} |-> reg[t].governing]

InForceOf(rows, p) == UNION {rows[t] : t \in {u \in DOMAIN rows : u.predicate = p}}

\* Operands are numbers or the magnitude of another term.
Amounts(rows, x) ==
  IF x.name = "" THEN {x.amount}
                 ELSE {Value(f) : f \in {g \in InForceOf(rows, x.name) : Measured(g)}}

Applied(op, x, y) == CASE op = "*" -> x * y [] op = "+" -> x + y [] op = "-" -> x - y

\* evaluate_expression, from left to right: none when an operand is not known.
Limits(rows, expr) ==
  FoldLeft(LAMBDA totals, s :
             {Applied(s.op, p[1], p[2]) : p \in totals \X Amounts(rows, s.operand)},
           Amounts(rows, expr.first), expr.steps)

Violation(r, F, checked) == [rule |-> r.code, fact |-> F, checked |-> checked]

Breaks(r, x, limit) == IF r.kind = "numeric_min" THEN x < limit ELSE x > limit

RuleFindings(rows, r) ==
  LET F == InForceOf(rows, r.predicate)
      limits == Limits(rows, r.limit)
  IN IF r.kind = "presence_required"
     THEN IF F = {} THEN {Violation(r, {}, TRUE)} ELSE {}
     ELSE {Violation(r, {f}, FALSE) : f \in {g \in F : ~Measured(g) \/ limits = {}}}
          \cup {Violation(r, {f}, TRUE) :
                  f \in {g \in F : Measured(g) /\ \E x \in limits : Breaks(r, Value(g), x)}}

\* A vendor with no agreement-wide row is not examined.
Evaluated(reg) ==
  LET rows == AgreementRows(reg)
  IN IF DOMAIN rows = {} THEN {} ELSE UNION {RuleFindings(rows, r) : r \in Rules}

(***************************************************************************)
(* The steps of a run.                                                     *)
(***************************************************************************)
NoRun == [pc |-> "none", docs |-> {}, facts |-> {}, cands |-> {}, found |-> {},
          register |-> NoRegister, findings |-> {}]

Init ==
  /\ kind \in FirstKinds
  /\ run = NoRun
  /\ done = [exists |-> FALSE, docs |-> {}, register |-> NoRegister]
  /\ deps = NoRegister
  /\ conflict = {}
  /\ runs = 0 /\ moves = 0
  /\ seen = [docs |-> {}, cands |-> {}]
  /\ ruled = {}
  /\ failed = FALSE

UnderWay == run.pc \notin {"none", "completed", "failed"}

\* Ingested, classified and extracted.
Start(D) ==
  /\ ~UnderWay
  /\ runs < MaxRuns /\ runs' = runs + 1
  /\ run' = [NoRun EXCEPT !.pc = "detect", !.docs = D, !.facts = Views(D)]
  /\ UNCHANGED <<kind, done, deps, conflict, moves, seen, ruled, failed>>

Detect ==
  /\ run.pc = "detect"
  /\ \E cands \in {Detected(run.facts, o) : o \in RowOrders} :
       /\ run' = [run EXCEPT !.cands = cands,
                             !.pc = IF cands = {} THEN "compose" ELSE "adjudicate"]
       /\ seen' = [docs |-> run.docs, cands |-> cands]
  /\ UNCHANGED <<kind, done, deps, conflict, runs, moves, ruled, failed>>

Adjudicate ==
  /\ run.pc = "adjudicate"
  /\ \E real \in SUBSET run.cands :
       /\ conflict' = conflict \cup
            {Opened(c, c \in real) : c \in {d \in run.cands : Existing(d) = {}}}
       /\ run' = [run EXCEPT !.pc = "compose",
                             !.found = {c \in real : ~Settled(c)}]
  /\ UNCHANGED <<kind, done, deps, runs, moves, seen, ruled, failed>>

Compose ==
  /\ run.pc = "compose"
  /\ \E desired \in {Reconciled(run.facts, o) : o \in RowOrders} :
       /\ run' = [run EXCEPT !.pc = "examine",
            !.register = [t \in DOMAIN desired |->
               IF Carries(t, desired[t]) THEN done.register[t] ELSE desired[t]]]
       /\ deps' = [t \in DOMAIN deps \cup DOMAIN desired |->
            IF t \in DOMAIN desired THEN desired[t].facts ELSE deps[t]]
  /\ UNCHANGED <<kind, done, conflict, runs, moves, seen, ruled, failed>>

\* Stage A reconciles once more.
Examine ==
  /\ run.pc = "examine"
  /\ \E reg \in {Reconciled(run.facts, o) : o \in RowOrders} :
       run' = [run EXCEPT !.pc = "verify", !.findings = Evaluated(reg)]
  /\ UNCHANGED <<kind, done, deps, conflict, runs, moves, seen, ruled, failed>>

Unresolved(reg) ==
  {f \in UNION {reg[t].facts : t \in DOMAIN reg} : ~Said[f].resolves}

\* Stage C; what it refuses is blocked.
Verify ==
  /\ run.pc = "verify"
  /\ run' = [run EXCEPT !.pc = IF Unresolved(run.register) = {} THEN "gate" ELSE "failed"]
  /\ failed' = (failed \/ Unresolved(run.register) # {})
  /\ UNCHANGED <<kind, done, deps, conflict, runs, moves, seen, ruled>>

\* The gate and commit: every finding is approved or rejected.
Commit ==
  /\ run.pc = "gate"
  /\ \E rejected \in SUBSET run.found : ruled' = ruled \cup rejected
  /\ run' = [run EXCEPT !.pc = "completed"]
  /\ done' = [exists |-> TRUE, docs |-> run.docs, register |-> run.register]
  /\ UNCHANGED <<kind, deps, conflict, runs, moves, seen, failed>>

\* A node raised, or the service was restarted and nobody resumes the run.
Abandon ==
  /\ UnderWay
  /\ run' = [run EXCEPT !.pc = "failed"]
  /\ failed' = TRUE
  /\ UNCHANGED <<kind, done, deps, conflict, runs, moves, seen, ruled>>

\* Another run classifies a document, or has its escalation answered.
Reclassified(d, k) ==
  /\ kind[d] # k
  /\ moves < MaxMoves /\ moves' = moves + 1
  /\ kind' = [kind EXCEPT ![d] = k]
  /\ UNCHANGED <<run, done, deps, conflict, runs, seen, ruled, failed>>

Next ==
  \/ \E D \in Inbox : Start(D)
  \/ Detect \/ Adjudicate \/ Compose \/ Examine \/ Verify \/ Commit \/ Abandon
  \/ \E s \in Settles : Reclassified(s[1], s[2])

Spec == Init /\ [][Next]_vars

(***************************************************************************)
(* The change report of a run against its predecessor.                     *)
(***************************************************************************)
\* Documents where the code has their base names: a name is unique in a corpus.
Sources(row) == {Said[f].doc : f \in row.facts}

Status(t) ==
  IF t \notin DOMAIN done.register THEN "added"
  ELSE IF run.register[t].content # done.register[t].content THEN "changed" ELSE "unchanged"

\* Mutant: every document behind the row.
CausedByAll(t) == Sources(run.register[t])

CausedBy(t) ==
  LET now == Sources(run.register[t])
      then == IF t \in DOMAIN done.register THEN Sources(done.register[t]) ELSE {}
  IN IF now \subseteq then THEN now ELSE now \ then

(***************************************************************************)
(* What the decisions promise.                                             *)
(***************************************************************************)
Undisturbed == moves = 0 /\ ~failed
Composed == run.pc \in {"examine", "verify", "gate", "completed"}
Examined == run.pc \in {"verify", "gate", "completed"}

\* Two instruments for one term of which reconcile puts neither before the
\* other; they are tied when they differ in the value.
Level(f, g) ==
  /\ Governs(f) /\ Governs(g) /\ Term(f) = Term(g)
  /\ ~Outranks(f, g) /\ ~Outranks(g, f)
Tied(f, g) == Level(f, g) /\ Value(f) # Value(g)

\* Whichever of two level instruments a bill is held against, it says the same.
LevelOnesAgree(F) ==
  \A f, g \in F :
    Governs(f) /\ Governs(g) /\ Observes(f) = Observes(g) /\ SameRank(f, g)
      => Shown(f) = Shown(g)

\* What comparator 2 found about some documents.
StaleIn(cands, D) ==
  {Problem(c.a) : c \in {d \in cands : d.what = "temporal_precedence"
                                       /\ Said[d.a].doc \in D}}

\* A row governs by one fact that it cites, a candidate is about facts of the
\* run and a finding is one of them, and a completed run cites only what
\* resolves.
TypeOK ==
  /\ kind \in [Doc -> Kind]
  /\ run.docs \subseteq Doc
  /\ \A c \in run.cands : {c.a, c.b} \subseteq run.facts
  /\ run.found \subseteq run.cands
  /\ \A reg \in {run.register, done.register} : \A t \in DOMAIN reg :
       /\ Cardinality(reg[t].governing) <= 1
       /\ reg[t].governing \subseteq reg[t].facts
  /\ Unresolved(done.register) = {}
  /\ conflict \subseteq [what : Findings, a : Fact, b : Fact, status : {"open", "dismissed"}]

\* I4 (reconcile.py) with comparator 1: where the order of the rows alone
\* decided which of two amounts governs, a conflict about the two is on
\* record before the register shows one of them.
TiesAreReported ==
  Composed /\ Undisturbed =>
    \A t \in DOMAIN run.register : \A f \in run.register[t].governing :
      \A g \in run.register[t].facts :
        Tied(f, g) /\ Comparable(f, g) => \E x \in conflict : {x.a, x.b} = {f, g}

\* Comparator 2: documents that arrive and are dated later leave what was
\* found about earlier ones as it was, in whatever order the rows come the
\* second time.  Level instruments that disagree apart: there that order
\* decides what an observation is held against.
LaterInstrumentsLeaveOldFindings ==
  [][LET old == Views(seen.docs)
         arrived == Views(seen'.docs) \ old
     IN /\ moves = 0 /\ LevelOnesAgree(old)
        /\ seen.docs \subseteq seen'.docs
        /\ \A f \in arrived, g \in old :
             Governs(f) /\ Dated(f) > 0 /\ ~Governs(g) => Dated(f) > Dated(g)
        => StaleIn(seen'.cands, seen.docs) = StaleIn(seen.cands, seen.docs)]_seen

\* Comparator 3: a mismatch is on the bill and not an artifact.  Its line
\* states a rate, hours and an amount; no choice among the copies of these
\* multiplies out; and where the line is the headline of a document, no fact
\* of that document is about a line of its own.
MismatchesAreOnTheBill ==
  \A c \in {d \in run.cands : d.what = "arithmetic_mismatch"} :
    moves = 0 =>
      LET copies(p) == {f \in run.facts : Line(f) = Line(c.a) /\ Said[f].predicate = p}
      IN /\ \A p \in {"invoice_amount", "invoice_rate", "invoice_hours"} : copies(p) # {}
         /\ \A a \in copies("invoice_amount"), r \in copies("invoice_rate"),
               h \in copies("invoice_hours") : Value(r) * Value(h) # Value(a)
         /\ Scope(c.a) = AgreementWide =>
              \A f \in run.facts : Said[f].doc = Said[c.a].doc => Scope(f) = AgreementWide

\* examine reconciles anew, after compose: its findings are those the
\* register it is shown with gives rise to, unless only the order of the rows
\* chose an instrument (of two that agree in the value a finding may cite the
\* other one), a kind was settled in between, or carried rows were those of a
\* failed run.
FindingsSpeakOfTheRegister ==
  /\ Examined /\ Undisturbed
  /\ \A f, g \in run.facts : Level(f, g) => f = g
  => run.findings = Evaluated(run.register)

\* changes.py: while documents are only added and nothing disturbs the runs,
\* a row changes or appears only because of documents that have arrived since
\* the predecessor, and exactly those are named.
ChangesNameTheArrival ==
  Composed /\ run.pc # "completed" /\ Undisturbed /\ done.docs \subseteq run.docs =>
    \A t \in DOMAIN run.register :
      Status(t) # "unchanged" =>
        CausedBy(t) = {Said[f].doc : f \in About(run.facts, t)} \ done.docs

(***************************************************************************)
(* What the code says of itself and does not do.                           *)
(***************************************************************************)

\* The comment in adjudicate_conflicts: what a human has ruled on is not
\* raised again by a later run, so decisions stick.
DecisionsStick == run.pc # "completed" => run.found \cap ruled = {}

=============================================================================

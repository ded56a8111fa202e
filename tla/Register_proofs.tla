-------------------------- MODULE Register_proofs ---------------------------
(***************************************************************************)
(* Proofs about Register, for any facts, documents, kinds, playbook, row   *)
(* orders, inboxes and bounds.                                             *)
(***************************************************************************)
EXTENDS Register, FiniteSetTheorems, WellFoundedInduction, TLAPS

(***************************************************************************)
(* The order of the instruments.                                           *)
(***************************************************************************)
\* The dates and the precedence of instruments are numbers.
LEMMA Ranks ==
  ASSUME NEW f \in Fact
  PROVE  /\ Dated(f) \in Nat
         /\ Governs(f) => Precedence(f) \in Nat
<1>1. Said[f].date \in Nat /\ Said[f].doc \in Doc
  BY RegisterAssumption
<1>2. Dated(f) \in Nat
  BY <1>1, RegisterAssumption DEF Dated
<1>3. Governs(f) => Precedence(f) \in Nat
  BY DEF Governs, Governing, Precedence
<1> QED
  BY <1>2, <1>3

\* Rows come in some order.
LEMMA RowsAreNumbered ==
  ASSUME NEW o \in RowOrders
  PROVE  /\ o \in [Fact -> Nat] /\ Cardinality(Fact) \in Nat
         /\ \A f \in Fact : o[f] \in Nat /\ Cardinality(Fact) - o[f] \in Nat
<1>1. Cardinality(Fact) \in Nat
  BY RegisterAssumption, FS_CardinalityType
<1>2. o \in [Fact -> 1..Cardinality(Fact)]
  BY RegisterAssumption
<1> QED
  BY <1>1, <1>2

\* Whatever order the rows come in, it puts one of two instruments first.
LEMMA BeforeIsStrict ==
  ASSUME NEW f \in Fact, NEW g \in Fact, NEW o \in RowOrders,
         Governs(f), Governs(g), Before(f, g, o), Before(g, f, o)
  PROVE  FALSE
<1>1. /\ Dated(f) \in Nat /\ Dated(g) \in Nat
      /\ Precedence(f) \in Nat /\ Precedence(g) \in Nat
  BY Ranks
<1>2. o[f] \in Nat /\ o[g] \in Nat
  BY RowsAreNumbered
<1> QED
  BY <1>1, <1>2 DEF Before, Outranks, SameRank

\* Only one instrument wins.
LEMMA OneWinner ==
  ASSUME NEW F \in SUBSET Fact, NEW o \in RowOrders,
         NEW f \in Winner(F, o), NEW g \in Winner(F, o)
  PROVE  f = g
  BY BeforeIsStrict DEF Winner

\* Where the rank decides everything, the order of the rows decides nothing.
LEMMA WinnerByRank ==
  ASSUME NEW F \in SUBSET Fact, NEW o \in RowOrders, NEW p \in RowOrders,
         \A f, g \in F : Governs(f) /\ Governs(g) /\ SameRank(f, g) => f = g
  PROVE  Winner(F, o) = Winner(F, p)
<1>1. ASSUME NEW f \in F, NEW g \in F \ {f}, Governs(f), Governs(g)
      PROVE  Before(g, f, o) = Before(g, f, p)
  <2>1. ~SameRank(g, f)
    BY <1>1
  <2> QED
    BY <2>1 DEF Before
<1> QED
  BY <1>1 DEF Winner

-----------------------------------------------------------------------------
(***************************************************************************)
(* The inductive invariant, in five parts.                                 *)
(***************************************************************************)
RunStates == {"none", "detect", "adjudicate", "compose", "examine", "verify",
              "gate", "completed", "failed"}

Cands == [what : Findings, a : Fact, b : Fact]

RunsWith(register, findings) ==
  [pc : RunStates, docs : SUBSET Doc, facts : SUBSET Fact,
   cands : SUBSET Cands, found : SUBSET Cands,
   register : {register}, findings : {findings}]

\* A run is a record of these fields, over the facts of its documents.
WellFormed ==
  /\ run \in RunsWith(run.register, run.findings)
  /\ run.facts = Views(run.docs)
  /\ run.cands \subseteq [what : Findings, a : run.facts, b : run.facts]
  /\ run.found \subseteq run.cands
  /\ run.pc \in {"none", "detect"} => run.cands = {}
  /\ done.exists \in BOOLEAN /\ done.docs \in SUBSET Doc
  /\ ~done.exists => DOMAIN done.register = {}
  /\ conflict \subseteq [what : Findings, a : Fact, b : Fact,
                         status : {"open", "dismissed"}]
  /\ kind \in [Doc -> Kind]
  /\ moves \in Nat
  /\ failed \in BOOLEAN /\ (run.pc = "failed" => failed)

\* A row governs by at most one fact, which it cites.
Sound(row) ==
  /\ row.governing \subseteq row.facts /\ row.facts \subseteq Fact
  /\ \A f, g \in row.governing : f = g

RowsInv ==
  /\ \A t \in DOMAIN run.register : Sound(run.register[t])
  /\ \A t \in DOMAIN done.register : Sound(done.register[t])
  /\ run.pc \in {"gate", "completed"} => Unresolved(run.register) = {}
  /\ Unresolved(done.register) = {}

\* Until a kind is settled, the candidates are what the rows still give, and
\* each one that was judged has a conflict row.
CandsInv ==
  /\ moves = 0 =>
       \/ run.cands = {} /\ run.pc \in {"none", "detect", "failed"}
       \/ \E o \in RowOrders : run.cands = Detected(run.facts, o)
  /\ run.pc \in {"compose", "examine", "verify", "gate", "completed"} =>
       \A c \in run.cands : \E x \in conflict : SamePair(x, c)

\* While no run has failed, the dependency table holds the facts of the rows
\* it was last written for, and a row that is not the predecessor's has other
\* facts.
Writing == run.pc \in {"examine", "verify", "gate"}

DepsInv ==
  ~failed =>
    /\ Writing =>
         \A t \in DOMAIN run.register :
           /\ t \in DOMAIN deps /\ deps[t] = run.register[t].facts
           /\ t \in DOMAIN done.register =>
                \/ run.register[t] = done.register[t]
                \/ run.register[t].facts # done.register[t].facts
    /\ ~Writing =>
         \A t \in DOMAIN done.register :
           t \in DOMAIN deps /\ deps[t] = done.register[t].facts

\* Until a kind is settled or a run fails, every row, carried ones included,
\* is the one its documents give in some order of the rows.
Reproduces(reg, D) ==
  /\ DOMAIN reg = Terms(Views(D))
  /\ \A t \in DOMAIN reg :
       \E o \in RowOrders : reg[t] = Row(About(Views(D), t), o)

RegisterInv ==
  Undisturbed =>
    /\ Reproduces(done.register, done.docs)
    /\ Composed => Reproduces(run.register, run.docs)
    /\ Examined => \E o \in RowOrders :
                     run.findings = Evaluated(Reconciled(run.facts, o))

IInv == WellFormed /\ RowsInv /\ CandsInv /\ DepsInv /\ RegisterInv


-----------------------------------------------------------------------------
(***************************************************************************)
(* What depends on the kinds alone is the same while they are.             *)
(***************************************************************************)
LEMMA SameFactsWhileSameKinds ==
  ASSUME kind' = kind
  PROVE  \A f : /\ KindOf(f)' = KindOf(f) /\ Governs(f)' = Governs(f)
                /\ Precedence(f)' = Precedence(f)
                /\ Scope(f)' = Scope(f) /\ Term(f)' = Term(f)
                /\ Observes(f)' = Observes(f)
<1>1. \A f : KindOf(f)' = KindOf(f)
  BY DEF KindOf
<1>2. \A f : Governs(f)' = Governs(f)
  BY <1>1 DEF Governs
<1>3. \A f : Precedence(f)' = Precedence(f)
  BY <1>1, Zenon DEF Precedence
<1>4. \A f : Scope(f)' = Scope(f)
  BY <1>1 DEF Scope
<1>5. \A f : Term(f)' = Term(f)
  BY <1>4 DEF Term
<1>6. \A f : Observes(f)' = Observes(f)
  BY <1>5 DEF Observes
<1> QED
  BY <1>1, <1>2, <1>3, <1>4, <1>5, <1>6

LEMMA SameOrderWhileSameKinds ==
  ASSUME kind' = kind
  PROVE  /\ \A f, g : Outranks(f, g)' = Outranks(f, g)
         /\ \A f, g : SameRank(f, g)' = SameRank(f, g)
         /\ \A f, g, o : Before(f, g, o)' = Before(f, g, o)
         /\ \A F, o : Winner(F, o)' = Winner(F, o)
<1>1. \A f, g : Outranks(f, g)' = Outranks(f, g)
  BY SameFactsWhileSameKinds DEF Outranks
<1>2. \A f, g : SameRank(f, g)' = SameRank(f, g)
  BY SameFactsWhileSameKinds, Zenon DEF SameRank
<1>3. \A f, g, o : Before(f, g, o)' = Before(f, g, o)
  BY <1>1, <1>2, Zenon DEF Before
<1>4. \A F, o : Winner(F, o)' = Winner(F, o)
  BY <1>3, SameFactsWhileSameKinds DEF Winner
<1> QED
  BY <1>1, <1>2, <1>3, <1>4

LEMMA SameRowsWhileSameKinds ==
  ASSUME kind' = kind
  PROVE  /\ \A F, o : Row(F, o)' = Row(F, o)
         /\ \A F, t : About(F, t)' = About(F, t)
         /\ \A F : Terms(F)' = Terms(F)
         /\ \A F, o : Reconciled(F, o)' = Reconciled(F, o)
<1>1. \A F, o : Ranked(F, o)' = Ranked(F, o)
  BY SameOrderWhileSameKinds DEF Ranked
<1>2. \A F, o : Row(F, o)' = Row(F, o)
  BY <1>1, SameOrderWhileSameKinds, SameFactsWhileSameKinds DEF Row
<1>3. \A F, t : About(F, t)' = About(F, t)
  BY SameFactsWhileSameKinds DEF About
<1>4. \A F : Terms(F)' = Terms(F)
  BY SameFactsWhileSameKinds DEF Terms
<1>5. \A F, o : Reconciled(F, o)' = Reconciled(F, o)
  BY <1>2, <1>3, <1>4 DEF Reconciled
<1> QED
  BY <1>2, <1>3, <1>4, <1>5

LEMMA SameCandidatesWhileSameKinds ==
  ASSUME kind' = kind
  PROVE  \A F, o : Detected(F, o)' = Detected(F, o)
<1>1. \A F, o : Ties(F, o)' = Ties(F, o)
  BY SameFactsWhileSameKinds, SameOrderWhileSameKinds DEF Ties, Unordered
<1>2. \A F, f, o : Expected(F, f, o)' = Expected(F, f, o)
  <2>1. \A F, day : InForce(F, day)' = InForce(F, day)
    BY SameFactsWhileSameKinds DEF InForce
  <2>2. \A F, day, o : WinnerAt(F, day, o)' = WinnerAt(F, day, o)
    BY <2>1, SameOrderWhileSameKinds DEF WinnerAt
  <2> QED
    BY <2>2, SameFactsWhileSameKinds DEF Expected
<1>3. \A F, o : Stale(F, o)' = Stale(F, o)
  <2>1. \A f : Problem(f)' = Problem(f)
    BY SameFactsWhileSameKinds DEF Problem
  <2> QED
    BY <1>2, <2>1, SameFactsWhileSameKinds DEF Stale
<1>4. \A F, o : Mismatches(F, o)' = Mismatches(F, o)
  <2>1. \A f : Line(f)' = Line(f)
    BY SameFactsWhileSameKinds DEF Line
  <2>2. \A F, l, p : Reads(F, l, p)' = Reads(F, l, p)
    BY <2>1 DEF Reads
  <2>3. \A F, l, p, o : Unambiguous(F, l, p, o)' = Unambiguous(F, l, p, o)
    BY <2>2 DEF Unambiguous
  <2>4. \A F, l : Headline(F, l)' = Headline(F, l)
    BY SameFactsWhileSameKinds DEF Headline
  <2>5. \A F, l, o : MismatchOn(F, l, o)' = MismatchOn(F, l, o)
    BY <2>3 DEF MismatchOn
  <2> QED
    BY <2>1, <2>4, <2>5 DEF Mismatches
<1> QED
  BY <1>1, <1>3, <1>4 DEF Detected


-----------------------------------------------------------------------------
(***************************************************************************)
(* What the operators return.                                              *)
(***************************************************************************)
LEMMA CandidatesAreAboutTheFacts ==
  ASSUME NEW F \in SUBSET Fact, NEW o \in RowOrders
  PROVE  Detected(F, o) \subseteq [what : Findings, a : F, b : F]
<1>1. Ties(F, o) \subseteq [what : Findings, a : F, b : F]
  BY DEF Ties, Candidate, Findings
<1>2. Stale(F, o) \subseteq [what : Findings, a : F, b : F]
  <2>1. \A f : Expected(F, f, o) \subseteq F
    BY DEF Expected, WinnerAt, Winner, InForce
  <2> QED
    BY <2>1 DEF Stale, Candidate, Findings
<1>3. Mismatches(F, o) \subseteq [what : Findings, a : F, b : F]
  <2>1. \A l, p : Unambiguous(F, l, p, o) \subseteq F
    BY DEF Unambiguous, Reads
  <2>2. \A l : MismatchOn(F, l, o) \subseteq [what : Findings, a : F, b : F]
    BY <2>1 DEF MismatchOn, Candidate, Findings
  <2> QED
    BY <2>2 DEF Mismatches
<1> QED
  BY <1>1, <1>2, <1>3 DEF Detected

\* A mismatch is one of a line that states all three figures, for every choice
\* among their copies.
Figures == {"invoice_amount", "invoice_rate", "invoice_hours"}

LEMMA MismatchComesFromALine ==
  ASSUME NEW F \in SUBSET Fact, NEW o \in RowOrders, NEW c \in Detected(F, o),
         c.what = "arithmetic_mismatch"
  PROVE  /\ ~Headline(F, Line(c.a))
         /\ \E x \in Unambiguous(F, Line(c.a), "invoice_amount", o),
               y \in Unambiguous(F, Line(c.a), "invoice_rate", o),
               z \in Unambiguous(F, Line(c.a), "invoice_hours", o) :
              Value(y) * Value(z) # Value(x)
<1>1. c \in Mismatches(F, o)
  BY DEF Detected, Ties, Stale, Candidate
<1>2. PICK l \in {Line(f) : f \in F} : ~Headline(F, l) /\ c \in MismatchOn(F, l, o)
  BY <1>1 DEF Mismatches
<1>3. PICK x \in Unambiguous(F, l, "invoice_amount", o),
           y \in Unambiguous(F, l, "invoice_rate", o),
           z \in Unambiguous(F, l, "invoice_hours", o) :
        /\ Value(y) * Value(z) # Value(x)
        /\ c = Candidate("arithmetic_mismatch", x, y)
  BY <1>2 DEF MismatchOn
<1>4. Line(c.a) = l
  BY <1>3 DEF Candidate, Unambiguous, Reads
<1> QED
  BY <1>2, <1>3, <1>4

LEMMA MismatchForEveryCopy ==
  ASSUME NEW F \in SUBSET Fact, NEW o \in RowOrders, NEW c \in Detected(F, o),
         c.what = "arithmetic_mismatch",
         NEW a \in Reads(F, Line(c.a), "invoice_amount"),
         NEW r \in Reads(F, Line(c.a), "invoice_rate"),
         NEW h \in Reads(F, Line(c.a), "invoice_hours")
  PROVE  Value(r) * Value(h) # Value(a)
<1>1. PICK x \in Unambiguous(F, Line(c.a), "invoice_amount", o),
           y \in Unambiguous(F, Line(c.a), "invoice_rate", o),
           z \in Unambiguous(F, Line(c.a), "invoice_hours", o) :
        Value(y) * Value(z) # Value(x)
  BY MismatchComesFromALine
<1>2. Value(a) = Value(x) /\ Value(r) = Value(y) /\ Value(h) = Value(z)
  BY <1>1 DEF Unambiguous
<1> QED
  BY <1>1, <1>2

LEMMA MismatchStatesEveryFigure ==
  ASSUME NEW F \in SUBSET Fact, NEW o \in RowOrders, NEW c \in Detected(F, o),
         c.what = "arithmetic_mismatch", NEW p \in Figures
  PROVE  Reads(F, Line(c.a), p) # {}
<1>1. \A q : Unambiguous(F, Line(c.a), q, o) \subseteq Reads(F, Line(c.a), q)
  BY DEF Unambiguous
<1> QED
  BY <1>1, MismatchComesFromALine DEF Figures

\* A headline is checked only where its document states no lines.
LEMMA NoMismatchOnAHeadline ==
  ASSUME NEW F \in SUBSET Fact, NEW o \in RowOrders, NEW c \in Detected(F, o),
         c.what = "arithmetic_mismatch", Scope(c.a) = AgreementWide,
         NEW f \in F, Said[f].doc = Said[c.a].doc
  PROVE  Scope(f) = AgreementWide
<1>1. ~Headline(F, Line(c.a))
  BY MismatchComesFromALine
<1>2. Line(c.a)[1] = Said[c.a].doc /\ Line(c.a)[2] = Scope(c.a)
  BY DEF Line
<1> QED
  BY <1>1, <1>2 DEF Headline

\* A tie is a candidate.
LEMMA TiesAreCandidates ==
  ASSUME NEW F \in SUBSET Fact, NEW o \in RowOrders, NEW f \in F, NEW g \in F,
         Tied(f, g), Comparable(f, g)
  PROVE  \E c \in Detected(F, o) : <<c.a, c.b>> \in {<<f, g>>, <<g, f>>}
<1>1. SameRank(f, g) /\ SameRank(g, f)
  <2>1. /\ Dated(f) \in Nat /\ Dated(g) \in Nat
        /\ Precedence(f) \in Nat /\ Precedence(g) \in Nat
    BY Ranks DEF Tied, Level
  <2> QED
    BY <2>1 DEF Tied, Level, Outranks, SameRank
<1>2. o[f] < o[g] \/ o[g] < o[f]
  <2>1. f # g /\ f \in Fact /\ g \in Fact
    BY DEF Tied
  <2>2. o \in [Fact -> Nat] /\ IsInjective(o)
    BY RegisterAssumption
  <2>3. o[f] # o[g]
    BY <2>1, <2>2 DEF IsInjective
  <2> QED
    BY <2>1, <2>2, <2>3
<1> DEFINE pairs == {q \in F \X F : /\ o[q[1]] < o[q[2]]
                                   /\ Governs(q[1]) /\ Governs(q[2])
                                   /\ Term(q[1]) = Term(q[2])
                                   /\ Unordered(q[1], q[2])
                                   /\ Comparable(q[1], q[2])
                                   /\ Value(q[1]) # Value(q[2])}
<1>0. \A p \in pairs :
        Candidate("same_predicate_different_value", p[1], p[2]) \in Ties(F, o)
  BY DEF Ties
<1>3. CASE o[f] < o[g]
  <2>0. <<f, g>> \in pairs
    BY <1>1, <1>3 DEF Unordered, Tied, Level
  <2>1. Candidate("same_predicate_different_value", f, g) \in Ties(F, o)
    <3> HIDE DEF pairs
    <3> QED
      BY <1>0, <2>0
  <2> QED
    BY <2>1 DEF Detected, Candidate
<1>4. CASE o[g] < o[f]
  <2>0. <<g, f>> \in pairs
    BY <1>1, <1>4 DEF Unordered, Tied, Level, Comparable
  <2>1. Candidate("same_predicate_different_value", g, f) \in Ties(F, o)
    <3> HIDE DEF pairs
    <3> QED
      BY <1>0, <2>0
  <2> QED
    BY <2>1 DEF Detected, Candidate
<1> QED
  BY <1>2, <1>3, <1>4

\* A row governs by at most one fact, which it cites.
LEMMA RowsAreSound ==
  ASSUME NEW F \in SUBSET Fact, NEW o \in RowOrders
  PROVE  /\ Sound(Row(F, o)) /\ Row(F, o).facts = F
         /\ Row(F, o).governing = Winner(F, o)
<1>1. Row(F, o).facts = F /\ Row(F, o).governing = Winner(F, o)
  BY DEF Row
<1>2. Winner(F, o) \subseteq F
  BY DEF Winner
<1>3. \A f, g \in Winner(F, o) : f = g
  BY OneWinner
<1> QED
  BY <1>1, <1>2, <1>3 DEF Sound

\* The playbook reads the governing facts alone.
LEMMA FindingsReadWhatGoverns ==
  ASSUME NEW reg, NEW other, DOMAIN reg = DOMAIN other,
         \A t \in DOMAIN reg : reg[t].governing = other[t].governing
  PROVE  Evaluated(reg) = Evaluated(other)
<1>1. AgreementRows(reg) = AgreementRows(other)
  BY DEF AgreementRows
<1> QED
  BY <1>1, Zenon DEF Evaluated

LEMMA ReconciledRows ==
  ASSUME NEW F \in SUBSET Fact, NEW o
  PROVE  /\ DOMAIN Reconciled(F, o) = Terms(F)
         /\ \A t \in Terms(F) : Reconciled(F, o)[t] = Row(About(F, t), o)
         /\ \A t : About(F, t) \in SUBSET Fact
  BY DEF Reconciled, About


-----------------------------------------------------------------------------
(***************************************************************************)
(* The effect of every action on the run, field by field.                  *)
(***************************************************************************)
Becomes(r, s, pc, cands, found, register, findings) ==
  /\ s \in RunsWith(register, findings)
  /\ s.docs = r.docs /\ s.facts = r.facts
  /\ s.pc = pc /\ s.cands = cands /\ s.found = found
  /\ s.register = register /\ s.findings = findings

RunBecomes(pc, cands, found, register, findings) ==
  Becomes(run, run', pc, cands, found, register, findings)

\* A record of these fields, after EXCEPT.
LEMMA RunFields ==
  ASSUME NEW register, NEW findings, NEW r \in RunsWith(register, findings),
         NEW pc \in RunStates, NEW v
  PROVE  /\ Becomes(r, [r EXCEPT !.pc = pc], pc, r.cands, r.found,
                    register, findings)
         /\ v \in SUBSET Cands =>
              /\ Becomes(r, [r EXCEPT !.cands = v, !.pc = pc], pc, v, r.found,
                         register, findings)
              /\ Becomes(r, [r EXCEPT !.pc = pc, !.found = v], pc, r.cands, v,
                         register, findings)
         /\ Becomes(r, [r EXCEPT !.pc = pc, !.register = v], pc, r.cands,
                    r.found, v, findings)
         /\ Becomes(r, [r EXCEPT !.pc = pc, !.findings = v], pc, r.cands,
                    r.found, register, v)
<1>1. Becomes(r, [r EXCEPT !.pc = pc], pc, r.cands, r.found, register, findings)
  BY DEF RunsWith, Becomes
<1>2. ASSUME v \in SUBSET Cands
      PROVE  Becomes(r, [r EXCEPT !.cands = v, !.pc = pc], pc, v, r.found,
                     register, findings)
  BY <1>2 DEF RunsWith, Becomes
<1>3. ASSUME v \in SUBSET Cands
      PROVE  Becomes(r, [r EXCEPT !.pc = pc, !.found = v], pc, r.cands, v,
                     register, findings)
  BY <1>3 DEF RunsWith, Becomes
<1>4. Becomes(r, [r EXCEPT !.pc = pc, !.register = v], pc, r.cands, r.found,
              v, findings)
  BY DEF RunsWith, Becomes
<1>5. Becomes(r, [r EXCEPT !.pc = pc, !.findings = v], pc, r.cands, r.found,
              register, v)
  BY DEF RunsWith, Becomes
<1> QED
  BY <1>1, <1>2, <1>3, <1>4, <1>5

LEMMA RunSet ==
  ASSUME WellFormed, NEW pc \in RunStates
  PROVE  /\ run' = [run EXCEPT !.pc = pc] =>
              RunBecomes(pc, run.cands, run.found, run.register, run.findings)
         /\ \A v \in SUBSET Cands :
              /\ run' = [run EXCEPT !.cands = v, !.pc = pc] =>
                   RunBecomes(pc, v, run.found, run.register, run.findings)
              /\ run' = [run EXCEPT !.pc = pc, !.found = v] =>
                   RunBecomes(pc, run.cands, v, run.register, run.findings)
         /\ \A v :
              /\ run' = [run EXCEPT !.pc = pc, !.register = v] =>
                   RunBecomes(pc, run.cands, run.found, v, run.findings)
              /\ run' = [run EXCEPT !.pc = pc, !.findings = v] =>
                   RunBecomes(pc, run.cands, run.found, run.register, v)
<1>1. ASSUME NEW r \in RunsWith(run.register, run.findings), NEW v
      PROVE  /\ Becomes(r, [r EXCEPT !.pc = pc], pc, r.cands, r.found,
                        run.register, run.findings)
             /\ v \in SUBSET Cands =>
                  /\ Becomes(r, [r EXCEPT !.cands = v, !.pc = pc], pc, v, r.found,
                             run.register, run.findings)
                  /\ Becomes(r, [r EXCEPT !.pc = pc, !.found = v], pc, r.cands, v,
                             run.register, run.findings)
             /\ Becomes(r, [r EXCEPT !.pc = pc, !.register = v], pc, r.cands,
                        r.found, v, run.findings)
             /\ Becomes(r, [r EXCEPT !.pc = pc, !.findings = v], pc, r.cands,
                        r.found, run.register, v)
  BY RunFields
<1>2. run \in RunsWith(run.register, run.findings)
  BY DEF WellFormed
<1> QED
  BY <1>1, <1>2, Zenon DEF RunBecomes

LEMMA StartEffect ==
  ASSUME NEW D \in Inbox, Start(D)
  PROVE  /\ run' = [pc |-> "detect", docs |-> D, facts |-> Views(D),
                    cands |-> {}, found |-> {}, register |-> NoRegister,
                    findings |-> {}]
         /\ ~UnderWay
         /\ UNCHANGED <<kind, done, deps, conflict, moves, seen, ruled, failed>>
  BY DEF Start, NoRun

LEMMA DetectEffect ==
  ASSUME WellFormed, Detect
  PROVE  /\ run.pc = "detect"
         /\ \E o \in RowOrders : \E pc \in {"adjudicate", "compose"} :
              /\ RunBecomes(pc, Detected(run.facts, o), run.found,
                            run.register, run.findings)
              /\ pc = "compose" => Detected(run.facts, o) = {}
         /\ UNCHANGED <<kind, done, deps, conflict, moves, ruled, failed>>
<1>1. PICK o \in RowOrders :
        run' = [run EXCEPT !.cands = Detected(run.facts, o),
                           !.pc = IF Detected(run.facts, o) = {}
                                  THEN "compose" ELSE "adjudicate"]
  BY DEF Detect
<1> DEFINE C == Detected(run.facts, o)
           pc == IF C = {} THEN "compose" ELSE "adjudicate"
<1>2. RunBecomes(pc, C, run.found, run.register, run.findings)
  <2>1. run.facts \in SUBSET Fact
    BY DEF WellFormed, Views
  <2>2. C \in SUBSET Cands
    BY <2>1, CandidatesAreAboutTheFacts DEF Cands
  <2>3. pc \in RunStates
    BY DEF RunStates
  <2> HIDE DEF C, pc
  <2>4. run' = [run EXCEPT !.cands = C, !.pc = pc]
    BY <1>1 DEF C, pc
  <2> QED
    BY <2>2, <2>3, <2>4, RunSet, Zenon
<1>3. pc \in {"adjudicate", "compose"} /\ (pc = "compose" => C = {})
  OBVIOUS
<1>4. /\ run.pc = "detect"
      /\ UNCHANGED <<kind, done, deps, conflict, moves, ruled, failed>>
  BY DEF Detect
<1> HIDE DEF pc
<1> QED
  BY <1>2, <1>3, <1>4

LEMMA AdjudicateEffect ==
  ASSUME WellFormed, Adjudicate
  PROVE  /\ run.pc = "adjudicate"
         /\ \E real \in SUBSET run.cands :
              /\ RunBecomes("compose", run.cands, {c \in real : ~Settled(c)},
                            run.register, run.findings)
              /\ conflict' = conflict \cup
                   {Opened(c, c \in real) :
                      c \in {d \in run.cands : Existing(d) = {}}}
         /\ UNCHANGED <<kind, done, deps, moves, seen, ruled, failed>>
<1>1. PICK real \in SUBSET run.cands :
        /\ conflict' = conflict \cup
             {Opened(c, c \in real) : c \in {d \in run.cands : Existing(d) = {}}}
        /\ run' = [run EXCEPT !.pc = "compose",
                              !.found = {c \in real : ~Settled(c)}]
  BY DEF Adjudicate
<1>2. RunBecomes("compose", run.cands, {c \in real : ~Settled(c)},
                 run.register, run.findings)
  <2> DEFINE found == {c \in real : ~Settled(c)}
  <2>1. run.cands \in SUBSET Cands
    BY DEF WellFormed, RunsWith
  <2>2. found \in SUBSET Cands
    BY <2>1
  <2>3. run' = [run EXCEPT !.pc = "compose", !.found = found]
    BY <1>1, Zenon
  <2>4. "compose" \in RunStates
    BY DEF RunStates
  <2> HIDE DEF found
  <2>5. RunBecomes("compose", run.cands, found, run.register, run.findings)
    BY <2>2, <2>3, <2>4, RunSet, Zenon
  <2> QED
    BY <2>5 DEF found
<1>3. /\ run.pc = "adjudicate"
      /\ UNCHANGED <<kind, done, deps, moves, seen, ruled, failed>>
  BY DEF Adjudicate
<1> QED
  BY <1>1, <1>2, <1>3

LEMMA ComposeEffect ==
  ASSUME WellFormed, Compose
  PROVE  /\ run.pc = "compose"
         /\ \E o \in RowOrders : \E register :
              LET desired == Reconciled(run.facts, o)
              IN /\ RunBecomes("examine", run.cands, run.found, register,
                               run.findings)
                 /\ DOMAIN register = Terms(run.facts)
                 /\ \A t \in Terms(run.facts) :
                      register[t] = IF Carries(t, desired[t])
                                    THEN done.register[t] ELSE desired[t]
                 /\ \A t \in Terms(run.facts) :
                      t \in DOMAIN deps' /\ deps'[t] = desired[t].facts
         /\ UNCHANGED <<kind, done, conflict, moves, seen, ruled, failed>>
<1>1. PICK o \in RowOrders :
        LET desired == Reconciled(run.facts, o)
        IN /\ run' = [run EXCEPT !.pc = "examine",
                !.register = [t \in DOMAIN desired |->
                   IF Carries(t, desired[t]) THEN done.register[t] ELSE desired[t]]]
           /\ deps' = [t \in DOMAIN deps \cup DOMAIN desired |->
                IF t \in DOMAIN desired THEN desired[t].facts ELSE deps[t]]
  <2>1. PICK desired \in {Reconciled(run.facts, o) : o \in RowOrders} :
        /\ run' = [run EXCEPT !.pc = "examine",
             !.register = [t \in DOMAIN desired |->
                IF Carries(t, desired[t]) THEN done.register[t] ELSE desired[t]]]
        /\ deps' = [t \in DOMAIN deps \cup DOMAIN desired |->
             IF t \in DOMAIN desired THEN desired[t].facts ELSE deps[t]]
    BY Zenon DEF Compose
  <2>2. PICK o \in RowOrders : desired = Reconciled(run.facts, o)
    BY Zenon
  <2> QED
    BY <2>1, <2>2, Zenon
<1> DEFINE desired == Reconciled(run.facts, o)
           register == [t \in DOMAIN desired |->
                          IF Carries(t, desired[t])
                          THEN done.register[t] ELSE desired[t]]
<1>2. RunBecomes("examine", run.cands, run.found, register, run.findings)
  BY <1>1, RunSet DEF RunStates
<1>3. DOMAIN desired = Terms(run.facts)
  BY DEF Reconciled
<1>4. /\ DOMAIN register = Terms(run.facts)
      /\ \A t \in Terms(run.facts) :
           register[t] = IF Carries(t, desired[t])
                         THEN done.register[t] ELSE desired[t]
  BY <1>3
<1>5. \A t \in Terms(run.facts) :
        t \in DOMAIN deps' /\ deps'[t] = desired[t].facts
  BY <1>1, <1>3
<1>6. /\ run.pc = "compose"
      /\ UNCHANGED <<kind, done, conflict, moves, seen, ruled, failed>>
  BY DEF Compose
<1> HIDE DEF register
<1> QED
  BY <1>2, <1>4, <1>5, <1>6

LEMMA ExamineEffect ==
  ASSUME WellFormed, Examine
  PROVE  /\ run.pc = "examine"
         /\ \E o \in RowOrders :
              RunBecomes("verify", run.cands, run.found, run.register,
                         Evaluated(Reconciled(run.facts, o)))
         /\ UNCHANGED <<kind, done, deps, conflict, moves, seen, ruled, failed>>
<1>1. PICK o \in RowOrders :
        run' = [run EXCEPT !.pc = "verify",
                           !.findings = Evaluated(Reconciled(run.facts, o))]
  BY DEF Examine
<1>2. RunBecomes("verify", run.cands, run.found, run.register,
                 Evaluated(Reconciled(run.facts, o)))
  BY <1>1, RunSet DEF RunStates
<1> QED
  BY <1>2 DEF Examine

LEMMA VerifyEffect ==
  ASSUME WellFormed, Verify
  PROVE  /\ run.pc = "verify"
         /\ \/ /\ RunBecomes("gate", run.cands, run.found, run.register, run.findings)
               /\ Unresolved(run.register) = {} /\ failed' = failed
            \/ /\ RunBecomes("failed", run.cands, run.found, run.register, run.findings)
               /\ failed' = TRUE
         /\ UNCHANGED <<kind, done, deps, conflict, moves, seen, ruled>>
<1> DEFINE fine == Unresolved(run.register) = {}
<1>1. /\ run.pc = "verify"
      /\ run' = [run EXCEPT !.pc = IF fine THEN "gate" ELSE "failed"]
      /\ failed' = (failed \/ ~fine)
      /\ UNCHANGED <<kind, done, deps, conflict, moves, seen, ruled>>
  BY DEF Verify
<1>2. CASE fine
  <2>1. RunBecomes("gate", run.cands, run.found, run.register, run.findings)
    BY <1>1, <1>2, RunSet DEF RunStates
  <2>2. failed' = failed
    BY <1>1, <1>2 DEF WellFormed
  <2> QED
    BY <1>1, <1>2, <2>1, <2>2
<1>3. CASE ~fine
  <2>1. RunBecomes("failed", run.cands, run.found, run.register, run.findings)
    BY <1>1, <1>3, RunSet DEF RunStates
  <2>2. failed' = TRUE
    BY <1>1, <1>3
  <2> QED
    BY <1>1, <2>1, <2>2
<1> QED
  BY <1>2, <1>3

LEMMA CommitEffect ==
  ASSUME WellFormed, Commit
  PROVE  /\ run.pc = "gate"
         /\ RunBecomes("completed", run.cands, run.found, run.register, run.findings)
         /\ done' = [exists |-> TRUE, docs |-> run.docs, register |-> run.register]
         /\ UNCHANGED <<kind, deps, conflict, moves, seen, failed>>
<1>1. run' = [run EXCEPT !.pc = "completed"]
  BY DEF Commit
<1>2. RunBecomes("completed", run.cands, run.found, run.register, run.findings)
  BY <1>1, RunSet DEF RunStates
<1> QED
  BY <1>2 DEF Commit

LEMMA AbandonEffect ==
  ASSUME WellFormed, Abandon
  PROVE  /\ UnderWay /\ failed' = TRUE
         /\ RunBecomes("failed", run.cands, run.found, run.register, run.findings)
         /\ UNCHANGED <<kind, done, deps, conflict, moves, seen, ruled>>
<1>1. run' = [run EXCEPT !.pc = "failed"]
  BY DEF Abandon
<1>2. RunBecomes("failed", run.cands, run.found, run.register, run.findings)
  BY <1>1, RunSet DEF RunStates
<1> QED
  BY <1>2 DEF Abandon

LEMMA ReclassifiedEffect ==
  ASSUME WellFormed, NEW s \in Settles, Reclassified(s[1], s[2])
  PROVE  /\ moves' \in Nat /\ moves' # 0 /\ kind' \in [Doc -> Kind]
         /\ UNCHANGED <<run, done, deps, conflict, seen, ruled, failed>>
<1>1. s[1] \in Doc /\ s[2] \in Kind
  BY RegisterAssumption
<1>2. moves' = moves + 1 /\ kind' = [kind EXCEPT ![s[1]] = s[2]]
  BY DEF Reclassified
<1> QED
  BY <1>1, <1>2 DEF WellFormed, Reclassified


-----------------------------------------------------------------------------
(***************************************************************************)
(* WellFormed, action by action.                                           *)
(***************************************************************************)
LEMMA InitWellFormed ==
  ASSUME Init
  PROVE  WellFormed
<1>1. run \in RunsWith(run.register, run.findings)
  BY DEF Init, NoRun, RunsWith, RunStates
<1>2. run.facts = Views(run.docs)
  BY DEF Init, NoRun, Views
<1>3. DOMAIN done.register = {}
  BY DEF Init, NoRegister
<1>4. kind \in [Doc -> Kind]
  BY RegisterAssumption DEF Init
<1> QED
  BY <1>1, <1>2, <1>3, <1>4 DEF Init, WellFormed, NoRun

\* The run goes on with candidates about its own facts.
LEMMA StaysWellFormed ==
  ASSUME WellFormed, NEW pc, NEW cands, NEW found, NEW register, NEW findings,
         RunBecomes(pc, cands, found, register, findings),
         cands \subseteq [what : Findings, a : run.facts, b : run.facts],
         found \subseteq cands, pc \notin {"none", "detect"},
         UNCHANGED <<kind, moves, done>>,
         conflict' \subseteq [what : Findings, a : Fact, b : Fact,
                              status : {"open", "dismissed"}],
         failed' \in BOOLEAN, pc = "failed" => failed'
  PROVE  WellFormed'
<1>1. /\ run' \in RunsWith(run'.register, run'.findings)
      /\ run'.docs = run.docs /\ run'.facts = run.facts
      /\ run'.pc = pc /\ run'.cands = cands /\ run'.found = found
  BY DEF RunBecomes, Becomes
<1>2. run'.facts = Views(run'.docs)
  BY <1>1 DEF WellFormed, Views
<1> QED
  BY <1>1, <1>2 DEF WellFormed

LEMMA StartWellFormed ==
  ASSUME WellFormed, NEW D \in Inbox, Start(D)
  PROVE  WellFormed'
<1>1. D \in SUBSET Doc
  BY RegisterAssumption
<1>2. Views(D) \in SUBSET Fact
  BY DEF Views
<1>3. /\ run'.pc = "detect" /\ run'.docs = D /\ run'.facts = Views(D)
      /\ run'.cands = {} /\ run'.found = {}
  BY StartEffect
<1>4. run' \in RunsWith(run'.register, run'.findings)
  BY <1>1, <1>2, StartEffect DEF RunsWith, RunStates
<1>5. run'.facts = Views(run'.docs)
  BY <1>3
<1>6. UNCHANGED <<kind, done, conflict, moves, failed>>
  BY StartEffect
<1> QED
  BY <1>3, <1>4, <1>5, <1>6 DEF WellFormed

LEMMA DetectWellFormed ==
  ASSUME WellFormed, Detect
  PROVE  WellFormed'
<1>1. PICK o \in RowOrders, pc \in {"adjudicate", "compose"} :
        RunBecomes(pc, Detected(run.facts, o), run.found, run.register,
                   run.findings)
  BY DetectEffect
<1> DEFINE C == Detected(run.facts, o)
<1>2. C \subseteq [what : Findings, a : run.facts, b : run.facts]
  <2>1. run.facts \in SUBSET Fact
    BY DEF WellFormed, Views
  <2> QED
    BY <2>1, CandidatesAreAboutTheFacts
<1>3. run.found \subseteq C
  BY DetectEffect DEF WellFormed
<1>4. /\ UNCHANGED <<kind, moves, done>>
      /\ conflict' \subseteq [what : Findings, a : Fact, b : Fact,
                              status : {"open", "dismissed"}]
      /\ failed' \in BOOLEAN
  BY DetectEffect DEF WellFormed
<1> HIDE DEF C
<1>5. RunBecomes(pc, C, run.found, run.register, run.findings)
  BY <1>1 DEF C
<1>6. pc \notin {"none", "detect", "failed"}
  OBVIOUS
<1> QED
  BY <1>2, <1>3, <1>4, <1>5, <1>6, StaysWellFormed

LEMMA AdjudicateWellFormed ==
  ASSUME WellFormed, Adjudicate
  PROVE  WellFormed'
<1>1. PICK real \in SUBSET run.cands :
        /\ RunBecomes("compose", run.cands, {c \in real : ~Settled(c)},
                      run.register, run.findings)
        /\ conflict' = conflict \cup
             {Opened(c, c \in real) : c \in {d \in run.cands : Existing(d) = {}}}
  BY AdjudicateEffect
<1>2. /\ run.cands \subseteq [what : Findings, a : run.facts, b : run.facts]
      /\ run.facts \subseteq Fact
  BY DEF WellFormed, Views
<1>3. \A c \in run.cands : \A judged \in BOOLEAN :
        Opened(c, judged) \in [what : Findings, a : Fact, b : Fact,
                               status : {"open", "dismissed"}]
  <2> SUFFICES ASSUME NEW c \in run.cands, NEW judged \in BOOLEAN
               PROVE  Opened(c, judged) \in [what : Findings, a : Fact, b : Fact,
                                             status : {"open", "dismissed"}]
    OBVIOUS
  <2>0. c \in [what : Findings, a : run.facts, b : run.facts]
    BY <1>2
  <2>1. c.what \in Findings /\ c.a \in Fact /\ c.b \in Fact
    BY <2>0, <1>2
  <2>2. (IF judged THEN "open" ELSE "dismissed") \in {"open", "dismissed"}
    OBVIOUS
  <2> QED
    BY <2>1, <2>2 DEF Opened
<1>4. conflict' \subseteq [what : Findings, a : Fact, b : Fact,
                           status : {"open", "dismissed"}]
  <2>1. \A c : (c \in real) \in BOOLEAN
    OBVIOUS
  <2>2. conflict \subseteq [what : Findings, a : Fact, b : Fact,
                            status : {"open", "dismissed"}]
    BY DEF WellFormed
  <2> HIDE DEF Opened
  <2> QED
    BY <1>1, <1>3, <2>1, <2>2
<1>5. {c \in real : ~Settled(c)} \subseteq run.cands
  OBVIOUS
<1>6. UNCHANGED <<kind, moves, done>> /\ failed' \in BOOLEAN
  BY AdjudicateEffect DEF WellFormed
<1> QED
  BY <1>1, <1>2, <1>4, <1>5, <1>6, StaysWellFormed

\* The nodes that leave the candidates and the conflict table alone.
LEMMA RestWellFormed ==
  ASSUME WellFormed, NEW pc \in {"examine", "verify", "gate", "failed"},
         NEW register, NEW findings,
         RunBecomes(pc, run.cands, run.found, register, findings),
         UNCHANGED <<kind, moves, done, conflict>>,
         failed' \in BOOLEAN, pc = "failed" => failed'
  PROVE  WellFormed'
<1>1. /\ run.cands \subseteq [what : Findings, a : run.facts, b : run.facts]
      /\ run.found \subseteq run.cands
      /\ conflict' \subseteq [what : Findings, a : Fact, b : Fact,
                              status : {"open", "dismissed"}]
  BY DEF WellFormed
<1>2. pc \notin {"none", "detect"}
  OBVIOUS
<1> QED
  BY <1>1, <1>2, StaysWellFormed

LEMMA CommitWellFormed ==
  ASSUME WellFormed, Commit
  PROVE  WellFormed'
<1>1. /\ run' \in RunsWith(run'.register, run'.findings)
      /\ run'.docs = run.docs /\ run'.facts = run.facts
      /\ run'.pc = "completed" /\ run'.cands = run.cands
      /\ run'.found = run.found
  BY CommitEffect DEF RunBecomes, Becomes
<1>2. run'.facts = Views(run'.docs)
  BY <1>1 DEF WellFormed, Views
<1>3. done'.exists = TRUE /\ done'.docs \in SUBSET Doc
  BY CommitEffect DEF WellFormed, RunsWith
<1>4. UNCHANGED <<kind, conflict, moves, failed>>
  BY CommitEffect
<1> QED
  BY <1>1, <1>2, <1>3, <1>4 DEF WellFormed

LEMMA WellFormedStep ==
  ASSUME WellFormed, [Next]_vars
  PROVE  WellFormed'
<1>1. CASE \E D \in Inbox : Start(D)
  BY <1>1, StartWellFormed
<1>2. CASE Detect
  BY <1>2, DetectWellFormed
<1>3. CASE Adjudicate
  BY <1>3, AdjudicateWellFormed
<1>4. CASE Compose
  <2>1. \E register : RunBecomes("examine", run.cands, run.found, register,
                                 run.findings)
    BY <1>4, ComposeEffect
  <2>2. UNCHANGED <<kind, done, conflict, moves, failed>>
    BY <1>4, ComposeEffect
  <2> QED
    BY <2>1, <2>2, RestWellFormed DEF WellFormed
<1>5. CASE Examine
  <2>1. \E findings : RunBecomes("verify", run.cands, run.found, run.register,
                                 findings)
    BY <1>5, ExamineEffect
  <2>2. UNCHANGED <<kind, done, conflict, moves, failed>>
    BY <1>5, ExamineEffect
  <2> QED
    BY <2>1, <2>2, RestWellFormed DEF WellFormed
<1>6. CASE Verify
  <2>1. \/ RunBecomes("gate", run.cands, run.found, run.register, run.findings)
           /\ failed' = failed
        \/ RunBecomes("failed", run.cands, run.found, run.register, run.findings)
           /\ failed' = TRUE
    BY <1>6, VerifyEffect
  <2>2. UNCHANGED <<kind, done, conflict, moves>> /\ failed \in BOOLEAN
    BY <1>6, VerifyEffect DEF WellFormed
  <2> QED
    BY <2>1, <2>2, RestWellFormed
<1>7. CASE Commit
  BY <1>7, CommitWellFormed
<1>8. CASE Abandon
  <2>1. RunBecomes("failed", run.cands, run.found, run.register, run.findings)
    BY <1>8, AbandonEffect
  <2>2. UNCHANGED <<kind, done, conflict, moves>> /\ failed' = TRUE
    BY <1>8, AbandonEffect
  <2> QED
    BY <2>1, <2>2, RestWellFormed
<1>9. CASE \E s \in Settles : Reclassified(s[1], s[2])
  <2>1. moves' \in Nat /\ kind' \in [Doc -> Kind]
    BY <1>9, ReclassifiedEffect
  <2>2. UNCHANGED <<run, done, conflict, failed>>
    BY <1>9, ReclassifiedEffect
  <2> QED
    BY <2>1, <2>2 DEF WellFormed, Views
<1>10. CASE UNCHANGED vars
  BY <1>10 DEF vars, WellFormed, Views
<1> QED
  BY <1>1, <1>2, <1>3, <1>4, <1>5, <1>6, <1>7, <1>8, <1>9, <1>10 DEF Next


-----------------------------------------------------------------------------
(***************************************************************************)
(* RowsInv.                                                                *)
(***************************************************************************)
LEMMA InitRows ==
  ASSUME Init
  PROVE  RowsInv
<1>1. DOMAIN run.register = {} /\ DOMAIN done.register = {}
  BY DEF Init, NoRun, NoRegister
<1>2. run.pc \notin {"gate", "completed"}
  BY DEF Init, NoRun
<1> QED
  BY <1>1, <1>2 DEF RowsInv, Unresolved

\* The register stays, or what verify refuses stops the run.
LEMMA RowsStay ==
  ASSUME RowsInv, run'.register = run.register, done'.register = done.register,
         run'.pc \in {"gate", "completed"} => Unresolved(run.register) = {}
  PROVE  RowsInv'
<1>1. Unresolved(run.register)' = Unresolved(run.register)
  BY DEF Unresolved
<1>2. Unresolved(done.register)' = Unresolved(done.register)
  BY DEF Unresolved
<1> QED
  BY <1>1, <1>2 DEF RowsInv, Sound

LEMMA RowsStep ==
  ASSUME WellFormed, RowsInv, [Next]_vars
  PROVE  RowsInv'
<1>1. CASE \E D \in Inbox : Start(D)
  <2>1. DOMAIN run'.register = {} /\ run'.pc = "detect" /\ done' = done
    BY <1>1, StartEffect DEF NoRegister
  <2>2. Unresolved(done.register)' = Unresolved(done.register)
    BY <2>1 DEF Unresolved
  <2> QED
    BY <2>1, <2>2 DEF RowsInv, Sound
<1>2. CASE Detect
  <2>1. PICK pc \in {"adjudicate", "compose"} :
          run'.pc = pc /\ run'.register = run.register
    BY <1>2, DetectEffect DEF RunBecomes, Becomes
  <2> QED
    BY <1>2, <2>1, DetectEffect, RowsStay
<1>3. CASE Adjudicate
  <2>1. run'.pc = "compose" /\ run'.register = run.register
    BY <1>3, AdjudicateEffect DEF RunBecomes, Becomes
  <2> QED
    BY <1>3, <2>1, AdjudicateEffect, RowsStay
<1>4. CASE Compose
  <2>0. PICK o \in RowOrders : \E register :
          LET desired == Reconciled(run.facts, o)
          IN /\ RunBecomes("examine", run.cands, run.found, register,
                           run.findings)
             /\ DOMAIN register = Terms(run.facts)
             /\ \A t \in Terms(run.facts) :
                  register[t] = IF Carries(t, desired[t])
                                THEN done.register[t] ELSE desired[t]
    BY <1>4, ComposeEffect
  <2>1. PICK register :
          LET desired == Reconciled(run.facts, o)
          IN /\ RunBecomes("examine", run.cands, run.found, register,
                           run.findings)
             /\ DOMAIN register = Terms(run.facts)
             /\ \A t \in Terms(run.facts) :
                  register[t] = IF Carries(t, desired[t])
                                THEN done.register[t] ELSE desired[t]
    BY <2>0
  <2>2. run'.pc = "examine" /\ run'.register = register
    BY <2>1 DEF RunBecomes, Becomes
  <2>3. \A t \in Terms(run.facts) : Sound(register[t])
    <3> SUFFICES ASSUME NEW t \in Terms(run.facts)
                 PROVE  Sound(register[t])
      OBVIOUS
    <3>1. run.facts \in SUBSET Fact
      BY DEF WellFormed, Views
    <3>2. Sound(Reconciled(run.facts, o)[t])
      BY <3>1, ReconciledRows, RowsAreSound
    <3>3. Carries(t, Reconciled(run.facts, o)[t]) => Sound(done.register[t])
      BY DEF Carries, RowsInv
    <3> QED
      BY <2>1, <3>2, <3>3, Zenon
  <2>4. done' = done
    BY <1>4, ComposeEffect
  <2>5. Unresolved(done.register)' = Unresolved(done.register)
    BY <2>4 DEF Unresolved
  <2>6. \A row : Sound(row)' = Sound(row)
    BY DEF Sound
  <2>7. \A t \in DOMAIN run'.register : Sound(run'.register[t])
    BY <2>1, <2>2, <2>3
  <2> QED
    BY <2>2, <2>4, <2>5, <2>6, <2>7 DEF RowsInv
<1>5. CASE Examine
  <2>1. run'.pc = "verify" /\ run'.register = run.register
    BY <1>5, ExamineEffect DEF RunBecomes, Becomes
  <2> QED
    BY <1>5, <2>1, ExamineEffect, RowsStay
<1>6. CASE Verify
  <2>1. /\ run'.register = run.register
        /\ \/ run'.pc = "gate" /\ Unresolved(run.register) = {}
           \/ run'.pc = "failed"
    BY <1>6, VerifyEffect DEF RunBecomes, Becomes
  <2> QED
    BY <1>6, <2>1, VerifyEffect, RowsStay
<1>7. CASE Commit
  <2>1. /\ run'.register = run.register /\ done'.register = run.register
        /\ Unresolved(run.register) = {}
    BY <1>7, CommitEffect DEF RunBecomes, Becomes, RowsInv
  <2>2. /\ Unresolved(run.register)' = Unresolved(run.register)
        /\ Unresolved(done.register)' = Unresolved(run.register)
    BY <2>1 DEF Unresolved
  <2> QED
    BY <2>1, <2>2 DEF RowsInv, Sound
<1>8. CASE Abandon
  <2>1. run'.pc = "failed" /\ run'.register = run.register
    BY <1>8, AbandonEffect DEF RunBecomes, Becomes
  <2> QED
    BY <1>8, <2>1, AbandonEffect, RowsStay
<1>9. CASE \E s \in Settles : Reclassified(s[1], s[2])
  <2>1. run' = run /\ done' = done
    BY <1>9, ReclassifiedEffect
  <2> QED
    BY <2>1, RowsStay DEF RowsInv
<1>10. CASE UNCHANGED vars
  BY <1>10, RowsStay DEF vars, RowsInv
<1> QED
  BY <1>1, <1>2, <1>3, <1>4, <1>5, <1>6, <1>7, <1>8, <1>9, <1>10 DEF Next

-----------------------------------------------------------------------------
(***************************************************************************)
(* CandsInv.                                                               *)
(***************************************************************************)
\* What was judged stays judged, and what was detected is still there.
LEMMA CandsStay ==
  ASSUME CandsInv, run'.cands = run.cands, run'.facts = run.facts,
         kind' = kind, moves' = moves, conflict' = conflict,
         \/ run'.pc = run.pc
         \/ /\ run.pc \in {"compose", "examine", "verify", "gate"}
            /\ run'.pc # "none"
         \/ run'.pc = "failed"
  PROVE  CandsInv'
<1>1. \A F, o : Detected(F, o)' = Detected(F, o)
  BY SameCandidatesWhileSameKinds
<1>2. \A o : Detected(run.facts, o)' = Detected(run.facts, o)
  BY <1>1
<1> QED
  BY <1>2 DEF CandsInv, SamePair

LEMMA CandsStep ==
  ASSUME WellFormed, CandsInv, [Next]_vars
  PROVE  CandsInv'
<1>1. CASE \E D \in Inbox : Start(D)
  BY <1>1, StartEffect DEF CandsInv
<1>2. CASE Detect
  <2>1. PICK o \in RowOrders, pc \in {"adjudicate", "compose"} :
          /\ RunBecomes(pc, Detected(run.facts, o), run.found, run.register,
                        run.findings)
          /\ pc = "compose" => Detected(run.facts, o) = {}
    BY <1>2, DetectEffect
  <2>2. /\ run'.cands = Detected(run.facts, o) /\ run'.pc = pc
        /\ run'.facts = run.facts
    BY <2>1 DEF RunBecomes, Becomes
  <2>3. kind' = kind
    BY <1>2, DetectEffect
  <2>4. \A F, q : Detected(F, q)' = Detected(F, q)
    BY <2>3, SameCandidatesWhileSameKinds
  <2>5. run'.cands = Detected(run.facts, o)'
    BY <2>2, <2>4
  <2>6. run'.pc \in {"compose", "examine", "verify", "gate", "completed"} =>
          run'.cands = {}
    BY <2>1, <2>2
  <2> QED
    BY <2>2, <2>5, <2>6 DEF CandsInv
<1>3. CASE Adjudicate
  <2>1. PICK real \in SUBSET run.cands :
          /\ RunBecomes("compose", run.cands, {c \in real : ~Settled(c)},
                        run.register, run.findings)
          /\ conflict' = conflict \cup
               {Opened(c, c \in real) : c \in {d \in run.cands : Existing(d) = {}}}
    BY <1>3, AdjudicateEffect
  <2>2. /\ run.pc = "adjudicate" /\ run'.pc = "compose"
        /\ run'.cands = run.cands /\ run'.facts = run.facts
    BY <1>3, <2>1, AdjudicateEffect DEF RunBecomes, Becomes
  <2>3. kind' = kind /\ moves' = moves
    BY <1>3, AdjudicateEffect
  <2>4. \A F, q : Detected(F, q)' = Detected(F, q)
    BY <2>3, SameCandidatesWhileSameKinds
  <2>5. \A o : Detected(run.facts, o)' = Detected(run.facts, o)
    BY <2>2, <2>4
  <2>6. \A c \in run.cands : \E x \in conflict' : SamePair(x, c)
    <3> SUFFICES ASSUME NEW c \in run.cands
                 PROVE  \E x \in conflict' : SamePair(x, c)
      OBVIOUS
    <3>1. CASE Existing(c) = {}
      <4>1. Opened(c, c \in real) \in conflict'
        BY <2>1, <3>1
      <4>2. SamePair(Opened(c, c \in real), c)
        BY DEF SamePair, Opened
      <4> QED
        BY <4>1, <4>2
    <3>2. CASE Existing(c) # {}
      BY <2>1, <3>2 DEF Existing
    <3> QED
      BY <3>1, <3>2
  <2>7. \A x, c : SamePair(x, c)' = SamePair(x, c)
    BY DEF SamePair
  <2> QED
    BY <2>2, <2>3, <2>5, <2>6, <2>7 DEF CandsInv
<1>4. CASE Compose
  <2>1. /\ run.pc = "compose" /\ run'.pc = "examine"
        /\ run'.cands = run.cands /\ run'.facts = run.facts
    BY <1>4, ComposeEffect DEF RunBecomes, Becomes
  <2> QED
    BY <1>4, <2>1, ComposeEffect, CandsStay
<1>5. CASE Examine
  <2>1. /\ run.pc = "examine" /\ run'.pc = "verify"
        /\ run'.cands = run.cands /\ run'.facts = run.facts
    BY <1>5, ExamineEffect DEF RunBecomes, Becomes
  <2> QED
    BY <1>5, <2>1, ExamineEffect, CandsStay
<1>6. CASE Verify
  <2>1. /\ run.pc = "verify" /\ run'.pc \in {"gate", "failed"}
        /\ run'.cands = run.cands /\ run'.facts = run.facts
    BY <1>6, VerifyEffect DEF RunBecomes, Becomes
  <2> QED
    BY <1>6, <2>1, VerifyEffect, CandsStay
<1>7. CASE Commit
  <2>1. /\ run.pc = "gate" /\ run'.pc = "completed"
        /\ run'.cands = run.cands /\ run'.facts = run.facts
    BY <1>7, CommitEffect DEF RunBecomes, Becomes
  <2> QED
    BY <1>7, <2>1, CommitEffect, CandsStay
<1>8. CASE Abandon
  <2>1. /\ run'.pc = "failed"
        /\ run'.cands = run.cands /\ run'.facts = run.facts
    BY <1>8, AbandonEffect DEF RunBecomes, Becomes
  <2> QED
    BY <1>8, <2>1, AbandonEffect, CandsStay
<1>9. CASE \E s \in Settles : Reclassified(s[1], s[2])
  <2>1. run' = run /\ conflict' = conflict /\ moves' # 0
    BY <1>9, ReclassifiedEffect
  <2> QED
    BY <2>1 DEF CandsInv, SamePair
<1>10. CASE UNCHANGED vars
  <2>1. UNCHANGED <<run, kind, moves, conflict>>
    BY <1>10 DEF vars
  <2> QED
    BY <2>1, CandsStay
<1> QED
  BY <1>1, <1>2, <1>3, <1>4, <1>5, <1>6, <1>7, <1>8, <1>9, <1>10 DEF Next


-----------------------------------------------------------------------------
(***************************************************************************)
(* DepsInv.                                                                *)
(***************************************************************************)
\* What compose writes: a row that is carried cites what the predecessor's
\* cites, and one that is not cites something else.
LEMMA CarriedRows ==
  ASSUME WellFormed, DepsInv, ~failed, ~Writing, NEW t, NEW row, NEW shown,
         shown = IF Carries(t, row) THEN done.register[t] ELSE row
  PROVE  /\ shown.facts = row.facts
         /\ t \in DOMAIN done.register =>
              \/ shown = done.register[t]
              \/ shown.facts # done.register[t].facts
<1>1. t \in DOMAIN done.register => Recorded(t) = done.register[t].facts
  BY DEF DepsInv, Recorded
<1>2. t \in DOMAIN done.register => done.exists
  BY DEF WellFormed
<1>3. CASE Carries(t, row)
  BY <1>1, <1>3 DEF Carries
<1>4. CASE ~Carries(t, row)
  BY <1>1, <1>2, <1>4 DEF Carries
<1> QED
  BY <1>3, <1>4

LEMMA DepsStay ==
  ASSUME DepsInv, run'.register = run.register, done' = done, deps' = deps,
         failed' = failed, Writing' = Writing
  PROVE  DepsInv'
  BY DEF DepsInv

LEMMA DepsStep ==
  ASSUME WellFormed, DepsInv, [Next]_vars
  PROVE  DepsInv'
<1>1. CASE \E D \in Inbox : Start(D)
  <2>1. /\ run'.pc = "detect" /\ ~UnderWay
        /\ done' = done /\ deps' = deps /\ failed' = failed
    BY <1>1, StartEffect
  <2>2. ~Writing /\ ~Writing'
    BY <2>1 DEF Writing, UnderWay
  <2> QED
    BY <2>1, <2>2 DEF DepsInv
<1>2. CASE Detect
  <2>1. PICK pc \in {"adjudicate", "compose"} :
          run'.pc = pc /\ run'.register = run.register
    BY <1>2, DetectEffect DEF RunBecomes, Becomes
  <2>2. Writing' = Writing
    BY <1>2, <2>1, DetectEffect DEF Writing
  <2> QED
    BY <1>2, <2>1, <2>2, DetectEffect, DepsStay
<1>3. CASE Adjudicate
  <2>1. run'.pc = "compose" /\ run'.register = run.register
    BY <1>3, AdjudicateEffect DEF RunBecomes, Becomes
  <2>2. Writing' = Writing
    BY <1>3, <2>1, AdjudicateEffect DEF Writing
  <2> QED
    BY <1>3, <2>1, <2>2, AdjudicateEffect, DepsStay
<1>4. CASE Compose
  <2>0. PICK o \in RowOrders : \E register :
          LET desired == Reconciled(run.facts, o)
          IN /\ RunBecomes("examine", run.cands, run.found, register,
                           run.findings)
             /\ DOMAIN register = Terms(run.facts)
             /\ \A t \in Terms(run.facts) :
                  register[t] = IF Carries(t, desired[t])
                                THEN done.register[t] ELSE desired[t]
             /\ \A t \in Terms(run.facts) :
                  t \in DOMAIN deps' /\ deps'[t] = desired[t].facts
    BY <1>4, ComposeEffect
  <2> DEFINE desired == Reconciled(run.facts, o)
  <2>1. PICK register :
          /\ RunBecomes("examine", run.cands, run.found, register, run.findings)
          /\ DOMAIN register = Terms(run.facts)
          /\ \A t \in Terms(run.facts) :
               register[t] = IF Carries(t, desired[t])
                             THEN done.register[t] ELSE desired[t]
          /\ \A t \in Terms(run.facts) :
               t \in DOMAIN deps' /\ deps'[t] = desired[t].facts
    BY <2>0
  <2> HIDE DEF desired
  <2>2. run'.pc = "examine" /\ run'.register = register
    BY <2>1 DEF RunBecomes, Becomes
  <2>3. UNCHANGED <<done, failed>> /\ ~Writing /\ Writing'
    BY <1>4, <2>2, ComposeEffect DEF Writing
  <2>4. ASSUME ~failed, NEW t \in Terms(run.facts)
        PROVE  /\ t \in DOMAIN deps' /\ deps'[t] = register[t].facts
               /\ t \in DOMAIN done.register =>
                    \/ register[t] = done.register[t]
                    \/ register[t].facts # done.register[t].facts
    BY <2>1, <2>3, <2>4, CarriedRows
  <2> QED
    BY <2>1, <2>2, <2>3, <2>4 DEF DepsInv
<1>5. CASE Examine
  <2>1. run'.pc = "verify" /\ run'.register = run.register
    BY <1>5, ExamineEffect DEF RunBecomes, Becomes
  <2>2. Writing' = Writing
    BY <1>5, <2>1, ExamineEffect DEF Writing
  <2> QED
    BY <1>5, <2>1, <2>2, ExamineEffect, DepsStay
<1>6. CASE Verify
  <2>1. /\ run'.register = run.register
        /\ \/ run'.pc = "gate" /\ failed' = failed
           \/ failed' = TRUE
    BY <1>6, VerifyEffect DEF RunBecomes, Becomes
  <2>2. run'.pc = "gate" => Writing' = Writing
    BY <1>6, VerifyEffect DEF Writing
  <2>3. CASE failed'
    BY <2>3 DEF DepsInv
  <2>4. CASE ~failed'
    BY <1>6, <2>1, <2>2, <2>4, VerifyEffect, DepsStay
  <2> QED
    BY <2>3, <2>4
<1>7. CASE Commit
  <2>1. /\ run.pc = "gate" /\ run'.pc = "completed"
        /\ done'.register = run.register
        /\ deps' = deps /\ failed' = failed
    BY <1>7, CommitEffect DEF RunBecomes, Becomes
  <2>2. Writing /\ ~Writing'
    BY <2>1 DEF Writing
  <2> QED
    BY <2>1, <2>2 DEF DepsInv
<1>8. CASE Abandon
  BY <1>8, AbandonEffect DEF DepsInv
<1>9. CASE \E s \in Settles : Reclassified(s[1], s[2])
  <2>1. UNCHANGED <<run, done, deps, failed>>
    BY <1>9, ReclassifiedEffect
  <2> QED
    BY <2>1, DepsStay DEF Writing
<1>10. CASE UNCHANGED vars
  BY <1>10, DepsStay DEF vars, Writing
<1> QED
  BY <1>1, <1>2, <1>3, <1>4, <1>5, <1>6, <1>7, <1>8, <1>9, <1>10 DEF Next

-----------------------------------------------------------------------------
(***************************************************************************)
(* RegisterInv.                                                            *)
(***************************************************************************)
LEMMA InitRegister ==
  ASSUME Init
  PROVE  RegisterInv
<1>1. ~Composed /\ ~Examined
  BY DEF Init, NoRun, Composed, Examined
<1>2. done.docs = {} /\ DOMAIN done.register = {}
  BY DEF Init, NoRegister
<1>3. Terms(Views(done.docs)) = {}
  BY <1>2 DEF Terms, Views
<1> QED
  BY <1>1, <1>2, <1>3 DEF RegisterInv, Reproduces

LEMMA ReproducesWhileSameKinds ==
  ASSUME kind' = kind
  PROVE  \A reg, D : Reproduces(reg, D)' = Reproduces(reg, D)
<1>1. \A F, o : Row(F, o)' = Row(F, o)
  BY SameRowsWhileSameKinds
<1>2. \A F, t : About(F, t)' = About(F, t)
  BY SameRowsWhileSameKinds
<1>3. \A F : Terms(F)' = Terms(F)
  BY SameRowsWhileSameKinds
<1>4. \A D : Views(D)' = Views(D)
  BY DEF Views
<1> QED
  BY <1>1, <1>2, <1>3, <1>4 DEF Reproduces

\* The playbook reads a register and nothing else.
LEMMA FindingsWhileSameKinds ==
  ASSUME kind' = kind
  PROVE  \A F, o : Evaluated(Reconciled(F, o))' = Evaluated(Reconciled(F, o))
<1>1. \A reg : Evaluated(reg)' = Evaluated(reg)
  OBVIOUS
<1>2. \A F, o : Reconciled(F, o)' = Reconciled(F, o)
  BY SameRowsWhileSameKinds
<1> QED
  BY <1>1, <1>2


\* The rows and the findings stay.
LEMMA RegisterStays ==
  ASSUME RegisterInv, kind' = kind, moves' = moves, failed' = failed,
         run'.register = run.register, run'.docs = run.docs,
         run'.facts = run.facts, run'.findings = run.findings, done' = done,
         Composed' => Composed, Examined' => Examined
  PROVE  RegisterInv'
<1>1. Undisturbed' = Undisturbed
  BY DEF Undisturbed
<1>2. Reproduces(done.register, done.docs)' = Reproduces(done.register, done.docs)
  BY ReproducesWhileSameKinds
<1>3. Reproduces(run.register, run.docs)' = Reproduces(run.register, run.docs)
  BY ReproducesWhileSameKinds
<1>4. \A o : Evaluated(Reconciled(run.facts, o))'
               = Evaluated(Reconciled(run.facts, o))
  BY FindingsWhileSameKinds
<1> QED
  BY <1>1, <1>2, <1>3, <1>4 DEF RegisterInv

\* Compose writes what the documents give: a carried row cites the facts the
\* new one would, so it is the one they give in the order it was written in.
LEMMA ComposedRow ==
  ASSUME WellFormed, DepsInv, RegisterInv, Undisturbed, ~Writing,
         NEW o \in RowOrders, NEW t \in Terms(run.facts), NEW shown,
         shown = IF Carries(t, Row(About(run.facts, t), o))
                 THEN done.register[t] ELSE Row(About(run.facts, t), o)
  PROVE  \E q \in RowOrders : shown = Row(About(run.facts, t), q)
<1> DEFINE row == Row(About(run.facts, t), o)
<1>1. CASE Carries(t, row)
  <2>1. t \in DOMAIN done.register /\ Recorded(t) = row.facts
    BY <1>1 DEF Carries
  <2>2. Recorded(t) = done.register[t].facts
    BY <2>1 DEF DepsInv, Undisturbed, Recorded
  <2>3. PICK q \in RowOrders :
          done.register[t] = Row(About(Views(done.docs), t), q)
    BY <2>1 DEF RegisterInv, Reproduces
  <2>4. done.register[t].facts = About(Views(done.docs), t)
    BY <2>3 DEF Row
  <2>5. row.facts = About(run.facts, t)
    BY DEF Row
  <2>6. About(Views(done.docs), t) = About(run.facts, t)
    BY <2>1, <2>2, <2>4, <2>5
  <2> HIDE DEF row
  <2>7. shown = done.register[t]
    BY <1>1 DEF row
  <2> QED
    BY <2>3, <2>6, <2>7
<1>2. CASE ~Carries(t, row)
  BY <1>2
<1> QED
  BY <1>1, <1>2

LEMMA RegisterStep ==
  ASSUME WellFormed, DepsInv, RegisterInv, [Next]_vars
  PROVE  RegisterInv'
<1>1. CASE \E D \in Inbox : Start(D)
  <2>1. /\ run'.pc = "detect"
        /\ UNCHANGED <<kind, done, moves, failed>>
    BY <1>1, StartEffect
  <2>2. ~Composed' /\ ~Examined'
    BY <2>1 DEF Composed, Examined
  <2>3. Reproduces(done.register, done.docs)' = Reproduces(done.register, done.docs)
    BY <2>1, ReproducesWhileSameKinds
  <2> QED
    BY <2>1, <2>2, <2>3 DEF RegisterInv, Undisturbed
<1>2. CASE Detect
  <2>1. PICK pc \in {"adjudicate", "compose"} :
          /\ run'.pc = pc /\ run'.register = run.register /\ run'.docs = run.docs
          /\ run'.facts = run.facts /\ run'.findings = run.findings
    BY <1>2, DetectEffect DEF RunBecomes, Becomes
  <2>2. ~Composed' /\ ~Examined'
    BY <2>1 DEF Composed, Examined
  <2> QED
    BY <1>2, <2>1, <2>2, DetectEffect, RegisterStays
<1>3. CASE Adjudicate
  <2>1. /\ run'.pc = "compose" /\ run'.register = run.register
        /\ run'.docs = run.docs
        /\ run'.facts = run.facts /\ run'.findings = run.findings
    BY <1>3, AdjudicateEffect DEF RunBecomes, Becomes
  <2>2. ~Composed' /\ ~Examined'
    BY <2>1 DEF Composed, Examined
  <2> QED
    BY <1>3, <2>1, <2>2, AdjudicateEffect, RegisterStays
<1>4. CASE Compose
  <2>0. PICK o \in RowOrders : \E register :
          LET desired == Reconciled(run.facts, o)
          IN /\ RunBecomes("examine", run.cands, run.found, register,
                           run.findings)
             /\ DOMAIN register = Terms(run.facts)
             /\ \A t \in Terms(run.facts) :
                  register[t] = IF Carries(t, desired[t])
                                THEN done.register[t] ELSE desired[t]
    BY <1>4, ComposeEffect
  <2> DEFINE desired == Reconciled(run.facts, o)
  <2>1. PICK register :
          /\ RunBecomes("examine", run.cands, run.found, register, run.findings)
          /\ DOMAIN register = Terms(run.facts)
          /\ \A t \in Terms(run.facts) :
               register[t] = IF Carries(t, desired[t])
                             THEN done.register[t] ELSE desired[t]
    BY <2>0
  <2>2. /\ run'.pc = "examine" /\ run'.register = register
        /\ run'.docs = run.docs /\ run'.facts = run.facts
    BY <2>1 DEF RunBecomes, Becomes
  <2>3. UNCHANGED <<kind, moves, done, failed>> /\ ~Writing
    BY <1>4, ComposeEffect DEF Writing
  <2>4. \A t \in Terms(run.facts) : desired[t] = Row(About(run.facts, t), o)
    BY DEF Reconciled
  <2>5. run.facts = Views(run.docs)
    BY DEF WellFormed
  <2> HIDE DEF desired
  <2>6. ASSUME Undisturbed
        PROVE  Reproduces(register, run.docs)
    <3>1. ASSUME NEW t \in Terms(run.facts)
          PROVE  \E q \in RowOrders : register[t] = Row(About(run.facts, t), q)
      BY <2>1, <2>3, <2>4, <2>6, ComposedRow
    <3> QED
      BY <2>1, <2>5, <3>1 DEF Reproduces
  <2>7. \A reg, D : Reproduces(reg, D)' = Reproduces(reg, D)
    BY <2>3, ReproducesWhileSameKinds
  <2>8. /\ Reproduces(run.register, run.docs)' = Reproduces(register, run.docs)
        /\ Reproduces(done.register, done.docs)'
             = Reproduces(done.register, done.docs)
    BY <2>2, <2>3, <2>7
  <2>9. ~Examined' /\ Undisturbed' = Undisturbed
    BY <2>2, <2>3 DEF Examined, Undisturbed
  <2> QED
    BY <2>6, <2>8, <2>9 DEF RegisterInv
<1>5. CASE Examine
  <2>1. PICK o \in RowOrders :
          RunBecomes("verify", run.cands, run.found, run.register,
                     Evaluated(Reconciled(run.facts, o)))
    BY <1>5, ExamineEffect
  <2>2. /\ run.pc = "examine" /\ run'.register = run.register
        /\ run'.docs = run.docs /\ run'.facts = run.facts
        /\ run'.findings = Evaluated(Reconciled(run.facts, o))
    BY <1>5, <2>1, ExamineEffect DEF RunBecomes, Becomes
  <2>3. UNCHANGED <<kind, moves, done, failed>> /\ Composed
    BY <1>5, ExamineEffect DEF Composed
  <2>4. Undisturbed' = Undisturbed
    BY <2>3 DEF Undisturbed
  <2>5. /\ Reproduces(run.register, run.docs)' = Reproduces(run.register, run.docs)
        /\ Reproduces(done.register, done.docs)'
             = Reproduces(done.register, done.docs)
    BY <2>2, <2>3, ReproducesWhileSameKinds
  <2>6. \A F, q : Evaluated(Reconciled(F, q))' = Evaluated(Reconciled(F, q))
    BY <2>3, FindingsWhileSameKinds
  <2>7. run'.findings = Evaluated(Reconciled(run.facts, o))'
    BY <2>2, <2>6
  <2> QED
    BY <2>3, <2>4, <2>5, <2>7 DEF RegisterInv
<1>6. CASE Verify
  <2>1. /\ run.pc = "verify" /\ run'.register = run.register
        /\ run'.docs = run.docs /\ run'.facts = run.facts
        /\ run'.findings = run.findings
        /\ failed' = failed \/ failed' = TRUE
    BY <1>6, VerifyEffect DEF RunBecomes, Becomes
  <2>2. Composed /\ Examined
    BY <2>1 DEF Composed, Examined
  <2>3. CASE failed'
    BY <2>3 DEF RegisterInv, Undisturbed
  <2>4. CASE ~failed'
    BY <1>6, <2>1, <2>2, <2>4, VerifyEffect, RegisterStays
  <2> QED
    BY <2>3, <2>4
<1>7. CASE Commit
  <2>1. /\ run.pc = "gate" /\ run'.register = run.register
        /\ run'.docs = run.docs /\ run'.facts = run.facts
        /\ run'.findings = run.findings
        /\ done'.register = run.register /\ done'.docs = run.docs
    BY <1>7, CommitEffect DEF RunBecomes, Becomes
  <2>2. UNCHANGED <<kind, moves, failed>> /\ Composed /\ Examined
    BY <1>7, <2>1, CommitEffect DEF Composed, Examined
  <2>3. \A reg, D : Reproduces(reg, D)' = Reproduces(reg, D)
    BY <2>2, ReproducesWhileSameKinds
  <2>4. /\ Reproduces(run.register, run.docs)' = Reproduces(run.register, run.docs)
        /\ Reproduces(done.register, done.docs)' = Reproduces(run.register, run.docs)
    BY <2>1, <2>3
  <2>5. \A o : Evaluated(Reconciled(run.facts, o))'
                 = Evaluated(Reconciled(run.facts, o))
    BY <2>1, <2>2, FindingsWhileSameKinds
  <2>6. Undisturbed' = Undisturbed
    BY <2>2 DEF Undisturbed
  <2> QED
    BY <2>1, <2>2, <2>4, <2>5, <2>6 DEF RegisterInv
<1>8. CASE Abandon
  BY <1>8, AbandonEffect DEF RegisterInv, Undisturbed
<1>9. CASE \E s \in Settles : Reclassified(s[1], s[2])
  BY <1>9, ReclassifiedEffect DEF RegisterInv, Undisturbed
<1>10. CASE UNCHANGED vars
  BY <1>10, RegisterStays DEF vars, Composed, Examined
<1> QED
  BY <1>1, <1>2, <1>3, <1>4, <1>5, <1>6, <1>7, <1>8, <1>9, <1>10 DEF Next


-----------------------------------------------------------------------------
(***************************************************************************)
(* The invariant, and what it gives.                                       *)
(***************************************************************************)
LEMMA InitIInv ==
  ASSUME Init
  PROVE  IInv
<1>1. CandsInv
  BY DEF Init, NoRun, CandsInv
<1>2. DepsInv
  BY DEF Init, NoRun, NoRegister, DepsInv, Writing
<1> QED
  BY <1>1, <1>2, InitWellFormed, InitRows, InitRegister DEF IInv

LEMMA Invariance == Spec => []IInv
<1>1. Init => IInv
  BY InitIInv
<1>2. IInv /\ [Next]_vars => IInv'
  BY WellFormedStep, RowsStep, CandsStep, DepsStep, RegisterStep DEF IInv
<1> QED
  BY <1>1, <1>2, PTL DEF Spec

\* What governs a row is one fact or none.
LEMMA AtMostOne ==
  ASSUME NEW S, \A x, y \in S : x = y
  PROVE  Cardinality(S) <= 1
<1>1. CASE S = {}
  BY <1>1, FS_EmptySet
<1>2. CASE S # {}
  <2>1. PICK x \in S : TRUE
    BY <1>2
  <2>2. S = {x}
    BY <2>1
  <2> QED
    BY <2>2, FS_Singleton
<1> QED
  BY <1>1, <1>2

LEMMA TypeFromInvariant ==
  ASSUME IInv
  PROVE  TypeOK
<1> USE DEF IInv
<1>1. run.docs \subseteq Doc
  BY DEF WellFormed, RunsWith
<1>2. \A c \in run.cands : {c.a, c.b} \subseteq run.facts
  <2>1. run.cands \subseteq [what : Findings, a : run.facts, b : run.facts]
    BY DEF WellFormed
  <2> QED
    BY <2>1
<1>3. ASSUME NEW reg \in {run.register, done.register}, NEW t \in DOMAIN reg
      PROVE  /\ Cardinality(reg[t].governing) <= 1
             /\ reg[t].governing \subseteq reg[t].facts
  <2>1. Sound(reg[t])
    BY DEF RowsInv
  <2> QED
    BY <2>1, AtMostOne DEF Sound
<1>4. /\ run.found \subseteq run.cands /\ kind \in [Doc -> Kind]
      /\ conflict \subseteq [what : Findings, a : Fact, b : Fact,
                             status : {"open", "dismissed"}]
  BY DEF WellFormed
<1>5. Unresolved(done.register) = {}
  BY DEF RowsInv
<1> QED
  BY <1>1, <1>2, <1>3, <1>4, <1>5 DEF TypeOK

\* A composed row cites the run's facts about its term.
LEMMA ComposedRows ==
  ASSUME IInv, Composed, Undisturbed, NEW t \in DOMAIN run.register
  PROVE  /\ \E o \in RowOrders : run.register[t] = Row(About(run.facts, t), o)
         /\ run.register[t].facts = About(run.facts, t)
         /\ t \in Terms(run.facts)
<1>1. Reproduces(run.register, run.docs) /\ run.facts = Views(run.docs)
  BY DEF IInv, RegisterInv, WellFormed
<1>2. PICK o \in RowOrders : run.register[t] = Row(About(run.facts, t), o)
  BY <1>1 DEF Reproduces
<1>3. run.register[t].facts = About(run.facts, t)
  BY <1>2 DEF Row
<1> QED
  BY <1>1, <1>2, <1>3 DEF Reproduces

LEMMA TiesFromInvariant ==
  ASSUME IInv
  PROVE  TiesAreReported
<1> SUFFICES ASSUME Composed, Undisturbed,
                    NEW t \in DOMAIN run.register,
                    NEW f \in run.register[t].governing,
                    NEW g \in run.register[t].facts,
                    Tied(f, g), Comparable(f, g)
             PROVE  \E x \in conflict : {x.a, x.b} = {f, g}
  BY DEF TiesAreReported
<1>1. run.register[t].facts \subseteq run.facts /\ run.facts \in SUBSET Fact
  BY ComposedRows DEF About, IInv, WellFormed, Views
<1>2. f \in run.facts /\ g \in run.facts
  BY <1>1 DEF IInv, RowsInv, Sound
<1>3. PICK o \in RowOrders : run.cands = Detected(run.facts, o)
  BY DEF IInv, CandsInv, Undisturbed, Composed
<1>4. \E c \in Detected(run.facts, o) : <<c.a, c.b>> \in {<<f, g>>, <<g, f>>}
  <2> DEFINE F == run.facts
  <2>1. F \in SUBSET Fact /\ f \in F /\ g \in F
    BY <1>1, <1>2
  <2> HIDE DEF F
  <2>2. \E c \in Detected(F, o) : <<c.a, c.b>> \in {<<f, g>>, <<g, f>>}
    BY <2>1, TiesAreCandidates
  <2> QED
    BY <2>2 DEF F
<1>5. PICK c \in run.cands : <<c.a, c.b>> \in {<<f, g>>, <<g, f>>}
  BY <1>3, <1>4
<1>6. PICK x \in conflict : SamePair(x, c)
  BY DEF IInv, CandsInv, Composed
<1>7. (x.a = f /\ x.b = g) \/ (x.a = g /\ x.b = f)
  BY <1>5, <1>6 DEF SamePair
<1> QED
  BY <1>7

LEMMA MismatchesFromInvariant ==
  ASSUME IInv
  PROVE  MismatchesAreOnTheBill
<1> SUFFICES ASSUME NEW c \in run.cands, c.what = "arithmetic_mismatch", moves = 0
             PROVE  /\ \A p \in Figures : Reads(run.facts, Line(c.a), p) # {}
                    /\ \A a \in Reads(run.facts, Line(c.a), "invoice_amount"),
                          r \in Reads(run.facts, Line(c.a), "invoice_rate"),
                          h \in Reads(run.facts, Line(c.a), "invoice_hours") :
                         Value(r) * Value(h) # Value(a)
                    /\ Scope(c.a) = AgreementWide =>
                         \A f \in run.facts :
                           Said[f].doc = Said[c.a].doc => Scope(f) = AgreementWide
  BY DEF MismatchesAreOnTheBill, Reads, Figures
<1>1. run.facts \in SUBSET Fact
  BY DEF IInv, WellFormed, Views
<1>2. PICK o \in RowOrders : run.cands = Detected(run.facts, o)
  BY DEF IInv, CandsInv
<1>3. \A p \in Figures : Reads(run.facts, Line(c.a), p) # {}
  BY <1>1, <1>2, MismatchStatesEveryFigure
<1>4. ASSUME NEW a \in Reads(run.facts, Line(c.a), "invoice_amount"),
             NEW r \in Reads(run.facts, Line(c.a), "invoice_rate"),
             NEW h \in Reads(run.facts, Line(c.a), "invoice_hours")
      PROVE  Value(r) * Value(h) # Value(a)
  BY <1>1, <1>2, MismatchForEveryCopy
<1>5. ASSUME Scope(c.a) = AgreementWide,
             NEW f \in run.facts, Said[f].doc = Said[c.a].doc
      PROVE  Scope(f) = AgreementWide
  BY <1>1, <1>2, <1>5, NoMismatchOnAHeadline
<1> QED
  BY <1>3, <1>4, <1>5

LEMMA FindingsFromInvariant ==
  ASSUME IInv
  PROVE  FindingsSpeakOfTheRegister
<1> SUFFICES ASSUME Examined, Undisturbed,
                    \A f, g \in run.facts : Level(f, g) => f = g
             PROVE  run.findings = Evaluated(run.register)
  BY DEF FindingsSpeakOfTheRegister
<1>1. Composed
  BY DEF Composed, Examined
<1>2. run.facts \in SUBSET Fact
  BY DEF IInv, WellFormed, Views
<1>3. PICK o \in RowOrders : run.findings = Evaluated(Reconciled(run.facts, o))
  BY DEF IInv, RegisterInv
<1>4. DOMAIN run.register = Terms(run.facts)
  BY <1>1 DEF IInv, RegisterInv, Reproduces, WellFormed
<1>5. ASSUME NEW t \in DOMAIN run.register
      PROVE  run.register[t].governing = Reconciled(run.facts, o)[t].governing
  <2>1. PICK q \in RowOrders : run.register[t] = Row(About(run.facts, t), q)
    BY <1>1, ComposedRows
  <2>2. About(run.facts, t) \in SUBSET Fact
    BY <1>2 DEF About
  <2>3. ASSUME NEW f \in About(run.facts, t), NEW g \in About(run.facts, t),
               Governs(f), Governs(g), SameRank(f, g)
        PROVE  f = g
    <3>1. f \in run.facts /\ g \in run.facts /\ Term(f) = Term(g)
      BY DEF About
    <3>2. /\ Dated(f) \in Nat /\ Dated(g) \in Nat
          /\ Precedence(f) \in Nat /\ Precedence(g) \in Nat
      BY <1>2, <2>3, <3>1, Ranks
    <3>3. ~Outranks(f, g) /\ ~Outranks(g, f)
      BY <2>3, <3>2 DEF SameRank, Outranks
    <3> QED
      BY <2>3, <3>1, <3>3 DEF Level
  <2>4. Winner(About(run.facts, t), o) = Winner(About(run.facts, t), q)
    BY <2>2, <2>3, WinnerByRank
  <2>5. Reconciled(run.facts, o)[t] = Row(About(run.facts, t), o)
    BY <1>2, <1>4, ReconciledRows
  <2> QED
    BY <2>1, <2>2, <2>4, <2>5, RowsAreSound
<1>6. DOMAIN Reconciled(run.facts, o) = DOMAIN run.register
  BY <1>2, <1>4, ReconciledRows
<1> QED
  BY <1>3, <1>5, <1>6, FindingsReadWhatGoverns

LEMMA ChangesFromInvariant ==
  ASSUME IInv
  PROVE  ChangesNameTheArrival
<1> SUFFICES ASSUME Composed, run.pc # "completed", Undisturbed,
                    done.docs \subseteq run.docs,
                    NEW t \in DOMAIN run.register, Status(t) # "unchanged"
             PROVE  CausedBy(t) = {Said[f].doc : f \in About(run.facts, t)} \ done.docs
  BY DEF ChangesNameTheArrival
<1> DEFINE now == About(run.facts, t)
           then == About(Views(done.docs), t)
           docs(F) == {Said[f].doc : f \in F}
<1>1. run.register[t].facts = now /\ t \in Terms(run.facts)
  BY ComposedRows
<1>2. run.facts = Views(run.docs) /\ Writing
  BY DEF IInv, WellFormed, Writing, Composed
<1>3. then \subseteq now
  BY <1>2 DEF About, Views
<1>4. \A f \in now : Said[f].doc \in done.docs <=> f \in then
  BY <1>2 DEF About, Views
<1>5. CASE t \notin DOMAIN done.register
  <2>1. then = {}
    BY <1>5 DEF About, Terms, IInv, RegisterInv, Reproduces
  <2>2. docs(now) \ done.docs = docs(now)
    BY <1>4, <2>1
  <2>3. CausedBy(t) = docs(now)
    BY <1>1, <1>5 DEF CausedBy, Sources
  <2> QED
    BY <2>2, <2>3
<1>6. CASE t \in DOMAIN done.register
  <2>1. run.register[t] # done.register[t]
    BY <1>6 DEF Status
  <2>2. run.register[t].facts # done.register[t].facts
    BY <1>2, <1>6, <2>1 DEF IInv, DepsInv, Undisturbed
  <2>3. done.register[t].facts = then
    <3>1. PICK o \in RowOrders :
            done.register[t] = Row(About(Views(done.docs), t), o)
      BY <1>6 DEF IInv, RegisterInv, Reproduces
    <3> QED
      BY <3>1 DEF Row
  <2>4. PICK f \in now : f \notin then
    <3>1. now # then
      BY <1>1, <2>2, <2>3
    <3> HIDE DEF now, then
    <3> QED
      BY <1>3, <3>1
  <2>5. docs(then) \subseteq done.docs
    BY DEF About, Views
  <2>6. docs(now) \ docs(then) = docs(now) \ done.docs
    BY <1>4, <2>5
  <2>7. Said[f].doc \in docs(now) /\ Said[f].doc \notin docs(then)
    BY <1>4, <2>4, <2>5
  <2>8. Sources(run.register[t]) = docs(now) /\ Sources(done.register[t]) = docs(then)
    BY <1>1, <2>3 DEF Sources
  <2> HIDE DEF docs, now, then
  <2>9. CausedBy(t) = docs(now) \ docs(then)
    BY <1>6, <2>7, <2>8 DEF CausedBy
  <2> QED
    BY <2>6, <2>9 DEF docs, now
<1> QED
  BY <1>5, <1>6

-----------------------------------------------------------------------------
(***************************************************************************)
(* Later instruments: what a bill is held against.                         *)
(***************************************************************************)
\* Of any rows one is returned first.
LEMMA FirstRow ==
  ASSUME NEW F \in SUBSET Fact, NEW o \in RowOrders, F # {}
  PROVE  \E x \in F : \A y \in F : o[x] <= o[y]
<1> DEFINE T == {o[f] : f \in F}
<1>1. T \subseteq Nat /\ T # {}
  BY RowsAreNumbered
<1>2. PICK n \in T : \A m \in T : ~(<<m, n>> \in OpToRel(<, Nat))
  <2> HIDE DEF T
  <2> QED
    BY <1>1, NatLessThanWellFounded, WFMin
<1>3. \A m \in T : ~(m < n)
  <2>1. \A m \in T : m < n => <<m, n>> \in OpToRel(<, Nat)
    BY <1>1, <1>2 DEF OpToRel
  <2> QED
    BY <1>2, <2>1
<1>4. PICK x \in F : o[x] = n
  BY <1>2
<1>5. \A y \in F : o[y] \in T /\ o[y] \in Nat /\ n \in Nat
  BY <1>1, <1>2
<1> HIDE DEF T
<1>6. \A y \in F : ~(o[y] < n)
  BY <1>3, <1>5
<1> QED
  BY <1>4, <1>5, <1>6

\* And one is returned last.
LEMMA LastRow ==
  ASSUME NEW F \in SUBSET Fact, NEW o \in RowOrders, F # {}
  PROVE  \E x \in F : \A y \in F : o[y] <= o[x]
<1> DEFINE N == Cardinality(Fact)
           T == {N - o[f] : f \in F}
<1>1. \A f \in F : o[f] \in Nat /\ N - o[f] \in Nat /\ N \in Nat
  BY RowsAreNumbered
<1>2. T \subseteq Nat /\ T # {}
  BY <1>1
<1>3. PICK n \in T : \A m \in T : ~(<<m, n>> \in OpToRel(<, Nat))
  <2> HIDE DEF T
  <2> QED
    BY <1>2, NatLessThanWellFounded, WFMin
<1>4. \A m \in T : ~(m < n)
  <2>1. \A m \in T : m < n => <<m, n>> \in OpToRel(<, Nat)
    BY <1>2, <1>3 DEF OpToRel
  <2> QED
    BY <1>3, <2>1
<1>5. PICK x \in F : N - o[x] = n
  BY <1>3
<1>6. \A y \in F : ~(N - o[y] < N - o[x])
  BY <1>4, <1>5
<1> HIDE DEF N
<1> QED
  BY <1>1, <1>6

\* In any order of the rows, an instrument that none outranks wins, or one of
\* its rank does.
LEMMA WinnerExists ==
  ASSUME NEW F \in SUBSET Fact, NEW o \in RowOrders, NEW v \in F, Governs(v),
         \A g \in F : Governs(g) => ~Outranks(g, v)
  PROVE  \E u \in Winner(F, o) : SameRank(u, v)
<1> DEFINE L == {g \in F : Governs(g) /\ SameRank(g, v)}
<1>1. L \in SUBSET Fact /\ v \in L
  BY DEF SameRank
<1>2. PICK u \in L : \A g \in L : o[g] <= o[u]
  <2> HIDE DEF L
  <2> QED
    BY <1>1, LastRow
<1>3. ASSUME NEW g \in F \ {u}, Governs(g)
      PROVE  Before(g, u, o)
  <2>1. /\ Dated(g) \in Nat /\ Dated(u) \in Nat /\ Dated(v) \in Nat
        /\ Precedence(g) \in Nat /\ Precedence(u) \in Nat /\ Precedence(v) \in Nat
    BY <1>3, Ranks
  <2>2. ~Outranks(g, v) /\ SameRank(u, v)
    BY <1>3
  <2>3. CASE SameRank(g, v)
    <3>1. o[g] <= o[u] /\ o[g] # o[u]
      BY <1>2, <1>3, <2>3, RegisterAssumption DEF IsInjective
    <3>2. o[g] \in Nat /\ o[u] \in Nat
      BY RowsAreNumbered
    <3>3. SameRank(g, u) /\ o[g] < o[u]
      BY <2>2, <2>3, <3>1, <3>2 DEF SameRank
    <3> QED
      BY <3>3 DEF Before
  <2>4. CASE ~SameRank(g, v)
    <3>1. Outranks(u, g)
      BY <2>1, <2>2, <2>4 DEF Outranks, SameRank
    <3> QED
      BY <3>1 DEF Before
  <2> QED
    BY <2>3, <2>4
<1>4. u \in Winner(F, o)
  BY <1>2, <1>3 DEF Winner
<1> QED
  BY <1>4

\* Where level instruments agree, the winner of another order shows the same.
LEMMA WinnersAgree ==
  ASSUME NEW F \in SUBSET Fact, LevelOnesAgree(F),
         NEW o \in RowOrders, NEW p \in RowOrders, NEW v \in Winner(F, o),
         \A f, g \in F : Observes(f) = Observes(g)
  PROVE  \E u \in Winner(F, p) : Shown(u) = Shown(v)
<1>1. v \in F /\ Governs(v)
  BY DEF Winner
<1>2. ASSUME NEW g \in F, Governs(g), Outranks(g, v)
      PROVE  FALSE
  <2>1. /\ Dated(g) \in Nat /\ Dated(v) \in Nat
        /\ Precedence(g) \in Nat /\ Precedence(v) \in Nat
    BY <1>1, <1>2, Ranks
  <2>2. g # v
    BY <1>2, <2>1 DEF Outranks
  <2>3. Before(g, v, o)
    BY <1>2, <2>2 DEF Winner
  <2> QED
    BY <1>2, <2>1, <2>3 DEF Before, Outranks, SameRank
<1>3. PICK u \in Winner(F, p) : SameRank(u, v)
  BY <1>1, <1>2, WinnerExists
<1>4. u \in F /\ Governs(u)
  BY DEF Winner
<1> QED
  BY <1>1, <1>3, <1>4 DEF LevelOnesAgree

\* The facts one observation is compared with in the code's own words: the
\* instruments in force on its day that speak of what it observes.
HeldAgainst(F, f) ==
  InForce({h \in F : Observes(h) = Observes(f)}, Dated(f))

\* Whether an observation departs from what was in force does not depend on
\* the order of the rows.
LEMMA SameDepartures ==
  ASSUME NEW F \in SUBSET Fact, NEW G \in SUBSET Fact, NEW f \in F,
         NEW o \in RowOrders, NEW p \in RowOrders,
         HeldAgainst(F, f) = HeldAgainst(G, f), LevelOnesAgree(HeldAgainst(F, f)),
         Expected(F, f, o) # {}
  PROVE  Expected(G, f, p) # {}
<1> DEFINE E == HeldAgainst(F, f)
<1>1. /\ WinnerAt({h \in F : Observes(h) = Observes(f)}, Dated(f), o) = Winner(E, o)
      /\ WinnerAt({h \in G : Observes(h) = Observes(f)}, Dated(f), p) = Winner(E, p)
  BY DEF WinnerAt, HeldAgainst
<1>2. PICK v \in Winner(E, o) : Comparable(f, v) /\ Value(f) # Value(v)
  BY <1>1 DEF Expected
<1>3. E \in SUBSET Fact /\ \A g, h \in E : Observes(g) = Observes(h)
  BY DEF HeldAgainst, InForce
<1>4. LevelOnesAgree(E)
  OBVIOUS
<1>5. PICK u \in Winner(E, p) : Shown(u) = Shown(v)
  <2> HIDE DEF E
  <2> QED
    BY <1>2, <1>3, <1>4, WinnersAgree
<1>6. Comparable(f, u) /\ Value(f) # Value(u)
  BY <1>2, <1>5 DEF Shown, Comparable
<1>7. u \in Expected(G, f, p)
  BY <1>1, <1>5, <1>6 DEF Expected
<1> QED
  BY <1>7

\* What comparator 2 finds is what departs from it, whichever reading of a
\* problem comes first.
Departs(F, o) == {f \in F : ~Governs(f) /\ Dated(f) > 0 /\ Expected(F, f, o) # {}}

LEMMA StaleProblems ==
  ASSUME NEW F \in SUBSET Fact, NEW o \in RowOrders, NEW D
  PROVE  StaleIn(Detected(F, o), D) =
           {Problem(f) : f \in {g \in Departs(F, o) : Said[g].doc \in D}}
<1> DEFINE firsts == {f \in Departs(F, o) :
                        \A g \in Departs(F, o) : Problem(g) = Problem(f) => o[f] <= o[g]}
<1>1. Stale(F, o) = UNION {{Candidate("temporal_precedence", f, g) :
                              g \in Expected(F, f, o)} : f \in firsts}
  BY DEF Stale, Departs
<1>2. \A d \in Detected(F, o) : d.what = "temporal_precedence" => d \in Stale(F, o)
  <2>1. \A d \in Ties(F, o) : d.what = "same_predicate_different_value"
    BY DEF Ties, Candidate
  <2>2. \A d \in Mismatches(F, o) : d.what = "arithmetic_mismatch"
    BY DEF Mismatches, MismatchOn, Candidate
  <2> QED
    BY <2>1, <2>2 DEF Detected
<1>3. \A d \in Stale(F, o) : d \in Detected(F, o) /\ d.what = "temporal_precedence"
                             /\ d.a \in firsts
  BY <1>1 DEF Detected, Candidate
<1>4. \A f \in firsts : \E d \in Stale(F, o) : d.a = f
  <2> SUFFICES ASSUME NEW f \in firsts
               PROVE  \E d \in Stale(F, o) : d.a = f
    OBVIOUS
  <2>1. PICK g \in Expected(F, f, o) : TRUE
    BY DEF Departs
  <2>2. Candidate("temporal_precedence", f, g) \in Stale(F, o)
    BY <1>1
  <2> QED
    BY <2>2 DEF Candidate
<1>5. ASSUME NEW f \in Departs(F, o)
      PROVE  \E g \in firsts : Problem(g) = Problem(f)
  <2> DEFINE R == {g \in Departs(F, o) : Problem(g) = Problem(f)}
  <2>1. R \in SUBSET Fact /\ R # {}
    BY <1>5 DEF Departs
  <2>2. PICK g \in R : \A h \in R : o[g] <= o[h]
    <3> HIDE DEF R
    <3> QED
      BY <2>1, FirstRow
  <2>3. g \in firsts
    BY <2>2
  <2> QED
    BY <2>3
<1>6. firsts \subseteq Departs(F, o)
  OBVIOUS
<1> HIDE DEF firsts
<1>7. \A f, g : Problem(f) = Problem(g) => Said[f].doc = Said[g].doc
  BY DEF Problem
<1>8. ASSUME NEW x \in StaleIn(Detected(F, o), D)
      PROVE  x \in {Problem(f) : f \in {g \in Departs(F, o) : Said[g].doc \in D}}
  <2>1. PICK d \in Detected(F, o) : /\ d.what = "temporal_precedence"
                                    /\ Said[d.a].doc \in D /\ x = Problem(d.a)
    BY <1>8 DEF StaleIn
  <2>2. d.a \in Departs(F, o)
    BY <1>2, <1>3, <1>6, <2>1
  <2> QED
    BY <2>1, <2>2
<1>9. ASSUME NEW f \in Departs(F, o), Said[f].doc \in D
      PROVE  Problem(f) \in StaleIn(Detected(F, o), D)
  <2>1. PICK g \in firsts : Problem(g) = Problem(f)
    BY <1>9, <1>5
  <2>2. PICK d \in Stale(F, o) : d.a = g
    BY <1>4, <2>1
  <2>3. d \in Detected(F, o) /\ d.what = "temporal_precedence" /\ Said[d.a].doc \in D
    BY <1>3, <1>7, <1>9, <2>1, <2>2
  <2> QED
    BY <2>1, <2>2, <2>3 DEF StaleIn
<1> QED
  BY <1>8, <1>9

\* Two detections, the second with more documents: what departs among the
\* first one's is the same.
LEMMA OldDepartures ==
  ASSUME NEW D \in SUBSET Doc, NEW C \in SUBSET Doc, D \subseteq C,
         NEW o \in RowOrders, NEW p \in RowOrders, LevelOnesAgree(Views(D)),
         \A f \in Views(C) \ Views(D), g \in Views(D) :
           Governs(f) /\ Dated(f) > 0 /\ ~Governs(g) => Dated(f) > Dated(g)
  PROVE  {g \in Departs(Views(D), o) : Said[g].doc \in D} =
         {g \in Departs(Views(C), p) : Said[g].doc \in D}
<1>1. /\ Views(D) \in SUBSET Fact /\ Views(C) \in SUBSET Fact
      /\ Views(D) \subseteq Views(C)
      /\ \A f \in Views(C) : Said[f].doc \in D <=> f \in Views(D)
  BY DEF Views
<1>2. ASSUME NEW f \in Views(D), ~Governs(f)
      PROVE  /\ HeldAgainst(Views(D), f) = HeldAgainst(Views(C), f)
             /\ LevelOnesAgree(HeldAgainst(Views(D), f))
  <2>1. ASSUME NEW h \in HeldAgainst(Views(C), f)
        PROVE  h \in Views(D)
    <3>1. h \in Views(C) /\ Governs(h) /\ Dated(h) \in 1..Dated(f)
      BY DEF HeldAgainst, InForce
    <3>2. Dated(h) > 0 /\ ~(Dated(h) > Dated(f))
      <4>1. Dated(h) \in Nat /\ Dated(f) \in Nat
        BY <1>1, <3>1, Ranks
      <4> QED
        BY <3>1, <4>1
    <3> QED
      BY <1>2, <3>1, <3>2
  <2>2. HeldAgainst(Views(D), f) = HeldAgainst(Views(C), f)
    BY <1>1, <2>1 DEF HeldAgainst, InForce
  <2>3. HeldAgainst(Views(D), f) \subseteq Views(D)
    BY DEF HeldAgainst, InForce
  <2> QED
    BY <2>2, <2>3 DEF LevelOnesAgree
<1>3. ASSUME NEW f \in Views(D), ~Governs(f)
      PROVE  Expected(Views(D), f, o) # {} <=> Expected(Views(C), f, p) # {}
  <2>1. /\ HeldAgainst(Views(D), f) = HeldAgainst(Views(C), f)
        /\ LevelOnesAgree(HeldAgainst(Views(D), f))
        /\ LevelOnesAgree(HeldAgainst(Views(C), f))
        /\ f \in Views(C)
    BY <1>1, <1>2, <1>3
  <2>2. Expected(Views(D), f, o) # {} => Expected(Views(C), f, p) # {}
    BY <1>1, <2>1, SameDepartures
  <2>3. Expected(Views(C), f, p) # {} => Expected(Views(D), f, o) # {}
    BY <1>1, <2>1, SameDepartures
  <2> QED
    BY <2>2, <2>3
<1>4. \A g : g \in Departs(Views(D), o) /\ Said[g].doc \in D
             <=> g \in Departs(Views(C), p) /\ Said[g].doc \in D
  BY <1>1, <1>3 DEF Departs
<1> QED
  BY <1>4

\* Until a kind is settled, the last detection is what its documents give in
\* some order of the rows.
SeenInv ==
  /\ seen.docs \subseteq Doc
  /\ moves = 0 =>
       \/ seen.docs = {}
       \/ \E o \in RowOrders : seen.cands = Detected(Views(seen.docs), o)

\* Only detect_conflicts changes what was last detected.
LEMMA SeenChanges ==
  ASSUME WellFormed, [Next]_vars
  PROVE  \/ seen' = seen /\ (moves' # 0 \/ (moves' = moves /\ kind' = kind))
         \/ /\ kind' = kind /\ moves' = moves
            /\ seen'.docs = run.docs
            /\ \E o \in RowOrders : seen'.cands = Detected(Views(run.docs), o)
<1>1. CASE \E D \in Inbox : Start(D)
  BY <1>1 DEF Start
<1>2. CASE Detect
  <2>1. run.facts = Views(run.docs)
    BY DEF WellFormed
  <2> QED
    BY <1>2, <2>1 DEF Detect
<1>3. CASE Adjudicate
  BY <1>3 DEF Adjudicate
<1>4. CASE Compose
  BY <1>4 DEF Compose
<1>5. CASE Examine
  BY <1>5 DEF Examine
<1>6. CASE Verify
  BY <1>6 DEF Verify
<1>7. CASE Commit
  BY <1>7 DEF Commit
<1>8. CASE Abandon
  BY <1>8 DEF Abandon
<1>9. CASE \E s \in Settles : Reclassified(s[1], s[2])
  <2>1. moves' # 0 /\ seen' = seen
    BY <1>9, ReclassifiedEffect DEF WellFormed, Reclassified
  <2> QED
    BY <2>1
<1>10. CASE UNCHANGED vars
  BY <1>10 DEF vars
<1> QED
  BY <1>1, <1>2, <1>3, <1>4, <1>5, <1>6, <1>7, <1>8, <1>9, <1>10 DEF Next

LEMMA SeenStep ==
  ASSUME WellFormed, SeenInv, [Next]_vars
  PROVE  SeenInv'
<1>1. CASE seen' = seen /\ moves' = moves /\ kind' = kind
  <2>1. \A F, o : Detected(F, o)' = Detected(F, o)
    BY <1>1, SameCandidatesWhileSameKinds
  <2>2. Views(seen.docs)' = Views(seen.docs)
    BY <1>1 DEF Views
  <2>3. \A o : Detected(Views(seen.docs), o)' = Detected(Views(seen.docs), o)
    BY <2>1, <2>2
  <2> QED
    BY <1>1, <2>3 DEF SeenInv
<1>2. CASE seen' = seen /\ moves' # 0
  BY <1>2 DEF SeenInv
<1>3. CASE /\ kind' = kind /\ moves' = moves
           /\ seen'.docs = run.docs
           /\ \E o \in RowOrders : seen'.cands = Detected(Views(run.docs), o)
  <2>1. \A F, o : Detected(F, o)' = Detected(F, o)
    BY <1>3, SameCandidatesWhileSameKinds
  <2>2. Views(seen.docs)' = Views(run.docs)
    BY <1>3 DEF Views
  <2>3. \A o : Detected(Views(seen.docs), o)' = Detected(Views(run.docs), o)
    BY <2>1, <2>2
  <2>4. run.docs \subseteq Doc
    BY DEF WellFormed, RunsWith
  <2> QED
    BY <1>3, <2>3, <2>4 DEF SeenInv
<1> QED
  BY <1>1, <1>2, <1>3, SeenChanges

LEMMA LaterFromInvariant ==
  ASSUME WellFormed, SeenInv, [Next]_vars, seen' # seen,
         moves = 0, LevelOnesAgree(Views(seen.docs)),
         seen.docs \subseteq seen'.docs,
         \A f \in Views(seen'.docs) \ Views(seen.docs), g \in Views(seen.docs) :
           Governs(f) /\ Dated(f) > 0 /\ ~Governs(g) => Dated(f) > Dated(g)
  PROVE  StaleIn(seen'.cands, seen.docs) = StaleIn(seen.cands, seen.docs)
<1>1. CASE seen.docs = {}
  BY <1>1 DEF StaleIn
<1>2. CASE seen.docs # {}
  <2> DEFINE D == seen.docs
             C == seen'.docs
  <2>1. C = run.docs /\ C \in SUBSET Doc /\ D \in SUBSET Doc /\ D \subseteq C
    BY SeenChanges DEF WellFormed, RunsWith, SeenInv
  <2>2. PICK p \in RowOrders : seen'.cands = Detected(Views(C), p)
    BY <2>1, SeenChanges
  <2>3. PICK o \in RowOrders : seen.cands = Detected(Views(D), o)
    BY <1>2 DEF SeenInv
  <2>4. Views(D) \in SUBSET Fact /\ Views(C) \in SUBSET Fact
    BY DEF Views
  <2>5. {g \in Departs(Views(D), o) : Said[g].doc \in D} =
        {g \in Departs(Views(C), p) : Said[g].doc \in D}
    BY <2>1, OldDepartures
  <2>6. /\ StaleIn(Detected(Views(D), o), D) =
             {Problem(f) : f \in {g \in Departs(Views(D), o) : Said[g].doc \in D}}
        /\ StaleIn(Detected(Views(C), p), D) =
             {Problem(f) : f \in {g \in Departs(Views(C), p) : Said[g].doc \in D}}
    BY <2>4, StaleProblems
  <2> QED
    BY <2>2, <2>3, <2>5, <2>6
<1> QED
  BY <1>1, <1>2

-----------------------------------------------------------------------------
\* In every reachable state a row governs by at most one fact, which it
\* cites, candidates are about facts of the run, findings are candidates, and
\* a completed register cites nothing that does not resolve (reconcile.py,
\* conflicts.py, verify.py), whatever order the queries return their rows in.
THEOREM TypeCorrect == Spec => []TypeOK
<1>1. IInv => TypeOK
  BY TypeFromInvariant
<1> QED
  BY <1>1, Invariance, PTL

\* Where the order of the rows alone picked one of two amounts, compose runs
\* only after adjudicate recorded a conflict about the two (conflicts.py
\* comparator 1 against reconcile.py), in whatever orders the two nodes see
\* the rows and however often rows are carried from run to run.
THEOREM TiesGetReported == Spec => []TiesAreReported
<1>1. IInv => TiesAreReported
  BY TiesFromInvariant
<1> QED
  BY <1>1, Invariance, PTL

\* An arithmetic mismatch (conflicts.py comparator 3) is about a line that
\* states all three figures, holds for every choice among their copies, and is
\* about a headline only where the document does not itemise.
THEOREM MismatchesStandOnTheBill == Spec => []MismatchesAreOnTheBill
<1>1. IInv => MismatchesAreOnTheBill
  BY MismatchesFromInvariant
<1> QED
  BY <1>1, Invariance, PTL

\* While rank decides among the instruments and nothing disturbs the runs,
\* examine (rules.py), which reconciles anew, finds what the register that
\* compose wrote or carried gives rise to.
THEOREM FindingsMatchRegister == Spec => []FindingsSpeakOfTheRegister
<1>1. IInv => FindingsSpeakOfTheRegister
  BY FindingsFromInvariant
<1> QED
  BY <1>1, Invariance, PTL

\* The change report (changes.py) names the documents that have arrived since
\* the predecessor and no others, for rows that were added and for rows that
\* were composed anew.
THEOREM ChangesNameArrivals == Spec => []ChangesNameTheArrival
<1>1. IInv => ChangesNameTheArrival
  BY ChangesFromInvariant
<1> QED
  BY <1>1, Invariance, PTL

\* An observation is held against what was in force on its own day, so what
\* comparator 2 (conflicts.py) found about earlier documents is found again,
\* and nothing else about them, when instruments dated later have arrived:
\* whatever order the rows come in now, and whichever reading comes first.
THEOREM OldFindingsStand == Spec => LaterInstrumentsLeaveOldFindings
<1>1. Init => IInv /\ SeenInv
  <2>1. Init => IInv
    BY InitIInv
  <2>2. Init => SeenInv
    BY DEF Init, SeenInv
  <2> QED
    BY <2>1, <2>2
<1>2. IInv /\ [Next]_vars => IInv'
  BY WellFormedStep, RowsStep, CandsStep, DepsStep, RegisterStep DEF IInv
<1>3. IInv /\ SeenInv /\ [Next]_vars => SeenInv'
  BY SeenStep DEF IInv
<1> DEFINE Leaves ==
      LET old == Views(seen.docs)
          arrived == Views(seen'.docs) \ old
      IN /\ moves = 0 /\ LevelOnesAgree(old)
         /\ seen.docs \subseteq seen'.docs
         /\ \A f \in arrived, g \in old :
              Governs(f) /\ Dated(f) > 0 /\ ~Governs(g) => Dated(f) > Dated(g)
         => StaleIn(seen'.cands, seen.docs) = StaleIn(seen.cands, seen.docs)
<1>4. IInv /\ SeenInv /\ [Next]_vars => [Leaves]_seen
  BY LaterFromInvariant DEF IInv
<1>5. LaterInstrumentsLeaveOldFindings <=> [][Leaves]_seen
  BY DEF LaterInstrumentsLeaveOldFindings
<1> QED
  BY <1>1, <1>2, <1>3, <1>4, <1>5, PTL DEF Spec

=============================================================================

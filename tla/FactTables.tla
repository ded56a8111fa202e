----------------------------- MODULE FactTables -----------------------------
(***************************************************************************)
(* The tables concurrent runs share between classification and composing:  *)
(* fact, conflict and the cache of model answers.  The nodes extract,      *)
(* detect_conflicts and adjudicate of services/graph.py, the metered       *)
(* client every model call goes through, and what domain/extract.py,       *)
(* conflicts.py and adjudicate.py decide in them.                          *)
(*                                                                         *)
(* A node is one transaction (READ COMMITTED): what it writes is seen by   *)
(* others when it commits, is lost when it is killed or raises, and makes  *)
(* another transaction that inserts the same key wait.  The checkpoint     *)
(* follows in a transaction of its own, and a run that stopped starts its  *)
(* node again from it.                                                     *)
(*                                                                         *)
(* One vendor and no scopes: every fact speaks of the same rate.  The      *)
(* arithmetic of one invoice (comparator 3) is left out.                   *)
(***************************************************************************)
EXTENDS Naturals, Sequences, FiniteSets, SequencesExt

CONSTANTS
  Doc,
  Says,         \* what each document states: predicate -> value
  Verdicts,     \* what it may say of a candidate, or leave unsaid
  Readings,     \* what the model may read in each: sets of its predicates
  DatedAt,      \* effective dates, 0 when the document has none
  FirstKinds,   \* what document.kind may be when the first run starts
  Kind,         \* the kinds in use
  Unset,        \* sentinel: document.kind is NULL
  Inbox,        \* the document orders a caller may start each run with
  Garbage,      \* answers that cannot be used, by what is wrong with them
  Failed,       \* sentinel: the request itself failed
  NoProblem,    \* sentinel: the first attempt
  Nothing,      \* sentinel: no call is open
  Attempts,     \* extract_max_retries + 1
  MaxRuns,      \* bound: runs started
  MaxTroubles   \* bound: kills, failed requests, unusable answers

Predicate == {"hourly_rate", "invoice_rate"}
Governing == {"msa", "sow", "amendment"}

ASSUME TablesAssumption ==
  /\ IsFiniteSet(Doc)
  /\ \A d \in Doc : DOMAIN Says[d] \subseteq Predicate
  /\ \A d \in Doc : Readings[d] \subseteq SUBSET (DOMAIN Says[d])
  /\ Verdicts \subseteq {"real", "not_real", "absent"}
  /\ DatedAt \in [Doc -> Nat]
  /\ Unset \notin Kind
  /\ FirstKinds \subseteq [Doc -> Kind \cup {Unset}]
  /\ \A r \in 1..MaxRuns : \A D \in Inbox[r] : D \in Seq(Doc) /\ IsInjective(D)

ASSUME TablesBounds ==
  /\ Attempts \in Nat \ {0}
  /\ MaxRuns \in Nat
  /\ MaxTroubles \in Nat

Run == 1..MaxRuns

VARIABLES
  kind,        \* document.kind
  fact,        \* the fact table
  cache,       \* the model_cache table: question -> answer
  conflict,    \* the conflict table
  docs,        \* document_ids of each run
  saved,       \* the checkpoint of each run
  job,         \* what the thread driving the run is doing
  tx,          \* what its open transaction has written
  troubles,
  overlapped,  \* history: two runs were under way at once
  moved        \* history: a kind changed while a run was under way

tables == <<fact, cache, conflict>>
bounds == <<troubles, overlapped, moved>>
vars == <<kind, tables, docs, saved, job, tx, bounds>>

(***************************************************************************)
(* Rows, questions and answers.                                            *)
(***************************************************************************)

\* `by` tells the ids of two extractions of one document apart.
Row == [doc : Doc, predicate : Predicate, by : Run]

\* `said`: the kinds the text of the candidate names.
Candidate ==
  [what : {"same_predicate_different_value", "temporal_precedence"},
   a : Row, b : Row, said : Kind \X Kind]

Dispute(c, status, r) ==
  [what |-> c.what, a |-> c.a, b |-> c.b, status |-> status, by |-> r]

SamePair(x, y) == x.what = y.what /\ x.a = y.a /\ x.b = y.b

Value(f) == Says[f.doc][f.predicate]
SeenKind(d) == IF kind[d] = Unset THEN "unknown" ELSE kind[d]

\* What the prompt says of a fact: never its id.
Stated(f) == [doc |-> f.doc, predicate |-> f.predicate]

FactsOf(d, problem) == [ask |-> "facts", doc |-> d, problem |-> problem]

VerdictsOn(cands) ==
  [ask |-> "verdicts",
   about |-> [i \in DOMAIN cands |->
                [what |-> cands[i].what, said |-> cands[i].said,
                 a |-> Stated(cands[i].a), b |-> Stated(cands[i].b),
                 kinds |-> <<SeenKind(cands[i].a.doc), SeenKind(cands[i].b.doc)>>]]]

Usable(q) ==
  IF q.ask = "facts" THEN Readings[q.doc]
                     ELSE [DOMAIN q.about -> Verdicts]

NoWrites == [facts |-> {}, answers |-> << >>, conflicts |-> {}]

Off == [pc |-> "off", at |-> 1, kind |-> Unset, asked |-> Nothing,
        problem |-> NoProblem, tries |-> 0, facts |-> {},
        results |-> << >>, found |-> {}]

Fresh == [node |-> "none", facts |-> {}, cands |-> << >>, found |-> {}]

Init ==
  /\ kind \in FirstKinds
  /\ fact = {} /\ conflict = {} /\ cache = << >>
  /\ docs = [r \in Run |-> << >>]
  /\ saved = [r \in Run |-> Fresh]
  /\ job = [r \in Run |-> Off]
  /\ tx = [r \in Run |-> NoWrites]
  /\ troubles = 0
  /\ overlapped = FALSE /\ moved = FALSE

UnderWay(r) == saved[r].node \notin {"none", "end"}
Driven(r) == job[r].pc # "off"
At(r, node, pc) == saved[r].node = node /\ job[r].pc = pc
Set(r, j) == job' = [job EXCEPT ![r] = j]
Goes(r, pc) == Set(r, [job[r] EXCEPT !.pc = pc])

\* question -> answer rows, and those an insert adds to them.
Over(new, old) ==
  [q \in DOMAIN new \cup DOMAIN old |-> IF q \in DOMAIN new THEN new[q] ELSE old[q]]

\* What a run sees of the cache: its own transaction's rows too.
Known(r) == Over(tx[r].answers, cache)

AbortsButNotFacts(r) ==
  /\ job' = [job EXCEPT ![r] = Off]
  /\ tx' = [tx EXCEPT ![r].answers = << >>, ![r].conflicts = {}]

\* The transaction ends and nothing it wrote remains.
Aborts(r) ==
  /\ job' = [job EXCEPT ![r] = Off]
  /\ tx' = [tx EXCEPT ![r] = NoWrites]

\* Another open transaction has inserted the same key.
AnswerHolders(r) ==
  {q \in Run \ {r} : job[r].asked \in DOMAIN tx[q].answers}
PairHolders(r) ==
  LET c == job[r].results[job[r].at].cand
  IN {q \in Run \ {r} : \E x \in tx[q].conflicts : SamePair(x, c)}

(***************************************************************************)
(* Starting, resuming, and what happens meanwhile.                         *)
(***************************************************************************)
Start(r, D) ==
  /\ saved[r].node = "none"
  /\ \A q \in Run : q < r => saved[q].node # "none"
  /\ docs' = [docs EXCEPT ![r] = D]
  /\ saved' = [saved EXCEPT ![r].node = "extract"]
  /\ Goes(r, "next")
  /\ overlapped' = (overlapped \/ \E q \in Run : UnderWay(q))
  /\ UNCHANGED <<kind, tables, tx, troubles, moved>>

FirstStep(node) ==
  CASE node = "extract"    -> "next"
    [] node = "detect"     -> "detect"
    [] node = "adjudicate" -> "ask"
    [] node = "end"        -> "off"

Resume(r) ==
  /\ UnderWay(r) /\ ~Driven(r)
  /\ Goes(r, FirstStep(saved[r].node))
  /\ UNCHANGED <<kind, tables, docs, saved, tx, bounds>>

\* Killed, or the node raised: an item without a predicate, a verdict list
\* that is no object, a lost connection.
Stop(r) ==
  /\ Driven(r)
  /\ troubles < MaxTroubles /\ troubles' = troubles + 1
  /\ Aborts(r)
  /\ UNCHANGED <<kind, tables, docs, saved, overlapped, moved>>

\* classify, or the answer to an escalation, of a run that is not at these
\* nodes yet.
Classified(d, k) ==
  /\ kind[d] = Unset
  /\ kind' = [kind EXCEPT ![d] = k]
  /\ moved' = (moved \/ \E r \in Run : UnderWay(r))
  /\ UNCHANGED <<tables, docs, saved, job, tx, troubles, overlapped>>

(***************************************************************************)
(* What a node makes of an answer: nothing of it is seen by others before  *)
(* the transaction ends.                                                   *)
(***************************************************************************)
HasDoc(r) == job[r].at <= Len(docs[r])
ThisDoc(r) == docs[r][job[r].at]
NextDoc(j) == [j EXCEPT !.pc = "next", !.at = @ + 1, !.asked = Nothing,
                        !.problem = NoProblem, !.tries = 0, !.kind = Unset]

\* What was billed is only stated by an invoice, or by a document whose kind
\* nobody has settled.
Allowed(predicate, k) == predicate = "invoice_rate" => k \in {"invoice", Unset}

\* The next prompt says what was wrong; after the last attempt the document
\* is reported and skipped.
Repaired(j, problem) ==
  IF j.tries + 1 < Attempts
  THEN [j EXCEPT !.pc = "ask", !.problem = problem, !.asked = Nothing, !.tries = @ + 1]
  ELSE NextDoc(j)

\* The facts of an answer, with new ids; none when it cannot be used.
Kept(r, j, answer) ==
  IF answer \in Garbage \cup {Failed} THEN {}
  ELSE [doc : {ThisDoc(r)}, by : {r},
        predicate : {p \in answer : Allowed(p, j.kind)}]

ExtractReads(r, j, answer) ==
  IF answer \in Garbage \cup {Failed} THEN Repaired(j, answer)
  ELSE NextDoc([j EXCEPT !.facts = @ \cup Kept(r, j, answer)])

ResultsIfAnswered(cands, answer) ==
  LET answered == {i \in DOMAIN cands : answer \in Garbage \/ answer[i] # "absent"}
      order == SetToSortSeq(answered, <)
  IN [n \in DOMAIN order |->
        [cand |-> cands[order[n]],
         real |-> answer \in Garbage \/ answer[order[n]] # "not_real"]]

\* adjudicate: a candidate no verdict came back for is reported as it was
\* found; so are all of them when the answer cannot be read.
Results(cands, answer) ==
  [i \in DOMAIN cands |->
     [cand |-> cands[i], real |-> answer \in Garbage \/ answer[i] # "not_real"]]

AdjudicateReads(r, j, answer) ==
  [j EXCEPT !.pc = "judge", !.asked = Nothing,
            !.results = Results(saved[r].cands, answer)]

Reads(r, j, answer, stored) ==
  IF saved[r].node = "extract"
  THEN /\ Set(r, ExtractReads(r, j, answer))
       /\ tx' = [tx EXCEPT ![r].answers = Over(stored, @),
                           ![r].facts = @ \cup Kept(r, j, answer)]
  ELSE /\ Set(r, AdjudicateReads(r, j, answer))
       /\ tx' = [tx EXCEPT ![r].answers = Over(stored, @)]

(***************************************************************************)
(* The metered client.                                                     *)
(***************************************************************************)
NeverCached(r, q) == FALSE
Cached(r, q) == q \in DOMAIN Known(r)

Ask(r, j, q) ==
  IF Cached(r, q) THEN Reads(r, j, Known(r)[q], << >>)
  ELSE Set(r, [j EXCEPT !.asked = q, !.pc = "call"]) /\ UNCHANGED tx

AskAgain(r) ==
  /\ At(r, "extract", "ask")
  /\ Ask(r, job[r], FactsOf(ThisDoc(r), job[r].problem))
  /\ UNCHANGED <<kind, tables, docs, saved, bounds>>

\* The views are built again: the prompt names the kinds of now.
AskForVerdicts(r) ==
  /\ At(r, "adjudicate", "ask")
  /\ Ask(r, job[r], VerdictsOn(saved[r].cands))
  /\ UNCHANGED <<kind, tables, docs, saved, bounds>>

\* The answer is read after INSERT ... ON CONFLICT DO NOTHING, which waits
\* for a transaction that has inserted the key.  Then the row that is there
\* stays, and the run uses its own answer.
Receives(r, answer) ==
  /\ job[r].pc = "call"
  /\ AnswerHolders(r) = {}
  /\ Reads(r, job[r], answer,
           IF job[r].asked \in DOMAIN cache THEN << >>
           ELSE [q \in {job[r].asked} |-> answer])

Replies(r) ==
  /\ job[r].pc = "call"
  /\ \E a \in Usable(job[r].asked) : Receives(r, a)
  /\ UNCHANGED <<kind, tables, docs, saved, bounds>>

RepliesGarbage(r) ==
  /\ troubles < MaxTroubles /\ troubles' = troubles + 1
  /\ \E a \in Garbage : Receives(r, a)
  /\ UNCHANGED <<kind, tables, docs, saved, overlapped, moved>>

\* extract retries a failed request; adjudicate lets it out of the node.
RequestFails(r) ==
  /\ job[r].pc = "call"
  /\ troubles < MaxTroubles /\ troubles' = troubles + 1
  /\ IF saved[r].node = "extract"
     THEN Set(r, ExtractReads(r, job[r], Failed)) /\ UNCHANGED tx
     ELSE Aborts(r)
  /\ UNCHANGED <<kind, tables, docs, saved, overlapped, moved>>

(***************************************************************************)
(* extract, document by document.                                          *)
(***************************************************************************)
AlreadyByRun(r, d) == {f \in fact \cup tx[r].facts : f.doc = d /\ f.by = r}

\* The facts this transaction sees of a document.
Already(r, d) == {f \in fact \cup tx[r].facts : f.doc = d}

Reuse(r) ==
  /\ At(r, "extract", "next") /\ HasDoc(r)
  /\ Already(r, ThisDoc(r)) # {}
  /\ Set(r, NextDoc([job[r] EXCEPT !.facts = @ \cup Already(r, ThisDoc(r))]))
  /\ UNCHANGED <<kind, tables, docs, saved, tx, bounds>>

\* The row of the document, its kind too, is loaded here and not again.
TakeUp(r) ==
  /\ At(r, "extract", "next") /\ HasDoc(r)
  /\ Already(r, ThisDoc(r)) = {}
  /\ Ask(r, [job[r] EXCEPT !.kind = kind[ThisDoc(r)]], FactsOf(ThisDoc(r), NoProblem))
  /\ UNCHANGED <<kind, tables, docs, saved, bounds>>

Commits(r) ==
  /\ fact' = fact \cup tx[r].facts
  /\ cache' = Known(r)
  /\ conflict' = conflict \cup tx[r].conflicts
  /\ tx' = [tx EXCEPT ![r] = NoWrites]
  /\ Goes(r, "saving")

CommitFacts(r) ==
  /\ At(r, "extract", "next") /\ ~HasDoc(r)
  /\ Commits(r)
  /\ UNCHANGED <<kind, docs, saved, bounds>>

Saves(r, s) ==
  /\ saved' = [saved EXCEPT ![r] = s]
  /\ Set(r, [Off EXCEPT !.pc = FirstStep(s.node)])

SaveFacts(r) ==
  /\ At(r, "extract", "saving")
  /\ Saves(r, [saved[r] EXCEPT !.node = "detect", !.facts = job[r].facts])
  /\ UNCHANGED <<kind, tables, docs, tx, bounds>>

(***************************************************************************)
(* detect_conflicts: no row is written.  The facts arrive in any order:    *)
(* the query has no ORDER BY.                                              *)
(***************************************************************************)
Governs(f) == SeenKind(f.doc) \in Governing
Precedence(f) == CASE SeenKind(f.doc) = "msa" -> 1
                   [] SeenKind(f.doc) = "sow" -> 2
                   [] SeenKind(f.doc) = "amendment" -> 3
Dated(f) == DatedAt[f.doc]

Found(what, a, b) ==
  [what |-> what, a |-> a, b |-> b, said |-> <<SeenKind(a.doc), SeenKind(b.doc)>>]

\* Two instruments nothing orders state different values of one term.
Tied(f, g) ==
  /\ Governs(f) /\ Governs(g)
  /\ f.predicate = g.predicate
  /\ Dated(f) = Dated(g) /\ Precedence(f) = Precedence(g)
  /\ Value(f) # Value(g)

TiedPairs(rows) ==
  {p \in (DOMAIN rows) \X (DOMAIN rows) : p[1] < p[2] /\ Tied(rows[p[1]], rows[p[2]])}

\* Term by term as they come up, and in each by the places of the two rows.
PairBefore(rows, p, q) ==
  LET group(i) == SelectInSeq(rows, LAMBDA f : Governs(f) /\ f.predicate = rows[i].predicate)
  IN \/ group(p[1]) < group(q[1])
     \/ /\ group(p[1]) = group(q[1])
        /\ p[1] < q[1] \/ (p[1] = q[1] /\ p[2] < q[2])

\* What a comparator finds: the one list in its order.
Ties(rows) ==
  {[n \in DOMAIN s |->
      Found("same_predicate_different_value", rows[s[n][1]], rows[s[n][2]])] :
     s \in {u \in SetToSeqs(TiedPairs(rows)) :
              \A m, n \in DOMAIN u : m < n => PairBefore(rows, u[m], u[n])}}

\* governing_value_at: the latest by that day, then the higher precedence,
\* then the last row.  A rate billed is evidence of the rate agreed.
GoverningAt(rows, day) ==
  {j \in DOMAIN rows :
     LET before(f, g) == \/ Dated(f) < Dated(g)
                         \/ Dated(f) = Dated(g) /\ Precedence(f) < Precedence(g)
         eligible == {i \in DOMAIN rows : Governs(rows[i]) /\ Dated(rows[i]) \in 1..day}
     IN /\ j \in eligible
        /\ \A i \in eligible \ {j} :
             \/ before(rows[i], rows[j])
             \/ ~before(rows[j], rows[i]) /\ i < j}

HeldAgainst(rows, i) ==
  {j \in GoverningAt(rows, Dated(rows[i])) : Value(rows[i]) # Value(rows[j])}

\* Of each document, the first row that acted on another value.
Outdated(rows) ==
  LET raised == {i \in DOMAIN rows :
                   /\ ~Governs(rows[i]) /\ Dated(rows[i]) > 0
                   /\ HeldAgainst(rows, i) # {}}
  IN {i \in raised : \A k \in raised : rows[k].doc = rows[i].doc => i <= k}

Stale(rows) ==
  {[n \in DOMAIN s |->
      Found("temporal_precedence", rows[s[n]],
            rows[CHOOSE j \in HeldAgainst(rows, s[n]) : TRUE])] :
     s \in {u \in SetToSeqs(Outdated(rows)) :
              \A m, n \in DOMAIN u : m < n => u[m] < u[n]}}

Detected(rows) == {p[1] \o p[2] : p \in Ties(rows) \X Stale(rows)}

Detect(r) ==
  /\ At(r, "detect", "detect")
  /\ \E cands \in UNION {Detected(rows) : rows \in SetToSeqs(saved[r].facts)} :
       Saves(r, [saved[r] EXCEPT !.cands = cands,
                   !.node = IF cands = << >> THEN "end" ELSE "adjudicate"])
  /\ UNCHANGED <<kind, tables, docs, tx, bounds>>

(***************************************************************************)
(* adjudicate, candidate by candidate.                                     *)
(***************************************************************************)
HasResult(r) == job[r].at <= Len(job[r].results)
ThisCand(r) == job[r].results[job[r].at].cand
IsReal(r) == job[r].results[job[r].at].real

Pair(c) == [what |-> c.what, a |-> c.a, b |-> c.b]
PassedOver(r) == [job[r] EXCEPT !.pc = "judge", !.at = @ + 1]
Judged(r) ==
  [PassedOver(r) EXCEPT !.found = @ \cup (IF IsReal(r) THEN {Pair(ThisCand(r))} ELSE {})]

Existing(r) == {x \in conflict \cup tx[r].conflicts : SamePair(x, ThisCand(r))}

NeverSettled(rows) == FALSE

\* What was dismissed is not raised again.
Settled(rows) == \E x \in rows : x.status # "open"

MeetsExisting(r) ==
  /\ At(r, "adjudicate", "judge") /\ HasResult(r)
  /\ Existing(r) # {}
  /\ Set(r, IF Settled(Existing(r)) THEN PassedOver(r) ELSE Judged(r))
  /\ UNCHANGED <<kind, tables, docs, saved, tx, bounds>>

FindsNone(r) ==
  /\ At(r, "adjudicate", "judge") /\ HasResult(r)
  /\ Existing(r) = {}
  /\ Goes(r, "insert")
  /\ UNCHANGED <<kind, tables, docs, saved, tx, bounds>>

\* The insert waits for a transaction that has inserted the pair; if that
\* one committed, uq_conflict_pair_kind makes the node raise.
Insert(r) ==
  /\ At(r, "adjudicate", "insert")
  /\ PairHolders(r) = {}
  /\ IF Existing(r) = {}
     THEN /\ tx' = [tx EXCEPT ![r].conflicts = @ \cup
                      {Dispute(ThisCand(r), IF IsReal(r) THEN "open" ELSE "dismissed", r)}]
          /\ Set(r, Judged(r))
     ELSE Aborts(r)
  /\ UNCHANGED <<kind, tables, docs, saved, bounds>>

CommitVerdicts(r) ==
  /\ At(r, "adjudicate", "judge") /\ ~HasResult(r)
  /\ Commits(r)
  /\ UNCHANGED <<kind, docs, saved, bounds>>

SaveVerdicts(r) ==
  /\ At(r, "adjudicate", "saving")
  /\ Saves(r, [saved[r] EXCEPT !.node = "end", !.found = job[r].found])
  /\ UNCHANGED <<kind, tables, docs, tx, bounds>>

(***************************************************************************)
(* The database aborts one of the transactions that wait for each other.   *)
(* extract takes the error for a failed request, and raises at the next    *)
(* statement of the aborted transaction.                                   *)
(***************************************************************************)
WaitsFor(r) ==
  CASE job[r].pc = "call"   -> AnswerHolders(r)
    [] job[r].pc = "insert" -> PairHolders(r)
    [] OTHER -> {}

NobodyIsAborted(r) == FALSE

InCycle(r) ==
  \E C \in SUBSET Run : r \in C /\ \A q \in C : WaitsFor(q) \cap C # {}

DeadlockVictim(r) ==
  /\ InCycle(r)
  /\ Aborts(r)
  /\ UNCHANGED <<kind, tables, docs, saved, bounds>>

\* The steps of the nodes that write: a detection holds no key.
Works(r) ==
  \/ Reuse(r) \/ TakeUp(r) \/ AskAgain(r) \/ AskForVerdicts(r)
  \/ Replies(r) \/ CommitFacts(r) \/ SaveFacts(r)
  \/ MeetsExisting(r) \/ FindsNone(r) \/ Insert(r)
  \/ CommitVerdicts(r) \/ SaveVerdicts(r) \/ DeadlockVictim(r)

Next ==
  \/ \E r \in Run :
       \/ \E D \in Inbox[r] : Start(r, D)
       \/ Resume(r) \/ Stop(r) \/ Works(r) \/ Detect(r)
       \/ RepliesGarbage(r) \/ RequestFails(r)
  \/ \E d \in Doc, k \in Kind : Classified(d, k)

\* A thread that was started goes on, the model answers or its client times
\* out, and Postgres resolves deadlocks.  Nobody has to resume a run.
Spec == Init /\ [][Next]_vars /\ \A r \in Run : WF_vars(Works(r))

(***************************************************************************)
(* What the tables promise.                                                *)
(***************************************************************************)
\* Every row, answer and thread is of its type, and a run's conflict rows
\* are about facts that exist.
TypeOK ==
  /\ kind \in [Doc -> Kind \cup {Unset}]
  /\ fact \subseteq Row
  /\ \A r \in Run :
       /\ saved[r].node \in {"none", "extract", "detect", "adjudicate", "end"}
       /\ saved[r].facts \subseteq fact
       /\ \A i \in DOMAIN saved[r].cands :
            {saved[r].cands[i].a, saved[r].cands[i].b} \subseteq saved[r].facts
       /\ job[r].tries < Attempts
       /\ job[r].facts \subseteq fact \cup tx[r].facts
       /\ ~Driven(r) => tx[r] = NoWrites
  /\ \A x \in conflict : {x.a, x.b} \subseteq fact

\* graph.extract: while runs follow one another, no kill, restart, retry or
\* unusable answer makes a document's facts be extracted a second time.
ExtractedOnce ==
  ~overlapped => \A f, g \in fact : f.doc = g.doc => f.by = g.by

\* adjudicate: whatever the model left unanswered or dismissed, a run that
\* has ended left a row for every candidate that was found.
NothingFoundVanishes ==
  \A r \in Run : saved[r].node = "end" =>
    \A i \in DOMAIN saved[r].cands :
      \E x \in conflict : SamePair(x, saved[r].cands[i])

\* adjudicate_conflicts: a run reports no pair that is settled, also when the
\* model changed its mind or two runs raced for the row.
ReportedIsOpen ==
  \A r \in Run : saved[r].node = "end" =>
    \A c \in saved[r].found :
      \E x \in conflict : SamePair(x, c) /\ x.status = "open"

\* The cache and the existing row together make adjudicate repeatable: a run
\* killed after its rows were committed still reports every conflict it
\* opened.  Not so when a kind changed in between (the prompt is another one)
\* or when overlapping runs hold two answers to one question.
OpenedHereIsReportedHere ==
  ~moved /\ ~overlapped =>
    \A x \in conflict :
      x.status = "open" /\ saved[x.by].node = "end" =>
        \E c \in saved[x.by].found : SamePair(x, c)

\* No run waits for ever for a key another transaction has inserted: the
\* other ends, is thrown out, or is aborted when it waits in turn.
NobodyWaitsForEver ==
  \A r \in Run : WaitsFor(r) # {} ~> WaitsFor(r) = {}

=============================================================================

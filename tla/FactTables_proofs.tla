------------------------- MODULE FactTables_proofs -------------------------
(***************************************************************************)
(* Proofs about FactTables, for any documents, readings, verdicts, kinds,  *)
(* document orders, runs, attempts and troubles.                           *)
(***************************************************************************)
EXTENDS FactTables, FiniteSetTheorems, SequenceTheorems, TLAPS

(***************************************************************************)
(* The inductive invariant.  First: where a thread, its transaction and    *)
(* its checkpoint can be.                                                  *)
(***************************************************************************)
JobFields == {"pc", "at", "kind", "asked", "problem", "tries", "facts",
              "results", "found"}
TxFields == {"facts", "answers", "conflicts"}
SavedFields == {"node", "facts", "cands", "found"}

\* What may have been wrong with the answer before.
Problems == Garbage \cup {Failed, NoProblem}

Pcs(node) == CASE node = "extract"    -> {"off", "next", "ask", "call", "saving"}
               [] node = "detect"     -> {"off", "detect"}
               [] node = "adjudicate" -> {"off", "ask", "call", "judge", "insert", "saving"}
               [] OTHER -> {"off"}

Placed(r) ==
  /\ DOMAIN job[r] = JobFields /\ DOMAIN tx[r] = TxFields /\ DOMAIN saved[r] = SavedFields
  /\ docs[r] \in Seq(Doc)
  /\ saved[r].node \in {"none", "extract", "detect", "adjudicate", "end"}
  /\ job[r].pc \in Pcs(saved[r].node)
  /\ job[r].at \in Nat \ {0} /\ job[r].problem \in Problems
  /\ job[r].tries \in Nat /\ job[r].tries < Attempts
  /\ job[r].pc = "off" => job[r] = Off
  /\ job[r].pc \in {"off", "detect", "saving"} => tx[r] = NoWrites
  /\ saved[r].node = "extract" /\ job[r].pc \in {"ask", "call"} => HasDoc(r)
  /\ saved[r].node = "adjudicate" /\ job[r].pc \in {"ask", "call"} => job[r].at = 1
  /\ saved[r].node # "end" => saved[r].found = {}
  /\ saved[r].node \in {"none", "extract", "detect"} => saved[r].cands = << >>

Shape ==
  /\ DOMAIN job = Run /\ DOMAIN tx = Run /\ DOMAIN saved = Run /\ DOMAIN docs = Run
  /\ \A r \in Run : Placed(r)

(***************************************************************************)
(* What the rows say, and whose they are.                                  *)
(***************************************************************************)
RowOf(S) == [doc : Doc, predicate : Predicate, by : S]

AnswersFine(c) ==
  \A d \in Doc : \A p \in Problems : FactsOf(d, p) \in DOMAIN c =>
    c[FactsOf(d, p)] \in Readings[d] \cup Garbage

IsListOver(cands, S) ==
  /\ Len(cands) \in Nat /\ DOMAIN cands = 1..Len(cands)
  /\ \A i \in DOMAIN cands : cands[i].a \in S /\ cands[i].b \in S

Judging(r) == saved[r].node = "adjudicate" /\ job[r].pc \in {"judge", "insert", "saving"}

Grounded(r) ==
  /\ tx[r].facts \subseteq RowOf({r})
  /\ saved[r].node # "extract" => tx[r].facts = {}
  /\ job[r].facts \subseteq fact \cup tx[r].facts
  /\ saved[r].facts \subseteq fact
  /\ IsListOver(saved[r].cands, saved[r].facts)
  /\ \A x \in tx[r].conflicts : x.a \in fact /\ x.b \in fact /\ x.by = r
  /\ job[r].pc = "call" =>
       IF saved[r].node = "extract"
       THEN \E p \in Problems : job[r].asked = FactsOf(ThisDoc(r), p)
       ELSE job[r].asked.ask = "verdicts"
  /\ AnswersFine(tx[r].answers)
  /\ Judging(r) =>
       /\ DOMAIN job[r].results = DOMAIN saved[r].cands
       /\ Len(job[r].results) = Len(saved[r].cands)
       /\ \A i \in DOMAIN saved[r].cands : job[r].results[i].cand = saved[r].cands[i]
  /\ job[r].pc = "insert" => HasResult(r)

Data ==
  /\ kind \in [Doc -> Kind \cup {Unset}]
  /\ fact \subseteq Row
  /\ \A x \in conflict : x.a \in fact /\ x.b \in fact
  /\ AnswersFine(cache)
  /\ \A r \in Run : Grounded(r)

(***************************************************************************)
(* Every candidate that was passed has a row, and every pair that is       *)
(* reported has an open one.                                               *)
(***************************************************************************)
Rows(r) == conflict \cup tx[r].conflicts

Accounted(r) ==
  /\ Judging(r) =>
       \A i \in DOMAIN saved[r].cands :
         i < job[r].at \/ job[r].pc = "saving" =>
           \E x \in Rows(r) : SamePair(x, saved[r].cands[i])
  /\ \A c \in job[r].found :
       \E x \in Rows(r) : SamePair(x, c) /\ x.status = "open"
  /\ saved[r].node = "end" =>
       /\ \A i \in DOMAIN saved[r].cands :
            \E x \in conflict : SamePair(x, saved[r].cands[i])
       /\ \A c \in saved[r].found :
            \E x \in conflict : SamePair(x, c) /\ x.status = "open"

FoundInv == \A r \in Run : Accounted(r)

(***************************************************************************)
(* While runs follow one another, one run extracts a document.             *)
(***************************************************************************)
Alone == \A q, r \in Run : UnderWay(q) /\ UnderWay(r) => q = r

Once(F) == \A f, g \in F : f.doc = g.doc => f.by = g.by

OnceInv ==
  ~overlapped =>
    /\ Alone
    /\ Once(fact)
    /\ \A r \in Run :
         /\ Once(fact \cup tx[r].facts)
         /\ saved[r].node = "extract" /\ job[r].pc \in {"ask", "call"} =>
              Already(r, ThisDoc(r)) = {}

(***************************************************************************)
(* While runs follow one another and no kind changes under them, the cache *)
(* holds the verdicts a run acted on: whoever judges again, after a kill,  *)
(* comes to the same rows.                                                 *)
(***************************************************************************)
Real(answer, i) == answer \in Garbage \/ answer[i] # "not_real"

Question(r) == VerdictsOn(saved[r].cands)

\* The row stands for a candidate that these answers call real.
RealIn(c, r, x) ==
  /\ Question(r) \in DOMAIN c
  /\ \E i \in DOMAIN saved[r].cands :
       SamePair(x, saved[r].cands[i]) /\ Real(c[Question(r)], i)

Unique(rows) == \A x, y \in rows : SamePair(x, y) => x = y

Reported(r, x) == \E c \in saved[r].found : SamePair(x, c)

Repeatable(r) ==
  /\ \A x \in conflict : x.by = r /\ x.status = "open" => RealIn(cache, r, x)
  /\ \A x \in tx[r].conflicts : x.status = "open" => RealIn(Known(r), r, x)
  /\ \A q \in DOMAIN tx[r].answers : q \notin DOMAIN cache
  /\ job[r].pc = "call" => job[r].asked = Question(r) /\ ~Cached(r, Question(r))
  /\ Judging(r) =>
       /\ Cached(r, Question(r))
       /\ \A i \in DOMAIN saved[r].cands :
            /\ job[r].results[i].real = Real(Known(r)[Question(r)], i)
            /\ (i < job[r].at \/ job[r].pc = "saving") /\ job[r].results[i].real =>
                 \A x \in Rows(r) :
                   SamePair(x, saved[r].cands[i]) /\ x.status = "open" =>
                     Pair(saved[r].cands[i]) \in job[r].found

Owned(r) ==
  /\ Unique(Rows(r))
  /\ ~Judging(r) => tx[r].conflicts = {}
  /\ saved[r].node = "adjudicate" => Repeatable(r)
  /\ saved[r].node = "end" =>
       \A x \in conflict : x.by = r /\ x.status = "open" => Reported(r, x)

HereInv ==
  ~moved /\ ~overlapped =>
    /\ \A x \in conflict : x.by \in Run /\ saved[x.by].node \in {"adjudicate", "end"}
    /\ \A r \in Run : Owned(r)

IInv == Shape /\ Data /\ FoundInv /\ OnceInv /\ HereInv


-----------------------------------------------------------------------------
(***************************************************************************)
(* What a step does to the run that takes it, field by field.              *)
(***************************************************************************)
\* The other runs' threads, transactions and checkpoints are not touched.
Frame(r) ==
  /\ DOMAIN job' = Run /\ DOMAIN tx' = Run /\ DOMAIN saved' = Run /\ DOMAIN docs' = Run
  /\ \A q \in Run \ {r} : /\ job'[q] = job[q] /\ tx'[q] = tx[q]
                          /\ saved'[q] = saved[q] /\ docs'[q] = docs[q]

JobIs(j, pc, at, tries, facts, results, found) ==
  /\ DOMAIN j = JobFields /\ j.problem \in Problems
  /\ j.pc = pc /\ j.at = at /\ j.tries = tries
  /\ j.facts = facts /\ j.results = results /\ j.found = found

TxIs(x, facts, answers, conflicts) ==
  /\ DOMAIN x = TxFields
  /\ x.facts = facts /\ x.answers = answers /\ x.conflicts = conflicts

SavedIs(s, node, facts, cands, found) ==
  /\ DOMAIN s = SavedFields
  /\ s.node = node /\ s.facts = facts /\ s.cands = cands /\ s.found = found

\* Neither the tables nor the kinds nor the history change.
Hidden == UNCHANGED <<kind, fact, cache, conflict, overlapped, moved>>

\* Start: the first step of a run.
Starts(r) ==
  /\ Frame(r) /\ UNCHANGED <<kind, fact, cache, conflict, moved>>
  /\ saved[r].node = "none" /\ docs'[r] \in Seq(Doc)
  /\ SavedIs(saved'[r], "extract", saved[r].facts, saved[r].cands, saved[r].found)
  /\ JobIs(job'[r], "next", 1, 0, {}, << >>, {})
  /\ tx'[r] = tx[r] /\ tx[r] = NoWrites
  /\ overlapped' = (overlapped \/ \E q \in Run : UnderWay(q))

\* Resume.
Resumes(r) ==
  /\ Frame(r) /\ Hidden /\ saved'[r] = saved[r] /\ docs'[r] = docs[r]
  /\ saved[r].node \in {"extract", "detect", "adjudicate"} /\ job[r] = Off
  /\ JobIs(job'[r], FirstStep(saved[r].node), 1, 0, {}, << >>, {})
  /\ tx'[r] = tx[r] /\ tx[r] = NoWrites

\* Whatever makes a transaction end without a commit.
Drops(r) ==
  /\ Frame(r) /\ Hidden /\ saved'[r] = saved[r] /\ docs'[r] = docs[r]
  /\ job'[r] = Off /\ tx'[r] = NoWrites

\* An answer about a document, or none, was read.
TakesIn(r) ==
  /\ Frame(r) /\ Hidden /\ saved'[r] = saved[r] /\ docs'[r] = docs[r]
  /\ saved[r].node = "extract" /\ job[r].pc \in {"next", "ask", "call"}
  /\ HasDoc(r)
  /\ job[r].pc = "next" => Already(r, ThisDoc(r)) = {}
  /\ \E K \in SUBSET [doc : {ThisDoc(r)}, by : {r}, predicate : Predicate] :
       /\ TxIs(tx'[r], tx[r].facts \cup K, tx'[r].answers, tx[r].conflicts)
       /\ \/ /\ JobIs(job'[r], "next", job[r].at + 1, 0, job[r].facts \cup K,
                      job[r].results, job[r].found)
          \/ /\ K = {} /\ job[r].tries + 1 < Attempts
             /\ JobIs(job'[r], "ask", job[r].at, job[r].tries + 1, job[r].facts,
                      job[r].results, job[r].found)
  /\ AnswersFine(tx'[r].answers)

\* A question the cache has no answer to goes to the model.
Asks(r) ==
  /\ Frame(r) /\ Hidden /\ saved'[r] = saved[r] /\ docs'[r] = docs[r]
  /\ tx'[r] = tx[r]
  /\ JobIs(job'[r], "call", job[r].at, job[r].tries, job[r].facts,
           job[r].results, job[r].found)
  /\ ~Cached(r, job'[r].asked)
  /\ \/ /\ saved[r].node = "extract" /\ job[r].pc \in {"next", "ask"} /\ HasDoc(r)
        /\ job[r].pc = "next" => Already(r, ThisDoc(r)) = {}
        /\ \E p \in Problems : job'[r].asked = FactsOf(ThisDoc(r), p)
     \/ /\ saved[r].node = "adjudicate" /\ job[r].pc = "ask"
        /\ job'[r].asked = VerdictsOn(saved[r].cands)

\* The verdicts were read.
Hears(r) ==
  /\ Frame(r) /\ Hidden /\ saved'[r] = saved[r] /\ docs'[r] = docs[r]
  /\ saved[r].node = "adjudicate" /\ job[r].pc \in {"ask", "call"}
  /\ TxIs(tx'[r], tx[r].facts, tx'[r].answers, tx[r].conflicts)
  /\ AnswersFine(tx'[r].answers)
  /\ \E answer :
       /\ JobIs(job'[r], "judge", job[r].at, job[r].tries, job[r].facts,
                Results(saved[r].cands, answer), job[r].found)
       /\ \/ /\ job[r].pc = "ask" /\ Cached(r, VerdictsOn(saved[r].cands))
             /\ answer = Known(r)[VerdictsOn(saved[r].cands)]
             /\ tx'[r].answers = Over(<< >>, tx[r].answers)
          \/ /\ job[r].pc = "call"
             /\ job[r].asked \notin DOMAIN cache =>
                  tx'[r].answers = Over([q \in {job[r].asked} |-> answer], tx[r].answers)

\* Reuse.
PassesBy(r) ==
  /\ Frame(r) /\ Hidden /\ saved'[r] = saved[r] /\ docs'[r] = docs[r]
  /\ saved[r].node = "extract" /\ job[r].pc = "next" /\ HasDoc(r)
  /\ tx'[r] = tx[r]
  /\ JobIs(job'[r], "next", job[r].at + 1, 0,
           job[r].facts \cup Already(r, ThisDoc(r)), job[r].results, job[r].found)

\* CommitFacts and CommitVerdicts.
Writes(r) ==
  /\ Frame(r) /\ UNCHANGED <<kind, overlapped, moved>>
  /\ saved'[r] = saved[r] /\ docs'[r] = docs[r]
  /\ \/ saved[r].node = "extract" /\ job[r].pc = "next"
     \/ saved[r].node = "adjudicate" /\ job[r].pc = "judge" /\ ~HasResult(r)
  /\ fact' = fact \cup tx[r].facts /\ cache' = Known(r)
  /\ conflict' = conflict \cup tx[r].conflicts
  /\ tx'[r] = NoWrites
  /\ JobIs(job'[r], "saving", job[r].at, job[r].tries, job[r].facts,
           job[r].results, job[r].found)

\* SaveFacts, Detect and SaveVerdicts.
Advances(r) ==
  /\ Frame(r) /\ Hidden /\ docs'[r] = docs[r] /\ tx'[r] = tx[r]
  /\ tx[r] = NoWrites
  /\ \/ /\ saved[r].node = "extract" /\ job[r].pc = "saving"
        /\ SavedIs(saved'[r], "detect", job[r].facts, saved[r].cands, saved[r].found)
     \/ /\ saved[r].node = "detect" /\ job[r].pc = "detect"
        /\ \E cands : /\ IsListOver(cands, saved[r].facts)
                      /\ cands = << >> =>
                           SavedIs(saved'[r], "end", saved[r].facts, cands, saved[r].found)
                      /\ cands # << >> =>
                           SavedIs(saved'[r], "adjudicate", saved[r].facts, cands,
                                   saved[r].found)
     \/ /\ saved[r].node = "adjudicate" /\ job[r].pc = "saving"
        /\ SavedIs(saved'[r], "end", saved[r].facts, saved[r].cands, job[r].found)
  /\ saved'[r].node = "end" => job'[r] = Off
  /\ saved'[r].node # "end" =>
       JobIs(job'[r], FirstStep(saved'[r].node), 1, 0, {}, << >>, {})

\* MeetsExisting, FindsNone and Insert.
Judges(r) ==
  /\ Frame(r) /\ Hidden /\ saved'[r] = saved[r] /\ docs'[r] = docs[r]
  /\ saved[r].node = "adjudicate" /\ HasResult(r)
  /\ \/ /\ job[r].pc = "judge" /\ Existing(r) # {} /\ tx'[r] = tx[r]
        /\ \/ /\ Settled(Existing(r))
              /\ JobIs(job'[r], "judge", job[r].at + 1, job[r].tries, job[r].facts,
                       job[r].results, job[r].found)
           \/ /\ ~Settled(Existing(r))
              /\ JobIs(job'[r], "judge", job[r].at + 1, job[r].tries, job[r].facts,
                       job[r].results,
                       job[r].found \cup (IF IsReal(r) THEN {Pair(ThisCand(r))} ELSE {}))
     \/ /\ job[r].pc = "judge" /\ Existing(r) = {} /\ tx'[r] = tx[r]
        /\ JobIs(job'[r], "insert", job[r].at, job[r].tries, job[r].facts,
                 job[r].results, job[r].found)
     \/ /\ job[r].pc = "insert" /\ Existing(r) = {}
        /\ TxIs(tx'[r], tx[r].facts, tx[r].answers, tx[r].conflicts \cup
                  {Dispute(ThisCand(r), IF IsReal(r) THEN "open" ELSE "dismissed", r)})
        /\ JobIs(job'[r], "judge", job[r].at + 1, job[r].tries, job[r].facts,
                 job[r].results,
                 job[r].found \cup (IF IsReal(r) THEN {Pair(ThisCand(r))} ELSE {}))

\* Classified.
Settles(d, k) ==
  /\ UNCHANGED <<fact, cache, conflict, docs, saved, job, tx, overlapped>>
  /\ kind[d] = Unset /\ kind' = [kind EXCEPT ![d] = k]
  /\ moved' = (moved \/ \E r \in Run : UnderWay(r))

Moves(r) ==
  \/ Starts(r) \/ Resumes(r) \/ Drops(r) \/ TakesIn(r) \/ Asks(r) \/ Hears(r)
  \/ PassesBy(r) \/ Writes(r) \/ Advances(r) \/ Judges(r)

-----------------------------------------------------------------------------
\* The threads that are off.
LEMMA OffFields ==
  /\ DOMAIN Off = JobFields /\ Off.pc = "off" /\ Off.at = 1 /\ Off.tries = 0
  /\ Off.facts = {} /\ Off.results = << >> /\ Off.found = {}
  /\ Off.problem = NoProblem
BY DEF Off, JobFields

LEMMA NoWritesFields ==
  /\ DOMAIN NoWrites = TxFields /\ NoWrites.facts = {}
  /\ NoWrites.answers = << >> /\ NoWrites.conflicts = {}
BY DEF NoWrites, TxFields

\* An assignment to one thread.
LEMMA SetEffect ==
  ASSUME Shape, NEW r \in Run, NEW j, Set(r, j)
  PROVE  /\ DOMAIN job' = Run /\ job'[r] = j
         /\ \A q \in Run \ {r} : job'[q] = job[q]
BY DEF Shape, Set

\* Only the place of a thread changes.
LEMMA GoesEffect ==
  ASSUME Shape, NEW r \in Run, NEW pc, Goes(r, pc)
  PROVE  /\ DOMAIN job' = Run
         /\ JobIs(job'[r], pc, job[r].at, job[r].tries, job[r].facts,
                  job[r].results, job[r].found)
         /\ \A q \in Run \ {r} : job'[q] = job[q]
<1>1. job'[r] = [job[r] EXCEPT !.pc = pc]
  BY DEF Shape, Set, Goes
<1>2. DOMAIN job[r] = JobFields /\ job[r].problem \in Problems
  BY DEF Shape, Placed
<1>3. JobIs(job'[r], pc, job[r].at, job[r].tries, job[r].facts,
            job[r].results, job[r].found)
  BY <1>1, <1>2 DEF JobFields, JobIs
<1> QED
  BY <1>3 DEF Shape, Set, Goes

\* On to the next document.
LEMMA NextDocFields ==
  ASSUME NEW j, DOMAIN j = JobFields
  PROVE  JobIs(NextDoc(j), "next", j.at + 1, 0, j.facts, j.results, j.found)
BY DEF NextDoc, JobIs, JobFields, Problems

\* After an answer that cannot be used: asked again, or skipped.
LEMMA RepairedFields ==
  ASSUME NEW j, DOMAIN j = JobFields, NEW problem \in Problems
  PROVE  IF j.tries + 1 < Attempts
         THEN JobIs(Repaired(j, problem), "ask", j.at, j.tries + 1, j.facts, j.results,
                    j.found)
         ELSE JobIs(Repaired(j, problem), "next", j.at + 1, 0, j.facts, j.results, j.found)
<1>1. CASE j.tries + 1 < Attempts
  <2>1. Repaired(j, problem) =
          [j EXCEPT !.pc = "ask", !.problem = problem, !.asked = Nothing, !.tries = @ + 1]
    BY <1>1 DEF Repaired
  <2> QED BY <1>1, <2>1 DEF JobIs, JobFields
<1>2. CASE ~(j.tries + 1 < Attempts)
  BY <1>2, NextDocFields DEF Repaired
<1> QED BY <1>1, <1>2

\* The rows of one answers map laid over another.
LEMMA OverIsFine ==
  ASSUME NEW new, NEW old, AnswersFine(new), AnswersFine(old)
  PROVE  AnswersFine(Over(new, old))
BY DEF AnswersFine, Over

LEMMA NothingIsFine == AnswersFine(<< >>)
BY DEF AnswersFine

\* The question about a document names it and what was wrong before.
LEMMA FactsQuestion ==
  ASSUME NEW d, NEW p
  PROVE  FactsOf(d, p).ask = "facts" /\ FactsOf(d, p).doc = d /\ FactsOf(d, p).problem = p
BY DEF FactsOf

LEMMA VerdictsQuestion ==
  ASSUME NEW cands
  PROVE  /\ VerdictsOn(cands).ask = "verdicts"
         /\ DOMAIN VerdictsOn(cands).about = DOMAIN cands
BY DEF VerdictsOn

-----------------------------------------------------------------------------
(***************************************************************************)
(* Every action is a step of one of these kinds.                           *)
(***************************************************************************)
LEMMA StartIs ==
  ASSUME Shape, NEW r \in Run, NEW D \in Inbox[r], Start(r, D)
  PROVE  Starts(r)
<1>1. Placed(r)
  BY DEF Shape
<1>2. job[r] = Off /\ tx[r] = NoWrites
  BY <1>1 DEF Start, Placed, Pcs
<1>3. D \in Seq(Doc)
  BY TablesAssumption DEF Run
<1>4. /\ DOMAIN job' = Run
      /\ JobIs(job'[r], "next", 1, 0, {}, << >>, {})
      /\ \A q \in Run \ {r} : job'[q] = job[q]
  <2>1. Goes(r, "next")
    BY DEF Start
  <2> QED BY <1>2, <2>1, GoesEffect, OffFields
<1>5. /\ DOMAIN saved' = Run
      /\ \A q \in Run \ {r} : saved'[q] = saved[q]
      /\ saved'[r] = [saved[r] EXCEPT !.node = "extract"]
  BY DEF Start, Shape
<1>6. DOMAIN saved[r] = SavedFields
  BY <1>1 DEF Placed
<1>7. SavedIs(saved'[r], "extract", saved[r].facts, saved[r].cands, saved[r].found)
  BY <1>5, <1>6 DEF SavedIs, SavedFields
<1>8. Frame(r)
  BY <1>4, <1>5 DEF Frame, Start, Shape
<1>9. docs'[r] \in Seq(Doc)
  BY <1>3 DEF Start, Shape
<1> QED
  BY <1>2, <1>4, <1>7, <1>8, <1>9 DEF Starts, Start, tables

LEMMA ResumeIs ==
  ASSUME Shape, NEW r \in Run, Resume(r)
  PROVE  Resumes(r)
<1>1. Placed(r)
  BY DEF Shape
<1>2. job[r] = Off /\ tx[r] = NoWrites
  BY <1>1 DEF Resume, Placed, Driven
<1>3. saved[r].node \in {"extract", "detect", "adjudicate"}
  BY <1>1 DEF Resume, UnderWay, Placed
<1>4. Goes(r, FirstStep(saved[r].node))
  BY DEF Resume
<1>5. /\ DOMAIN job' = Run
      /\ JobIs(job'[r], FirstStep(saved[r].node), 1, 0, {}, << >>, {})
      /\ \A q \in Run \ {r} : job'[q] = job[q]
  BY <1>2, <1>4, GoesEffect, OffFields
<1>6. Frame(r)
  BY <1>5 DEF Frame, Resume, Shape
<1> QED
  BY <1>2, <1>3, <1>5, <1>6 DEF Resumes, Resume, tables, bounds, Hidden

\* A transaction that ends without a commit, whoever ends it.
LEMMA AbortIs ==
  ASSUME Shape, NEW r \in Run, Aborts(r),
         UNCHANGED <<kind, tables, docs, saved, overlapped, moved>>
  PROVE  Drops(r)
<1>1. Frame(r)
  BY DEF Frame, Shape, Aborts
<1> QED
  BY <1>1 DEF Shape, Aborts, Drops, Hidden, tables

\* What extract makes of an answer it kept, or of a request that failed.
LEMMA ReadInExtract ==
  ASSUME Shape, NEW r \in Run, HasDoc(r), NEW j, DOMAIN j = JobFields,
         j.at = job[r].at, j.tries = job[r].tries, j.facts = job[r].facts,
         j.results = job[r].results, j.found = job[r].found,
         NEW answer \in Readings[ThisDoc(r)] \cup Garbage \cup {Failed}
  PROVE  /\ Kept(r, j, answer) \in SUBSET [doc : {ThisDoc(r)}, by : {r}, predicate : Predicate]
         /\ \/ JobIs(ExtractReads(r, j, answer), "next", job[r].at + 1, 0,
                     job[r].facts \cup Kept(r, j, answer), job[r].results, job[r].found)
            \/ /\ Kept(r, j, answer) = {} /\ job[r].tries + 1 < Attempts
               /\ JobIs(ExtractReads(r, j, answer), "ask", job[r].at, job[r].tries + 1,
                        job[r].facts, job[r].results, job[r].found)
<1>1. ThisDoc(r) \in Doc
  BY DEF Shape, Placed, HasDoc, ThisDoc
<1>2. CASE answer \in Garbage \cup {Failed}
  <2>1. Kept(r, j, answer) = {}
    BY <1>2 DEF Kept
  <2>2. ExtractReads(r, j, answer) = Repaired(j, answer)
    BY <1>2 DEF ExtractReads
  <2>3. answer \in Problems
    BY <1>2 DEF Problems
  <2>4. job[r].facts \cup {} = job[r].facts
    OBVIOUS
  <2>5. CASE j.tries + 1 < Attempts
    BY <2>1, <2>2, <2>3, <2>5, RepairedFields
  <2>6. CASE ~(j.tries + 1 < Attempts)
    <3>1. JobIs(Repaired(j, answer), "next", j.at + 1, 0, j.facts, j.results, j.found)
      BY <2>3, <2>6, RepairedFields
    <3> QED BY <2>1, <2>2, <2>4, <3>1
  <2> QED BY <2>5, <2>6
<1>3. CASE answer \notin Garbage \cup {Failed}
  <2>1. answer \in SUBSET Predicate
    BY <1>1, <1>3, TablesAssumption
  <2>2. Kept(r, j, answer) =
          [doc : {ThisDoc(r)}, by : {r}, predicate : {p \in answer : Allowed(p, j.kind)}]
    BY <1>3 DEF Kept
  <2>3. Kept(r, j, answer) \in SUBSET [doc : {ThisDoc(r)}, by : {r}, predicate : Predicate]
    BY <2>1, <2>2
  <2> DEFINE k == [j EXCEPT !.facts = @ \cup Kept(r, j, answer)]
  <2>4. /\ DOMAIN k = JobFields /\ k.at = job[r].at /\ k.results = job[r].results
        /\ k.found = job[r].found /\ k.facts = job[r].facts \cup Kept(r, j, answer)
    BY DEF JobFields
  <2>5. ExtractReads(r, j, answer) = NextDoc(k)
    BY <1>3 DEF ExtractReads
  <2>6. JobIs(NextDoc(k), "next", k.at + 1, 0, k.facts, k.results, k.found)
    <3> HIDE DEF k
    <3> QED BY <2>4, NextDocFields
  <2> QED BY <2>3, <2>4, <2>5, <2>6
<1> QED BY <1>2, <1>3

\* An answer is read in extract, and its rows are inserted.
LEMMA ReadIsTakenIn ==
  ASSUME Shape, Data, NEW r \in Run, saved[r].node = "extract", HasDoc(r),
         job[r].pc \in {"next", "ask", "call"},
         job[r].pc = "next" => Already(r, ThisDoc(r)) = {},
         NEW j, DOMAIN j = JobFields,
         j.at = job[r].at, j.tries = job[r].tries, j.facts = job[r].facts,
         j.results = job[r].results, j.found = job[r].found,
         NEW answer \in Readings[ThisDoc(r)] \cup Garbage,
         NEW stored, AnswersFine(stored), Reads(r, j, answer, stored),
         UNCHANGED <<kind, tables, docs, saved, overlapped, moved>>
  PROVE  TakesIn(r)
<1> DEFINE K == Kept(r, j, answer)
<1>1. /\ K \in SUBSET [doc : {ThisDoc(r)}, by : {r}, predicate : Predicate]
      /\ \/ JobIs(ExtractReads(r, j, answer), "next", job[r].at + 1, 0,
                  job[r].facts \cup K, job[r].results, job[r].found)
         \/ /\ K = {} /\ job[r].tries + 1 < Attempts
            /\ JobIs(ExtractReads(r, j, answer), "ask", job[r].at, job[r].tries + 1,
                     job[r].facts, job[r].results, job[r].found)
  BY ReadInExtract
<1>2. /\ Set(r, ExtractReads(r, j, answer))
      /\ tx' = [tx EXCEPT ![r].answers = Over(stored, @), ![r].facts = @ \cup K]
  BY DEF Reads
<1>3. /\ DOMAIN job' = Run /\ job'[r] = ExtractReads(r, j, answer)
      /\ \A q \in Run \ {r} : job'[q] = job[q]
  BY <1>2, SetEffect
<1>4. DOMAIN tx = Run /\ DOMAIN tx[r] = TxFields
  BY DEF Shape, Placed
<1> HIDE DEF K
<1>5. /\ DOMAIN tx' = Run /\ \A q \in Run \ {r} : tx'[q] = tx[q]
      /\ tx'[r] = [tx[r] EXCEPT !.answers = Over(stored, @), !.facts = @ \cup K]
  BY <1>2, <1>4
<1>6. TxIs(tx'[r], tx[r].facts \cup K, Over(stored, tx[r].answers), tx[r].conflicts)
  BY <1>4, <1>5 DEF TxFields, TxIs
<1>7. AnswersFine(tx'[r].answers) /\ tx'[r].answers = Over(stored, tx[r].answers)
  <2>1. AnswersFine(tx[r].answers)
    BY DEF Data, Grounded
  <2> QED BY <1>6, <2>1, OverIsFine DEF TxIs
<1>8. Frame(r)
  BY <1>3, <1>5 DEF Frame, Shape
<1>9. saved'[r] = saved[r] /\ docs'[r] = docs[r] /\ Hidden
  BY DEF Hidden, tables
<1>10. TxIs(tx'[r], tx[r].facts \cup K, tx'[r].answers, tx[r].conflicts)
  BY <1>6, <1>7
<1> QED
  BY <1>1, <1>3, <1>7, <1>8, <1>9, <1>10 DEF TakesIn

\* An answer is read in adjudicate.
LEMMA ReadIsHeard ==
  ASSUME Shape, Data, NEW r \in Run, saved[r].node = "adjudicate",
         job[r].pc \in {"ask", "call"},
         NEW answer, NEW stored, AnswersFine(stored),
         Reads(r, job[r], answer, stored),
         \/ /\ job[r].pc = "ask" /\ Cached(r, VerdictsOn(saved[r].cands))
            /\ answer = Known(r)[VerdictsOn(saved[r].cands)] /\ stored = << >>
         \/ /\ job[r].pc = "call"
            /\ job[r].asked \notin DOMAIN cache =>
                 stored = [q \in {job[r].asked} |-> answer],
         UNCHANGED <<kind, tables, docs, saved, overlapped, moved>>
  PROVE  Hears(r)
<1>1. /\ Set(r, AdjudicateReads(r, job[r], answer))
      /\ tx' = [tx EXCEPT ![r].answers = Over(stored, @)]
  BY DEF Reads
<1>2. /\ DOMAIN job' = Run /\ job'[r] = AdjudicateReads(r, job[r], answer)
      /\ \A q \in Run \ {r} : job'[q] = job[q]
  BY <1>1, SetEffect
<1>3. DOMAIN tx = Run /\ DOMAIN tx[r] = TxFields /\ DOMAIN job[r] = JobFields
      /\ job[r].problem \in Problems
  BY DEF Shape, Placed
<1>4. JobIs(job'[r], "judge", job[r].at, job[r].tries, job[r].facts,
            Results(saved[r].cands, answer), job[r].found)
  BY <1>2, <1>3 DEF AdjudicateReads, JobFields, JobIs
<1>5. /\ DOMAIN tx' = Run /\ \A q \in Run \ {r} : tx'[q] = tx[q]
      /\ tx'[r] = [tx[r] EXCEPT !.answers = Over(stored, @)]
  BY <1>1, <1>3
<1>6. TxIs(tx'[r], tx[r].facts, Over(stored, tx[r].answers), tx[r].conflicts)
  BY <1>3, <1>5 DEF TxFields, TxIs
<1>7. AnswersFine(tx'[r].answers) /\ tx'[r].answers = Over(stored, tx[r].answers)
  <2>1. AnswersFine(tx[r].answers)
    BY DEF Data, Grounded
  <2> QED BY <1>6, <2>1, OverIsFine DEF TxIs
<1>8. Frame(r)
  BY <1>2, <1>5 DEF Frame, Shape
<1>9. saved'[r] = saved[r] /\ docs'[r] = docs[r] /\ Hidden
  BY DEF Hidden, tables
<1>10. TxIs(tx'[r], tx[r].facts, tx'[r].answers, tx[r].conflicts)
  BY <1>6, <1>7
<1> QED
  BY <1>4, <1>7, <1>8, <1>9, <1>10 DEF Hears

\* A question about a document: the cache answers, or the model is asked.
LEMMA AskInExtract ==
  ASSUME Shape, Data, NEW r \in Run, saved[r].node = "extract", HasDoc(r),
         job[r].pc \in {"next", "ask"},
         job[r].pc = "next" => Already(r, ThisDoc(r)) = {},
         NEW j, DOMAIN j = JobFields, j.problem \in Problems,
         j.at = job[r].at, j.tries = job[r].tries, j.facts = job[r].facts,
         j.results = job[r].results, j.found = job[r].found,
         NEW problem \in Problems, Ask(r, j, FactsOf(ThisDoc(r), problem)),
         UNCHANGED <<kind, tables, docs, saved, overlapped, moved>>
  PROVE  TakesIn(r) \/ Asks(r)
<1> DEFINE q == FactsOf(ThisDoc(r), problem)
<1>1. ThisDoc(r) \in Doc
  BY DEF Shape, Placed, HasDoc, ThisDoc
<1>2. CASE Cached(r, q)
  <2>1. AnswersFine(Known(r))
    BY OverIsFine DEF Data, Grounded, Known
  <2>2. Known(r)[q] \in Readings[ThisDoc(r)] \cup Garbage
    BY <1>1, <1>2, <2>1 DEF AnswersFine, Cached
  <2>3. Reads(r, j, Known(r)[q], << >>)
    BY <1>2 DEF Ask
  <2>4. job[r].pc \in {"next", "ask", "call"}
    OBVIOUS
  <2> QED BY <2>2, <2>3, <2>4, NothingIsFine, ReadIsTakenIn
<1>3. CASE ~Cached(r, q)
  <2>1. Set(r, [j EXCEPT !.asked = q, !.pc = "call"]) /\ tx' = tx
    BY <1>3 DEF Ask
  <2>2. /\ DOMAIN job' = Run /\ job'[r] = [j EXCEPT !.asked = q, !.pc = "call"]
        /\ \A s \in Run \ {r} : job'[s] = job[s]
    BY <2>1, SetEffect
  <2>3. JobIs(job'[r], "call", job[r].at, job[r].tries, job[r].facts,
              job[r].results, job[r].found)
    <3> HIDE DEF q
    <3> QED BY <2>2 DEF JobIs, JobFields
  <2>4. job'[r].asked = q
    <3> HIDE DEF q
    <3> QED BY <2>2 DEF JobFields
  <2>5. Frame(r)
    BY <2>1, <2>2 DEF Frame, Shape
  <2>6. saved'[r] = saved[r] /\ docs'[r] = docs[r] /\ Hidden
    BY DEF Hidden, tables
  <2>7. ~Cached(r, job'[r].asked)
    BY <1>3, <2>4
  <2> QED BY <2>1, <2>3, <2>4, <2>5, <2>6, <2>7 DEF Asks
<1> QED BY <1>2, <1>3

LEMMA AskAgainIs ==
  ASSUME Shape, Data, NEW r \in Run, AskAgain(r)
  PROVE  TakesIn(r) \/ Asks(r)
<1>1. Placed(r)
  BY DEF Shape
<1>2. /\ saved[r].node = "extract" /\ job[r].pc = "ask"
      /\ Ask(r, job[r], FactsOf(ThisDoc(r), job[r].problem))
      /\ UNCHANGED <<kind, tables, docs, saved, overlapped, moved>>
  BY DEF AskAgain, At, bounds
<1>3. HasDoc(r) /\ DOMAIN job[r] = JobFields /\ job[r].problem \in Problems
  BY <1>1, <1>2 DEF Placed
<1> QED BY <1>2, <1>3, AskInExtract

LEMMA TakeUpIs ==
  ASSUME Shape, Data, NEW r \in Run, TakeUp(r)
  PROVE  TakesIn(r) \/ Asks(r)
<1> DEFINE j == [job[r] EXCEPT !.kind = kind[ThisDoc(r)]]
<1>1. DOMAIN job[r] = JobFields /\ job[r].problem \in Problems
  BY DEF Shape, Placed
<1>2. /\ saved[r].node = "extract" /\ job[r].pc = "next" /\ HasDoc(r)
      /\ Already(r, ThisDoc(r)) = {}
      /\ Ask(r, j, FactsOf(ThisDoc(r), NoProblem))
      /\ UNCHANGED <<kind, tables, docs, saved, overlapped, moved>>
  BY DEF TakeUp, At, bounds
<1>3. /\ DOMAIN j = JobFields /\ j.problem \in Problems
      /\ j.at = job[r].at /\ j.tries = job[r].tries /\ j.facts = job[r].facts
      /\ j.results = job[r].results /\ j.found = job[r].found
  BY <1>1 DEF JobFields
<1>4. NoProblem \in Problems
  BY DEF Problems
<1> HIDE DEF j
<1> QED BY <1>2, <1>3, <1>4, AskInExtract

LEMMA AskForVerdictsIs ==
  ASSUME Shape, Data, NEW r \in Run, AskForVerdicts(r)
  PROVE  Hears(r) \/ Asks(r)
<1> DEFINE q == VerdictsOn(saved[r].cands)
<1>1. /\ saved[r].node = "adjudicate" /\ job[r].pc = "ask"
      /\ Ask(r, job[r], q)
      /\ UNCHANGED <<kind, tables, docs, saved, overlapped, moved>>
  BY DEF AskForVerdicts, At, bounds
<1>2. DOMAIN job[r] = JobFields /\ job[r].problem \in Problems
  BY DEF Shape, Placed
<1>3. CASE Cached(r, q)
  <2>1. Reads(r, job[r], Known(r)[q], << >>)
    BY <1>1, <1>3 DEF Ask
  <2> QED BY <1>1, <1>3, <2>1, NothingIsFine, ReadIsHeard
<1>4. CASE ~Cached(r, q)
  <2>1. Set(r, [job[r] EXCEPT !.asked = q, !.pc = "call"]) /\ tx' = tx
    BY <1>1, <1>4 DEF Ask
  <2>2. /\ DOMAIN job' = Run /\ job'[r] = [job[r] EXCEPT !.asked = q, !.pc = "call"]
        /\ \A s \in Run \ {r} : job'[s] = job[s]
    BY <2>1, SetEffect
  <2>3. /\ job'[r].asked = q
        /\ JobIs(job'[r], "call", job[r].at, job[r].tries, job[r].facts,
                 job[r].results, job[r].found)
    <3> HIDE DEF q
    <3> QED BY <1>2, <2>2 DEF JobIs, JobFields
  <2>4. Frame(r)
    BY <1>1, <2>1, <2>2 DEF Frame, Shape
  <2>5. saved'[r] = saved[r] /\ docs'[r] = docs[r] /\ Hidden
    BY <1>1 DEF Hidden, tables
  <2>6. ~Cached(r, job'[r].asked)
    BY <1>4, <2>3
  <2> QED BY <1>1, <2>1, <2>3, <2>4, <2>5, <2>6 DEF Asks
<1> QED BY <1>3, <1>4

\* An answer of the model: read in the node that asked.
LEMMA ReceiveIs ==
  ASSUME Shape, Data, NEW r \in Run, job[r].pc = "call",
         NEW answer \in Usable(job[r].asked) \cup Garbage, Receives(r, answer),
         UNCHANGED <<kind, tables, docs, saved, overlapped, moved>>
  PROVE  TakesIn(r) \/ Hears(r)
<1> DEFINE stored == IF job[r].asked \in DOMAIN cache THEN << >>
                     ELSE [q \in {job[r].asked} |-> answer]
<1>1. Placed(r) /\ Grounded(r)
  BY DEF Shape, Data
<1>2. saved[r].node \in {"extract", "adjudicate"}
  BY <1>1 DEF Placed, Pcs
<1>3. Reads(r, job[r], answer, stored)
  BY DEF Receives
<1>4. CASE saved[r].node = "extract"
  <2>1. HasDoc(r) /\ DOMAIN job[r] = JobFields
    BY <1>1, <1>4 DEF Placed
  <2>2. PICK p \in Problems : job[r].asked = FactsOf(ThisDoc(r), p)
    BY <1>1, <1>4 DEF Grounded
  <2>3. answer \in Readings[ThisDoc(r)] \cup Garbage
    BY <2>2, FactsQuestion DEF Usable
  <2>4. AnswersFine(stored)
    <3>1. ASSUME NEW d \in Doc, NEW s \in Problems, FactsOf(d, s) \in DOMAIN stored
          PROVE  stored[FactsOf(d, s)] \in Readings[d] \cup Garbage
      <4>1. stored[FactsOf(d, s)] = answer /\ FactsOf(d, s) = FactsOf(ThisDoc(r), p)
        BY <2>2, <3>1
      <4>2. d = ThisDoc(r)
        BY <4>1, FactsQuestion
      <4> QED BY <2>3, <4>1, <4>2
    <3> HIDE DEF stored
    <3> QED BY <3>1 DEF AnswersFine
  <2> HIDE DEF stored
  <2> QED BY <1>3, <1>4, <2>1, <2>3, <2>4, ReadIsTakenIn
<1>5. CASE saved[r].node = "adjudicate"
  <2>1. job[r].asked.ask = "verdicts"
    BY <1>1, <1>5 DEF Grounded
  <2>2. AnswersFine(stored)
    <3>1. ASSUME NEW d \in Doc, NEW s \in Problems, FactsOf(d, s) \in DOMAIN stored
          PROVE  FALSE
      BY <2>1, <3>1, FactsQuestion
    <3> HIDE DEF stored
    <3> QED BY <3>1 DEF AnswersFine
  <2>3. job[r].asked \notin DOMAIN cache => stored = [q \in {job[r].asked} |-> answer]
    OBVIOUS
  <2> HIDE DEF stored
  <2> QED BY <1>3, <1>5, <2>2, <2>3, ReadIsHeard
<1> QED BY <1>2, <1>4, <1>5

LEMMA RepliesIs ==
  ASSUME Shape, Data, NEW r \in Run, Replies(r)
  PROVE  TakesIn(r) \/ Hears(r)
<1>1. PICK a \in Usable(job[r].asked) : Receives(r, a)
  BY DEF Replies
<1>2. job[r].pc = "call" /\ UNCHANGED <<kind, tables, docs, saved, overlapped, moved>>
  BY DEF Replies, bounds
<1> QED BY <1>1, <1>2, ReceiveIs

LEMMA RepliesGarbageIs ==
  ASSUME Shape, Data, NEW r \in Run, RepliesGarbage(r)
  PROVE  TakesIn(r) \/ Hears(r)
<1>1. PICK a \in Garbage : Receives(r, a)
  BY DEF RepliesGarbage
<1>2. job[r].pc = "call" /\ UNCHANGED <<kind, tables, docs, saved, overlapped, moved>>
  BY <1>1 DEF RepliesGarbage, Receives
<1> QED BY <1>1, <1>2, ReceiveIs

LEMMA RequestFailsIs ==
  ASSUME Shape, Data, NEW r \in Run, RequestFails(r)
  PROVE  TakesIn(r) \/ Drops(r)
<1>1. Placed(r) /\ Grounded(r)
  BY DEF Shape, Data
<1>2. job[r].pc = "call" /\ UNCHANGED <<kind, tables, docs, saved, overlapped, moved>>
  BY DEF RequestFails
<1>3. CASE saved[r].node = "extract"
  <2>1. Set(r, ExtractReads(r, job[r], Failed)) /\ tx' = tx
    BY <1>3 DEF RequestFails
  <2>2. HasDoc(r) /\ DOMAIN job[r] = JobFields /\ DOMAIN tx[r] = TxFields
    BY <1>1, <1>2, <1>3 DEF Placed
  <2>3. Kept(r, job[r], Failed) = {}
    BY DEF Kept
  <2>4. \/ JobIs(ExtractReads(r, job[r], Failed), "next", job[r].at + 1, 0,
                 job[r].facts \cup {}, job[r].results, job[r].found)
        \/ /\ job[r].tries + 1 < Attempts
           /\ JobIs(ExtractReads(r, job[r], Failed), "ask", job[r].at, job[r].tries + 1,
                    job[r].facts, job[r].results, job[r].found)
    BY <2>2, <2>3, ReadInExtract
  <2>5. /\ DOMAIN job' = Run /\ job'[r] = ExtractReads(r, job[r], Failed)
        /\ \A q \in Run \ {r} : job'[q] = job[q]
    BY <2>1, SetEffect
  <2>6. Frame(r)
    BY <1>2, <2>1, <2>5 DEF Frame, Shape
  <2>7. TxIs(tx'[r], tx[r].facts \cup {}, tx'[r].answers, tx[r].conflicts)
        /\ AnswersFine(tx'[r].answers)
    BY <1>1, <2>1, <2>2 DEF TxIs, Grounded
  <2>8. {} \in SUBSET [doc : {ThisDoc(r)}, by : {r}, predicate : Predicate]
    OBVIOUS
  <2>9. \E K \in SUBSET [doc : {ThisDoc(r)}, by : {r}, predicate : Predicate] :
          /\ TxIs(tx'[r], tx[r].facts \cup K, tx'[r].answers, tx[r].conflicts)
          /\ \/ /\ JobIs(job'[r], "next", job[r].at + 1, 0, job[r].facts \cup K,
                         job[r].results, job[r].found)
             \/ /\ K = {} /\ job[r].tries + 1 < Attempts
                /\ JobIs(job'[r], "ask", job[r].at, job[r].tries + 1, job[r].facts,
                         job[r].results, job[r].found)
    <3> WITNESS {} \in SUBSET [doc : {ThisDoc(r)}, by : {r}, predicate : Predicate]
    <3> QED BY <2>4, <2>5, <2>7
  <2>10. saved'[r] = saved[r] /\ docs'[r] = docs[r] /\ Hidden
    BY <1>2 DEF Hidden, tables
  <2> QED BY <1>2, <1>3, <2>2, <2>6, <2>7, <2>9, <2>10 DEF TakesIn
<1>4. CASE saved[r].node # "extract"
  <2>1. Aborts(r)
    BY <1>4 DEF RequestFails
  <2> QED BY <1>2, <2>1, AbortIs
<1> QED BY <1>3, <1>4

LEMMA ReuseIs ==
  ASSUME Shape, NEW r \in Run, Reuse(r)
  PROVE  PassesBy(r)
<1> DEFINE j == [job[r] EXCEPT !.facts = @ \cup Already(r, ThisDoc(r))]
<1>1. DOMAIN job[r] = JobFields
  BY DEF Shape, Placed
<1>2. /\ saved[r].node = "extract" /\ job[r].pc = "next" /\ HasDoc(r)
      /\ Set(r, NextDoc(j)) /\ tx' = tx
      /\ UNCHANGED <<kind, tables, docs, saved, overlapped, moved>>
  BY DEF Reuse, At, bounds
<1>3. /\ DOMAIN j = JobFields /\ j.at = job[r].at
      /\ j.facts = job[r].facts \cup Already(r, ThisDoc(r))
      /\ j.results = job[r].results /\ j.found = job[r].found
  BY <1>1 DEF JobFields
<1> HIDE DEF j
<1>4. /\ DOMAIN job' = Run /\ job'[r] = NextDoc(j)
      /\ \A q \in Run \ {r} : job'[q] = job[q]
  BY <1>2, SetEffect
<1>5. JobIs(NextDoc(j), "next", j.at + 1, 0, j.facts, j.results, j.found)
  BY <1>3, NextDocFields
<1>6. Frame(r)
  BY <1>2, <1>4 DEF Frame, Shape
<1> QED BY <1>2, <1>3, <1>4, <1>5, <1>6 DEF PassesBy, Hidden, tables

\* A commit at the end of extract or of adjudicate.
LEMMA CommitIs ==
  ASSUME Shape, NEW r \in Run, Commits(r), UNCHANGED <<kind, docs, saved, bounds>>,
         \/ saved[r].node = "extract" /\ job[r].pc = "next"
         \/ saved[r].node = "adjudicate" /\ job[r].pc = "judge" /\ ~HasResult(r)
  PROVE  Writes(r)
<1>1. /\ DOMAIN job' = Run
      /\ JobIs(job'[r], "saving", job[r].at, job[r].tries, job[r].facts,
               job[r].results, job[r].found)
      /\ \A q \in Run \ {r} : job'[q] = job[q]
  BY GoesEffect DEF Commits
<1>2. /\ DOMAIN tx' = Run /\ tx'[r] = NoWrites
      /\ \A q \in Run \ {r} : tx'[q] = tx[q]
  BY DEF Commits, Shape
<1>3. Frame(r)
  BY <1>1, <1>2 DEF Frame, Shape
<1> QED BY <1>1, <1>2, <1>3 DEF Writes, Commits, bounds

LEMMA CommitFactsIs ==
  ASSUME Shape, NEW r \in Run, CommitFacts(r)
  PROVE  Writes(r)
BY CommitIs DEF CommitFacts, At

LEMMA CommitVerdictsIs ==
  ASSUME Shape, NEW r \in Run, CommitVerdicts(r)
  PROVE  Writes(r)
BY CommitIs DEF CommitVerdicts, At

\* The checkpoint of a finished node.
LEMMA SavesEffect ==
  ASSUME Shape, NEW r \in Run, NEW s, Saves(r, s), UNCHANGED <<docs, tx>>
  PROVE  /\ Frame(r) /\ saved'[r] = s
         /\ s.node = "end" => job'[r] = Off
         /\ s.node # "end" => JobIs(job'[r], FirstStep(s.node), 1, 0, {}, << >>, {})
<1> DEFINE j == [Off EXCEPT !.pc = FirstStep(s.node)]
<1>1. saved' = [saved EXCEPT ![r] = s] /\ Set(r, j)
  BY DEF Saves
<1>2. /\ DOMAIN job' = Run /\ job'[r] = j
      /\ \A q \in Run \ {r} : job'[q] = job[q]
  BY <1>1, SetEffect
<1>3. Frame(r) /\ saved'[r] = s
  BY <1>1, <1>2 DEF Frame, Shape
<1>4. s.node = "end" => j = Off
  <2>1. FirstStep("end") = "off"
    BY DEF FirstStep
  <2>2. [Off EXCEPT !.pc = "off"] = Off
    <3>1. Off = [x \in DOMAIN Off |-> Off[x]]
      BY DEF Off
    <3> QED BY <3>1, OffFields
  <2> HIDE DEF FirstStep
  <2> QED BY <2>1, <2>2
<1>5. JobIs(j, FirstStep(s.node), 1, 0, {}, << >>, {})
  <2> HIDE DEF FirstStep
  <2> QED BY DEF Off, JobIs, JobFields, Problems
<1> QED BY <1>2, <1>3, <1>4, <1>5

LEMMA SaveFactsIs ==
  ASSUME Shape, NEW r \in Run, SaveFacts(r)
  PROVE  Advances(r)
<1> DEFINE s == [saved[r] EXCEPT !.node = "detect", !.facts = job[r].facts]
<1>1. Placed(r)
  BY DEF Shape
<1>2. /\ saved[r].node = "extract" /\ job[r].pc = "saving" /\ Saves(r, s)
      /\ UNCHANGED <<kind, tables, docs, tx, bounds>>
  BY DEF SaveFacts, At
<1>3. tx[r] = NoWrites
  BY <1>1, <1>2 DEF Placed
<1>4. SavedIs(s, "detect", job[r].facts, saved[r].cands, saved[r].found)
  BY <1>1 DEF Placed, SavedFields, SavedIs
<1> HIDE DEF s
<1>5. /\ Frame(r) /\ saved'[r] = s
      /\ JobIs(job'[r], FirstStep(s.node), 1, 0, {}, << >>, {})
  BY <1>2, <1>4, SavesEffect DEF SavedIs
<1>6. saved'[r].node # "end"
  BY <1>4, <1>5 DEF SavedIs
<1>7. Hidden /\ docs'[r] = docs[r] /\ tx'[r] = tx[r]
  BY <1>2 DEF Hidden, tables, bounds
<1> QED BY <1>2, <1>3, <1>4, <1>5, <1>6, <1>7 DEF Advances

LEMMA SaveVerdictsIs ==
  ASSUME Shape, NEW r \in Run, SaveVerdicts(r)
  PROVE  Advances(r)
<1> DEFINE s == [saved[r] EXCEPT !.node = "end", !.found = job[r].found]
<1>1. Placed(r)
  BY DEF Shape
<1>2. /\ saved[r].node = "adjudicate" /\ job[r].pc = "saving" /\ Saves(r, s)
      /\ UNCHANGED <<kind, tables, docs, tx, bounds>>
  BY DEF SaveVerdicts, At
<1>3. tx[r] = NoWrites
  BY <1>1, <1>2 DEF Placed
<1>4. SavedIs(s, "end", saved[r].facts, saved[r].cands, job[r].found)
  BY <1>1 DEF Placed, SavedFields, SavedIs
<1> HIDE DEF s
<1>5. Frame(r) /\ saved'[r] = s /\ job'[r] = Off
  BY <1>2, <1>4, SavesEffect DEF SavedIs
<1>6. saved'[r].node = "end"
  BY <1>4, <1>5 DEF SavedIs
<1>7. Hidden /\ docs'[r] = docs[r] /\ tx'[r] = tx[r]
  BY <1>2 DEF Hidden, tables, bounds
<1> QED BY <1>2, <1>3, <1>4, <1>5, <1>6, <1>7 DEF Advances

-----------------------------------------------------------------------------
(***************************************************************************)
(* What the comparators find is a list over the rows they were given.      *)
(***************************************************************************)
LEMMA RowsAreFinite == IsFiniteSet(Row)
<1> DEFINE P == Doc \X (Predicate \X Run)
           m == [x \in P |-> [doc |-> x[1], predicate |-> x[2][1], by |-> x[2][2]]]
<1>1. IsFiniteSet(Predicate)
  <2>1. IsFiniteSet({"hourly_rate"}) /\ IsFiniteSet({"invoice_rate"})
    BY FS_Singleton
  <2>2. Predicate = {"hourly_rate"} \cup {"invoice_rate"}
    BY DEF Predicate
  <2> QED BY <2>1, <2>2, FS_Union
<1>2. IsFiniteSet(Run)
  BY FS_Interval, TablesBounds DEF Run
<1>3. IsFiniteSet(P)
  <2>1. IsFiniteSet(Predicate \X Run)
    BY <1>1, <1>2, FS_Product
  <2> QED BY <2>1, FS_Product, TablesAssumption
<1>4. m \in [P -> Row]
  BY DEF Row
<1>5. \A t \in Row : \E x \in P : m[x] = t
  <2> SUFFICES ASSUME NEW t \in Row PROVE \E x \in P : m[x] = t
    OBVIOUS
  <2> DEFINE w == <<t.doc, <<t.predicate, t.by>>>>
  <2>1. w \in P
    BY DEF Row
  <2>2. m[w] = [doc |-> t.doc, predicate |-> t.predicate, by |-> t.by]
    BY <2>1
  <2>3. m[w] = t
    BY <2>2 DEF Row
  <2> QED BY <2>1, <2>3
<1>6. m \in Surjection(P, Row)
  BY <1>4, <1>5 DEF Surjection
<1> HIDE DEF P, m
<1> QED BY <1>3, <1>6, FS_Surjection

\* The rows in some order.
LEMMA OrderOfRows ==
  ASSUME NEW S, IsFiniteSet(S), NEW rows \in SetToSeqs(S)
  PROVE  Cardinality(S) \in Nat /\ rows \in [1..Cardinality(S) -> S]
BY FS_CardinalityType DEF SetToSeqs

\* The entries a list of candidates over S has.
Pairs(S) == {Found(w, a, b) : w \in {"same_predicate_different_value", "temporal_precedence"},
                              a \in S, b \in S}

LEMMA PairOf ==
  ASSUME NEW S, NEW c \in Pairs(S)
  PROVE  c.a \in S /\ c.b \in S
<1>1. PICK w \in {"same_predicate_different_value", "temporal_precedence"}, a \in S, b \in S :
             c = Found(w, a, b)
  BY DEF Pairs
<1> QED BY <1>1 DEF Found

LEMMA PairIn ==
  ASSUME NEW S, NEW a \in S, NEW b \in S
  PROVE  /\ Found("same_predicate_different_value", a, b) \in Pairs(S)
         /\ Found("temporal_precedence", a, b) \in Pairs(S)
BY DEF Pairs

LEMMA TiesAreLists ==
  ASSUME NEW S, NEW n \in Nat, NEW rows \in [1..n -> S], NEW l \in Ties(rows)
  PROVE  l \in Seq(Pairs(S))
<1> DEFINE T == TiedPairs(rows)
<1>1. PICK s \in {u \in SetToSeqs(T) :
                    \A m, k \in DOMAIN u : m < k => PairBefore(rows, u[m], u[k])} :
        l = [i \in DOMAIN s |->
               Found("same_predicate_different_value", rows[s[i][1]], rows[s[i][2]])]
  BY DEF Ties
<1>2. T \subseteq (1..n) \X (1..n)
  BY DEF TiedPairs
<1>3. IsFiniteSet(T)
  <2>1. IsFiniteSet(1..n)
    BY FS_Interval
  <2>2. IsFiniteSet((1..n) \X (1..n))
    BY <2>1, FS_Product
  <2> QED BY <1>2, <2>2, FS_Subset
<1> HIDE DEF T
<1>4. Cardinality(T) \in Nat /\ s \in [1..Cardinality(T) -> T]
  BY <1>1, <1>3, OrderOfRows
<1>5. \A i \in 1..Cardinality(T) : rows[s[i][1]] \in S /\ rows[s[i][2]] \in S
  <2> SUFFICES ASSUME NEW i \in 1..Cardinality(T)
               PROVE  rows[s[i][1]] \in S /\ rows[s[i][2]] \in S
    OBVIOUS
  <2>1. s[i] \in (1..n) \X (1..n)
    BY <1>2, <1>4
  <2>2. s[i][1] \in 1..n /\ s[i][2] \in 1..n
    BY <2>1
  <2> QED BY <2>2
<1>6. \A i \in 1..Cardinality(T) :
        Found("same_predicate_different_value", rows[s[i][1]], rows[s[i][2]]) \in Pairs(S)
  BY <1>5, PairIn
<1>7. l \in [1..Cardinality(T) -> Pairs(S)]
  BY <1>1, <1>4, <1>6
<1> QED BY <1>4, <1>7, SeqDef

LEMMA StaleAreLists ==
  ASSUME NEW S, NEW n \in Nat, NEW rows \in [1..n -> S], NEW l \in Stale(rows)
  PROVE  l \in Seq(Pairs(S))
<1> DEFINE T == Outdated(rows)
           held(i) == CHOOSE j \in HeldAgainst(rows, i) : TRUE
<1>1. PICK s \in {u \in SetToSeqs(T) : \A m, k \in DOMAIN u : m < k => u[m] < u[k]} :
        l = [i \in DOMAIN s |-> Found("temporal_precedence", rows[s[i]], rows[held(s[i])])]
  BY DEF Stale
<1>2. T \subseteq 1..n /\ \A i \in T : HeldAgainst(rows, i) # {}
  BY DEF Outdated
<1>3. IsFiniteSet(T)
  <2>1. IsFiniteSet(1..n)
    BY FS_Interval
  <2> QED BY <1>2, <2>1, FS_Subset
<1>4. \A i \in T : held(i) \in 1..n
  <2> SUFFICES ASSUME NEW i \in T PROVE held(i) \in 1..n
    OBVIOUS
  <2>1. HeldAgainst(rows, i) \subseteq 1..n
    BY DEF HeldAgainst, GoverningAt
  <2>2. held(i) \in HeldAgainst(rows, i)
    BY <1>2
  <2> QED BY <2>1, <2>2
<1> HIDE DEF T, held
<1>5. Cardinality(T) \in Nat /\ s \in [1..Cardinality(T) -> T]
  BY <1>1, <1>3, OrderOfRows
<1>6. \A i \in 1..Cardinality(T) :
        Found("temporal_precedence", rows[s[i]], rows[held(s[i])]) \in Pairs(S)
  <2> SUFFICES ASSUME NEW i \in 1..Cardinality(T)
               PROVE  Found("temporal_precedence", rows[s[i]], rows[held(s[i])]) \in Pairs(S)
    OBVIOUS
  <2>1. s[i] \in 1..n /\ held(s[i]) \in 1..n
    BY <1>2, <1>4, <1>5
  <2> QED BY <2>1, PairIn
<1>7. l \in [1..Cardinality(T) -> Pairs(S)]
  BY <1>1, <1>5, <1>6
<1> QED BY <1>5, <1>7, SeqDef

LEMMA DetectedIsList ==
  ASSUME NEW S, IsFiniteSet(S), NEW rows \in SetToSeqs(S), NEW cands \in Detected(rows)
  PROVE  IsListOver(cands, S)
<1>1. Cardinality(S) \in Nat /\ rows \in [1..Cardinality(S) -> S]
  BY OrderOfRows
<1>2. PICK p \in Ties(rows) \X Stale(rows) : cands = p[1] \o p[2]
  BY DEF Detected
<1>3. p[1] \in Seq(Pairs(S)) /\ p[2] \in Seq(Pairs(S))
  BY <1>1, TiesAreLists, StaleAreLists
<1>4. cands \in Seq(Pairs(S))
  BY <1>2, <1>3, ConcatProperties
<1>5. /\ Len(cands) \in Nat /\ DOMAIN cands = 1..Len(cands)
      /\ \A i \in DOMAIN cands : cands[i] \in Pairs(S)
  BY <1>4
<1> QED BY <1>5, PairOf DEF IsListOver

LEMMA DetectIs ==
  ASSUME Shape, Data, NEW r \in Run, Detect(r)
  PROVE  Advances(r)
<1> DEFINE S == saved[r].facts
<1>1. Placed(r)
  BY DEF Shape
<1>2. saved[r].node = "detect" /\ job[r].pc = "detect"
      /\ UNCHANGED <<kind, tables, docs, tx, bounds>>
  BY DEF Detect, At
<1>3. PICK cands \in UNION {Detected(rows) : rows \in SetToSeqs(S)} :
        Saves(r, [saved[r] EXCEPT !.cands = cands,
                    !.node = IF cands = << >> THEN "end" ELSE "adjudicate"])
  BY DEF Detect
<1>4. IsListOver(cands, S)
  <2>1. IsFiniteSet(S)
    <3>1. S \in SUBSET Row
      BY DEF Data, Grounded
    <3> QED BY <3>1, RowsAreFinite, FS_Subset
  <2> HIDE DEF S
  <2>2. PICK rows \in SetToSeqs(S) : cands \in Detected(rows)
    BY <1>3
  <2> QED BY <2>1, <2>2, DetectedIsList
<1> DEFINE node == IF cands = << >> THEN "end" ELSE "adjudicate"
           s == [saved[r] EXCEPT !.cands = cands, !.node = node]
<1>5. SavedIs(s, node, saved[r].facts, cands, saved[r].found)
  <2> HIDE DEF node
  <2> QED BY <1>1 DEF Placed, SavedFields, SavedIs
<1>6. Saves(r, s)
  BY <1>3
<1>7. tx[r] = NoWrites /\ docs'[r] = docs[r] /\ tx'[r] = tx[r] /\ Hidden
  BY <1>1, <1>2 DEF Placed, Hidden, tables, bounds
<1>8. s.node = node
  BY <1>5 DEF SavedIs
<1> HIDE DEF s
<1>9. /\ Frame(r) /\ saved'[r] = s
      /\ s.node = "end" => job'[r] = Off
      /\ s.node # "end" => JobIs(job'[r], FirstStep(s.node), 1, 0, {}, << >>, {})
  BY <1>2, <1>6, SavesEffect
<1>10. /\ cands = << >> => SavedIs(s, "end", saved[r].facts, cands, saved[r].found)
       /\ cands # << >> => SavedIs(s, "adjudicate", saved[r].facts, cands, saved[r].found)
  BY <1>5
<1> QED BY <1>2, <1>4, <1>7, <1>9, <1>10 DEF Advances

\* On to the next candidate, with the pair when it is real.
LEMMA JudgedFields ==
  ASSUME Shape, NEW r \in Run
  PROVE  /\ JobIs(PassedOver(r), "judge", job[r].at + 1, job[r].tries, job[r].facts,
                  job[r].results, job[r].found)
         /\ JobIs(Judged(r), "judge", job[r].at + 1, job[r].tries, job[r].facts,
                  job[r].results,
                  job[r].found \cup (IF IsReal(r) THEN {Pair(ThisCand(r))} ELSE {}))
<1>1. DOMAIN job[r] = JobFields /\ job[r].problem \in Problems
  BY DEF Shape, Placed
<1>2. JobIs(PassedOver(r), "judge", job[r].at + 1, job[r].tries, job[r].facts,
            job[r].results, job[r].found)
  BY <1>1 DEF PassedOver, JobIs, JobFields
<1> DEFINE more == IF IsReal(r) THEN {Pair(ThisCand(r))} ELSE {}
<1>3. Judged(r) = [PassedOver(r) EXCEPT !.found = @ \cup more]
  BY DEF Judged
<1> HIDE DEF more
<1>4. JobIs(Judged(r), "judge", job[r].at + 1, job[r].tries, job[r].facts,
            job[r].results, job[r].found \cup more)
  BY <1>2, <1>3 DEF JobIs, JobFields
<1> QED BY <1>2, <1>4 DEF more

LEMMA MeetsExistingIs ==
  ASSUME Shape, NEW r \in Run, MeetsExisting(r)
  PROVE  Judges(r)
<1>1. /\ saved[r].node = "adjudicate" /\ job[r].pc = "judge" /\ HasResult(r)
      /\ Existing(r) # {}
      /\ Set(r, IF Settled(Existing(r)) THEN PassedOver(r) ELSE Judged(r))
      /\ UNCHANGED <<kind, tables, docs, saved, tx, bounds>>
  BY DEF MeetsExisting, At
<1>2. /\ DOMAIN job' = Run
      /\ job'[r] = IF Settled(Existing(r)) THEN PassedOver(r) ELSE Judged(r)
      /\ \A q \in Run \ {r} : job'[q] = job[q]
  BY <1>1, SetEffect
<1>3. Frame(r) /\ Hidden /\ saved'[r] = saved[r] /\ docs'[r] = docs[r] /\ tx'[r] = tx[r]
  BY <1>1, <1>2 DEF Frame, Shape, Hidden, tables, bounds
<1> QED BY <1>1, <1>2, <1>3, JudgedFields DEF Judges

LEMMA FindsNoneIs ==
  ASSUME Shape, NEW r \in Run, FindsNone(r)
  PROVE  Judges(r)
<1>1. /\ saved[r].node = "adjudicate" /\ job[r].pc = "judge" /\ HasResult(r)
      /\ Existing(r) = {} /\ Goes(r, "insert")
      /\ UNCHANGED <<kind, tables, docs, saved, tx, bounds>>
  BY DEF FindsNone, At
<1>2. /\ DOMAIN job' = Run
      /\ JobIs(job'[r], "insert", job[r].at, job[r].tries, job[r].facts,
               job[r].results, job[r].found)
      /\ \A q \in Run \ {r} : job'[q] = job[q]
  BY <1>1, GoesEffect
<1>3. Frame(r) /\ Hidden /\ saved'[r] = saved[r] /\ docs'[r] = docs[r] /\ tx'[r] = tx[r]
  BY <1>1, <1>2 DEF Frame, Shape, Hidden, tables, bounds
<1> QED BY <1>1, <1>2, <1>3 DEF Judges

LEMMA InsertIs ==
  ASSUME Shape, Data, NEW r \in Run, Insert(r)
  PROVE  Judges(r) \/ Drops(r)
<1>1. /\ saved[r].node = "adjudicate" /\ job[r].pc = "insert"
      /\ UNCHANGED <<kind, tables, docs, saved, overlapped, moved>>
  BY DEF Insert, At, bounds
<1>2. HasResult(r)
  BY <1>1 DEF Data, Grounded
<1>3. CASE Existing(r) = {}
  <2> DEFINE row == Dispute(ThisCand(r), IF IsReal(r) THEN "open" ELSE "dismissed", r)
  <2>1. tx' = [tx EXCEPT ![r].conflicts = @ \cup {row}] /\ Set(r, Judged(r))
    BY <1>3 DEF Insert
  <2>2. DOMAIN tx = Run /\ DOMAIN tx[r] = TxFields
    BY DEF Shape, Placed
  <2> HIDE DEF row
  <2>3. /\ DOMAIN tx' = Run /\ \A q \in Run \ {r} : tx'[q] = tx[q]
        /\ tx'[r] = [tx[r] EXCEPT !.conflicts = @ \cup {row}]
    BY <2>1, <2>2
  <2>4. TxIs(tx'[r], tx[r].facts, tx[r].answers, tx[r].conflicts \cup {row})
    BY <2>2, <2>3 DEF TxFields, TxIs
  <2>5. /\ DOMAIN job' = Run /\ job'[r] = Judged(r)
        /\ \A q \in Run \ {r} : job'[q] = job[q]
    BY <2>1, SetEffect
  <2>6. Frame(r) /\ Hidden /\ saved'[r] = saved[r] /\ docs'[r] = docs[r]
    BY <1>1, <2>3, <2>5 DEF Frame, Shape, Hidden, tables
  <2> QED BY <1>1, <1>2, <1>3, <2>4, <2>5, <2>6, JudgedFields DEF Judges, row
<1>4. CASE Existing(r) # {}
  BY <1>1, <1>4, AbortIs DEF Insert
<1> QED BY <1>3, <1>4

LEMMA StopIs ==
  ASSUME Shape, NEW r \in Run, Stop(r) \/ DeadlockVictim(r)
  PROVE  Drops(r)
BY AbortIs DEF Stop, DeadlockVictim, bounds

LEMMA ClassifiedIs ==
  ASSUME NEW d \in Doc, NEW k \in Kind, Classified(d, k)
  PROVE  Settles(d, k)
BY DEF Classified, Settles, tables

LEMMA EveryStep ==
  ASSUME Shape, Data, Next
  PROVE  (\E r \in Run : Moves(r)) \/ (\E d \in Doc, k \in Kind : Settles(d, k))
<1>1. ASSUME NEW r \in Run, NEW D \in Inbox[r], Start(r, D) PROVE Moves(r)
  BY <1>1, StartIs DEF Moves
<1>2. ASSUME NEW r \in Run, Resume(r) PROVE Moves(r)
  BY <1>2, ResumeIs DEF Moves
<1>3. ASSUME NEW r \in Run, Stop(r) PROVE Moves(r)
  BY <1>3, StopIs DEF Moves
<1>4. ASSUME NEW r \in Run, Works(r) PROVE Moves(r)
  BY <1>4, ReuseIs, TakeUpIs, AskAgainIs, AskForVerdictsIs, RepliesIs, CommitFactsIs,
     SaveFactsIs, MeetsExistingIs, FindsNoneIs, InsertIs, CommitVerdictsIs,
     SaveVerdictsIs, StopIs DEF Works, Moves
<1>5. ASSUME NEW r \in Run, Detect(r) PROVE Moves(r)
  BY <1>5, DetectIs DEF Moves
<1>6. ASSUME NEW r \in Run, RepliesGarbage(r) PROVE Moves(r)
  BY <1>6, RepliesGarbageIs DEF Moves
<1>7. ASSUME NEW r \in Run, RequestFails(r) PROVE Moves(r)
  BY <1>7, RequestFailsIs DEF Moves
<1>8. ASSUME NEW d \in Doc, NEW k \in Kind, Classified(d, k) PROVE Settles(d, k)
  BY <1>8, ClassifiedIs
<1> QED BY <1>1, <1>2, <1>3, <1>4, <1>5, <1>6, <1>7, <1>8 DEF Next

-----------------------------------------------------------------------------
(***************************************************************************)
(* Every kind of step leaves thread, transaction and checkpoint where they *)
(* can be.                                                                 *)
(***************************************************************************)
LEMMA FrameShape ==
  ASSUME Shape, NEW r \in Run, Frame(r), Placed(r)'
  PROVE  Shape'
<1>1. ASSUME NEW q \in Run \ {r} PROVE Placed(q)'
  <2>1. Placed(q)
    BY DEF Shape
  <2>2. job'[q] = job[q] /\ tx'[q] = tx[q] /\ saved'[q] = saved[q] /\ docs'[q] = docs[q]
    BY DEF Frame
  <2> QED BY <2>1, <2>2 DEF Placed, HasDoc
<1> QED BY <1>1 DEF Shape, Frame

LEMMA MovesPlaced ==
  ASSUME Shape, NEW r \in Run, Moves(r)
  PROVE  Placed(r)'
<1>1. Placed(r)
  BY DEF Shape
<1>2. DOMAIN Off = JobFields /\ DOMAIN NoWrites = TxFields /\ Attempts \in Nat \ {0}
  BY OffFields, NoWritesFields, TablesBounds
<1>3. CASE Starts(r)
  BY <1>1, <1>2, <1>3, NoWritesFields
  DEF Starts, Placed, JobIs, SavedIs, Pcs, HasDoc
<1>4. CASE Resumes(r)
  <2>1. JobIs(job'[r], FirstStep(saved[r].node), 1, 0, {}, << >>, {})
        /\ saved'[r] = saved[r] /\ docs'[r] = docs[r] /\ tx'[r] = NoWrites
        /\ saved[r].node \in {"extract", "detect", "adjudicate"}
    BY <1>4 DEF Resumes
  <2>2. CASE saved[r].node = "extract"
    BY <1>1, <1>2, <2>1, <2>2 DEF Placed, JobIs, Pcs, HasDoc, FirstStep
  <2>3. CASE saved[r].node = "detect"
    BY <1>1, <1>2, <2>1, <2>3 DEF Placed, JobIs, Pcs, HasDoc, FirstStep
  <2>4. CASE saved[r].node = "adjudicate"
    BY <1>1, <1>2, <2>1, <2>4 DEF Placed, JobIs, Pcs, HasDoc, FirstStep
  <2> QED BY <2>1, <2>2, <2>3, <2>4
<1>5. CASE Drops(r)
  BY <1>1, <1>2, <1>5, OffFields DEF Drops, Placed, Pcs, HasDoc, Problems
<1>6. CASE TakesIn(r)
  <2>1. PICK K \in SUBSET [doc : {ThisDoc(r)}, by : {r}, predicate : Predicate] :
          /\ TxIs(tx'[r], tx[r].facts \cup K, tx'[r].answers, tx[r].conflicts)
          /\ \/ /\ JobIs(job'[r], "next", job[r].at + 1, 0, job[r].facts \cup K,
                         job[r].results, job[r].found)
             \/ /\ K = {} /\ job[r].tries + 1 < Attempts
                /\ JobIs(job'[r], "ask", job[r].at, job[r].tries + 1, job[r].facts,
                         job[r].results, job[r].found)
    BY <1>6 DEF TakesIn
  <2>2. saved'[r] = saved[r] /\ docs'[r] = docs[r] /\ saved[r].node = "extract" /\ HasDoc(r)
    BY <1>6 DEF TakesIn
  <2>3. CASE job'[r].pc = "next"
    BY <1>1, <1>2, <2>1, <2>2, <2>3 DEF Placed, JobIs, TxIs, Pcs, HasDoc
  <2>4. CASE job'[r].pc # "next"
    <3>1. JobIs(job'[r], "ask", job[r].at, job[r].tries + 1, job[r].facts,
                job[r].results, job[r].found) /\ job[r].tries + 1 < Attempts
      BY <2>1, <2>4 DEF JobIs
    <3> QED BY <1>1, <1>2, <2>1, <2>2, <3>1 DEF Placed, JobIs, TxIs, Pcs, HasDoc
  <2> QED BY <2>3, <2>4
<1>7. CASE Asks(r)
  BY <1>1, <1>2, <1>7 DEF Asks, Placed, JobIs, Pcs, HasDoc
<1>8. CASE Hears(r)
  <2>1. PICK answer : JobIs(job'[r], "judge", job[r].at, job[r].tries, job[r].facts,
                            Results(saved[r].cands, answer), job[r].found)
    BY <1>8 DEF Hears
  <2> QED BY <1>1, <1>2, <1>8, <2>1 DEF Hears, Placed, JobIs, TxIs, Pcs, HasDoc
<1>9. CASE PassesBy(r)
  BY <1>1, <1>2, <1>9 DEF PassesBy, Placed, JobIs, Pcs, HasDoc
<1>10. CASE Writes(r)
  BY <1>1, <1>2, <1>10 DEF Writes, Placed, JobIs, Pcs, HasDoc
<1>11. CASE Advances(r)
  <2>1. saved'[r].node \in {"detect", "adjudicate", "end"} /\ DOMAIN saved'[r] = SavedFields
        /\ (saved'[r].node = "detect" => saved'[r].cands = << >>)
        /\ docs'[r] = docs[r] /\ tx'[r] = NoWrites
        /\ (saved'[r].node # "end" => saved'[r].found = {})
    BY <1>1, <1>11 DEF Advances, SavedIs, Placed
  <2>2. CASE saved'[r].node = "detect"
    BY <1>1, <1>2, <1>11, <2>1, <2>2 DEF Advances, Placed, JobIs, Pcs, HasDoc, FirstStep
  <2>3. CASE saved'[r].node = "adjudicate"
    BY <1>1, <1>2, <1>11, <2>1, <2>3 DEF Advances, Placed, JobIs, Pcs, HasDoc, FirstStep
  <2>4. CASE saved'[r].node = "end"
    BY <1>1, <1>2, <1>11, <2>1, <2>4, OffFields DEF Advances, Placed, Pcs, HasDoc, Problems
  <2> QED BY <2>1, <2>2, <2>3, <2>4
<1>12. CASE Judges(r)
  BY <1>1, <1>2, <1>12 DEF Judges, Placed, JobIs, TxIs, Pcs, HasDoc
<1> QED
  BY <1>3, <1>4, <1>5, <1>6, <1>7, <1>8, <1>9, <1>10, <1>11, <1>12 DEF Moves

LEMMA MovesShape ==
  ASSUME Shape, NEW r \in Run, Moves(r)
  PROVE  Shape' /\ Frame(r)
<1>1. Frame(r)
  BY DEF Moves, Starts, Resumes, Drops, TakesIn, Asks, Hears, PassesBy, Writes, Advances,
         Judges
<1> QED BY <1>1, MovesPlaced, FrameShape

LEMMA SettlesShape ==
  ASSUME Shape, NEW d \in Doc, NEW k \in Kind, Settles(d, k)
  PROVE  Shape'
BY DEF Settles, Shape, Placed, HasDoc

-----------------------------------------------------------------------------
(***************************************************************************)
(* Every kind of step leaves the rows about what exists.                   *)
(***************************************************************************)
LEMMA ResultsAre ==
  ASSUME NEW cands, Len(cands) \in Nat, DOMAIN cands = 1..Len(cands), NEW answer
  PROVE  /\ DOMAIN Results(cands, answer) = DOMAIN cands
         /\ Len(Results(cands, answer)) = Len(cands)
         /\ \A i \in DOMAIN cands :
              /\ Results(cands, answer)[i].cand = cands[i]
              /\ Results(cands, answer)[i].real =
                   (answer \in Garbage \/ answer[i] # "not_real")
<1> DEFINE item(i) == [cand |-> cands[i], real |-> answer \in Garbage \/ answer[i] # "not_real"]
           T == {item(i) : i \in DOMAIN cands}
<1>1. Results(cands, answer) = [i \in DOMAIN cands |-> item(i)]
  BY DEF Results
<1>2. \A i \in DOMAIN cands :
        item(i).cand = cands[i]
        /\ item(i).real = (answer \in Garbage \/ answer[i] # "not_real")
  OBVIOUS
<1> HIDE DEF item
<1>3. Results(cands, answer) \in [1..Len(cands) -> T]
  BY <1>1
<1>4. Results(cands, answer) \in Seq(T)
  BY <1>3, SeqDef
<1>5. Len(Results(cands, answer)) = Len(cands)
  <2>1. DOMAIN Results(cands, answer) = 1..Len(Results(cands, answer))
        /\ Len(Results(cands, answer)) \in Nat
    BY <1>4, LenProperties
  <2>2. 1..Len(Results(cands, answer)) = 1..Len(cands)
    BY <1>3, <2>1
  <2>3. \A m, n \in Nat : 1..m = 1..n => m = n
    <3> SUFFICES ASSUME NEW m \in Nat, NEW n \in Nat, 1..m = 1..n, m < n PROVE FALSE
      OBVIOUS
    <3>1. n \in 1..n /\ n \notin 1..m
      OBVIOUS
    <3> QED BY <3>1
  <2> QED BY <2>1, <2>2, <2>3
<1> QED BY <1>1, <1>2, <1>5

\* The candidate a run is at is one it was sent to judge.
LEMMA ThisCandIs ==
  ASSUME Shape, Data, NEW r \in Run, Judging(r), HasResult(r)
  PROVE  /\ job[r].at \in DOMAIN saved[r].cands
         /\ ThisCand(r) = saved[r].cands[job[r].at]
         /\ ThisCand(r).a \in fact /\ ThisCand(r).b \in fact
<1>1. Grounded(r) /\ job[r].at \in Nat \ {0}
  BY DEF Data, Shape, Placed
<1>2. job[r].at \in DOMAIN saved[r].cands
  BY <1>1 DEF Grounded, IsListOver, HasResult
<1> QED BY <1>1, <1>2 DEF Grounded, IsListOver, ThisCand

\* What one step does to the other runs' rows: nothing.
LEMMA FrameGrounded ==
  ASSUME Data, NEW r \in Run, Frame(r), fact \subseteq fact', NEW q \in Run \ {r}
  PROVE  Grounded(q)'
<1>1. Grounded(q)
  BY DEF Data
<1>2. job'[q] = job[q] /\ tx'[q] = tx[q] /\ saved'[q] = saved[q] /\ docs'[q] = docs[q]
  BY DEF Frame
<1>3. Judging(q)' = Judging(q) /\ HasResult(q)' = HasResult(q) /\ ThisDoc(q)' = ThisDoc(q)
  BY <1>2 DEF Judging, HasResult, ThisDoc
<1>4. AnswersFine(tx'[q].answers) <=> AnswersFine(tx[q].answers)
  BY <1>2
<1>5. \A d, p : FactsOf(d, p)' = FactsOf(d, p)
  BY DEF FactsOf
<1> QED BY <1>1, <1>2, <1>3, <1>4 DEF Grounded

LEMMA MovesFactsGrow ==
  ASSUME NEW r \in Run, Moves(r)
  PROVE  fact \subseteq fact'
BY DEF Moves, Starts, Resumes, Drops, TakesIn, Asks, Hears, PassesBy, Writes, Advances,
       Judges, Hidden

LEMMA WritesData ==
  ASSUME Shape, Data, NEW r \in Run, Writes(r)
  PROVE  /\ fact' \subseteq Row
         /\ \A x \in conflict' : x.a \in fact' /\ x.b \in fact'
         /\ AnswersFine(cache')
<1>1. Grounded(r)
  BY DEF Data
<1>2. fact' \subseteq Row
  BY <1>1 DEF Data, Grounded, Writes, RowOf, Row
<1>3. \A x \in conflict' : x.a \in fact' /\ x.b \in fact'
  BY <1>1 DEF Data, Grounded, Writes
<1>4. AnswersFine(cache')
  BY <1>1, OverIsFine DEF Data, Grounded, Writes, Known
<1> QED BY <1>2, <1>3, <1>4

LEMMA MovesGrounded ==
  ASSUME Shape, Data, NEW r \in Run, Moves(r)
  PROVE  Grounded(r)'
<1>1. Grounded(r) /\ Placed(r) /\ fact \subseteq fact'
  BY MovesFactsGrow DEF Data, Shape
<1>2. AnswersFine(NoWrites.answers) /\ NoWrites.facts = {} /\ NoWrites.conflicts = {}
  BY NothingIsFine, NoWritesFields
<1>3. CASE Starts(r)
  <2>1. /\ JobIs(job'[r], "next", 1, 0, {}, << >>, {}) /\ tx'[r] = NoWrites
        /\ SavedIs(saved'[r], "extract", saved[r].facts, saved[r].cands, saved[r].found)
    BY <1>3 DEF Starts
  <2> QED BY <1>1, <1>2, <2>1 DEF Grounded, Judging, JobIs, SavedIs
<1>4. CASE Resumes(r)
  <2>1. /\ JobIs(job'[r], FirstStep(saved[r].node), 1, 0, {}, << >>, {})
        /\ tx'[r] = NoWrites /\ saved'[r] = saved[r]
        /\ saved[r].node \in {"extract", "detect", "adjudicate"}
    BY <1>4 DEF Resumes
  <2>2. job'[r].pc \in {"next", "detect", "ask"}
    BY <2>1 DEF JobIs, FirstStep
  <2> QED BY <1>1, <1>2, <2>1, <2>2 DEF Grounded, Judging, JobIs
<1>5. CASE Drops(r)
  <2>1. job'[r] = Off /\ tx'[r] = NoWrites /\ saved'[r] = saved[r]
    BY <1>5 DEF Drops
  <2> QED BY <1>1, <1>2, <2>1, OffFields DEF Grounded, Judging
<1>6. CASE TakesIn(r)
  <2>1. PICK K \in SUBSET [doc : {ThisDoc(r)}, by : {r}, predicate : Predicate] :
          /\ TxIs(tx'[r], tx[r].facts \cup K, tx'[r].answers, tx[r].conflicts)
          /\ \/ /\ JobIs(job'[r], "next", job[r].at + 1, 0, job[r].facts \cup K,
                         job[r].results, job[r].found)
             \/ /\ K = {} /\ job[r].tries + 1 < Attempts
                /\ JobIs(job'[r], "ask", job[r].at, job[r].tries + 1, job[r].facts,
                         job[r].results, job[r].found)
    BY <1>6 DEF TakesIn
  <2>2. /\ saved'[r] = saved[r] /\ docs'[r] = docs[r] /\ saved[r].node = "extract"
        /\ HasDoc(r) /\ AnswersFine(tx'[r].answers) /\ fact' = fact
    BY <1>6 DEF TakesIn, Hidden
  <2>3. ThisDoc(r) \in Doc
    BY <1>1, <2>2 DEF Placed, HasDoc, ThisDoc
  <2>4. K \subseteq RowOf({r})
    BY <2>3 DEF RowOf
  <2>5. /\ tx'[r].facts = tx[r].facts \cup K /\ tx'[r].conflicts = tx[r].conflicts
        /\ job'[r].facts = job[r].facts \cup K /\ job'[r].pc \in {"next", "ask"}
    BY <2>1 DEF TxIs, JobIs
  <2> QED BY <1>1, <2>2, <2>4, <2>5 DEF Grounded, Judging
<1>7. CASE Asks(r)
  <2>1. /\ saved'[r] = saved[r] /\ docs'[r] = docs[r] /\ tx'[r] = tx[r] /\ fact' = fact
        /\ JobIs(job'[r], "call", job[r].at, job[r].tries, job[r].facts,
                 job[r].results, job[r].found)
    BY <1>7 DEF Asks, Hidden
  <2>2. ThisDoc(r)' = ThisDoc(r)
    BY <2>1 DEF ThisDoc, JobIs
  <2>3. CASE saved[r].node = "extract"
    <3>1. \E p \in Problems : job'[r].asked = FactsOf(ThisDoc(r), p)
      BY <1>7, <2>3 DEF Asks
    <3>2. \E p \in Problems : job'[r].asked = FactsOf(ThisDoc(r)', p)
      BY <2>2, <3>1
    <3> QED BY <1>1, <2>1, <2>3, <3>2 DEF Grounded, Judging, JobIs
  <2>4. CASE saved[r].node # "extract"
    <3>1. job'[r].asked.ask = "verdicts" /\ saved[r].node = "adjudicate"
      BY <1>7, <2>4, VerdictsQuestion DEF Asks
    <3> QED BY <1>1, <2>1, <3>1 DEF Grounded, Judging, JobIs
  <2> QED BY <2>3, <2>4
<1>8. CASE Hears(r)
  <2>1. PICK answer : JobIs(job'[r], "judge", job[r].at, job[r].tries, job[r].facts,
                            Results(saved[r].cands, answer), job[r].found)
    BY <1>8 DEF Hears
  <2>2. /\ saved'[r] = saved[r] /\ docs'[r] = docs[r] /\ fact' = fact
        /\ TxIs(tx'[r], tx[r].facts, tx'[r].answers, tx[r].conflicts)
        /\ AnswersFine(tx'[r].answers)
    BY <1>8 DEF Hears, Hidden
  <2>3. /\ DOMAIN Results(saved[r].cands, answer) = DOMAIN saved[r].cands
        /\ Len(Results(saved[r].cands, answer)) = Len(saved[r].cands)
        /\ \A i \in DOMAIN saved[r].cands :
             Results(saved[r].cands, answer)[i].cand = saved[r].cands[i]
    BY <1>1, ResultsAre DEF Grounded, IsListOver
  <2> QED BY <1>1, <2>1, <2>2, <2>3 DEF Grounded, Judging, JobIs, TxIs
<1>9. CASE PassesBy(r)
  <2>1. /\ saved'[r] = saved[r] /\ docs'[r] = docs[r] /\ tx'[r] = tx[r] /\ fact' = fact
        /\ saved[r].node = "extract"
        /\ JobIs(job'[r], "next", job[r].at + 1, 0,
                 job[r].facts \cup Already(r, ThisDoc(r)), job[r].results, job[r].found)
    BY <1>9 DEF PassesBy, Hidden
  <2> QED BY <1>1, <2>1 DEF Grounded, Judging, JobIs, Already
<1>10. CASE Writes(r)
  <2>1. /\ saved'[r] = saved[r] /\ docs'[r] = docs[r] /\ tx'[r] = NoWrites
        /\ fact' = fact \cup tx[r].facts
        /\ JobIs(job'[r], "saving", job[r].at, job[r].tries, job[r].facts,
                 job[r].results, job[r].found)
    BY <1>10 DEF Writes
  <2>2. saved[r].node = "extract" \/ Judging(r)
    BY <1>10 DEF Writes, Judging
  <2> QED BY <1>1, <1>2, <2>1, <2>2 DEF Grounded, Judging, JobIs
<1>11. CASE Advances(r)
  <2>1. /\ docs'[r] = docs[r] /\ tx'[r] = NoWrites /\ fact' = fact /\ tx[r] = NoWrites
    BY <1>11 DEF Advances, Hidden
  <2>2. saved'[r].node # "extract" /\ saved'[r].facts \subseteq fact
        /\ IsListOver(saved'[r].cands, saved'[r].facts)
    <3>1. CASE saved[r].node = "extract"
      <4>1. SavedIs(saved'[r], "detect", job[r].facts, saved[r].cands, saved[r].found)
        BY <1>11, <3>1 DEF Advances
      <4>2. saved[r].cands = << >>
        BY <1>1, <3>1 DEF Placed
      <4> QED BY <1>1, <1>2, <2>1, <4>1, <4>2 DEF SavedIs, Grounded, IsListOver
    <3>2. CASE saved[r].node = "detect"
      BY <1>1, <1>11, <3>2 DEF Advances, SavedIs, Grounded
    <3>3. CASE saved[r].node = "adjudicate"
      BY <1>1, <1>11, <3>3 DEF Advances, SavedIs, Grounded
    <3> QED BY <1>11, <3>1, <3>2, <3>3 DEF Advances
  <2>3. job'[r].facts = {} /\ job'[r].pc \in {"off", "detect", "ask"}
    <3>1. saved'[r].node \in {"detect", "adjudicate", "end"}
      BY <1>11 DEF Advances, SavedIs
    <3>2. CASE saved'[r].node = "end"
      BY <1>11, <3>2, OffFields DEF Advances
    <3>3. CASE saved'[r].node # "end"
      <4>1. JobIs(job'[r], FirstStep(saved'[r].node), 1, 0, {}, << >>, {})
        BY <1>11, <3>3 DEF Advances
      <4> QED BY <3>1, <3>3, <4>1 DEF JobIs, FirstStep
    <3> QED BY <3>2, <3>3
  <2> QED BY <1>2, <2>1, <2>2, <2>3 DEF Grounded, Judging
<1>12. CASE Judges(r)
  <2>1. /\ saved'[r] = saved[r] /\ docs'[r] = docs[r] /\ fact' = fact
        /\ saved[r].node = "adjudicate" /\ HasResult(r) /\ Judging(r)
        /\ job'[r].pc \in {"judge", "insert"}
        /\ job'[r].facts = job[r].facts /\ job'[r].results = job[r].results
        /\ tx'[r].facts = tx[r].facts /\ tx'[r].answers = tx[r].answers
        /\ (job'[r].pc = "insert" => job'[r].at = job[r].at)
    BY <1>12 DEF Judges, Hidden, JobIs, TxIs, Judging
  <2>2. \A x \in tx'[r].conflicts : x.a \in fact /\ x.b \in fact /\ x.by = r
    <3>1. ThisCand(r).a \in fact /\ ThisCand(r).b \in fact
      BY <2>1, ThisCandIs
    <3>2. \/ tx'[r].conflicts = tx[r].conflicts
          \/ tx'[r].conflicts = tx[r].conflicts \cup
               {Dispute(ThisCand(r), IF IsReal(r) THEN "open" ELSE "dismissed", r)}
      BY <1>12 DEF Judges, TxIs
    <3> QED BY <1>1, <3>1, <3>2 DEF Grounded, Dispute
  <2>3. HasResult(r)' <=> job'[r].at <= Len(job[r].results)
    BY <2>1 DEF HasResult
  <2>4. job'[r].pc = "insert" => HasResult(r)'
    BY <2>1, <2>3 DEF HasResult
  <2> QED BY <1>1, <2>1, <2>2, <2>4 DEF Grounded, Judging
<1> QED
  BY <1>3, <1>4, <1>5, <1>6, <1>7, <1>8, <1>9, <1>10, <1>11, <1>12 DEF Moves

LEMMA MovesData ==
  ASSUME Shape, Data, NEW r \in Run, Moves(r)
  PROVE  Data'
<1>1. \A q \in Run : Grounded(q)'
  BY MovesGrounded, MovesFactsGrow, MovesShape, FrameGrounded
<1>2. CASE Writes(r)
  BY <1>1, <1>2, WritesData DEF Data, Writes
<1>3. CASE ~Writes(r)
  <2>1. UNCHANGED <<kind, fact, cache, conflict>>
    BY <1>3 DEF Moves, Starts, Resumes, Drops, TakesIn, Asks, Hears, PassesBy, Advances,
                Judges, Hidden
  <2> QED BY <1>1, <2>1 DEF Data, AnswersFine
<1> QED BY <1>2, <1>3

LEMMA SettlesData ==
  ASSUME Shape, Data, NEW d \in Doc, NEW k \in Kind, Settles(d, k)
  PROVE  Data'
<1>1. kind' \in [Doc -> Kind \cup {Unset}]
  BY DEF Data, Settles
<1>2. UNCHANGED <<fact, cache, conflict, docs, saved, job, tx>>
  BY DEF Settles
<1>3. ASSUME NEW q \in Run PROVE Grounded(q)'
  <2>1. Grounded(q)
    BY DEF Data
  <2>2. Judging(q)' = Judging(q) /\ HasResult(q)' = HasResult(q) /\ ThisDoc(q)' = ThisDoc(q)
    BY <1>2 DEF Judging, HasResult, ThisDoc
  <2> QED BY <1>2, <2>1, <2>2 DEF Grounded
<1> QED BY <1>1, <1>2, <1>3 DEF Data

-----------------------------------------------------------------------------
(***************************************************************************)
(* Every kind of step keeps a row for every candidate that was passed, and *)
(* an open one for every pair that is reported.                            *)
(***************************************************************************)
LEMMA MovesConflictsGrow ==
  ASSUME NEW r \in Run, Moves(r)
  PROVE  conflict \subseteq conflict'
BY DEF Moves, Starts, Resumes, Drops, TakesIn, Asks, Hears, PassesBy, Writes, Advances,
       Judges, Hidden

LEMMA FrameAccounted ==
  ASSUME FoundInv, NEW r \in Run, Frame(r), conflict \subseteq conflict',
         NEW q \in Run \ {r}
  PROVE  Accounted(q)'
<1>1. Accounted(q)
  BY DEF FoundInv
<1>2. job'[q] = job[q] /\ tx'[q] = tx[q] /\ saved'[q] = saved[q]
  BY DEF Frame
<1>3. Rows(q) \subseteq Rows(q)' /\ Judging(q)' = Judging(q)
  BY <1>2 DEF Rows, Judging
<1> QED BY <1>1, <1>2, <1>3 DEF Accounted

\* A row about a candidate is one about the pair that is reported.
LEMMA PairIsSame ==
  ASSUME NEW x, NEW c
  PROVE  SamePair(x, Pair(c)) <=> SamePair(x, c)
BY DEF SamePair, Pair

LEMMA JudgesAccounted ==
  ASSUME Shape, Data, FoundInv, NEW r \in Run, Judges(r)
  PROVE  Accounted(r)'
<1> DEFINE c == ThisCand(r)
           row == Dispute(c, IF IsReal(r) THEN "open" ELSE "dismissed", r)
<1>1. Accounted(r) /\ Placed(r) /\ Grounded(r)
  BY DEF FoundInv, Shape, Data
<1>2. /\ saved'[r] = saved[r] /\ conflict' = conflict
      /\ saved[r].node = "adjudicate" /\ HasResult(r) /\ Judging(r)
      /\ job[r].pc \in {"judge", "insert"} /\ job'[r].pc \in {"judge", "insert"}
  BY DEF Judges, Hidden, Judging, JobIs
<1>3. job[r].at \in DOMAIN saved[r].cands /\ c = saved[r].cands[job[r].at]
  BY <1>2, ThisCandIs
<1>4. \/ job'[r].at = job[r].at /\ job'[r].found = job[r].found /\ tx'[r] = tx[r]
      \/ /\ job'[r].at = job[r].at + 1
         /\ Rows(r) \subseteq Rows(r)'
         /\ \E x \in Rows(r)' :
              /\ SamePair(x, c)
              /\ job'[r].found # job[r].found =>
                   x.status = "open" /\ job'[r].found = job[r].found \cup {Pair(c)}
  <2>1. CASE job[r].pc = "judge" /\ Existing(r) # {}
    <3>1. PICK x \in Rows(r) : x \in Existing(r) /\ SamePair(x, c)
      BY <2>1 DEF Existing, Rows
    <3>2. tx'[r] = tx[r] /\ Rows(r)' = Rows(r)
      BY <1>2, <2>1 DEF Judges, Rows
    <3>3. job'[r].at = job[r].at + 1
      BY <2>1 DEF Judges, JobIs
    <3>4. ~Settled(Existing(r)) => x.status = "open"
      BY <3>1 DEF Settled
    <3>5. job'[r].found # job[r].found =>
            ~Settled(Existing(r)) /\ job'[r].found = job[r].found \cup {Pair(c)}
      BY <2>1 DEF Judges, JobIs
    <3> HIDE DEF c
    <3> QED BY <3>1, <3>2, <3>3, <3>4, <3>5
  <2>2. CASE job[r].pc = "judge" /\ Existing(r) = {}
    BY <2>2 DEF Judges, JobIs
  <2>3. CASE job[r].pc = "insert"
    <3>1. /\ TxIs(tx'[r], tx[r].facts, tx[r].answers, tx[r].conflicts \cup {row})
          /\ JobIs(job'[r], "judge", job[r].at + 1, job[r].tries, job[r].facts,
                   job[r].results,
                   job[r].found \cup (IF IsReal(r) THEN {Pair(c)} ELSE {}))
      BY <2>3 DEF Judges
    <3>2. SamePair(row, c) /\ (IsReal(r) => row.status = "open")
      BY DEF SamePair, Dispute
    <3> HIDE DEF row, c
    <3>3. row \in Rows(r)' /\ Rows(r) \subseteq Rows(r)'
      BY <1>2, <3>1 DEF TxIs, Rows
    <3>4. job'[r].at = job[r].at + 1
          /\ (job'[r].found # job[r].found =>
                IsReal(r) /\ job'[r].found = job[r].found \cup {Pair(c)})
      BY <3>1 DEF JobIs
    <3> QED BY <3>2, <3>3, <3>4
  <2> QED BY <1>2, <2>1, <2>2, <2>3
<1> HIDE DEF c, row
<1>5. CASE job'[r].at = job[r].at /\ job'[r].found = job[r].found /\ tx'[r] = tx[r]
  <2>1. Rows(r)' = Rows(r)
    BY <1>2, <1>5 DEF Rows
  <2> QED BY <1>1, <1>2, <1>5, <2>1 DEF Accounted
<1>6. CASE /\ job'[r].at = job[r].at + 1
           /\ Rows(r) \subseteq Rows(r)'
           /\ \E x \in Rows(r)' :
                /\ SamePair(x, c)
                /\ job'[r].found # job[r].found =>
                     x.status = "open" /\ job'[r].found = job[r].found \cup {Pair(c)}
  <2>1. PICK x \in Rows(r)' :
          /\ SamePair(x, c)
          /\ job'[r].found # job[r].found =>
               x.status = "open" /\ job'[r].found = job[r].found \cup {Pair(c)}
    BY <1>6
  <2>2. ASSUME NEW i \in DOMAIN saved[r].cands, i < job'[r].at
        PROVE  \E y \in Rows(r)' : SamePair(y, saved[r].cands[i])
    <3>1. CASE i = job[r].at
      BY <1>3, <2>1, <3>1
    <3>2. CASE i # job[r].at
      <4>1. i < job[r].at
        BY <1>1, <1>6, <2>2, <3>2 DEF Placed, Grounded, IsListOver
      <4>2. \E y \in Rows(r) : SamePair(y, saved[r].cands[i])
        BY <1>1, <1>2, <2>2, <4>1 DEF Accounted
      <4> QED BY <1>6, <4>2
    <3> QED BY <3>1, <3>2
  <2>3. ASSUME NEW p \in job'[r].found
        PROVE  \E y \in Rows(r)' : SamePair(y, p) /\ y.status = "open"
    <3>1. CASE p \in job[r].found
      <4>1. \E y \in Rows(r) : SamePair(y, p) /\ y.status = "open"
        BY <1>1, <3>1 DEF Accounted
      <4> QED BY <1>6, <4>1
    <3>2. CASE p \notin job[r].found
      <4>1. x.status = "open" /\ p = Pair(c)
        BY <2>1, <2>3, <3>2
      <4> QED BY <2>1, <4>1, PairIsSame
    <3> QED BY <3>1, <3>2
  <2> QED BY <1>2, <2>2, <2>3 DEF Accounted
<1> QED BY <1>4, <1>5, <1>6

LEMMA MovesAccounted ==
  ASSUME Shape, Data, FoundInv, NEW r \in Run, Moves(r)
  PROVE  Accounted(r)'
<1>1. Accounted(r) /\ Placed(r) /\ Grounded(r) /\ conflict \subseteq conflict'
  BY MovesConflictsGrow DEF FoundInv, Shape, Data
<1>2. NoWrites.conflicts = {}
  BY NoWritesFields
<1>3. CASE Starts(r)
  <2>1. job'[r].found = {} /\ job'[r].pc = "next" /\ saved'[r].node = "extract"
    BY <1>3 DEF Starts, JobIs, SavedIs
  <2> QED BY <2>1 DEF Accounted, Judging
<1>4. CASE Resumes(r)
  <2>1. /\ JobIs(job'[r], FirstStep(saved[r].node), 1, 0, {}, << >>, {})
        /\ saved'[r] = saved[r] /\ saved[r].node \in {"extract", "detect", "adjudicate"}
    BY <1>4 DEF Resumes
  <2>2. job'[r].pc \in {"next", "detect", "ask"} /\ job'[r].found = {}
    BY <2>1 DEF JobIs, FirstStep
  <2> QED BY <2>1, <2>2 DEF Accounted, Judging
<1>5. CASE Drops(r)
  <2>1. /\ job'[r].found = {} /\ job'[r].pc = "off" /\ saved'[r] = saved[r]
        /\ conflict' = conflict
    BY <1>5, OffFields DEF Drops, Hidden
  <2> QED BY <1>1, <2>1 DEF Accounted, Judging
<1>6. CASE TakesIn(r)
  <2>1. /\ tx'[r].conflicts = tx[r].conflicts /\ job'[r].found = job[r].found
        /\ saved'[r] = saved[r] /\ saved[r].node = "extract" /\ conflict' = conflict
    BY <1>6 DEF TakesIn, TxIs, JobIs, Hidden
  <2>2. Rows(r)' = Rows(r)
    BY <2>1 DEF Rows
  <2> QED BY <1>1, <2>1, <2>2 DEF Accounted, Judging
<1>7. CASE Asks(r)
  <2>1. /\ tx'[r] = tx[r] /\ job'[r].found = job[r].found /\ job'[r].pc = "call"
        /\ saved'[r] = saved[r] /\ conflict' = conflict
        /\ saved[r].node \in {"extract", "adjudicate"}
    BY <1>7 DEF Asks, JobIs, Hidden
  <2>2. Rows(r)' = Rows(r)
    BY <2>1 DEF Rows
  <2> QED BY <1>1, <2>1, <2>2 DEF Accounted, Judging
<1>8. CASE Hears(r)
  <2>1. /\ tx'[r].conflicts = tx[r].conflicts /\ job'[r].found = job[r].found
        /\ job'[r].pc = "judge" /\ job'[r].at = job[r].at /\ job[r].pc \in {"ask", "call"}
        /\ saved'[r] = saved[r] /\ conflict' = conflict /\ saved[r].node = "adjudicate"
    BY <1>8 DEF Hears, TxIs, JobIs, Hidden
  <2>2. Rows(r)' = Rows(r)
    BY <2>1 DEF Rows
  <2>3. \A i \in DOMAIN saved[r].cands : ~(i < job'[r].at)
    BY <1>1, <2>1 DEF Placed, Grounded, IsListOver
  <2> QED BY <1>1, <2>1, <2>2, <2>3 DEF Accounted
<1>9. CASE PassesBy(r)
  <2>1. /\ tx'[r] = tx[r] /\ job'[r].found = job[r].found
        /\ saved'[r] = saved[r] /\ conflict' = conflict /\ saved[r].node = "extract"
    BY <1>9 DEF PassesBy, JobIs, Hidden
  <2>2. Rows(r)' = Rows(r)
    BY <2>1 DEF Rows
  <2> QED BY <1>1, <2>1, <2>2 DEF Accounted, Judging
<1>10. CASE Writes(r)
  <2>1. /\ tx'[r] = NoWrites /\ job'[r].found = job[r].found
        /\ saved'[r] = saved[r] /\ conflict' = conflict \cup tx[r].conflicts
        /\ saved[r].node \in {"extract", "adjudicate"}
        /\ (saved[r].node = "adjudicate" => Judging(r) /\ ~HasResult(r))
    BY <1>10 DEF Writes, JobIs, Judging
  <2>2. Rows(r)' = Rows(r)
    BY <1>2, <2>1 DEF Rows
  <2>3. saved[r].node = "adjudicate" => \A i \in DOMAIN saved[r].cands : i < job[r].at
    <3> SUFFICES ASSUME saved[r].node = "adjudicate", NEW i \in DOMAIN saved[r].cands
                 PROVE  i < job[r].at
      OBVIOUS
    <3>1. ~(job[r].at <= Len(saved[r].cands)) /\ i \in 1..Len(saved[r].cands)
          /\ Len(saved[r].cands) \in Nat
      BY <1>1, <2>1 DEF Grounded, IsListOver, HasResult
    <3> QED BY <1>1, <3>1 DEF Placed
  <2> QED BY <1>1, <2>1, <2>2, <2>3 DEF Accounted, Judging
<1>11. CASE Advances(r)
  <2>1. conflict' = conflict /\ tx[r].conflicts = {} /\ tx'[r] = tx[r]
        /\ saved'[r].node \in {"detect", "adjudicate", "end"}
    BY <1>2, <1>11 DEF Advances, Hidden, SavedIs
  <2>2. job'[r].found = {} /\ job'[r].pc \in {"off", "detect", "ask"}
    <3>1. CASE saved'[r].node = "end"
      BY <1>11, <3>1, OffFields DEF Advances
    <3>2. CASE saved'[r].node # "end"
      <4>1. JobIs(job'[r], FirstStep(saved'[r].node), 1, 0, {}, << >>, {})
        BY <1>11, <3>2 DEF Advances
      <4> QED BY <2>1, <3>2, <4>1 DEF JobIs, FirstStep
    <3> QED BY <3>1, <3>2
  <2>3. CASE saved[r].node = "extract"
    BY <1>11, <2>2, <2>3 DEF Advances, SavedIs, Accounted, Judging
  <2>4. CASE saved[r].node = "detect"
    <3>1. PICK cands :
            /\ cands = << >> =>
                 SavedIs(saved'[r], "end", saved[r].facts, cands, saved[r].found)
            /\ cands # << >> =>
                 SavedIs(saved'[r], "adjudicate", saved[r].facts, cands, saved[r].found)
      BY <1>11, <2>4 DEF Advances
    <3>2. saved[r].found = {}
      BY <1>1, <2>4 DEF Placed
    <3> QED BY <2>2, <3>1, <3>2 DEF SavedIs, Accounted, Judging
  <2>5. CASE saved[r].node = "adjudicate"
    <3>1. /\ job[r].pc = "saving" /\ Judging(r) /\ Rows(r) = conflict
          /\ SavedIs(saved'[r], "end", saved[r].facts, saved[r].cands, job[r].found)
      BY <1>11, <2>1, <2>5 DEF Advances, Judging, Rows
    <3> QED BY <1>1, <2>1, <2>2, <3>1 DEF SavedIs, Accounted, Judging
  <2> QED BY <1>11, <2>3, <2>4, <2>5 DEF Advances
<1>12. CASE Judges(r)
  BY <1>12, JudgesAccounted
<1> QED
  BY <1>3, <1>4, <1>5, <1>6, <1>7, <1>8, <1>9, <1>10, <1>11, <1>12 DEF Moves

LEMMA MovesFound ==
  ASSUME Shape, Data, FoundInv, NEW r \in Run, Moves(r)
  PROVE  FoundInv'
BY MovesAccounted, MovesConflictsGrow, MovesShape, FrameAccounted DEF FoundInv

LEMMA SettlesFound ==
  ASSUME FoundInv, NEW d \in Doc, NEW k \in Kind, Settles(d, k)
  PROVE  FoundInv'
BY DEF FoundInv, Accounted, Rows, Judging, Settles

-----------------------------------------------------------------------------
(***************************************************************************)
(* Every kind of step keeps documents extracted once while runs follow one *)
(* another.                                                                *)
(***************************************************************************)
\* Only a start puts a run under way.
LEMMA MovesUnderWay ==
  ASSUME Shape, NEW r \in Run, Moves(r), ~Starts(r)
  PROVE  /\ \A q \in Run : UnderWay(q)' => UnderWay(q)
         /\ UnderWay(r) \/ Drops(r)
         /\ UNCHANGED <<overlapped, moved>>
<1>1. Frame(r)
  BY MovesShape
<1>2. UnderWay(r)' => UnderWay(r)
  BY DEF Moves, Resumes, Drops, TakesIn, Asks, Hears, PassesBy, Writes, Advances, Judges,
         UnderWay
<1>3. UnderWay(r) \/ Drops(r)
  BY DEF Moves, Resumes, TakesIn, Asks, Hears, PassesBy, Writes, Advances, Judges,
         UnderWay
<1>4. UNCHANGED <<overlapped, moved>>
  BY DEF Moves, Resumes, Drops, TakesIn, Asks, Hears, PassesBy, Writes, Advances, Judges,
         Hidden
<1>5. ASSUME NEW q \in Run, UnderWay(q)' PROVE UnderWay(q)
  BY <1>1, <1>2, <1>5 DEF Frame, UnderWay
<1> QED BY <1>3, <1>4, <1>5

\* A run that is not under way has no transaction open.
LEMMA IdleHasNoWrites ==
  ASSUME Shape, NEW q \in Run, ~UnderWay(q)
  PROVE  job[q] = Off /\ tx[q] = NoWrites /\ tx[q].facts = {} /\ tx[q].conflicts = {}
<1>1. Placed(q)
  BY DEF Shape
<1>2. job[q].pc = "off"
  BY <1>1 DEF Placed, Pcs, UnderWay
<1> QED BY <1>1, <1>2, NoWritesFields DEF Placed

\* The run itself.
LEMMA MovesOnceSelf ==
  ASSUME Shape, Data, OnceInv, ~overlapped, NEW r \in Run, Moves(r), ~Starts(r)
  PROVE  /\ Once(fact') /\ Once(fact' \cup tx'[r].facts)
         /\ saved'[r].node = "extract" /\ job'[r].pc \in {"ask", "call"} =>
              Already(r, ThisDoc(r))' = {}
<1>1. /\ Once(fact) /\ Once(fact \cup tx[r].facts)
      /\ saved[r].node = "extract" /\ job[r].pc \in {"ask", "call"} =>
           Already(r, ThisDoc(r)) = {}
  BY DEF OnceInv
<1>2. NoWrites.facts = {} /\ Off.pc = "off" /\ Placed(r)
  BY NoWritesFields, OffFields DEF Shape
<1>3. CASE Resumes(r)
  <2>1. /\ tx'[r] = tx[r] /\ fact' = fact /\ saved'[r] = saved[r]
        /\ saved[r].node = "extract" => job'[r].pc = "next"
    BY <1>3 DEF Resumes, JobIs, FirstStep, Hidden
  <2> QED BY <1>1, <2>1
<1>4. CASE Drops(r)
  <2>1. tx'[r].facts = {} /\ fact' = fact /\ job'[r].pc = "off"
    BY <1>2, <1>4 DEF Drops, Hidden
  <2> QED BY <1>1, <2>1
<1>5. CASE TakesIn(r)
  <2>1. PICK K \in SUBSET [doc : {ThisDoc(r)}, by : {r}, predicate : Predicate] :
          /\ TxIs(tx'[r], tx[r].facts \cup K, tx'[r].answers, tx[r].conflicts)
          /\ \/ /\ JobIs(job'[r], "next", job[r].at + 1, 0, job[r].facts \cup K,
                         job[r].results, job[r].found)
             \/ /\ K = {} /\ job[r].tries + 1 < Attempts
                /\ JobIs(job'[r], "ask", job[r].at, job[r].tries + 1, job[r].facts,
                         job[r].results, job[r].found)
    BY <1>5 DEF TakesIn
  <2>2. fact' = fact /\ docs'[r] = docs[r] /\ Already(r, ThisDoc(r)) = {}
    BY <1>1, <1>5 DEF TakesIn, Hidden
  <2>3. tx'[r].facts = tx[r].facts \cup K
    BY <2>1 DEF TxIs
  <2>4. Once(fact' \cup tx'[r].facts)
    <3> SUFFICES ASSUME NEW f \in fact' \cup tx'[r].facts,
                        NEW g \in fact' \cup tx'[r].facts, f.doc = g.doc
                 PROVE  f.by = g.by
      BY DEF Once
    <3>1. \A h \in K : h.doc = ThisDoc(r) /\ h.by = r
      OBVIOUS
    <3>2. \A h \in fact \cup tx[r].facts : h.doc # ThisDoc(r)
      BY <2>2 DEF Already
    <3>3. CASE f \in K
      BY <2>2, <2>3, <3>1, <3>2, <3>3
    <3>4. CASE f \notin K
      <4>1. f \in fact \cup tx[r].facts
        BY <2>2, <2>3, <3>4
      <4>2. g \notin K
        BY <3>1, <3>2, <4>1
      <4>3. g \in fact \cup tx[r].facts
        BY <2>2, <2>3, <4>2
      <4> QED BY <1>1, <4>1, <4>3 DEF Once
    <3> QED BY <3>3, <3>4
  <2>5. job'[r].pc \in {"ask", "call"} => Already(r, ThisDoc(r))' = {}
    <3> SUFFICES ASSUME job'[r].pc \in {"ask", "call"} PROVE Already(r, ThisDoc(r))' = {}
      OBVIOUS
    <3>1. K = {} /\ job'[r].at = job[r].at
      BY <2>1 DEF JobIs
    <3>2. tx'[r].facts = tx[r].facts
      BY <2>3, <3>1
    <3> QED BY <2>2, <3>1, <3>2 DEF Already, ThisDoc
  <2> QED BY <1>1, <2>2, <2>4, <2>5
<1>6. CASE Asks(r)
  <2>1. /\ tx'[r] = tx[r] /\ fact' = fact /\ saved'[r] = saved[r] /\ docs'[r] = docs[r]
        /\ job'[r].at = job[r].at
    BY <1>6 DEF Asks, JobIs, Hidden
  <2>2. saved[r].node = "extract" => Already(r, ThisDoc(r)) = {}
    BY <1>1, <1>6 DEF Asks
  <2> QED BY <1>1, <2>1, <2>2 DEF Already, ThisDoc
<1>7. CASE Hears(r)
  <2>1. tx'[r].facts = tx[r].facts /\ fact' = fact /\ saved'[r].node = "adjudicate"
    BY <1>7 DEF Hears, TxIs, Hidden
  <2> QED BY <1>1, <2>1
<1>8. CASE PassesBy(r)
  <2>1. tx'[r] = tx[r] /\ fact' = fact /\ job'[r].pc = "next"
    BY <1>8 DEF PassesBy, JobIs, Hidden
  <2> QED BY <1>1, <2>1
<1>9. CASE Writes(r)
  <2>1. tx'[r].facts = {} /\ fact' = fact \cup tx[r].facts /\ job'[r].pc = "saving"
    BY <1>2, <1>9 DEF Writes, JobIs
  <2> QED BY <1>1, <2>1
<1>10. CASE Advances(r)
  <2>1. tx'[r] = tx[r] /\ fact' = fact /\ saved'[r].node # "extract"
    BY <1>10 DEF Advances, SavedIs, Hidden
  <2> QED BY <1>1, <2>1
<1>11. CASE Judges(r)
  <2>1. tx'[r].facts = tx[r].facts /\ fact' = fact /\ saved'[r].node = "adjudicate"
    BY <1>11 DEF Judges, TxIs, Hidden
  <2> QED BY <1>1, <2>1
<1> QED
  BY <1>3, <1>4, <1>5, <1>6, <1>7, <1>8, <1>9, <1>10, <1>11 DEF Moves

LEMMA MovesOnce ==
  ASSUME Shape, Data, OnceInv, NEW r \in Run, Moves(r)
  PROVE  OnceInv'
<1> SUFFICES ASSUME ~overlapped' PROVE OnceInv'
  BY DEF OnceInv
<1>1. ~overlapped /\ Frame(r)
  BY MovesUnderWay, MovesShape DEF Starts
<1>2. Alone /\ Once(fact)
  BY <1>1 DEF OnceInv
<1>3. CASE Starts(r)
  <2>1. \A q \in Run : ~UnderWay(q)
    BY <1>3 DEF Starts
  <2>2. \A q \in Run : UnderWay(q)' => q = r
    BY <1>1, <2>1 DEF Frame, UnderWay
  <2>3. fact' = fact
    BY <1>3 DEF Starts
  <2>4. \A q \in Run : tx'[q].facts = {}
    BY <1>1, <1>3, <2>1, IdleHasNoWrites DEF Frame, Starts
  <2>5. \A q \in Run : ~(saved'[q].node = "extract" /\ job'[q].pc \in {"ask", "call"})
    <3> SUFFICES ASSUME NEW q \in Run
                 PROVE  job'[q].pc \in {"off", "next"}
      OBVIOUS
    <3>1. CASE q = r
      BY <1>3, <3>1 DEF Starts, JobIs
    <3>2. CASE q # r
      BY <1>1, <2>1, <3>2, IdleHasNoWrites, OffFields DEF Frame
    <3> QED BY <3>1, <3>2
  <2>6. \A q \in Run : Once(fact' \cup tx'[q].facts)
    BY <1>2, <2>3, <2>4
  <2> QED BY <1>2, <2>2, <2>3, <2>5, <2>6 DEF OnceInv, Alone
<1>4. CASE ~Starts(r)
  <2>1. Alone'
    BY <1>2, <1>4, MovesUnderWay DEF Alone
  <2>2. /\ Once(fact') /\ Once(fact' \cup tx'[r].facts)
        /\ saved'[r].node = "extract" /\ job'[r].pc \in {"ask", "call"} =>
             Already(r, ThisDoc(r))' = {}
    BY <1>1, <1>4, MovesOnceSelf
  <2>3. ASSUME NEW q \in Run \ {r}
        PROVE  /\ Once(fact' \cup tx'[q].facts)
               /\ saved'[q].node = "extract" /\ job'[q].pc \in {"ask", "call"} =>
                    Already(q, ThisDoc(q))' = {}
    <3>1. job'[q] = job[q] /\ tx'[q] = tx[q] /\ saved'[q] = saved[q] /\ docs'[q] = docs[q]
      BY <1>1 DEF Frame
    <3>2. CASE UnderWay(r)
      <4>1. ~UnderWay(q)
        BY <1>2, <3>2 DEF Alone
      <4>2. tx'[q].facts = {} /\ job'[q].pc = "off"
        BY <3>1, <4>1, IdleHasNoWrites, OffFields
      <4> QED BY <2>2, <4>2
    <3>3. CASE Drops(r)
      <4>1. fact' = fact
        BY <3>3 DEF Drops, Hidden
      <4> QED BY <1>1, <3>1, <4>1 DEF OnceInv, Already, ThisDoc
    <3> QED BY <1>4, <3>2, <3>3, MovesUnderWay
  <2> QED BY <2>1, <2>2, <2>3 DEF OnceInv
<1> QED BY <1>3, <1>4

LEMMA SettlesOnce ==
  ASSUME OnceInv, NEW d \in Doc, NEW k \in Kind, Settles(d, k)
  PROVE  OnceInv'
BY DEF OnceInv, Alone, UnderWay, Already, ThisDoc, Settles

-----------------------------------------------------------------------------
(***************************************************************************)
(* Every kind of step keeps adjudication repeatable.                       *)
(***************************************************************************)
LEMMA OverNothing ==
  ASSUME NEW c
  PROVE  DOMAIN Over(<< >>, c) = DOMAIN c /\ \A q \in DOMAIN c : Over(<< >>, c)[q] = c[q]
BY DEF Over

LEMMA OverDomain ==
  ASSUME NEW new, NEW old
  PROVE  /\ DOMAIN Over(new, old) = DOMAIN new \cup DOMAIN old
         /\ \A q \in DOMAIN new : Over(new, old)[q] = new[q]
         /\ \A q \in DOMAIN old : q \notin DOMAIN new => Over(new, old)[q] = old[q]
BY DEF Over

LEMMA KnownIs ==
  ASSUME NEW r \in Run
  PROVE  /\ DOMAIN Known(r) = DOMAIN tx[r].answers \cup DOMAIN cache
         /\ \A q \in DOMAIN tx[r].answers : Known(r)[q] = tx[r].answers[q]
         /\ \A q \in DOMAIN cache :
              q \notin DOMAIN tx[r].answers => Known(r)[q] = cache[q]
BY DEF Known, Over

\* A step that leaves kinds and candidates alone leaves the question alone.
LEMMA SameQuestion ==
  ASSUME NEW r \in Run, kind' = kind, saved'[r] = saved[r]
  PROVE  Question(r)' = Question(r)
BY DEF Question, VerdictsOn, SeenKind, Stated

LEMMA MovesKind ==
  ASSUME NEW r \in Run, Moves(r)
  PROVE  kind' = kind
BY DEF Moves, Starts, Resumes, Drops, TakesIn, Asks, Hears, PassesBy, Writes, Advances,
       Judges, Hidden

LEMMA NotWritesTables ==
  ASSUME NEW r \in Run, Moves(r), ~Writes(r)
  PROVE  UNCHANGED <<fact, cache, conflict>>
BY DEF Moves, Starts, Resumes, Drops, TakesIn, Asks, Hears, PassesBy, Advances, Judges,
       Hidden

\* The other runs' rows: nothing happens to them, or nobody else is there.
LEMMA FrameOwned ==
  ASSUME Shape, Data, Alone, NEW r \in Run, Moves(r), Owned(r),
         NEW q \in Run \ {r}, Owned(q)
  PROVE  Owned(q)'
<1>1. job'[q] = job[q] /\ tx'[q] = tx[q] /\ saved'[q] = saved[q]
  BY MovesShape DEF Frame
<1>2. CASE ~Writes(r)
  <2>1. cache' = cache /\ conflict' = conflict
    BY <1>2, NotWritesTables
  <2>2. /\ Rows(q)' = Rows(q) /\ Judging(q)' = Judging(q) /\ Known(q)' = Known(q)
        /\ Question(q)' = Question(q)
    BY <1>1, <2>1, SameQuestion, MovesKind DEF Rows, Judging, Known
  <2>3. Repeatable(q)' <=> Repeatable(q)
    BY <1>1, <2>1, <2>2 DEF Repeatable, RealIn, Cached
  <2> QED BY <1>1, <2>1, <2>2, <2>3 DEF Owned, Reported
<1>3. CASE Writes(r)
  <2>1. UnderWay(r) /\ conflict' = conflict \cup tx[r].conflicts
    BY <1>3 DEF Writes, UnderWay
  <2>2. ~UnderWay(q)
    BY <2>1 DEF Alone
  <2>3. tx'[q].conflicts = {} /\ ~Judging(q)' /\ saved'[q].node # "adjudicate"
    BY <1>1, <2>2, IdleHasNoWrites DEF UnderWay, Judging
  <2>4. Rows(q)' = Rows(r)
    BY <2>1, <2>3 DEF Rows
  <2>5. \A x \in conflict' : x.by = q => x \in conflict
    BY <2>1 DEF Data, Grounded
  <2> QED BY <1>1, <2>3, <2>4, <2>5 DEF Owned, Reported
<1> QED BY <1>2, <1>3

LEMMA SameIsSame ==
  ASSUME NEW x, NEW y, NEW c, SamePair(x, c), SamePair(y, c)
  PROVE  SamePair(x, y)
BY DEF SamePair

\* The rows, verdicts and reports of a run that judges one candidate.
LEMMA JudgesOwned ==
  ASSUME Shape, Data, FoundInv, NEW r \in Run, Judges(r), Owned(r), kind' = kind
  PROVE  Owned(r)'
<1> DEFINE c == ThisCand(r)
           row == Dispute(c, IF IsReal(r) THEN "open" ELSE "dismissed", r)
           verdict(i) == Real(Known(r)[Question(r)], i)
<1>1. Placed(r) /\ Grounded(r) /\ Accounted(r)
  BY DEF FoundInv, Shape, Data
<1>2. /\ saved'[r] = saved[r] /\ conflict' = conflict /\ cache' = cache
      /\ saved[r].node = "adjudicate" /\ HasResult(r) /\ Judging(r) /\ Judging(r)'
      /\ job[r].pc \in {"judge", "insert"} /\ job'[r].pc \in {"judge", "insert"}
      /\ job'[r].results = job[r].results
  BY DEF Judges, Hidden, Judging, JobIs
<1>3. job[r].at \in DOMAIN saved[r].cands /\ c = saved[r].cands[job[r].at]
  BY <1>2, ThisCandIs
<1>4. Repeatable(r) /\ Unique(Rows(r)) /\ Question(r)' = Question(r)
  BY <1>2, SameQuestion DEF Owned
<1>5. tx'[r].answers = tx[r].answers /\ Known(r)' = Known(r)
  <2>1. tx'[r].answers = tx[r].answers
    BY DEF Judges, TxIs
  <2> QED BY <1>2, <2>1 DEF Known
<1>6. /\ Cached(r, Question(r))
      /\ \A i \in DOMAIN saved[r].cands : job[r].results[i].real = verdict(i)
  BY <1>2, <1>4 DEF Repeatable
<1>7. IsReal(r) = verdict(job[r].at)
  BY <1>3, <1>6 DEF IsReal
<1>8. \A i \in DOMAIN saved[r].cands :
        i < job[r].at /\ verdict(i) =>
          \A x \in Rows(r) : SamePair(x, saved[r].cands[i]) /\ x.status = "open" =>
            Pair(saved[r].cands[i]) \in job[r].found
  BY <1>2, <1>4, <1>6 DEF Repeatable
<1>9. \A i \in DOMAIN saved[r].cands :
        i < job[r].at + 1 /\ ~(i < job[r].at) => i = job[r].at
  BY <1>1 DEF Placed, Grounded, IsListOver
<1> HIDE DEF verdict
\* What is left to show of each outcome.
<1>10. ASSUME \A x \in tx'[r].conflicts : x.status = "open" => RealIn(Known(r), r, x),
              Unique(Rows(r)'),
              \A i \in DOMAIN saved[r].cands :
                i < job'[r].at /\ verdict(i) =>
                  \A x \in Rows(r)' :
                    SamePair(x, saved[r].cands[i]) /\ x.status = "open" =>
                      Pair(saved[r].cands[i]) \in job'[r].found
       PROVE  Owned(r)'
  <2>1. \A x \in tx'[r].conflicts : x.status = "open" => RealIn(Known(r), r, x)'
    BY <1>2, <1>4, <1>5, <1>10 DEF RealIn
  <2>2. \A x \in conflict : x.by = r /\ x.status = "open" => RealIn(cache, r, x)'
    BY <1>2, <1>4 DEF RealIn, Repeatable
  <2>3. Cached(r, Question(r))'
    BY <1>4, <1>5, <1>6 DEF Cached
  <2>4. \A i \in DOMAIN saved'[r].cands :
          job'[r].results[i].real = Real(Known(r)[Question(r)], i)'
    BY <1>2, <1>4, <1>5, <1>6 DEF verdict, Real
  <2>5. \A q \in DOMAIN tx'[r].answers : q \notin DOMAIN cache'
    BY <1>2, <1>4, <1>5 DEF Repeatable
  <2>6. \A i \in DOMAIN saved'[r].cands :
          (i < job'[r].at \/ job'[r].pc = "saving") /\ job'[r].results[i].real =>
            \A x \in Rows(r)' :
              SamePair(x, saved'[r].cands[i]) /\ x.status = "open" =>
                Pair(saved'[r].cands[i]) \in job'[r].found
    BY <1>2, <1>6, <1>10
  <2>7. Repeatable(r)'
    BY <1>2, <2>1, <2>2, <2>3, <2>4, <2>5, <2>6 DEF Repeatable
  <2> QED BY <1>2, <1>10, <2>7 DEF Owned
<1>11. CASE job[r].pc = "judge" /\ Existing(r) # {}
  <2>1. tx'[r] = tx[r] /\ job'[r].at = job[r].at + 1 /\ Rows(r)' = Rows(r)
    BY <1>2, <1>11 DEF Judges, JobIs, Rows
  <2>2. job[r].found \subseteq job'[r].found
        /\ (~Settled(Existing(r)) /\ IsReal(r) => Pair(c) \in job'[r].found)
    BY <1>11 DEF Judges, JobIs
  <2>3. Settled(Existing(r)) => \A x \in Rows(r) : SamePair(x, c) => x.status # "open"
    <3> SUFFICES ASSUME Settled(Existing(r)), NEW x \in Rows(r), SamePair(x, c)
                 PROVE  x.status # "open"
      OBVIOUS
    <3>1. PICK y \in Existing(r) : y.status # "open"
      BY DEF Settled
    <3>2. y \in Rows(r) /\ SamePair(y, c)
      BY DEF Existing, Rows
    <3> QED BY <1>4, <3>1, <3>2, SameIsSame DEF Unique
  <2>4. ASSUME NEW i \in DOMAIN saved[r].cands, i < job'[r].at, verdict(i),
               NEW x \in Rows(r), SamePair(x, saved[r].cands[i]), x.status = "open"
        PROVE  Pair(saved[r].cands[i]) \in job'[r].found
    <3>1. CASE i < job[r].at
      BY <1>8, <2>2, <2>4, <3>1
    <3>2. CASE ~(i < job[r].at)
      <4>1. i = job[r].at
        BY <1>9, <2>1, <2>4, <3>2
      <4>2. SamePair(x, c) /\ IsReal(r)
        BY <1>3, <1>7, <2>4, <4>1
      <4> QED BY <1>3, <2>2, <2>3, <2>4, <4>1, <4>2
    <3> QED BY <3>1, <3>2
  <2>5. \A x \in tx'[r].conflicts : x.status = "open" => RealIn(Known(r), r, x)
    BY <1>4, <2>1 DEF Repeatable
  <2> HIDE DEF c
  <2> QED BY <1>4, <1>10, <2>1, <2>4, <2>5
<1>12. CASE job[r].pc = "judge" /\ Existing(r) = {}
  <2>1. /\ tx'[r] = tx[r] /\ job'[r].at = job[r].at /\ job'[r].found = job[r].found
        /\ Rows(r)' = Rows(r)
    BY <1>2, <1>12 DEF Judges, JobIs, Rows
  <2>2. \A x \in tx'[r].conflicts : x.status = "open" => RealIn(Known(r), r, x)
    BY <1>4, <2>1 DEF Repeatable
  <2> QED BY <1>4, <1>8, <1>10, <2>1, <2>2
<1>13. CASE job[r].pc = "insert"
  <2>1. /\ TxIs(tx'[r], tx[r].facts, tx[r].answers, tx[r].conflicts \cup {row})
        /\ JobIs(job'[r], "judge", job[r].at + 1, job[r].tries, job[r].facts,
                 job[r].results,
                 job[r].found \cup (IF IsReal(r) THEN {Pair(c)} ELSE {}))
        /\ Existing(r) = {}
    BY <1>13 DEF Judges
  <2>2. SamePair(row, c) /\ (row.status = "open" => IsReal(r))
    BY DEF SamePair, Dispute
  <2>3. \A x \in Rows(r) : ~SamePair(x, c)
    BY <2>1 DEF Existing, Rows
  <2> HIDE DEF row, c
  <2>4. Rows(r)' = Rows(r) \cup {row} /\ tx'[r].conflicts = tx[r].conflicts \cup {row}
    BY <1>2, <2>1 DEF TxIs, Rows
  <2>5. /\ job'[r].at = job[r].at + 1 /\ job[r].found \subseteq job'[r].found
        /\ IsReal(r) => Pair(c) \in job'[r].found
    BY <2>1 DEF JobIs
  <2>6. Unique(Rows(r)')
    <3>1. \A x \in Rows(r) : ~SamePair(x, row) /\ ~SamePair(row, x)
      BY <2>2, <2>3 DEF SamePair
    <3> QED BY <1>4, <2>4, <3>1 DEF Unique
  <2>7. row.status = "open" => RealIn(Known(r), r, row)
    BY <1>3, <1>6, <1>7, <2>2 DEF RealIn, Cached, verdict
  <2>8. \A x \in tx'[r].conflicts : x.status = "open" => RealIn(Known(r), r, x)
    BY <1>4, <2>4, <2>7 DEF Repeatable
  <2>9. ASSUME NEW i \in DOMAIN saved[r].cands, i < job'[r].at, verdict(i),
               NEW x \in Rows(r)', SamePair(x, saved[r].cands[i]), x.status = "open"
        PROVE  Pair(saved[r].cands[i]) \in job'[r].found
    <3>1. CASE i < job[r].at
      <4>1. PICK y \in Rows(r) : SamePair(y, saved[r].cands[i])
        BY <1>1, <1>2, <3>1 DEF Accounted
      <4>2. x # row
        BY <2>2, <2>3, <2>9, <4>1 DEF SamePair
      <4> QED BY <1>8, <2>4, <2>5, <2>9, <3>1, <4>2
    <3>2. CASE ~(i < job[r].at)
      <4>1. i = job[r].at
        BY <1>9, <2>5, <2>9, <3>2
      <4> QED BY <1>3, <1>7, <2>5, <2>9, <4>1
    <3> QED BY <3>1, <3>2
  <2> QED BY <1>10, <2>6, <2>8, <2>9
<1> QED BY <1>2, <1>11, <1>12, <1>13

\* A run that was just started, resumed or thrown out has nothing to repeat.
LEMMA FreshIsRepeatable ==
  ASSUME NEW r \in Run, Repeatable(r), saved[r].node = "adjudicate",
         saved'[r] = saved[r], kind' = kind, cache' = cache, conflict' = conflict,
         tx'[r] = NoWrites, job'[r].pc \in {"off", "ask"}
  PROVE  Repeatable(r)'
<1>1. Question(r)' = Question(r)
  BY SameQuestion
<1>2. \A x \in conflict : x.by = r /\ x.status = "open" => RealIn(cache, r, x)'
  BY <1>1 DEF Repeatable, RealIn
<1>3. tx'[r].conflicts = {} /\ DOMAIN tx'[r].answers = {}
  BY NoWritesFields
<1> QED BY <1>2, <1>3 DEF Repeatable, Judging

LEMMA HearsOwned ==
  ASSUME Shape, Data, NEW r \in Run, Hears(r), Owned(r), kind' = kind
  PROVE  Owned(r)'
<1>1. Placed(r) /\ Grounded(r)
  BY DEF Shape, Data
<1>2. /\ saved'[r] = saved[r] /\ cache' = cache /\ conflict' = conflict
      /\ saved[r].node = "adjudicate" /\ job[r].pc \in {"ask", "call"} /\ ~Judging(r)
      /\ TxIs(tx'[r], tx[r].facts, tx'[r].answers, tx[r].conflicts)
  BY DEF Hears, Hidden, Judging
<1>3. Repeatable(r) /\ Unique(Rows(r)) /\ tx[r].conflicts = {} /\ Question(r)' = Question(r)
  BY <1>2, SameQuestion DEF Owned
<1>4. PICK answer :
        /\ JobIs(job'[r], "judge", job[r].at, job[r].tries, job[r].facts,
                 Results(saved[r].cands, answer), job[r].found)
        /\ \/ /\ job[r].pc = "ask" /\ Cached(r, VerdictsOn(saved[r].cands))
              /\ answer = Known(r)[VerdictsOn(saved[r].cands)]
              /\ tx'[r].answers = Over(<< >>, tx[r].answers)
           \/ /\ job[r].pc = "call"
              /\ job[r].asked \notin DOMAIN cache =>
                   tx'[r].answers = Over([q \in {job[r].asked} |-> answer], tx[r].answers)
  BY DEF Hears
<1>5. /\ Cached(r, Question(r))' /\ Known(r)'[Question(r)] = answer
      /\ \A q \in DOMAIN tx'[r].answers : q \notin DOMAIN cache
  <2>1. CASE job[r].pc = "ask"
    <3>1. /\ Cached(r, Question(r)) /\ answer = Known(r)[Question(r)]
          /\ tx'[r].answers = Over(<< >>, tx[r].answers)
      BY <1>4, <2>1 DEF Question
    <3>2. /\ DOMAIN tx'[r].answers = DOMAIN tx[r].answers
          /\ \A q \in DOMAIN tx[r].answers : tx'[r].answers[q] = tx[r].answers[q]
      BY <3>1, OverNothing
    <3>3. Known(r)' = Over(tx'[r].answers, cache)
      BY <1>2 DEF Known
    <3> DEFINE new == tx'[r].answers
               old == tx[r].answers
    <3>4. /\ DOMAIN Over(new, cache) = DOMAIN new \cup DOMAIN cache
          /\ \A q \in DOMAIN new : Over(new, cache)[q] = new[q]
          /\ \A q \in DOMAIN cache : q \notin DOMAIN new => Over(new, cache)[q] = cache[q]
      BY OverDomain
    <3> HIDE DEF new, old
    <3>5. Question(r) \in DOMAIN Over(new, cache) /\ Over(new, cache)[Question(r)] = answer
      <4>1. Question(r) \in DOMAIN old \cup DOMAIN cache
        BY <3>1, KnownIs DEF Cached, old
      <4>2. CASE Question(r) \in DOMAIN old
        <5>1. answer = old[Question(r)]
          BY <3>1, <4>2, KnownIs DEF old
        <5> QED BY <3>2, <3>4, <4>2, <5>1 DEF old, new
      <4>3. CASE Question(r) \notin DOMAIN old
        <5>1. answer = cache[Question(r)]
          BY <3>1, <4>1, <4>3, KnownIs DEF old
        <5> QED BY <3>2, <3>4, <4>1, <4>3, <5>1 DEF old, new
      <4> QED BY <4>2, <4>3
    <3> QED BY <1>3, <3>2, <3>3, <3>5 DEF Cached, Repeatable, new
  <2>2. CASE job[r].pc = "call"
    <3>1. job[r].asked = Question(r) /\ ~Cached(r, Question(r))
      BY <1>3, <2>2 DEF Repeatable
    <3>2. Question(r) \notin DOMAIN cache
      BY <3>1, KnownIs DEF Cached
    <3>3. tx'[r].answers = Over([q \in {Question(r)} |-> answer], tx[r].answers)
      BY <1>4, <2>2, <3>1, <3>2
    <3>4. /\ DOMAIN tx'[r].answers = {Question(r)} \cup DOMAIN tx[r].answers
          /\ tx'[r].answers[Question(r)] = answer
      <4> DEFINE new == [q \in {Question(r)} |-> answer]
      <4>1. DOMAIN new = {Question(r)} /\ new[Question(r)] = answer
        OBVIOUS
      <4>2. /\ DOMAIN Over(new, tx[r].answers) = DOMAIN new \cup DOMAIN tx[r].answers
            /\ \A q \in DOMAIN new : Over(new, tx[r].answers)[q] = new[q]
        BY OverDomain
      <4> HIDE DEF new
      <4> QED BY <3>3, <4>1, <4>2 DEF new
    <3>5. Known(r)' = Over(tx'[r].answers, cache)
      BY <1>2 DEF Known
    <3>6. Question(r) \in DOMAIN Known(r)' /\ Known(r)'[Question(r)] = answer
      <4> DEFINE new == tx'[r].answers
      <4>1. /\ DOMAIN Over(new, cache) = DOMAIN new \cup DOMAIN cache
            /\ \A q \in DOMAIN new : Over(new, cache)[q] = new[q]
        BY OverDomain
      <4> QED BY <3>4, <3>5, <4>1
    <3> QED BY <1>3, <3>2, <3>4, <3>6 DEF Cached, Repeatable
  <2> QED BY <1>2, <2>1, <2>2
<1>6. \A i \in DOMAIN saved[r].cands :
        Results(saved[r].cands, answer)[i].real = Real(answer, i)
  BY <1>1, ResultsAre DEF Grounded, IsListOver, Real
<1>7. job'[r].pc = "judge" /\ job'[r].results = Results(saved[r].cands, answer)
      /\ job'[r].at = job[r].at /\ tx'[r].conflicts = {}
  BY <1>2, <1>3, <1>4 DEF JobIs, TxIs
<1>8. \A i \in DOMAIN saved[r].cands : ~(i < job'[r].at)
  BY <1>1, <1>2, <1>7 DEF Placed, Grounded, IsListOver
<1>9. \A i \in DOMAIN saved'[r].cands :
        job'[r].results[i].real = Real(Known(r)[Question(r)], i)'
  BY <1>2, <1>3, <1>5, <1>6, <1>7 DEF Real
<1>10. \A x \in conflict : x.by = r /\ x.status = "open" => RealIn(cache, r, x)'
  BY <1>2, <1>3 DEF Repeatable, RealIn
<1>11. Rows(r)' = Rows(r)
  BY <1>2, <1>3, <1>7 DEF Rows
<1>12. Repeatable(r)'
  <2>1. job'[r].pc # "saving" /\ job'[r].pc # "call"
    BY <1>7
  <2> QED BY <1>2, <1>3, <1>5, <1>7, <1>8, <1>9, <1>10, <2>1 DEF Repeatable
<1> QED BY <1>2, <1>3, <1>7, <1>11, <1>12 DEF Owned

LEMMA WritesOwned ==
  ASSUME Shape, Data, NEW r \in Run, Writes(r), Owned(r), kind' = kind
  PROVE  Owned(r)'
<1>1. Placed(r) /\ Grounded(r) /\ NoWrites.conflicts = {} /\ NoWrites.answers = << >>
  BY NoWritesFields DEF Shape, Data
<1>2. /\ saved'[r] = saved[r] /\ cache' = Known(r)
      /\ conflict' = conflict \cup tx[r].conflicts /\ tx'[r] = NoWrites
      /\ JobIs(job'[r], "saving", job[r].at, job[r].tries, job[r].facts,
               job[r].results, job[r].found)
  BY DEF Writes
<1>3. Rows(r)' = Rows(r) /\ Unique(Rows(r)) /\ tx'[r].conflicts = {}
  BY <1>1, <1>2 DEF Rows, Owned
<1>4. CASE saved[r].node = "extract"
  BY <1>2, <1>3, <1>4 DEF Owned, Judging
<1>5. CASE saved[r].node = "adjudicate"
  <2>1. Judging(r) /\ Judging(r)' /\ ~HasResult(r)
    BY <1>2, <1>5 DEF Writes, Judging, JobIs
  <2>2. Repeatable(r) /\ Question(r)' = Question(r)
    BY <1>2, <1>5, SameQuestion DEF Owned
  <2>3. Cached(r, Question(r)) /\ DOMAIN Known(r)' = DOMAIN Known(r)
        /\ Known(r)'[Question(r)] = Known(r)[Question(r)]
    <3>1. Known(r)' = Over(<< >>, Known(r))
      BY <1>1, <1>2 DEF Known
    <3>2. Question(r) \in DOMAIN Known(r) /\ Cached(r, Question(r))
      BY <2>1, <2>2 DEF Repeatable, Cached
    <3> QED BY <3>1, <3>2, OverNothing
  <2>4. \A x \in conflict' : x.by = r /\ x.status = "open" => RealIn(cache, r, x)'
    <3> SUFFICES ASSUME NEW x \in conflict', x.by = r, x.status = "open"
                 PROVE  RealIn(cache, r, x)'
      OBVIOUS
    <3>1. RealIn(Known(r), r, x)
      <4>1. CASE x \in tx[r].conflicts
        BY <2>2, <4>1 DEF Repeatable
      <4>2. CASE x \in conflict
        <5>1. RealIn(cache, r, x)
          BY <2>2, <4>2 DEF Repeatable
        <5>2. Question(r) \in DOMAIN cache /\ Question(r) \notin DOMAIN tx[r].answers
          BY <2>2, <5>1 DEF RealIn, Repeatable
        <5>3. Question(r) \in DOMAIN Known(r) /\ Known(r)[Question(r)] = cache[Question(r)]
          BY <5>2, KnownIs
        <5> QED BY <5>1, <5>3 DEF RealIn
      <4> QED BY <1>2, <4>1, <4>2
    <3> QED BY <1>2, <2>2, <3>1 DEF RealIn
  <2>5. \A i \in DOMAIN saved[r].cands : i < job[r].at
    <3> SUFFICES ASSUME NEW i \in DOMAIN saved[r].cands PROVE i < job[r].at
      OBVIOUS
    <3>1. ~(job[r].at <= Len(saved[r].cands)) /\ i \in 1..Len(saved[r].cands)
          /\ Len(saved[r].cands) \in Nat
      BY <1>1, <2>1 DEF Grounded, IsListOver, HasResult
    <3> QED BY <1>1, <3>1 DEF Placed
  <2>6. job'[r].results = job[r].results /\ job'[r].found = job[r].found
        /\ job'[r].pc = "saving"
    BY <1>2 DEF JobIs
  <2>7. \A i \in DOMAIN saved'[r].cands :
          /\ job'[r].results[i].real = Real(Known(r)[Question(r)], i)'
          /\ job'[r].results[i].real =>
               \A x \in Rows(r)' :
                 SamePair(x, saved'[r].cands[i]) /\ x.status = "open" =>
                   Pair(saved'[r].cands[i]) \in job'[r].found
    BY <1>2, <1>3, <2>1, <2>2, <2>3, <2>5, <2>6 DEF Repeatable, Real
  <2>8. Cached(r, Question(r))'
    BY <2>2, <2>3 DEF Cached
  <2>9. DOMAIN tx'[r].answers = {}
    BY <1>1, <1>2
  <2>10. Repeatable(r)'
    BY <1>3, <2>4, <2>6, <2>7, <2>8, <2>9 DEF Repeatable
  <2> QED BY <1>2, <1>3, <1>5, <2>1, <2>10 DEF Owned
<1> QED BY <1>4, <1>5 DEF Writes

LEMMA AdvancesOwned ==
  ASSUME Shape, Data, NEW r \in Run, Advances(r), Owned(r), kind' = kind,
         \A x \in conflict : saved[x.by].node \in {"adjudicate", "end"}
  PROVE  Owned(r)'
<1>1. Placed(r) /\ Grounded(r) /\ NoWrites.conflicts = {} /\ DOMAIN NoWrites.answers = {}
  BY NoWritesFields DEF Shape, Data
<1>2. /\ tx[r] = NoWrites /\ tx'[r] = NoWrites /\ cache' = cache /\ conflict' = conflict
      /\ saved'[r].node \in {"detect", "adjudicate", "end"}
  BY DEF Advances, Hidden, SavedIs
<1>3. job'[r].pc \in {"off", "detect", "ask"} /\ ~Judging(r)'
  <2>1. CASE saved'[r].node = "end"
    BY <2>1, OffFields DEF Advances, Judging
  <2>2. CASE saved'[r].node # "end"
    <3>1. JobIs(job'[r], FirstStep(saved'[r].node), 1, 0, {}, << >>, {})
      BY <2>2 DEF Advances
    <3> QED BY <1>2, <2>2, <3>1 DEF JobIs, FirstStep, Judging
  <2> QED BY <2>1, <2>2
<1>4. Rows(r)' = Rows(r) /\ Rows(r) = conflict /\ Unique(Rows(r)) /\ tx'[r].conflicts = {}
  BY <1>1, <1>2 DEF Rows, Owned
<1>5. CASE saved[r].node \in {"extract", "detect"}
  <2>1. \A x \in conflict : x.by # r
    BY <1>5
  <2>2. Repeatable(r)'
    BY <1>1, <1>2, <1>3, <2>1 DEF Repeatable
  <2> QED BY <1>2, <1>3, <1>4, <2>1, <2>2 DEF Owned
<1>6. CASE saved[r].node = "adjudicate"
  <2>1. /\ job[r].pc = "saving" /\ Judging(r) /\ Repeatable(r)
        /\ SavedIs(saved'[r], "end", saved[r].facts, saved[r].cands, job[r].found)
    BY <1>6 DEF Advances, Judging, Owned
  <2>2. ASSUME NEW x \in conflict, x.by = r, x.status = "open"
        PROVE  \E c \in saved'[r].found : SamePair(x, c)
    <3>1. RealIn(cache, r, x)
      BY <2>1, <2>2 DEF Repeatable
    <3>2. PICK i \in DOMAIN saved[r].cands :
            SamePair(x, saved[r].cands[i]) /\ Real(cache[Question(r)], i)
      BY <3>1 DEF RealIn
    <3>3. Known(r)[Question(r)] = cache[Question(r)]
      BY <1>1, <1>2, <3>1, KnownIs DEF RealIn
    <3>4. job[r].results[i].real
      BY <2>1, <3>2, <3>3 DEF Repeatable
    <3>5. Pair(saved[r].cands[i]) \in job[r].found
      BY <1>4, <2>1, <2>2, <3>2, <3>4 DEF Repeatable
    <3>6. SamePair(x, Pair(saved[r].cands[i]))
      BY <3>2, PairIsSame
    <3> QED BY <2>1, <3>5, <3>6 DEF SavedIs
  <2>3. saved'[r].node = "end"
    BY <2>1 DEF SavedIs
  <2> QED BY <1>2, <1>3, <1>4, <2>2, <2>3 DEF Owned, Reported
<1> QED BY <1>5, <1>6 DEF Advances

LEMMA MovesOwned ==
  ASSUME Shape, Data, FoundInv, NEW r \in Run, Moves(r), Owned(r),
         \A x \in conflict : saved[x.by].node \in {"adjudicate", "end"}
  PROVE  Owned(r)'
<1>1. kind' = kind
  BY MovesKind
<1>2. NoWrites.conflicts = {} /\ NoWrites.answers = << >> /\ Placed(r)
  BY NoWritesFields DEF Shape
<1>3. CASE Starts(r)
  <2>1. /\ saved'[r].node = "extract" /\ tx'[r] = NoWrites /\ tx[r] = NoWrites
        /\ conflict' = conflict
    BY <1>3 DEF Starts, SavedIs
  <2> QED BY <1>2, <2>1 DEF Owned, Rows
<1>4. CASE Resumes(r)
  <2>1. /\ saved'[r] = saved[r] /\ tx'[r] = NoWrites /\ tx[r] = NoWrites
        /\ conflict' = conflict /\ cache' = cache
        /\ saved[r].node \in {"extract", "detect", "adjudicate"}
        /\ (saved[r].node = "adjudicate" => job'[r].pc = "ask")
    BY <1>4 DEF Resumes, Hidden, JobIs, FirstStep
  <2>2. saved[r].node = "adjudicate" => Repeatable(r)'
    BY <1>1, <2>1, FreshIsRepeatable DEF Owned
  <2> QED BY <1>2, <2>1, <2>2 DEF Owned, Rows
<1>5. CASE Drops(r)
  <2>1. /\ saved'[r] = saved[r] /\ tx'[r] = NoWrites /\ job'[r].pc = "off"
        /\ conflict' = conflict /\ cache' = cache
    BY <1>5, OffFields DEF Drops, Hidden
  <2>2. saved[r].node = "adjudicate" => Repeatable(r)'
    BY <1>1, <2>1, FreshIsRepeatable DEF Owned
  <2>3. Unique(Rows(r)')
    BY <1>2, <2>1 DEF Owned, Rows, Unique
  <2> QED BY <1>2, <2>1, <2>2, <2>3 DEF Owned, Reported
<1>6. CASE TakesIn(r)
  <2>1. /\ saved'[r] = saved[r] /\ saved[r].node = "extract" /\ conflict' = conflict
        /\ tx'[r].conflicts = tx[r].conflicts
    BY <1>6 DEF TakesIn, TxIs, Hidden
  <2> QED BY <2>1 DEF Owned, Rows, Judging
<1>7. CASE Asks(r)
  <2>1. /\ saved'[r] = saved[r] /\ conflict' = conflict /\ cache' = cache /\ tx'[r] = tx[r]
        /\ job'[r].pc = "call" /\ job[r].pc \in {"next", "ask"}
        /\ saved[r].node \in {"extract", "adjudicate"}
        /\ ~Cached(r, job'[r].asked)
    BY <1>7 DEF Asks, Hidden, JobIs
  <2>2. ~Judging(r) /\ Rows(r)' = Rows(r)
    BY <2>1 DEF Judging, Rows
  <2>3. saved[r].node = "adjudicate" => Repeatable(r)'
    <3> SUFFICES ASSUME saved[r].node = "adjudicate" PROVE Repeatable(r)'
      OBVIOUS
    <3>1. job'[r].asked = Question(r)
      BY <1>7 DEF Asks, Question
    <3>2. Question(r)' = Question(r) /\ Known(r)' = Known(r)
      BY <1>1, <2>1, SameQuestion DEF Known
    <3>3. Repeatable(r) /\ ~Cached(r, Question(r))'
      BY <2>1, <3>1, <3>2 DEF Owned, Cached
    <3> QED BY <2>1, <3>1, <3>2, <3>3 DEF Repeatable, RealIn, Judging
  <2> QED BY <2>1, <2>2, <2>3 DEF Owned
<1>8. CASE Hears(r)
  BY <1>1, <1>8, HearsOwned
<1>9. CASE PassesBy(r)
  <2>1. /\ saved'[r] = saved[r] /\ saved[r].node = "extract" /\ conflict' = conflict
        /\ tx'[r] = tx[r]
    BY <1>9 DEF PassesBy, Hidden
  <2> QED BY <2>1 DEF Owned, Rows, Judging
<1>10. CASE Writes(r)
  BY <1>1, <1>10, WritesOwned
<1>11. CASE Advances(r)
  BY <1>1, <1>11, AdvancesOwned
<1>12. CASE Judges(r)
  BY <1>1, <1>12, JudgesOwned
<1> QED
  BY <1>3, <1>4, <1>5, <1>6, <1>7, <1>8, <1>9, <1>10, <1>11, <1>12 DEF Moves

LEMMA MovesHere ==
  ASSUME Shape, Data, FoundInv, OnceInv, HereInv, NEW r \in Run, Moves(r)
  PROVE  HereInv'
<1> SUFFICES ASSUME ~moved', ~overlapped'
             PROVE  /\ \A x \in conflict' : x.by \in Run
                                            /\ saved'[x.by].node \in {"adjudicate", "end"}
                    /\ \A q \in Run : Owned(q)'
  BY DEF HereInv
<1>1. ~moved /\ ~overlapped
  BY MovesUnderWay DEF Starts
<1>2. /\ \A x \in conflict : x.by \in Run /\ saved[x.by].node \in {"adjudicate", "end"}
      /\ \A q \in Run : Owned(q)
      /\ Alone
  BY <1>1 DEF HereInv, OnceInv
<1>3. \A q \in Run : Owned(q)'
  BY <1>2, MovesOwned, FrameOwned
<1>4. saved[r].node \in {"adjudicate", "end"} => saved'[r].node \in {"adjudicate", "end"}
  BY DEF Moves, Starts, Resumes, Drops, TakesIn, Asks, Hears, PassesBy, Writes, Advances,
         Judges, SavedIs
<1>5. \A q \in Run \ {r} : saved'[q] = saved[q]
  BY MovesShape DEF Frame
<1>6. ASSUME NEW x \in conflict'
      PROVE  x.by \in Run /\ saved'[x.by].node \in {"adjudicate", "end"}
  <2>1. CASE x \in conflict
    BY <1>2, <1>4, <1>5, <2>1
  <2>2. CASE x \notin conflict
    <3>1. Writes(r)
      BY <2>2, <1>6, NotWritesTables
    <3>2. x \in tx[r].conflicts
      BY <1>6, <2>2, <3>1 DEF Writes
    <3>3. x.by = r /\ Judging(r)
      BY <1>2, <3>2 DEF Data, Grounded, Owned
    <3> QED BY <1>4, <3>3 DEF Judging
  <2> QED BY <2>1, <2>2
<1> QED BY <1>3, <1>6

LEMMA SettlesHere ==
  ASSUME Shape, HereInv, NEW d \in Doc, NEW k \in Kind, Settles(d, k)
  PROVE  HereInv'
<1> SUFFICES ASSUME ~moved', ~overlapped' PROVE HereInv'
  BY DEF HereInv
<1>1. /\ ~moved /\ ~overlapped /\ \A q \in Run : ~UnderWay(q)
      /\ UNCHANGED <<fact, cache, conflict, docs, saved, job, tx>>
  BY DEF Settles
<1>2. \A q \in Run : Owned(q)'
  <2> SUFFICES ASSUME NEW q \in Run PROVE Owned(q)'
    OBVIOUS
  <2>1. Owned(q) /\ saved[q].node # "adjudicate"
    BY <1>1 DEF HereInv, UnderWay
  <2> QED BY <1>1, <2>1 DEF Owned, Rows, Judging, Reported
<1> QED BY <1>1, <1>2 DEF HereInv

-----------------------------------------------------------------------------
LEMMA InitInv ==
  ASSUME Init
  PROVE  IInv
<1>1. \A r \in Run : /\ job[r] = Off /\ tx[r] = NoWrites /\ saved[r] = Fresh
                     /\ docs[r] = << >>
  BY DEF Init
<1>2. /\ DOMAIN Fresh = SavedFields /\ Fresh.node = "none" /\ Fresh.facts = {}
      /\ Fresh.cands = << >> /\ Fresh.found = {}
  BY DEF Fresh, SavedFields
<1>3. Shape
  <2>1. ASSUME NEW r \in Run PROVE Placed(r)
    <3>1. "off" \in Pcs("none") /\ << >> \in Seq(Doc) /\ NoProblem \in Problems
      BY DEF Pcs, Problems
    <3>2. Off.tries \in Nat /\ Off.tries < Attempts /\ Off.at \in Nat \ {0}
      BY OffFields, TablesBounds
    <3> QED BY <1>1, <1>2, <3>1, <3>2, OffFields, NoWritesFields DEF Placed
  <2> QED BY <2>1 DEF Init, Shape
<1>4. Data
  <2>1. ASSUME NEW r \in Run PROVE Grounded(r)
    BY <1>1, <1>2, OffFields, NoWritesFields, NothingIsFine DEF Grounded, Judging, IsListOver
  <2>2. kind \in [Doc -> Kind \cup {Unset}]
    BY TablesAssumption DEF Init
  <2> QED BY <2>1, <2>2, NothingIsFine DEF Init, Data
<1>5. FoundInv
  BY <1>1, <1>2, OffFields DEF FoundInv, Accounted, Judging
<1>6. OnceInv
  BY <1>1, <1>2, OffFields, NoWritesFields DEF OnceInv, Init, Once, Alone, UnderWay
<1>7. HereInv
  <2>1. ASSUME NEW r \in Run PROVE Owned(r)
    BY <1>1, <1>2, OffFields, NoWritesFields DEF Init, Owned, Unique, Rows
  <2> QED BY <2>1 DEF Init, HereInv
<1> QED BY <1>3, <1>4, <1>5, <1>6, <1>7 DEF IInv

LEMMA NextInv ==
  ASSUME IInv, [Next]_vars
  PROVE  IInv'
<1>1. Shape /\ Data /\ FoundInv /\ OnceInv /\ HereInv
  BY DEF IInv
<1>2. CASE Next
  <2>1. ASSUME NEW r \in Run, Moves(r) PROVE IInv'
    BY <1>1, <2>1, MovesShape, MovesData, MovesFound, MovesOnce, MovesHere DEF IInv
  <2>2. ASSUME NEW d \in Doc, NEW k \in Kind, Settles(d, k) PROVE IInv'
    BY <1>1, <2>2, SettlesShape, SettlesData, SettlesFound, SettlesOnce, SettlesHere
    DEF IInv
  <2> QED BY <1>1, <1>2, <2>1, <2>2, EveryStep
<1>3. CASE UNCHANGED vars
  <2> USE <1>3 DEF vars, tables, bounds
  <2>1. Shape'
    BY <1>1 DEF Shape, Placed, HasDoc
  <2>2. ASSUME NEW q \in Run PROVE Grounded(q)'
    <3>1. Grounded(q)
      BY <1>1 DEF Data
    <3>2. Judging(q)' = Judging(q) /\ HasResult(q)' = HasResult(q) /\ ThisDoc(q)' = ThisDoc(q)
      BY DEF Judging, HasResult, ThisDoc
    <3> QED BY <3>1, <3>2 DEF Grounded
  <2>3. Data'
    BY <1>1, <2>2 DEF Data
  <2>4. FoundInv'
    BY <1>1 DEF FoundInv, Accounted, Rows, Judging
  <2>5. OnceInv'
    BY <1>1 DEF OnceInv, Alone, UnderWay, Already, ThisDoc
  <2>6. ASSUME NEW q \in Run PROVE Owned(q)' <=> Owned(q)
    <3>1. /\ Rows(q)' = Rows(q) /\ Judging(q)' = Judging(q) /\ Known(q)' = Known(q)
          /\ Question(q)' = Question(q)
      BY SameQuestion DEF Rows, Judging, Known
    <3>2. Repeatable(q)' <=> Repeatable(q)
      BY <3>1 DEF Repeatable, RealIn, Cached
    <3> QED BY <3>1, <3>2 DEF Owned, Reported
  <2>7. HereInv'
    BY <1>1, <2>6 DEF HereInv
  <2> QED BY <2>1, <2>3, <2>4, <2>5, <2>7 DEF IInv
<1> QED BY <1>2, <1>3

\* What is kept throughout.
THEOREM Invariance == Spec => []IInv
<1>1. Init => IInv
  BY InitInv
<1>2. IInv /\ [Next]_vars => IInv'
  BY NextInv
<1> QED BY <1>1, <1>2, PTL DEF Spec

\* Rows, answers and threads are of their types, conflict rows and
\* candidates are about facts that exist, and a thread that stopped left no
\* transaction open.
THEOREM TypeCorrect == Spec => []TypeOK
<1>1. IInv => TypeOK
  <2> SUFFICES ASSUME IInv PROVE TypeOK
    OBVIOUS
  <2>1. kind \in [Doc -> Kind \cup {Unset}] /\ fact \subseteq Row
        /\ \A x \in conflict : {x.a, x.b} \subseteq fact
    BY DEF IInv, Data
  <2>2. ASSUME NEW r \in Run
        PROVE  /\ saved[r].node \in {"none", "extract", "detect", "adjudicate", "end"}
               /\ saved[r].facts \subseteq fact
               /\ \A i \in DOMAIN saved[r].cands :
                    {saved[r].cands[i].a, saved[r].cands[i].b} \subseteq saved[r].facts
               /\ job[r].tries < Attempts
               /\ job[r].facts \subseteq fact \cup tx[r].facts
               /\ ~Driven(r) => tx[r] = NoWrites
    <3>1. Placed(r) /\ Grounded(r)
      BY DEF IInv, Shape, Data
    <3> QED BY <3>1 DEF Placed, Grounded, IsListOver, Driven
  <2> QED BY <2>1, <2>2 DEF TypeOK
<1> QED BY <1>1, Invariance, PTL

\* graph.extract: however runs that follow one another are killed, resumed,
\* retried or badly answered, the facts of a document are extracted by one.
THEOREM ExtractionHappensOnce == Spec => []ExtractedOnce
<1>1. IInv => ExtractedOnce
  BY DEF IInv, OnceInv, Once, ExtractedOnce
<1> QED BY <1>1, Invariance, PTL

\* adjudicate_conflicts: a run that ended left a row for every candidate it
\* was sent to judge, also when runs raced for the rows.
THEOREM NothingVanishes == Spec => []NothingFoundVanishes
<1>1. IInv => NothingFoundVanishes
  BY DEF IInv, FoundInv, Accounted, NothingFoundVanishes
<1> QED BY <1>1, Invariance, PTL

\* adjudicate_conflicts: every pair a run reports has an open row, whoever
\* wrote it.
THEOREM ReportsAreOpen == Spec => []ReportedIsOpen
<1>1. IInv => ReportedIsOpen
  BY DEF IInv, FoundInv, Accounted, ReportedIsOpen
<1> QED BY <1>1, Invariance, PTL

\* adjudicate: a conflict that a run opened is in what it reports, although
\* it may have been killed between its rows and its checkpoint and judged
\* again: the cache gives it the same verdicts.  Only while runs follow one
\* another and no kind changes under them: neither is enforced.
THEOREM OpenedIsReported == Spec => []OpenedHereIsReportedHere
<1>1. IInv => OpenedHereIsReportedHere
  BY DEF IInv, HereInv, Owned, Reported, OpenedHereIsReportedHere
<1> QED BY <1>1, Invariance, PTL

=============================================================================

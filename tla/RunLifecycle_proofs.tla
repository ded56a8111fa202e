------------------------ MODULE RunLifecycle_proofs ------------------------
(***************************************************************************)
(* Proofs about RunLifecycle, for any runs, threads, answers and bounds.   *)
(***************************************************************************)
EXTENDS RunLifecycle, TLAPS

\* A thread state the type invariant allows.
Sane(s) == s \in ThreadState /\ Engaged(s)

\* The type invariant's conjuncts about threads, after a step.
ThreadsOK == thr \in [Thread -> ThreadState] /\ \A t \in Thread : Engaged(thr[t])

LEMMA IdleType == Sane(Idle) /\ EmptyState \in GraphState
BY BoundsAssumption DEF Idle, EmptyState, ThreadState, GraphState, Sane, Engaged

LEMMA SaneThreads ==
  ASSUME TypeOK, NEW t \in Thread
  PROVE  Sane(thr[t]) /\ thr[t].mem \in GraphState
BY DEF TypeOK, Sane, ThreadState

\* Moving one thread to a sane state keeps every thread sane.
LEMMA BecomesType ==
  ASSUME TypeOK, NEW t \in Thread, NEW s, Sane(s), Becomes(t, s)
  PROVE  ThreadsOK'
BY DEF Becomes, TypeOK, Sane, ThreadsOK

\* What a commit writes is a batch: its verdicts are indexed by its findings.
LEMMA BatchType ==
  ASSUME NEW m \in GraphState
  PROVE  BatchOf(m) \in Batch
<1> DEFINE n == m.findings
<1>1. n \in 0..MaxFindings
  BY DEF GraphState
<1>2. [i \in 1..n |-> VerdictOf(m.decisions, i)]
        \in [1..n -> {"approved", "rejected"}]
  BY DEF VerdictOf
<1>3. BatchOf(m) \in BatchOfSize(n)
  BY <1>2 DEF BatchOf, BatchOfSize, GraphState
<1> QED
  BY <1>1, <1>3 DEF Batch

\* A thread that ran a node has a checkpoint to write.
LEMMA FinishType ==
  ASSUME TypeOK, NEW t \in Thread, NEW m \in GraphState, Finish(t, m),
         thr[t].pc = "body", m.next # "none"
  PROVE  ThreadsOK'
<1>1. Sane([thr[t] EXCEPT !.pc = "ckpt", !.mem = m])
  BY SaneThreads DEF Sane, ThreadState, Engaged
<1> QED
  BY <1>1, BecomesType DEF Finish

\* The findings counter saturates inside its type.
LEMMA GrownState ==
  ASSUME NEW m \in GraphState, NEW k \in Atleast(m.findings),
         NEW n \in Node \cup {"end"}
  PROVE  /\ [m EXCEPT !.findings = k, !.next = n] \in GraphState
         /\ [m EXCEPT !.findings = k, !.next = n].next = n
         /\ n # "none"
<1>1. k \in 0..MaxFindings
  BY BoundsAssumption DEF Atleast, GraphState
<1> QED
  BY <1>1 DEF GraphState, Node

LEMMA AddFindingsType ==
  ASSUME TypeOK, NEW t \in Thread, NEW n \in Node \cup {"end"},
         thr[t].pc = "body", AddFindings(t, n)
  PROVE  ThreadsOK'
<1>1. PICK k \in Atleast(thr[t].mem.findings) :
        Finish(t, [thr[t].mem EXCEPT !.findings = k, !.next = n])
  BY DEF AddFindings
<1>2. thr[t].mem \in GraphState
  BY SaneThreads
<1>3. [thr[t].mem EXCEPT !.findings = k, !.next = n] \in GraphState
  BY <1>2, GrownState
<1>4. [thr[t].mem EXCEPT !.findings = k, !.next = n].next # "none"
  BY <1>2 DEF GraphState, Node
<1> QED
  BY <1>1, <1>3, <1>4, FinishType

LEMMA TypeInit == Init => TypeOK
BY IdleType, BoundsAssumption DEF Init, TypeOK, Process, Status, Sane, Submission, Idle

LEMMA TypeStep == TypeOK /\ [Next]_vars => TypeOK'
<1> SUFFICES ASSUME TypeOK, [Next]_vars PROVE TypeOK'
  OBVIOUS
<1> USE DEF row, store, tables, budget, ThreadsOK, ResumePoint, AnswerLeft,
           NeedsReview
<1>1. ASSUME NEW t \in Thread, NEW r \in Run, StartRun(t, r) PROVE TypeOK'
  <2>1. Sane([Idle EXCEPT !.pc = "input", !.run = r, !.kind = "start"])
    BY IdleType DEF Sane, Idle, ThreadState, Engaged
  <2> QED
    BY <1>1, <2>1, BecomesType DEF StartRun, TypeOK, Status
<1>2. ASSUME NEW t \in Thread, NEW r \in Run, ResumeInterrupted(t, r)
      PROVE TypeOK'
  <2>1. Sane([Idle EXCEPT !.pc = "load", !.run = r, !.kind = "resume"])
    BY IdleType DEF Sane, Idle, ThreadState, Engaged
  <2> QED
    BY <1>2, <2>1, BecomesType DEF ResumeInterrupted, TypeOK, Status
<1>3. ASSUME NEW t \in Thread, NEW r \in Run, NEW a \in Answer,
             SubmitDecisions(t, r, a)
      PROVE TypeOK'
  <2>1. [at |-> ckpt[r].next, ans |-> a] \in Submission
    BY DEF Submission, TypeOK, GraphState
  <2>2. Sane([Idle EXCEPT !.pc = "load", !.run = r, !.kind = "answer",
                          !.ans = a])
    BY IdleType DEF Sane, Idle, ThreadState, Engaged
  <2> QED
    BY <1>3, <2>1, <2>2, BecomesType DEF SubmitDecisions, TypeOK
<1>4. ASSUME NEW t \in Thread, InvokeInput(t) PROVE TypeOK'
  <2>1. /\ [EmptyState EXCEPT !.next = "ingest"] \in GraphState
        /\ [EmptyState EXCEPT !.next = "ingest"].next \in Node
    BY IdleType DEF GraphState, Node
  <2>2. Sane([thr[t] EXCEPT !.pc = "enter",
                            !.mem = [EmptyState EXCEPT !.next = "ingest"]])
    BY <1>4, <2>1, SaneThreads DEF InvokeInput, Sane, ThreadState, Engaged
  <2> QED
    BY <1>4, <2>1, <2>2, BecomesType DEF InvokeInput, TypeOK
<1>5. ASSUME NEW t \in Thread, Load(t) PROVE TypeOK'
  <2>1. thr[t].run \in Run
    BY <1>5, SaneThreads DEF Load, Sane, Engaged
  <2>2. ckpt[thr[t].run].next \in Node =>
          Sane([thr[t] EXCEPT !.pc = "enter", !.mem = ckpt[thr[t].run]])
    BY <2>1, SaneThreads DEF Sane, ThreadState, TypeOK, Engaged
  <2>3. ThreadsOK'
    BY <1>5, <2>2, IdleType, BecomesType DEF Load
  <2>4. status' \in [Run -> Status]
    BY <1>5, <2>1 DEF Load, StatusAfterError, TypeOK, Status
  <2> QED
    BY <1>5, <2>3, <2>4 DEF Load, TypeOK
<1>6. ASSUME NEW t \in Thread, Enter(t) PROVE TypeOK'
  <2>1. thr[t].run \in Run /\ thr[t].mem.next \in Node
    BY <1>6, SaneThreads DEF Enter, Sane, Engaged
  <2>2. Sane([thr[t] EXCEPT !.pc = "body"])
    BY <2>1, SaneThreads DEF Sane, ThreadState, Engaged
  <2> QED
    BY <1>6, <2>1, <2>2, BecomesType DEF Enter, TypeOK
<1>7. ASSUME NEW t \in Thread, NodeBody(t) PROVE TypeOK'
  <2>1. thr[t].pc = "body" /\ thr[t].run \in Run /\ thr[t].mem \in GraphState
    BY <1>7, SaneThreads
    DEF NodeBody, IngestBody, ClassifyBody, EscalateBody, ExtractBody,
        DetectBody, AdjudicateBody, ComposeBody, ExamineBody, VerifyBody,
        BlockedBody, GateBody, CommitBody, InBody, Sane, Engaged
  <2> DEFINE m == thr[t].mem
  <2>2. \A n \in Node \cup {"end"} :
          /\ [m EXCEPT !.next = n] \in GraphState
          /\ [m EXCEPT !.next = n].next # "none"
    BY <2>1 DEF GraphState, Node
  <2>3. CASE IngestBody(t)
    BY <2>1, <2>3, AddFindingsType DEF IngestBody, TypeOK, Node
  <2>4. CASE ClassifyBody(t)
    <3>1. ThreadsOK'
      BY <2>1, <2>2, <2>4, GrownState, FinishType DEF ClassifyBody, Node
    <3> QED
      BY <2>4, <3>1 DEF ClassifyBody, TypeOK
  <2>5. CASE EscalateBody(t)
    <3>1. m.next = "escalate" =>
            Sane([thr[t] EXCEPT !.pc = "park"])
      BY <2>1, SaneThreads DEF Sane, ThreadState, Engaged
    <3>2. ThreadsOK'
      BY <2>1, <2>2, <2>5, <3>1, FinishType, BecomesType
      DEF EscalateBody, InBody, Node
    <3> QED
      BY <2>5, <3>2 DEF EscalateBody, TypeOK
  <2>6. CASE ExtractBody(t)
    BY <2>1, <2>6, AddFindingsType DEF ExtractBody, TypeOK, Node
  <2>7. CASE DetectBody(t)
    <3>1. ThreadsOK'
      BY <2>1, <2>2, <2>7, FinishType DEF DetectBody, Node
    <3> QED
      BY <2>7, <3>1 DEF DetectBody, TypeOK
  <2>8. CASE AdjudicateBody(t)
    BY <2>1, <2>8, AddFindingsType DEF AdjudicateBody, TypeOK, Node
  <2>9. CASE ComposeBody(t)
    <3>1. ThreadsOK'
      BY <2>1, <2>2, <2>9, FinishType DEF ComposeBody, Node
    <3> QED
      BY <2>9, <3>1 DEF ComposeBody, TypeOK
  <2>10. CASE ExamineBody(t)
    BY <2>1, <2>10, AddFindingsType DEF ExamineBody, TypeOK, Node
  <2>11. CASE VerifyBody(t)
    <3>1. [m EXCEPT !.verified = "passed", !.next = AfterVerify("passed")]
            \in GraphState
      BY <2>1 DEF GraphState, AfterVerify, Node
    <3>2. ASSUME NEW k \in Atleast(m.findings)
          PROVE  [m EXCEPT !.verified = "failed", !.findings = k,
                           !.next = AfterVerify("failed")] \in GraphState
      <4>1. k \in 0..MaxFindings
        BY <2>1, BoundsAssumption DEF Atleast, GraphState
      <4> QED
        BY <2>1, <4>1 DEF GraphState, AfterVerify, Node
    <3>3. ThreadsOK'
      BY <2>1, <2>11, <3>1, <3>2, FinishType DEF VerifyBody, AfterVerify, GraphState
    <3> QED
      BY <2>1, <2>11, <3>3 DEF VerifyBody, TypeOK, Status
  <2>12. CASE BlockedBody(t)
    <3>1. ThreadsOK'
      BY <2>1, <2>2, <2>12, FinishType DEF BlockedBody
    <3> QED
      BY <2>1, <2>12, <3>1 DEF BlockedBody, TypeOK, Status
  <2>13. CASE GateBody(t)
    <3>1. m.next = "gate" => Sane([thr[t] EXCEPT !.pc = "park"])
      BY <2>1, SaneThreads DEF Sane, ThreadState, Engaged
    <3>2. /\ [m EXCEPT !.decisions = thr[t].ans, !.next = "commit"]
               \in GraphState
          /\ [m EXCEPT !.decisions = thr[t].ans, !.next = "commit"].next
               # "none"
      BY <2>1, SaneThreads DEF Sane, ThreadState, GraphState, Node
    <3>3. ThreadsOK'
      BY <2>1, <2>2, <2>13, <3>1, <3>2, FinishType, BecomesType
      DEF GateBody, InBody, Node
    <3>4. status' \in [Run -> Status] /\ stage' \in [Run -> Node \cup {NoStage}]
      BY <2>1, <2>13 DEF GateBody, TypeOK, Status
    <3> QED
      BY <2>13, <3>3, <3>4 DEF GateBody, TypeOK
  <2>14. CASE CommitBody(t)
    <3>1. ThreadsOK'
      BY <2>1, <2>2, <2>14, FinishType DEF CommitBody
    <3> QED
      BY <2>1, <2>14, <3>1, BatchType DEF CommitBody, TypeOK, Status
  <2> QED
    BY <1>7, <2>3, <2>4, <2>5, <2>6, <2>7, <2>8, <2>9, <2>10, <2>11, <2>12,
       <2>13, <2>14 DEF NodeBody
<1>8. ASSUME NEW t \in Thread, WriteCheckpoint(t) PROVE TypeOK'
  <2>1. thr[t].run \in Run /\ thr[t].mem \in GraphState /\ thr[t].mem.next # "none"
    BY <1>8, SaneThreads DEF WriteCheckpoint, Sane, Engaged
  <2>2. thr[t].mem.next # "end" =>
          Sane([thr[t] EXCEPT !.pc = "enter", !.ans = NoAnswer])
    BY <2>1, SaneThreads DEF Sane, ThreadState, GraphState, Engaged
  <2>3. ThreadsOK'
    BY <1>8, <2>2, IdleType, BecomesType DEF WriteCheckpoint
  <2> QED
    BY <1>8, <2>1, <2>3 DEF WriteCheckpoint, TypeOK
<1>9. ASSUME NEW t \in Thread, Park(t) PROVE TypeOK'
  <2>1. thr[t].run \in Run /\ thr[t].mem.next \in {"escalate", "gate"}
    BY <1>9, SaneThreads DEF Park, Sane, Engaged
  <2> QED
    BY <1>9, <2>1, IdleType, BecomesType DEF Park, TypeOK
<1>10. ASSUME NEW t \in Thread, Raise(t) PROVE TypeOK'
  <2>1. thr[t].run \in Run
    BY <1>10, SaneThreads DEF Raise, Sane, Engaged
  <2> QED
    BY <1>10, <2>1, IdleType, BecomesType
    DEF Raise, StatusAfterError, TypeOK, Status
<1>11. ASSUME NEW p \in Process, Crash(p) PROVE TypeOK'
  BY <1>11, IdleType DEF Crash, TypeOK, Sane
<1>12. CASE ApiBoot
  BY <1>12 DEF ApiBoot, Orphaned, TypeOK, Status
<1>13. CASE McpBoot
  BY <1>13 DEF McpBoot, TypeOK
<1>14. CASE UNCHANGED vars
  BY <1>14 DEF vars, TypeOK, Engaged
<1> QED
  BY <1>1, <1>2, <1>3, <1>4, <1>5, <1>6, <1>7, <1>8, <1>9, <1>10, <1>11,
     <1>12, <1>13, <1>14 DEF Next, Call, Proceed, Advance

\* Every variable keeps its type, for any number of runs, threads, crashes
\* and errors.
THEOREM TypeCorrect == Spec => []TypeOK
  BY TypeInit, TypeStep, PTL DEF Spec

-----------------------------------------------------------------------------
(***************************************************************************)
(* The gate.                                                               *)
(***************************************************************************)

\* Submissions only accumulate.
Grows == \A r \in Run : submitted[r] \subseteq submitted'[r]

\* More submissions never make a trusted state or an honest thread less so.
LEMMA TrustGrows ==
  ASSUME NEW m, NEW g, NEW h, g \subseteq h, Trusted(m, g)
  PROVE  Trusted(m, h)
BY DEF Trusted, Answered

LEMMA HonestGrows ==
  ASSUME TypeOK, Grows, NEW s, Sane(s), Honest(s, submitted)
  PROVE  Honest(s, submitted')
BY DEF Honest, Trusted, Answered, Grows, Sane, Engaged

\* Moving one thread to an honest state keeps every thread honest.
LEMMA BecomesHonest ==
  ASSUME TypeOK, GateInv, Grows, NEW t \in Thread, NEW s,
         Becomes(t, s), Honest(s, submitted')
  PROVE  \A u \in Thread : Honest(thr'[u], submitted')
<1> SUFFICES ASSUME NEW u \in Thread PROVE Honest(thr'[u], submitted')
  OBVIOUS
<1>1. CASE u = t
  BY <1>1 DEF Becomes, TypeOK
<1>2. CASE u # t
  <2>1. thr'[u] = thr[u]
    BY <1>2 DEF Becomes, TypeOK
  <2>2. Honest(thr[u], submitted') 
    BY SaneThreads, HonestGrows DEF GateInv
  <2> QED
    BY <2>1, <2>2
<1> QED
  BY <1>1, <1>2

LEMMA IdleHonest == ASSUME NEW g PROVE Honest(Idle, g)
BY DEF Honest, Idle

LEMMA GateInit == Init => GateInv
<1> SUFFICES ASSUME Init PROVE GateInv
  OBVIOUS
<1>1. \A r \in Run : Trusted(ckpt[r], submitted[r])
  BY DEF Init, EmptyState, Trusted
<1>2. \A t \in Thread : Honest(thr[t], submitted)
  BY IdleHonest DEF Init
<1> QED
  BY <1>1, <1>2 DEF Init, GateInv, OnlyVerifiedIsCommitted,
     OnlyReviewedIsCommitted, GateShowsVerifiedFindings

\* A step that leaves checkpoints, interrupts, submissions and committed
\* batches alone keeps the invariant as long as its thread stays honest.
LEMMA QuietStep ==
  ASSUME TypeOK, GateInv, NEW t \in Thread, NEW s,
         Becomes(t, s), Honest(s, submitted),
         UNCHANGED <<ckpt, pend, submitted, recorded>>
  PROVE  GateInv'
<1>1. \A u \in Thread : Honest(thr'[u], submitted')
  BY BecomesHonest DEF Grows
<1> QED
  BY <1>1 DEF GateInv, OnlyVerifiedIsCommitted, OnlyReviewedIsCommitted,
     GateShowsVerifiedFindings

\* A node whose output is trusted, and that commits nothing, keeps the
\* invariant.
LEMMA QuietFinish ==
  ASSUME TypeOK, GateInv, NEW t \in Thread, NEW m,
         thr[t].pc = "body", Finish(t, m),
         Trusted(m, submitted[thr[t].run]),
         UNCHANGED <<ckpt, pend, submitted, recorded>>
  PROVE  GateInv'
<1> DEFINE s == [thr[t] EXCEPT !.pc = "ckpt", !.mem = m]
<1>1. s.pc = "ckpt" /\ s.mem = m /\ s.run = thr[t].run /\ s.ans = thr[t].ans
  BY SaneThreads DEF Sane, ThreadState
<1>2. Honest(s, submitted)
  BY <1>1 DEF Honest, GateInv
<1> QED
  BY <1>2, QuietStep DEF Finish

\* A node before the gate adds findings and nothing else.
LEMMA QuietFindings ==
  ASSUME TypeOK, GateInv, NEW t \in Thread, NEW n \in Node \ {"gate", "commit"},
         thr[t].pc = "body", AddFindings(t, n),
         UNCHANGED <<ckpt, pend, submitted, recorded>>
  PROVE  GateInv'
<1>1. PICK k \in Atleast(thr[t].mem.findings) :
        Finish(t, [thr[t].mem EXCEPT !.findings = k, !.next = n])
  BY DEF AddFindings
<1> DEFINE m == [thr[t].mem EXCEPT !.findings = k, !.next = n]
<1>2. m.next = n
  BY SaneThreads DEF GraphState
<1>3. Trusted(m, submitted[thr[t].run])
  BY <1>2 DEF Trusted
<1> QED
  BY <1>1, <1>3, QuietFinish

LEMMA GateStep == TypeOK /\ GateInv /\ [Next]_vars => GateInv'
<1> SUFFICES ASSUME TypeOK, GateInv, [Next]_vars PROVE GateInv'
  OBVIOUS
<1> USE DEF row, store, tables, budget, ResumePoint, AnswerLeft, NeedsReview
<1>1. ASSUME NEW t \in Thread, NEW r \in Run, StartRun(t, r) PROVE GateInv'
  <2>1. Honest([Idle EXCEPT !.pc = "input", !.run = r, !.kind = "start"],
               submitted)
    BY DEF Honest, Trusted, Idle, EmptyState
  <2> QED
    BY <1>1, <2>1, QuietStep DEF StartRun
<1>2. ASSUME NEW t \in Thread, NEW r \in Run, ResumeInterrupted(t, r)
      PROVE GateInv'
  <2>1. Honest([Idle EXCEPT !.pc = "load", !.run = r, !.kind = "resume"],
               submitted)
    BY DEF Honest, Trusted, Idle, EmptyState
  <2> QED
    BY <1>2, <2>1, QuietStep DEF ResumeInterrupted
<1>3. ASSUME NEW t \in Thread, NEW r \in Run, NEW a \in Answer,
             SubmitDecisions(t, r, a)
      PROVE GateInv'
  <2> DEFINE s == [Idle EXCEPT !.pc = "load", !.run = r, !.kind = "answer",
                               !.ans = a]
  <2>1. Grows
    BY <1>3 DEF SubmitDecisions, Grows, TypeOK
  <2>2. Answered(submitted'[r], a)
    <3>1. [at |-> ckpt[r].next, ans |-> a] \in submitted'[r]
      BY <1>3 DEF SubmitDecisions, TypeOK
    <3> QED
      BY <3>1 DEF Answered
  <2>3. Honest(s, submitted')
    BY <2>2 DEF Honest, Trusted, Idle, EmptyState
  <2>4. \A u \in Thread : Honest(thr'[u], submitted')
    BY <1>3, <2>1, <2>3, BecomesHonest DEF SubmitDecisions
  <2>5. \A q \in Run : Trusted(ckpt'[q], submitted'[q])
    BY <1>3, <2>1, TrustGrows DEF SubmitDecisions, GateInv, Grows
  <2>6. OnlyReviewedIsCommitted'
    BY <1>3, <2>1 DEF SubmitDecisions, GateInv, OnlyReviewedIsCommitted, Grows
  <2> QED
    BY <1>3, <2>4, <2>5, <2>6
    DEF SubmitDecisions, GateInv, OnlyVerifiedIsCommitted,
        GateShowsVerifiedFindings
<1>4. ASSUME NEW t \in Thread, InvokeInput(t) PROVE GateInv'
  <2> DEFINE first == [EmptyState EXCEPT !.next = "ingest"]
             s == [thr[t] EXCEPT !.pc = "enter", !.mem = first]
  <2>1. first.next = "ingest" /\ thr[t].run \in Run
    BY <1>4, SaneThreads DEF InvokeInput, EmptyState, Sane, Engaged
  <2>2. \A g : Trusted(first, g)
    BY <2>1 DEF Trusted
  <2>3. Honest(s, submitted)
    <3>1. s.run = thr[t].run /\ s.ans = thr[t].ans /\ s.mem = first
            /\ s.pc = "enter"
      BY SaneThreads DEF Sane, ThreadState
    <3> QED
      BY <1>4, <3>1, <2>2 DEF InvokeInput, Honest, GateInv
  <2>4. \A u \in Thread : Honest(thr'[u], submitted')
    BY <1>4, <2>3, BecomesHonest DEF InvokeInput, Grows
  <2>5. \A q \in Run : Trusted(ckpt'[q], submitted'[q])
    BY <1>4, <2>1, <2>2 DEF InvokeInput, GateInv, TypeOK
  <2>6. GateShowsVerifiedFindings'
    BY <1>4, <2>1 DEF InvokeInput, GateInv, GateShowsVerifiedFindings, TypeOK
  <2> QED
    BY <1>4, <2>4, <2>5, <2>6
    DEF InvokeInput, GateInv, OnlyVerifiedIsCommitted, OnlyReviewedIsCommitted
<1>5. ASSUME NEW t \in Thread, Load(t) PROVE GateInv'
  <2> DEFINE r == thr[t].run
             s == [thr[t] EXCEPT !.pc = "enter", !.mem = ckpt[r]]
  <2>1. r \in Run
    BY <1>5, SaneThreads DEF Load, Sane, Engaged
  <2>2. Honest(s, submitted)
    <3>1. s.run = r /\ s.ans = thr[t].ans /\ s.mem = ckpt[r] /\ s.pc = "enter"
      BY SaneThreads DEF Sane, ThreadState
    <3> QED
      BY <1>5, <2>1, <3>1 DEF Load, Honest, GateInv
  <2> QED
    BY <1>5, <2>2, IdleHonest, QuietStep DEF Load
<1>6. ASSUME NEW t \in Thread, Enter(t) PROVE GateInv'
  <2> DEFINE s == [thr[t] EXCEPT !.pc = "body"]
  <2>1. s.run = thr[t].run /\ s.ans = thr[t].ans /\ s.mem = thr[t].mem
          /\ s.pc = "body"
    BY SaneThreads DEF Sane, ThreadState
  <2>2. Honest(s, submitted)
    BY <1>6, <2>1 DEF Enter, Honest, GateInv
  <2> QED
    BY <1>6, <2>2, QuietStep DEF Enter
<1>7. ASSUME NEW t \in Thread, NodeBody(t) PROVE GateInv'
  <2>1. /\ thr[t].pc = "body"
        /\ thr[t].run \in Run
        /\ thr[t].mem \in GraphState
        /\ thr[t].ans \in Answer \cup {NoAnswer}
    BY <1>7, SaneThreads
    DEF NodeBody, IngestBody, ClassifyBody, EscalateBody, ExtractBody,
        DetectBody, AdjudicateBody, ComposeBody, ExamineBody, VerifyBody,
        BlockedBody, GateBody, CommitBody, InBody, Sane, Engaged, ThreadState
  <2> DEFINE m == thr[t].mem
             r == thr[t].run
             parked == [thr[t] EXCEPT !.pc = "park"]
  <2>2. Honest(thr[t], submitted) /\ Trusted(m, submitted[r])
    BY <2>1 DEF GateInv, Honest
  <2>3. \A n \in Node \ {"gate", "commit"} : \A g :
          Trusted([m EXCEPT !.next = n], g)
    BY <2>1 DEF Trusted, GraphState
  <2>4. \A g : Trusted([m EXCEPT !.next = "end"], g)
    BY <2>1 DEF Trusted, GraphState
  <2>5. /\ parked.pc = "park" /\ parked.mem = m
        /\ parked.run = r /\ parked.ans = thr[t].ans
    BY SaneThreads DEF Sane, ThreadState
  <2>6. CASE IngestBody(t)
    BY <2>1, <2>6, QuietFindings DEF IngestBody, Node
  <2>7. CASE ClassifyBody(t)
    <3>1. ASSUME NEW k, Finish(t, [m EXCEPT !.findings = k, !.next = "escalate"])
          PROVE  GateInv'
      <4>1. Trusted([m EXCEPT !.findings = k, !.next = "escalate"],
                    submitted[r])
        BY <2>1 DEF Trusted, GraphState
      <4> QED
        BY <2>1, <2>7, <3>1, <4>1, QuietFinish DEF ClassifyBody
    <3>2. CASE Finish(t, [m EXCEPT !.next = "extract"])
      <4>1. Trusted([m EXCEPT !.next = "extract"], submitted[r])
        BY <2>3 DEF Node
      <4> QED
        BY <2>1, <2>7, <3>2, <4>1, QuietFinish DEF ClassifyBody
    <3> QED
      BY <2>7, <3>1, <3>2 DEF ClassifyBody
  <2>8. CASE EscalateBody(t)
    <3>1. CASE Becomes(t, parked)
      <4>1. Honest(parked, submitted)
        BY <2>1, <2>2, <2>5, <2>8 DEF EscalateBody, InBody, Honest
      <4> QED
        BY <2>8, <3>1, <4>1, QuietStep DEF EscalateBody
    <3>2. CASE Finish(t, [m EXCEPT !.next = "extract"])
      <4>1. Trusted([m EXCEPT !.next = "extract"], submitted[r])
        BY <2>3 DEF Node
      <4> QED
        BY <2>1, <2>8, <3>2, <4>1, QuietFinish DEF EscalateBody
    <3> QED
      BY <2>8, <3>1, <3>2 DEF EscalateBody
  <2>9. CASE ExtractBody(t)
    BY <2>1, <2>9, QuietFindings DEF ExtractBody, Node
  <2>10. CASE DetectBody(t)
    <3>1. PICK n \in {"adjudicate", "compose"} :
            Finish(t, [m EXCEPT !.next = n])
      BY <2>10 DEF DetectBody
    <3>2. Trusted([m EXCEPT !.next = n], submitted[r])
      BY <2>3 DEF Node
    <3> QED
      BY <2>1, <2>10, <3>1, <3>2, QuietFinish DEF DetectBody
  <2>11. CASE AdjudicateBody(t)
    BY <2>1, <2>11, QuietFindings DEF AdjudicateBody, Node
  <2>12. CASE ComposeBody(t)
    <3>1. Trusted([m EXCEPT !.next = "examine"], submitted[r])
      BY <2>3 DEF Node
    <3> QED
      BY <2>1, <2>12, <3>1, QuietFinish DEF ComposeBody
  <2>13. CASE ExamineBody(t)
    BY <2>1, <2>13, QuietFindings DEF ExamineBody, Node
  <2>14. CASE VerifyBody(t)
    <3>1. \A g : Trusted([m EXCEPT !.verified = "passed", !.next = "gate"], g)
      BY <2>1 DEF Trusted, GraphState
    <3>2. \A k, g : Trusted([m EXCEPT !.verified = "failed", !.findings = k,
                                      !.next = "blocked"], g)
      BY <2>1 DEF Trusted, GraphState
    <3> QED
      BY <2>1, <2>14, <3>1, <3>2, QuietFinish DEF VerifyBody, AfterVerify
  <2>15. CASE BlockedBody(t)
    BY <2>1, <2>4, <2>15, QuietFinish DEF BlockedBody
  <2>16. CASE GateBody(t)
    <3>1. m.next = "gate" /\ m.verified = "passed"
      BY <2>2, <2>16 DEF GateBody, InBody, Trusted
    <3>2. CASE ~(m.findings > 0) /\ Finish(t, [m EXCEPT !.next = "commit"])
      <4>1. Trusted([m EXCEPT !.next = "commit"], submitted[r])
        BY <2>1, <3>1, <3>2 DEF Trusted, GraphState
      <4> QED
        BY <2>1, <2>16, <3>2, <4>1, QuietFinish DEF GateBody
    <3>3. CASE m.findings > 0 /\ Becomes(t, parked)
      <4>1. Honest(parked, submitted)
        BY <2>1, <2>2, <2>5, <3>3 DEF Honest
      <4> QED
        BY <2>16, <3>3, <4>1, QuietStep DEF GateBody
    <3>4. CASE /\ thr[t].ans # NoAnswer
               /\ Finish(t, [m EXCEPT !.decisions = thr[t].ans,
                                      !.next = "commit"])
      <4>1. Answered(submitted[r], thr[t].ans)
        BY <2>1, <2>2, <3>4 DEF Honest
      <4>2. Trusted([m EXCEPT !.decisions = thr[t].ans, !.next = "commit"],
                    submitted[r])
        BY <2>1, <3>1, <4>1 DEF Trusted, GraphState
      <4> QED
        BY <2>1, <2>16, <3>4, <4>2, QuietFinish DEF GateBody
    <3> QED
      BY <2>16, <3>2, <3>3, <3>4 DEF GateBody
  <2>17. CASE CommitBody(t)
    <3> DEFINE b == BatchOf(m)
               done == [m EXCEPT !.next = "end"]
               s == [thr[t] EXCEPT !.pc = "ckpt", !.mem = done]
    <3>1. /\ b.verified = m.verified /\ b.findings = m.findings
          /\ b.decisions = m.decisions
      BY DEF BatchOf
    <3>2. /\ b.verified = "passed"
          /\ b.findings > 0 => Answered(submitted[r], b.decisions)
      BY <2>2, <2>17, <3>1 DEF CommitBody, InBody, Trusted
    <3>3. Honest(s, submitted)
      <4>1. s.pc = "ckpt" /\ s.mem = done /\ s.run = r /\ s.ans = thr[t].ans
        BY SaneThreads DEF Sane, ThreadState
      <4> QED
        BY <2>1, <2>2, <2>4, <4>1 DEF Honest
    <3>4. \A u \in Thread : Honest(thr'[u], submitted')
      BY <2>17, <3>3, BecomesHonest DEF CommitBody, Finish, Grows
    <3>5. \A q \in Run : \A c \in recorded'[q] :
            c \in recorded[q] \/ (q = r /\ c = b)
      BY <2>1, <2>17 DEF CommitBody, TypeOK
    <3>6. OnlyVerifiedIsCommitted' /\ OnlyReviewedIsCommitted'
      BY <2>17, <3>2, <3>5 DEF CommitBody, GateInv, OnlyVerifiedIsCommitted,
         OnlyReviewedIsCommitted, Answered
    <3> QED
      BY <2>17, <3>4, <3>6
      DEF CommitBody, GateInv, GateShowsVerifiedFindings
  <2> QED
    BY <1>7, <2>6, <2>7, <2>8, <2>9, <2>10, <2>11, <2>12, <2>13, <2>14,
       <2>15, <2>16, <2>17 DEF NodeBody
<1>8. ASSUME NEW t \in Thread, WriteCheckpoint(t) PROVE GateInv'
  <2> DEFINE r == thr[t].run
             s == [thr[t] EXCEPT !.pc = "enter", !.ans = NoAnswer]
  <2>1. r \in Run /\ Trusted(thr[t].mem, submitted[r])
    BY <1>8, SaneThreads DEF WriteCheckpoint, Sane, Engaged, GateInv, Honest
  <2>2. Honest(s, submitted)
    <3>1. s.run = r /\ s.ans = NoAnswer /\ s.mem = thr[t].mem /\ s.pc = "enter"
      BY SaneThreads DEF Sane, ThreadState
    <3> QED
      BY <2>1, <3>1 DEF Honest
  <2>3. \A u \in Thread : Honest(thr'[u], submitted')
    BY <1>8, <2>2, IdleHonest, BecomesHonest DEF WriteCheckpoint, Grows
  <2>4. \A q \in Run : Trusted(ckpt'[q], submitted'[q])
    BY <1>8, <2>1 DEF WriteCheckpoint, GateInv, TypeOK
  <2>5. GateShowsVerifiedFindings'
    BY <1>8, <2>1 DEF WriteCheckpoint, GateInv, GateShowsVerifiedFindings, TypeOK
  <2> QED
    BY <1>8, <2>3, <2>4, <2>5 DEF WriteCheckpoint, GateInv,
       OnlyVerifiedIsCommitted, OnlyReviewedIsCommitted
<1>9. ASSUME NEW t \in Thread, Park(t) PROVE GateInv'
  <2> DEFINE r == thr[t].run
             m == thr[t].mem
  <2>1. /\ r \in Run
        /\ Trusted(m, submitted[r])
        /\ m.next = "gate" => m.findings > 0
    BY <1>9, SaneThreads DEF Park, Sane, Engaged, GateInv, Honest
  <2>2. \A u \in Thread : Honest(thr'[u], submitted')
    BY <1>9, IdleHonest, BecomesHonest DEF Park, Grows
  <2>3. GateShowsVerifiedFindings'
    BY <1>9, <2>1 DEF Park, GateInv, GateShowsVerifiedFindings, Trusted, TypeOK
  <2> QED
    BY <1>9, <2>2, <2>3 DEF Park, GateInv, OnlyVerifiedIsCommitted,
       OnlyReviewedIsCommitted
<1>10. ASSUME NEW t \in Thread, Raise(t) PROVE GateInv'
  BY <1>10, IdleHonest, QuietStep DEF Raise
<1>11. ASSUME NEW p \in Process, Crash(p) PROVE GateInv'
  <2>1. \A u \in Thread : Honest(thr'[u], submitted')
    BY <1>11, IdleHonest DEF Crash, GateInv
  <2> QED
    BY <1>11, <2>1 DEF Crash, GateInv, OnlyVerifiedIsCommitted,
       OnlyReviewedIsCommitted, GateShowsVerifiedFindings
<1>12. CASE ApiBoot
  BY <1>12 DEF ApiBoot, GateInv, OnlyVerifiedIsCommitted,
     OnlyReviewedIsCommitted, GateShowsVerifiedFindings
<1>13. CASE McpBoot
  BY <1>13 DEF McpBoot, GateInv, OnlyVerifiedIsCommitted,
     OnlyReviewedIsCommitted, GateShowsVerifiedFindings
<1>14. CASE UNCHANGED vars
  BY <1>14 DEF vars, GateInv, OnlyVerifiedIsCommitted,
     OnlyReviewedIsCommitted, GateShowsVerifiedFindings
<1> QED
  BY <1>1, <1>2, <1>3, <1>4, <1>5, <1>6, <1>7, <1>8, <1>9, <1>10, <1>11,
     <1>12, <1>13, <1>14 DEF Next, Call, Proceed, Advance

\* The inductive invariant of the gate.
THEOREM GateSafe == Spec => []GateInv
<1>1. TypeOK /\ GateInv /\ [Next]_vars => TypeOK' /\ GateInv'
  BY TypeStep, GateStep
<1> QED
  BY <1>1, TypeInit, GateInit, PTL DEF Spec

\* No crash, resume or duplicate driver gets unverified work committed.
THEOREM CommitsAreVerified == Spec => []OnlyVerifiedIsCommitted
BY GateSafe, PTL DEF GateInv

\* ... nor findings nobody submitted a verdict for.
THEOREM CommitsAreReviewed == Spec => []OnlyReviewedIsCommitted
BY GateSafe, PTL DEF GateInv

\* What a reviewer is shown passed verification and is not empty.
THEOREM GateShowsOnlyVerified == Spec => []GateShowsVerifiedFindings
BY GateSafe, PTL DEF GateInv

-----------------------------------------------------------------------------
(***************************************************************************)
(* The run implements the gate's contract.                                 *)
(***************************************************************************)

\* A decision map that was submitted rejects exactly the verdicts it names.
LEMMA VerdictsFollow ==
  ASSUME NEW m \in GraphState, m.decisions \in Answer
  PROVE  Contract!RejectsExactly(BatchOf(m))
<1> SUFFICES ASSUME NEW i \in 1..m.findings
             PROVE  BatchOf(m).verdicts[i] = "rejected"
                      <=> m.decisions[i] = "rejected"
  BY DEF Contract!RejectsExactly, BatchOf
<1>1. i \in 1..MaxFindings
  BY BoundsAssumption DEF GraphState
<1>2. m.decisions[i] \in Reply /\ m.decisions # NoAnswer
  BY <1>1, AnswerAssumption
<1>3. BatchOf(m).verdicts[i] = VerdictOf(m.decisions, i)
  BY DEF BatchOf
<1> QED
  BY <1>2, <1>3 DEF VerdictOf, Reply

LEMMA ContractInit == Init => Contract!Init
BY DEF Init, Contract!Init

LEMMA ContractStep ==
  TypeOK /\ GateInv /\ [Next]_vars
    => [Contract!Next]_<<submitted, recorded>>
<1> SUFFICES ASSUME TypeOK, GateInv, [Next]_vars
             PROVE  Contract!Next \/ UNCHANGED <<submitted, recorded>>
  OBVIOUS
<1> USE DEF row, store, tables, budget
<1>1. ASSUME NEW t \in Thread, NEW r \in Run, NEW a \in Answer,
             SubmitDecisions(t, r, a)
      PROVE  Contract!Next
  <2>1. [at |-> ckpt[r].next, ans |-> a] \in Submission
    BY DEF Submission, TypeOK, GraphState
  <2> QED
    BY <1>1, <2>1 DEF SubmitDecisions, Contract!Next, Contract!Submit
<1>2. ASSUME NEW t \in Thread, CommitBody(t)
      PROVE  Contract!Next
  <2> DEFINE m == thr[t].mem
             r == thr[t].run
             b == BatchOf(m)
  <2>1. r \in Run /\ m \in GraphState
    BY <1>2, SaneThreads DEF CommitBody, InBody, Sane, Engaged
  <2>2. /\ m.next = "commit"
        /\ Trusted(m, submitted[r])
    BY <1>2 DEF CommitBody, InBody, GateInv, Honest
  <2>3. b \in Batch /\ b.verified = "passed"
    BY <2>1, <2>2, BatchType DEF BatchOf, Trusted
  <2>4. ASSUME b.findings > 0
        PROVE  Contract!Reviewed(r, b) /\ Contract!RejectsExactly(b)
    <3>1. PICK s \in submitted[r] : s.ans = m.decisions
      BY <2>2, <2>4 DEF BatchOf, Trusted, Answered
    <3>2. m.decisions \in Answer
      BY <2>1, <3>1 DEF TypeOK, Submission
    <3> QED
      BY <2>1, <3>1, <3>2, VerdictsFollow DEF Contract!Reviewed, BatchOf
  <2>5. recorded' = [recorded EXCEPT ![r] = @ \cup {b}]
          /\ UNCHANGED submitted
    BY <1>2 DEF CommitBody
  <2> QED
    BY <2>1, <2>3, <2>4, <2>5 DEF Contract!Next, Contract!Record
<1>3. ASSUME NEW t \in Thread, Advance(t), ~CommitBody(t)
      PROVE  UNCHANGED <<submitted, recorded>>
  BY <1>3
  DEF Advance, InvokeInput, Load, Enter, NodeBody, WriteCheckpoint, Park,
      IngestBody, ClassifyBody, EscalateBody, ExtractBody, DetectBody,
      AdjudicateBody, ComposeBody, ExamineBody, VerifyBody, BlockedBody,
      GateBody
<1>4. ASSUME NEW t \in Thread, NEW r \in Run,
             StartRun(t, r) \/ ResumeInterrupted(t, r) \/ Raise(t)
      PROVE  UNCHANGED <<submitted, recorded>>
  BY <1>4 DEF StartRun, ResumeInterrupted, Raise
<1>5. ASSUME NEW t \in Thread, Raise(t)
      PROVE  UNCHANGED <<submitted, recorded>>
  BY <1>5 DEF Raise
<1>6. ASSUME NEW p \in Process, Crash(p)
      PROVE  UNCHANGED <<submitted, recorded>>
  BY <1>6 DEF Crash
<1>7. CASE ApiBoot \/ McpBoot \/ UNCHANGED vars
  BY <1>7 DEF ApiBoot, McpBoot, vars
<1> QED
  BY <1>1, <1>2, <1>3, <1>4, <1>5, <1>6, <1>7 DEF Next, Call, Proceed

\* Every behaviour of the runs, with all their crashes, resumes and duplicate
\* drivers, is a behaviour of the gate's contract.
THEOREM RunsKeepTheContract == Spec => KeepsTheContract
<1>1. TypeOK /\ GateInv /\ [Next]_vars
        => [Contract!Next]_<<submitted, recorded>>
  BY ContractStep
<1>2. Spec => []TypeOK /\ []GateInv
  BY TypeCorrect, GateSafe
<1> QED
  BY <1>1, <1>2, ContractInit, PTL DEF Spec, KeepsTheContract, Contract!Spec

-----------------------------------------------------------------------------
(***************************************************************************)
(* The row and the checkpoint, while one thread at a time drives a run.    *)
(***************************************************************************)

\* The edges of the graph.
Edge ==
  {<<"ingest", "classify">>, <<"classify", "extract">>,
   <<"classify", "escalate">>, <<"escalate", "extract">>,
   <<"extract", "detect_conflicts">>, <<"detect_conflicts", "adjudicate">>,
   <<"detect_conflicts", "compose">>, <<"adjudicate", "compose">>,
   <<"compose", "examine">>, <<"examine", "verify">>, <<"verify", "gate">>,
   <<"verify", "blocked">>, <<"gate", "commit">>, <<"commit", "end">>,
   <<"blocked", "end">>}

\* Verdicts that go with m were submitted to the review question.
Reviewed(m, given) ==
  m.next = "commit" /\ m.findings > 0 => [at |-> "gate", ans |-> m.decisions] \in given

\* What the row says, given where the checkpoint is.
RowInv(r) ==
  /\ status[r] = "absent" => ckpt[r].next = "none"
  /\ status[r] = "completed" => commits[r] > 0
  /\ commits[r] > 0 => ckpt[r].next \in {"commit", "end"}
  /\ status[r] = "awaiting_review" =>
       commits[r] = 0 /\ ckpt[r].next \in {"gate", "commit"}
  /\ status[r] = "failed" =>
       /\ commits[r] = 0
       /\ ckpt[r].next \in {"verify", "blocked", "end"}
       /\ ckpt[r].next = "verify" => ~sound[r]
  /\ status[r] \in {"running", "interrupted"} => ckpt[r].next # "end"
  /\ Reviewed(ckpt[r], submitted[r])
  /\ \A b \in recorded[r] :
       b.findings > 0 => [at |-> "gate", ans |-> b.decisions] \in submitted[r]

\* What a driver holds, given what its run has come to.
Waiting(t) ==
  LET r == thr[t].run
      m == thr[t].mem
  IN  /\ <<ckpt[r].next, m.next>> \in Edge
      /\ Reviewed(m, submitted[r])
      /\ ckpt[r].next = "verify" /\ m.next = "gate" => sound[r]
      /\ ckpt[r].next = "commit" => status[r] = "completed"
      /\ ckpt[r].next = "blocked" => status[r] = "failed"

DriverInv(t) ==
  LET r == thr[t].run
      s == thr[t]
  IN  /\ s.pc = "input" =>
           ckpt[r].next = "none" /\ status[r] # "absent" /\ s.ans = NoAnswer
      /\ s.pc \in {"enter", "body", "park"} => s.mem = ckpt[r]
      /\ s.pc \in {"load", "enter", "body"} /\ s.ans # NoAnswer =>
           [at |-> ckpt[r].next, ans |-> s.ans] \in submitted[r]
      /\ s.pc = "ckpt" => Waiting(t)

StoryInv ==
  /\ \A r \in Run : RowInv(r)
  /\ \A t \in Thread : DriverInv(t)

\* What the story of run q is told from is unchanged.
SameRun(q) ==
  /\ status'[q] = status[q] /\ ckpt'[q] = ckpt[q]
  /\ sound'[q] = sound[q] /\ commits'[q] = commits[q]
  /\ recorded'[q] = recorded[q] /\ submitted'[q] = submitted[q]

LEMMA IdleStory ==
  ASSUME NEW t, thr[t].pc = "idle"
  PROVE  DriverInv(t)
BY DEF DriverInv

LEMMA StoryInit == Init => StoryInv
<1> SUFFICES ASSUME Init PROVE StoryInv
  OBVIOUS
<1>1. ASSUME NEW r \in Run PROVE RowInv(r)
  BY DEF Init, RowInv, Reviewed, EmptyState
<1>2. ASSUME NEW t \in Thread PROVE DriverInv(t)
  BY IdleStory DEF Init, Idle
<1> QED
  BY <1>1, <1>2 DEF StoryInv

\* A step of the only driver of a run is judged by that run and that thread.
LEMMA DriverStep ==
  ASSUME TypeOK, StoryInv, OneDriver, OneDriver',
         NEW t \in Thread, NEW r \in Run, NEW s, Becomes(t, s),
         Drives(t, r) \/ Drives(t, r)',
         \A q \in Run \ {r} : SameRun(q),
         RowInv(r)', DriverInv(t)'
  PROVE  StoryInv'
<1>1. ASSUME NEW q \in Run PROVE RowInv(q)'
  <2>1. CASE q = r
    BY <2>1
  <2>2. CASE q # r
    <3>1. SameRun(q) /\ RowInv(q)
      BY <2>2 DEF StoryInv
    <3> QED
      BY <3>1 DEF SameRun, RowInv, Reviewed
  <2> QED
    BY <2>1, <2>2
<1>2. ASSUME NEW u \in Thread PROVE DriverInv(u)'
  <2>1. CASE u = t
    BY <2>1
  <2>2. CASE u # t
    <3>1. thr'[u] = thr[u]
      BY <2>2 DEF Becomes, TypeOK
    <3>2. CASE thr[u].pc = "idle"
      BY <3>1, <3>2 DEF DriverInv
    <3>3. CASE thr[u].pc # "idle"
      <4>1. thr[u].run \in Run
        BY <3>3, SaneThreads DEF Sane, Engaged
      <4>2. thr[u].run # r
        BY <2>2, <3>1, <3>3 DEF Drives, OneDriver
      <4>3. SameRun(thr[u].run) /\ DriverInv(u)
        BY <4>1, <4>2 DEF StoryInv
      <4> QED
        BY <3>1, <4>3 DEF SameRun, DriverInv, Waiting, Reviewed
    <3> QED
      BY <3>2, <3>3
  <2> QED
    BY <2>1, <2>2
<1> QED
  BY <1>1, <1>2 DEF StoryInv

\* A node that only hands on.
LEMMA HandOn ==
  ASSUME TypeOK, StoryInv, OneDriver, OneDriver',
         NEW t \in Thread, NEW m \in GraphState, thr[t].pc = "body",
         Finish(t, m),
         <<thr[t].mem.next, m.next>> \in Edge,
         m.next # "end",
         Reviewed(m, submitted[thr[t].run]),
         thr[t].mem.next = "verify" /\ m.next = "gate" => sound[thr[t].run],
         UNCHANGED <<status, ckpt, sound, commits, recorded, submitted>>
  PROVE  StoryInv'
<1>0. PICK r \in Run : r = thr[t].run
  BY SaneThreads DEF Sane, Engaged
<1> DEFINE s == [thr[t] EXCEPT !.pc = "ckpt", !.mem = m]
<1>1. s.pc = "ckpt" /\ s.mem = m /\ s.run = r
  BY <1>0, SaneThreads DEF Sane, ThreadState
<1>2. RowInv(r) /\ thr[t].mem = ckpt[r]
  BY <1>0 DEF StoryInv, DriverInv
<1>3. Becomes(t, s) /\ thr'[t] = s
  BY DEF Finish, Becomes, TypeOK
<1> HIDE DEF s
<1>4. RowInv(r)'
  BY <1>2 DEF RowInv, Reviewed
<1>5. DriverInv(t)'
  <2>1. Waiting(t)'
    BY <1>0, <1>1, <1>2, <1>3 DEF Waiting, Reviewed, Edge
  <2> QED
    BY <1>1, <1>3, <2>1 DEF DriverInv
<1>6. Drives(t, r)
  BY <1>0 DEF Drives
<1> QED
  BY <1>1, <1>3, <1>4, <1>5, <1>6, DriverStep DEF SameRun

LEMMA StoryBody ==
  ASSUME TypeOK, StoryInv, OneDriver, OneDriver', NEW t \in Thread, NodeBody(t)
  PROVE  StoryInv'
<1>1. /\ thr[t].pc = "body" /\ thr[t].mem \in GraphState /\ thr[t].mem.next \in Node
      /\ thr[t] \in ThreadState
  BY SaneThreads
  DEF NodeBody, IngestBody, ClassifyBody, EscalateBody, ExtractBody,
      DetectBody, AdjudicateBody, ComposeBody, ExamineBody, VerifyBody,
      BlockedBody, GateBody, CommitBody, InBody, Sane, Engaged
<1>2. PICK r \in Run : r = thr[t].run
  BY <1>1, SaneThreads DEF Sane, Engaged
<1>3. PICK m \in GraphState : m = thr[t].mem
  BY <1>1
<1>4. RowInv(r) /\ m = ckpt[r] /\ Drives(t, r)
  BY <1>1, <1>2, <1>3 DEF StoryInv, DriverInv, Drives
<1> DEFINE Go(n) == [m EXCEPT !.next = n]
           parked == [thr[t] EXCEPT !.pc = "park"]
<1>5. \A n \in Node \cup {"end"} : Go(n) \in GraphState /\ Go(n).next = n
  BY DEF GraphState
<1>6. /\ parked.pc = "park" /\ parked.mem = m
      /\ parked.run = r /\ parked.ans = thr[t].ans
  BY <1>1, <1>2, <1>3 DEF ThreadState
<1> HIDE DEF parked
\* A node that only hands on to n.
<1>7. ASSUME NEW n \in Node \ {"commit"}, NEW k \in GraphState, k.next = n,
             Finish(t, k),
             UNCHANGED <<status, ckpt, sound, commits, recorded, submitted>>,
             <<m.next, n>> \in Edge,
             m.next = "verify" /\ n = "gate" => sound[r]
      PROVE  StoryInv'
  <2>1. n # "end" /\ Reviewed(k, submitted[thr[t].run])
    BY <1>7 DEF Reviewed, Node
  <2> QED
    BY <1>1, <1>2, <1>3, <1>7, <2>1, HandOn
<1>8. ASSUME NEW n \in Node \ {"commit"}, AddFindings(t, n),
             UNCHANGED <<status, ckpt, sound, commits, recorded, submitted>>,
             <<m.next, n>> \in Edge, m.next # "verify"
      PROVE  StoryInv'
  <2>1. PICK k \in Atleast(m.findings) :
          Finish(t, [m EXCEPT !.findings = k, !.next = n])
    BY <1>3, <1>8 DEF AddFindings
  <2>2. /\ [m EXCEPT !.findings = k, !.next = n] \in GraphState
        /\ [m EXCEPT !.findings = k, !.next = n].next = n
    BY GrownState
  <2> QED
    BY <1>7, <1>8, <2>1, <2>2
\* A thread about to park has changed at most the row.
<1>9. ASSUME Becomes(t, parked), RowInv(r)',
             UNCHANGED <<ckpt, sound, commits, recorded, submitted>>,
             \A q \in Run \ {r} : status'[q] = status[q]
      PROVE  StoryInv'
  <2>1. thr'[t] = parked
    BY <1>9 DEF Becomes, TypeOK
  <2>2. DriverInv(t)'
    BY <1>4, <1>6, <1>9, <2>1 DEF DriverInv
  <2> QED
    BY <1>4, <1>9, <2>2, DriverStep DEF SameRun
<1>10. CASE IngestBody(t)
  BY <1>3, <1>8, <1>10 DEF IngestBody, InBody, row, store, tables, Edge, Node
<1>11. CASE ClassifyBody(t)
  <2>1. m.next = "classify" /\ UNCHANGED <<status, ckpt, sound, commits, recorded, submitted>>
    BY <1>3, <1>11 DEF ClassifyBody, InBody, row, store, tables
  <2>2. CASE Finish(t, Go("extract"))
    BY <1>5, <1>7, <2>1, <2>2 DEF Edge, Node
  <2>3. ASSUME NEW k \in Atleast(m.findings),
               Finish(t, [m EXCEPT !.findings = k, !.next = "escalate"])
        PROVE  StoryInv'
    <3>1. /\ [m EXCEPT !.findings = k, !.next = "escalate"] \in GraphState
          /\ [m EXCEPT !.findings = k, !.next = "escalate"].next = "escalate"
      BY GrownState DEF Node
    <3> QED
      BY <1>7, <2>1, <2>3, <3>1 DEF Edge, Node
  <2> QED
    BY <1>3, <1>11, <2>2, <2>3 DEF ClassifyBody
<1>12. CASE EscalateBody(t)
  <2>1. m.next = "escalate" /\ UNCHANGED <<status, ckpt, sound, commits, recorded, submitted>>
    BY <1>3, <1>12 DEF EscalateBody, InBody, row, store, tables
  <2>2. CASE Finish(t, Go("extract"))
    BY <1>5, <1>7, <2>1, <2>2 DEF Edge, Node
  <2>3. CASE Becomes(t, parked)
    <3>1. RowInv(r)'
      BY <1>4, <2>1 DEF RowInv, Reviewed
    <3> QED
      BY <1>9, <2>1, <2>3, <3>1
  <2> QED
    BY <1>3, <1>12, <2>2, <2>3 DEF EscalateBody, parked
<1>13. CASE ExtractBody(t)
  BY <1>3, <1>8, <1>13 DEF ExtractBody, InBody, row, store, tables, Edge, Node
<1>14. CASE DetectBody(t)
  <2>1. m.next = "detect_conflicts"
          /\ UNCHANGED <<status, ckpt, sound, commits, recorded, submitted>>
    BY <1>3, <1>14 DEF DetectBody, InBody, row, store, tables
  <2>2. PICK n \in {"adjudicate", "compose"} : Finish(t, Go(n))
    BY <1>3, <1>14 DEF DetectBody
  <2> QED
    BY <1>5, <1>7, <2>1, <2>2 DEF Edge, Node
<1>15. CASE AdjudicateBody(t)
  BY <1>3, <1>8, <1>15 DEF AdjudicateBody, InBody, row, store, tables, Edge, Node
<1>16. CASE ComposeBody(t)
  <2> DEFINE s == [thr[t] EXCEPT !.pc = "ckpt", !.mem = Go("examine")]
  <2>1. m.next = "compose" /\ UNCHANGED <<status, ckpt, commits, recorded, submitted>>
    BY <1>3, <1>16 DEF ComposeBody, InBody, row, store
  <2>2. \A q \in Run \ {r} : sound'[q] = sound[q]
    BY <1>2, <1>16 DEF ComposeBody, TypeOK
  <2>3. Becomes(t, s) /\ thr'[t] = s
    BY <1>3, <1>16 DEF ComposeBody, Finish, Becomes, TypeOK
  <2>4. s.pc = "ckpt" /\ s.mem = Go("examine") /\ s.run = r
    BY <1>1, <1>2 DEF ThreadState
  <2> HIDE DEF s
  <2>5. RowInv(r)'
    BY <1>4, <2>1 DEF RowInv, Reviewed
  <2>6. Go("examine").next = "examine"
    BY <1>5 DEF Node
  <2> HIDE DEF Go
  <2>7. DriverInv(t)'
    <3>1. <<ckpt'[r].next, s.mem.next>> \in Edge
      BY <1>4, <2>1, <2>4, <2>6 DEF Edge
    <3>2. Waiting(t)'
      BY <1>4, <2>1, <2>3, <2>4, <2>6, <3>1 DEF Waiting, Reviewed
    <3> QED
      BY <2>3, <2>4, <3>2 DEF DriverInv
  <2> QED
    BY <1>4, <2>1, <2>2, <2>3, <2>5, <2>7, DriverStep DEF SameRun
<1>17. CASE ExamineBody(t)
  BY <1>3, <1>8, <1>17 DEF ExamineBody, InBody, row, store, tables, Edge, Node
\* A node that writes the row with its output.
<1>18. ASSUME NEW k \in GraphState, Finish(t, k), RowInv(r)',
              UNCHANGED <<ckpt, sound, recorded, submitted>>,
              \A q \in Run \ {r} : status'[q] = status[q] /\ commits'[q] = commits[q],
              <<m.next, k.next>> \in Edge,
              Reviewed(k, submitted[r]),
              m.next = "verify" /\ k.next = "gate" => sound[r],
              m.next = "commit" => status'[r] = "completed",
              m.next = "blocked" => status'[r] = "failed"
       PROVE  StoryInv'
  <2> DEFINE s == [thr[t] EXCEPT !.pc = "ckpt", !.mem = k]
  <2>1. Becomes(t, s) /\ thr'[t] = s
    BY <1>18 DEF Finish, Becomes, TypeOK
  <2>2. s.pc = "ckpt" /\ s.mem = k /\ s.run = r
    BY <1>1, <1>2 DEF ThreadState
  <2> HIDE DEF s
  <2>3. Waiting(t)'
    BY <1>4, <1>18, <2>1, <2>2 DEF Waiting, Reviewed
  <2>4. DriverInv(t)'
    BY <2>1, <2>2, <2>3 DEF DriverInv
  <2> QED
    BY <1>4, <1>18, <2>1, <2>4, DriverStep DEF SameRun
<1>19. CASE VerifyBody(t)
  <2>1. m.next = "verify" /\ UNCHANGED <<ckpt, sound, commits, recorded, submitted>>
    BY <1>3, <1>19 DEF VerifyBody, InBody, store, tables
  <2>2. CASE sound[r] /\ status' = status
    <3> DEFINE k == [m EXCEPT !.verified = "passed", !.next = "gate"]
    <3>1. Finish(t, k)
      BY <1>2, <1>3, <1>19, <2>2 DEF VerifyBody, AfterVerify
    <3>2. k \in GraphState /\ k.next = "gate"
      BY DEF GraphState, Node
    <3> HIDE DEF k
    <3> QED
      BY <1>7, <2>1, <2>2, <3>1, <3>2 DEF Edge, Node
  <2>3. CASE ~sound[r] /\ status' = [status EXCEPT ![r] = "failed"]
    <3>1. PICK f \in Atleast(m.findings) :
            Finish(t, [m EXCEPT !.verified = "failed", !.findings = f,
                                !.next = "blocked"])
      BY <1>2, <1>3, <1>19, <2>3 DEF VerifyBody, AfterVerify
    <3> DEFINE k == [m EXCEPT !.verified = "failed", !.findings = f, !.next = "blocked"]
    <3>2. f \in 0..MaxFindings
      BY BoundsAssumption DEF Atleast, GraphState
    <3>3. k \in GraphState /\ k.next = "blocked"
      BY <3>2 DEF GraphState, Node
    <3> HIDE DEF k
    <3>4. /\ status'[r] = "failed"
          /\ \A q \in Run \ {r} : status'[q] = status[q]
      BY <2>3 DEF TypeOK
    <3>5. commits[r] = 0
      BY <1>4, <2>1 DEF RowInv, TypeOK
    <3>6. RowInv(r)'
      BY <1>4, <2>1, <2>3, <3>4, <3>5 DEF RowInv, Reviewed
    <3> QED
      BY <1>18, <2>1, <3>1, <3>3, <3>4, <3>6 DEF k, Edge, Reviewed
  <2> QED
    BY <1>2, <1>19, <2>2, <2>3 DEF VerifyBody
<1>20. CASE BlockedBody(t)
  <2>1. /\ m.next = "blocked" /\ Finish(t, Go("end"))
        /\ UNCHANGED <<ckpt, sound, commits, recorded, submitted>>
        /\ status' = [status EXCEPT ![r] = "failed"]
    BY <1>2, <1>3, <1>20 DEF BlockedBody, InBody, store
  <2>2. /\ status'[r] = "failed"
        /\ \A q \in Run \ {r} : status'[q] = status[q]
    BY <2>1 DEF TypeOK
  <2>3. commits[r] = 0
    BY <1>4, <2>1 DEF RowInv, TypeOK
  <2>4. RowInv(r)'
    BY <1>4, <2>1, <2>2, <2>3 DEF RowInv, Reviewed
  <2> QED
    BY <1>5, <1>18, <2>1, <2>2, <2>4 DEF Edge, Reviewed
<1>21. CASE GateBody(t)
  <2>1. m.next = "gate" /\ UNCHANGED <<ckpt, sound, commits, recorded, submitted>>
    BY <1>3, <1>21 DEF GateBody, InBody, store, tables
  <2>2. commits[r] = 0
    BY <1>4, <2>1 DEF RowInv, TypeOK
  <2>3. CASE ~(m.findings > 0) /\ Finish(t, Go("commit")) /\ UNCHANGED row
    <3>1. Go("commit").findings = m.findings
      BY DEF GraphState
    <3>2. RowInv(r)'
      BY <1>4, <2>1, <2>3 DEF RowInv, Reviewed, row
    <3> QED
      BY <1>5, <1>18, <2>1, <2>3, <3>1, <3>2 DEF Edge, Reviewed, Node, row
  <2>4. ASSUME status' = [status EXCEPT ![r] = "awaiting_review"]
        PROVE  /\ RowInv(r)'
               /\ \A q \in Run \ {r} : status'[q] = status[q]
    <3>1. /\ status'[r] = "awaiting_review"
          /\ \A q \in Run \ {r} : status'[q] = status[q]
      BY <2>4 DEF TypeOK
    <3> QED
      BY <1>4, <2>1, <2>2, <3>1 DEF RowInv, Reviewed
  <2>5. CASE status' = [status EXCEPT ![r] = "awaiting_review"] /\ Becomes(t, parked)
    BY <1>9, <2>1, <2>4, <2>5
  <2>6. CASE /\ status' = [status EXCEPT ![r] = "awaiting_review"]
             /\ thr[t].ans # NoAnswer
             /\ Finish(t, [m EXCEPT !.decisions = thr[t].ans, !.next = "commit"])
    <3> DEFINE k == [m EXCEPT !.decisions = thr[t].ans, !.next = "commit"]
    <3>1. k \in GraphState /\ k.next = "commit" /\ k.decisions = thr[t].ans
      BY <1>1 DEF ThreadState, GraphState, Node
    <3>2. [at |-> "gate", ans |-> thr[t].ans] \in submitted[r]
      BY <1>1, <1>2, <1>3, <1>4, <2>1, <2>6 DEF StoryInv, DriverInv
    <3> HIDE DEF k
    <3>3. Reviewed(k, submitted[r])
      BY <3>1, <3>2 DEF Reviewed
    <3> QED
      BY <1>18, <2>1, <2>4, <2>6, <3>1, <3>3 DEF k, Edge
  <2> QED
    BY <1>2, <1>3, <1>21, <2>3, <2>5, <2>6 DEF GateBody, NeedsReview, parked
<1>22. CASE CommitBody(t)
  <2> DEFINE b == BatchOf(m)
  <2>1. /\ m.next = "commit" /\ Finish(t, Go("end"))
        /\ UNCHANGED <<ckpt, sound, submitted>>
        /\ status' = [status EXCEPT ![r] = "completed"]
        /\ commits' = [commits EXCEPT ![r] = @ + 1]
        /\ recorded' = [recorded EXCEPT ![r] = @ \cup {b}]
    BY <1>2, <1>3, <1>22 DEF CommitBody, InBody, store
  <2>2. /\ status'[r] = "completed" /\ commits'[r] > 0
        /\ recorded'[r] = recorded[r] \cup {b}
        /\ \A q \in Run \ {r} : /\ status'[q] = status[q] /\ commits'[q] = commits[q]
                                /\ recorded'[q] = recorded[q]
    BY <2>1 DEF TypeOK
  <2>3. b.findings = m.findings /\ b.decisions = m.decisions
    BY DEF BatchOf
  <2> HIDE DEF b
  <2>4. b.findings > 0 => [at |-> "gate", ans |-> b.decisions] \in submitted[r]
    BY <1>4, <2>1, <2>3 DEF RowInv, Reviewed
  <2>5. RowInv(r)'
    BY <1>4, <2>1, <2>2, <2>4 DEF RowInv, Reviewed
  <2> DEFINE s == [thr[t] EXCEPT !.pc = "ckpt", !.mem = Go("end")]
  <2>6. Becomes(t, s) /\ thr'[t] = s
    BY <1>3, <2>1 DEF Finish, Becomes, TypeOK
  <2>7. s.pc = "ckpt" /\ s.mem = Go("end") /\ s.run = r /\ Go("end").next = "end"
    BY <1>1, <1>2, <1>5 DEF ThreadState
  <2> HIDE DEF s, Go
  <2>8. Waiting(t)'
    BY <1>4, <2>1, <2>2, <2>6, <2>7 DEF Waiting, Reviewed, Edge
  <2>9. DriverInv(t)'
    BY <2>6, <2>7, <2>8 DEF DriverInv
  <2> QED
    BY <1>4, <2>1, <2>2, <2>5, <2>6, <2>9, DriverStep DEF SameRun
<1> QED
  BY <1>10, <1>11, <1>12, <1>13, <1>14, <1>15, <1>16, <1>17, <1>19, <1>20,
     <1>21, <1>22 DEF NodeBody

LEMMA StoryStep ==
  TypeOK /\ StoryInv /\ OneDriver /\ OneDriver' /\ [Next]_vars => StoryInv'
<1> SUFFICES ASSUME TypeOK, StoryInv, OneDriver, OneDriver', [Next]_vars
             PROVE  StoryInv'
  OBVIOUS
\* A step of a driver after which its run's row still tells the same story.
<1>a. ASSUME NEW t \in Thread, NEW r \in Run, NEW s, Becomes(t, s),
             s.pc # "idle" => s.run = r, thr[t].pc # "idle" => thr[t].run = r,
             thr[t].pc # "idle" \/ s.pc # "idle",
             RowInv(r)', s.pc # "idle" => DriverInv(t)',
             \A q \in Run \ {r} : SameRun(q)
      PROVE  StoryInv'
  <2>1. thr'[t] = s
    BY <1>a DEF Becomes, TypeOK
  <2>2. Drives(t, r) \/ Drives(t, r)'
    BY <1>a, <2>1 DEF Drives
  <2>3. DriverInv(t)'
    BY <1>a, <2>1 DEF DriverInv
  <2> QED
    BY <1>a, <2>2, <2>3, DriverStep
<1>1. ASSUME NEW t \in Thread, NEW r \in Run, StartRun(t, r) PROVE StoryInv'
  <2> DEFINE s == [Idle EXCEPT !.pc = "input", !.run = r, !.kind = "start"]
  <2>1. s.pc = "input" /\ s.run = r /\ s.ans = NoAnswer
    BY DEF Idle
  <2>2. Becomes(t, s) /\ thr[t].pc = "idle"
    BY <1>1 DEF StartRun, Free, Idle
  <2> HIDE DEF s
  <2>3. /\ status[r] = "absent" /\ status'[r] = "running"
        /\ UNCHANGED <<ckpt, sound, commits, recorded, submitted>>
        /\ \A q \in Run \ {r} : status'[q] = status[q]
    BY <1>1 DEF StartRun, store, tables, TypeOK
  <2>4. RowInv(r)'
    BY <2>3 DEF StoryInv, RowInv, Reviewed
  <2>5. DriverInv(t)'
    BY <2>1, <2>2, <2>3 DEF DriverInv, Becomes, TypeOK, StoryInv, RowInv
  <2> QED
    BY <1>a, <2>1, <2>2, <2>3, <2>4, <2>5 DEF SameRun
<1>2. ASSUME NEW t \in Thread, NEW r \in Run, ResumeInterrupted(t, r)
      PROVE  StoryInv'
  <2> DEFINE s == [Idle EXCEPT !.pc = "load", !.run = r, !.kind = "resume"]
  <2>1. s.pc = "load" /\ s.run = r /\ s.ans = NoAnswer
    BY DEF Idle
  <2>2. Becomes(t, s) /\ thr[t].pc = "idle"
    BY <1>2 DEF ResumeInterrupted, Free, Idle
  <2> HIDE DEF s
  <2>3. /\ status[r] \in {"interrupted", "running"} /\ status'[r] = "running"
        /\ UNCHANGED <<ckpt, sound, commits, recorded, submitted>>
        /\ \A q \in Run \ {r} : status'[q] = status[q]
    BY <1>2 DEF ResumeInterrupted, ResumeGuard, store, tables, TypeOK
  <2>4. RowInv(r)'
    BY <2>3 DEF StoryInv, RowInv, Reviewed
  <2>5. DriverInv(t)'
    BY <2>1, <2>2 DEF DriverInv, Becomes, TypeOK
  <2> QED
    BY <1>a, <2>1, <2>2, <2>3, <2>4, <2>5 DEF SameRun
<1>3. ASSUME NEW t \in Thread, NEW r \in Run, NEW a \in Answer,
             SubmitDecisions(t, r, a)
      PROVE  StoryInv'
  <2> DEFINE s == [Idle EXCEPT !.pc = "load", !.run = r, !.kind = "answer", !.ans = a]
             x == [at |-> ckpt[r].next, ans |-> a]
  <2>1. s.pc = "load" /\ s.run = r /\ s.ans = a
    BY DEF Idle
  <2>2. Becomes(t, s) /\ thr[t].pc = "idle"
    BY <1>3 DEF SubmitDecisions, Free, Idle
  <2> HIDE DEF s
  <2>3. /\ submitted'[r] = submitted[r] \cup {x}
        /\ UNCHANGED <<status, ckpt, sound, commits, recorded>>
        /\ \A q \in Run \ {r} : submitted'[q] = submitted[q]
    BY <1>3 DEF SubmitDecisions, row, store, tables, TypeOK
  <2>4. RowInv(r)'
    BY <2>3 DEF StoryInv, RowInv, Reviewed
  <2>5. DriverInv(t)'
    BY <2>1, <2>2, <2>3 DEF DriverInv, Becomes, TypeOK
  <2> QED
    BY <1>a, <2>1, <2>2, <2>3, <2>4, <2>5 DEF SameRun
<1>4. ASSUME NEW t \in Thread, InvokeInput(t) PROVE StoryInv'
  <2> DEFINE first == [EmptyState EXCEPT !.next = "ingest"]
             s == [thr[t] EXCEPT !.pc = "enter", !.mem = first]
  <2>0. thr[t].pc = "input"
    BY <1>4 DEF InvokeInput
  <2>1. PICK r \in Run : r = thr[t].run
    BY <2>0, SaneThreads DEF Sane, Engaged
  <2>2. /\ s.pc = "enter" /\ s.run = r /\ s.ans = thr[t].ans /\ s.mem = first
        /\ first.next = "ingest"
    BY <2>1, SaneThreads DEF Sane, ThreadState, EmptyState
  <2>3. Becomes(t, s) /\ thr'[t] = s
    BY <1>4 DEF InvokeInput, Becomes, TypeOK
  <2>4. ckpt[r].next = "none"
    BY <2>0, <2>1 DEF StoryInv, DriverInv
  <2> HIDE DEF s, first
  <2>5. /\ ckpt'[r] = first
        /\ UNCHANGED <<status, sound, commits, recorded, submitted>>
        /\ \A q \in Run \ {r} : ckpt'[q] = ckpt[q]
    BY <1>4, <2>1 DEF InvokeInput, row, tables, TypeOK, first
  <2>6. status[r] # "absent"
    BY <2>0, <2>1 DEF StoryInv, DriverInv, RowInv
  <2>7. RowInv(r)'
    BY <2>2, <2>4, <2>5, <2>6 DEF StoryInv, RowInv, Reviewed
  <2>8. thr[t].ans = NoAnswer
    BY <2>0 DEF StoryInv, DriverInv
  <2>9. DriverInv(t)'
    BY <2>2, <2>3, <2>5, <2>8 DEF DriverInv
  <2> QED
    BY <1>a, <2>0, <2>1, <2>2, <2>3, <2>5, <2>7, <2>9 DEF SameRun
<1>5. ASSUME NEW t \in Thread, Load(t) PROVE StoryInv'
  <2>0. thr[t].pc = "load"
    BY <1>5 DEF Load
  <2>1. PICK r \in Run : r = thr[t].run
    BY <2>0, SaneThreads DEF Sane, Engaged
  <2>2. UNCHANGED <<ckpt, sound, commits, recorded, submitted>>
    BY <1>5 DEF Load, store, tables
  <2>3. RowInv(r) /\ DriverInv(t)
    BY DEF StoryInv
  <2>4. CASE UNCHANGED status /\ Becomes(t, Idle)
    <3>1. RowInv(r)'
      BY <2>2, <2>3, <2>4 DEF RowInv, Reviewed
    <3> QED
      BY <1>a, <2>0, <2>1, <2>2, <2>4, <3>1 DEF SameRun, Idle
  <2>5. CASE ckpt[r].next = "none" /\ status' = StatusAfterError(t) /\ Becomes(t, Idle)
    <3>1. /\ status'[r] \in {status[r], "interrupted"}
          /\ \A q \in Run \ {r} : status'[q] = status[q]
      BY <2>1, <2>5 DEF StatusAfterError, TypeOK
    <3>2. RowInv(r)'
      BY <2>2, <2>3, <2>5, <3>1 DEF RowInv, Reviewed
    <3> QED
      BY <1>a, <2>0, <2>1, <2>2, <2>5, <3>1, <3>2 DEF SameRun, Idle
  <2>6. CASE /\ UNCHANGED status
             /\ Becomes(t, [thr[t] EXCEPT !.pc = "enter", !.mem = ckpt[r]])
    <3> DEFINE s == [thr[t] EXCEPT !.pc = "enter", !.mem = ckpt[r]]
    <3>1. s.pc = "enter" /\ s.run = r /\ s.ans = thr[t].ans /\ s.mem = ckpt[r]
      BY <2>1, SaneThreads DEF Sane, ThreadState
    <3>2. thr'[t] = s
      BY <2>6 DEF Becomes, TypeOK
    <3> HIDE DEF s
    <3>3. RowInv(r)'
      BY <2>2, <2>3, <2>6 DEF RowInv, Reviewed
    <3>4. DriverInv(t)'
      BY <2>0, <2>1, <2>2, <2>3, <3>1, <3>2 DEF DriverInv
    <3> QED
      BY <1>a, <2>0, <2>1, <2>2, <2>6, <3>1, <3>3, <3>4 DEF SameRun, s
  <2> QED
    BY <1>5, <2>1, <2>4, <2>5, <2>6 DEF Load, ResumePoint
<1>6. ASSUME NEW t \in Thread, Enter(t) PROVE StoryInv'
  <2> DEFINE s == [thr[t] EXCEPT !.pc = "body"]
  <2>0. thr[t].pc = "enter"
    BY <1>6 DEF Enter
  <2>1. PICK r \in Run : r = thr[t].run
    BY <2>0, SaneThreads DEF Sane, Engaged
  <2>2. s.pc = "body" /\ s.run = r /\ s.ans = thr[t].ans /\ s.mem = thr[t].mem
    BY <2>1, SaneThreads DEF Sane, ThreadState
  <2>3. Becomes(t, s) /\ thr'[t] = s
    BY <1>6 DEF Enter, Becomes, TypeOK
  <2> HIDE DEF s
  <2>4. UNCHANGED <<status, ckpt, sound, commits, recorded, submitted>>
    BY <1>6 DEF Enter, store, tables
  <2>5. RowInv(r)'
    BY <2>4 DEF StoryInv, RowInv, Reviewed
  <2>6. DriverInv(t)'
    BY <2>0, <2>1, <2>2, <2>3, <2>4 DEF StoryInv, DriverInv
  <2> QED
    BY <1>a, <2>0, <2>1, <2>2, <2>3, <2>4, <2>5, <2>6 DEF SameRun
<1>7. ASSUME NEW t \in Thread, NodeBody(t) PROVE StoryInv'
  BY <1>7, StoryBody
<1>8. ASSUME NEW t \in Thread, WriteCheckpoint(t) PROVE StoryInv'
  <2> DEFINE s == [thr[t] EXCEPT !.pc = "enter", !.ans = NoAnswer]
  <2>0. thr[t].pc = "ckpt"
    BY <1>8 DEF WriteCheckpoint
  <2>1. PICK r \in Run : r = thr[t].run
    BY <2>0, SaneThreads DEF Sane, Engaged
  <2>2. PICK m \in GraphState : m = thr[t].mem
    BY SaneThreads
  <2>3. /\ ckpt'[r] = m
        /\ UNCHANGED <<status, sound, commits, recorded, submitted>>
        /\ \A q \in Run \ {r} : ckpt'[q] = ckpt[q]
    BY <1>8, <2>1, <2>2 DEF WriteCheckpoint, row, tables, TypeOK
  <2>4. /\ <<ckpt[r].next, m.next>> \in Edge
        /\ Reviewed(m, submitted[r])
        /\ ckpt[r].next = "verify" /\ m.next = "gate" => sound[r]
        /\ ckpt[r].next = "commit" => status[r] = "completed"
        /\ ckpt[r].next = "blocked" => status[r] = "failed"
    BY <2>0, <2>1, <2>2 DEF StoryInv, DriverInv, Waiting
  <2>5. RowInv(r)'
    <3>1. RowInv(r)
      BY DEF StoryInv
    <3>2. /\ ckpt[r].next # "none" /\ ckpt[r].next # "end"
          /\ ckpt[r].next = "gate" => m.next = "commit"
          /\ ckpt[r].next = "commit" => m.next = "end"
          /\ ckpt[r].next = "blocked" => m.next = "end"
          /\ ckpt[r].next = "verify" => m.next \in {"gate", "blocked"}
          /\ m.next = "end" => ckpt[r].next \in {"commit", "blocked"}
          /\ m.next = "verify" => ckpt[r].next = "examine"
      BY <2>4 DEF Edge
    <3> QED
      BY <2>3, <2>4, <3>1, <3>2 DEF RowInv
  <2>6. CASE Becomes(t, Idle)
    BY <1>a, <2>0, <2>1, <2>3, <2>5, <2>6 DEF SameRun, Idle
  <2>7. CASE Becomes(t, s)
    <3>1. s.pc = "enter" /\ s.run = r /\ s.ans = NoAnswer /\ s.mem = m
      BY <2>1, <2>2, SaneThreads DEF Sane, ThreadState
    <3>2. thr'[t] = s
      BY <2>7 DEF Becomes, TypeOK
    <3> HIDE DEF s
    <3>3. DriverInv(t)'
      BY <2>3, <3>1, <3>2 DEF DriverInv
    <3> QED
      BY <1>a, <2>0, <2>1, <2>3, <2>5, <2>7, <3>1, <3>3 DEF SameRun
  <2> QED
    BY <1>8, <2>6, <2>7 DEF WriteCheckpoint, AnswerLeft
<1>9. ASSUME NEW t \in Thread, Park(t) PROVE StoryInv'
  <2>1. PICK r \in Run : r = thr[t].run
    BY <1>9, SaneThreads DEF Sane, Engaged, Park
  <2>2. /\ UNCHANGED <<status, ckpt, sound, commits, recorded, submitted>>
        /\ Becomes(t, Idle) /\ thr[t].pc = "park"
    BY <1>9 DEF Park, row, tables
  <2>3. RowInv(r)'
    BY <2>2 DEF StoryInv, RowInv, Reviewed
  <2> QED
    BY <1>a, <2>1, <2>2, <2>3 DEF SameRun, Idle
<1>10. ASSUME NEW t \in Thread, Raise(t) PROVE StoryInv'
  <2>1. PICK r \in Run : r = thr[t].run
    BY <1>10, SaneThreads DEF Sane, Engaged, Raise
  <2>2. /\ UNCHANGED <<ckpt, sound, commits, recorded, submitted>>
        /\ Becomes(t, Idle) /\ thr[t].pc \in {"input", "body", "ckpt", "park"}
    BY <1>10 DEF Raise, store, tables
  <2>3. /\ status'[r] \in {status[r], "interrupted"}
        /\ \A q \in Run \ {r} : status'[q] = status[q]
    BY <1>10, <2>1 DEF Raise, StatusAfterError, TypeOK
  <2>4. ckpt[r].next # "end"
    BY <2>1, <2>2, SaneThreads
    DEF StoryInv, DriverInv, Waiting, Edge, Sane, Engaged, Node
  <2>5. RowInv(r)'
    BY <2>2, <2>3, <2>4 DEF StoryInv, RowInv, Reviewed
  <2> QED
    BY <1>a, <2>1, <2>2, <2>3, <2>5 DEF SameRun, Idle
\* Threads only fall silent, and rows only turn from running to interrupted.
<1>11. ASSUME UNCHANGED <<ckpt, sound, commits, recorded, submitted>>,
              \A r \in Run : status'[r] = status[r]
                               \/ (status[r] = "running" /\ status'[r] = "interrupted"),
              \A t \in Thread : thr'[t] = thr[t] \/ thr'[t] = Idle
       PROVE  StoryInv'
  <2>1. ASSUME NEW r \in Run PROVE RowInv(r)'
    <3>1. RowInv(r)
      BY DEF StoryInv
    <3> QED
      BY <1>11, <3>1 DEF RowInv, Reviewed
  <2>2. ASSUME NEW t \in Thread PROVE DriverInv(t)'
    <3>1. CASE thr'[t] = Idle
      BY <3>1 DEF Idle, DriverInv
    <3>2. CASE thr'[t] = thr[t] /\ thr[t].pc # "idle"
      <4>1. thr[t].run \in Run /\ DriverInv(t)
        BY <3>2, SaneThreads DEF Sane, Engaged, StoryInv
      <4> QED
        BY <1>11, <3>2, <4>1 DEF DriverInv, Waiting, Reviewed
    <3>3. CASE thr'[t] = thr[t] /\ thr[t].pc = "idle"
      BY <3>3 DEF DriverInv
    <3> QED
      BY <1>11, <3>1, <3>2, <3>3
  <2> QED
    BY <2>1, <2>2 DEF StoryInv
<1>12. ASSUME NEW p \in Process, Crash(p) PROVE StoryInv'
  BY <1>11, <1>12 DEF Crash, row, store, tables
<1>13. CASE ApiBoot
  BY <1>11, <1>13 DEF ApiBoot, Orphaned, store, tables
<1>14. CASE McpBoot \/ UNCHANGED vars
  BY <1>11, <1>14 DEF McpBoot, row, store, tables, vars
<1> QED
  BY <1>1, <1>2, <1>3, <1>4, <1>5, <1>6, <1>7, <1>8, <1>9, <1>10,
     <1>12, <1>13, <1>14 DEF Next, Call, Proceed, Advance

\* For a claim about behaviours in which no run ever has two drivers.
LEMMA StoryHolds == Spec /\ []OneDriver => [](TypeOK /\ StoryInv)
<1>1. TypeOK /\ StoryInv /\ OneDriver /\ OneDriver' /\ [Next]_vars
        => TypeOK' /\ StoryInv'
  BY TypeStep, StoryStep
<1> QED
  BY <1>1, TypeInit, StoryInit, PTL DEF Spec

\* resume_run carries the answer to "what is this document?" and the verdicts
\* in one envelope; while one thread at a time drives a run, what is committed
\* was given to the review question, whatever crashes and errors come between.
THEOREM VerdictsWereAskedFor == Spec /\ []OneDriver => []VerdictsAnswerTheReview
<1>1. StoryInv => VerdictsAnswerTheReview
  BY DEF StoryInv, RowInv, VerdictsAnswerTheReview
<1> QED
  BY <1>1, StoryHolds, PTL

\* The row and the checkpoint, written by different transactions, tell one
\* story while one thread at a time drives a run: a thread that dies or fails
\* between the two leaves a pair that the next driver continues from.
THEOREM RowAndCheckpointAgree == Spec /\ []OneDriver => []RowMatchesCheckpoint
<1>1. StoryInv => RowMatchesCheckpoint
  BY DEF StoryInv, RowInv, RowMatchesCheckpoint
<1> QED
  BY <1>1, StoryHolds, PTL

\* resume_interrupted: while one thread at a time drives a run, a checkpoint
\* never moves back along the graph.
THEOREM NothingIsRecomputed == Spec /\ []OneDriver => NothingCheckpointedIsRecomputed
<1>1. ASSUME TypeOK, StoryInv, [Next]_vars, NEW r \in Run
      PROVE  Rank(ckpt'[r].next) >= Rank(ckpt[r].next)
  <2>1. CASE ckpt'[r] = ckpt[r]
    <3>1. ckpt[r].next \in Node \cup {"none", "end"}
      BY <1>1 DEF TypeOK, GraphState
    <3>2. Rank(ckpt[r].next) \in Nat
      BY <3>1 DEF Rank, Node
    <3> QED
      BY <2>1, <3>2
  <2>2. ASSUME NEW t \in Thread, InvokeInput(t), thr[t].run = r
        PROVE  ckpt'[r].next = "ingest" /\ ckpt[r].next = "none"
    <3>1. [EmptyState EXCEPT !.next = "ingest"].next = "ingest"
      BY DEF EmptyState
    <3> QED
      BY <1>1, <2>2, <3>1 DEF InvokeInput, TypeOK, StoryInv, DriverInv
  <2>3. ASSUME NEW t \in Thread, WriteCheckpoint(t), thr[t].run = r
        PROVE  <<ckpt[r].next, ckpt'[r].next>> \in Edge
    BY <1>1, <2>3 DEF WriteCheckpoint, TypeOK, StoryInv, DriverInv, Waiting
  <2>4. \/ ckpt'[r] = ckpt[r]
        \/ \E t \in Thread :
             thr[t].run = r /\ (InvokeInput(t) \/ WriteCheckpoint(t))
    BY <1>1
    DEF Next, Call, Proceed, Advance, StartRun, ResumeInterrupted, SubmitDecisions, InvokeInput,
        Load, Enter, NodeBody, IngestBody, ClassifyBody, EscalateBody, ExtractBody,
        DetectBody, AdjudicateBody, ComposeBody, ExamineBody, VerifyBody, BlockedBody,
        GateBody, CommitBody, WriteCheckpoint, Park, Raise, Crash, ApiBoot, McpBoot,
        store, vars, TypeOK
  <2>5. \A x, y : <<x, y>> \in Edge => Rank(y) >= Rank(x)
    BY DEF Edge, Rank
  <2>6. Rank("ingest") >= Rank("none")
    BY DEF Rank
  <2> QED
    BY <2>1, <2>2, <2>3, <2>4, <2>5, <2>6
<1>2. TypeOK /\ StoryInv /\ [Next]_vars =>
        [\A r \in Run : Rank(ckpt'[r].next) >= Rank(ckpt[r].next)]_vars
  BY <1>1
<1> QED
  BY <1>2, StoryHolds, PTL DEF Spec, NothingCheckpointedIsRecomputed

\* A run at END is closed: while one thread at a time drives a run, no resume,
\* no resubmitted decision and no restart writes its row or findings again.
THEOREM FinishedStaysFinished == Spec /\ []OneDriver => FinishedIsFinal
<1> DEFINE Closed(r) == /\ status'[r] = status[r]
                        /\ commits'[r] = commits[r]
                        /\ opened'[r] = opened[r]
<1>1. ASSUME TypeOK, StoryInv, [Next]_vars, NEW r \in Run, ckpt[r].next = "end"
      PROVE  Closed(r)
  <2>1. status[r] \notin {"running", "interrupted", "absent"}
    BY <1>1 DEF StoryInv, RowInv
  <2>2. ASSUME NEW t \in Thread, thr[t].run = r
        PROVE  thr[t].pc \notin {"input", "body", "ckpt", "park"}
    BY <1>1, <2>2, SaneThreads
    DEF StoryInv, DriverInv, Waiting, Edge, Sane, Engaged, Node
  <2>3. ASSUME NEW t \in Thread, NEW q \in Run,
               StartRun(t, q) \/ ResumeInterrupted(t, q)
        PROVE  Closed(r)
    BY <1>1, <2>1, <2>3 DEF StartRun, ResumeInterrupted, ResumeGuard, tables, TypeOK
  <2>4. ASSUME NEW t \in Thread, NEW q \in Run, NEW a \in Answer,
               SubmitDecisions(t, q, a)
        PROVE  Closed(r)
    BY <2>4 DEF SubmitDecisions, row, tables
  <2>5. ASSUME NEW t \in Thread, NodeBody(t)
        PROVE  Closed(r)
    <3>1. thr[t].run # r
      BY <2>2, <2>5
      DEF NodeBody, IngestBody, ClassifyBody, EscalateBody, ExtractBody,
          DetectBody, AdjudicateBody, ComposeBody, ExamineBody, VerifyBody,
          BlockedBody, GateBody, CommitBody, InBody
    <3> QED
      BY <1>1, <2>5, <3>1
      DEF NodeBody, IngestBody, ClassifyBody, EscalateBody, ExtractBody,
          DetectBody, AdjudicateBody, ComposeBody, ExamineBody, VerifyBody,
          BlockedBody, GateBody, CommitBody, row, tables, TypeOK
  <2>6. ASSUME NEW t \in Thread, Load(t)
        PROVE  Closed(r)
    BY <1>1, <2>6 DEF Load, StatusAfterError, tables, TypeOK
  <2>7. ASSUME NEW t \in Thread, Raise(t)
        PROVE  Closed(r)
    BY <1>1, <2>2, <2>7 DEF Raise, StatusAfterError, tables, TypeOK
  <2>8. ASSUME NEW t \in Thread,
               InvokeInput(t) \/ Enter(t) \/ WriteCheckpoint(t) \/ Park(t)
        PROVE  Closed(r)
    BY <2>8 DEF InvokeInput, Enter, WriteCheckpoint, Park, row, tables
  <2>9. CASE ApiBoot
    BY <1>1, <2>1, <2>9 DEF ApiBoot, Orphaned, tables
  <2>10. CASE McpBoot \/ UNCHANGED vars \/ \E p \in Process : Crash(p)
    BY <2>10 DEF McpBoot, Crash, vars, row, tables
  <2> QED
    BY <1>1, <2>3, <2>4, <2>5, <2>6, <2>7, <2>8, <2>9, <2>10 DEF Next, Call, Proceed, Advance
<1>2. TypeOK /\ StoryInv /\ [Next]_vars =>
        [\A r \in Run : ckpt[r].next = "end" =>
           /\ status'[r] = status[r]
           /\ commits'[r] = commits[r]
           /\ opened'[r] = opened[r]]_vars
  BY <1>1
<1> QED
  BY <1>2, StoryHolds, PTL DEF Spec, FinishedIsFinal

-----------------------------------------------------------------------------
(***************************************************************************)
(* Rows nobody will touch, while one thread at a time drives a run.        *)
(***************************************************************************)

\* The gate has written its row before its driver parks.
ParkInv ==
  \A t \in Thread :
    thr[t].pc = "park" /\ thr[t].mem.next = "gate" => status[thr[t].run] # "running"

\* What becomes of a thread is what the step says, and the others stay.
LEMMA Moved ==
  ASSUME TypeOK, NEW t \in Thread, NEW s, Becomes(t, s)
  PROVE  thr'[t] = s /\ \A u \in Thread \ {t} : thr'[u] = thr[u]
BY DEF Becomes, TypeOK

LEMMA Finished ==
  ASSUME TypeOK, NEW t \in Thread, NEW m, Finish(t, m)
  PROVE  /\ thr'[t].pc = "ckpt" /\ thr'[t].run = thr[t].run
         /\ \A u \in Thread \ {t} : thr'[u] = thr[u]
<1>1. thr[t] \in ThreadState
  BY DEF TypeOK
<1> DEFINE s == [thr[t] EXCEPT !.pc = "ckpt", !.mem = m]
<1>2. s.pc = "ckpt" /\ s.run = thr[t].run
  BY <1>1 DEF ThreadState
<1>3. Becomes(t, s)
  BY DEF Finish
<1> HIDE DEF s
<1> QED
  BY <1>2, <1>3, Moved

\* After its body a thread has a checkpoint to write or a question to park at.
LEMMA AfterBody ==
  ASSUME TypeOK, NEW t \in Thread, NodeBody(t)
  PROVE  /\ thr'[t].pc \in {"ckpt", "park"} /\ thr'[t].run = thr[t].run
         /\ thr'[t].pc = "park" =>
              thr'[t].mem = thr[t].mem /\ (EscalateBody(t) \/ GateBody(t))
         /\ \A u \in Thread \ {t} : thr'[u] = thr[u]
<1> DEFINE parked == [thr[t] EXCEPT !.pc = "park"]
<1>1. ASSUME NEW m, Finish(t, m)
      PROVE  /\ thr'[t].pc = "ckpt" /\ thr'[t].run = thr[t].run
             /\ \A u \in Thread \ {t} : thr'[u] = thr[u]
  BY <1>1, Finished
<1>2. ASSUME Becomes(t, parked)
      PROVE  /\ thr'[t].pc = "park" /\ thr'[t].run = thr[t].run
             /\ thr'[t].mem = thr[t].mem
             /\ \A u \in Thread \ {t} : thr'[u] = thr[u]
  <2>1. parked.pc = "park" /\ parked.run = thr[t].run /\ parked.mem = thr[t].mem
    BY DEF TypeOK, ThreadState
  <2> HIDE DEF parked
  <2> QED
    BY <1>2, <2>1, Moved
<1>3. (EscalateBody(t) \/ GateBody(t)) => Becomes(t, parked) \/ \E m : Finish(t, m)
  BY DEF EscalateBody, GateBody
<1>4. ~(EscalateBody(t) \/ GateBody(t)) => \E m : Finish(t, m)
  BY DEF NodeBody, IngestBody, ClassifyBody, ExtractBody, DetectBody, AdjudicateBody,
         ComposeBody, ExamineBody, VerifyBody, BlockedBody, CommitBody, AddFindings
<1> HIDE DEF parked
<1> QED
  BY <1>1, <1>2, <1>3, <1>4

\* An entry point takes a free thread to its run.
LEMMA AfterEntry ==
  ASSUME TypeOK, NEW t \in Thread, NEW r \in Run,
         \/ StartRun(t, r) \/ ResumeInterrupted(t, r)
         \/ \E a \in Answer : SubmitDecisions(t, r, a)
  PROVE  /\ thr[t].pc = "idle" /\ thr'[t].pc \in {"input", "load"} /\ thr'[t].run = r
         /\ \A u \in Thread \ {t} : thr'[u] = thr[u]
<1>1. Free(t)
  BY DEF StartRun, ResumeInterrupted, SubmitDecisions
<1>2. thr[t].pc = "idle"
  BY <1>1 DEF Free, Idle
<1>3. ASSUME NEW s, Becomes(t, s), s.pc \in {"input", "load"}, s.run = r
      PROVE  /\ thr'[t].pc \in {"input", "load"} /\ thr'[t].run = r
             /\ \A u \in Thread \ {t} : thr'[u] = thr[u]
  BY <1>3, Moved
<1>4. CASE StartRun(t, r)
  <2> DEFINE s == [Idle EXCEPT !.pc = "input", !.run = r, !.kind = "start"]
  <2>1. s.pc = "input" /\ s.run = r
    BY DEF Idle
  <2>2. Becomes(t, s)
    BY <1>4 DEF StartRun
  <2> HIDE DEF s
  <2> QED
    BY <1>2, <1>3, <2>1, <2>2
<1>5. CASE ResumeInterrupted(t, r)
  <2> DEFINE s == [Idle EXCEPT !.pc = "load", !.run = r, !.kind = "resume"]
  <2>1. s.pc = "load" /\ s.run = r
    BY DEF Idle
  <2>2. Becomes(t, s)
    BY <1>5 DEF ResumeInterrupted
  <2> HIDE DEF s
  <2> QED
    BY <1>2, <1>3, <2>1, <2>2
<1>6. ASSUME NEW a \in Answer, SubmitDecisions(t, r, a)
      PROVE  /\ thr'[t].pc \in {"input", "load"} /\ thr'[t].run = r
             /\ \A u \in Thread \ {t} : thr'[u] = thr[u]
  <2> DEFINE s == [Idle EXCEPT !.pc = "load", !.run = r, !.kind = "answer", !.ans = a]
  <2>1. s.pc = "load" /\ s.run = r
    BY DEF Idle
  <2>2. Becomes(t, s)
    BY <1>6 DEF SubmitDecisions
  <2> HIDE DEF s
  <2> QED
    BY <1>3, <2>1, <2>2
<1> QED
  BY <1>2, <1>4, <1>5, <1>6

\* A driver goes on with its run, or lets go of it.
LEMMA AfterStep ==
  ASSUME TypeOK, NEW t \in Thread
  PROVE  /\ InvokeInput(t) \/ Enter(t) =>
              thr'[t].pc \in {"enter", "body"} /\ thr'[t].run = thr[t].run
         /\ Load(t) =>
              IF ckpt[thr[t].run].next \in Node
              THEN thr'[t].pc = "enter" /\ thr'[t].run = thr[t].run
              ELSE thr'[t].pc = "idle"
         /\ WriteCheckpoint(t) =>
              IF thr[t].mem.next # "end"
              THEN thr'[t].pc = "enter" /\ thr'[t].run = thr[t].run
              ELSE thr'[t].pc = "idle"
         /\ Park(t) \/ Raise(t) => thr'[t].pc = "idle"
         /\ InvokeInput(t) \/ Enter(t) \/ Load(t) \/ WriteCheckpoint(t) \/ Park(t) \/ Raise(t)
              => \A u \in Thread \ {t} : thr'[u] = thr[u]
<1> DEFINE Others == \A u \in Thread \ {t} : thr'[u] = thr[u]
<1>1. thr[t] \in ThreadState /\ Idle.pc = "idle"
  BY DEF TypeOK, Idle
<1>2. Becomes(t, Idle) => thr'[t].pc = "idle" /\ Others
  BY <1>1, Moved
<1>3. ASSUME NEW m, Becomes(t, [thr[t] EXCEPT !.pc = "enter", !.mem = m])
      PROVE  thr'[t].pc = "enter" /\ thr'[t].run = thr[t].run /\ Others
  <2> DEFINE s == [thr[t] EXCEPT !.pc = "enter", !.mem = m]
  <2>1. s.pc = "enter" /\ s.run = thr[t].run
    BY <1>1 DEF ThreadState
  <2>2. Becomes(t, s)
    BY <1>3
  <2> HIDE DEF s
  <2> QED
    BY <2>1, <2>2, Moved
<1>4. ASSUME NEW a, Becomes(t, [thr[t] EXCEPT !.pc = "enter", !.ans = a])
      PROVE  thr'[t].pc = "enter" /\ thr'[t].run = thr[t].run /\ Others
  <2> DEFINE s == [thr[t] EXCEPT !.pc = "enter", !.ans = a]
  <2>1. s.pc = "enter" /\ s.run = thr[t].run
    BY <1>1 DEF ThreadState
  <2>2. Becomes(t, s)
    BY <1>4
  <2> HIDE DEF s
  <2> QED
    BY <2>1, <2>2, Moved
<1>5. ASSUME Becomes(t, [thr[t] EXCEPT !.pc = "body"])
      PROVE  thr'[t].pc = "body" /\ thr'[t].run = thr[t].run /\ Others
  <2> DEFINE s == [thr[t] EXCEPT !.pc = "body"]
  <2>1. s.pc = "body" /\ s.run = thr[t].run
    BY <1>1 DEF ThreadState
  <2>2. Becomes(t, s)
    BY <1>5
  <2> HIDE DEF s
  <2> QED
    BY <2>1, <2>2, Moved
<1>6. Park(t) \/ Raise(t) => thr'[t].pc = "idle" /\ Others
  BY <1>2 DEF Park, Raise
<1>7. InvokeInput(t) => thr'[t].pc = "enter" /\ thr'[t].run = thr[t].run /\ Others
  BY <1>3 DEF InvokeInput
<1>8. Enter(t) => thr'[t].pc = "body" /\ thr'[t].run = thr[t].run /\ Others
  BY <1>5 DEF Enter
<1>9. Load(t) => /\ IF ckpt[thr[t].run].next \in Node
                    THEN thr'[t].pc = "enter" /\ thr'[t].run = thr[t].run
                    ELSE thr'[t].pc = "idle"
                 /\ Others
  <2>1. "none" \notin Node /\ "end" \notin Node
    BY DEF Node
  <2> QED
    BY <1>2, <1>3, <2>1 DEF Load
<1>10. WriteCheckpoint(t) => /\ IF thr[t].mem.next # "end"
                                THEN thr'[t].pc = "enter" /\ thr'[t].run = thr[t].run
                                ELSE thr'[t].pc = "idle"
                             /\ Others
  BY <1>2, <1>4 DEF WriteCheckpoint
<1> QED
  BY <1>6, <1>7, <1>8, <1>9, <1>10

\* Nobody else starts to park.
LEMMA ParksAfterItsBody ==
  ASSUME TypeOK, [Next]_vars, NEW t \in Thread, thr'[t] # thr[t], thr'[t].pc = "park"
  PROVE  NodeBody(t)
<1>1. ASSUME NEW u \in Thread, NEW r \in Run,
             \/ StartRun(u, r) \/ ResumeInterrupted(u, r)
             \/ \E a \in Answer : SubmitDecisions(u, r, a)
      PROVE  FALSE
  BY <1>1, AfterEntry
<1>2. ASSUME NEW u \in Thread,
             InvokeInput(u) \/ Load(u) \/ Enter(u) \/ WriteCheckpoint(u) \/ Park(u) \/ Raise(u)
      PROVE  FALSE
  BY <1>2, AfterStep
<1>3. ASSUME NEW u \in Thread, u # t, NodeBody(u)
      PROVE  FALSE
  BY <1>3, AfterBody
<1>4. ~ApiBoot /\ ~McpBoot /\ ~UNCHANGED vars /\ \A p \in Process : ~Crash(p)
  <2>1. Idle.pc = "idle"
    BY DEF Idle
  <2> QED
    BY <2>1 DEF ApiBoot, McpBoot, vars, Crash
<1> QED
  BY <1>1, <1>2, <1>3, <1>4 DEF Next, Call, Proceed, Advance

LEMMA ParkStep ==
  TypeOK /\ ParkInv /\ OneDriver' /\ [Next]_vars => ParkInv'
<1> SUFFICES ASSUME TypeOK, ParkInv, OneDriver', [Next]_vars, NEW t \in Thread,
                    thr'[t].pc = "park", thr'[t].mem.next = "gate"
             PROVE  status'[thr'[t].run] # "running"
  BY DEF ParkInv
<1>1. CASE thr'[t] = thr[t]
  <2>1. PICK r \in Run : r = thr[t].run
    BY <1>1, SaneThreads DEF Sane, Engaged
  <2>2. status[r] # "running" /\ Drives(t, r)'
    BY <1>1, <2>1 DEF ParkInv, Drives
  <2>3. ASSUME NEW u \in Thread, NEW q \in Run, StartRun(u, q) \/ ResumeInterrupted(u, q)
        PROVE  status'[r] # "running"
    <3>1. thr'[u].run = q /\ thr'[u].pc # "idle" /\ thr[u].pc = "idle"
      BY <2>3, AfterEntry
    <3>2. q # r
      BY <1>1, <2>2, <3>1 DEF OneDriver, Drives
    <3> QED
      BY <2>2, <2>3, <3>2 DEF StartRun, ResumeInterrupted, TypeOK
  <2>4. ASSUME NEW u \in Thread, NodeBody(u)
        PROVE  status'[r] # "running"
    BY <2>2, <2>4
    DEF NodeBody, IngestBody, ClassifyBody, EscalateBody, ExtractBody, DetectBody,
        AdjudicateBody, ComposeBody, ExamineBody, VerifyBody, BlockedBody, GateBody,
        CommitBody, row, TypeOK
  <2>5. ASSUME NEW u \in Thread, Load(u) \/ Raise(u)
        PROVE  status'[r] # "running"
    BY <2>2, <2>5 DEF Load, Raise, StatusAfterError, TypeOK
  <2>6. ASSUME NEW u \in Thread, NEW q \in Run, NEW a \in Answer, SubmitDecisions(u, q, a)
        PROVE  status'[r] # "running"
    BY <2>2, <2>6 DEF SubmitDecisions, row
  <2>7. ASSUME NEW u \in Thread,
               InvokeInput(u) \/ Enter(u) \/ WriteCheckpoint(u) \/ Park(u)
        PROVE  status'[r] # "running"
    BY <2>2, <2>7 DEF InvokeInput, Enter, WriteCheckpoint, Park, row
  <2>8. ASSUME ApiBoot
        PROVE  status'[r] # "running"
    BY <2>2, <2>8 DEF ApiBoot
  <2>9. ASSUME McpBoot \/ UNCHANGED vars \/ \E p \in Process : Crash(p)
        PROVE  status'[r] # "running"
    <3>1. status' = status
      BY <2>9 DEF McpBoot, Crash, vars, row
    <3> QED
      BY <2>2, <3>1
  <2> QED
    BY <1>1, <2>1, <2>3, <2>4, <2>5, <2>6, <2>7, <2>8, <2>9 DEF Next, Call, Proceed, Advance
<1>2. CASE thr'[t] # thr[t]
  <2>1. NodeBody(t)
    BY <1>2, ParksAfterItsBody
  <2>2. thr'[t].run = thr[t].run /\ thr[t].mem.next = "gate" /\ (EscalateBody(t) \/ GateBody(t))
    BY <2>1, AfterBody
  <2>3. GateBody(t) /\ thr[t].run \in Run
    BY <2>2, SaneThreads DEF EscalateBody, GateBody, InBody, Sane, Engaged
  <2>4. CASE status' = [status EXCEPT ![thr[t].run] = "awaiting_review"]
    BY <2>2, <2>3, <2>4 DEF TypeOK
  <2>5. CASE Finish(t, [thr[t].mem EXCEPT !.next = "commit"])
    BY <2>5, Finished
  <2> QED
    BY <2>3, <2>4, <2>5 DEF GateBody
<1> QED
  BY <1>1, <1>2

LEMMA ParkHolds == Spec /\ []OneDriver => [](TypeOK /\ StoryInv /\ ParkInv)
<1>1. Init => ParkInv
  BY DEF Init, ParkInv, Idle
<1> QED
  BY <1>1, ParkStep, StoryHolds, PTL DEF Spec

\* A step that leaves the row, the question and the drivers of a run as they
\* were does not make it stray.
LEMMA Elsewhere ==
  ASSUME NEW r \in Run, NEW t \in Thread, ~Drives(t, r),
         \A u \in Thread \ {t} : thr'[u] = thr[u],
         Stray(r)', status'[r] = status[r], pend'[r] = pend[r], up'["api"] = up["api"]
  PROVE  Stray(r)
BY DEF Stray, Drives

\* mark_interrupted_runs with the entry points' handling of exceptions: while
\* one thread at a time drives a run, its row is left claiming work that
\* nobody does only by an exception that start_run or resume_run lets through
\* or by the death of the MCP server, never by the death of the API.
THEOREM StraysAreLeftBehind == Spec /\ []OneDriver => StraysWereLeftBehind
<1>1. ASSUME TypeOK, StoryInv, ParkInv, [Next]_vars, NEW r \in Run, Stray(r)', ~Stray(r)
      PROVE  LeftBehind(r)
  <2>1. /\ status'[r] = "running" /\ pend'[r] # "escalate" /\ up'["api"]
        /\ \A t \in Thread : thr'[t].pc = "idle" \/ thr'[t].run # r
    BY <1>1 DEF Stray, Drives
  <2>2. ASSUME NEW t \in Thread, NEW q \in Run,
               \/ StartRun(t, q) \/ ResumeInterrupted(t, q)
               \/ \E a \in Answer : SubmitDecisions(t, q, a)
        PROVE  FALSE
    <3>1. /\ thr[t].pc = "idle" /\ thr'[t].pc # "idle" /\ thr'[t].run = q
          /\ \A u \in Thread \ {t} : thr'[u] = thr[u]
      BY <1>1, <2>2, AfterEntry
    <3>2. q # r
      BY <2>1, <3>1
    <3>3. status'[r] = status[r] /\ pend'[r] = pend[r] /\ up'["api"] = up["api"]
      BY <1>1, <2>2, <3>2
      DEF StartRun, ResumeInterrupted, SubmitDecisions, row, store, TypeOK
    <3> QED
      BY <1>1, <3>1, <3>3, Elsewhere DEF Drives
  <2>3. ASSUME NEW t \in Thread, InvokeInput(t) \/ Enter(t) \/ NodeBody(t)
        PROVE  FALSE
    <3>1. /\ thr'[t].pc # "idle" /\ thr'[t].run = thr[t].run
          /\ \A u \in Thread \ {t} : thr'[u] = thr[u]
      BY <1>1, <2>3, AfterBody, AfterStep
    <3>2. thr[t].run # r
      BY <2>1, <3>1
    <3>3. status'[r] = status[r] /\ pend'[r] = pend[r] /\ up'["api"] = up["api"]
      BY <1>1, <2>3, <3>2
      DEF InvokeInput, Enter, NodeBody, IngestBody, ClassifyBody, EscalateBody,
          ExtractBody, DetectBody, AdjudicateBody, ComposeBody, ExamineBody, VerifyBody,
          BlockedBody, GateBody, CommitBody, row, store, TypeOK
    <3> QED
      BY <1>1, <3>1, <3>2, <3>3, Elsewhere DEF Drives
  <2>4. ASSUME NEW t \in Thread, Load(t) \/ WriteCheckpoint(t) \/ Park(t) \/ Raise(t)
        PROVE  LeftBehind(r)
    <3>1. /\ thr[t].pc # "idle" /\ up' = up
          /\ \A u \in Thread \ {t} : thr'[u] = thr[u]
      <4>1. thr[t].pc # "idle" /\ up' = up
        BY <2>4 DEF Load, WriteCheckpoint, Park, Raise
      <4> QED
        BY <1>1, <2>4, <4>1, AfterStep
    <3>2. thr[t].run = r
      <4>1. thr[t].run # r => status'[r] = status[r] /\ pend'[r] = pend[r]
        BY <1>1, <2>4
        DEF Load, WriteCheckpoint, Park, Raise, StatusAfterError, row, store, TypeOK
      <4> QED
        BY <1>1, <3>1, <4>1, Elsewhere DEF Drives
    <3>3. Drives(t, r)
      BY <3>1, <3>2 DEF Drives
    <3>4. CASE Load(t)
      <4>1. ckpt[r].next \notin Node
        BY <1>1, <2>1, <3>2, <3>4, AfterStep
      <4>2. ckpt[r].next # "end"
        BY <1>1, <2>1, <3>2, <3>4 DEF Load, StoryInv, RowInv
      <4>3. ckpt[r].next = "none" /\ thr[t].kind # "resume"
        BY <1>1, <2>1, <3>2, <3>4, <4>1, <4>2 DEF Load, StatusAfterError, TypeOK
      <4> QED
        BY <3>3, <3>4, <4>3 DEF LeftBehind
    <3>5. CASE WriteCheckpoint(t)
      <4>1. thr[t].mem.next = "end"
        BY <1>1, <2>1, <3>2, <3>5, AfterStep
      <4>2. Waiting(t) /\ status'[r] = status[r]
        BY <1>1, <3>5 DEF WriteCheckpoint, StoryInv, DriverInv, row
      <4> QED
        BY <2>1, <3>2, <4>1, <4>2 DEF Waiting, Edge
    <3>6. CASE Park(t)
      <4>1. thr[t].mem = ckpt[r] /\ thr[t].mem.next \in {"escalate", "gate"}
        BY <1>1, <3>2, <3>6, SaneThreads DEF Park, StoryInv, DriverInv, Sane, Engaged
      <4>2. pend'[r] = thr[t].mem.next /\ status'[r] = status[r]
        BY <1>1, <3>2, <3>6, <4>1 DEF Park, TypeOK, row
      <4> QED
        BY <1>1, <2>1, <3>2, <3>6, <4>1, <4>2 DEF ParkInv, Park
    <3>7. CASE Raise(t)
      <4>1. thr[t].kind # "resume"
        BY <1>1, <2>1, <3>2, <3>7 DEF Raise, StatusAfterError, TypeOK
      <4> QED
        BY <3>3, <3>7, <4>1 DEF LeftBehind
    <3> QED
      BY <2>4, <3>4, <3>5, <3>6, <3>7
  <2>5. ASSUME NEW p \in Process, Crash(p)
        PROVE  LeftBehind(r)
    <3>1. p = "mcp"
      BY <1>1, <2>1, <2>5 DEF Crash, Process, TypeOK
    <3>2. status'[r] = status[r] /\ pend'[r] = pend[r] /\ up'["api"] = up["api"]
      BY <1>1, <2>5, <3>1 DEF Crash, row, store, TypeOK
    <3>3. PICK t \in Thread : Drives(t, r)
      BY <1>1, <2>1, <3>2 DEF Stray
    <3>4. t \in McpThread
      BY <2>1, <2>5, <3>1, <3>3 DEF Crash, ProcessOf, Drives, Thread
    <3> QED
      BY <2>5, <3>1, <3>3, <3>4 DEF LeftBehind
  <2>6. ASSUME McpBoot \/ UNCHANGED vars
        PROVE  FALSE
    <3>1. status' = status /\ pend' = pend /\ thr' = thr
      BY <2>6 DEF McpBoot, vars, row, store
    <3>2. up'["api"] = up["api"]
      BY <1>1, <2>6 DEF McpBoot, vars, Process, TypeOK
    <3> QED
      BY <1>1, <3>1, <3>2 DEF Stray, Drives
  <2>7. ~ApiBoot
    BY <1>1, <2>1 DEF ApiBoot, Orphaned
  <2> QED
    BY <1>1, <2>2, <2>3, <2>4, <2>5, <2>6, <2>7 DEF Next, Call, Proceed, Advance
<1>2. TypeOK /\ StoryInv /\ ParkInv /\ [Next]_vars =>
        [\A r \in Run : Stray(r)' /\ ~Stray(r) => LeftBehind(r)]_vars
  BY <1>1
<1> QED
  BY <1>2, ParkHolds, PTL DEF Spec, StraysWereLeftBehind

\* The hypothesis of these theorems is met: one client at a time is a way to
\* run the service, with every crash and every boot still possible.
THEOREM SoloRunsHaveOneDriver == SoloSpec => Spec /\ []OneDriver
<1>1. Init => OneDriver
  BY DEF Init, OneDriver, Drives, Idle
<1>2. [SoloNext]_vars => [Next]_vars
  BY DEF SoloNext, Next
<1>3. ASSUME TypeOK, OneDriver, [SoloNext]_vars
      PROVE  OneDriver'
  <2>1. ASSUME NEW t \in Thread,
               Advance(t) \/ Raise(t)
        PROVE  /\ thr[t].pc # "idle" /\ (thr'[t].pc = "idle" \/ thr'[t].run = thr[t].run)
               /\ \A u \in Thread \ {t} : thr'[u] = thr[u]
    <3>1. thr[t].pc # "idle"
      BY <2>1
      DEF Advance, InvokeInput, Load, Enter, WriteCheckpoint, Park, Raise, NodeBody, InBody,
          IngestBody, ClassifyBody, EscalateBody, ExtractBody, DetectBody, AdjudicateBody,
          ComposeBody, ExamineBody, VerifyBody, BlockedBody, GateBody, CommitBody
    <3> QED
      BY <1>3, <2>1, <3>1, AfterBody, AfterStep DEF Advance
  <2>2. ASSUME NEW t \in Thread, NEW r \in Run, \A u \in Thread : ~Drives(u, r), Call(t, r)
        PROVE  OneDriver'
    <3>1. thr'[t].run = r /\ \A u \in Thread \ {t} : thr'[u] = thr[u]
      BY <1>3, <2>2, AfterEntry DEF Call
    <3> QED
      BY <1>3, <2>2, <3>1 DEF OneDriver, Drives
  <2>3. ASSUME NEW t \in Thread, Advance(t) \/ Raise(t)
        PROVE  OneDriver'
    BY <1>3, <2>1, <2>3 DEF OneDriver, Drives
  <2>4. ASSUME ApiBoot \/ McpBoot \/ UNCHANGED vars
        PROVE  OneDriver'
    <3>1. thr' = thr
      BY <2>4 DEF ApiBoot, McpBoot, vars
    <3> QED
      BY <1>3, <3>1 DEF OneDriver, Drives
  <2>5. ASSUME NEW p \in Process, Crash(p)
        PROVE  OneDriver'
    <3>1. \A t \in Thread : thr'[t].pc = "idle" \/ thr'[t] = thr[t]
      BY <2>5 DEF Crash, Idle
    <3> QED
      BY <1>3, <3>1 DEF OneDriver, Drives
  <2> QED
    BY <1>3, <2>2, <2>3, <2>4, <2>5 DEF SoloNext, Proceed
<1>4. TypeOK /\ OneDriver /\ [SoloNext]_vars => OneDriver'
  BY <1>3
<1> QED
  BY <1>1, <1>2, <1>4, TypeCorrect, PTL DEF SoloSpec, Spec

=============================================================================

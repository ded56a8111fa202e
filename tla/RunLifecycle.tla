---------------------------- MODULE RunLifecycle ----------------------------
(***************************************************************************)
(* A run of the register: the node graph of services/graph.py, the row of  *)
(* the run table, the checkpoint LangGraph writes after every node, and    *)
(* the threads that drive it (services/service.py, called by api/routes.py,*)
(* main.py and mcp_server.py).                                             *)
(*                                                                         *)
(* Every node commits its own database transaction and only then is the    *)
(* checkpoint written, so the two stores can disagree: a thread may die    *)
(* between them, and the node then runs again over its own output.  The    *)
(* API and the MCP server are two processes over one database; each may    *)
(* die alone, and only the API reclassifies orphaned rows when it boots.   *)
(*                                                                         *)
(* Data is abstracted to what the properties tell apart: a document, a     *)
(* fact or a section does not appear; findings are counted.                *)
(***************************************************************************)
EXTENDS Naturals, FiniteSets

CONSTANTS
  Run,          \* runs (thread id = run id, the default of start_run)
  ApiThread,    \* threads of the API process that can drive a run
  McpThread,    \* threads of the MCP server process
  Answer,       \* what a reviewer may submit: [1..MaxFindings -> Reply]
  NoAnswer,     \* sentinel: no reviewer value supplied
  NoRun,        \* sentinel: a thread that drives nothing
  NoStage,      \* sentinel: current_stage is NULL
  MaxFindings,  \* bound: findings one run accumulates
  MaxCalls,     \* bound: POST /resume and POST /decisions calls
  MaxCrashes,   \* bound: process deaths
  MaxErrors     \* bound: exceptions raised inside a node or a checkpoint

Reply == {"approved", "rejected", "absent"}

ASSUME BoundsAssumption ==
  /\ MaxFindings \in Nat
  /\ MaxCalls \in Nat
  /\ MaxCrashes \in Nat
  /\ MaxErrors \in Nat

ASSUME AnswerAssumption ==
  /\ Answer \subseteq [1..MaxFindings -> Reply]
  /\ NoAnswer \notin Answer

ASSUME ThreadAssumption ==
  /\ ApiThread \cap McpThread = {}
  /\ NoRun \notin Run

Thread == ApiThread \cup McpThread

Node == {"ingest", "classify", "escalate", "extract", "detect_conflicts",
         "adjudicate", "compose", "examine", "verify", "gate", "blocked",
         "commit"}

ASSUME StageAssumption == NoStage \notin Node

Process == {"api", "mcp"}
ProcessOf(t) == IF t \in ApiThread THEN "api" ELSE "mcp"

VARIABLES
  status,     \* run.status, "absent" before the row exists
  stage,      \* run.current_stage
  ckpt,       \* the latest checkpoint of the run's thread
  pend,       \* the interrupt persisted on that checkpoint
  thr,        \* what each thread is doing
  up,         \* which processes are alive
  sound,      \* whether the section versions of a run would pass verify_run
  commits,    \* how many commit transactions a run has had
  recorded,   \* the verdict batches those transactions wrote
  opened,     \* how many times a blocked run's findings were written
  submitted,  \* history: the answers submitted to a run, and what was next then
  calls, crashes, errors

row      == <<status, stage>>
store    == <<ckpt, pend>>
tables   == <<sound, commits, recorded, opened>>
budget   == <<calls, crashes, errors>>
vars     == <<status, stage, ckpt, pend, thr, up, sound, commits, recorded,
              opened, submitted, calls, crashes, errors>>

(***************************************************************************)
(* The graph state a checkpoint holds (RunState, reduced).                 *)
(***************************************************************************)
GraphState ==
  [next      : Node \cup {"none", "end"},
   findings  : 0..MaxFindings,
   verified  : {"unset", "passed", "failed"},
   decisions : Answer \cup {NoAnswer}]

EmptyState == [next |-> "none", findings |-> 0, verified |-> "unset",
               decisions |-> NoAnswer]

Submission == [at : Node \cup {"none", "end"}, ans : Answer]

BatchOfSize(n) ==
  [findings  : {n},
   verified  : {"unset", "passed", "failed"},
   decisions : Answer \cup {NoAnswer},
   verdicts  : [1..n -> {"approved", "rejected"}]]

Batch == UNION {BatchOfSize(n) : n \in 0..MaxFindings}

Idle == [pc |-> "idle", run |-> NoRun, kind |-> "none", ans |-> NoAnswer,
         mem |-> EmptyState]

ThreadState ==
  [pc   : {"idle", "load", "input", "enter", "body", "ckpt", "park"},
   run  : Run \cup {NoRun},
   kind : {"none", "start", "resume", "answer"},
   ans  : Answer \cup {NoAnswer},
   mem  : GraphState]

Status == {"absent", "running", "awaiting_review", "completed", "failed",
           "interrupted"}

Init ==
  /\ status    = [r \in Run |-> "absent"]
  /\ stage     = [r \in Run |-> NoStage]
  /\ ckpt      = [r \in Run |-> EmptyState]
  /\ pend      = [r \in Run |-> "none"]
  /\ thr       = [t \in Thread |-> Idle]
  /\ up        = [p \in Process |-> TRUE]
  /\ sound     = [r \in Run |-> TRUE]
  /\ commits   = [r \in Run |-> 0]
  /\ recorded  = [r \in Run |-> {}]
  /\ opened    = [r \in Run |-> 0]
  /\ submitted = [r \in Run |-> {}]
  /\ calls = 0 /\ crashes = 0 /\ errors = 0

\* Thread t is now in state s.
Becomes(t, s) == thr' = [thr EXCEPT ![t] = s]

Free(t) == up[ProcessOf(t)] /\ thr[t] = Idle

Drives(t, r) == thr[t].pc # "idle" /\ thr[t].run = r

(***************************************************************************)
(* Entry points.                                                           *)
(***************************************************************************)

\* start_run: the row is committed before the graph is invoked.
StartRun(t, r) ==
  /\ Free(t)
  /\ status[r] = "absent"
  /\ status' = [status EXCEPT ![r] = "running"]
  /\ Becomes(t, [Idle EXCEPT !.pc = "input", !.run = r, !.kind = "start"])
  /\ UNCHANGED <<stage, store, up, tables, submitted, budget>>

\* graph.invoke(input): the input checkpoint, whose next node is ingest.
InvokeInput(t) ==
  LET r     == thr[t].run
      first == [EmptyState EXCEPT !.next = "ingest"]
  IN /\ thr[t].pc = "input"
     /\ ckpt' = [ckpt EXCEPT ![r] = first]
     /\ pend' = [pend EXCEPT ![r] = "none"]
     /\ Becomes(t, [thr[t] EXCEPT !.pc = "enter", !.mem = first])
     /\ UNCHANGED <<row, up, tables, submitted, budget>>

\* resume_run: no test of the row's status, and none of its own writes to it.
SubmitDecisions(t, r, a) ==
  /\ Free(t)
  /\ calls < MaxCalls
  /\ status[r] # "absent"
  /\ calls' = calls + 1
  /\ submitted' = [submitted EXCEPT ![r] = @ \cup
                                 {[at |-> ckpt[r].next, ans |-> a]}]
  /\ Becomes(t, [Idle EXCEPT !.pc = "load", !.run = r, !.kind = "answer",
                            !.ans = a])
  /\ UNCHANGED <<row, store, up, tables, crashes, errors>>

\* resume_interrupted, up to graph.invoke(None): the guard and the status
\* write are one transaction.
ResumeGuardDropped(r) == status[r] # "absent"
ResumeGuard(r) == status[r] \in {"interrupted", "running"}

ResumeInterrupted(t, r) ==
  /\ Free(t)
  /\ calls < MaxCalls
  /\ ResumeGuard(r)
  /\ calls' = calls + 1
  /\ status' = [status EXCEPT ![r] = "running"]
  /\ Becomes(t, [Idle EXCEPT !.pc = "load", !.run = r, !.kind = "resume"])
  /\ UNCHANGED <<stage, store, up, tables, submitted, crashes, errors>>

\* The except block of resume_interrupted; the other entry points let the
\* exception through and leave the row as it was.
StatusAfterErrorOutside(t) ==
  [status EXCEPT ![thr[t].run] = "escalated"]
StatusAfterError(t) ==
  IF thr[t].kind = "resume"
  THEN [status EXCEPT ![thr[t].run] = "interrupted"]
  ELSE status

(***************************************************************************)
(* What LangGraph does with the thread's latest checkpoint: a thread with  *)
(* no checkpoint has nothing to resume and raises; a finished one returns  *)
(* at once; otherwise the node that is next runs again from its start.     *)
(***************************************************************************)
ResumePointAtStart(r) == [EmptyState EXCEPT !.next = "ingest"]
ResumePoint(r) == ckpt[r]

Load(t) ==
  LET r == thr[t].run IN
  /\ thr[t].pc = "load"
  /\ \/ /\ ckpt[r].next = "none"
        /\ status' = StatusAfterError(t)
        /\ Becomes(t, Idle)
     \/ /\ ckpt[r].next = "end"
        /\ Becomes(t, Idle)
        /\ UNCHANGED status
     \/ /\ ckpt[r].next \in Node
        /\ Becomes(t, [thr[t] EXCEPT !.pc = "enter", !.mem = ResumePoint(r)])
        /\ UNCHANGED status
  /\ UNCHANGED <<stage, store, up, tables, submitted, budget>>

(***************************************************************************)
(* One superstep: announce the stage, run the node's transaction, write    *)
(* the checkpoint.                                                         *)
(***************************************************************************)

\* mark_stage in its own transaction; its failure is swallowed.
Enter(t) ==
  /\ thr[t].pc = "enter"
  /\ \/ /\ stage' = [stage EXCEPT ![thr[t].run] = thr[t].mem.next]
        /\ UNCHANGED errors
     \/ /\ errors < MaxErrors
        /\ errors' = errors + 1
        /\ UNCHANGED stage
  /\ Becomes(t, [thr[t] EXCEPT !.pc = "body"])
  /\ UNCHANGED <<status, store, up, tables, submitted, calls, crashes>>

InBody(t, n) == thr[t].pc = "body" /\ thr[t].mem.next = n

\* The node's transaction committed; its output waits for the checkpoint.
Finish(t, mem) == Becomes(t, [thr[t] EXCEPT !.pc = "ckpt", !.mem = mem])

\* Findings are only ever appended (the _merge reducer); the count saturates
\* at its bound.
Atleast(k) == k..MaxFindings

\* A node that may add findings before handing on to n.
AddFindings(t, n) ==
  \E k \in Atleast(thr[t].mem.findings) :
    Finish(t, [thr[t].mem EXCEPT !.findings = k, !.next = n])

\* ingest, extract, adjudicate, examine: unreadable documents, rejected
\* facts, confirmed contradictions and broken rules become findings.
IngestBody(t) ==
  /\ InBody(t, "ingest")
  /\ AddFindings(t, "classify")
  /\ UNCHANGED <<row, store, up, tables, submitted, budget>>

\* classify: every escalation also files a finding (route_after_classify).
ClassifyBody(t) ==
  /\ InBody(t, "classify")
  /\ \/ Finish(t, [thr[t].mem EXCEPT !.next = "extract"])
     \/ \E k \in Atleast(thr[t].mem.findings) \ {0} :
          Finish(t, [thr[t].mem EXCEPT !.findings = k, !.next = "escalate"])
  /\ UNCHANGED <<row, store, up, tables, submitted, budget>>

\* escalate: interrupt() comes before any write.
EscalateBody(t) ==
  /\ InBody(t, "escalate")
  /\ \/ /\ thr[t].ans = NoAnswer
        /\ Becomes(t, [thr[t] EXCEPT !.pc = "park"])
     \/ /\ thr[t].ans # NoAnswer
        /\ Finish(t, [thr[t].mem EXCEPT !.next = "extract"])
  /\ UNCHANGED <<row, store, up, tables, submitted, budget>>

ExtractBody(t) ==
  /\ InBody(t, "extract")
  /\ AddFindings(t, "detect_conflicts")
  /\ UNCHANGED <<row, store, up, tables, submitted, budget>>

\* detect_conflicts and route_after_detection: no candidate, no adjudication.
DetectBody(t) ==
  /\ InBody(t, "detect_conflicts")
  /\ \E n \in {"adjudicate", "compose"} :
       Finish(t, [thr[t].mem EXCEPT !.next = n])
  /\ UNCHANGED <<row, store, up, tables, submitted, budget>>

AdjudicateBody(t) ==
  /\ InBody(t, "adjudicate")
  /\ AddFindings(t, "compose")
  /\ UNCHANGED <<row, store, up, tables, submitted, budget>>

\* compose replaces the run's section versions; whether they will verify is
\* settled here, by what it wrote.
ComposeBody(t) ==
  /\ InBody(t, "compose")
  /\ \E s \in BOOLEAN : sound' = [sound EXCEPT ![thr[t].run] = s]
  /\ Finish(t, [thr[t].mem EXCEPT !.next = "examine"])
  /\ UNCHANGED <<row, store, up, commits, recorded, opened, submitted, budget>>

ExamineBody(t) ==
  /\ InBody(t, "examine")
  /\ AddFindings(t, "verify")
  /\ UNCHANGED <<row, store, up, tables, submitted, budget>>

\* route_after_verify: an absent verdict reads as passed.
AfterVerifyUnrouted(v) == "gate"
AfterVerify(v) == IF v = "failed" THEN "blocked" ELSE "gate"

\* verify: a failing report writes "failed" to the row in this transaction,
\* one node before `blocked` persists the reasons.
VerifyBody(t) ==
  /\ InBody(t, "verify")
  /\ \/ /\ sound[thr[t].run]
        /\ Finish(t, [thr[t].mem EXCEPT !.verified = "passed",
                                        !.next = AfterVerify("passed")])
        /\ UNCHANGED status
     \/ /\ ~sound[thr[t].run]
        /\ \E k \in Atleast(thr[t].mem.findings) \ {0} :
             Finish(t, [thr[t].mem EXCEPT !.verified = "failed",
                                          !.findings = k,
                                          !.next = AfterVerify("failed")])
        /\ status' = [status EXCEPT ![thr[t].run] = "failed"]
  /\ UNCHANGED <<stage, store, up, tables, submitted, budget>>

\* blocked: the findings are persisted as open, the run is closed as failed.
BlockedBody(t) ==
  LET r == thr[t].run IN
  /\ InBody(t, "blocked")
  /\ status' = [status EXCEPT ![r] = "failed"]
  /\ stage' = [stage EXCEPT ![r] = NoStage]
  /\ opened' = [opened EXCEPT ![r] = @ + 1]
  /\ Finish(t, [thr[t].mem EXCEPT !.next = "end"])
  /\ UNCHANGED <<store, up, sound, commits, recorded, submitted, budget>>

\* gate: nothing to review skips it; otherwise the row says awaiting_review
\* in a transaction of its own, then interrupt() parks or returns the answer.
NeedsReviewAboveOne(m) == m.findings > 1
NeedsReviewAlways(m) == m.findings >= 0
NeedsReview(m) == m.findings > 0

GateBody(t) ==
  LET r == thr[t].run IN
  /\ InBody(t, "gate")
  /\ \/ /\ ~NeedsReview(thr[t].mem)
        /\ Finish(t, [thr[t].mem EXCEPT !.next = "commit"])
        /\ UNCHANGED row
     \/ /\ NeedsReview(thr[t].mem)
        /\ status' = [status EXCEPT ![r] = "awaiting_review"]
        /\ stage' = [stage EXCEPT ![r] = NoStage]
        /\ \/ /\ thr[t].ans = NoAnswer
              /\ Becomes(t, [thr[t] EXCEPT !.pc = "park"])
           \/ /\ thr[t].ans # NoAnswer
              /\ Finish(t, [thr[t].mem EXCEPT !.decisions = thr[t].ans,
                                              !.next = "commit"])
  /\ UNCHANGED <<store, up, tables, submitted, budget>>

\* decisions.get(index, "approved"), and anything but "approved" rejects.
VerdictOfAbsentRejects(decisions, i) ==
  IF decisions # NoAnswer /\ decisions[i] = "approved"
  THEN "approved" ELSE "rejected"
VerdictOf(decisions, i) ==
  IF decisions = NoAnswer \/ decisions[i] \in {"approved", "absent"}
  THEN "approved" ELSE "rejected"

BatchOf(mem) ==
  [findings |-> mem.findings, verified |-> mem.verified,
   decisions |-> mem.decisions,
   verdicts |-> [i \in 1..mem.findings |-> VerdictOf(mem.decisions, i)]]

\* commit: Finding and Decision rows and the completed status, together.
CommitBody(t) ==
  LET r == thr[t].run IN
  /\ InBody(t, "commit")
  /\ commits' = [commits EXCEPT ![r] = @ + 1]
  /\ recorded' = [recorded EXCEPT ![r] = @ \cup {BatchOf(thr[t].mem)}]
  /\ status' = [status EXCEPT ![r] = "completed"]
  /\ stage' = [stage EXCEPT ![r] = NoStage]
  /\ Finish(t, [thr[t].mem EXCEPT !.next = "end"])
  /\ UNCHANGED <<store, up, sound, opened, submitted, budget>>

\* A resume value is spent by the superstep it was delivered to.
AnswerLeftUnspent(t) == thr[t].ans
AnswerLeft(t) == NoAnswer

\* durability="sync": the checkpoint lands before the next node starts.
WriteCheckpoint(t) ==
  LET r == thr[t].run
      m == thr[t].mem
  IN /\ thr[t].pc = "ckpt"
     /\ ckpt' = [ckpt EXCEPT ![r] = m]
     /\ pend' = [pend EXCEPT ![r] = "none"]
     /\ \/ m.next = "end" /\ Becomes(t, Idle)
        \/ /\ m.next # "end"
           /\ Becomes(t, [thr[t] EXCEPT !.pc = "enter", !.ans = AnswerLeft(t)])
     /\ UNCHANGED <<row, up, tables, submitted, budget>>

\* The interrupt is attached to the checkpoint this thread resumed from; if
\* another thread has moved the run on since, nobody will ever see it.
Park(t) ==
  LET r == thr[t].run IN
  /\ thr[t].pc = "park"
  /\ pend' = IF ckpt[r] = thr[t].mem
             THEN [pend EXCEPT ![r] = thr[t].mem.next] ELSE pend
  /\ Becomes(t, Idle)
  /\ UNCHANGED <<row, ckpt, up, tables, submitted, budget>>

(***************************************************************************)
(* Faults.                                                                 *)
(***************************************************************************)

\* An exception inside a node (its transaction rolls back) or while the
\* checkpoint is written (its transaction has already committed).
Raise(t) ==
  /\ thr[t].pc \in {"input", "body", "ckpt", "park"}
  /\ errors < MaxErrors
  /\ errors' = errors + 1
  /\ status' = StatusAfterError(t)
  /\ Becomes(t, Idle)
  /\ UNCHANGED <<stage, store, up, tables, submitted, calls, crashes>>

Crash(p) ==
  /\ up[p]
  /\ crashes < MaxCrashes
  /\ crashes' = crashes + 1
  /\ up' = [up EXCEPT ![p] = FALSE]
  /\ thr' = [t \in Thread |-> IF ProcessOf(t) = p THEN Idle ELSE thr[t]]
  /\ UNCHANGED <<row, store, tables, submitted, calls, errors>>

Orphaned(r) == status[r] = "running"

ApiBoot ==
  /\ ~up["api"]
  /\ up' = [up EXCEPT !["api"] = TRUE]
  /\ status' = [r \in Run |-> IF Orphaned(r) THEN "interrupted" ELSE status[r]]
  /\ stage' = [r \in Run |-> IF Orphaned(r) THEN NoStage ELSE stage[r]]
  /\ UNCHANGED <<store, thr, tables, submitted, budget>>

\* mcp_server.main reclassifies nothing.
McpBoot ==
  /\ ~up["mcp"]
  /\ up' = [up EXCEPT !["mcp"] = TRUE]
  /\ UNCHANGED <<row, store, thr, tables, submitted, budget>>

NodeBody(t) ==
  \/ IngestBody(t) \/ ClassifyBody(t) \/ EscalateBody(t) \/ ExtractBody(t)
  \/ DetectBody(t) \/ AdjudicateBody(t) \/ ComposeBody(t) \/ ExamineBody(t)
  \/ VerifyBody(t) \/ BlockedBody(t) \/ GateBody(t) \/ CommitBody(t)

\* Everything a live thread does on its own.
Advance(t) ==
  \/ InvokeInput(t) \/ Load(t) \/ Enter(t) \/ NodeBody(t)
  \/ WriteCheckpoint(t) \/ Park(t)

\* What clients ask for.
Call(t, r) ==
  \/ StartRun(t, r)
  \/ ResumeInterrupted(t, r)
  \/ \E a \in Answer : SubmitDecisions(t, r, a)

\* What happens by itself.
Proceed ==
  \/ \E t \in Thread : Advance(t) \/ Raise(t)
  \/ \E p \in Process : Crash(p)
  \/ ApiBoot
  \/ McpBoot

Next == (\E t \in Thread, r \in Run : Call(t, r)) \/ Proceed

Spec == Init /\ [][Next]_vars

\* A thread of a live process is scheduled.  Nothing in the repository starts a
\* dead process again, and nobody has to call an entry point.
Fairness == \A t \in Thread : WF_vars(Advance(t))

\* One client at a time: nobody calls for a run that a thread still drives.
SoloNext ==
  \/ \E t \in Thread, r \in Run : (\A u \in Thread : ~Drives(u, r)) /\ Call(t, r)
  \/ Proceed

SoloSpec == Init /\ [][SoloNext]_vars /\ Fairness

OneDriver ==
  \A r \in Run : \A t, u \in Thread : Drives(t, r) /\ Drives(u, r) => t = u

-----------------------------------------------------------------------------
(***************************************************************************)
(* Properties.                                                             *)
(***************************************************************************)

\* A busy thread has a run, and a node wherever its position needs one.
Engaged(s) ==
  /\ s.pc # "idle" => s.run \in Run
  /\ s.pc \in {"enter", "body"} => s.mem.next \in Node
  /\ s.pc = "ckpt" => s.mem.next # "none"
  /\ s.pc = "park" => s.mem.next \in {"escalate", "gate"}

\* Every variable stays in its type, and threads are where they can be.
TypeOK ==
  /\ status \in [Run -> Status]
  /\ stage \in [Run -> Node \cup {NoStage}]
  /\ ckpt \in [Run -> GraphState]
  /\ pend \in [Run -> {"none", "escalate", "gate"}]
  /\ thr \in [Thread -> ThreadState]
  /\ up \in [Process -> BOOLEAN]
  /\ sound \in [Run -> BOOLEAN]
  /\ commits \in [Run -> Nat]
  /\ recorded \in [Run -> SUBSET Batch]
  /\ opened \in [Run -> Nat]
  /\ submitted \in [Run -> SUBSET Submission]
  /\ calls \in Nat /\ crashes \in Nat /\ errors \in Nat
  /\ \A t \in Thread : Engaged(thr[t])

\* Unverified work never reaches the commit (route_after_verify), whatever
\* crashes, duplicate drivers or repeated submissions happen on the way.
OnlyVerifiedIsCommitted ==
  \A r \in Run : \A b \in recorded[r] : b.verified = "passed"

\* A run that had something to review is committed with verdicts that were
\* submitted for that very run: the gate cannot be skipped by a crash, by a
\* resume without a value, or by another run's answer.
OnlyReviewedIsCommitted ==
  \A r \in Run : \A b \in recorded[r] :
    b.findings > 0 => \E s \in submitted[r] : s.ans = b.decisions

\* A question shown at the review gate is about a register that passed its
\* verification, and is never an empty form (gate's docstring).
GateShowsVerifiedFindings ==
  \A r \in Run : pend[r] = "gate" =>
    /\ ckpt[r].next = "gate"
    /\ ckpt[r].verified = "passed"
    /\ ckpt[r].findings > 0

\* What the review question, its answer and the commit rest on, in every
\* copy of a run's graph state; given is what was submitted to the run.
Answered(given, a) == \E s \in given : s.ans = a

Trusted(m, given) ==
  /\ m.next \in {"gate", "commit"} => m.verified = "passed"
  /\ m.next = "commit" /\ m.findings > 0 => Answered(given, m.decisions)

\* A driving thread holds a trusted state and delivers an answer its run was
\* given; one about to park at the gate has something to show.
Honest(s, given) ==
  s.pc # "idle" =>
    /\ Trusted(s.mem, given[s.run])
    /\ s.ans # NoAnswer => Answered(given[s.run], s.ans)
    /\ s.pc = "park" /\ s.mem.next = "gate" => s.mem.findings > 0

\* The inductive form of the three invariants above.
GateInv ==
  /\ \A r \in Run : Trusted(ckpt[r], submitted[r])
  /\ \A t \in Thread : Honest(thr[t], submitted)
  /\ OnlyVerifiedIsCommitted
  /\ OnlyReviewedIsCommitted
  /\ GateShowsVerifiedFindings

Contract ==
  INSTANCE ReviewContract
    WITH Run <- Run, Submission <- Submission, Batch <- Batch,
         submitted <- submitted, recorded <- recorded

\* Whatever crashes, resumes and duplicate drivers do, what is submitted and
\* recorded is a behaviour of the gate's contract: every recorded batch was
\* verified, reviewed, and rejects exactly what its reviewer rejected.
KeepsTheContract == Contract!Spec

(***************************************************************************)
(* What holds while one thread at a time drives a run.                     *)
(***************************************************************************)
\* The verdicts committed were given to the review question: an answer to
\* "what is this document?" is never taken for a verdict (both arrive through
\* resume_run, in one envelope).
VerdictsAnswerTheReview ==
  \A r \in Run : \A b \in recorded[r] :
    b.findings > 0 => [at |-> "gate", ans |-> b.decisions] \in submitted[r]

\* The row and the checkpoint tell one story, although they are written by
\* different transactions: a completed run has committed and is at its last
\* edge, a parked one is at the gate or just past it with nothing committed,
\* a failed one is on the blocked path, and an unfinished one is not at END.
RowMatchesCheckpoint ==
  \A r \in Run :
    /\ status[r] = "completed" =>
         commits[r] > 0 /\ ckpt[r].next \in {"commit", "end"}
    /\ status[r] = "awaiting_review" =>
         commits[r] = 0 /\ ckpt[r].next \in {"gate", "commit"}
    /\ status[r] = "failed" =>
         commits[r] = 0 /\ ckpt[r].next \in {"verify", "blocked", "end"}
    /\ status[r] \in {"running", "interrupted"} => ckpt[r].next # "end"

\* The position of a node along the graph's edges.
Rank(n) ==
  CASE n = "none" -> 0 [] n = "ingest" -> 1 [] n = "classify" -> 2
    [] n = "escalate" -> 3 [] n = "extract" -> 4
    [] n = "detect_conflicts" -> 5 [] n = "adjudicate" -> 6
    [] n = "compose" -> 7 [] n = "examine" -> 8 [] n = "verify" -> 9
    [] n \in {"gate", "blocked"} -> 10 [] n = "commit" -> 11
    [] n = "end" -> 12

\* "Nothing completed is recomputed" (resume_interrupted): whatever crashes
\* and is resumed, the checkpoint never moves back along the graph.
NothingCheckpointedIsRecomputed ==
  [][\A r \in Run : Rank(ckpt'[r].next) >= Rank(ckpt[r].next)]_vars

\* A run at END is closed: no resume, no resubmitted decision and no restart
\* writes its row or its findings again (test_a_finished_run_cannot_be_resumed).
FinishedIsFinal ==
  [][\A r \in Run : ckpt[r].next = "end" =>
       /\ status'[r] = status[r]
       /\ commits'[r] = commits[r]
       /\ opened'[r] = opened[r]]_vars

(***************************************************************************)
(* Liveness.                                                               *)
(***************************************************************************)

\* The row claims work in progress while nobody works, nobody is asked a
\* question, and the API is up and will not look at it before its next start.
Stray(r) ==
  /\ status[r] = "running"
  /\ pend[r] # "escalate"
  /\ up["api"]
  /\ \A t \in Thread : ~Drives(t, r)

\* The ways the driver of a run may leave its row behind: an exception that
\* start_run or resume_run lets through (one of them is an answer to a run
\* without a checkpoint), or the death of the MCP server.
LeftBehind(r) ==
  \E t \in Thread :
    /\ Drives(t, r)
    /\ \/ thr[t].kind # "resume" /\ Raise(t)
       \/ thr[t].kind # "resume" /\ Load(t) /\ ckpt[r].next = "none"
       \/ t \in McpThread /\ Crash("mcp")

\* Only those make a row stray: any death of the API, at any step, is made
\* good when it starts again, and no driver ends without closing its row.
StraysWereLeftBehind ==
  [][\A r \in Run : Stray(r)' /\ ~Stray(r) => LeftBehind(r)]_vars


=============================================================================

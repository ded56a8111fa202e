------------------------------ MODULE Publish ------------------------------
(***************************************************************************)
(* Publishing the register as a document: services/publish.py over         *)
(* integrations/superdocs.py.  A publish exports the document, compares    *)
(* the revision of every section with the register's, asks for one edit    *)
(* per section that differs or is no longer there, approves what the       *)
(* service proposes, and reads the document back before it says            *)
(* "published".                                                            *)
(*                                                                         *)
(* The service is external.  One job at a time is active in a session; a   *)
(* job proposes changes, waits for their approval, and applies them some   *)
(* time after the approval was answered.  Its editing model may propose    *)
(* nothing, or a change to a section it was not asked about.               *)
(***************************************************************************)
EXTENDS Naturals, FiniteSets

CONSTANTS
  Section,      \* sections, by the marker that addresses them
  Content,      \* what a section may say, by revision (content hash)
  None,         \* sentinel: the register, or the document, lacks the section
  Value,        \* the values sections state
  ValueOf,      \* the value of a content; None where nothing governs
  Shown,        \* every value that appears in its text (superseded ones too)
  Register,     \* the registers of the runs one may publish
  Publisher,    \* callers of publish, in any process
  MaxPublishes, \* bound: publishes started
  MaxTroubles   \* bound: calls that fail, jobs that do not do what they were
                \* asked, publishers that die

Text == [Section -> Content \cup {None}]

ASSUME PublishAssumption ==
  /\ None \notin Content \cup Value \cup Section
  /\ ValueOf \in [Content -> Value \cup {None}]
  /\ Shown \in [Content -> SUBSET Value]
  /\ \A c \in Content : ValueOf[c] # None => ValueOf[c] \in Shown[c]
  /\ Register \subseteq Text \ {[s \in Section |-> None]}

ASSUME PublishBounds ==
  /\ MaxPublishes \in Nat
  /\ MaxTroubles \in Nat

VARIABLES
  doc,        \* what the published document says
  uploaded,   \* the session holds a document
  jobs,       \* the last job each publisher started
  pub,        \* what each publisher is doing, and its last report
  publishes, troubles,
  calm        \* history: nothing failed or timed out so far, and no publish
              \* read or replaced the document under another's active job

session == <<doc, uploaded, jobs>>
vars == <<doc, uploaded, jobs, pub, publishes, troubles, calm>>

Change == [sec : Section, to : Content \cup {None}]

JobState == {"none", "working", "awaiting", "applying", "ended", "failed"}
Active == {"working", "awaiting", "applying"}

Job == [st : JobState, ask : Change \cup {None},
        pending : SUBSET Change, granted : SUBSET Change]

NoJob == [st |-> "none", ask |-> None, pending |-> {}, granted |-> {}]

Blank == [s \in Section |-> None]

Resting == [pc |-> "idle", reg |-> Blank, full |-> FALSE, remove |-> {},
            write |-> {}, item |-> None, edited |-> {}, failed |-> FALSE,
            outcome |-> "none", alone |-> FALSE]

Working == {"list", "upload", "plan", "drive", "propose", "poll", "decide",
            "settle", "check"}

PubState ==
  [pc : Working \cup {"idle", "done"}, reg : Register \cup {Blank},
   full : BOOLEAN, remove : SUBSET Section, write : SUBSET Section,
   item : Section \cup {None}, edited : SUBSET Section, failed : BOOLEAN,
   outcome : {"none", "degraded", "raised", "noop", "published", "unpublished"},
   alone : BOOLEAN]

\* Nothing published yet, or the document an earlier publish left.
Init ==
  /\ doc \in Register \cup {Blank}
  /\ uploaded = (doc # Blank)
  /\ jobs = [p \in Publisher |-> NoJob]
  /\ pub = [p \in Publisher |-> Resting]
  /\ publishes = 0 /\ troubles = 0
  /\ calm = TRUE

Busy == \E q \in Publisher : jobs[q].st \in Active

Present(reg) == {s \in Section : reg[s] # None}

At(p, pc) == pub[p].pc = pc
Set(p, s) == pub' = [pub EXCEPT ![p] = s]
Goes(p, pc) == Set(p, [pub[p] EXCEPT !.pc = pc])
Ends(p, outcome) ==
  Set(p, [pub[p] EXCEPT !.pc = "done", !.outcome = outcome])

Trouble == troubles < MaxTroubles /\ troubles' = troubles + 1 /\ calm' = FALSE
NoTrouble == UNCHANGED <<troubles, calm>>
Overlap == calm' = (calm /\ ~Busy) /\ UNCHANGED troubles

\* SuperDocsUnavailable degrades to a rendered document; SuperDocsError is
\* the caller's to see.
Gives(p) == \E outcome \in {"degraded", "raised"} : Ends(p, outcome)

(***************************************************************************)
(* publish, up to the first write.                                         *)
(***************************************************************************)
Begin(p, reg, full) ==
  LET others == {q \in Publisher \ {p} : pub[q].pc \in Working} IN
  /\ pub[p].pc \in {"idle", "done"}
  /\ publishes < MaxPublishes
  /\ publishes' = publishes + 1
  /\ pub' = [q \in Publisher |->
               IF q = p
               THEN [Resting EXCEPT !.pc = "list", !.reg = reg, !.full = full,
                                    !.alone = (others = {})]
               ELSE [pub[q] EXCEPT !.alone = FALSE]]
  /\ calm' = (calm /\ others = {})
  /\ UNCHANGED <<session, troubles>>

\* _existing_document: no document, or a forced publish, uploads the whole.
ListDocuments(p) ==
  /\ At(p, "list")
  /\ \/ Goes(p, IF uploaded /\ ~pub[p].full THEN "plan" ELSE "upload") /\ NoTrouble
     \/ Trouble /\ Gives(p)
  /\ UNCHANGED <<session, publishes>>

\* upload_markdown; a lost answer may hide an upload that landed.
Upload(p) ==
  /\ At(p, "upload")
  /\ \/ /\ doc' = pub[p].reg /\ uploaded' = TRUE
        /\ \/ /\ Set(p, [pub[p] EXCEPT !.pc = "settle",
                                      !.edited = Present(pub[p].reg)])
              /\ Overlap
           \/ Trouble /\ Gives(p)
     \/ Trouble /\ Gives(p) /\ UNCHANGED <<doc, uploaded>>
  /\ UNCHANGED <<jobs, publishes>>

\* reconcile_against, by revision.
ToWriteByValue(reg) ==
  {s \in Present(reg) :
     doc[s] = None \/ ValueOf[doc[s]] # ValueOf[reg[s]]}
ToWrite(reg) == {s \in Present(reg) : doc[s] # reg[s]}
ToRemove(reg) == Present(doc) \ Present(reg)

\* The export the plan is made from; nothing waits for the session here.
Plan(p) ==
  LET w == ToWrite(pub[p].reg)
      d == ToRemove(pub[p].reg)
  IN /\ At(p, "plan")
     /\ \/ /\ w = {} /\ d = {}
           /\ Ends(p, "noop") /\ Overlap
        \/ /\ w # {} \/ d # {}
           /\ Set(p, [pub[p] EXCEPT !.pc = "drive", !.write = w, !.remove = d])
           /\ Overlap
        \/ Trouble /\ Gives(p)
     /\ UNCHANGED <<session, publishes>>

(***************************************************************************)
(* _apply: removals, then rewrites, each waited for, proposed and decided. *)
(***************************************************************************)
Removing(p) == pub[p].remove # {}
Items(p) == IF Removing(p) THEN pub[p].remove ELSE pub[p].write

\* One item failed, and the loop goes on to the next.
ItemFails(p, s) ==
  Set(p, [pub[p] EXCEPT !.pc = "drive", !.item = None, !.failed = TRUE,
                        !.remove = @ \ {s},
                        !.write = IF Removing(p) THEN @ ELSE @ \ {s}])

\* The service is gone: the loop the item is in breaks off.
BreaksOff(p) ==
  Set(p, [pub[p] EXCEPT !.pc = "drive", !.item = None, !.failed = TRUE,
                        !.remove = {},
                        !.write = IF Removing(p) THEN @ ELSE {}])

ItemDone(p, s) ==
  Set(p, [pub[p] EXCEPT
            !.pc = "drive", !.item = None,
            !.remove = @ \ {s},
            !.write = IF Removing(p) THEN @ ELSE @ \ {s},
            !.edited = IF Removing(p) THEN @ ELSE @ \cup {s}])

CallFails(p, s) == Trouble /\ (ItemFails(p, s) \/ BreaksOff(p))

\* wait_until_idle gives up when the session stays busy past its deadline.
GivesUpNever(p) == FALSE
GivesUpWaiting(p) == Busy

TimesOut(p) == GivesUpWaiting(p) /\ calm' = FALSE /\ UNCHANGED troubles

NextItem(p) ==
  /\ At(p, "drive")
  /\ \/ Items(p) = {} /\ Goes(p, "settle") /\ NoTrouble
     \/ \E s \in Items(p) :
          \/ /\ ~Busy
             /\ Set(p, [pub[p] EXCEPT !.pc = "propose", !.item = s])
             /\ NoTrouble
          \/ TimesOut(p) /\ ItemFails(p, s)
          \/ CallFails(p, s)
  /\ UNCHANGED <<session, publishes>>

Asked(p) ==
  [sec |-> pub[p].item,
   to |-> IF Removing(p) THEN None ELSE pub[p].reg[pub[p].item]]

\* propose: a busy session answers 409; a lost answer leaves the job behind.
StartJob(p) ==
  jobs' = [jobs EXCEPT ![p] = [NoJob EXCEPT !.st = "working", !.ask = Asked(p)]]

Propose(p) ==
  /\ At(p, "propose")
  /\ \/ ~Busy /\ StartJob(p) /\ Goes(p, "poll") /\ NoTrouble
     \/ ~Busy /\ StartJob(p) /\ CallFails(p, pub[p].item)
     \/ CallFails(p, pub[p].item) /\ UNCHANGED jobs
     \/ /\ Busy
        /\ ItemFails(p, pub[p].item)
        /\ NoTrouble /\ UNCHANGED jobs
  /\ UNCHANGED <<doc, uploaded, publishes>>

\* _wait_for_job: until the job is awaiting, ended or failed, or too late.
Poll(p) ==
  /\ At(p, "poll")
  /\ \/ jobs[p].st = "awaiting" /\ Goes(p, "decide") /\ NoTrouble
     \/ jobs[p].st = "ended" /\ ItemDone(p, pub[p].item) /\ NoTrouble
     \/ jobs[p].st = "failed" /\ ItemFails(p, pub[p].item) /\ NoTrouble
     \/ /\ jobs[p].st = "working"
        /\ ItemFails(p, pub[p].item)
        /\ calm' = FALSE /\ UNCHANGED troubles
     \/ CallFails(p, pub[p].item)
  /\ UNCHANGED <<session, publishes>>

\* decide, once per pending change; the last approval starts the applying.
ApproveWholeJob(p, c) ==
  jobs' = [jobs EXCEPT ![p].pending = {},
                       ![p].granted = jobs[p].pending,
                       ![p].st = "applying"]
Approve(p, c) ==
  LET left == jobs[p].pending \ {c} IN
  jobs' = [jobs EXCEPT ![p].pending = left,
                       ![p].granted = @ \cup {c},
                       ![p].st = IF left = {} THEN "applying" ELSE @]

Decide(p) ==
  /\ At(p, "decide")
  /\ \E c \in jobs[p].pending :
       \/ /\ Approve(p, c)
          /\ \/ jobs[p].pending # {c} /\ UNCHANGED pub
             \/ jobs[p].pending = {c} /\ ItemDone(p, pub[p].item)
          /\ NoTrouble
       \/ Approve(p, c) /\ CallFails(p, pub[p].item)
       \/ CallFails(p, pub[p].item) /\ UNCHANGED jobs
  /\ UNCHANGED <<doc, uploaded, publishes>>

(***************************************************************************)
(* _verify_published.                                                      *)
(***************************************************************************)

\* Nothing edited is nothing verified, a register that only lost sections
\* included; otherwise the session is waited for.
ReadsAtOnce == TRUE
ReadsWhen == ~Busy

Settle(p) ==
  /\ At(p, "settle")
  /\ \/ pub[p].edited = {} /\ Ends(p, "unpublished") /\ NoTrouble
     \/ /\ pub[p].edited # {}
        /\ \/ ReadsWhen /\ Goes(p, "check") /\ NoTrouble
           \/ TimesOut(p) /\ Ends(p, "unpublished")
           \/ Trouble /\ Ends(p, "unpublished")
  /\ UNCHANGED <<session, publishes>>

\* A section matches when its text has the value; one without a value always.
HeadingIsThere(s, c) == doc[s] # None
Matches(s, c) ==
  doc[s] # None /\ (ValueOf[c] # None => ValueOf[c] \in Shown[doc[s]])

Check(p) ==
  /\ At(p, "check")
  /\ \/ /\ Ends(p, IF /\ ~pub[p].failed
                      /\ \A s \in pub[p].edited : Matches(s, pub[p].reg[s])
                   THEN "published" ELSE "unpublished")
        /\ NoTrouble
     \/ Trouble /\ Ends(p, "unpublished")
  /\ UNCHANGED <<session, publishes>>

(***************************************************************************)
(* The service, and the death of a publisher.                              *)
(***************************************************************************)

\* A removal of what is not there changes nothing, as it was told.
Idle(ask) == ask.to = None /\ doc[ask.sec] = None

Offers(p, changes) ==
  jobs' = [jobs EXCEPT ![p].pending = changes,
                       ![p].st = IF changes = {} THEN "ended" ELSE "awaiting"]

JobSettles(p) ==
  LET ask == jobs[p].ask
      strays == {[ask EXCEPT !.sec = s] : s \in Present(doc) \ {ask.sec}}
  IN /\ jobs[p].st = "working"
     /\ \/ /\ Offers(p, IF Idle(ask) THEN {} ELSE {ask})
           /\ NoTrouble
        \/ Trouble /\ \E C \in {{}} \cup {{c} : c \in strays}
                             \cup {{c, ask} : c \in strays} : Offers(p, C)
        \/ Trouble /\ jobs' = [jobs EXCEPT ![p].st = "failed"]
     /\ UNCHANGED <<doc, uploaded, pub, publishes>>

JobApplies(p) ==
  LET granted == jobs[p].granted IN
  /\ jobs[p].st = "applying"
  /\ doc' = [s \in Section |->
               IF \E c \in granted : c.sec = s
               THEN (CHOOSE c \in granted : c.sec = s).to ELSE doc[s]]
  /\ jobs' = [jobs EXCEPT ![p].st = "ended"]
  /\ UNCHANGED <<uploaded, pub, publishes, troubles, calm>>

Crash(p) ==
  /\ pub[p].pc \in Working
  /\ Trouble
  /\ Set(p, Resting)
  /\ UNCHANGED <<session, publishes>>

Step(p) ==
  \/ ListDocuments(p) \/ Upload(p) \/ Plan(p) \/ NextItem(p) \/ Propose(p)
  \/ Poll(p) \/ Decide(p) \/ Settle(p) \/ Check(p)

Service(p) == JobSettles(p) \/ JobApplies(p)

Next ==
  \E p \in Publisher :
    \/ \E reg \in Register, full \in BOOLEAN : Begin(p, reg, full)
    \/ Step(p) \/ Service(p) \/ Crash(p)

Spec == Init /\ [][Next]_vars

\* A publisher's thread is scheduled; of the service nothing is assumed.
FairSpec == Spec /\ \A p \in Publisher : WF_vars(Step(p))

-----------------------------------------------------------------------------
\* Every variable stays in its type, a publisher addresses an item exactly
\* while it drives one, and what it is about to decide is still undecided:
\* _drive decides each returned change once.
TypeOK ==
  /\ doc \in Text
  /\ uploaded \in BOOLEAN
  /\ jobs \in [Publisher -> Job]
  /\ pub \in [Publisher -> PubState]
  /\ publishes \in Nat /\ troubles \in Nat
  /\ calm \in BOOLEAN
  /\ \A p \in Publisher :
       /\ pub[p].item # None <=> pub[p].pc \in {"propose", "poll", "decide"}
       /\ At(p, "decide") => jobs[p].pending # {}

Reports(p, outcome) == pub[p].pc = "done" /\ pub[p].outcome = outcome

\* The document holds a heading for the section with the value somewhere
\* under it.
Holds(s, c) ==
  doc[s] # None /\ (ValueOf[c] # None => ValueOf[c] \in Shown[doc[s]])

\* "Published" is true of the document, and stays true until somebody else
\* publishes: every section edited is there with its value, although edits
\* are applied after they are approved, calls fail, the service edits the
\* wrong section, and jobs of publishers that died may still be under way.
PublishedIsTrue ==
  \A p \in Publisher :
    Reports(p, "published") /\ pub[p].alone =>
      \A s \in pub[p].edited : Holds(s, pub[p].reg[s])

\* A check that fails the good case is worse than none: where nothing fails
\* and nobody interferes, a publish that edited anything is not reported as
\* failed, although approve answers before the change is applied.
NoFalseAlarm ==
  calm => \A p \in Publisher :
            Reports(p, "unpublished") => pub[p].edited = {}

\* A publish that was not disturbed leaves the document saying exactly what
\* the register says, once the last job has been applied: what differs is
\* rewritten, what the register dropped is gone (also when the report could
\* not say "published"), and a no-op is one.
UndisturbedPublishConverges ==
  calm /\ ~Busy =>
    \A p \in Publisher :
      pub[p].pc = "done" /\ pub[p].alone => doc = pub[p].reg

\* A publish comes to an end whatever the service does: every wait has a
\* ceiling, also in a session that holds a proposal nobody will ever decide.
PublishEnds ==
  \A p \in Publisher : pub[p].pc \in Working ~> pub[p].pc \notin Working

=============================================================================

--------------------------- MODULE Publish_proofs ---------------------------
(***************************************************************************)
(* Proofs about Publish, for any sections, contents, registers, publishers *)
(* and bounds.                                                             *)
(***************************************************************************)
EXTENDS Publish, TLAPS

(***************************************************************************)
(* Jobs and publishers, one by one.                                        *)
(***************************************************************************)

\* A job that works was asked for something, one that waits waits for
\* something.
JobFine(j) ==
  /\ j \in Job
  /\ j.st = "working" => j.ask \in Change
  /\ j.st = "awaiting" => j.pending # {}

PubFine(s, j) ==
  /\ s \in PubState
  /\ s.item # None <=> s.pc \in {"propose", "poll", "decide"}
  /\ s.pc = "decide" => j.st = "awaiting"

Fine ==
  /\ doc \in Text
  /\ uploaded \in BOOLEAN /\ calm \in BOOLEAN
  /\ publishes \in Nat /\ troubles \in Nat
  /\ jobs \in [Publisher -> Job]
  /\ pub \in [Publisher -> PubState]
  /\ \A p \in Publisher : JobFine(jobs[p]) /\ PubFine(pub[p], jobs[p])

(***************************************************************************)
(* A publish that nobody joined since it began.                            *)
(***************************************************************************)
AloneInv ==
  /\ \A p, q \in Publisher : pub[p].alone /\ q # p => pub[q].pc \notin Working
  /\ calm => \A p \in Publisher : pub[p].pc \in Working => pub[p].alone

\* The document is read when no job is active, and stays as it was read.
ReadInv ==
  \A p \in Publisher :
    pub[p].alone /\ (pub[p].pc = "check" \/ Reports(p, "published")) => ~Busy

(***************************************************************************)
(* A publish that nothing disturbed.                                       *)
(***************************************************************************)
Owed(s) == s.remove \cup s.write
Order(s, x) == [sec |-> x, to |-> s.reg[x]]

\* What is not owed any more is in the document, or about to be.
Paid(s, j, d) ==
  \A x \in Section \ Owed(s) :
    d[x] = s.reg[x] \/ (j.st = "applying" /\ j.granted = {Order(s, x)})

Early == {"list", "upload", "plan"}
Driving == {"propose", "poll", "decide"}
Between == {"drive", "settle", "check", "done"}

TidyWork(s) ==
  /\ s.failed = FALSE
  /\ s.remove \cap Present(s.reg) = {} /\ s.write \subseteq Present(s.reg)
  /\ s.edited \subseteq Present(s.reg) \ Owed(s)
  /\ s.pc \in Early => s.edited = {}
  /\ s.pc \in Early \cup {"settle", "check", "done"} => Owed(s) = {}

TidyJob(s, j, d) ==
  /\ s.pc \in Between =>
       /\ j.st \notin {"working", "awaiting"}
       /\ j.st = "applying" =>
            \E x \in Section \ Owed(s) : j.granted = {Order(s, x)}
  /\ s.pc \in Driving =>
       s.item \in IF s.remove # {} THEN s.remove ELSE s.write
  /\ s.pc = "propose" => j.st \notin Active
  /\ s.pc \in {"poll", "decide"} =>
       /\ j.st \in {"working", "awaiting", "ended"}
       /\ j.ask = Order(s, s.item)
       /\ j.granted = {}
       /\ j.st = "awaiting" => j.pending = {j.ask}
       /\ j.st = "ended" => d[s.item] = s.reg[s.item]

Tidy(s, j, d) ==
  /\ TidyWork(s)
  /\ s.pc \notin Early => Paid(s, j, d) /\ TidyJob(s, j, d)

OthersRest(p) == \A q \in Publisher \ {p} : jobs[q].st \notin Active

CalmInv ==
  calm =>
    /\ \A p \in Publisher :
         pub[p].alone /\ pub[p].pc # "idle" =>
           /\ Tidy(pub[p], jobs[p], doc)
           /\ pub[p].pc \notin Early => OthersRest(p)
    /\ NoFalseAlarm

IInv == Fine /\ AloneInv /\ ReadInv /\ PublishedIsTrue /\ CalmInv


-----------------------------------------------------------------------------
(***************************************************************************)
(* What happens to a publisher's record, field by field.                   *)
(***************************************************************************)
SameWork(s, r) ==
  /\ r \in PubState
  /\ r.reg = s.reg /\ r.alone = s.alone
  /\ r.remove = s.remove /\ r.write = s.write
  /\ r.edited = s.edited /\ r.failed = s.failed

Moves(s, r, pc) == SameWork(s, r) /\ r.pc = pc /\ r.item = s.item

EndsAs(s, r, outcome) ==
  SameWork(s, r) /\ r.pc = "done" /\ r.item = s.item /\ r.outcome = outcome

TakesUp(s, r, x) == SameWork(s, r) /\ r.pc = "propose" /\ r.item = x

BackToLoop(s, r) ==
  /\ r \in PubState
  /\ r.reg = s.reg /\ r.alone = s.alone
  /\ r.pc = "drive" /\ r.item = None

Fails(s, r) == BackToLoop(s, r) /\ r.failed = TRUE

Completes(s, r) ==
  /\ BackToLoop(s, r)
  /\ r.failed = s.failed
  /\ r.remove = s.remove \ {s.item}
  /\ r.write = IF s.remove # {} THEN s.write ELSE s.write \ {s.item}
  /\ r.edited = IF s.remove # {} THEN s.edited ELSE s.edited \cup {s.item}

\* Setting a publisher's place, or its place and its outcome.
LEMMA PlaceFields ==
  ASSUME NEW s \in PubState
  PROVE  /\ \A pc \in Working \cup {"idle", "done"} :
              Moves(s, [s EXCEPT !.pc = pc], pc)
         /\ \A outcome \in
               {"degraded", "raised", "noop", "published", "unpublished"} :
              EndsAs(s, [s EXCEPT !.pc = "done", !.outcome = outcome], outcome)
         /\ \A x \in Section :
              TakesUp(s, [s EXCEPT !.pc = "propose", !.item = x], x)
<1>1. ASSUME NEW pc \in Working \cup {"idle", "done"}
      PROVE  Moves(s, [s EXCEPT !.pc = pc], pc)
  <2> DEFINE r == [s EXCEPT !.pc = pc]
  <2>1. r \in PubState
    BY DEF PubState
  <2> QED
    BY <2>1 DEF PubState, Moves, SameWork
<1>2. ASSUME NEW o \in {"degraded", "raised", "noop", "published", "unpublished"}
      PROVE  EndsAs(s, [s EXCEPT !.pc = "done", !.outcome = o], o)
  <2> DEFINE r == [s EXCEPT !.pc = "done", !.outcome = o]
  <2>1. r \in PubState
    BY DEF PubState
  <2> QED
    BY <2>1 DEF PubState, EndsAs, SameWork
<1>3. ASSUME NEW x \in Section
      PROVE  TakesUp(s, [s EXCEPT !.pc = "propose", !.item = x], x)
  <2> DEFINE r == [s EXCEPT !.pc = "propose", !.item = x]
  <2>1. r \in PubState
    BY DEF PubState, Working
  <2> QED
    BY <2>1 DEF PubState, TakesUp, SameWork
<1> QED
  BY <1>1, <1>2, <1>3

\* Going back to the loop over the items, with or without the item done.
LEMMA FailsFields ==
  ASSUME NEW s \in PubState, NEW w \in SUBSET Section, NEW d \in SUBSET Section
  PROVE  Fails(s, [s EXCEPT !.pc = "drive", !.item = None, !.failed = TRUE,
                            !.remove = d, !.write = w])
<1> DEFINE r == [s EXCEPT !.pc = "drive", !.item = None, !.failed = TRUE,
                          !.remove = d, !.write = w]
<1>1. r \in PubState
  BY DEF PubState, Working
<1> QED
  BY <1>1 DEF PubState, BackToLoop, Fails

AfterItem(s, d, w, e) ==
  [s EXCEPT !.pc = "drive", !.item = None, !.remove = d, !.write = w,
            !.edited = e]

LEMMA CompletesFields ==
  ASSUME NEW s \in PubState, NEW d \in SUBSET Section, NEW w \in SUBSET Section,
         NEW e \in SUBSET Section
  PROVE  LET r == AfterItem(s, d, w, e)
         IN /\ BackToLoop(s, r)
            /\ r.failed = s.failed /\ r.remove = d
            /\ r.write = w /\ r.edited = e
<1> DEFINE r == AfterItem(s, d, w, e)
<1>1. r \in PubState
  BY DEF PubState, Working, AfterItem
<1> QED
  BY <1>1 DEF PubState, BackToLoop, AfterItem

(***************************************************************************)
(* What a step does, in those terms.  Others keep their records.           *)
(***************************************************************************)
Others(p) ==
  /\ pub' \in [Publisher -> PubState]
  /\ \A q \in Publisher \ {p} : pub'[q] = pub[q]

OtherJobs(p) ==
  /\ jobs' \in [Publisher -> Job]
  /\ \A q \in Publisher \ {p} : jobs'[q] = jobs[q]

Counted ==
  /\ uploaded' \in BOOLEAN /\ calm' \in BOOLEAN
  /\ publishes' \in Nat /\ troubles' \in Nat

Outcome == {"degraded", "raised", "noop", "published", "unpublished"}

LEMMA TroubleEffect ==
  ASSUME troubles \in Nat, Trouble
  PROVE  calm' = FALSE /\ calm' \in BOOLEAN /\ troubles' \in Nat
<1>1. calm' = FALSE /\ troubles' = troubles + 1
  BY Zenon DEF Trouble
<1>2. calm' \in BOOLEAN
  BY <1>1, Zenon
<1>3. troubles' \in Nat
  BY <1>1
<1> QED
  BY <1>1, <1>2, <1>3, Zenon

\* A publisher changes its own record only.
LEMMA GoesEffect ==
  ASSUME NEW p \in Publisher, pub \in [Publisher -> PubState],
         NEW pc \in Working \cup {"idle", "done"}, Goes(p, pc)
  PROVE  Moves(pub[p], pub'[p], pc) /\ Others(p)
<1> DEFINE s == [pub[p] EXCEPT !.pc = pc]
<1>0. pub[p] \in PubState
  OBVIOUS
<1>1. Moves(pub[p], s, pc) /\ s \in PubState
  BY <1>0, PlaceFields DEF Moves, SameWork
<1>2. Set(p, s)
  BY DEF Goes
<1> HIDE DEF s
<1> QED
  BY <1>1, <1>2 DEF Set, Others

LEMMA EndsEffect ==
  ASSUME NEW p \in Publisher, pub \in [Publisher -> PubState],
         NEW o \in Outcome, Ends(p, o)
  PROVE  EndsAs(pub[p], pub'[p], o) /\ Others(p)
<1> DEFINE s == [pub[p] EXCEPT !.pc = "done", !.outcome = o]
<1>0. pub[p] \in PubState
  OBVIOUS
<1>1. EndsAs(pub[p], s, o) /\ s \in PubState
  <2>1. o \in {"degraded", "raised", "noop", "published", "unpublished"}
    BY DEF Outcome
  <2>2. EndsAs(pub[p], s, o)
    BY <1>0, <2>1, PlaceFields
  <2> QED
    BY <2>2 DEF EndsAs, SameWork
<1>2. Set(p, s)
  BY DEF Ends
<1> HIDE DEF s
<1> QED
  BY <1>1, <1>2 DEF Set, Others

LEMMA GivesEffect ==
  ASSUME NEW p \in Publisher, pub \in [Publisher -> PubState], Gives(p)
  PROVE  /\ \E o \in {"degraded", "raised"} : EndsAs(pub[p], pub'[p], o)
         /\ Others(p)
<1>1. PICK o \in {"degraded", "raised"} : Ends(p, o)
  BY DEF Gives
<1> QED
  BY <1>1, EndsEffect DEF Outcome

LEMMA FailsEffect ==
  ASSUME NEW p \in Publisher, pub \in [Publisher -> PubState],
         NEW x \in Section \cup {None}, ItemFails(p, x) \/ BreaksOff(p)
  PROVE  Fails(pub[p], pub'[p]) /\ Others(p)
<1>0. /\ pub[p] \in PubState
      /\ pub[p].remove \in SUBSET Section /\ pub[p].write \in SUBSET Section
  BY DEF PubState
<1>1. PICK d \in SUBSET Section, w \in SUBSET Section :
        Set(p, [pub[p] EXCEPT !.pc = "drive", !.item = None, !.failed = TRUE,
                              !.remove = d, !.write = w])
  <2>1. CASE ItemFails(p, x)
    <3> DEFINE d == pub[p].remove \ {x}
               w == IF Removing(p) THEN pub[p].write ELSE pub[p].write \ {x}
    <3>1. d \in SUBSET Section /\ w \in SUBSET Section
      BY <1>0
    <3>2. Set(p, [pub[p] EXCEPT !.pc = "drive", !.item = None, !.failed = TRUE,
                                !.remove = d, !.write = w])
      BY <1>0, <2>1 DEF ItemFails, PubState
    <3> QED
      BY <3>1, <3>2
  <2>2. CASE BreaksOff(p)
    <3> DEFINE w == IF Removing(p) THEN pub[p].write ELSE {}
    <3>1. w \in SUBSET Section
      BY <1>0
    <3>2. Set(p, [pub[p] EXCEPT !.pc = "drive", !.item = None, !.failed = TRUE,
                                !.remove = {}, !.write = w])
      BY <1>0, <2>2 DEF BreaksOff, PubState
    <3> QED
      BY <3>1, <3>2
  <2> QED
    BY <2>1, <2>2
<1> DEFINE s == [pub[p] EXCEPT !.pc = "drive", !.item = None, !.failed = TRUE,
                               !.remove = d, !.write = w]
<1>2. Fails(pub[p], s) /\ s \in PubState
  <2>1. Fails(pub[p], s)
    BY <1>0, FailsFields
  <2> QED
    BY <2>1 DEF Fails, BackToLoop
<1> HIDE DEF s
<1> QED
  BY <1>1, <1>2 DEF Set, Others, s

LEMMA DoneEffect ==
  ASSUME NEW p \in Publisher, pub \in [Publisher -> PubState],
         pub[p].item \in Section, ItemDone(p, pub[p].item)
  PROVE  Completes(pub[p], pub'[p]) /\ Others(p)
<1> DEFINE x == pub[p].item
           d == pub[p].remove \ {x}
           w == IF Removing(p) THEN pub[p].write ELSE pub[p].write \ {x}
           e == IF Removing(p) THEN pub[p].edited ELSE pub[p].edited \cup {x}
           s == AfterItem(pub[p], d, w, e)
<1>0. /\ pub[p] \in PubState
      /\ d \in SUBSET Section /\ w \in SUBSET Section /\ e \in SUBSET Section
  BY DEF PubState
<1>1. Set(p, s)
  BY <1>0 DEF ItemDone, AfterItem, PubState
<1>2. /\ BackToLoop(pub[p], s)
      /\ s.failed = pub[p].failed /\ s.remove = d /\ s.write = w /\ s.edited = e
  <2> HIDE DEF d, w, e
  <2> QED
    BY <1>0, CompletesFields
<1>3. s \in PubState
  BY <1>2 DEF BackToLoop
<1> HIDE DEF s
<1>4. pub'[p] = s /\ Others(p)
  BY <1>1, <1>3 DEF Set, Others
<1>5. Completes(pub[p], s)
  BY <1>2 DEF Completes, Removing
<1> QED
  BY <1>4, <1>5

LEMMA CallFailsEffect ==
  ASSUME NEW p \in Publisher, pub \in [Publisher -> PubState], troubles \in Nat,
         NEW x \in Section \cup {None}, CallFails(p, x)
  PROVE  /\ Fails(pub[p], pub'[p]) /\ Others(p)
         /\ calm' = FALSE /\ troubles' \in Nat
<1>1. ItemFails(p, x) \/ BreaksOff(p)
  BY Zenon DEF CallFails
<1>2. calm' = FALSE /\ troubles' = troubles + 1
  BY Zenon DEF CallFails, Trouble
<1> QED
  BY <1>1, <1>2, FailsEffect


(***************************************************************************)
(* The effect of every action.                                             *)
(***************************************************************************)
Unjoined(p) == \A q \in Publisher \ {p} : pub[q].pc \notin Working

Begun(p) ==
  /\ pub[p].pc \in {"idle", "done"}
  /\ doc' = doc /\ jobs' = jobs /\ Counted
  /\ pub' \in [Publisher -> PubState]
  /\ pub'[p].pc = "list" /\ pub'[p].item = None
  /\ pub'[p].remove = {} /\ pub'[p].write = {}
  /\ pub'[p].edited = {} /\ pub'[p].failed = FALSE
  /\ pub'[p].alone => Unjoined(p)
  /\ \A q \in Publisher \ {p} :
       /\ pub'[q].alone = FALSE
       /\ pub'[q].pc = pub[q].pc /\ pub'[q].item = pub[q].item
       /\ pub'[q].edited = pub[q].edited
       /\ pub'[q].outcome = pub[q].outcome
  /\ calm' => calm /\ pub'[p].alone

LEMMA BeginEffect ==
  ASSUME Fine, NEW p \in Publisher, NEW reg \in Register, NEW full \in BOOLEAN,
         Begin(p, reg, full)
  PROVE  Begun(p)
<1> DEFINE others == {q \in Publisher \ {p} : pub[q].pc \in Working}
           mine == [Resting EXCEPT !.pc = "list", !.reg = reg, !.full = full,
                                   !.alone = (others = {})]
           left(q) == [pub[q] EXCEPT !.alone = FALSE]
<1>1. pub' = [q \in Publisher |-> IF q = p THEN mine ELSE left(q)]
  BY DEF Begin
<1>2. /\ mine \in PubState /\ mine.pc = "list" /\ mine.item = None
      /\ mine.remove = {} /\ mine.write = {} /\ mine.edited = {}
      /\ mine.failed = FALSE /\ mine.alone = (others = {})
  BY DEF Resting, PubState, Working
<1>3. ASSUME NEW q \in Publisher
      PROVE  /\ left(q) \in PubState /\ left(q).alone = FALSE
             /\ left(q).pc = pub[q].pc /\ left(q).item = pub[q].item
             /\ left(q).edited = pub[q].edited
             /\ left(q).outcome = pub[q].outcome
  <2>1. pub[q] \in PubState
    BY DEF Fine
  <2> QED
    BY <2>1 DEF PubState
<1>4. /\ pub[p].pc \in {"idle", "done"}
      /\ calm' = (calm /\ others = {})
      /\ doc' = doc /\ jobs' = jobs /\ uploaded' = uploaded
      /\ troubles' = troubles /\ publishes' = publishes + 1
  BY DEF Begin, session
<1>5. Counted
  BY <1>4 DEF Fine, Counted
<1> HIDE DEF mine, left
<1>6. /\ pub' \in [Publisher -> PubState]
      /\ pub'[p] = mine
      /\ \A q \in Publisher \ {p} : pub'[q] = left(q)
  BY <1>1, <1>2, <1>3
<1>7. others = {} <=> Unjoined(p)
  BY DEF Unjoined
<1> HIDE DEF others
<1>8. pub'[p].alone => Unjoined(p)
  BY <1>2, <1>6, <1>7
<1>9. calm' => calm /\ pub'[p].alone
  BY <1>2, <1>4, <1>6
<1> QED
  <2>1. /\ pub'[p].pc = "list" /\ pub'[p].item = None
        /\ pub'[p].remove = {} /\ pub'[p].write = {}
        /\ pub'[p].edited = {} /\ pub'[p].failed = FALSE
    BY <1>2, <1>6, Zenon
  <2>2. \A q \in Publisher \ {p} :
          /\ pub'[q].alone = FALSE
          /\ pub'[q].pc = pub[q].pc /\ pub'[q].item = pub[q].item
          /\ pub'[q].edited = pub[q].edited
          /\ pub'[q].outcome = pub[q].outcome
    <3>1. SUFFICES ASSUME NEW q \in Publisher \ {p}
                   PROVE  /\ pub'[q].alone = FALSE
                          /\ pub'[q].pc = pub[q].pc /\ pub'[q].item = pub[q].item
                          /\ pub'[q].edited = pub[q].edited
                          /\ pub'[q].outcome = pub[q].outcome
      OBVIOUS
    <3>2. pub'[q] = left(q) /\ q \in Publisher
      BY <1>6
    <3> QED
      BY <1>3, <3>2, Zenon
  <2>3. /\ pub[p].pc \in {"idle", "done"}
        /\ doc' = doc /\ jobs' = jobs
    BY <1>4, Zenon
  <2> QED
    BY <1>5, <1>6, <1>8, <1>9, <2>1, <2>2, <2>3, Zenon DEF Begun

LEMMA ListEffect ==
  ASSUME Fine, NEW p \in Publisher, ListDocuments(p)
  PROVE  /\ pub[p].pc = "list" /\ Others(p) /\ Counted
         /\ doc' = doc /\ jobs' = jobs
         /\ \/ /\ calm' = calm
               /\ \E pc \in {"plan", "upload"} : Moves(pub[p], pub'[p], pc)
            \/ /\ calm' = FALSE
               /\ \E o \in {"degraded", "raised"} : EndsAs(pub[p], pub'[p], o)
<1>1. pub \in [Publisher -> PubState] /\ troubles \in Nat /\ publishes \in Nat
      /\ uploaded \in BOOLEAN /\ calm \in BOOLEAN
  BY DEF Fine
<1>2. pub[p].pc = "list" /\ UNCHANGED <<session, publishes>>
  BY DEF ListDocuments, At
<1>3. CASE /\ Goes(p, IF uploaded /\ ~pub[p].full THEN "plan" ELSE "upload")
           /\ NoTrouble
  BY <1>1, <1>2, <1>3, GoesEffect DEF NoTrouble, Counted, session, Working
<1>4. CASE Trouble /\ Gives(p)
  <2>1. /\ \E o \in {"degraded", "raised"} : EndsAs(pub[p], pub'[p], o)
        /\ Others(p)
    BY <1>1, <1>4, GivesEffect
  <2>2. Counted /\ calm' = FALSE
    <3>1. Trouble /\ troubles \in Nat
      BY <1>1, <1>4, Zenon
    <3>2. calm' = FALSE /\ calm' \in BOOLEAN /\ troubles' \in Nat
      BY <3>1, TroubleEffect, Zenon
    <3>3. uploaded' \in BOOLEAN /\ publishes' \in Nat
      BY <1>1, <1>2, <1>4 DEF session
    <3> QED
      BY <3>2, <3>3, Zenon DEF Counted
  <2> QED
    BY <1>2, <2>1, <2>2 DEF session
<1> QED
  BY <1>3, <1>4 DEF ListDocuments

LEMMA UploadEffect ==
  ASSUME Fine, NEW p \in Publisher, Upload(p)
  PROVE  /\ pub[p].pc = "upload" /\ Others(p) /\ Counted
         /\ jobs' = jobs /\ doc' \in Text
         /\ \/ /\ doc' = pub[p].reg
               /\ calm' => calm /\ ~Busy
               /\ pub'[p] \in PubState /\ pub'[p].pc = "settle"
               /\ pub'[p].reg = pub[p].reg /\ pub'[p].alone = pub[p].alone
               /\ pub'[p].edited = Present(pub[p].reg)
               /\ pub'[p].remove = pub[p].remove /\ pub'[p].item = pub[p].item
               /\ pub'[p].write = pub[p].write /\ pub'[p].failed = pub[p].failed
            \/ /\ calm' = FALSE
               /\ \E o \in {"degraded", "raised"} : EndsAs(pub[p], pub'[p], o)
<1>1. pub \in [Publisher -> PubState] /\ troubles \in Nat /\ publishes \in Nat
      /\ uploaded \in BOOLEAN /\ calm \in BOOLEAN /\ doc \in Text
  BY DEF Fine
<1>2. pub[p] \in PubState /\ pub[p].reg \in Text
  BY <1>1, PublishAssumption DEF PubState, Blank, Text
<1>3. pub[p].pc = "upload" /\ UNCHANGED <<jobs, publishes>>
  BY DEF Upload, At
<1>4. CASE /\ doc' = pub[p].reg /\ uploaded' = TRUE
           /\ Set(p, [pub[p] EXCEPT !.pc = "settle",
                                    !.edited = Present(pub[p].reg)])
           /\ Overlap
  <2> DEFINE s == [pub[p] EXCEPT !.pc = "settle", !.edited = Present(pub[p].reg)]
  <2>1. Present(pub[p].reg) \in SUBSET Section
    BY DEF Present
  <2>2. s \in PubState
    BY <1>2, <2>1 DEF PubState, Working
  <2>3. /\ s.pc = "settle" /\ s.reg = pub[p].reg /\ s.alone = pub[p].alone
        /\ s.edited = Present(pub[p].reg)
        /\ s.remove = pub[p].remove /\ s.item = pub[p].item
        /\ s.write = pub[p].write /\ s.failed = pub[p].failed
    BY <1>2 DEF PubState
  <2> HIDE DEF s
  <2>4. pub'[p] = s /\ Others(p)
    BY <1>1, <1>4, <2>2 DEF Set, Others, s
  <2>5. Counted /\ (calm' => calm /\ ~Busy)
    BY <1>1, <1>3, <1>4 DEF Overlap, Counted
  <2> QED
    BY <1>2, <1>3, <1>4, <2>2, <2>3, <2>4, <2>5
<1>5. CASE /\ (doc' = pub[p].reg /\ uploaded' = TRUE) \/ UNCHANGED <<doc, uploaded>>
           /\ Trouble /\ Gives(p)
  <2>1. /\ \E o \in {"degraded", "raised"} : EndsAs(pub[p], pub'[p], o)
        /\ Others(p)
    BY <1>1, <1>5, GivesEffect
  <2>2. Counted /\ calm' = FALSE
    <3>1. Trouble /\ troubles \in Nat
      BY <1>1, <1>5, Zenon
    <3>2. calm' = FALSE /\ calm' \in BOOLEAN /\ troubles' \in Nat
      BY <3>1, TroubleEffect, Zenon
    <3>3. uploaded' \in BOOLEAN /\ publishes' \in Nat
      BY <1>1, <1>3, <1>5
    <3> QED
      BY <3>2, <3>3, Zenon DEF Counted
  <2>3. doc' \in Text
    BY <1>1, <1>2, <1>5
  <2> QED
    BY <1>3, <2>1, <2>2, <2>3
<1>6. \/ /\ doc' = pub[p].reg /\ uploaded' = TRUE
         /\ Set(p, [pub[p] EXCEPT !.pc = "settle",
                                  !.edited = Present(pub[p].reg)])
         /\ Overlap
      \/ /\ (doc' = pub[p].reg /\ uploaded' = TRUE) \/ UNCHANGED <<doc, uploaded>>
         /\ Trouble /\ Gives(p)
  BY Zenon DEF Upload
<1> QED
  BY <1>4, <1>5, <1>6

LEMMA PlanEffect ==
  ASSUME Fine, NEW p \in Publisher, Plan(p)
  PROVE  /\ pub[p].pc = "plan" /\ Others(p) /\ Counted
         /\ jobs' = jobs /\ doc' = doc
         /\ \/ /\ calm' => calm /\ ~Busy
               /\ ToWrite(pub[p].reg) = {} /\ ToRemove(pub[p].reg) = {}
               /\ EndsAs(pub[p], pub'[p], "noop")
            \/ /\ calm' => calm /\ ~Busy
               /\ pub'[p] \in PubState /\ pub'[p].pc = "drive"
               /\ pub'[p].reg = pub[p].reg /\ pub'[p].alone = pub[p].alone
               /\ pub'[p].edited = pub[p].edited /\ pub'[p].item = pub[p].item
               /\ pub'[p].failed = pub[p].failed
               /\ pub'[p].write = ToWrite(pub[p].reg)
               /\ pub'[p].remove = ToRemove(pub[p].reg)
            \/ /\ calm' = FALSE
               /\ \E o \in {"degraded", "raised"} : EndsAs(pub[p], pub'[p], o)
<1> DEFINE w == ToWrite(pub[p].reg)
           d == ToRemove(pub[p].reg)
           s == [pub[p] EXCEPT !.pc = "drive", !.write = w, !.remove = d]
<1>1. pub \in [Publisher -> PubState] /\ troubles \in Nat /\ publishes \in Nat
      /\ uploaded \in BOOLEAN /\ calm \in BOOLEAN /\ pub[p] \in PubState
  BY DEF Fine
<1>2. pub[p].pc = "plan" /\ UNCHANGED <<session, publishes>>
  BY DEF Plan, At
<1>3. \/ w = {} /\ d = {} /\ Ends(p, "noop") /\ Overlap
      \/ Set(p, s) /\ Overlap
      \/ Trouble /\ Gives(p)
  BY Zenon DEF Plan
<1>4. w \in SUBSET Section /\ d \in SUBSET Section
  BY DEF ToWrite, ToRemove, Present
<1> HIDE DEF w, d
<1>5. /\ s \in PubState
      /\ s.pc = "drive" /\ s.reg = pub[p].reg /\ s.alone = pub[p].alone
      /\ s.edited = pub[p].edited /\ s.item = pub[p].item
      /\ s.failed = pub[p].failed /\ s.write = w /\ s.remove = d
  BY <1>1, <1>4 DEF PubState, Working
<1> HIDE DEF s
<1>6. CASE w = {} /\ d = {} /\ Ends(p, "noop") /\ Overlap
  <2>1. EndsAs(pub[p], pub'[p], "noop") /\ Others(p)
    BY <1>1, <1>6, EndsEffect DEF Outcome
  <2>2. Counted /\ (calm' => calm /\ ~Busy)
    BY <1>1, <1>2, <1>6 DEF Overlap, Counted, session
  <2> QED
    BY <1>2, <1>6, <2>1, <2>2 DEF session, w, d
<1>7. CASE Set(p, s) /\ Overlap
  <2>1. pub'[p] = s /\ Others(p)
    BY <1>1, <1>5, <1>7 DEF Set, Others
  <2>2. Counted /\ (calm' => calm /\ ~Busy)
    BY <1>1, <1>2, <1>7 DEF Overlap, Counted, session
  <2> QED
    BY <1>2, <1>5, <2>1, <2>2 DEF session, w, d
<1>8. CASE Trouble /\ Gives(p)
  <2>1. /\ \E o \in {"degraded", "raised"} : EndsAs(pub[p], pub'[p], o)
        /\ Others(p)
    BY <1>1, <1>8, GivesEffect
  <2>2. Counted /\ calm' = FALSE
    <3>1. Trouble /\ troubles \in Nat
      BY <1>1, <1>8, Zenon
    <3>2. calm' = FALSE /\ calm' \in BOOLEAN /\ troubles' \in Nat
      BY <3>1, TroubleEffect, Zenon
    <3>3. uploaded' \in BOOLEAN /\ publishes' \in Nat
      BY <1>1, <1>2, <1>8 DEF session
    <3> QED
      BY <3>2, <3>3, Zenon DEF Counted
  <2> QED
    BY <1>2, <2>1, <2>2 DEF session
<1> QED
  BY <1>3, <1>6, <1>7, <1>8


LEMMA ItemTyped ==
  ASSUME Fine, NEW p \in Publisher, pub[p].pc \in {"propose", "poll", "decide"}
  PROVE  pub[p].item \in Section
  BY DEF Fine, PubFine, PubState

LEMMA NextItemEffect ==
  ASSUME Fine, NEW p \in Publisher, NextItem(p)
  PROVE  /\ pub[p].pc = "drive" /\ Others(p) /\ Counted
         /\ jobs' = jobs /\ doc' = doc
         /\ \/ /\ calm' = calm /\ Items(p) = {}
               /\ Moves(pub[p], pub'[p], "settle")
            \/ /\ calm' = calm /\ ~Busy
               /\ \E x \in Items(p) : x \in Section /\ TakesUp(pub[p], pub'[p], x)
            \/ calm' = FALSE /\ Fails(pub[p], pub'[p])
<1>1. pub \in [Publisher -> PubState] /\ troubles \in Nat /\ publishes \in Nat
      /\ uploaded \in BOOLEAN /\ calm \in BOOLEAN /\ pub[p] \in PubState
  BY DEF Fine
<1>2. pub[p].pc = "drive" /\ UNCHANGED <<session, publishes>>
  BY DEF NextItem, At
<1>3. Items(p) \in SUBSET Section
  BY <1>1 DEF Items, PubState
<1>4. doc' = doc /\ jobs' = jobs /\ uploaded' \in BOOLEAN /\ publishes' \in Nat
  BY <1>1, <1>2 DEF session
<1>5. CASE Items(p) = {} /\ Goes(p, "settle") /\ NoTrouble
  <2>1. Moves(pub[p], pub'[p], "settle") /\ Others(p)
    BY <1>1, <1>5, GoesEffect DEF Working
  <2>2. Counted /\ calm' = calm
    BY <1>1, <1>4, <1>5 DEF Counted, NoTrouble
  <2> QED
    BY <1>2, <1>4, <1>5, <2>1, <2>2
<1>6. ASSUME NEW x \in Items(p), ~Busy,
             Set(p, [pub[p] EXCEPT !.pc = "propose", !.item = x]), NoTrouble
      PROVE  /\ TakesUp(pub[p], pub'[p], x) /\ Others(p) /\ Counted /\ calm' = calm
  <2> DEFINE s == [pub[p] EXCEPT !.pc = "propose", !.item = x]
  <2>1. TakesUp(pub[p], s, x)
    BY <1>1, <1>3, PlaceFields
  <2>2. s \in PubState
    BY <2>1 DEF TakesUp, SameWork
  <2>3. Set(p, s)
    BY <1>6
  <2> HIDE DEF s
  <2>4. pub'[p] = s /\ Others(p)
    BY <1>1, <2>2, <2>3 DEF Set, Others
  <2>5. Counted /\ calm' = calm
    BY <1>1, <1>4, <1>6 DEF Counted, NoTrouble
  <2> QED
    BY <2>1, <2>4, <2>5
<1>7. ASSUME NEW x \in Items(p), (TimesOut(p) /\ ItemFails(p, x)) \/ CallFails(p, x)
      PROVE  /\ Fails(pub[p], pub'[p]) /\ Others(p) /\ Counted /\ calm' = FALSE
  <2>0. x \in Section \cup {None}
    BY <1>3
  <2>1. CASE TimesOut(p) /\ ItemFails(p, x)
    <3>1. Fails(pub[p], pub'[p]) /\ Others(p)
      BY <1>1, <2>0, <2>1, FailsEffect
    <3>2. calm' = FALSE /\ troubles' = troubles
      BY <2>1, Zenon DEF TimesOut
    <3>3. calm' \in BOOLEAN
      BY <3>2, Zenon
    <3> QED
      BY <1>1, <1>4, <3>1, <3>2, <3>3 DEF Counted
  <2>2. CASE CallFails(p, x)
    <3>1. Fails(pub[p], pub'[p]) /\ Others(p) /\ calm' = FALSE /\ troubles' \in Nat
      BY <1>1, <2>0, <2>2, CallFailsEffect
    <3>2. calm' \in BOOLEAN
      BY <3>1, Zenon
    <3> QED
      BY <1>4, <3>1, <3>2, Zenon DEF Counted
  <2> QED
    BY <1>7, <2>1, <2>2
<1>8. \/ Items(p) = {} /\ Goes(p, "settle") /\ NoTrouble
      \/ \E x \in Items(p) :
           \/ /\ ~Busy
              /\ Set(p, [pub[p] EXCEPT !.pc = "propose", !.item = x])
              /\ NoTrouble
           \/ (TimesOut(p) /\ ItemFails(p, x)) \/ CallFails(p, x)
  BY Zenon DEF NextItem
<1>9. CASE \E x \in Items(p) :
           \/ /\ ~Busy
              /\ Set(p, [pub[p] EXCEPT !.pc = "propose", !.item = x])
              /\ NoTrouble
           \/ (TimesOut(p) /\ ItemFails(p, x)) \/ CallFails(p, x)
  <2>1. PICK x \in Items(p) :
           \/ /\ ~Busy
              /\ Set(p, [pub[p] EXCEPT !.pc = "propose", !.item = x])
              /\ NoTrouble
           \/ (TimesOut(p) /\ ItemFails(p, x)) \/ CallFails(p, x)
    BY <1>9, Zenon
  <2>2. CASE /\ ~Busy
             /\ Set(p, [pub[p] EXCEPT !.pc = "propose", !.item = x])
             /\ NoTrouble
    <3>1. TakesUp(pub[p], pub'[p], x) /\ Others(p) /\ Counted /\ calm' = calm
      BY <1>6, <2>2
    <3>2. x \in Section
      BY <1>3
    <3> QED
      BY <1>2, <1>4, <2>2, <3>1, <3>2
  <2>3. CASE (TimesOut(p) /\ ItemFails(p, x)) \/ CallFails(p, x)
    <3>1. Fails(pub[p], pub'[p]) /\ Others(p) /\ Counted /\ calm' = FALSE
      BY <1>7, <2>3
    <3> QED
      BY <1>2, <1>4, <3>1
  <2> QED
    BY <2>1, <2>2, <2>3
<1> QED
  BY <1>5, <1>8, <1>9

\* The job a publisher starts.
Started(p, k) ==
  /\ k \in Job
  /\ k.st = "working" /\ k.ask = Asked(p) /\ k.granted = {}

LEMMA StartJobEffect ==
  ASSUME NEW p \in Publisher, pub[p] \in PubState, pub[p].item \in Section,
         jobs \in [Publisher -> Job], StartJob(p)
  PROVE  Started(p, jobs'[p]) /\ OtherJobs(p) /\ Asked(p) \in Change
<1> DEFINE k == [NoJob EXCEPT !.st = "working", !.ask = Asked(p)]
<1>1. Asked(p) \in Change
  <2>1. pub[p].reg \in Text
    BY PublishAssumption DEF PubState, Blank, Text
  <2> QED
    BY <2>1 DEF Asked, Change, Text
<1>2. Started(p, k)
  BY <1>1 DEF Started, NoJob, Job, JobState
<1>3. jobs' = [jobs EXCEPT ![p] = k]
  BY DEF StartJob
<1>4. k \in Job
  BY <1>2 DEF Started
<1> HIDE DEF k
<1> QED
  BY <1>1, <1>2, <1>3, <1>4 DEF OtherJobs

LEMMA ProposeEffect ==
  ASSUME Fine, NEW p \in Publisher, Propose(p)
  PROVE  /\ pub[p].pc = "propose" /\ Others(p) /\ OtherJobs(p) /\ Counted
         /\ doc' = doc /\ Asked(p) \in Change
         /\ \/ /\ calm' = calm /\ ~Busy /\ Started(p, jobs'[p])
               /\ Moves(pub[p], pub'[p], "poll")
            \/ /\ Fails(pub[p], pub'[p])
               /\ calm' = FALSE \/ (calm' = calm /\ Busy)
               /\ (Started(p, jobs'[p]) /\ ~Busy) \/ jobs'[p] = jobs[p]
<1>1. pub \in [Publisher -> PubState] /\ troubles \in Nat /\ publishes \in Nat
      /\ uploaded \in BOOLEAN /\ calm \in BOOLEAN /\ pub[p] \in PubState
      /\ jobs \in [Publisher -> Job]
  BY DEF Fine
<1>2. pub[p].pc = "propose" /\ UNCHANGED <<doc, uploaded, publishes>>
  BY DEF Propose, At
<1>3. pub[p].item \in Section
  BY <1>2, ItemTyped
<1>4. doc' = doc /\ uploaded' \in BOOLEAN /\ publishes' \in Nat
  BY <1>1, <1>2
<1>5. Asked(p) \in Change
  BY <1>1, <1>3, PublishAssumption DEF Asked, Change, Text, PubState, Blank
<1>6. StartJob(p) => Started(p, jobs'[p]) /\ OtherJobs(p)
  BY <1>1, <1>3, StartJobEffect
<1>7. UNCHANGED jobs => jobs'[p] = jobs[p] /\ OtherJobs(p)
  BY <1>1 DEF OtherJobs
<1>8. NoTrouble => Counted /\ calm' = calm
  BY <1>1, <1>4 DEF Counted, NoTrouble
<1>9. CallFails(p, pub[p].item) =>
        /\ Fails(pub[p], pub'[p]) /\ Others(p) /\ Counted /\ calm' = FALSE
  <2>1. SUFFICES ASSUME CallFails(p, pub[p].item)
                 PROVE  /\ Fails(pub[p], pub'[p]) /\ Others(p) /\ Counted
                        /\ calm' = FALSE
    OBVIOUS
  <2>2. Fails(pub[p], pub'[p]) /\ Others(p) /\ calm' = FALSE /\ troubles' \in Nat
    BY <1>1, <1>3, <2>1, CallFailsEffect
  <2>3. calm' \in BOOLEAN
    BY <2>2, Zenon
  <2> QED
    BY <1>4, <2>2, <2>3, Zenon DEF Counted
<1>10. Goes(p, "poll") => Moves(pub[p], pub'[p], "poll") /\ Others(p)
  BY <1>1, GoesEffect DEF Working
<1>11. ItemFails(p, pub[p].item) => Fails(pub[p], pub'[p]) /\ Others(p)
  BY <1>1, <1>3, FailsEffect
<1>12. \/ ~Busy /\ StartJob(p) /\ Goes(p, "poll") /\ NoTrouble
       \/ ~Busy /\ StartJob(p) /\ CallFails(p, pub[p].item)
       \/ CallFails(p, pub[p].item) /\ UNCHANGED jobs
       \/ /\ Busy
          /\ ItemFails(p, pub[p].item)
          /\ NoTrouble /\ UNCHANGED jobs
  BY Zenon DEF Propose
<1> QED
  BY <1>2, <1>4, <1>5, <1>6, <1>7, <1>8, <1>9, <1>10, <1>11, <1>12, Zenon

LEMMA PollEffect ==
  ASSUME Fine, NEW p \in Publisher, Poll(p)
  PROVE  /\ pub[p].pc = "poll" /\ Others(p) /\ Counted
         /\ jobs' = jobs /\ doc' = doc
         /\ \/ /\ jobs[p].st = "awaiting" /\ calm' = calm
               /\ Moves(pub[p], pub'[p], "decide")
            \/ /\ jobs[p].st = "ended" /\ calm' = calm
               /\ Completes(pub[p], pub'[p])
            \/ /\ Fails(pub[p], pub'[p])
               /\ calm' = FALSE \/ (calm' = calm /\ jobs[p].st = "failed")
<1>1. pub \in [Publisher -> PubState] /\ troubles \in Nat /\ publishes \in Nat
      /\ uploaded \in BOOLEAN /\ calm \in BOOLEAN /\ pub[p] \in PubState
  BY DEF Fine
<1>2. pub[p].pc = "poll" /\ UNCHANGED <<session, publishes>>
  BY DEF Poll, At
<1>3. pub[p].item \in Section
  BY <1>2, ItemTyped
<1>4. doc' = doc /\ jobs' = jobs /\ uploaded' \in BOOLEAN /\ publishes' \in Nat
  BY <1>1, <1>2 DEF session
<1>5. NoTrouble => Counted /\ calm' = calm
  BY <1>1, <1>4 DEF Counted, NoTrouble
<1>6. CallFails(p, pub[p].item) =>
        /\ Fails(pub[p], pub'[p]) /\ Others(p) /\ Counted /\ calm' = FALSE
  <2>1. SUFFICES ASSUME CallFails(p, pub[p].item)
                 PROVE  /\ Fails(pub[p], pub'[p]) /\ Others(p) /\ Counted
                        /\ calm' = FALSE
    OBVIOUS
  <2>2. Fails(pub[p], pub'[p]) /\ Others(p) /\ calm' = FALSE /\ troubles' \in Nat
    BY <1>1, <1>3, <2>1, CallFailsEffect
  <2>3. calm' \in BOOLEAN
    BY <2>2, Zenon
  <2> QED
    BY <1>4, <2>2, <2>3, Zenon DEF Counted
<1>7. Goes(p, "decide") => Moves(pub[p], pub'[p], "decide") /\ Others(p)
  BY <1>1, GoesEffect DEF Working
<1>8. ItemFails(p, pub[p].item) => Fails(pub[p], pub'[p]) /\ Others(p)
  BY <1>1, <1>3, FailsEffect
<1>9. ItemDone(p, pub[p].item) => Completes(pub[p], pub'[p]) /\ Others(p)
  BY <1>1, <1>3, DoneEffect
<1>10. calm' = FALSE /\ UNCHANGED troubles => Counted
  <2>1. SUFFICES ASSUME calm' = FALSE /\ UNCHANGED troubles
                 PROVE  Counted
    OBVIOUS
  <2>2. calm' \in BOOLEAN
    BY <2>1, Zenon
  <2>3. troubles' \in Nat
    BY <1>1, <2>1
  <2> QED
    BY <1>4, <2>2, <2>3, Zenon DEF Counted
<1>11. \/ jobs[p].st = "awaiting" /\ Goes(p, "decide") /\ NoTrouble
       \/ jobs[p].st = "ended" /\ ItemDone(p, pub[p].item) /\ NoTrouble
       \/ jobs[p].st = "failed" /\ ItemFails(p, pub[p].item) /\ NoTrouble
       \/ /\ ItemFails(p, pub[p].item)
          /\ calm' = FALSE /\ UNCHANGED troubles
       \/ CallFails(p, pub[p].item)
  BY Zenon DEF Poll
<1> QED
  BY <1>2, <1>4, <1>5, <1>6, <1>7, <1>8, <1>9, <1>10, <1>11, Zenon

\* A change of a job is approved.
Approved(j, k, c) ==
  /\ k \in Job
  /\ k.ask = j.ask /\ k.pending = j.pending \ {c}
  /\ k.granted = j.granted \cup {c}
  /\ k.st = IF j.pending = {c} THEN "applying" ELSE j.st

LEMMA ApproveEffect ==
  ASSUME NEW p \in Publisher, jobs \in [Publisher -> Job],
         NEW c \in jobs[p].pending, Approve(p, c)
  PROVE  Approved(jobs[p], jobs'[p], c) /\ OtherJobs(p)
<1> DEFINE left == jobs[p].pending \ {c}
           st == IF left = {} THEN "applying" ELSE jobs[p].st
           k == [jobs[p] EXCEPT !.pending = left, !.st = st,
                                !.granted = jobs[p].granted \cup {c}]
<1>1. /\ jobs[p] \in Job /\ st \in JobState
      /\ left \in SUBSET Change /\ (jobs[p].granted \cup {c}) \in SUBSET Change
  BY DEF Job, JobState
<1>2. jobs' = [jobs EXCEPT ![p] = k]
  BY <1>1 DEF Approve, Job
<1>3. k \in Job
  <2> HIDE DEF left, st
  <2> QED
    BY <1>1 DEF Job
<1>4. /\ k.ask = jobs[p].ask /\ k.pending = left /\ k.st = st
      /\ k.granted = jobs[p].granted \cup {c}
  <2> HIDE DEF left, st
  <2> QED
    BY <1>1 DEF Job
<1>5. left = {} <=> jobs[p].pending = {c}
  OBVIOUS
<1> HIDE DEF k
<1>6. jobs'[p] = k /\ OtherJobs(p)
  BY <1>2, <1>3 DEF OtherJobs
<1> QED
  BY <1>3, <1>4, <1>5, <1>6 DEF Approved

LEMMA DecideEffect ==
  ASSUME Fine, NEW p \in Publisher, Decide(p)
  PROVE  /\ pub[p].pc = "decide" /\ Others(p) /\ OtherJobs(p) /\ Counted
         /\ doc' = doc
         /\ \/ \E c \in jobs[p].pending :
                 /\ Approved(jobs[p], jobs'[p], c)
                 /\ \/ /\ jobs[p].pending # {c} /\ calm' = calm
                       /\ pub'[p] = pub[p]
                    \/ /\ jobs[p].pending = {c} /\ calm' = calm
                       /\ Completes(pub[p], pub'[p])
                    \/ calm' = FALSE /\ Fails(pub[p], pub'[p])
            \/ calm' = FALSE /\ Fails(pub[p], pub'[p]) /\ jobs'[p] = jobs[p]
<1>1. pub \in [Publisher -> PubState] /\ troubles \in Nat /\ publishes \in Nat
      /\ uploaded \in BOOLEAN /\ calm \in BOOLEAN /\ pub[p] \in PubState
      /\ jobs \in [Publisher -> Job]
  BY DEF Fine
<1>2. pub[p].pc = "decide" /\ UNCHANGED <<doc, uploaded, publishes>>
  BY DEF Decide, At
<1>3. pub[p].item \in Section
  BY <1>2, ItemTyped
<1>4. doc' = doc /\ uploaded' \in BOOLEAN /\ publishes' \in Nat
  BY <1>1, <1>2
<1>5. NoTrouble => Counted /\ calm' = calm
  BY <1>1, <1>4 DEF Counted, NoTrouble
<1>6. CallFails(p, pub[p].item) =>
        /\ Fails(pub[p], pub'[p]) /\ Others(p) /\ Counted /\ calm' = FALSE
  <2>1. SUFFICES ASSUME CallFails(p, pub[p].item)
                 PROVE  /\ Fails(pub[p], pub'[p]) /\ Others(p) /\ Counted
                        /\ calm' = FALSE
    OBVIOUS
  <2>2. Fails(pub[p], pub'[p]) /\ Others(p) /\ calm' = FALSE /\ troubles' \in Nat
    BY <1>1, <1>3, <2>1, CallFailsEffect
  <2>3. calm' \in BOOLEAN
    BY <2>2, Zenon
  <2> QED
    BY <1>4, <2>2, <2>3, Zenon DEF Counted
<1>7. UNCHANGED pub => pub'[p] = pub[p] /\ Others(p)
  BY <1>1 DEF Others
<1>8. UNCHANGED jobs => jobs'[p] = jobs[p] /\ OtherJobs(p)
  BY <1>1 DEF OtherJobs
<1>9. ItemDone(p, pub[p].item) => Completes(pub[p], pub'[p]) /\ Others(p)
  BY <1>1, <1>3, DoneEffect
<1>10. PICK c \in jobs[p].pending :
         \/ /\ Approve(p, c)
            /\ \/ jobs[p].pending # {c} /\ UNCHANGED pub
               \/ jobs[p].pending = {c} /\ ItemDone(p, pub[p].item)
            /\ NoTrouble
         \/ Approve(p, c) /\ CallFails(p, pub[p].item)
         \/ CallFails(p, pub[p].item) /\ UNCHANGED jobs
  BY Zenon DEF Decide
<1>11. Approve(p, c) => Approved(jobs[p], jobs'[p], c) /\ OtherJobs(p)
  BY <1>1, ApproveEffect
<1> QED
  BY <1>2, <1>4, <1>5, <1>6, <1>7, <1>8, <1>9, <1>10, <1>11, Zenon


LEMMA SettleEffect ==
  ASSUME Fine, NEW p \in Publisher, Settle(p)
  PROVE  /\ pub[p].pc = "settle" /\ Others(p) /\ Counted
         /\ jobs' = jobs /\ doc' = doc
         /\ \/ /\ pub[p].edited = {} /\ calm' = calm
               /\ EndsAs(pub[p], pub'[p], "unpublished")
            \/ ~Busy /\ calm' = calm /\ Moves(pub[p], pub'[p], "check")
            \/ calm' = FALSE /\ EndsAs(pub[p], pub'[p], "unpublished")
<1>1. pub \in [Publisher -> PubState] /\ troubles \in Nat /\ publishes \in Nat
      /\ uploaded \in BOOLEAN /\ calm \in BOOLEAN
  BY DEF Fine
<1>2. pub[p].pc = "settle" /\ UNCHANGED <<session, publishes>>
  BY DEF Settle, At
<1>3. doc' = doc /\ jobs' = jobs /\ uploaded' \in BOOLEAN /\ publishes' \in Nat
  BY <1>1, <1>2 DEF session
<1>4. NoTrouble => Counted /\ calm' = calm
  BY <1>1, <1>3 DEF Counted, NoTrouble
<1>5. Trouble => Counted /\ calm' = FALSE
  BY <1>1, <1>3, TroubleEffect, Zenon DEF Counted
<1>6. TimesOut(p) => Counted /\ calm' = FALSE
  <2>1. SUFFICES ASSUME TimesOut(p)
                 PROVE  Counted /\ calm' = FALSE
    OBVIOUS
  <2>2. calm' = FALSE /\ troubles' = troubles
    BY <2>1, Zenon DEF TimesOut
  <2>3. calm' \in BOOLEAN
    BY <2>2, Zenon
  <2> QED
    BY <1>1, <1>3, <2>2, <2>3, Zenon DEF Counted
<1>7. Ends(p, "unpublished") =>
        EndsAs(pub[p], pub'[p], "unpublished") /\ Others(p)
  BY <1>1, EndsEffect DEF Outcome
<1>8. Goes(p, "check") => Moves(pub[p], pub'[p], "check") /\ Others(p)
  BY <1>1, GoesEffect DEF Working
<1>9. \/ pub[p].edited = {} /\ Ends(p, "unpublished") /\ NoTrouble
      \/ ~Busy /\ Goes(p, "check") /\ NoTrouble
      \/ TimesOut(p) /\ Ends(p, "unpublished")
      \/ Trouble /\ Ends(p, "unpublished")
  BY Zenon DEF Settle, ReadsWhen
<1> QED
  BY <1>2, <1>3, <1>4, <1>5, <1>6, <1>7, <1>8, <1>9, Zenon

AllMatch(p) == \A s \in pub[p].edited : Matches(s, pub[p].reg[s])

LEMMA CheckEffect ==
  ASSUME Fine, NEW p \in Publisher, Check(p)
  PROVE  /\ pub[p].pc = "check" /\ Others(p) /\ Counted
         /\ jobs' = jobs /\ doc' = doc
         /\ \/ /\ calm' = calm /\ pub[p].failed = FALSE /\ AllMatch(p)
               /\ EndsAs(pub[p], pub'[p], "published")
            \/ /\ calm' = calm /\ ~(pub[p].failed = FALSE /\ AllMatch(p))
               /\ EndsAs(pub[p], pub'[p], "unpublished")
            \/ calm' = FALSE /\ EndsAs(pub[p], pub'[p], "unpublished")
<1>1. pub \in [Publisher -> PubState] /\ troubles \in Nat /\ publishes \in Nat
      /\ uploaded \in BOOLEAN /\ calm \in BOOLEAN
  BY DEF Fine
<1>2. pub[p].pc = "check" /\ UNCHANGED <<session, publishes>>
  BY DEF Check, At
<1>3. doc' = doc /\ jobs' = jobs /\ uploaded' \in BOOLEAN /\ publishes' \in Nat
  BY <1>1, <1>2 DEF session
<1>4. NoTrouble => Counted /\ calm' = calm
  BY <1>1, <1>3 DEF Counted, NoTrouble
<1>5. Trouble => Counted /\ calm' = FALSE
  BY <1>1, <1>3, TroubleEffect, Zenon DEF Counted
<1>6. Ends(p, "unpublished") =>
        EndsAs(pub[p], pub'[p], "unpublished") /\ Others(p)
  BY <1>1, EndsEffect DEF Outcome
<1>7. Ends(p, "published") =>
        EndsAs(pub[p], pub'[p], "published") /\ Others(p)
  BY <1>1, EndsEffect DEF Outcome
<1>8. pub[p].failed \in BOOLEAN
  BY <1>1 DEF PubState
<1>9. \/ /\ Ends(p, IF ~pub[p].failed /\ AllMatch(p)
                    THEN "published" ELSE "unpublished")
         /\ NoTrouble
      \/ Trouble /\ Ends(p, "unpublished")
  BY Zenon DEF Check, AllMatch
<1>10. CASE ~pub[p].failed /\ AllMatch(p)
  <2>1. \/ Ends(p, "published") /\ NoTrouble
        \/ Trouble /\ Ends(p, "unpublished")
    BY <1>9, <1>10
  <2>2. pub[p].failed = FALSE
    BY <1>8, <1>10
  <2> QED
    BY <1>2, <1>3, <1>4, <1>5, <1>6, <1>7, <1>10, <2>1, <2>2, Zenon
<1>11. CASE ~(~pub[p].failed /\ AllMatch(p))
  <2>1. \/ Ends(p, "unpublished") /\ NoTrouble
        \/ Trouble /\ Ends(p, "unpublished")
    BY <1>9, <1>11
  <2>2. ~(pub[p].failed = FALSE /\ AllMatch(p))
    BY <1>8, <1>11
  <2> QED
    BY <1>2, <1>3, <1>4, <1>5, <1>6, <2>1, <2>2, Zenon
<1> QED
  BY <1>10, <1>11

LEMMA OffersEffect ==
  ASSUME NEW p \in Publisher, jobs \in [Publisher -> Job],
         NEW C \in SUBSET Change, Offers(p, C)
  PROVE  /\ jobs'[p] \in Job /\ OtherJobs(p)
         /\ jobs'[p].ask = jobs[p].ask /\ jobs'[p].granted = jobs[p].granted
         /\ jobs'[p].pending = C
         /\ jobs'[p].st = IF C = {} THEN "ended" ELSE "awaiting"
<1> DEFINE st == IF C = {} THEN "ended" ELSE "awaiting"
           k == [jobs[p] EXCEPT !.pending = C, !.st = st]
<1>1. jobs[p] \in Job /\ st \in JobState
  BY DEF JobState
<1>2. jobs' = [jobs EXCEPT ![p] = k]
  BY DEF Offers
<1>3. /\ k \in Job
      /\ k.ask = jobs[p].ask /\ k.pending = C /\ k.st = st
      /\ k.granted = jobs[p].granted
  <2> HIDE DEF st
  <2> QED
    BY <1>1 DEF Job
<1> HIDE DEF k
<1>4. jobs'[p] = k /\ OtherJobs(p)
  BY <1>2, <1>3 DEF OtherJobs
<1> QED
  BY <1>3, <1>4

LEMMA JobSettlesEffect ==
  ASSUME Fine, NEW p \in Publisher, JobSettles(p)
  PROVE  /\ jobs[p].st = "working" /\ OtherJobs(p) /\ Counted
         /\ pub' = pub /\ doc' = doc
         /\ jobs'[p].ask = jobs[p].ask /\ jobs'[p].granted = jobs[p].granted
         /\ \/ /\ calm' = calm /\ Idle(jobs[p].ask) /\ jobs'[p].st = "ended"
            \/ /\ calm' = calm /\ jobs'[p].st = "awaiting"
               /\ jobs'[p].pending = {jobs[p].ask}
            \/ /\ calm' = FALSE /\ jobs'[p].st \in {"awaiting", "ended", "failed"}
               /\ jobs'[p].st = "awaiting" => jobs'[p].pending # {}
<1> DEFINE ask == jobs[p].ask
           strays == {[ask EXCEPT !.sec = s] : s \in Present(doc) \ {ask.sec}}
<1>1. jobs \in [Publisher -> Job] /\ troubles \in Nat /\ publishes \in Nat
      /\ uploaded \in BOOLEAN /\ calm \in BOOLEAN /\ jobs[p] \in Job
  BY DEF Fine
<1>2. jobs[p].st = "working" /\ UNCHANGED <<doc, uploaded, pub, publishes>>
  BY DEF JobSettles
<1>3. ask \in Change
  BY <1>2 DEF Fine, JobFine
<1>4. strays \in SUBSET Change
  BY <1>3 DEF Change, Present
<1>5. uploaded' \in BOOLEAN /\ publishes' \in Nat
  BY <1>1, <1>2
<1>6. NoTrouble => Counted /\ calm' = calm
  BY <1>1, <1>5 DEF Counted, NoTrouble
<1>7. Trouble => Counted /\ calm' = FALSE
  BY <1>1, <1>5, TroubleEffect, Zenon DEF Counted
<1>8. \/ Offers(p, IF Idle(ask) THEN {} ELSE {ask}) /\ NoTrouble
      \/ Trouble /\ \E C \in {{}} \cup {{c} : c \in strays}
                           \cup {{c, ask} : c \in strays} : Offers(p, C)
      \/ Trouble /\ jobs' = [jobs EXCEPT ![p].st = "failed"]
  BY Zenon DEF JobSettles
<1> HIDE DEF strays
<1>9. CASE Offers(p, IF Idle(ask) THEN {} ELSE {ask}) /\ NoTrouble
  <2>1. CASE Idle(ask)
    <3>1. Offers(p, {})
      BY <1>9, <2>1
    <3>2. /\ OtherJobs(p) /\ jobs'[p].ask = jobs[p].ask
          /\ jobs'[p].granted = jobs[p].granted /\ jobs'[p].st = "ended"
      BY <1>1, <3>1, OffersEffect
    <3> QED
      BY <1>2, <1>6, <1>9, <2>1, <3>2
  <2>2. CASE ~Idle(ask)
    <3>1. Offers(p, {ask})
      BY <1>9, <2>2
    <3>2. {ask} \in SUBSET Change /\ {ask} # {}
      BY <1>3
    <3>3. /\ OtherJobs(p) /\ jobs'[p].ask = jobs[p].ask
          /\ jobs'[p].granted = jobs[p].granted /\ jobs'[p].st = "awaiting"
          /\ jobs'[p].pending = {ask}
      BY <1>1, <3>1, <3>2, OffersEffect
    <3> QED
      BY <1>2, <1>6, <1>9, <3>3
  <2> QED
    BY <2>1, <2>2
<1>10. CASE Trouble /\ \E C \in {{}} \cup {{c} : c \in strays}
                           \cup {{c, ask} : c \in strays} : Offers(p, C)
  <2>1. PICK C \in SUBSET Change : Offers(p, C)
    BY <1>3, <1>4, <1>10
  <2>2. /\ OtherJobs(p) /\ jobs'[p].ask = jobs[p].ask
        /\ jobs'[p].granted = jobs[p].granted /\ jobs'[p].pending = C
        /\ jobs'[p].st = IF C = {} THEN "ended" ELSE "awaiting"
    BY <1>1, <2>1, OffersEffect
  <2> QED
    BY <1>2, <1>7, <1>10, <2>2
<1>11. CASE Trouble /\ jobs' = [jobs EXCEPT ![p].st = "failed"]
  <2> DEFINE k == [jobs[p] EXCEPT !.st = "failed"]
  <2>1. k \in Job /\ k.st = "failed" /\ k.ask = jobs[p].ask
        /\ k.granted = jobs[p].granted
    BY <1>1 DEF Job, JobState
  <2>2. jobs' = [jobs EXCEPT ![p] = k]
    BY <1>11
  <2> HIDE DEF k
  <2>3. jobs'[p] = k /\ OtherJobs(p)
    BY <1>1, <2>1, <2>2 DEF OtherJobs
  <2> QED
    BY <1>2, <1>7, <1>11, <2>1, <2>3
<1> QED
  BY <1>8, <1>9, <1>10, <1>11

LEMMA JobAppliesEffect ==
  ASSUME Fine, NEW p \in Publisher, JobApplies(p)
  PROVE  /\ jobs[p].st = "applying" /\ OtherJobs(p) /\ Counted
         /\ jobs'[p].st = "ended" /\ pub' = pub /\ calm' = calm
         /\ doc' \in Text
         /\ \A s \in Section :
              doc'[s] = IF \E c \in jobs[p].granted : c.sec = s
                        THEN (CHOOSE c \in jobs[p].granted : c.sec = s).to
                        ELSE doc[s]
<1> DEFINE granted == jobs[p].granted
           new(s) == IF \E c \in granted : c.sec = s
                     THEN (CHOOSE c \in granted : c.sec = s).to ELSE doc[s]
           k == [jobs[p] EXCEPT !.st = "ended"]
<1>1. jobs \in [Publisher -> Job] /\ jobs[p] \in Job /\ doc \in Text
  BY DEF Fine
<1>2. /\ jobs[p].st = "applying"
      /\ UNCHANGED <<uploaded, pub, publishes, troubles, calm>>
      /\ jobs' = [jobs EXCEPT ![p] = k]
      /\ doc' = [s \in Section |-> new(s)]
  BY DEF JobApplies
<1>3. granted \in SUBSET Change
  BY <1>1 DEF Job
<1>4. ASSUME NEW s \in Section
      PROVE  new(s) \in Content \cup {None}
  <2>1. CASE \E c \in granted : c.sec = s
    <3>1. (CHOOSE c \in granted : c.sec = s) \in granted
      BY <2>1
    <3> QED
      BY <1>3, <2>1, <3>1 DEF Change
  <2>2. CASE ~ \E c \in granted : c.sec = s
    BY <1>1, <2>2 DEF Text
  <2> QED
    BY <2>1, <2>2
<1>5. doc' \in Text
  BY <1>2, <1>4 DEF Text
<1>6. k \in Job /\ k.st = "ended"
  BY <1>1 DEF Job, JobState
<1> HIDE DEF k
<1>7. jobs'[p] = k /\ OtherJobs(p)
  BY <1>1, <1>2, <1>6 DEF OtherJobs
<1>8. Counted
  BY <1>2 DEF Counted, Fine
<1> QED
  BY <1>2, <1>5, <1>6, <1>7, <1>8

LEMMA CrashEffect ==
  ASSUME Fine, NEW p \in Publisher, Crash(p)
  PROVE  /\ pub[p].pc \in Working /\ Others(p) /\ Counted
         /\ pub'[p] = Resting /\ Resting \in PubState
         /\ doc' = doc /\ jobs' = jobs /\ calm' = FALSE
<1>1. pub \in [Publisher -> PubState] /\ troubles \in Nat /\ publishes \in Nat
      /\ uploaded \in BOOLEAN
  BY DEF Fine
<1>2. /\ pub[p].pc \in Working /\ Trouble /\ Set(p, Resting)
      /\ UNCHANGED <<session, publishes>>
  BY Zenon DEF Crash
<1>3. Resting \in PubState
  BY DEF Resting, PubState
<1>4. pub'[p] = Resting /\ Others(p)
  BY <1>1, <1>2, <1>3 DEF Set, Others
<1>5. calm' = FALSE /\ calm' \in BOOLEAN /\ troubles' \in Nat
  BY <1>1, <1>2, TroubleEffect
<1>6. /\ doc' = doc /\ jobs' = jobs
      /\ uploaded' \in BOOLEAN /\ publishes' \in Nat
  BY <1>1, <1>2 DEF session
<1> QED
  BY <1>2, <1>3, <1>4, <1>5, <1>6, Zenon DEF Counted


-----------------------------------------------------------------------------
(***************************************************************************)
(* Records and jobs stay well-formed.                                      *)
(***************************************************************************)
LEMMA FineInit == Init => Fine
<1> SUFFICES ASSUME Init
             PROVE  Fine
  OBVIOUS
<1>1. doc \in Text
  BY PublishAssumption DEF Init, Blank, Text
<1>2. uploaded \in BOOLEAN /\ calm \in BOOLEAN
  BY Zenon DEF Init
<1>3. publishes \in Nat /\ troubles \in Nat
  BY DEF Init
<1>4. NoJob \in Job /\ NoJob.st = "none"
  BY DEF NoJob, Job, JobState
<1>5. Resting \in PubState /\ Resting.pc = "idle" /\ Resting.item = None
  BY DEF Resting, PubState
<1>6. /\ jobs = [p \in Publisher |-> NoJob]
      /\ pub = [p \in Publisher |-> Resting]
  BY DEF Init
<1> QED
  BY <1>1, <1>2, <1>3, <1>4, <1>5, <1>6 DEF Fine, JobFine, PubFine

LEMMA FineFrame ==
  ASSUME Fine, NEW p \in Publisher, Others(p), OtherJobs(p), Counted,
         doc' \in Text, JobFine(jobs'[p]), PubFine(pub'[p], jobs'[p])
  PROVE  Fine'
<1>1. \A q \in Publisher : JobFine(jobs'[q]) /\ PubFine(pub'[q], jobs'[q])
  BY DEF Fine, Others, OtherJobs
<1> QED
  BY <1>1 DEF Fine, Others, OtherJobs, Counted

LEMMA SameJobs ==
  ASSUME Fine, NEW p \in Publisher, jobs' = jobs
  PROVE  OtherJobs(p) /\ JobFine(jobs'[p]) /\ jobs'[p] = jobs[p]
  BY DEF Fine, OtherJobs

\* A step of a publisher that starts, waits, reads or reports.
LEMMA FineStep ==
  ASSUME Fine, NEW p \in Publisher, Step(p)
  PROVE  Fine'
<1>0. doc \in Text /\ JobFine(jobs[p]) /\ PubFine(pub[p], jobs[p])
  BY DEF Fine
<1>1. CASE ListDocuments(p)
  <2>1. PubFine(pub'[p], jobs'[p])
    BY <1>0, <1>1, ListEffect DEF PubFine, Moves, EndsAs, SameWork
  <2> QED
    BY <1>0, <1>1, <2>1, ListEffect, SameJobs, FineFrame
<1>2. CASE Upload(p)
  <2>1. PubFine(pub'[p], jobs'[p])
    BY <1>0, <1>2, UploadEffect DEF PubFine, EndsAs, SameWork
  <2> QED
    BY <1>2, <2>1, UploadEffect, SameJobs, FineFrame
<1>3. CASE Plan(p)
  <2>1. PubFine(pub'[p], jobs'[p])
    BY <1>0, <1>3, PlanEffect DEF PubFine, EndsAs, SameWork
  <2> QED
    BY <1>0, <1>3, <2>1, PlanEffect, SameJobs, FineFrame
<1>4. CASE NextItem(p)
  <2>1. PubFine(pub'[p], jobs'[p])
    <3>1. /\ pub[p].pc = "drive" /\ pub'[p] \in PubState
          /\ \/ pub'[p].pc = "settle" /\ pub'[p].item = pub[p].item
             \/ pub'[p].pc = "propose" /\ pub'[p].item \in Section
             \/ pub'[p].pc = "drive" /\ pub'[p].item = None
      BY <1>4, NextItemEffect DEF Moves, TakesUp, Fails, BackToLoop, SameWork
    <3> QED
      BY <1>0, <3>1, PublishAssumption DEF PubFine
  <2> QED
    BY <1>0, <1>4, <2>1, NextItemEffect, SameJobs, FineFrame
<1>5. CASE Propose(p)
  <2>1. JobFine(jobs'[p])
    BY <1>0, <1>5, ProposeEffect DEF JobFine, Started
  <2>2. PubFine(pub'[p], jobs'[p])
    BY <1>0, <1>5, ProposeEffect
       DEF PubFine, Moves, Fails, BackToLoop, SameWork
  <2> QED
    BY <1>0, <1>5, <2>1, <2>2, ProposeEffect, FineFrame
<1>6. CASE Poll(p)
  <2>1. PubFine(pub'[p], jobs'[p])
    BY <1>0, <1>6, PollEffect
       DEF PubFine, Moves, Fails, Completes, BackToLoop, SameWork
  <2> QED
    BY <1>0, <1>6, <2>1, PollEffect, SameJobs, FineFrame
<1>7. CASE Decide(p)
  <2>1. JobFine(jobs'[p])
    BY <1>0, <1>7, DecideEffect DEF JobFine, Approved, PubFine
  <2>2. PubFine(pub'[p], jobs'[p])
    <3>1. \/ pub'[p].pc = "drive" /\ pub'[p].item = None /\ pub'[p] \in PubState
          \/ \E c \in jobs[p].pending :
               /\ Approved(jobs[p], jobs'[p], c) /\ jobs[p].pending # {c}
               /\ pub'[p] = pub[p]
      BY <1>7, DecideEffect DEF Fails, Completes, BackToLoop
    <3>2. CASE pub'[p].pc = "drive" /\ pub'[p].item = None /\ pub'[p] \in PubState
      BY <3>2 DEF PubFine
    <3>3. CASE \E c \in jobs[p].pending :
               /\ Approved(jobs[p], jobs'[p], c) /\ jobs[p].pending # {c}
               /\ pub'[p] = pub[p]
      BY <1>0, <3>3 DEF PubFine, Approved
    <3> QED
      BY <3>1, <3>2, <3>3
  <2> QED
    BY <1>0, <1>7, <2>1, <2>2, DecideEffect, FineFrame
<1>8. CASE Settle(p)
  <2>1. PubFine(pub'[p], jobs'[p])
    BY <1>0, <1>8, SettleEffect DEF PubFine, Moves, EndsAs, SameWork
  <2> QED
    BY <1>0, <1>8, <2>1, SettleEffect, SameJobs, FineFrame
<1>9. CASE Check(p)
  <2>1. PubFine(pub'[p], jobs'[p])
    BY <1>0, <1>9, CheckEffect DEF PubFine, EndsAs, SameWork
  <2> QED
    BY <1>0, <1>9, <2>1, CheckEffect, SameJobs, FineFrame
<1> QED
  BY <1>1, <1>2, <1>3, <1>4, <1>5, <1>6, <1>7, <1>8, <1>9 DEF Step

LEMMA SamePubs ==
  ASSUME Fine, NEW p \in Publisher, pub' = pub
  PROVE  Others(p) /\ pub'[p] = pub[p]
  BY DEF Fine, Others

LEMMA FineRest ==
  ASSUME Fine, NEW p \in Publisher,
         \/ \E reg \in Register, full \in BOOLEAN : Begin(p, reg, full)
         \/ Service(p) \/ Crash(p)
  PROVE  Fine'
<1>0. doc \in Text /\ JobFine(jobs[p]) /\ PubFine(pub[p], jobs[p])
  BY DEF Fine
<1>1. CASE \E reg \in Register, full \in BOOLEAN : Begin(p, reg, full)
  <2>1. PICK reg \in Register, full \in BOOLEAN : Begin(p, reg, full)
    BY <1>1
  <2>2. Begun(p)
    BY <2>1, BeginEffect
  <2>3. \A q \in Publisher : PubFine(pub'[q], jobs'[q])
    BY <2>2 DEF Fine, PubFine, Begun
  <2> QED
    BY <2>2, <2>3 DEF Fine, Counted, Begun
<1>2. CASE JobSettles(p)
  <2>1. JobFine(jobs'[p])
    BY <1>0, <1>2, JobSettlesEffect DEF JobFine, OtherJobs
  <2>2. PubFine(pub'[p], jobs'[p])
    <3>1. pub'[p] = pub[p] /\ jobs[p].st = "working"
      BY <1>2, JobSettlesEffect
    <3> QED
      BY <1>0, <3>1 DEF PubFine
  <2> QED
    BY <1>0, <1>2, <2>1, <2>2, JobSettlesEffect, SamePubs, FineFrame
<1>3. CASE JobApplies(p)
  <2>1. JobFine(jobs'[p])
    BY <1>3, JobAppliesEffect DEF JobFine, OtherJobs
  <2>2. PubFine(pub'[p], jobs'[p])
    BY <1>0, <1>3, JobAppliesEffect DEF PubFine
  <2> QED
    BY <1>3, <2>1, <2>2, JobAppliesEffect, SamePubs, FineFrame
<1>4. CASE Crash(p)
  <2>1. PubFine(pub'[p], jobs'[p])
    <3>1. Resting.pc = "idle" /\ Resting.item = None
      BY DEF Resting
    <3>2. pub'[p] = Resting /\ Resting \in PubState
      BY <1>4, CrashEffect
    <3> QED
      BY <3>1, <3>2 DEF PubFine
  <2> QED
    BY <1>0, <1>4, <2>1, CrashEffect, SameJobs, FineFrame
<1> QED
  BY <1>1, <1>2, <1>3, <1>4 DEF Service

LEMMA FineInvariant == Fine /\ [Next]_vars => Fine'
<1> SUFFICES ASSUME Fine, [Next]_vars
             PROVE  Fine'
  OBVIOUS
<1>1. CASE Next
  BY <1>1, FineStep, FineRest DEF Next
<1>2. CASE UNCHANGED vars
  BY <1>2 DEF vars, session, Fine
<1> QED
  BY <1>1, <1>2

\* Every variable stays in its type, a publisher addresses an item exactly
\* while it drives one, and has something to decide when it decides.
THEOREM TypeCorrect == Spec => []TypeOK
<1>1. Fine => TypeOK
  BY DEF Fine, TypeOK, JobFine, PubFine, At
<1> QED
  BY <1>1, FineInit, FineInvariant, PTL DEF Spec


-----------------------------------------------------------------------------
(***************************************************************************)
(* A publish is alone until somebody begins another.                       *)
(***************************************************************************)
Onward(p) ==
  /\ Others(p)
  /\ pub'[p].alone => pub[p].alone
  /\ pub'[p].pc \in Working =>
       pub[p].pc \in Working /\ pub'[p].alone = pub[p].alone
  /\ calm' => calm

LEMMA StepWorks ==
  ASSUME Fine, NEW p \in Publisher, Step(p)
  PROVE  pub[p].pc \in Working
  BY ListEffect, UploadEffect, PlanEffect, NextItemEffect, ProposeEffect,
     PollEffect, DecideEffect, SettleEffect, CheckEffect DEF Step, Working

LEMMA StepOnward ==
  ASSUME Fine, NEW p \in Publisher, Step(p)
  PROVE  Onward(p) /\ pub'[p].alone = pub[p].alone /\ pub'[p].reg = pub[p].reg
<1>0. pub[p].pc \in Working
  BY StepWorks
<1> SUFFICES /\ Others(p) /\ (calm' => calm)
             /\ pub'[p].alone = pub[p].alone /\ pub'[p].reg = pub[p].reg
  BY <1>0 DEF Onward
<1>1. CASE ListDocuments(p)
  BY <1>1, ListEffect DEF Moves, EndsAs, SameWork
<1>2. CASE Upload(p)
  BY <1>2, UploadEffect DEF EndsAs, SameWork
<1>3. CASE Plan(p)
  BY <1>3, PlanEffect DEF EndsAs, SameWork
<1>4. CASE NextItem(p)
  BY <1>4, NextItemEffect DEF Moves, TakesUp, Fails, BackToLoop, SameWork
<1>5. CASE Propose(p)
  BY <1>5, ProposeEffect DEF Moves, Fails, BackToLoop, SameWork
<1>6. CASE Poll(p)
  BY <1>6, PollEffect DEF Moves, Fails, Completes, BackToLoop, SameWork
<1>7. CASE Decide(p)
  BY <1>7, DecideEffect DEF Fails, Completes, BackToLoop
<1>8. CASE Settle(p)
  BY <1>8, SettleEffect DEF Moves, EndsAs, SameWork
<1>9. CASE Check(p)
  BY <1>9, CheckEffect DEF EndsAs, SameWork
<1> QED
  BY <1>1, <1>2, <1>3, <1>4, <1>5, <1>6, <1>7, <1>8, <1>9 DEF Step

LEMMA ServiceOnward ==
  ASSUME Fine, NEW p \in Publisher, Service(p)
  PROVE  Onward(p) /\ pub' = pub /\ jobs[p].st \in Active /\ OtherJobs(p)
<1>1. /\ pub' = pub /\ (calm' => calm) /\ jobs[p].st \in Active
      /\ OtherJobs(p)
  BY JobSettlesEffect, JobAppliesEffect DEF Service, Active
<1> QED
  BY <1>1, SamePubs DEF Onward

LEMMA CrashOnward ==
  ASSUME Fine, NEW p \in Publisher, Crash(p)
  PROVE  /\ Onward(p) /\ pub[p].pc \in Working /\ calm' = FALSE
         /\ pub'[p].alone = FALSE /\ pub'[p].pc = "idle"
<1>1. Resting.alone = FALSE /\ Resting.pc = "idle"
  BY DEF Resting
<1>2. /\ Others(p) /\ pub'[p].alone = FALSE /\ pub'[p].pc = "idle"
      /\ calm' = FALSE /\ pub[p].pc \in Working
  BY <1>1, CrashEffect
<1> QED
  BY <1>2 DEF Onward, Working

\* Of two publishers, one alone and one at work, there are none.
LEMMA AloneStep ==
  ASSUME Fine, AloneInv, [Next]_vars
  PROVE  AloneInv'
<1>1. ASSUME NEW p \in Publisher, Onward(p)
      PROVE  AloneInv'
  BY <1>1 DEF AloneInv, Onward, Others
<1>2. ASSUME NEW p \in Publisher, Begun(p)
      PROVE  AloneInv'
  <2>1. ASSUME NEW a \in Publisher, NEW q \in Publisher, pub'[a].alone, q # a
        PROVE  pub'[q].pc \notin Working
    <3>1. a = p
      BY <1>2, <2>1 DEF Begun
    <3> QED
      BY <1>2, <2>1, <3>1 DEF Begun, Unjoined
  <2>2. ASSUME calm', NEW q \in Publisher, pub'[q].pc \in Working
        PROVE  pub'[q].alone
    <3>1. CASE q = p
      BY <1>2, <2>2, <3>1 DEF Begun
    <3>2. CASE q # p
      BY <1>2, <2>2, <3>2 DEF Begun, Unjoined
    <3> QED
      BY <3>1, <3>2
  <2> QED
    BY <2>1, <2>2 DEF AloneInv
<1>3. CASE UNCHANGED vars
  BY <1>3 DEF vars, session, AloneInv
<1> QED
  BY <1>1, <1>2, <1>3, BeginEffect, StepOnward, ServiceOnward, CrashOnward DEF Next

(***************************************************************************)
(* What an undisturbed publisher read stays as it read it.                 *)
(***************************************************************************)
Reading(s) == s.pc = "check" \/ (s.pc = "done" /\ s.outcome = "published")

LEMMA OwnStepReads ==
  ASSUME Fine, ReadInv, NEW p \in Publisher, Step(p),
         pub[p].alone, Reading(pub'[p])
  PROVE  /\ jobs' = jobs /\ doc' = doc /\ ~Busy
         /\ pub'[p].edited = pub[p].edited
         /\ pub'[p].pc = "done" => AllMatch(p)
<1>1. ~ListDocuments(p)
  BY ListEffect DEF Moves, EndsAs, Reading
<1>2. ~Upload(p)
  BY UploadEffect DEF EndsAs, Reading
<1>3. ~Plan(p)
  BY PlanEffect DEF EndsAs, Reading
<1>4. ~NextItem(p)
  BY NextItemEffect DEF Moves, TakesUp, Fails, BackToLoop, Reading
<1>5. ~Propose(p)
  BY ProposeEffect DEF Moves, Fails, BackToLoop, Reading
<1>6. ~Poll(p)
  BY PollEffect DEF Moves, Fails, Completes, BackToLoop, Reading
<1>7. ~Decide(p)
  BY DecideEffect DEF Fails, Completes, BackToLoop, Reading
<1>8. CASE Settle(p)
  BY <1>8, SettleEffect DEF Moves, EndsAs, SameWork, Reading
<1>9. CASE Check(p)
  <2>1. ~Busy
    BY <1>9, CheckEffect DEF ReadInv
  <2> QED
    BY <1>9, <2>1, CheckEffect DEF EndsAs, SameWork, Reading
<1> QED
  BY <1>1, <1>2, <1>3, <1>4, <1>5, <1>6, <1>7, <1>8, <1>9 DEF Step

LEMMA ReadFrame ==
  ASSUME Fine, AloneInv, ReadInv, Next, NEW q \in Publisher,
         pub'[q].alone, Reading(pub'[q])
  PROVE  /\ jobs' = jobs /\ doc' = doc /\ ~Busy
         /\ \/ pub'[q] = pub[q]
            \/ /\ pub'[q].edited = pub[q].edited /\ pub'[q].reg = pub[q].reg
               /\ pub'[q].pc = "done" => AllMatch(q)
<1>1. PICK p \in Publisher :
        \/ Begun(p) \/ Step(p) \/ Service(p) \/ Crash(p)
  BY BeginEffect DEF Next
<1>2. ~Begun(p)
  BY DEF Begun, Reading
<1>3. CASE p = q
  <2>1. CASE Step(p)
    BY <1>3, <2>1, OwnStepReads, StepOnward
  <2>2. ~Service(p)
    BY <1>3, ServiceOnward DEF ReadInv, Reading, Reports, Busy
  <2>3. ~Crash(p)
    BY <1>3, CrashOnward
  <2> QED
    BY <1>1, <1>2, <2>1, <2>2, <2>3
<1>4. CASE p # q
  <2>1. Others(p)
    BY <1>1, <1>2, StepOnward, ServiceOnward, CrashOnward DEF Onward
  <2>2. pub'[q] = pub[q]
    BY <1>4, <2>1 DEF Others
  <2>3. pub[q].alone /\ Reading(pub[q]) /\ ~Busy
    BY <2>2 DEF ReadInv, Reading, Reports
  <2>4. pub[p].pc \notin Working
    BY <1>4, <2>3 DEF AloneInv
  <2>5. ~Service(p)
    BY <2>3, ServiceOnward DEF Busy
  <2> QED
    BY <1>1, <1>2, <2>4, <2>5, StepWorks, CrashOnward
<1> QED
  BY <1>3, <1>4

LEMMA ReadStep ==
  ASSUME Fine, AloneInv, ReadInv, PublishedIsTrue, [Next]_vars
  PROVE  ReadInv' /\ PublishedIsTrue'
<1>1. CASE UNCHANGED vars
  BY <1>1 DEF vars, session, ReadInv, PublishedIsTrue, Reports, Busy, Holds
<1>2. CASE Next
  <2>1. ASSUME NEW q \in Publisher, pub'[q].alone,
               pub'[q].pc = "check" \/ Reports(q, "published")'
        PROVE  ~Busy'
    <3>1. jobs' = jobs /\ ~Busy
      BY <1>2, <2>1, ReadFrame DEF Reading, Reports
    <3> QED
      BY <3>1 DEF Busy
  <2>2. ASSUME NEW q \in Publisher, Reports(q, "published")', pub'[q].alone
        PROVE  \A s \in pub'[q].edited : Holds(s, pub[q].reg[s])'
    <3>1. /\ doc' = doc
          /\ \/ pub'[q] = pub[q]
             \/ /\ pub'[q].edited = pub[q].edited /\ pub'[q].reg = pub[q].reg
                /\ AllMatch(q)
      BY <1>2, <2>2, ReadFrame DEF Reading, Reports
    <3>2. CASE pub'[q] = pub[q]
      BY <2>2, <3>1, <3>2 DEF PublishedIsTrue, Reports, Holds
    <3>3. CASE /\ pub'[q].edited = pub[q].edited /\ pub'[q].reg = pub[q].reg
               /\ AllMatch(q)
      BY <3>1, <3>3 DEF AllMatch, Matches, Holds
    <3> QED
      BY <3>1, <3>2, <3>3
  <2>3. ReadInv'
    BY <2>1 DEF ReadInv
  <2>4. PublishedIsTrue'
    BY <2>2 DEF PublishedIsTrue
  <2> QED
    BY <2>3, <2>4
<1> QED
  BY <1>1, <1>2

LEMMA ReadInit == Init => AloneInv /\ ReadInv /\ PublishedIsTrue
<1> SUFFICES ASSUME Init
             PROVE  AloneInv /\ ReadInv /\ PublishedIsTrue
  OBVIOUS
<1>1. \A p \in Publisher : pub[p].alone = FALSE /\ pub[p].pc = "idle"
  BY DEF Init, Resting
<1> QED
  BY <1>1 DEF AloneInv, ReadInv, PublishedIsTrue, Working

\* "Published" is true of the document and stays true until somebody else
\* publishes, although calls fail, edits are applied late or to the wrong
\* section, and publishers die with their jobs under way.
THEOREM PublishedStaysTrue == Spec => []PublishedIsTrue
  BY FineInit, FineInvariant, ReadInit, AloneStep, ReadStep, PTL DEF Spec


-----------------------------------------------------------------------------
(***************************************************************************)
(* A publish that nothing disturbs keeps its books, step by step.          *)
(***************************************************************************)
LEMMA TidyEarly ==
  ASSUME NEW s, NEW r, NEW k, NEW e,
         TidyWork(s), s.pc \in Early, SameWork(s, r), r.pc \in Early
  PROVE  Tidy(r, k, e)
  BY DEF Tidy, TidyWork, SameWork, Owed, Early

LEMMA TidyReported ==
  ASSUME NEW s, NEW r, NEW j, NEW d,
         Tidy(s, j, d), SameWork(s, r), s.pc \in {"settle", "check"},
         r.pc \in {"check", "done"}
  PROVE  Tidy(r, j, d)
<1>1. Owed(r) = Owed(s) /\ \A x : Order(r, x) = Order(s, x)
  BY DEF SameWork, Owed, Order
<1>2. TidyWork(r)
  BY <1>1 DEF Tidy, TidyWork, SameWork, Early
<1>3. Paid(r, j, d)
  BY <1>1 DEF Tidy, Paid, SameWork, Early
<1>4. TidyJob(r, j, d)
  BY <1>1 DEF Tidy, TidyJob, SameWork, Early, Between, Driving
<1> QED
  BY <1>2, <1>3, <1>4 DEF Tidy

\* Nothing to do: the document says what the register says.
LEMMA TidyNoop ==
  ASSUME NEW p \in Publisher, Fine, TidyWork(pub[p]), pub[p].pc = "plan",
         NEW r, EndsAs(pub[p], r, "noop"), jobs[p].st \notin Active,
         ToWrite(pub[p].reg) = {}, ToRemove(pub[p].reg) = {}
  PROVE  Tidy(r, jobs[p], doc)
<1>1. Owed(r) = {} /\ r.edited = {} /\ r.failed = FALSE /\ r.reg = pub[p].reg
  BY DEF EndsAs, SameWork, TidyWork, Early, Owed
<1>2. \A x \in Section : doc[x] = r.reg[x]
  BY <1>1 DEF ToWrite, ToRemove, Present
<1>3. TidyWork(r)
  BY <1>1 DEF TidyWork, EndsAs, SameWork, Owed, Early
<1>4. Paid(r, jobs[p], doc)
  BY <1>2 DEF Paid
<1>5. TidyJob(r, jobs[p], doc)
  BY DEF TidyJob, EndsAs, Active, Driving
<1> QED
  BY <1>3, <1>4, <1>5 DEF Tidy

LEMMA TidyPlanned ==
  ASSUME NEW p \in Publisher, Fine, TidyWork(pub[p]), pub[p].pc = "plan",
         NEW r, r.pc = "drive", r.reg = pub[p].reg,
         r.edited = pub[p].edited, r.failed = pub[p].failed,
         r.write = ToWrite(pub[p].reg), r.remove = ToRemove(pub[p].reg),
         jobs[p].st \notin Active
  PROVE  Tidy(r, jobs[p], doc)
<1>1. r.edited = {} /\ r.failed = FALSE
  BY DEF TidyWork, Early
<1>2. \A x \in Section \ Owed(r) : doc[x] = r.reg[x]
  BY DEF Owed, ToWrite, ToRemove, Present
<1>3. TidyWork(r)
  BY <1>1 DEF TidyWork, Early, ToWrite, ToRemove
<1>4. Paid(r, jobs[p], doc)
  BY <1>2 DEF Paid
<1>5. TidyJob(r, jobs[p], doc)
  BY DEF TidyJob, Active, Driving
<1> QED
  BY <1>3, <1>4, <1>5 DEF Tidy

LEMMA TidyUploaded ==
  ASSUME NEW s, NEW r, NEW j, TidyWork(s), s.pc = "upload",
         r.pc = "settle", r.reg = s.reg, r.edited = Present(s.reg),
         r.remove = s.remove, r.write = s.write, r.failed = s.failed,
         j.st \notin Active
  PROVE  Tidy(r, j, s.reg)
<1>1. Owed(r) = {}
  BY DEF TidyWork, Early, Owed
<1>2. TidyWork(r)
  BY <1>1 DEF TidyWork, Early
<1>3. Paid(r, j, s.reg) /\ TidyJob(r, j, s.reg)
  BY DEF Paid, TidyJob, Active, Driving
<1> QED
  BY <1>2, <1>3 DEF Tidy

LEMMA TidyTakesUp ==
  ASSUME NEW s, NEW r, NEW j, NEW d, NEW x, Tidy(s, j, d), s.pc = "drive",
         TakesUp(s, r, x), x \in IF s.remove # {} THEN s.remove ELSE s.write,
         j.st \notin Active
  PROVE  Tidy(r, j, d)
<1>1. Owed(r) = Owed(s) /\ \A y : Order(r, y) = Order(s, y)
  BY DEF TakesUp, SameWork, Owed, Order
<1>2. TidyWork(r)
  BY <1>1 DEF Tidy, TidyWork, TakesUp, SameWork, Early
<1>3. Paid(r, j, d)
  BY <1>1 DEF Tidy, Paid, TakesUp, SameWork, Early
<1>4. TidyJob(r, j, d)
  BY DEF TidyJob, TakesUp, SameWork, Between, Driving
<1> QED
  BY <1>2, <1>3, <1>4 DEF Tidy

LEMMA TidyAllDone ==
  ASSUME NEW s, NEW r, NEW j, NEW d, Tidy(s, j, d), s.pc = "drive",
         Moves(s, r, "settle"),
         (IF s.remove # {} THEN s.remove ELSE s.write) = {}
  PROVE  Tidy(r, j, d)
<1>1. Owed(r) = Owed(s) /\ \A y : Order(r, y) = Order(s, y)
  BY DEF Moves, SameWork, Owed, Order
<1>2. Owed(s) = {}
  BY DEF Owed
<1>3. TidyWork(r)
  BY <1>1, <1>2 DEF Tidy, TidyWork, Moves, SameWork, Early
<1>4. Paid(r, j, d)
  BY <1>1 DEF Tidy, Paid, Moves, SameWork, Early
<1>5. TidyJob(r, j, d)
  BY <1>1 DEF Tidy, TidyJob, Moves, SameWork, Between, Driving, Early
<1> QED
  BY <1>3, <1>4, <1>5 DEF Tidy

LEMMA TidyAsked ==
  ASSUME NEW s, NEW r, NEW j, NEW k, NEW d, Tidy(s, j, d), s.pc = "propose",
         Moves(s, r, "poll"), k.st = "working", k.granted = {},
         k.ask = Order(s, s.item)
  PROVE  Tidy(r, k, d)
<1>1. /\ Owed(r) = Owed(s) /\ r.reg = s.reg /\ r.item = s.item
      /\ \A y : Order(r, y) = Order(s, y)
  BY DEF Moves, SameWork, Owed, Order
<1>2. TidyWork(r)
  BY <1>1 DEF Tidy, TidyWork, Moves, SameWork, Early
<1>3. j.st # "applying"
  BY DEF Tidy, TidyJob, Early, Active
<1>4. Paid(r, k, d)
  BY <1>1, <1>3 DEF Tidy, Paid, Early
<1>5. TidyJob(r, k, d)
  BY <1>1 DEF Tidy, TidyJob, Moves, SameWork, Between, Driving, Early
<1> QED
  BY <1>2, <1>4, <1>5 DEF Tidy

LEMMA TidyAnswered ==
  ASSUME NEW s, NEW r, NEW j, NEW d, Tidy(s, j, d), s.pc = "poll",
         Moves(s, r, "decide")
  PROVE  Tidy(r, j, d)
<1>1. /\ Owed(r) = Owed(s) /\ r.reg = s.reg /\ r.item = s.item
      /\ \A y : Order(r, y) = Order(s, y)
  BY DEF Moves, SameWork, Owed, Order
<1>2. TidyWork(r)
  BY <1>1 DEF Tidy, TidyWork, Moves, SameWork, Early
<1>3. Paid(r, j, d)
  BY <1>1 DEF Tidy, Paid, Early
<1>4. TidyJob(r, j, d)
  BY <1>1 DEF Tidy, TidyJob, Moves, SameWork, Between, Driving, Early
<1> QED
  BY <1>2, <1>3, <1>4 DEF Tidy

\* An item is done: its change is there already, or granted.
LEMMA TidyItem ==
  ASSUME NEW s, NEW r, NEW j, NEW k, NEW d, s \in PubState,
         Tidy(s, j, d), s.pc \in {"poll", "decide"}, Completes(s, r),
         \/ k.st = "ended" /\ d[s.item] = s.reg[s.item]
         \/ k.st = "applying" /\ k.granted = {Order(s, s.item)}
  PROVE  Tidy(r, k, d)
<1>1. /\ r.reg = s.reg /\ r.failed = s.failed /\ r.pc = "drive"
      /\ r.remove = s.remove \ {s.item}
      /\ r.write = IF s.remove # {} THEN s.write ELSE s.write \ {s.item}
      /\ r.edited = IF s.remove # {} THEN s.edited ELSE s.edited \cup {s.item}
      /\ \A y : Order(r, y) = Order(s, y)
  BY DEF Completes, BackToLoop, Order
<1>2. /\ s.failed = FALSE
      /\ s.remove \cap Present(s.reg) = {} /\ s.write \subseteq Present(s.reg)
      /\ s.edited \subseteq Present(s.reg) \ Owed(s)
      /\ Paid(s, j, d) /\ j.st # "applying"
      /\ s.item \in IF s.remove # {} THEN s.remove ELSE s.write
  BY DEF Tidy, TidyWork, TidyJob, Early, Driving
<1>3. /\ Owed(r) = Owed(s) \ {s.item} /\ s.item \in Owed(s)
  BY <1>1, <1>2 DEF Owed
<1>4. TidyWork(r)
  BY <1>1, <1>2, <1>3 DEF TidyWork, Early, Owed
<1>5. \A x \in Section \ Owed(s) : d[x] = r.reg[x]
  BY <1>1, <1>2 DEF Paid
<1>6. Paid(r, k, d)
  BY <1>1, <1>3, <1>5 DEF Paid
<1>7. s.item \in Section
  BY <1>2 DEF PubState
<1>8. TidyJob(r, k, d)
  BY <1>1, <1>3, <1>7 DEF TidyJob, Driving
<1> QED
  BY <1>4, <1>6, <1>8 DEF Tidy

\* The service has looked at what was asked for.
LEMMA TidySettled ==
  ASSUME NEW s, NEW j, NEW k, NEW d, s \in PubState,
         Tidy(s, j, d), s.pc \notin Early, s.pc # "idle",
         j.st = "working", s.pc # "decide",
         k.ask = j.ask, k.granted = j.granted,
         \/ k.st = "ended" /\ j.ask.to = None /\ d[j.ask.sec] = None
         \/ k.st = "awaiting" /\ k.pending = {j.ask}
  PROVE  Tidy(s, k, d)
<1>1. s.pc = "poll"
  BY DEF Tidy, TidyJob, Early, Between, Active, PubState, Working
<1>2. j.ask = Order(s, s.item) /\ j.granted = {}
  BY <1>1 DEF Tidy, TidyJob, Early
<1>3. j.ask.sec = s.item /\ j.ask.to = s.reg[s.item]
  BY <1>2 DEF Order
<1>4. Paid(s, k, d)
  BY <1>1 DEF Tidy, Paid, Early
<1>5. TidyJob(s, k, d)
  BY <1>1, <1>2, <1>3 DEF Tidy, TidyJob, Early, Between, Driving
<1> QED
  BY <1>4, <1>5 DEF Tidy

\* The service has applied what was granted.
LEMMA TidyApplied ==
  ASSUME NEW s, NEW j, NEW k, NEW d, NEW e, s \in PubState,
         Tidy(s, j, d), s.pc \notin Early, s.pc # "idle",
         j.st = "applying", k.st = "ended",
         \A x \in Section :
           e[x] = IF \E c \in j.granted : c.sec = x
                  THEN (CHOOSE c \in j.granted : c.sec = x).to ELSE d[x]
  PROVE  Tidy(s, k, e)
<1>1. s.pc \in Between
  BY DEF Tidy, TidyJob, Early, Driving, Between, Active, PubState, Working
<1>2. PICK x \in Section \ Owed(s) : j.granted = {Order(s, x)}
  BY <1>1 DEF Tidy, TidyJob, Early, Between
<1>3. Order(s, x).sec = x /\ Order(s, x).to = s.reg[x]
  BY DEF Order
<1>4. e[x] = s.reg[x]
  <2> DEFINE c == CHOOSE c \in j.granted : c.sec = x
  <2>1. \E a \in j.granted : a.sec = x
    BY <1>2, <1>3
  <2>2. c \in j.granted
    BY <2>1
  <2> QED
    BY <1>2, <1>3, <2>1, <2>2
<1>5. ASSUME NEW y \in Section \ Owed(s), y # x
      PROVE  e[y] = s.reg[y]
  <2>1. ~ \E c \in j.granted : c.sec = y
    BY <1>2, <1>3, <1>5
  <2>2. e[y] = d[y]
    BY <2>1
  <2>3. Order(s, y) # Order(s, x)
    BY <1>5 DEF Order
  <2>4. j.granted # {Order(s, y)}
    BY <1>2, <2>3
  <2> QED
    BY <2>2, <2>4 DEF Tidy, Paid
<1>6. Paid(s, k, e)
  BY <1>4, <1>5 DEF Paid
<1>7. TidyJob(s, k, e)
  BY <1>1 DEF TidyJob, Between, Driving
<1> QED
  BY <1>6, <1>7 DEF Tidy


(***************************************************************************)
(* The invariant of the undisturbed.                                       *)
(***************************************************************************)
LEMMA NobodyBusy ==
  ASSUME NEW p \in Publisher, OthersRest(p), jobs[p].st \notin Active
  PROVE  ~Busy
  BY DEF OthersRest, Busy

\* What a publisher's own step makes of it, while nothing disturbs.
LEMMA OwnStepTidy ==
  ASSUME Fine, NEW p \in Publisher, Step(p), calm',
         Tidy(pub[p], jobs[p], doc), pub[p].pc \notin Early => OthersRest(p)
  PROVE  /\ Tidy(pub'[p], jobs'[p], doc')
         /\ pub'[p].pc \notin Early => OthersRest(p)'
<1>0. /\ pub[p] \in PubState /\ TidyWork(pub[p])
      /\ PubFine(pub[p], jobs[p])
  BY DEF Fine, Tidy
<1>1. CASE ListDocuments(p)
  <2>1. PICK pc \in {"plan", "upload"} : Moves(pub[p], pub'[p], pc)
    BY <1>1, ListEffect
  <2>2. SameWork(pub[p], pub'[p]) /\ pub'[p].pc \in Early /\ pub[p].pc \in Early
    BY <1>1, <2>1, ListEffect DEF Moves, Early
  <2> QED
    BY <1>0, <2>2, TidyEarly
<1>2. CASE Upload(p)
  <2>1. /\ pub[p].pc = "upload" /\ doc' = pub[p].reg /\ ~Busy /\ jobs' = jobs
        /\ pub'[p].pc = "settle" /\ pub'[p].reg = pub[p].reg
        /\ pub'[p].edited = Present(pub[p].reg)
        /\ pub'[p].remove = pub[p].remove /\ pub'[p].write = pub[p].write
        /\ pub'[p].failed = pub[p].failed
    BY <1>2, UploadEffect
  <2>2. jobs[p].st \notin Active /\ OthersRest(p)'
    BY <2>1 DEF Busy, OthersRest
  <2> QED
    BY <1>0, <2>1, <2>2, TidyUploaded
<1>3. CASE Plan(p)
  <2>1. /\ pub[p].pc = "plan" /\ jobs' = jobs /\ doc' = doc /\ ~Busy
        /\ \/ /\ ToWrite(pub[p].reg) = {} /\ ToRemove(pub[p].reg) = {}
              /\ EndsAs(pub[p], pub'[p], "noop")
           \/ /\ pub'[p].pc = "drive" /\ pub'[p].reg = pub[p].reg
              /\ pub'[p].edited = pub[p].edited
              /\ pub'[p].failed = pub[p].failed
              /\ pub'[p].write = ToWrite(pub[p].reg)
              /\ pub'[p].remove = ToRemove(pub[p].reg)
    BY <1>3, PlanEffect
  <2>2. jobs[p].st \notin Active /\ OthersRest(p)'
    BY <2>1 DEF Busy, OthersRest
  <2>3. Tidy(pub'[p], jobs[p], doc)
    BY <1>0, <2>1, <2>2, TidyNoop, TidyPlanned
  <2> QED
    BY <2>1, <2>2, <2>3
<1>4. CASE NextItem(p)
  <2>1. /\ pub[p].pc = "drive" /\ jobs' = jobs /\ doc' = doc
        /\ \/ Items(p) = {} /\ Moves(pub[p], pub'[p], "settle")
           \/ ~Busy /\ \E x \in Items(p) : TakesUp(pub[p], pub'[p], x)
    BY <1>4, NextItemEffect
  <2>2. OthersRest(p)'
    BY <2>1 DEF OthersRest, Early
  <2>3. Items(p) = IF pub[p].remove # {} THEN pub[p].remove ELSE pub[p].write
    BY DEF Items, Removing
  <2>4. CASE Items(p) = {} /\ Moves(pub[p], pub'[p], "settle")
    BY <2>1, <2>2, <2>3, <2>4, TidyAllDone
  <2>5. CASE ~Busy /\ \E x \in Items(p) : TakesUp(pub[p], pub'[p], x)
    <3>1. PICK x \in Items(p) : TakesUp(pub[p], pub'[p], x)
      BY <2>5
    <3>2. jobs[p].st \notin Active
      BY <2>5 DEF Busy
    <3> QED
      BY <2>1, <2>2, <2>3, <3>1, <3>2, TidyTakesUp
  <2> QED
    BY <2>1, <2>4, <2>5
<1>5. CASE Propose(p)
  <2>1. pub[p].pc = "propose" /\ doc' = doc /\ OtherJobs(p)
    BY <1>5, ProposeEffect
  <2>2. jobs[p].st \notin Active /\ OthersRest(p)
    BY <2>1 DEF Tidy, TidyJob, Early
  <2>3. ~Busy
    BY <2>2, NobodyBusy
  <2>4. Started(p, jobs'[p]) /\ Moves(pub[p], pub'[p], "poll")
    BY <1>5, <2>3, ProposeEffect
  <2>5. Asked(p) = Order(pub[p], pub[p].item)
    <3>1. pub[p].item \in IF Removing(p) THEN pub[p].remove ELSE pub[p].write
      BY <2>1 DEF Tidy, TidyJob, Early, Driving, Removing
    <3>2. Removing(p) => pub[p].reg[pub[p].item] = None
      <4>1. pub[p].item \in Section
        BY <2>1, ItemTyped
      <4> QED
        BY <1>0, <3>1, <4>1 DEF TidyWork, Present
    <3> QED
      BY <3>2 DEF Asked, Order
  <2>6. OthersRest(p)'
    BY <2>1, <2>2 DEF OthersRest, OtherJobs
  <2>7. Tidy(pub'[p], jobs'[p], doc)
    BY <2>1, <2>4, <2>5, TidyAsked DEF Started
  <2> QED
    BY <2>1, <2>6, <2>7
<1>6. CASE Poll(p)
  <2>1. pub[p].pc = "poll" /\ doc' = doc /\ jobs' = jobs
    BY <1>6, PollEffect
  <2>2. /\ OthersRest(p)' /\ jobs[p].st \in {"working", "awaiting", "ended"}
        /\ jobs[p].st = "ended" => doc[pub[p].item] = pub[p].reg[pub[p].item]
    BY <2>1 DEF Tidy, TidyJob, Early, OthersRest
  <2>3. \/ Moves(pub[p], pub'[p], "decide")
        \/ jobs[p].st = "ended" /\ Completes(pub[p], pub'[p])
    BY <1>6, <2>2, PollEffect
  <2>4. Tidy(pub'[p], jobs[p], doc)
    BY <1>0, <2>1, <2>2, <2>3, TidyAnswered, TidyItem
  <2> QED
    BY <2>1, <2>2, <2>4
<1>7. CASE Decide(p)
  <2>1. pub[p].pc = "decide" /\ doc' = doc /\ OtherJobs(p)
    BY <1>7, DecideEffect
  <2>2. /\ jobs[p].st = "awaiting" /\ OthersRest(p)
        /\ jobs[p].granted = {} /\ jobs[p].ask = Order(pub[p], pub[p].item)
        /\ jobs[p].pending = {jobs[p].ask}
    BY <1>0, <2>1 DEF Tidy, TidyJob, Early, PubFine
  <2>3. PICK c \in jobs[p].pending :
          /\ Approved(jobs[p], jobs'[p], c)
          /\ jobs[p].pending # {c} \/ Completes(pub[p], pub'[p])
    BY <1>7, DecideEffect
  <2>4. /\ jobs'[p].st = "applying" /\ Completes(pub[p], pub'[p])
        /\ jobs'[p].granted = {Order(pub[p], pub[p].item)}
    BY <2>2, <2>3 DEF Approved
  <2>5. Tidy(pub'[p], jobs'[p], doc)
    BY <1>0, <2>1, <2>4, TidyItem
  <2>6. OthersRest(p)'
    BY <2>1, <2>2 DEF OthersRest, OtherJobs
  <2> QED
    BY <2>1, <2>5, <2>6
<1>8. CASE Settle(p)
  <2>1. /\ pub[p].pc = "settle" /\ jobs' = jobs /\ doc' = doc
        /\ SameWork(pub[p], pub'[p]) /\ pub'[p].pc \in {"check", "done"}
    BY <1>8, SettleEffect DEF Moves, EndsAs
  <2>2. OthersRest(p)'
    BY <2>1 DEF OthersRest, Early
  <2> QED
    BY <2>1, <2>2, TidyReported
<1>9. CASE Check(p)
  <2>1. /\ pub[p].pc = "check" /\ jobs' = jobs /\ doc' = doc
        /\ SameWork(pub[p], pub'[p]) /\ pub'[p].pc = "done"
    BY <1>9, CheckEffect DEF EndsAs
  <2>2. OthersRest(p)'
    BY <2>1 DEF OthersRest, Early
  <2> QED
    BY <2>1, <2>2, TidyReported
<1> QED
  BY <1>1, <1>2, <1>3, <1>4, <1>5, <1>6, <1>7, <1>8, <1>9 DEF Step

\* What the service makes of an undisturbed publish, and what it does for
\* the others meanwhile.
LEMMA ServiceTidy ==
  ASSUME Fine, NEW p \in Publisher, NEW q \in Publisher, Service(p), calm',
         pub[q].pc # "idle",
         Tidy(pub[q], jobs[q], doc), pub[q].pc \notin Early => OthersRest(q)
  PROVE  /\ Tidy(pub'[q], jobs'[q], doc')
         /\ pub'[q].pc \notin Early => OthersRest(q)'
<1>0. /\ pub[q] \in PubState /\ pub' = pub /\ TidyWork(pub[q])
      /\ PubFine(pub[q], jobs[q]) /\ OtherJobs(p) /\ jobs[p].st \in Active
  BY ServiceOnward DEF Fine, Tidy
<1>1. CASE pub[q].pc \in Early
  BY <1>0, <1>1 DEF Tidy
<1>2. CASE pub[q].pc \notin Early
  <2>1. p = q
    BY <1>0, <1>2 DEF OthersRest
  <2>2. OthersRest(q)'
    BY <1>0, <1>2, <2>1 DEF OthersRest, OtherJobs
  <2>3. CASE JobSettles(q)
    <3>1. /\ jobs[q].st = "working" /\ doc' = doc
          /\ jobs'[q].ask = jobs[q].ask /\ jobs'[q].granted = jobs[q].granted
          /\ \/ Idle(jobs[q].ask) /\ jobs'[q].st = "ended"
             \/ /\ jobs'[q].st = "awaiting"
                /\ jobs'[q].pending = {jobs[q].ask}
      BY <2>3, JobSettlesEffect
    <3>2. pub[q].pc # "decide"
      BY <1>0, <3>1 DEF PubFine
    <3>3. Tidy(pub[q], jobs'[q], doc)
      BY <1>0, <1>2, <3>1, <3>2, TidySettled DEF Idle
    <3> QED
      BY <1>0, <2>2, <3>1, <3>3
  <2>4. CASE JobApplies(q)
    <3>1. /\ jobs[q].st = "applying" /\ jobs'[q].st = "ended"
          /\ \A s \in Section :
               doc'[s] = IF \E c \in jobs[q].granted : c.sec = s
                         THEN (CHOOSE c \in jobs[q].granted : c.sec = s).to
                         ELSE doc[s]
      BY <2>4, JobAppliesEffect
    <3>2. Tidy(pub[q], jobs'[q], doc')
      BY <1>0, <1>2, <3>1, TidyApplied
    <3> QED
      BY <1>0, <2>2, <3>2
  <2> QED
    BY <2>1, <2>3, <2>4 DEF Service
<1> QED
  BY <1>1, <1>2


\* The read-back of an undisturbed publish finds every section it edited.
LEMMA ReadBackMatches ==
  ASSUME Fine, ReadInv, NEW p \in Publisher, pub[p].pc = "check",
         pub[p].alone, Tidy(pub[p], jobs[p], doc)
  PROVE  pub[p].failed = FALSE /\ AllMatch(p)
<1>1. /\ pub[p].failed = FALSE /\ Paid(pub[p], jobs[p], doc)
      /\ pub[p].edited \subseteq Present(pub[p].reg) \ Owed(pub[p])
  BY DEF Tidy, TidyWork, Early
<1>2. ~Busy
  BY DEF ReadInv
<1>3. jobs[p].st # "applying"
  BY <1>2 DEF Busy, Active
<1>4. pub[p].reg \in Text
  BY PublishAssumption DEF Fine, PubState, Blank, Text
<1>5. ASSUME NEW s \in pub[p].edited
      PROVE  Matches(s, pub[p].reg[s])
  <2>1. s \in Section /\ pub[p].reg[s] # None /\ doc[s] = pub[p].reg[s]
    BY <1>1, <1>3, <1>5 DEF Present, Paid
  <2>2. pub[p].reg[s] \in Content
    BY <1>4, <2>1 DEF Text
  <2> QED
    BY <2>1, <2>2, PublishAssumption DEF Matches
<1> QED
  BY <1>1, <1>5 DEF AllMatch

LEMMA CalmKept ==
  ASSUME Fine, AloneInv, ReadInv, CalmInv, Next, calm',
         NEW q \in Publisher, pub'[q].alone, pub'[q].pc # "idle"
  PROVE  /\ Tidy(pub'[q], jobs'[q], doc')
         /\ pub'[q].pc \notin Early => OthersRest(q)'
<1>1. PICK p \in Publisher :
        \/ Begun(p) \/ Step(p) \/ Service(p) \/ Crash(p)
  BY BeginEffect DEF Next
<1>2. CASE Begun(p)
  <2>1. /\ q = p /\ pub'[p].pc = "list" /\ pub'[p].failed = FALSE
        /\ pub'[p].remove = {} /\ pub'[p].write = {} /\ pub'[p].edited = {}
    BY <1>2 DEF Begun
  <2>2. Tidy(pub'[q], jobs'[q], doc')
    BY <2>1 DEF Tidy, TidyWork, Early, Owed
  <2> QED
    BY <2>1, <2>2 DEF Early
<1>3. CASE Step(p)
  <2>1. pub[p].pc \in Working /\ Others(p) /\ pub'[p].alone = pub[p].alone /\ calm
    BY <1>3, StepWorks, StepOnward DEF Onward
  <2>2. q = p
    BY <2>1 DEF AloneInv, Others
  <2>3. /\ Tidy(pub[p], jobs[p], doc)
        /\ pub[p].pc \notin Early => OthersRest(p)
    BY <2>1, <2>2 DEF CalmInv, Working
  <2> QED
    BY <1>3, <2>2, <2>3, OwnStepTidy
<1>4. CASE Service(p)
  <2>1. pub' = pub /\ calm
    BY <1>4, ServiceOnward DEF Onward
  <2>2. /\ Tidy(pub[q], jobs[q], doc) /\ pub[q].pc # "idle"
        /\ pub[q].pc \notin Early => OthersRest(q)
    BY <2>1 DEF CalmInv
  <2> QED
    BY <1>4, <2>2, ServiceTidy
<1>5. ~Crash(p)
  BY CrashOnward
<1> QED
  BY <1>1, <1>2, <1>3, <1>4, <1>5

LEMMA AlarmKept ==
  ASSUME Fine, AloneInv, ReadInv, CalmInv, Next, calm',
         NEW q \in Publisher, Reports(q, "unpublished")'
  PROVE  pub'[q].edited = {}
<1>1. PICK p \in Publisher :
        \/ Begun(p) \/ Step(p) \/ Service(p) \/ Crash(p)
  BY BeginEffect DEF Next
<1>2. calm => (Reports(q, "unpublished") => pub[q].edited = {})
  BY DEF CalmInv, NoFalseAlarm
<1>3. CASE Begun(p)
  BY <1>2, <1>3 DEF Begun, Reports
<1>4. CASE Service(p)
  BY <1>2, <1>4, ServiceOnward DEF Onward, Reports
<1>5. ~Crash(p)
  BY CrashOnward
<1>6. CASE Step(p) /\ q # p
  BY <1>2, <1>6, StepOnward DEF Onward, Others, Reports
<1>7. CASE Step(p) /\ q = p
  <2>0. pub[p].pc \in Working /\ calm
    BY <1>7, StepWorks, StepOnward DEF Onward
  <2>1. pub'[p].pc = "done" /\ pub'[p].outcome = "unpublished"
    BY <1>7 DEF Reports
  <2>2. CASE Settle(p)
    BY <1>7, <2>1, <2>2, SettleEffect DEF Moves, EndsAs, SameWork
  <2>3. ~Check(p)
    <3>1. SUFFICES ASSUME Check(p)
                   PROVE  FALSE
      OBVIOUS
    <3>2. pub[p].pc = "check"
      BY <3>1, CheckEffect
    <3>3. pub[p].alone /\ Tidy(pub[p], jobs[p], doc)
      BY <2>0, <3>2 DEF AloneInv, CalmInv
    <3>4. pub[p].failed = FALSE /\ AllMatch(p)
      BY <3>2, <3>3, ReadBackMatches
    <3> QED
      BY <2>1, <3>1, <3>4, CheckEffect DEF EndsAs
  <2>4. ~ListDocuments(p)
    BY <2>1, ListEffect DEF Moves, EndsAs
  <2>5. ~Upload(p)
    BY <2>1, UploadEffect DEF EndsAs
  <2>6. ~Plan(p)
    BY <2>1, PlanEffect DEF EndsAs
  <2>7. ~NextItem(p)
    BY <2>1, NextItemEffect DEF Moves, TakesUp, Fails, BackToLoop
  <2>8. ~Propose(p)
    BY <2>1, ProposeEffect DEF Moves, Fails, BackToLoop
  <2>9. ~Poll(p)
    BY <2>1, PollEffect DEF Moves, Fails, Completes, BackToLoop
  <2>10. ~Decide(p)
    BY <2>1, DecideEffect DEF Fails, Completes, BackToLoop
  <2> QED
    BY <1>7, <2>2, <2>3, <2>4, <2>5, <2>6, <2>7, <2>8, <2>9, <2>10 DEF Step
<1> QED
  BY <1>1, <1>3, <1>4, <1>5, <1>6, <1>7

LEMMA CalmStep ==
  ASSUME Fine, AloneInv, ReadInv, CalmInv, [Next]_vars
  PROVE  CalmInv'
<1>1. CASE UNCHANGED vars
  BY <1>1 DEF vars, session, CalmInv, NoFalseAlarm, Reports, OthersRest
<1>2. CASE Next
  <2> SUFFICES ASSUME calm'
               PROVE  /\ \A q \in Publisher :
                           pub'[q].alone /\ pub'[q].pc # "idle" =>
                             /\ Tidy(pub'[q], jobs'[q], doc')
                             /\ pub'[q].pc \notin Early => OthersRest(q)'
                      /\ NoFalseAlarm'
    BY DEF CalmInv
  <2>1. \A q \in Publisher :
          pub'[q].alone /\ pub'[q].pc # "idle" =>
            /\ Tidy(pub'[q], jobs'[q], doc')
            /\ pub'[q].pc \notin Early => OthersRest(q)'
    BY <1>2, CalmKept
  <2>2. \A q \in Publisher : Reports(q, "unpublished")' => pub'[q].edited = {}
    BY <1>2, AlarmKept
  <2>3. NoFalseAlarm'
    BY <2>2 DEF NoFalseAlarm
  <2> QED
    BY <2>1, <2>3
<1> QED
  BY <1>1, <1>2

LEMMA CalmInit == Init => CalmInv
  BY DEF Init, Resting, CalmInv, NoFalseAlarm, Reports

LEMMA Invariant == Spec => []IInv
<1>1. Init => IInv
  BY FineInit, ReadInit, CalmInit DEF IInv
<1>2. IInv /\ [Next]_vars => IInv'
  <2> SUFFICES ASSUME IInv, [Next]_vars
               PROVE  IInv'
    OBVIOUS
  <2>1. Fine' /\ AloneInv'
    BY FineInvariant, AloneStep DEF IInv
  <2>2. ReadInv' /\ PublishedIsTrue'
    BY ReadStep DEF IInv
  <2>3. CalmInv'
    BY CalmStep DEF IInv
  <2> QED
    BY <2>1, <2>2, <2>3 DEF IInv
<1> QED
  BY <1>1, <1>2, PTL DEF Spec

\* Where nothing fails and nobody interferes, a publish that edited anything
\* is not reported as failed, although the approval is answered before the
\* change is applied: the read-back waits for the session.
THEOREM NoFalseAlarms == Spec => []NoFalseAlarm
<1>1. IInv => NoFalseAlarm
  BY DEF IInv, CalmInv, NoFalseAlarm
<1> QED
  BY <1>1, Invariant, PTL

\* A publish that nothing disturbed leaves the document saying exactly what
\* the register says, once the last job has been applied: what is not owed
\* any more is in the document or granted, and in the end nothing is owed.
THEOREM UndisturbedConverges == Spec => []UndisturbedPublishConverges
<1>1. IInv => UndisturbedPublishConverges
  <2> SUFFICES ASSUME IInv, calm, ~Busy,
                      NEW p \in Publisher, pub[p].pc = "done", pub[p].alone
               PROVE  doc = pub[p].reg
    BY DEF UndisturbedPublishConverges
  <2>1. Tidy(pub[p], jobs[p], doc) /\ doc \in Text /\ pub[p] \in PubState
    BY DEF IInv, CalmInv, Fine
  <2>2. Owed(pub[p]) = {} /\ Paid(pub[p], jobs[p], doc)
    BY <2>1 DEF Tidy, TidyWork, Early
  <2>3. jobs[p].st # "applying"
    BY DEF Busy, Active
  <2>4. \A x \in Section : doc[x] = pub[p].reg[x]
    BY <2>2, <2>3 DEF Paid
  <2>5. pub[p].reg \in Text
    BY <2>1, PublishAssumption DEF PubState, Blank, Text
  <2> QED
    BY <2>1, <2>4, <2>5 DEF Text
<1> QED
  BY <1>1, Invariant, PTL

=============================================================================

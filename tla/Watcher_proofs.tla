--------------------------- MODULE Watcher_proofs ---------------------------
(***************************************************************************)
(* Proofs about Watcher, for any folder, any number of callers of the poll *)
(* and any bounds.                                                         *)
(***************************************************************************)
EXTENDS Watcher, TLAPS

LEMMA AsleepType == Nothing \in Names /\ Asleep \in PollState
BY DEF Nothing, Names, Asleep, PollState

\* What a poll adds to the document table is a table of rows.
LEMMA NewRowsType ==
  ASSUME NEW S \in SUBSET File
  PROVE  NewRows(S) \subseteq Row
<1> SUFFICES ASSUME NEW c \in Readable, \E f \in S : disk[f] = c
             PROVE  [uri |-> CHOOSE f \in S : disk[f] = c, sha256 |-> c] \in Row
  BY DEF NewRows
<1>1. (CHOOSE f \in S : disk[f] = c) \in File
  OBVIOUS
<1> QED
  BY <1>1, WatchAssumption DEF Row

LEMMA TypeInit == Init => TypeOK
<1> SUFFICES ASSUME Init PROVE TypeOK
  OBVIOUS
<1>1. disk \in Names /\ seen \in Names
  BY AsleepType DEF Init
<1>2. writes \in [File -> Nat] /\ past \in [File -> SUBSET (Content \cup {Absent})]
  BY DEF Init
<1>3. poll \in [Poller -> PollState]
  BY AsleepType DEF Init
<1>4. ingested \subseteq Row /\ up \in BOOLEAN /\ failed \in BOOLEAN
  BY DEF Init
<1>5. faults \in Nat /\ crashes \in Nat
  BY DEF Init
<1> QED
  BY <1>1, <1>2, <1>3, <1>4, <1>5 DEF TypeOK

LEMMA TypeStep == TypeOK /\ [Next]_vars => TypeOK'
<1> SUFFICES ASSUME TypeOK, [Next]_vars PROVE TypeOK'
  OBVIOUS
<1> USE DEF world
<1>1. ASSUME NEW f \in File, NEW c \in Content \cup {Absent}, Write(f, c)
      PROVE  TypeOK'
  BY <1>1 DEF Write, TypeOK, Names
<1>2. ASSUME NEW p \in Poller, List(p) PROVE TypeOK'
  <2>1. Holding(disk) \in PollState
    BY DEF Holding, TypeOK, PollState
  <2>2. \A f \in File : Holding([disk EXCEPT ![f] = Absent]) \in PollState
    BY DEF Holding, TypeOK, PollState, Names
  <2> QED
    <3>1. poll' \in [Poller -> PollState]
      BY <1>2, <2>1, <2>2 DEF List, TypeOK
    <3>2. faults' \in Nat
      BY <1>2 DEF List, TypeOK
    <3> QED
      BY <1>2, <3>1, <3>2 DEF List, TypeOK
<1>3. ASSUME NEW p \in Poller, Diff(p) PROVE TypeOK'
  BY <1>3 DEF Diff, TypeOK, PollState
<1>4. ASSUME NEW p \in Poller, Settle(p) PROVE TypeOK'
  <2>1. poll[p] \in PollState
    BY DEF TypeOK
  <2>2. [poll[p] EXCEPT !.pc = "run"] \in PollState
    BY <2>1 DEF PollState
  <2> QED
    <3>1. poll[p].found \in Names
      BY <2>1 DEF PollState
    <3>2. poll' \in [Poller -> PollState]
      BY <1>4, <2>1, <2>2, AsleepType DEF Settle, TypeOK
    <3> QED
      BY <1>4, <3>1, <3>2 DEF Settle, TypeOK
<1>5. ASSUME NEW p \in Poller, Run(p) PROVE TypeOK'
  <2>1. NewRows(Paths(p)) \subseteq Row
    BY NewRowsType DEF Paths
  <2> QED
    BY <1>5, <2>1, AsleepType DEF Run, TypeOK
<1>6. ASSUME NEW p \in Poller, RunRaises(p) PROVE TypeOK'
  BY <1>6, AsleepType DEF RunRaises, TypeOK
<1>7. ASSUME Crash PROVE TypeOK'
  <2>1. poll' \in [Poller -> PollState] /\ seen' \in Names
    BY <1>7, AsleepType DEF Crash
  <2>2. crashes' \in Nat
    BY <1>7 DEF Crash, TypeOK
  <2>3. up' \in BOOLEAN
    BY <1>7 DEF Crash
  <2> QED
    BY <1>7, <2>1, <2>2, <2>3 DEF Crash, TypeOK
<1>8. ASSUME Boot PROVE TypeOK'
  BY <1>8 DEF Boot, Primed, TypeOK
<1>9. ASSUME UNCHANGED vars PROVE TypeOK'
  BY <1>9 DEF vars, TypeOK
<1> QED
  BY <1>1, <1>2, <1>3, <1>4, <1>5, <1>6, <1>7, <1>8, <1>9 DEF Next, Step

\* Every variable stays in its type; in particular priming at startup yields
\* one listing, however many rows a name has in the document table.
THEOREM TypeCorrect == Spec => []TypeOK
BY TypeInit, TypeStep, PTL DEF Spec

-----------------------------------------------------------------------------
(***************************************************************************)
(* No document is forgotten.  A listing is compared, remembered and acted  *)
(* on in different steps, so what is seen now may have been judged against *)
(* what was seen then: the invariant carries the judgement along.          *)
(***************************************************************************)

\* A content that need not be reported again under that name: it has been
\* ingested, a run is about to read the name, or the name held it before.
Settled(f, c) ==
  \/ IsIngested(c)
  \/ c \in past[f]
  \/ \E p \in Poller : poll[p].pc = "run" /\ f \in Paths(p)

\* What was once read from the disk is there still or has been replaced.
Genuine(f, c) == c = Absent \/ c = disk[f] \/ c \in past[f]

ListingsAreGenuine ==
  \A p \in Poller, f \in File : Genuine(f, poll[p].found[f])

\* What is seen was on the disk, or is remembered from the table.
SeenIsGenuine == \A f \in File : Genuine(f, seen[f]) \/ IsIngested(seen[f])

SeenIsSettled ==
  up /\ ~failed =>
    \A f \in File : seen[f] \in Readable => Settled(f, seen[f])

\* A poll that found nothing to do found only what was settled.
QuietIsSettled ==
  ~failed =>
    \A p \in Poller, f \in File :
      /\ poll[p].pc = "diffed" /\ ~poll[p].trigger
      /\ poll[p].found[f] \in Readable
      => Settled(f, poll[p].found[f])

\* Only a living process polls.
DeadSleep == ~up => \A p \in Poller : poll[p] = Asleep

IInv ==
  /\ TypeOK
  /\ ListingsAreGenuine
  /\ SeenIsGenuine
  /\ SeenIsSettled
  /\ QuietIsSettled
  /\ DeadSleep


LEMMA IInvInit == Init => IInv
<1> SUFFICES ASSUME Init PROVE IInv
  OBVIOUS
<1>1. \A p \in Poller : poll[p] = Asleep
  BY DEF Init
<1>2. \A f \in File : Nothing[f] = Absent
  BY DEF Nothing
<1>3. Absent \notin Readable
  BY WatchAssumption
<1>4. ListingsAreGenuine
  <2>1. Asleep.found = Nothing
    BY DEF Asleep
  <2>2. \A p \in Poller, f \in File : poll[p].found[f] = Absent
    BY <1>1, <1>2, <2>1
  <2> QED
    BY <2>2 DEF ListingsAreGenuine, Genuine
<1>5. SeenIsSettled /\ SeenIsGenuine
  BY <1>2, <1>3 DEF SeenIsSettled, SeenIsGenuine, Genuine, Init
<1>6. QuietIsSettled
  BY <1>1 DEF QuietIsSettled, Asleep
<1> QED
  BY <1>1, <1>4, <1>5, <1>6, TypeInit DEF IInv, DeadSleep

\* A step that keeps the table, the past and the runs under way keeps every
\* content settled that was.
LEMMA StaysSettled ==
  ASSUME TypeOK, TypeOK',
         ingested \subseteq ingested',
         \A g \in File : past[g] \subseteq past'[g],
         \A p \in Poller : poll[p].pc = "run" => poll'[p] = poll[p]
  PROVE  \A f \in File, c \in Content : Settled(f, c) => Settled(f, c)'
BY DEF Settled, IsIngested, Paths

\* What was genuine stays so: a content that leaves the disk becomes past.
LEMMA StaysGenuine ==
  ASSUME TypeOK, [Next]_vars
  PROVE  \A f \in File, c \in Content \cup {Absent} :
           Genuine(f, c) => Genuine(f, c)'
<1>1. ASSUME NEW f \in File, NEW c \in Content \cup {Absent}, Write(f, c)
      PROVE  \A g \in File, b \in Content \cup {Absent} :
               Genuine(g, b) => Genuine(g, b)'
  BY <1>1 DEF Write, Genuine, TypeOK, Names
<1>2. ASSUME UNCHANGED world
      PROVE  \A g \in File, b \in Content \cup {Absent} :
               Genuine(g, b) => Genuine(g, b)'
  BY <1>2 DEF world, Genuine
<1> QED
  BY <1>1, <1>2
     DEF Next, Step, vars, world, List, Diff, Settle, Run, RunRaises, Crash, Boot

LEMMA GenuineStep ==
  ASSUME TypeOK, TypeOK', ListingsAreGenuine, [Next]_vars
  PROVE  ListingsAreGenuine'
<1>0. \A f \in File, c \in Content \cup {Absent} :
        Genuine(f, c) => Genuine(f, c)'
  BY StaysGenuine
<1>1. \A p \in Poller : poll[p] \in PollState
  BY DEF TypeOK
<1>2. \A p \in Poller, f \in File : poll[p].found[f] \in Content \cup {Absent}
  BY <1>1 DEF PollState, Names
<1>3. \A f \in File : Asleep.found[f] = Absent
  BY DEF Asleep, Nothing
<1>4. ASSUME NEW p \in Poller, \A q \in Poller \ {p} : poll'[q] = poll[q],
             \A f \in File : Genuine(f, poll[p].found[f])'
      PROVE  ListingsAreGenuine'
  BY <1>0, <1>2, <1>4 DEF ListingsAreGenuine
<1>5. ASSUME NEW p \in Poller, List(p) PROVE ListingsAreGenuine'
  <2>1. \A q \in Poller \ {p} : poll'[q] = poll[q]
    BY <1>5 DEF List, TypeOK
  <2>2. UNCHANGED world
    BY <1>5 DEF List
  <2>3. \A f \in File : poll'[p].found[f] \in {disk[f], Absent}
    BY <1>5 DEF List, TypeOK, Names, Holding
  <2> QED
    BY <1>4, <2>1, <2>2, <2>3 DEF Genuine, world
<1>6. ASSUME NEW p \in Poller, Diff(p) PROVE ListingsAreGenuine'
  <2>1. \A q \in Poller : poll'[q].found = poll[q].found
    BY <1>1, <1>6 DEF Diff, TypeOK, PollState
  <2> QED
    BY <1>0, <1>2, <2>1 DEF ListingsAreGenuine
<1>7. ASSUME NEW p \in Poller, Settle(p) PROVE ListingsAreGenuine'
  <2>1. \A q \in Poller \ {p} : poll'[q] = poll[q]
    BY <1>7 DEF Settle, TypeOK
  <2>2. poll'[p].found \in {poll[p].found, Asleep.found}
    BY <1>1, <1>7 DEF Settle, TypeOK, PollState
  <2> QED
    BY <1>0, <1>2, <1>3, <1>4, <2>1, <2>2 DEF ListingsAreGenuine, Genuine
<1>8. ASSUME NEW p \in Poller, Run(p) \/ RunRaises(p)
      PROVE  ListingsAreGenuine'
  <2>1. poll' = [poll EXCEPT ![p] = Asleep]
    BY <1>8 DEF Run, RunRaises
  <2> QED
    BY <1>3, <1>4, <2>1 DEF Genuine, TypeOK
<1>9. ASSUME Crash PROVE ListingsAreGenuine'
  BY <1>3, <1>9 DEF Crash, ListingsAreGenuine, Genuine
<1>10. ASSUME UNCHANGED poll PROVE ListingsAreGenuine'
  BY <1>0, <1>2, <1>10 DEF ListingsAreGenuine
<1> QED
  BY <1>5, <1>6, <1>7, <1>8, <1>9, <1>10 DEF Next, Step, vars, Write, Boot

\* A run that reads its files takes in what it was started for: what is no
\* longer on the disk by then has become past.
LEMMA RunSettles ==
  ASSUME TypeOK, TypeOK', NEW p \in Poller, Run(p), ~failed',
         NEW f \in File, NEW c \in Readable,
         Genuine(f, c) \/ IsIngested(c), Settled(f, c)
  PROVE  Settled(f, c)'
<1>1. ingested' = ingested \cup NewRows(Paths(p))
  BY DEF Run
<1>2. CASE IsIngested(c) \/ c \in past[f]
  BY <1>1, <1>2 DEF Settled, IsIngested, Run, world
<1>3. CASE f \in Paths(p) /\ ~IsIngested(c) /\ c \notin past[f]
  <2>1. c = disk[f]
    BY <1>3, WatchAssumption DEF Genuine
  <2>2. [uri |-> CHOOSE g \in Paths(p) : disk[g] = c, sha256 |-> c]
          \in NewRows(Paths(p))
    BY <1>3, <2>1 DEF NewRows
  <2>3. IsIngested(c)'
    BY <1>1, <2>2 DEF IsIngested
  <2> QED
    BY <2>3 DEF Settled
<1>4. CASE f \notin Paths(p) /\ ~IsIngested(c) /\ c \notin past[f]
  <2>1. PICK q \in Poller : poll[q].pc = "run" /\ f \in Paths(q)
    BY <1>4 DEF Settled
  <2>2. poll'[q] = poll[q]
    BY <1>4, <2>1 DEF Run, TypeOK
  <2> QED
    BY <2>1, <2>2 DEF Settled, Paths
<1> QED
  BY <1>2, <1>3, <1>4

LEMMA SettledStep ==
  ASSUME IInv, TypeOK', [Next]_vars
  PROVE  SeenIsSettled' /\ QuietIsSettled' /\ SeenIsGenuine' /\ DeadSleep'
<1> USE DEF IInv
<1>0. /\ \A p \in Poller : poll[p] \in PollState
      /\ \A p \in Poller, f \in File : poll[p].found[f] \in Content \cup {Absent}
      /\ \A f \in File : seen[f] \in Content \cup {Absent}
      /\ Readable \subseteq Content /\ Absent \notin Readable
      /\ Asleep.pc = "idle"
  BY WatchAssumption DEF TypeOK, PollState, Names, Asleep
<1>1. \A f \in File, c \in Content \cup {Absent} :
        Genuine(f, c) => Genuine(f, c)'
  BY StaysGenuine
<1>2. ASSUME ingested \subseteq ingested', UNCHANGED seen PROVE SeenIsGenuine'
  BY <1>0, <1>1, <1>2 DEF SeenIsGenuine, IsIngested
<1>3. ASSUME NEW f \in File, NEW c \in Content \cup {Absent}, Write(f, c)
      PROVE  SeenIsSettled' /\ QuietIsSettled' /\ SeenIsGenuine' /\ DeadSleep'
  <2>1. \A g \in File, b \in Content : Settled(g, b) => Settled(g, b)'
    BY <1>3, StaysSettled DEF Write, TypeOK
  <2> QED
    BY <1>0, <1>2, <1>3, <2>1
       DEF Write, SeenIsSettled, QuietIsSettled, DeadSleep
<1>4. ASSUME NEW p \in Poller, List(p)
      PROVE  SeenIsSettled' /\ QuietIsSettled' /\ SeenIsGenuine' /\ DeadSleep'
  <2>1. /\ \A q \in Poller \ {p} : poll'[q] = poll[q]
        /\ poll[p].pc = "idle" /\ poll'[p].pc = "listed"
    BY <1>4 DEF List, At, TypeOK, Holding
  <2>2. \A g \in File, b \in Content : Settled(g, b) => Settled(g, b)'
    BY <1>4, <2>1, StaysSettled DEF List, world
  <2> QED
    BY <1>0, <1>2, <1>4, <2>1, <2>2
       DEF List, At, SeenIsSettled, QuietIsSettled, DeadSleep
<1>5. ASSUME NEW p \in Poller, Diff(p)
      PROVE  SeenIsSettled' /\ QuietIsSettled' /\ SeenIsGenuine' /\ DeadSleep'
  <2>1. /\ \A q \in Poller \ {p} : poll'[q] = poll[q]
        /\ poll[p].pc = "listed"
        /\ poll'[p].found = poll[p].found
        /\ poll'[p].trigger = (Changed(poll[p].found) # {})
    BY <1>0, <1>5 DEF Diff, At, TypeOK, PollState
  <2>2. \A g \in File, b \in Content : Settled(g, b) => Settled(g, b)'
    BY <1>5, <2>1, StaysSettled DEF Diff, world
  <2>3. ASSUME ~poll'[p].trigger, ~failed, NEW f \in File,
               poll'[p].found[f] \in Readable
        PROVE  Settled(f, poll[p].found[f])
    <3>1. seen[f] = poll[p].found[f]
      BY <1>0, <2>1, <2>3 DEF Changed
    <3> QED
      BY <1>5, <2>1, <2>3, <3>1 DEF Diff, At, SeenIsSettled
  <2>4. QuietIsSettled'
    BY <1>0, <1>5, <2>1, <2>2, <2>3 DEF Diff, QuietIsSettled
  <2> QED
    BY <1>0, <1>2, <1>5, <2>2, <2>4 DEF Diff, At, SeenIsSettled, DeadSleep
<1>6. ASSUME NEW p \in Poller, Settle(p)
      PROVE  SeenIsSettled' /\ QuietIsSettled' /\ SeenIsGenuine' /\ DeadSleep'
  <2>1. /\ \A q \in Poller \ {p} : poll'[q] = poll[q]
        /\ poll[p].pc = "diffed"
        /\ seen' = poll[p].found
    BY <1>6 DEF Settle, At, TypeOK
  <2>2. \A g \in File, b \in Content : Settled(g, b) => Settled(g, b)'
    BY <1>6, <2>1, StaysSettled DEF Settle, world
  <2>3. poll'[p].pc # "diffed"
    BY <1>0, <1>6 DEF Settle, TypeOK, PollState
  <2>4. SeenIsGenuine'
    BY <1>0, <1>1, <2>1 DEF ListingsAreGenuine, SeenIsGenuine
  <2>5. ASSUME NEW f \in File, poll[p].found[f] \in Readable, ~failed
        PROVE  Settled(f, seen[f])'
    <3>1. CASE poll[p].trigger
      <4>1. poll'[p].pc = "run" /\ poll'[p].found = poll[p].found
        BY <1>0, <1>6, <3>1 DEF Settle, TypeOK, PollState
      <4>2. f \in Paths(p)'
        BY <1>0, <2>5, <4>1 DEF Paths
      <4> QED
        BY <1>0, <2>5, <4>1, <4>2 DEF Settled
    <3>2. CASE ~poll[p].trigger
      BY <1>0, <2>1, <2>2, <2>5, <3>2 DEF QuietIsSettled
    <3> QED
      BY <3>1, <3>2
  <2>6. SeenIsSettled'
    BY <1>6, <2>1, <2>5 DEF Settle, SeenIsSettled
  <2>7. QuietIsSettled'
    BY <1>0, <1>6, <2>1, <2>2, <2>3 DEF Settle, QuietIsSettled
  <2> QED
    BY <1>6, <2>4, <2>6, <2>7 DEF Settle, At, DeadSleep
<1>7. ASSUME NEW p \in Poller, Run(p)
      PROVE  SeenIsSettled' /\ QuietIsSettled' /\ SeenIsGenuine' /\ DeadSleep'
  <2>1. /\ \A q \in Poller \ {p} : poll'[q] = poll[q]
        /\ poll'[p] = Asleep
    BY <1>7 DEF Run, TypeOK
  <2>2. /\ ingested \subseteq ingested'
        /\ UNCHANGED <<seen, up>> /\ up
        /\ ~failed' => ~failed
    BY <1>7 DEF Run, At
  <2>3. SeenIsSettled'
    BY <1>0, <1>7, <2>2, RunSettles DEF SeenIsGenuine, SeenIsSettled
  <2>4. QuietIsSettled'
    BY <1>0, <1>7, <2>1, <2>2, RunSettles DEF ListingsAreGenuine, QuietIsSettled
  <2> QED
    BY <1>2, <2>2, <2>3, <2>4 DEF DeadSleep
<1>8. ASSUME NEW p \in Poller, RunRaises(p)
      PROVE  SeenIsSettled' /\ QuietIsSettled' /\ SeenIsGenuine' /\ DeadSleep'
  BY <1>2, <1>8
     DEF RunRaises, At, SeenIsSettled, QuietIsSettled, DeadSleep
<1>9. ASSUME Crash
      PROVE  SeenIsSettled' /\ QuietIsSettled' /\ SeenIsGenuine' /\ DeadSleep'
  <2>1. \A p \in Poller : poll'[p] = Asleep
    BY <1>9 DEF Crash
  <2>2. \A f \in File : seen'[f] = Absent
    BY <1>9 DEF Crash, Nothing
  <2> QED
    BY <1>0, <1>9, <2>1, <2>2
       DEF Crash, SeenIsSettled, QuietIsSettled, SeenIsGenuine, Genuine, DeadSleep
<1>10. ASSUME Boot
      PROVE  SeenIsSettled' /\ QuietIsSettled' /\ SeenIsGenuine' /\ DeadSleep'
  <2>1. \A f \in File : seen'[f] = Absent \/ IsIngested(seen'[f])
    BY <1>10 DEF Boot, Primed, IsIngested
  <2>2. \A f \in File : seen'[f] = Absent \/ IsIngested(seen[f])'
    BY <1>10, <2>1 DEF Boot, IsIngested
  <2>3. \A p \in Poller : poll'[p] = Asleep
    BY <1>10 DEF Boot, DeadSleep
  <2> QED
    BY <1>0, <1>10, <2>2, <2>3
       DEF Boot, SeenIsSettled, QuietIsSettled, SeenIsGenuine, Genuine, Settled,
           DeadSleep
<1>11. ASSUME UNCHANGED vars
      PROVE  SeenIsSettled' /\ QuietIsSettled' /\ SeenIsGenuine' /\ DeadSleep'
  <2>1. \A g \in File, b \in Content : Settled(g, b) => Settled(g, b)'
    BY <1>11, StaysSettled DEF vars
  <2> QED
    BY <1>0, <1>2, <1>11, <2>1
       DEF vars, SeenIsSettled, QuietIsSettled, DeadSleep
<1> QED
  BY <1>3, <1>4, <1>5, <1>6, <1>7, <1>8, <1>9, <1>10, <1>11 DEF Next, Step

\* A file whose content the watcher would not report again has been taken in,
\* or is about to be, whatever callers poll at once and whenever the process
\* dies - unless a run has raised or the name is back to an older content.
THEOREM NothingIsForgotten == Spec => []NoDocumentIsForgotten
<1>1. IInv /\ [Next]_vars => IInv'
  BY TypeStep, GenuineStep, SettledStep DEF IInv
<1>2. IInv => NoDocumentIsForgotten
  BY DEF IInv, SeenIsSettled, Settled, NoDocumentIsForgotten, Unreverted
<1> QED
  BY IInvInit, <1>1, <1>2, PTL DEF Spec

=============================================================================

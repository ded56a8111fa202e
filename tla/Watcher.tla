------------------------------ MODULE Watcher ------------------------------
(***************************************************************************)
(* The watched folder: services/watcher.py, the three callers of its poll  *)
(* (the timer loop, POST /watch/poll and POST /documents/upload of         *)
(* main.py), what primes it at startup (service.known_document_hashes),    *)
(* and the ingest transaction a poll ends in.                              *)
(*                                                                         *)
(* A poll hashes the directory, compares the hashes with what it has seen  *)
(* (kept in memory, shared by every caller, guarded by no lock), remembers *)
(* them, and only then starts a run, which reads the files again.          *)
(***************************************************************************)
EXTENDS Naturals

CONSTANTS
  File,        \* names in the watched directory
  Content,     \* what a file may hold, by hash
  Readable,    \* the contents ingestion can chunk; others become findings
  Absent,      \* sentinel: no such file, or nothing seen under that name
  Timer,       \* the background loop
  Caller,      \* threads of the two endpoints
  MaxWrites,   \* bound: changes made to each file
  MaxFaults,   \* bound: unreadable listings and runs that raise
  MaxCrashes   \* bound: process deaths

ASSUME WatchAssumption ==
  /\ Readable \subseteq Content
  /\ Absent \notin Content
  /\ Timer \notin Caller
  /\ MaxWrites \in [File -> Nat]
  /\ MaxFaults \in Nat /\ MaxCrashes \in Nat

Poller == Caller \cup {Timer}

VARIABLES
  disk,      \* the directory
  writes,    \* changes made to each file so far
  past,      \* history: the contents a name has held before
  seen,      \* WatchState.seen
  poll,      \* where each poller is, and the listing it holds
  ingested,  \* the document table of the corpus: uri and sha256
  up,        \* the process is alive
  failed,    \* history: some start_run has raised
  faults, crashes

world == <<disk, writes, past>>
vars == <<disk, writes, past, seen, poll, ingested, up, failed, faults,
          crashes>>

Names == [File -> Content \cup {Absent}]
Nothing == [f \in File |-> Absent]
Asleep == [pc |-> "idle", found |-> Nothing, trigger |-> FALSE]

PollState == [pc : {"idle", "listed", "diffed", "run"}, found : Names,
              trigger : BOOLEAN]
Row == [uri : File, sha256 : Content]
IsIngested(c) == \E d \in ingested : d.sha256 = c

Init ==
  /\ disk = Nothing
  /\ writes = [f \in File |-> 0]
  /\ past = [f \in File |-> {}]
  /\ seen = Nothing
  /\ poll = [p \in Poller |-> Asleep]
  /\ ingested = {}
  /\ up = TRUE
  /\ failed = FALSE
  /\ faults = 0 /\ crashes = 0

\* Somebody drops, replaces or removes a file; half a file is a content too.
Write(f, c) ==
  /\ writes[f] < MaxWrites[f]
  /\ disk[f] # c
  /\ disk' = [disk EXCEPT ![f] = c]
  /\ writes' = [writes EXCEPT ![f] = @ + 1]
  /\ past' = [past EXCEPT ![f] = @ \cup {disk[f]}]
  /\ UNCHANGED <<seen, poll, ingested, up, failed, faults, crashes>>

At(p, pc) == up /\ poll[p].pc = pc

\* list_documents: a file that cannot be read is left out.
Holding(found) == [pc |-> "listed", found |-> found, trigger |-> FALSE]

List(p) ==
  /\ At(p, "idle")
  /\ \/ /\ poll' = [poll EXCEPT ![p] = Holding(disk)]
        /\ UNCHANGED faults
     \/ /\ faults < MaxFaults
        /\ faults' = faults + 1
        /\ \E f \in File :
             /\ disk[f] # Absent
             /\ poll' = [poll EXCEPT ![p] = Holding([disk EXCEPT ![f] = Absent])]
  /\ UNCHANGED <<world, seen, ingested, up, failed, crashes>>

\* WatchState.diff; only additions and modifications trigger a run.
AddedOnly(found) == {f \in File : found[f] # Absent /\ seen[f] = Absent}
Changed(found) == {f \in File : found[f] # Absent /\ seen[f] # found[f]}

Diff(p) ==
  /\ At(p, "listed")
  /\ poll' = [poll EXCEPT ![p].pc = "diffed",
                          ![p].trigger = (Changed(poll[p].found) # {})]
  /\ UNCHANGED <<world, seen, ingested, up, failed, faults, crashes>>

\* state.seen = current, whatever another poller has stored there since.
Settle(p) ==
  /\ At(p, "diffed")
  /\ seen' = poll[p].found
  /\ poll' = [poll EXCEPT ![p] = IF @.trigger THEN [@ EXCEPT !.pc = "run"]
                                 ELSE Asleep]
  /\ UNCHANGED <<world, ingested, up, failed, faults, crashes>>

\* The files a run is started over: the whole directory, as it was listed.
Paths(p) == {f \in File : poll[p].found[f] # Absent}

\* What the insert-if-absent of ingest adds, reading the files now.
NewRows(S) ==
  LET fresh == {c \in Readable : ~IsIngested(c) /\ \E f \in S : disk[f] = c}
  IN {[uri |-> CHOOSE f \in S : disk[f] = c, sha256 |-> c] : c \in fresh}

\* start_run up to the end of its ingest transaction.  A path that is gone
\* raises out of the node, and the transaction takes every document with it.
Run(p) ==
  /\ At(p, "run")
  /\ \/ /\ \A f \in Paths(p) : disk[f] # Absent
        /\ ingested' = ingested \cup NewRows(Paths(p))
        /\ UNCHANGED failed
     \/ /\ \E f \in Paths(p) : disk[f] = Absent
        /\ failed' = TRUE
        /\ UNCHANGED ingested
  /\ poll' = [poll EXCEPT ![p] = Asleep]
  /\ UNCHANGED <<world, seen, up, faults, crashes>>

\* start_run raises for a reason of its own; the loop and both endpoints go
\* on, and what was seen stays seen.
RunRaises(p) ==
  /\ At(p, "run")
  /\ faults < MaxFaults
  /\ faults' = faults + 1
  /\ failed' = TRUE
  /\ poll' = [poll EXCEPT ![p] = Asleep]
  /\ UNCHANGED <<world, seen, ingested, up, crashes>>

Crash ==
  /\ up
  /\ crashes < MaxCrashes
  /\ crashes' = crashes + 1
  /\ up' = FALSE
  /\ poll' = [p \in Poller |-> Asleep]
  /\ seen' = Nothing
  /\ UNCHANGED <<world, ingested, failed, faults>>

\* known_document_hashes: one hash per base name, the last row read wins.
PrimedFromListing == {disk}
PrimedNames ==
  {[f \in {d.uri : d \in ingested} |->
      (CHOOSE d \in ingested : d.uri = f).sha256]}
Primed ==
  {k \in Names : \A f \in File :
     IF \E d \in ingested : d.uri = f
     THEN [uri |-> f, sha256 |-> k[f]] \in ingested
     ELSE k[f] = Absent}

Boot ==
  /\ ~up
  /\ up' = TRUE
  /\ seen' \in Primed
  /\ UNCHANGED <<world, poll, ingested, failed, faults, crashes>>

Step(p) == List(p) \/ Diff(p) \/ Settle(p) \/ Run(p)

Next ==
  \/ \E f \in File, c \in Content \cup {Absent} : Write(f, c)
  \/ \E p \in Poller : Step(p) \/ RunRaises(p)
  \/ Crash
  \/ Boot

Spec == Init /\ [][Next]_vars

\* The loop, where watching is enabled, polls for as long as the process lives;
\* a run in progress goes on.  Nobody has to call an endpoint, and nothing in
\* the repository starts a dead process again.
Fairness ==
  /\ WF_vars(Step(Timer))
  /\ \A p \in Caller : WF_vars(Diff(p) \/ Settle(p) \/ Run(p))

FairSpec == Spec /\ Fairness

-----------------------------------------------------------------------------
\* Every variable stays in its type.
TypeOK ==
  /\ disk \in Names
  /\ writes \in [File -> Nat]
  /\ past \in [File -> SUBSET (Content \cup {Absent})]
  /\ seen \in Names
  /\ poll \in [Poller -> PollState]
  /\ ingested \subseteq Row
  /\ up \in BOOLEAN /\ failed \in BOOLEAN
  /\ faults \in Nat /\ crashes \in Nat

\* The name holds what it has never held before.  (A content that is listed,
\* replaced before the run reads it, and put back afterwards is remembered as
\* seen and taken in by nobody.)
Unreverted(f) == disk[f] \notin past[f]

\* Nothing is remembered as seen that was never taken in: a file the watcher
\* would not report again has been ingested, or a run about to read it is
\* under way - with polls overlapping in any order, files changing between
\* the listing and the reading, and restarts - unless a run has raised or the
\* file is back to a content it had before.
NoDocumentIsForgotten ==
  \A f \in File :
    /\ up /\ ~failed
    /\ disk[f] \in Readable /\ seen[f] = disk[f] /\ Unreverted(f)
    =>
      \/ IsIngested(disk[f])
      \/ \E p \in Poller : poll[p].pc = "run" /\ f \in Paths(p)

\* What is dropped into the folder is taken in, whatever the process dies of
\* in between, provided it is started again whenever it has died, unless the
\* file is changed again, had been that before, or a run raises.
DroppedDocumentsAreIngested ==
  []<>up =>
    \A f \in File, c \in Readable :
      disk[f] = c /\ Unreverted(f) ~> IsIngested(c) \/ disk[f] # c \/ failed

=============================================================================

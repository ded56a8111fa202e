--------------------------- MODULE ReviewContract ---------------------------
(***************************************************************************)
(* What the human gate promises, with no process, checkpoint or crash in   *)
(* sight: reviewers submit answers, and batches of findings are recorded   *)
(* for good, each of them verified, reviewed, and carrying exactly the     *)
(* verdicts the reviewer gave (an index left out of an answer stands for   *)
(* approved).                                                              *)
(***************************************************************************)
EXTENDS Naturals

CONSTANTS Run, Submission, Batch

VARIABLES submitted, recorded

Init ==
  /\ submitted = [r \in Run |-> {}]
  /\ recorded = [r \in Run |-> {}]

Submit(r) ==
  /\ \E s \in Submission : submitted' = [submitted EXCEPT ![r] = @ \cup {s}]
  /\ UNCHANGED recorded

\* An empty batch needs no reviewer.
Reviewed(r, b) == \E s \in submitted[r] : s.ans = b.decisions

RejectsExactly(b) ==
  \A i \in 1..b.findings :
    b.verdicts[i] = "rejected" <=> b.decisions[i] = "rejected"

Record(r) ==
  /\ \E b \in Batch :
       /\ b.verified = "passed"
       /\ b.findings > 0 => Reviewed(r, b) /\ RejectsExactly(b)
       /\ recorded' = [recorded EXCEPT ![r] = @ \cup {b}]
  /\ UNCHANGED submitted

Next == \E r \in Run : Submit(r) \/ Record(r)

Spec == Init /\ [][Next]_<<submitted, recorded>>

=============================================================================

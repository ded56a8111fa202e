--------------------------- MODULE MCRunLifecycle ---------------------------
(***************************************************************************)
(* Instances of RunLifecycle small enough for TLC.                         *)
(***************************************************************************)
EXTENDS RunLifecycle

\* A reviewer rejects a finding, or leaves it out: an absent verdict is
\* recorded as an approval.
MCAnswer == [1..MaxFindings -> {"rejected", "absent"}]

=============================================================================

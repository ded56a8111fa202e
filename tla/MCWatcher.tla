----------------------------- MODULE MCWatcher -----------------------------
(***************************************************************************)
(* Two names in the folder; the timer and one endpoint poll it.            *)
(***************************************************************************)
EXTENDS Watcher

CONSTANTS agreement, copy

\* The agreement is dropped, then replaced or removed, then put back or
\* replaced once more; the other file only appears.
MCMaxWrites == [f \in File |-> IF f = agreement THEN 3 ELSE 1]

=============================================================================

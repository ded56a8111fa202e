---------------------------- MODULE MCFactTables ----------------------------
(***************************************************************************)
(* An agreement that sets a rate, and a second document of the same day    *)
(* with another rate: an instrument, an invoice, or not classified.        *)
(***************************************************************************)
EXTENDS FactTables

CONSTANTS agreement, second

MCSays ==
  [d \in Doc |-> IF d = agreement THEN [p \in {"hourly_rate"} |-> 1]
                                  ELSE [p \in Predicate |-> 2]]
\* A document is read in full when the answer is usable; one in which
\* nothing is found is treated like one that was skipped.
MCReadings == [d \in Doc |-> {DOMAIN MCSays[d]}]
MCDatedAt == [d \in Doc |-> 1]
MCFirstKinds == {[d \in Doc |-> IF d = agreement THEN "msa" ELSE Unset]}
\* Two callers name the documents in opposite orders.
MCInbox ==
  [r \in Run |-> IF r = 1 THEN {<<agreement, second>>} ELSE {<<second, agreement>>}]

=============================================================================

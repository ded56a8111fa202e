--------------------------- MODULE MCIncremental ---------------------------
(***************************************************************************)
(* One vendor, two documents, two sections: both documents state the first *)
(* term, only the first document states the second.                        *)
(***************************************************************************)
EXTENDS Incremental

CONSTANTS agreement, letter, rate, rate2, terms, rateRow, termsRow

MCDocOf ==
  [f \in Fact |-> IF f = rate2 THEN letter ELSE agreement]
MCSectionOf == [f \in Fact |-> IF f = terms THEN termsRow ELSE rateRow]
\* The letter alone, or beside the agreement: the second section comes and
\* goes with the agreement, the first one gains and loses a fact.
MCInbox == {{letter}, {agreement, letter}}
\* The agreement, and later the letter with it.
MCGrowing == {{agreement}, {agreement, letter}}
MCSpellingOf == [d \in Doc |-> IF d = letter THEN "shouted" ELSE "plain"]

=============================================================================

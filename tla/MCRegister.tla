----------------------------- MODULE MCRegister -----------------------------
(***************************************************************************)
(* An agreement, a second one that nothing orders before or after it, an   *)
(* amendment dated after the invoice it cannot have bound, an invoice that *)
(* itemises and one that does not, and a letter one of whose quotes runs   *)
(* over the end of a chunk.                                                *)
(***************************************************************************)
EXTENDS Register

States(d, p, v) ==
  [doc |-> d, predicate |-> p, value |-> v, measured |-> TRUE, date |-> 0,
   row |-> "", resolves |-> TRUE]
Dates(says, day) == [says EXCEPT !.date = day]
Text(says) == [says EXCEPT !.measured = FALSE]
OnLine(l, says) == [says EXCEPT !.row = l]
Torn(says) == [says EXCEPT !.resolves = FALSE]

Statements ==
  [a_rate   |-> Dates(States("msa", "hourly_rate", 3), 1),
   a_cap    |-> States("msa", "liability_cap", 9),
   a_fees   |-> States("msa", "annual_fees", 4),
   a_law    |-> Text(States("msa", "governing_law", 1)),
   b_fees   |-> States("second", "annual_fees", 5),
   b_law    |-> Text(States("second", "governing_law", 2)),
   c_rate   |-> States("amendment", "hourly_rate", 4),
   c_fees   |-> States("amendment", "annual_fees", 6),
   c_notice |-> States("amendment", "termination_notice_days", 20),
   i_rate   |-> States("bill", "invoice_rate", 4),
   i_prose  |-> States("bill", "hourly_rate", 4),
   i_hours  |-> States("bill", "invoice_hours", 5),
   i_total  |-> States("bill", "invoice_amount", 15),
   n_rate   |-> States("note", "invoice_rate", 4),
   n_hours  |-> States("note", "invoice_hours", 2),
   n_total  |-> States("note", "invoice_amount", 9),
   l_rate   |-> OnLine("repairs", States("bill", "invoice_rate", 4)),
   l_hours  |-> OnLine("repairs", States("bill", "invoice_hours", 2)),
   l_again  |-> OnLine("repairs", States("bill", "invoice_hours", 3)),
   l_total  |-> OnLine("repairs", States("bill", "invoice_amount", 8)),
   k_rate   |-> OnLine("cleaning", States("bill", "invoice_rate", 2)),
   k_hours  |-> OnLine("cleaning", States("bill", "invoice_hours", 3)),
   k_total  |-> OnLine("cleaning", States("bill", "invoice_amount", 7)),
   x_rate   |-> Torn(States("letter", "hourly_rate", 2))]

DocumentDates == [msa |-> 0, second |-> 0, amendment |-> 3, bill |-> 2, note |-> 0,
                  letter |-> 4]

\* The second agreement may turn out to be a statement of work.
FirstAnswers ==
  {[msa |-> "msa", second |-> k, amendment |-> "amendment", bill |-> "invoice",
    note |-> "invoice", letter |-> "unknown"] : k \in {"msa", "sow", "unknown"}}
MCKind == {"msa", "sow", "amendment", "invoice", "unknown"}

MCSettles == {<<"second", "msa">>}

Playbook ==
  LET number(n) == [name |-> "", amount |-> n]
      just(n) == [first |-> number(n), steps |-> << >>]
      twice(p) == [first |-> number(2),
                   steps |-> <<[op |-> "*", operand |-> [name |-> p, amount |-> 0]]>>]
      rule(c, k, p, l) == [code |-> c, kind |-> k, predicate |-> p, limit |-> l]
  IN {rule("LIAB-01", "numeric_bound", "liability_cap", twice("annual_fees")),
      rule("NOTICE-01", "numeric_min", "termination_notice_days", just(30)),
      rule("LAW-01", "presence_required", "governing_law", just(0))}

Folders ==
  {{"msa", "bill"}, {"msa", "bill", "amendment"}, {"msa", "second"},
   {"msa", "second", "bill"}, {"msa", "amendment", "letter", "note"}}

\* Two orders: each pair of rows comes in both.
MCOrder ==
  [a_rate |-> 1, a_cap |-> 2, a_fees |-> 3, a_law |-> 4, b_fees |-> 5,
   b_law |-> 6, c_rate |-> 7, c_fees |-> 8, c_notice |-> 9, i_rate |-> 10,
   i_prose |-> 11, i_hours |-> 12, i_total |-> 13, n_rate |-> 14,
   n_hours |-> 15, n_total |-> 16, l_rate |-> 17, l_hours |-> 18,
   l_again |-> 19, l_total |-> 20, k_rate |-> 21, k_hours |-> 22,
   k_total |-> 23, x_rate |-> 24]
Orders == {MCOrder, [f \in DOMAIN Statements |-> Cardinality(DOMAIN Statements) + 1 - MCOrder[f]]}

\* The constants by these names: TLC evaluates each of the above once.
MCSaid == Statements
MCFact == DOMAIN Statements
MCDoc == DOMAIN DocumentDates
MCDatedAt == DocumentDates
MCFirstKinds == FirstAnswers
MCRules == Playbook
MCInbox == Folders
MCRowOrders == Orders

=============================================================================

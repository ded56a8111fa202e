SPECIFICATION Spec
CONSTANTS
  agreement = agreement
  letter = letter
  rate = rate
  rate2 = rate2
  terms = terms
  rateRow = rateRow
  termsRow = termsRow
  Doc = {agreement, letter}
  Fact = {rate, rate2, terms}
  Section = {rateRow, termsRow}
  DocOf <- MCDocOf
  SectionOf <- MCSectionOf
  Inbox <- MCInbox
  SpellingOf <- MCSpellingOf
  Kind = {"msa", "unknown"}
  Unset = Unset
  MaxRuns = 3
  MaxOpen = 2
  MaxComposer = 2
  MaxCrashes = 1
INVARIANTS
  TypeOK
  FactsAreCurrent
  UnchangedIsCarried
  CarriedForwardIsVerbatim
  OneComposerPerRegister
CHECK_DEADLOCK FALSE

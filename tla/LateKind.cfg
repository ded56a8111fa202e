SPECIFICATION Spec
CONSTANTS
  agreement = agreement
  letter = letter
  rate = rate
  rate2 = rate2
  terms = terms
  rateRow = rateRow
  termsRow = termsRow
  Doc = {agreement, letter}
  Fact = {rate, rate2, terms}
  Section = {rateRow, termsRow}
  DocOf <- MCDocOf
  SectionOf <- MCSectionOf
  Inbox <- MCGrowing
  SpellingOf <- MCSpellingOf
  Kind = {"msa", "unknown"}
  Unset = Unset
  MaxRuns = 3
  MaxOpen = 1
  MaxComposer = 1
  MaxCrashes = 0
INVARIANTS KindsInvalidate
CHECK_DEADLOCK FALSE

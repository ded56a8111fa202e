\* One or two publishers over two sections and three registers.
CONSTANTS
  s1 = s1
  s2 = s2
  a1 = a1
  a2 = a2
  b = b
  va = va
  vb = vb
  None = None
  Section = {s1, s2}
  Content = {a1, a2, b}
  Value = {va, vb}
  ValueOf <- MCValueOf
  Shown <- MCShown
  Register <- MCRegister
  Publisher = {p1, p2}
  MaxPublishes = 2
  MaxTroubles = 1
SPECIFICATION FairSpec
INVARIANTS
  TypeOK
  PublishedIsTrue
  NoFalseAlarm
  UndisturbedPublishConverges
PROPERTIES
  PublishEnds
\* Publishers are done and the service owes nothing.
CHECK_DEADLOCK FALSE

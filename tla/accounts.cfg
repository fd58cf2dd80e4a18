SPECIFICATION Spec
CONSTANTS
  p1 = p1
  p2 = p2
  Phones = {p1, p2}
  w1 = w1
  w2 = w2
  Workers = {w1, w2}
  AttemptLimit = 2
  RateLimit = 1
  SixNines = 99
  OtherIds <- OneMember
  MaxCodes = 2
  Mixes <- AllMixes
SYMMETRY Swap
INVARIANTS LimitsHold NewAccountFits
PROPERTIES AcceptsNewestOnce VerifiedStays
\* MaxCodes ends the behaviours.
CHECK_DEADLOCK FALSE

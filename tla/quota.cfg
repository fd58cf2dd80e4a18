\* One member opens profiles, unlocks contacts and asks for reports, two requests
\* at a time, while the plan is bought, renewed, changed, removed and runs out.
CONSTANTS
  u1 = u1  u2 = u2  p1 = p1  p2 = p2  w1 = w1  w2 = w2  f1 = f1  f2 = f2  x1 = x1
  Users = {u1}
  Plans = {p1}
  Quotas = {"profile_view", "contact_view", "horoscope_match"}
  Limit <- MCLimit
  Duration <- MCDuration
  Workers = {w1, w2}
  Profiles = {f1}
  Pairs = {x1}
  MaxDay = 1
  MaxPurchases = 2
SYMMETRY MCSymmetry
SPECIFICATION Spec
INVARIANTS MetersHold ChargedOnce
PROPERTIES UnlockIsCharged
CHECK_DEADLOCK FALSE

\* Two members of staff, hired or not, two branches and two requests at a time.
CONSTANTS
  s1 = s1  s2 = s2  m1 = m1  m2 = m2  m3 = m3  w1 = w1  w2 = w2
  Staff = {s1, s2}
  b1 = b1  b2 = b2
  Branches = {b1, b2}
  Mobiles = {m1, m2, m3}
  Workers = {w1, w2}
  FirstMobile <- OneHired
  FirstBranch = b1
  FailLimit = 2
  MaxCode = 2
  Mixes = {{"switch", "amend", "toggle", "edit", "active"}, {"switch", "edit", "branch"},
           {"close", "toggle", "create"}, {"close", "edit", "branch"}, {"create", "switch"},
           {"close", "toggle", "destroy"},
           {"edit", "mobile", "destroy"}, {"create", "phone"}, {"create", "edit", "mobile"},
           {"toggle", "destroy", "edit", "active", "break"}, {"phone", "edit", "mobile", "break"},
           {"send", "verify", "edit", "other"}, {"send", "verify", "destroy"},
           {"send", "verify", "lapse"}}
SYMMETRY MCSymmetry
SPECIFICATION OfficeSpec
INVARIANTS LoginFollowsStaff CodeLimits
PROPERTIES BranchRestores
CHECK_DEADLOCK FALSE

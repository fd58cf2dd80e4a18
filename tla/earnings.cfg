\* Two commissions and two months of payroll for a staff of two, two requests at a time.
CONSTANTS
  c1 = c1  c2 = c2  w1 = w1  w2 = w2
  Staff = {1, 2}
  Commissions = {c1, c2}
  Earner <- MCEarner
  Workers = {w1, w2}
  MaxMonth = 1
  Mixes = {{"approve", "pay", "cancel", "generate"},
           {"generate", "approve_salary", "pay_salary"}, {"generate", "hire"}}
SYMMETRY MCSymmetry
SPECIFICATION Spec
INVARIANTS CountedOnce PayrollWhole
PROPERTIES PaidStays
CHECK_DEADLOCK FALSE

SPECIFICATION Spec
CONSTANTS
  s1 = s1
  s2 = s2
  w1 = w1
  w2 = w2
  Staff = {s1, s2}
  Workers = {w1, w2}
  Amounts = {1, 2}
  MaxSales = 3
  MaxCodes = 2
  Mixes <- AllMixes
SYMMETRY Symmetry
INVARIANTS ConfirmedSales OneFreshEntry BookedOnce ReviewAgrees SaleKeepsPlan
PROPERTIES PaidCommissionKept
\* MaxSales and MaxCodes end the behaviours.
CHECK_DEADLOCK FALSE

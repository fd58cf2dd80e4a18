\* Upgrades and renewals across expiry.
CONSTANTS
  u1 = u1  p1 = p1  p2 = p2  o1 = o1  o2 = o2  w1 = w1  w2 = w2
  Users = {u1}
  Plans = {p1, p2}
  Quotas = {"contact_view"}
  Limit <- MCLimit
  Duration <- MCDuration
  Workers = {w1, w2}
  Orders = {o1, o2}
  Purposes = {"plan_purchase"}
  Options = {"plan_only"}
  Events = {"payment.captured"}
  Products = {}
  CatalogPrice <- MCCatalogPrice
  Losable = {}
  Assigned = {}
  Amounts = {6}
  InitialPrice <- MCInitialPrice
  InitialCharge = 4
  MaxDay = 2
  MaxAdminEdits = 0
  MaxCrashes = 0
  MaxRemovals = 0
SYMMETRY MCSymmetry
SPECIFICATION Spec
PROPERTIES LockedPurchaseAddsUp
CHECK_DEADLOCK FALSE

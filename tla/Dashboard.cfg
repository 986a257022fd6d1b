SPECIFICATION DashboardSpec
CONSTANTS
  Tenants = {t1, t2}
  NoTenant = NoTenant
  Tokens <- Callers
  Records = {e1, e2, e3, e4}
  Limit = 2
  MaxTime = 3
  Day = 1
INVARIANTS DashboardTypeOK WalkSeesAll DaysDisjointAndComplete TrendRounded
SYMMETRY Interchangeable
CHECK_DEADLOCK FALSE

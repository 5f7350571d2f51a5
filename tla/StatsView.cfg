CONSTANTS
  Run = {r1}
  Reader = {p1}
  Detached = {s1}
  Arrivals <- MCArrivals
SPECIFICATION Spec
INVARIANTS TypeOK RunFreshens TotalsNeverGoBack StatsCoherent

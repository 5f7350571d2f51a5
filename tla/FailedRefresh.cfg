CONSTANTS
  Run = {r1}
  Reader = {}
  Detached = {}
  Arrivals <- MCArrivals
SPECIFICATION Spec
INVARIANT FailuresReported

CONSTANTS
  Runner = {r1}
  Faults = {"statement"}
  MaxFaults = 1
SPECIFICATION Spec
INVARIANT AdviceWorks

CONSTANTS
  Runner = {r1}
  Faults = {"query", "statement", "crash", "tear", "interrupt"}
  MaxFaults = 2
SPECIFICATION Spec
INVARIANTS RecordedIsReal QueryFaultsHeal ForcedRunRepairs LoadRepairs

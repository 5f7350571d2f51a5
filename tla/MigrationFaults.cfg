CONSTANTS
  Runner = {r1, r2}
  Faults = {"query", "crash", "tear", "interrupt"}
  MaxFaults = 2
SPECIFICATION MigrationsOnly
INVARIANTS TypeOK CrashesHeal TransactionalRecordsAreReal ForcedRunRepairs

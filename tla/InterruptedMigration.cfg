CONSTANTS
  Runner = {r1}
  Faults = {"tear"}
  MaxFaults = 1
SPECIFICATION MigrationsOnly
INVARIANT RunCompletes

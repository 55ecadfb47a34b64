SPECIFICATION SafetySpec
CONSTANTS
  r1 = r1
  ComponentCount = 4
  Database = 1
  Loops = {}
  PoolSize = 1
  Probes = {r1}
INVARIANTS
  DeadlineBoundsClose

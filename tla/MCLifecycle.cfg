SPECIFICATION Spec
CONSTANTS
  r1 = r1
  ComponentCount = 4
  Database = 1
  Loops = {3, 4}
  PoolSize = 2
  Probes = {r1}
INVARIANTS
  PrefixUp
  CleanExit
  DependenciesOutliveUsers
  NilMeansGraceful
  OrderlyLifecycle
PROPERTIES
  NotReadyWhileClosing
  ShutdownCompletes
  EveryRequestAnswered

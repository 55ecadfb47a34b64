SPECIFICATION SafetySpec
CONSTANTS
  w1 = w1
  w2 = w2
  w3 = w3
  Workers = {w1, w2}
  NoWorker = NoWorker
  EventCount = 2
  BatchSize = 2
  LeaseDuration = 2
  MaxAttempts = 2
  BaseBackoff = 1
  MaxBackoff = 2
  DuplicateWindow = 2
  MaxFaults = 2
SYMMETRY RelaySymmetry
INVARIANTS
  PublishedIsStored
  TransactionalOutbox
  FreshRecord
  AttemptsPaid
  CopiesBounded
  LeaseProtocol
  AttemptAccounting
PROPERTIES
  SettledForever
  LeaseRespected

SPECIFICATION Spec
CONSTANTS
  w1 = w1
  w2 = w2
  w3 = w3
  Workers = {w1, w2, w3}
  NoWorker = NoWorker
  EventCount = 1
  BatchSize = 1
  LeaseDuration = 2
  MaxAttempts = 2
  BaseBackoff = 1
  MaxBackoff = 2
  DuplicateWindow = 1
  MaxFaults = 2
PROPERTIES
  EventuallySettled
  RelayRecovers
  ImplementsDelivery

SPECIFICATION PipelineSpec
CONSTANTS
  w1 = w1
  w2 = w2
  p1 = p1
  p2 = p2
  Workers = {w1, w2}
  NoWorker = NoWorker
  EventCount = 1
  Watched = {1}
  BatchSize = 1
  LeaseDuration = 1
  MaxAttempts = 2
  BaseBackoff = 1
  MaxBackoff = 1
  DuplicateWindow = 1
  MaxFaults = 2
  Consumers = {p1, p2}
  MaxDeliver = 2
  FetchBatch = 1
  MaxAckPending = 2
  AckWait = 1
  RetryBase = 1
  RetryMax = 1
INVARIANTS
  NothingBetween
  PipelineProtocol
PROPERTIES
  ImplementsProcessing
  EventuallyProcessed

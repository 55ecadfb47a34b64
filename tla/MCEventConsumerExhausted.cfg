SPECIFICATION Spec
CONSTANTS
  p1 = p1
  p2 = p2
  sound = sound
  broken = broken
  event = event
  unknown = unknown
  NoMessage = NoMessage
  Processes = {p1, p2}
  Messages = {broken}
  EventIds = {event, unknown}
  EventOf <- MCEventOf
  Valid <- MCValid
  MaxDeliver = 2
  FetchBatch = 1
  MaxAckPending = 1
  AckWait = 2
  RetryBase = 1
  RetryMax = 2
  MaxFaults = 2
PROPERTIES
  FailedDeadLetterRetried

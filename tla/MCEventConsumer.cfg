SPECIFICATION Spec
CONSTANTS
  p1 = p1
  p2 = p2
  sound = sound
  broken = broken
  event = event
  unknown = unknown
  NoMessage = NoMessage
  Processes = {p1, p2}
  Messages = {sound, broken}
  EventIds = {event, unknown}
  EventOf <- MCEventOf
  Valid <- MCValid
  MaxDeliver = 3
  FetchBatch = 2
  MaxAckPending = 2
  AckWait = 1
  RetryBase = 2
  RetryMax = 3
  MaxFaults = 3
INVARIANTS
  ForgottenIsHandled
  DeliveriesPaid
  DeadLetterIsLastResort
  GivenUpIsPaid
  DeliveryProtocol
PROPERTIES
  EventuallyHandled
  ConsumerRecovers

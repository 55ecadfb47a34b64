SPECIFICATION Spec
CONSTANTS
  p1 = p1
  p2 = p2
  k1 = k1
  k2 = k2
  Processes = {p1, p2}
  Keys = {k1, k2}
  NoKey = NoKey
  MaxPuts = 3
  MaxFaults = 2
INVARIANTS
  BodyNotOlder
  ObjectProtocol
PROPERTIES
  EventuallyUp

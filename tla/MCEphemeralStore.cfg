SPECIFICATION Spec
CONSTANTS
  Characters <- MCCharacters
  Prefixes <- MCPrefixes
  Keys <- MCKeys
  Values = {v1, v2}
  Expiries <- MCExpiries
  MaxKeyLength = 3
  MaxPuts = 3
  Absent = Absent
  Forever = Forever
INVARIANTS
  PrivateView
  Mirrored
PROPERTIES
  EverythingExpires

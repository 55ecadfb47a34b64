SPECIFICATION Spec
CONSTANTS
  Choices <- MCChoices
  Unset = Unset
  Empty = Empty
  Malformed = Malformed
  Nobody = Nobody
  Unnamed = Unnamed
CHECK_DEADLOCK FALSE
INVARIANTS
  RefusalNamesVariable

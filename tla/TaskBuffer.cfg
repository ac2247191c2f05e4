SPECIFICATION Spec
CONSTANTS
  v1 = v1
  v2 = v2
  NULL = NULL
  Values = {v1, v2}
  Capacity = 4
  Reserved = 1
INVARIANT TypeOK
PROPERTY Implements

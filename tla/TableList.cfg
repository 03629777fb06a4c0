SPECIFICATION Spec
CONSTANTS
  NULL = NULL
  Keys = {k1, k2, k3}
  Values = {v1, v2}
INVARIANTS
  TypeOK
  KeysUnique
PROPERTIES
  ImplementsMap

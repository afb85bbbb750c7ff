\* A constructor's pairs, then scripts with two forEach calls inside each other.
SPECIFICATION Spec

CONSTANTS
  a = a
  b = b
  c = c
  x = x
  y = y
  Keys = {a, b, c}
  Values = {x, y}
  MaxBorn = 4
  MaxDepth = 2

INVARIANTS
  TypeOK
  IndexAgrees
  VisitsAscend

PROPERTIES
  IsOrderedMap
  MissesOnlyMovedUp

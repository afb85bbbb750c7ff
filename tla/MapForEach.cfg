\* Two entries and one loop: the callback may delete the entry it is called for.
SPECIFICATION Spec

CONSTANTS
  a = a
  b = b
  c = c
  x = x
  y = y
  Keys = {a, b}
  Values = {x}
  MaxBorn = 2
  MaxDepth = 1

PROPERTY ForEachCallsAll

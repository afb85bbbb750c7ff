\* Tables of one to sixteen slots; factors 1/2 and 1 fill them to the brim.
SPECIFICATION Spec

CONSTANTS
  a = a
  b = b
  c = c
  x = x
  y = y
  Keys = {a, b, c}
  Values = {x, y}
  DefaultKey = nullptr
  DefaultValue = x
  Home <- MCHome
  Capacities = {1, 2, 4, 8, 16}
  InitialCapacities = {1, 3}
  Requests = {1, 4}
  Loads <- MCLoads

INVARIANTS
  TypeOK
  SizeCounts
  RobinHood
  LookupFinds

PROPERTIES
  IsAMap
  Returns

\* The lookup a build with AVX2 uses for HashMap<int, int>.
SPECIFICATION Spec

CONSTANTS
  Keys = {101, 102, 103}
  Values = {0, 7}
  DefaultKey = 0
  DefaultValue = 0
  Home <- MCHome
  Capacities = {16}
  InitialCapacities = {16}
  Requests = {16}
  Loads <- MCLoads

INVARIANT ContainsFinds

\* Two workers, three connections and a queue with room for two.
SPECIFICATION SpecH
CHECK_DEADLOCK FALSE

CONSTANTS
  w1 = w1
  w2 = w2
  MaxConns = 3
  Workers = {w1, w2}
  MaxConnections = 2
  Wrap = 8
  MaxStarts = 1

PROPERTY EvictsOldest

\* One event of six or seven memories and DEFAULT_MAX_EDGES.
CONSTANTS
  Id = {1, 2, 3, 4, 5, 6, 7}
  MinIds = 6
  EventDelta = {1}
  Limits = {32}
  MaxTarget = 1
SPECIFICATION HebbSpec
INVARIANTS
  BidirectionalEdges
CHECK_DEADLOCK FALSE

\* Five memories; a spread of two hops on every graph of seven edges, three
\* boosters over two or three hits, three traces.
CONSTANTS
  Node = {1, 2, 3, 4, 5}
  One = 64
  ScaleDiv = 4
  DecayDiv = 2
  Cap = 48
  Exact = 4
  Steps = 2
  Fanout = 2
  Matches <- MCMatches
  MaxChanges = 1
  SpreadEdges <- MCSpreadEdges
  SpreadWeights = {0, 2}
  Seeds = {1, 2}
  Limit = 2
  BoostEdges <- MCBoostEdges
  BoostWeights = {0, 2}
  HitLists <- MCHitLists
  Bases = {1, 12}
  Pipeline <- SessionFirst
  GraphScaleDiv = 32
  GraphDecayDiv = 2
  GraphCap = 3
  GraphSteps = 2
  BoostSeeds = 1
  Links <- MCLinks
  LinkUnit = 1
  LinkCap = 3
  TraceEdges <- MCTraceEdges
  TraceWeights = {0, 2}
  Answers <- MCAnswers
  SuppressedLimit = 2
  VisibleLimit = 4
  SeedLimit = 2
  LatentLimit = 2
  ReinforceK = 2
  PredictK = 3
  Delta = 1
  MaxRounds = 3
SPECIFICATION GraphCallsSpec
INVARIANTS
  PathsAreExplained
  OrderHardlyShows
  MissedOnlyWhenCrowded
  LearningShows
PROPERTIES
  BoostersOnlyAdd
CHECK_DEADLOCK FALSE

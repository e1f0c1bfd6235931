\* Every memory of six importances and confidences up to day 4; groups of up
\* to five out of three memories; seven events through a stream of six.
CONSTANTS
  Importances = {0, 7, 8}
  Confidences = {0, 10}
  Estimates = {0, 5}
  Recent = 1
  Stale = 3
  ForgetGiven = 140
  CandidateGiven = 240
  MaxTime = 4
  Line = {"a", "b", "c"}
  TokensOf <- MCTokensOf
  SignalsOf <- MCSignalsOf
  MemoryId = {1, 2, 3}
  Classes <- MCClasses
  Texts <- MCTexts
  Groups <- MCGroups
  MergeThreshold = 7375
  MergeCandidateThreshold = 4500
  MaxReads = 2
  MaxChanges = 1
  Estimated = {0, 67108864}
  Capacity = 6
  RecentLimit = 5
  MaxEvents = 7
SPECIFICATION MaintenanceSpec
INVARIANTS
  ForgettingIsMonotone
  MergedTextSurvives
  CarriedOnlySoFar
  RoundingOnlyAtTies
PROPERTIES
  LostAccessIsInWindow
  NamingNeverHurts

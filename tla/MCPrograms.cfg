\* Two clients of two lines, a fault; every request with at most two
\* arguments besides reinforce; up to two names, or three, and two chains, weights in hundredths.
CONSTANTS
  m1 = m1
  m2 = m2
  c1 = c1
  c2 = c2
  Client = {c1, c2}
  Memories = {m1, m2}
  Lines <- Racing
  Pipe = 1
  MaxSends = 2
  MaxFaults = 1
  None = None
  Unreadable = Unreadable
  Amounts = {0, 2, 1000}
  Found = {0, 1, 3}
  Node = {1, 2, 3, 4, 5, 6, 7, 8, 9, 10, 11, 12}
  One = 4000
  ScaleDiv = 2000
  DecayDiv = 2
  Cap = 1000
  Exact = 1024
  Steps = 2
  Fanout = 16
  Matches <- MCMatches
  SuppressedLimit = 8
  Chains = 2
  Strong = 300
  Weak = 50
  Increase = 11
  Names <- MCNames
  Finds <- MCFinds
SYMMETRY Clients
SPECIFICATION MCSpec
INVARIANTS
  AnswersTellTheEffect
  AnswersCanBeCounted
  SameRequestSameWork
  ChainsAreIndependent

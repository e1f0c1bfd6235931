\* Three memories, two processes, up to three plans, one fault; two events for Hebb.
CONSTANTS
  m1 = m1
  m2 = m2
  m3 = m3
  e1 = e1
  e2 = e2
  p1 = p1
  p2 = p2
  NoContent = NoContent
  MemoryId = {m1, m2, m3}
  Content <- MCContent
  Entity = {e1, e2}
  Mentions <- MCMentions
  Join <- MCJoin
  Delta = {1, 2}
  Proc = {p1, p2}
  Producer = {"promote", "merge", "forget", "reinforce"}
  Faults = {"crash", "busy"}
  MaxEdges = 32
  MaxEvents = 6
  MaxAccess = 0
  MaxWeight = 6
  MaxPlans = 3
  MaxFaults = 1
  Id = {1, 2, 3}
  MinIds = 1
  EventDelta = {1, 2}
  Limits = {3, 7}
  MaxTarget = 2
SPECIFICATION MCSpec
INVARIANTS
  ArchivedOnce
  MutualEdges
  MergeLosesNoEntity
  OnceEachWay
SYMMETRY MCSymmetry
CHECK_DEADLOCK FALSE

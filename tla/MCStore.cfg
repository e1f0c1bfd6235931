\* Two memories, two contents sharing an entity; two processes, three plans of up to two calls,
\* two memories in any state, one fault.
CONSTANTS
  m1 = m1
  m2 = m2
  hello = hello
  world = world
  e1 = e1
  e2 = e2
  NoContent = NoContent
  MemoryId = {m1, m2}
  Content = {hello, world}
  Entity = {e1, e2}
  Mentions <- MCMentions
  Delta <- MCDelta
  MaxEvents = 4
  MaxAccess = 1
  MaxWeight = 1
  Memories = {1, 2}
  Conn = {c1, c2}
  Nobody = nobody
  MaxPlans = 3
  MaxFaults = 1
SPECIFICATION MCSpec
INVARIANTS
  LogReplaysMemories
  IndexesFollowContent
PROPERTIES
  InvalidIsFrozen
  ImplementsEventLog
  ImplementsEmbeddingIndex
  ImplementsAtomicStore
  LocksAreReleased

\* One memory that is written and rewritten.
CONSTANTS
  m1 = m1
  m2 = m2
  hello = hello
  world = world
  e1 = e1
  e2 = e2
  NoContent = NoContent
  MemoryId = {m1, m2}
  Content = {hello, world}
  Entity = {e1, e2}
  Mentions <- MCMentions
  Delta <- MCDelta
  MaxEvents = 4
  MaxAccess = 1
  MaxWeight = 1
  Memories = {1, 2}
  Conn = {c1}
  Nobody = nobody
  MaxPlans = 0
  MaxFaults = 0
SPECIFICATION MCSpec
PROPERTIES
  MemoriesNeverOverwritten

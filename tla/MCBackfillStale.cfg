\* One run, one memory, no --max: content rewritten under its feet.
CONSTANTS
  m1 = m1
  m2 = m2
  m3 = m3
  hello = hello
  world = world
  w1 = w1
  w2 = w2
  NoContent = NoContent
  MemoryId = {m1}
  Content = {hello, world}
  Worker = {w1}
  Batch = 1
  MaxRun = 0
SPECIFICATION BackfillSpec
INVARIANTS
  VectorIsFresh
CHECK_DEADLOCK FALSE

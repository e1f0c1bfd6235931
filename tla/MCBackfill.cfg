\* Safety: two concurrent runs, two memories, batches of two.
CONSTANTS
  m1 = m1
  m2 = m2
  m3 = m3
  hello = hello
  world = world
  w1 = w1
  w2 = w2
  NoContent = NoContent
  MemoryId = {m1, m2}
  Content = {hello, world}
  Worker = {w1, w2}
  Batch = 2
  MaxRun = 3
SPECIFICATION BackfillSpec
INVARIANTS
  KeepsLimits
  StaleOnlyIfOvertaken
  NoLiveMemoryForgotten
SYMMETRY MemorySymmetry
CHECK_DEADLOCK FALSE

\* One run that fetches one of three memories at a time; one client that sends three lines of
\* every kind through pipes of two lines, and a fault.  No symmetry.
CONSTANTS
  m1 = m1
  m2 = m2
  m3 = m3
  hello = hello
  world = world
  w1 = w1
  w2 = w2
  NoContent = NoContent
  MemoryId = {m1, m2, m3}
  Memories = {m1, m2}
  Content = {hello}
  Worker = {w1}
  Batch = 1
  MaxRun = 0
  c1 = c1
  Client = {c1}
  Lines <- AllKinds
  Pipe = 2
  MaxSends = 3
  MaxFaults = 1
SPECIFICATION MCSpec
PROPERTIES
  RunsEnd
  NoStarvation
  EveryCallIsAnswered
CHECK_DEADLOCK FALSE

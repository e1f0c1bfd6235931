\* Two items of one session, two plans; two threads that record three events
\* in a stream of two.
CONSTANTS
  a = a
  b = b
  n1 = n1
  n2 = n2
  Session = {s}
  MemoryId = {a, b, n1, n2}
  Old = {a, b}
  Unknown = unknown
  Kinds <- MCKinds
  Never = never
  MaxTime = 1
  MaxItems = 2
  MaxPlans = 2
  MaxChanges = 1
  Thread = {t1, t2}
  Event = {e1, e2}
  Limits = {0, 1, 3}
  Capacity = 2
  None = none
  MaxEvents = 3
SYMMETRY NewIds
SPECIFICATION SessionsSpec
INVARIANTS
  OnlyTheNamedChange
  GroupsLeaveASurvivor
  RetriesConverge
PROPERTIES
  ImplementsReplay

CONSTANTS
  h1 = h1
  h2 = h2
  m1 = m1
  m2 = m2
  l = l
  Tasks <- MCTasks
  Priority <- MCPriority
  Capacity = 2
SPECIFICATION FairSpec
INVARIANTS NoIdlePermit
PROPERTIES ServedInOrder IsBoundedGate HighServed

SPECIFICATION FairSpec
CONSTANTS
  h1 = h1
  h2 = h2
  h3 = h3
  b1 = b1
  b2 = b2
  Handlers = {h1, h2, h3}
  Bodies = {b1, b2}
  Body <- MCBody
  MaxTries = 2
CHECK_DEADLOCK FALSE
INVARIANTS RunsOnce RepliesAreReplays
PROPERTIES AnswerKept KeyIsFreed

SPECIFICATION FairSpec
CONSTANTS
  p1 = p1
  p2 = p2
  Procs <- Two
  Modes = {"plan_start"}
  PatchTargets = {}
  MaxPublished = 1
  MaxFaults = 1
CHECK_DEADLOCK FALSE
INVARIANTS ClaimHasHolder
PROPERTIES OrphanBlocked StatusMoves

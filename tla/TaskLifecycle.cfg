SPECIFICATION Spec
CONSTANTS
  p1 = p1
  p2 = p2
  Procs <- Two
  Modes = {"route", "simple_start"}
  PatchTargets = {"failed"}
  MaxPublished = 2
  MaxFaults = 0
SYMMETRY Symmetry
CHECK_DEADLOCK FALSE
INVARIANTS ActiveIsServed OneLaunchPerPlan CompletedHasDiff

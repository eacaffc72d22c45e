SPECIFICATION Spec
CONSTANTS
  Plans <- MCPlans
  Files <- MCFiles
  Inside <- MCInside
  Offers <- MCOffers
  Edits <- MCEdits
  Fanouts = {TRUE, FALSE}
  SubtaskCap = 1
  MaxRetries = 1
  MaxFailures = 2
  MaxDynamic = 1
  MaxDepth = 1
  MaxProposals = 1
  OldRows = 0
  MaxSteps = 4
INVARIANTS StatusOnOwnRow
CHECK_DEADLOCK FALSE

SPECIFICATION FairSpec
CONSTANTS
  Plans <- MCPlans
  Files <- MCFiles
  Inside <- MCInside
  Offers <- MCOffers
  Edits <- MCEdits
  Fanouts = {TRUE, FALSE}
  SubtaskCap = 2
  MaxRetries = 2
  MaxFailures = 2
  MaxDynamic = 1
  MaxDepth = 1
  MaxProposals = 1
  OldRows = 0
  MaxSteps = 4
INVARIANTS AllAccounted
PROPERTIES CommitsApart KeepsSchedule Returns
CHECK_DEADLOCK FALSE

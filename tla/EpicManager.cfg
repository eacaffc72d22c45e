SPECIFICATION FairSpec
CONSTANTS
  f1 = f1
  f2 = f2
  NoEpic = NoEpic
  Epics = {e1, e2}
  Files = {f1, f2}
  Plans <- MCPlans
  Users = {u1}
  Jobs = {j1, j2}
  MaxPlans = 2
  MaxLapses = 1
  MaxCrashes = 1
CHECK_DEADLOCK FALSE
INVARIANTS CoderHoldsFiles PlansApart DoneHoldsNothing OneJob ApprovedPlanLoads
PROPERTIES ClosedStaysClosed Settles

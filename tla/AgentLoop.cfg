SPECIFICATION FairSpec
CONSTANTS
  scan = scan
  edit = edit
  submit = submit
  ask = ask
  Tools = {scan, edit, submit, ask}
  Submits = {submit}
  Clarifies = {ask}
  Checks = {scan}
  Edits = {edit}
  Guarded = {}
  Hazardous = {edit}
  Profiles <- MCProfiles
  Forces = TRUE
  HumanApproval = FALSE
  MaxTurns = 2
  MaxBatch = 2
  MaxAttempts = 2
  MaxCritiqueRetries = 1
  MaxReplans = 1
  ReflectionLimit = 1
  CritiqueLimit = 1
  BlockedLimit = 2
  MaxResumes = 1
CHECK_DEADLOCK FALSE
INVARIANTS RequestsPaired HazardousOnce CallsBounded ApprovalRaised
PROPERTIES ClaimsAreFresh Terminates

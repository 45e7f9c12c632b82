SPECIFICATION MCFairSpec
CONSTANTS
  scan = scan rescan = rescan convert = convert c1 = c1 c2 = c2
  note = note letter = letter first = first second = second None = None
  Jobs = {scan, convert}
  RoleOf <- MCRoleOf
  MaxAttempts = 3
  MaxCrashes = 1
CHECK_DEADLOCK FALSE
INVARIANTS
  ApprovalsAreBound
PROPERTIES
  RunsAreContained
  CallsAndContainersEnd

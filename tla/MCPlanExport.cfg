\* Expected to fail: an export is three statements at READ COMMITTED.
SPECIFICATION Spec
CONSTANTS
  checkIn = checkIn wake = wake mine = mine owner = owner None = None
  Requests = {checkIn, wake}
  RequestOf <- MCRequestOf
  Lifecycle = {"ARM_PLAN:policy:1"}
  ScheduledIntent = "ADVANCE_TIME"
  Sessions = {mine}
  OwnerOf <- MCOwnerOf
  PlanOwner = owner
  SessionMs = 2
  RecentMs = 1
  Statements = TRUE
  MaxTime = 1
  MaxArrivals = 3
  MaxExports = 1
INVARIANTS
  SnapshotIsConsistent
CHECK_DEADLOCK FALSE

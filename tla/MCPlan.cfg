\* Six accepted commands on one Plan; three views of the application.
SPECIFICATION MCSpec
CONSTANTS
  Keys = {1, 2, 3, 4, 5, 6}
  CheckInIntervalMs = 2
  ReminderLeadMs = 1
  GracePeriodMs = 1
  MaxSafe = 5
  arm = arm
  checkIn = checkIn
  again = again
  wake = wake
  mine = mine
  theirs = theirs
  owner = owner
  stranger = stranger
  None = None
INVARIANTS
  TypeOK
  EscalationsAreEarned
  ConcernsAreSettled
  TimelineConsistent
  StoresAreSound
PROPERTIES
  CommandsRunOnce
  DisabledIsTerminal
  KeepsThePromise
CHECK_DEADLOCK FALSE

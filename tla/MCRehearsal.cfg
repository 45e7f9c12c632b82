SPECIFICATION MCFairSpec
CONSTANTS
  t1 = t1
  t2 = t2
  Trim <- MCTrim
  Blank = ""
  Canonical <- MCCanonical
  MaxContacts = 2
  MaxEnvelopes = 1
  MaxAttachments = 0
  MaxAttachmentsPerEnvelope = 0
  MaxInteger = 4
  Contents <- MCContents
  DemoContents <- MCDemoContents
  Contacts <- MCContacts
  Policy <- MCPolicy
  MaxSessions = 2
  MaxCommands = 2
  MaxAwaiting = 2
CHECK_DEADLOCK FALSE
INVARIANTS
  ReviewsAreSound
PROPERTIES
  TabsAgree
  ArmedWasRehearsed
  RehearsalSettles

SPECIFICATION DocumentsFairSpec
CONSTANTS
  Envelopes = {1, 2}
  Titles = {0, 1}
  Markdowns = {1}
  Recipients = {1}
  Canonical <- MCCanonical
  DemoDrafts <- MCDemoDrafts
  Sources <- MCSources
  Files = {1, 2}
  Size <- MCSize
  MaxAttachments = 2
  MaxAttachmentTotalBytes = 2
  MaxUndoSteps = 1
  MaxVersions = 2
  MaxNext = 1
  MaxRequests = 2
  MaxSessions = 1
CHECK_DEADLOCK FALSE
INVARIANTS
  WorkspaceIsSound
PROPERTIES
  ChangesCanBeUndone
  HistoriesAreKept
  FilesAreReviewed
  FilesSettle

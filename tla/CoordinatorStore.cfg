\* Three handlers race calls of their own on one session; every call settles.
SPECIFICATION FairSpec
CONSTANTS
  Creates = {n1}
  SlotIds = {a}
  Contents = {c1, c2}
  Touches = {t1}
  NoRequest = NoRequest
  Handlers = {h1, h2, h3}
  MaxAttempts = 2
  MaxCalls = 4
INVARIANTS
  TypeOK
  SnapshotsArePrefixes
  SavedIsDurable
  SlotCommittedOnce
  ConflictMeansOvertaken
PROPERTIES
  ImplementsSessionLog
  Settles
CHECK_DEADLOCK FALSE

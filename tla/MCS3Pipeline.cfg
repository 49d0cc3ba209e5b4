\* Two handlers, three slots issued over keys that are used again; sweeps whose
\* commits retire two objects, one worker for both.
SPECIFICATION S3Spec
CONSTANTS
  Tracks = {t1}
  SlotIds = {s1, s2, s3}
  Kinds = {"segment"}
  Seqs = {0, 1, 2}
  Parts = {}
  Times = {0}
  LateTolerances = {0}
  WindowSizes = {1, 3}
  Handlers = {h1, h2}
  Facts = {"none"}
  MaxAttempts = 2
  MaxIssues = 3
  Closings = {"aborted"}
  Concurrency = 1
  NoSlot = NoSlot
SYMMETRY S3Symmetry
INVARIANTS
  S3TypeOK
  RecordedObjectsStored
  PoolsAccount
CHECK_DEADLOCK FALSE

\* A hint that brings profile data, and what tells of the object again.
SPECIFICATION S3Spec
CONSTANTS
  Tracks = {t1}
  SlotIds = {s1}
  Kinds = {"segment"}
  Seqs = {0}
  Parts = {}
  Times = {0}
  LateTolerances = {0}
  WindowSizes = {1}
  Handlers = {h1, h2}
  Facts = {"none", "f"}
  MaxAttempts = 2
  MaxIssues = 1
  Closings = {}
  Concurrency = 1
  NoSlot = NoSlot
INVARIANTS
  RepeatsAreIdempotent
CHECK_DEADLOCK FALSE

\* A primary and a standby that publish two segments of two parts each.
SPECIFICATION LoopSpec
CONSTANTS
  Tracks = {t1}
  SlotIds <- PositionIds
  Kinds = {"part"}
  Seqs = {0, 1}
  Parts = {0, 1}
  Times = {0, 1, 2}
  LateTolerances = {0}
  WindowSizes = {1, 2}
  Publishers = {p1, p2}
  LeaseTtl = 1
  MaxCursorAge = 1
  SafeIds = {"session"}
  SessionId = "session"
  PartsPerSegment = 2
  StartSeq = 0
  Heartbeating = {p1}
  MaxSegments <- WindowOfEach
  ObjectTtl = 1
  MaxAttempts <- AttemptsOfEach
  Skews = {0, 1}
  MaxClock = 1
  MaxFaults = 1
  Closings = {"aborted"}
  NoPlan = NoPlan
  NoCall = NoCall
  NoContent = NoContent
INVARIANTS
  LoopTypeOK
  LeasesSound
  TimelineGapless
  ConfirmedStaysPublished
CHECK_DEADLOCK FALSE

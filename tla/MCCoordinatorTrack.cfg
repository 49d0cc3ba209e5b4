\* One track: segments, parts and init objects, deadlines that pass before,
\* between and after the commits, windows of one segment and of all of them.
SPECIFICATION PlaylistSpec
CONSTANTS
  Tracks = {t1}
  SlotIds = {s1, s2, s3}
  Kinds = {"init", "segment", "part"}
  Seqs = {0, 1, 2}
  Parts = {0, 1}
  Times = {0, 1}
  LateTolerances = {0, 1}
  WindowSizes = {1, 3}
  Discontinuities = {}
  SegmentTicks = 2
  PartTicks = 1
  RetainWithin = 2
SYMMETRY TrackSlotSymmetry
INVARIANTS
  TypeOK
  OpenSlotsUnique
  CommitsMatchSlots
  WindowBacked
  CursorCurrent
  WindowsAgree
  ReadyMeansListed
PROPERTIES
  CommitsLeaveBehind
  ImplementsLiveWindow
  PlaylistsGoOn
CHECK_DEADLOCK FALSE

\* Two tracks that advance independently, with init objects and closing
\* sessions, and the playlists rendered of them.
SPECIFICATION PlaylistSpec
CONSTANTS
  Tracks = {t1, t2}
  SlotIds = {s1, s2, s3, s4}
  Kinds = {"init", "segment", "part"}
  Seqs = {0, 1}
  Parts = {0}
  Times = {0}
  LateTolerances = {0, 1}
  WindowSizes = {1, 2}
  Discontinuities = {0}
  SegmentTicks = 2
  PartTicks = 1
  RetainWithin = 2
SYMMETRY TrackSlotSymmetry
INVARIANTS
  NothingBehindWindow
  CursorStateInStep
  StoredCursorLoads
  ReadyMeansListed
PROPERTIES
  AdvertisedStay
CHECK_DEADLOCK FALSE

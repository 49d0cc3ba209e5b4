\* One track that breaks before its first segment, under windows of one
\* segment: the break is trimmed, and later commits forget it.
SPECIFICATION PlaylistSpec
CONSTANTS
  Tracks = {t1}
  SlotIds = {s1, s2, s3, s4}
  Kinds = {"init", "segment"}
  Seqs = {0, 1, 2}
  Parts = {}
  Times = {0}
  LateTolerances = {0}
  WindowSizes = {1}
  Discontinuities = {0}
  SegmentTicks = 2
  PartTicks = 1
  RetainWithin = 2
SYMMETRY TrackSlotSymmetry
PROPERTIES
  DiscontinuitySequenceNeverFalls
CHECK_DEADLOCK FALSE

\* Two init slots of one track both commit before the first media commit.
SPECIFICATION Spec
CONSTANTS
  Tracks = {t1}
  SlotIds = {s1, s2}
  Kinds = {"init", "segment"}
  Seqs = {0, 1}
  Parts = {}
  Times = {0, 1, 2}
  LateTolerances = {0, 1}
  WindowSizes = {1, 2}
SYMMETRY SlotSymmetry
INVARIANT OneInitPerTrack
CHECK_DEADLOCK FALSE

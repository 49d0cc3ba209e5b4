\* An upload that was granted while live commits after the session ended.
SPECIFICATION Spec
CONSTANTS
  Tracks = {t1}
  SlotIds = {s1, s2}
  Kinds = {"init", "segment"}
  Seqs = {0, 1}
  Parts = {}
  Times = {0, 1, 2}
  LateTolerances = {0, 1}
  WindowSizes = {1, 2}
SYMMETRY SlotSymmetry
PROPERTY NoCommitAfterEnd
CHECK_DEADLOCK FALSE

SPECIFICATION Spec
CONSTANTS
  v = v
  a = a
  Tracks <- MCTracks
  Readers = {r1}
  Edges <- MCEdges
  Requests <- MCRequests
  MaxOwed = 2
INVARIANTS
  SleepersAreUpToDate

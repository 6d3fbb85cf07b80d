SPECIFICATION Spec
CONSTANTS
  Parts = {"operations", "feed", "mixed", "own", "server", "workspace", "turn",
    "documents", "docker", "review", "edited", "switched"}
  x1 = x1
  x2 = x2
  x3 = x3
  y1 = y1
  y2 = y2
  y3 = y3
  none = none
  Window = Window
  NoWork = NoWork
  q = q
  NoRequest = NoRequest
  c = c
  r1 = r1
  r2 = r2
  noFolder = noFolder
  w1 = w1
  NoArg = NoArg
  NoSnapshot = NoSnapshot
INVARIANTS
  JobsAreAccountedFor
  ServedWithinLimits
  WorkspacePlanIsCurrent
  TurnIsClosed
  StampVouches
  OffStaysOff
  HistoryExplainsBaseline
PROPERTIES
  DockerRunsWhatWasShown
SYMMETRY Symmetry
CHECK_DEADLOCK FALSE

SPECIFICATION Spec
CONSTANTS
  Parts = {"renamed", "reused", "duplicates", "crowded", "directory", "cleanup", "drive", "names",
    "sessions", "registration", "settings", "permissions", "provider"}
  x1 = x1
  x2 = x2
  x3 = x3
  y1 = y1
  y2 = y2
  y3 = y3
  none = none
  Window = Window
  NoWork = NoWork
  q = q
  NoRequest = NoRequest
  c = c
  r1 = r1
  r2 = r2
  noFolder = noFolder
  w1 = w1
  NoArg = NoArg
  NoSnapshot = NoSnapshot
INVARIANTS
  DuplicatesAreExact
  ReportsAddUp
  ConversationsStayWhole
PROPERTIES
  SettingsCanBeUndone
  CatalogVouches
SYMMETRY Symmetry
CHECK_DEADLOCK FALSE

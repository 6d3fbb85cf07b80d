SPECIFICATION Spec
CONSTANTS
  control = control
  directory = directory
  reader = reader
  NoWork = NoWork
  o1 = o1
  o2 = o2
  Window = Window
  NoRequest = NoRequest
  x1 = x1
  x2 = x2
  r1 = r1
  noFolder = noFolder
  w1 = w1
  NoArg = NoArg
  NoSnapshot = NoSnapshot
PROPERTIES
  SlotIsGivenBack
  ShutdownDrains
  ChatWorkEnds
  WorkersEnd
  LaunchIsAnswered
CHECK_DEADLOCK FALSE

CONSTANTS
  c1 = c1
  c2 = c2
  c3 = c3
  Clients = {c1, c2}
  black_white = black_white
  color = color
  Groups = {black_white, color}
  UnknownGroup = unknown
  PrinterGroup <- ConfigRc
  Inputs <- OneGroup
  Backlog = 2
  MaxJobs = 3
SPECIFICATION Spec
PROPERTY SuccessIsQueued
CHECK_DEADLOCK FALSE

CONSTANTS
  NJobs = 2
  NLines = 2
  FileLines = {"text"}
  MaxReaders = 3
  Ps2pdf = "missing"
  DaemonDies = FALSE
SPECIFICATION PrinterSpec
INVARIANT ConversionsAreJobs
CHECK_DEADLOCK FALSE

SPECIFICATION SimulatorSpec
CONSTANTS
  NTasks = 3
  Jobs <- SimulatedJobs
  Loadable = {"srtn"}
INVARIANTS SrtnSorts
CHECK_DEADLOCK FALSE

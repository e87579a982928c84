SPECIFICATION LabsSpec
CONSTANTS
  NTasks = 3
  Jobs <- SimulatedJobs
  Loadable = {"fcfs", "rr", "prr", "rrr", "srtn"}
  Rounds = 3
  Consumers <- LabConsumers
  NumItems = 2
  MaxProduce = 4
  Slots = 2
  Files = {1, 2}
  BUF_LEN = 3
  Data = {1, 2}
  MaxLength = 4
  Beyond <- BeyondMsg
  MaxBeyond = 3
  MaxOpens = 4
  NUM_FRAMES = 2
  NUM_PAGES = 3
  NUM_ACCESSES = 6
  History = 2
  Pids = {1, 2, 3}
  Values <- ShellValues
INVARIANTS
  SchedulerAgrees RightTaskRuns AccountsAddUp
  GeneratedIsRead SharedInOrder ShellKeepsTrack FramesFollowPolicy
  RowsTellTheirFiles OneReaderAtATime ExchangesArrive
  ToldInOrder DoesAsAsked
PROPERTIES EveryProgramArrives ChildIsReported
CHECK_DEADLOCK FALSE

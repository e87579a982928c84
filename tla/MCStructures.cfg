SPECIFICATION StructuresSpec
CONSTANTS
  Groups = {black_white, color}
  MaxJobs = 5
  NJobs = 2
  NLines = 2
  FileLines = {"text", "text##END##", "##END##text"}
  MaxReaders = 1
  Ps2pdf = "quits"
  DaemonDies = TRUE
INVARIANTS
  TypeOK IInv NoNullWalk PrintedInOrder NoJobLost
  MemoryAgrees TextAndValueAgree
  AnswersFitQuestions  FloodsOnlyWhenCutOff
PROPERTIES PhantomIsForever ImplementsSpool EveryTextEnds JobsAreConverted EndsReachTheOther
CHECK_DEADLOCK FALSE

CONSTANTS
  black_white = black_white
  color = color
  printer0 = printer0
  printer1 = printer1
  printer3 = printer3
  Groups = {black_white, color}
  Printers = {printer0, printer3}
  GroupOf <- OneEach
  NoGroup = none
  Regroup = FALSE
  MaxJobs = 2
  MaxPrints = 3
SPECIFICATION Spec
INVARIANTS ThreadSafe ListIsPending ExitAfterLastJob
PROPERTIES ImplementsSpool ProducerNotLockedOut ExitOnceDrained
CHECK_DEADLOCK FALSE

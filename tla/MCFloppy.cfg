SPECIFICATION FloppySpec
CONSTANTS
  Boots <- FloppyBoots
  Entries <- FloppyEntries
  NameLength = 2
  EntryWidth = 2
  ROOTSIZE = 8
INVARIANTS ListsEachEntry
CHECK_DEADLOCK FALSE

CONSTANTS
  Plain = {p1}
  Long = {l1}
  LongTotal = 2
  MaxSlot = 2
  MaxActs = 2
  MaxFaults = 1
SPECIFICATION FairSpec
INVARIANTS TypeOK LongInOrder
PROPERTIES SelectionKept NoHalfShown ShownInTheEnd
CHECK_DEADLOCK FALSE

CONSTANTS
  Plain = {p1, p2}
  Long = {}
  LongTotal = 2
  MaxSlot = 1
  MaxActs = 0
  MaxFaults = 0
SPECIFICATION Spec
INVARIANT PlainKeptApart

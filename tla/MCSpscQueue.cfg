\* A queue of two bytes: records of one byte, of the whole capacity, and one too
\* large; positions wrap after eight bytes.
CONSTANTS
  C = 2
  M = 8
  H = 1
  Sizes = {1, 2, 3}
  Payloads = {"a", "b"}
  NoData = "none"
SPECIFICATION HFairSpec
INVARIANTS TypeOK NoUnderflow NoOverlap WholeRecords Intact
PROPERTIES AdvanceWithinSeen ImplementsFifo EventuallyRead

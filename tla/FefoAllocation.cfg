SPECIFICATION AllocationSpec
CONSTANTS
  Candidates = 4
  MaxStock = 3
  MaxWanted = 7
INVARIANT AllocatesFefo

CHECK_DEADLOCK FALSE

SPECIFICATION Spec
CONSTANTS
  Students <- ThreeStudents
  Marks = {0, 1}
  Dates = {1}
  Never = 9
  Times = {0, 1, 2}
  Milli = 2
  MaxRows = 2
  MaxGenerations = 1
INVARIANTS TypeOK ViewRanksDistinct RanksContiguous MergeKeepsMeritOrder
CHECK_DEADLOCK FALSE

SPECIFICATION Spec
CONSTANTS
  Lists = {a, b}
  Data = {11}
  Positions <- SomePositions
  MaxLen = 4
INVARIANT ListsWellFormed
PROPERTY ImplementsSeqList

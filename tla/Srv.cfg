SPECIFICATION SrvSpec
CONSTANTS
  Keys = {10, 12, 21}
  MaxLen = 5
  Scale = 10
INVARIANTS TypeOK NoNodeLost RunsSorted Sorted TargetsKept LevelsInOrder
PROPERTY QueryReturns

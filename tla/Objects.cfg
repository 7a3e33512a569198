SPECIFICATION Spec
CONSTANTS
  Objects = {o1, o2, o3, o4}
  None = None
  MaxMine = 1
  MaxItems = 2
  OpenLists <- EntryLinks
  Misuse = {}
SYMMETRY Addresses
INVARIANTS TypeOK NoFault CountsExact NothingLeaks
CHECK_DEADLOCK FALSE

SPECIFICATION Spec
CONSTANTS
  e1 = e1
  e2 = e2
  h1 = h1
  h2 = h2
  Events = {e1, e2}
  Hooks = {h1, h2}
  AnyHook = AnyHook
  MaxRegs = 4
  MaxDepth = 2
  SelfDisconnect = FALSE
SYMMETRY HookSymmetry
INVARIANTS TypeOK HooksOwned
PROPERTY ImplementsHookOrder

SPECIFICATION RewritesSpec
CONSTANTS
  Function = {"f", "g"}
  Outside = "outside"
  Store = {1, 2, 3}
  Element = {"e1", "e2"}
  Programs <- MCPrograms
  Bodies <- MCBodies
  MaxHandled = 3
INVARIANTS
  ErasesItsOwn
  ImplementsContract
  InstanceIsReady
CHECK_DEADLOCK FALSE

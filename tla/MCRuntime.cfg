SPECIFICATION RuntimeSpec
CONSTANTS
  W = 16
  Align = 2
  StackBase = 4
  Modules <- Linked
  FrameSizes = {2, 4}
  AllocSizes = {1, 5}
  Widths = {2}
  MaxDepth = 3
  MaxStack = 14
  Importer = {m1, m2}
  Declarations <- Declared
  PAGE_SIZE = 2
  Segment = 1
  MaxBlocks = 2
  Value = {0, 1}
  Unset = Unset
  Instance = {i1, i2}
  Functions = {f6, f7}
  f6 = f6
  f7 = f7
  TypeOf <- FunctionTypes
  Lifted <- LiftedModules
  Capacity = 3
  Counts = {2}
  Null = Null
INVARIANTS
  MemoryKept
  PointerTells
  Coherent
  PairedAsListed
  CallsAsOwn
PROPERTY DynamicTopAfterMemory
SYMMETRY Alike
CHECK_DEADLOCK FALSE

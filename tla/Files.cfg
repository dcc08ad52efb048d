SPECIFICATION MCSpec
CONSTANTS
  Names = {"a", "b"}
  LinkTarget <- Target
  MaxInodes = 3
  Fids = {f1, f2}
  Requests <- AllRequests
  MaxDepth = 2
  Configs <- MCConfigs
  KERNEL_OFFSET = 8
SYMMETRY Symmetric
VIEW View
CHECK_DEADLOCK FALSE
INVARIANTS
  FidsSound
  ImagesIntact
  TreeDescribesBoard

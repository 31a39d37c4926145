SPECIFICATION Spec
CONSTANTS
  BlockSize = 2
  BatchBlocks = 2
  Sixteen = 2
  Four = 3
  CheckSize = 1
  MaxSize = 14
  Inputs <- TextsAndShapes
  Recalled <- Calls
  DesignOf <- MCDesignOf
  HybridOf <- MCHybridOf
  Fits <- MCFits
  MaxCalls = 2
  MaxCrashes = 1
INVARIANTS ReleaseIsFresh ModulesCompile ProofsIndexText BindingIsExact
CHECK_DEADLOCK FALSE

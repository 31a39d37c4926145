\* Every cell up to four bits, memories, small modules and packages of three.
CONSTANTS
  Parts = {"cell", "memory", "module", "package"}
  MaxWidth = 4
  Fills = {"none", "zero", "one"}
  MemoryCells <- MCMemoryCells
  MemoryPolicies = {"one", "none"}
  Netlists <- AllNetlists
  Policies <- MCPolicies
  Designs <- MCDesigns
  Documents <- MCDocuments
  Classifications = {"undriven"}
SPECIFICATION ImportSpec
INVARIANTS LoweringIsExact MemoriesAgree ModulesAreExact InventoryAgrees PassIsComplete TableIsTheTrees
CHECK_DEADLOCK FALSE

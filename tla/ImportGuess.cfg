\* The cells alone, against what the docstring says.
CONSTANTS
  Parts = {"cell"}
  MaxWidth = 3
  Fills = {"none", "zero", "one"}
  MemoryCells <- MCMemoryCells
  MemoryPolicies = {"one", "none"}
  Netlists <- AllNetlists
  Policies <- MCPolicies
  Designs <- MCDesigns
  Documents <- MCDocuments
  Classifications = {"undriven"}
SPECIFICATION ImportSpec
INVARIANT NeverGuessed
CHECK_DEADLOCK FALSE

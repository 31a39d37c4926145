SPECIFICATION Spec
CONSTANTS
  d1 = d1
  d2 = d2
  g1 = g1
  r1 = r1
  Domains = {d1, d2}
  Gates = {g1}
  Regions = {r1}
  NumSlots = 3
  NumCells = 2
  MemWords = 2
  GenRetired = 2
  MaxChainDepth = 2
  None = None
  InitCaps <- MCInitCaps
  InitRegions <- MCInitRegions
  Callee <- MCCallee
  Narrowings <- MCNarrowings
INVARIANTS RoundsReachFixpoint LedgerBalanced AuthorityConfined RegionsBacked MoverBacked
PROPERTY ImplementsForest

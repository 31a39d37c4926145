SPECIFICATION Spec
CONSTANTS
  da = da
  db = db
  dc = dc
  dd = dd
  ga = ga
  gb = gb
  gc = gc
  gd = gd
  Domains = {da, db, dc}
  Gates = {ga, gb, gc}
  None = None
  Callee <- MCCallee
  Priority <- MCPriority
  Quota <- MCQuota
  Period <- MCPeriod
  MaxDonation <- MCMaxDonation
  Hyperperiod = 26
  MaxChainDepth = 2
  PlainCosts = {1, 3}
  GateCost = 2
  SchedCost = 1
PROPERTY YieldGivesUpPeriod

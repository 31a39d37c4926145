\* Three modules of which one is contracted; small miters; two memories.
CONSTANTS
  Parts = {"runner", "miter", "handoff"}
  None = None
  Torn = Torn
  Elaborations <- MCElaborations
  Emissions <- MCElaborations
  Packages <- MCPackages
  Contracts <- MCContracts
  Selections <- MCSelections
  Expected = 3
  MaxEdits = 2
  Miters <- MCMiters
  Nets <- MCNets
  Hierarchies <- MCHierarchies
  EmittedDesigns <- MCEmitted
  Plans <- MCPlans
  Macros = 2
  Top = "top"
  Ram = "ram"
  Emit <- MCEmit
  Order <- MCOrder
SPECIFICATION KianvSpec
INVARIANTS EvidenceIsTrue EvidenceIsComplete MiterIsSound VerifiedIsBuildable
PROPERTY TranslationIsExact
CHECK_DEADLOCK FALSE

SPECIFICATION Spec
CONSTANTS
  WordBits = 4
  BitmapWords = 2
  DmemWords = 12
  SlotBase = 4
  Documents <- Docs
  Designs <- DesignCores
  Rtls <- RtlCores
  Aliases <- AliasTables
  MaxTraps = 3
  DiagSize = 2
INVARIANTS ResultsAreTrue ExitIsJustified
CHECK_DEADLOCK FALSE

\* A request may come while the previous handshake drains.
SPECIFICATION LinksSpec
CONSTANTS
  Parts = {"recovery"}
  Payloads = {A1, A2}
  None = None
  Depth = 3
  MaxCount = 7
  QueueDepth = 2
  MaxSent = 5
  Pointers = 5
  AnyTime = TRUE
  Words = {x, y}
  x = x
  y = y
INVARIANT QuiescedWhileSplit

\* The ring turns over twice; both mailbox phases return; the recovery pointers
\* wrap after five payloads.
SPECIFICATION LinksSpec
CONSTANTS
  Parts = {"ring", "queue", "toggle", "recovery", "arbiter"}
  Payloads = {A1, A2}
  None = None
  Depth = 3
  MaxCount = 7
  QueueDepth = 2
  MaxSent = 5
  Pointers = 5
  AnyTime = FALSE
  Words = {x, y}
  x = x
  y = y
INVARIANTS ViewsConservative Conservation QuiescedWhileSplit AnswersOwed
PROPERTIES SlotsCollisionFree ImplementsChan EveryPayloadDelivered MailboxIsChannel
  RecoveryEnds ConditionalIsAtomic SomeoneProceeds

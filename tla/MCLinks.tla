-------------------------------- MODULE MCLinks --------------------------------
(***************************************************************************)
(* The links between clocks and cores: the asynchronous ring, the abstract   *)
(* queue it implements, the toggle mailbox, the recovery handshake and the    *)
(* memory arbiter.  A behaviour follows one of them; the variables of the     *)
(* others keep their initial values.                                         *)
(***************************************************************************)
EXTENDS AsyncFifo

CONSTANTS Parts, QueueDepth, MaxSent, Pointers, AnyTime, Words, x, y

VARIABLES
  part,
  line, offered, served,
  payload, pending, sourceBusy, visible, sourcePhase, sinkPhase, ackPhase, sourceAckPhase, taken, given,
  queue, source, sink, recovering, written, read,
  latch, reserved, st, owner, last, start, done, scFail, resKill, master, mDone,
  pulse, waiting, lrValid, linked, overwritten, tried, committed

C == INSTANCE Chan WITH queue <- line, sent <- offered, received <- served,
       Depth <- QueueDepth, Exchange <- TRUE
T == INSTANCE ToggleChan
\* Reservations on two words, plain writes to both, conditional ones to one.
Access(op, word) == [op |-> op, word |-> word]
MCAccesses == {Access("lr", x), Access("sc", x), Access("wr", x), Access("lr", y), Access("wr", y)}

First == CHOOSE word \in Payloads : TRUE
R == INSTANCE RecoveryProtocol WITH Depth <- QueueDepth, Payloads <- {First}
A == INSTANCE HpArbiter WITH Accesses <- MCAccesses

\* The recovery pointers tell a full queue from an empty one; the cores share
\* the words they access, and a request can be told from its absence.
ASSUME RecoveryAssumption ==
  QueueDepth \in Nat /\ Pointers \in Nat /\ Pointers > 2 * QueueDepth
ASSUME ArbiterAssumption ==
  {x, y} \subseteq Words /\ None \notin Words \union A!Request

ofQueue == <<line, offered, served>>
ofToggle == <<payload, pending, sourceBusy, visible, sourcePhase, sinkPhase, ackPhase,
              sourceAckPhase, taken, given>>
ofRecovery == <<queue, source, sink, recovering, written, read>>
ofArbiter == <<latch, reserved, st, owner, last, start, done, scFail, resKill, master, mDone,
               pulse, waiting, lrValid, linked, overwritten, tried, committed>>
linksVars == <<part, vars, ofQueue, ofToggle, ofRecovery, ofArbiter>>

LinksInit ==
  /\ part \in Parts
  /\ Init /\ C!Init /\ T!Init /\ R!Init /\ A!Init
  /\ part # "ring" => storage = [s \in Slots |-> First]
  /\ part # "toggle" => payload = First

OfRing(action) == part = "ring" /\ action /\ UNCHANGED <<part, ofQueue, ofToggle, ofRecovery, ofArbiter>>
OfQueue(action) == part = "queue" /\ action /\ UNCHANGED <<part, vars, ofToggle, ofRecovery, ofArbiter>>
OfToggle(action) == part = "toggle" /\ action /\ UNCHANGED <<part, vars, ofQueue, ofRecovery, ofArbiter>>
OfRecovery(action) == part = "recovery" /\ action /\ UNCHANGED <<part, vars, ofQueue, ofToggle, ofArbiter>>
OfArbiter(action) == part = "arbiter" /\ action /\ UNCHANGED <<part, vars, ofQueue, ofToggle, ofRecovery>>

RingStep == OfRing(Next)
QueueStep == OfQueue(C!Next)
ToggleStep == OfToggle(T!Next)
RecoveryStep == OfRecovery(R!Next)
ArbiterStep == OfArbiter(A!Next)

LinksNext == RingStep \/ QueueStep \/ ToggleStep \/ RecoveryStep \/ ArbiterStep

\* The fairness of each part, as its module states it.
LinksFairness ==
  /\ WF_linksVars(OfRing(SourceObserves)) /\ WF_linksVars(OfRing(SinkServes))
  /\ WF_linksVars(OfToggle(T!SourceHears)) /\ WF_linksVars(OfToggle(T!SinkServes))
  /\ WF_linksVars(OfRecovery(R!SourceTicks)) /\ WF_linksVars(OfRecovery(R!SinkTicks))
  /\ WF_linksVars(ArbiterStep) /\ WF_linksVars(OfArbiter(A!Cycle(TRUE)))

LinksSpec == LinksInit /\ [][LinksNext]_linksVars /\ LinksFairness

-----------------------------------------------------------------------------

\* The properties of the modules, of this behaviour.
Conservation == C!Conservation
MailboxIsChannel == T!MailboxIsChannel
QuiescedWhileSplit == R!QuiescedWhileSplit
RecoveryEnds == R!RecoveryEnds
AnswersOwed == A!AnswersOwed
ConditionalIsAtomic == A!ConditionalIsAtomic
SomeoneProceeds == A!SomeoneProceeds
=============================================================================

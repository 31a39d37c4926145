--------------------------- MODULE RecoveryProtocol ---------------------------
(***************************************************************************)
(* The recovery handshake of Loom/Hw/RecoveryProtocol.lean.  Either end of a  *)
(* channel may ask for recovery.  Both ends stop their traffic, acknowledge,  *)
(* hold their half of the storage in reset, and when both halves are flushed  *)
(* the queue is discarded in one event.  Requests and acknowledgements are    *)
(* levels that cross to the other clock through two stages.                   *)
(*                                                                         *)
(* written and read are the pointers of the two halves, which resetHeld       *)
(* clears (the comment at lines 77-80): the halves agree with the queue only  *)
(* while neither was cleared alone.                                           *)
(***************************************************************************)
EXTENDS Naturals, Sequences

CONSTANTS
  Payloads, None, Depth,
  Pointers,    \* modulus of the pointers, more than twice Depth
  AnyTime      \* requests come at any time, also while an endpoint drains

VARIABLES
  queue, source, sink, recovering,
  written, read    \* pointers of the source half and of the sink half

vars == <<queue, source, sink, recovering, written, read>>

Endpoint0 ==
  [recoverInputSeen |-> FALSE, request |-> FALSE, peerRequest0 |-> FALSE, peerRequest1 |-> FALSE,
   acknowledge |-> FALSE, peerAcknowledge0 |-> FALSE, peerAcknowledge1 |-> FALSE, flushed |-> FALSE]

\* Mutant: an endpoint that asks goes on until it sees its peer.
BlockedByPeer(e, now) == e.peerRequest1 \/ e.flushed
Blocked(e, now) == now \/ e.request \/ e.peerRequest1 \/ e.flushed

NewRequest(e, now) == now /\ ~e.recoverInputSeen
LocalFlush(e) == e.request /\ e.peerAcknowledge1
ResetHeld(e) == e.flushed \/ LocalFlush(e)

Idle(e, now) == ~now /\ ~e.request /\ ~e.peerRequest1 /\ ~e.peerAcknowledge1

\* Mutant: the peer's request does not make the endpoint ask in turn.
RequestedAlone(e, now) ==
  ~(e.flushed /\ ~now) /\ (NewRequest(e, now) \/ e.request)
Requested(e, now) ==
  ~(e.flushed /\ ~now) /\ (NewRequest(e, now) \/ e.peerRequest1 \/ e.request)

\* Endpoint.step on a tick of its clock.
Ticked(e, now, peer) ==
  [recoverInputSeen |-> now,
   request |-> Requested(e, now),
   peerRequest0 |-> peer.request, peerRequest1 |-> e.peerRequest0,
   acknowledge |-> e.peerRequest1,
   peerAcknowledge0 |-> peer.acknowledge, peerAcknowledge1 |-> e.peerAcknowledge0,
   flushed |-> ~Idle(e, now) /\ (e.flushed \/ LocalFlush(e))]

EndpointStep(e, tick, now, peer) == IF tick THEN Ticked(e, now, peer) ELSE e

Channel == INSTANCE Chan WITH Exchange <- FALSE, MaxSent <- 0, sent <- << >>, received <- << >>

\* step on one request.  An input is sampled on the tick of its own clock.
Step(sourceTick, sinkTick, sourceRecover, sinkRecover, push, pop) ==
  LET masked == [push |-> IF Blocked(source, sourceRecover) THEN None ELSE push,
                 pop |-> pop /\ ~Blocked(sink, sinkRecover)]
      nextSource == EndpointStep(source, sourceTick, sourceRecover, sink)
      nextSink == EndpointStep(sink, sinkTick, sinkRecover, source)
      completes == recovering /\ nextSource.flushed /\ nextSink.flushed
      pushed == Channel!PushAccepted(masked.push, masked.pop)
      popped == Channel!PopAccepted(masked.pop)
      afterPop == IF popped THEN Tail(queue) ELSE queue
      starts == \/ sourceTick /\ NewRequest(source, sourceRecover)
                \/ sinkTick /\ NewRequest(sink, sinkRecover)
  IN /\ source' = nextSource
     /\ sink' = nextSink
     /\ queue' = IF completes THEN << >>
                 ELSE IF pushed THEN Append(afterPop, masked.push) ELSE afterPop
     /\ recovering' = (~completes /\ (recovering \/ starts))
     /\ written' = IF sourceTick /\ ResetHeld(source) THEN 0
                   ELSE IF pushed THEN (written + 1) % Pointers ELSE written
     /\ read' = IF sinkTick /\ ResetHeld(sink) THEN 0
                ELSE IF popped THEN (read + 1) % Pointers ELSE read

Init ==
  /\ queue = << >> /\ source = Endpoint0 /\ sink = Endpoint0 /\ recovering = FALSE
  /\ written = 0 /\ read = 0

(***************************************************************************)
(* The recovery input of an endpoint, sampled on its tick.  A new request     *)
(* comes when the endpoint no longer holds the flush of the previous one, for *)
(* any number of ticks; under AnyTime it may come at once, and is held until  *)
(* both halves are flushed.                                                   *)
(***************************************************************************)
Inputs(e, tick) ==
  {now \in BOOLEAN :
     /\ now => tick
     /\ tick /\ now /\ ~e.recoverInputSeen => AnyTime \/ ~e.flushed
     /\ tick /\ ~now /\ e.recoverInputSeen => ~AnyTime \/ (source.flushed /\ sink.flushed)}

Event(sourceTicks, sinkTicks) ==
  \E sourceTick \in sourceTicks, sinkTick \in sinkTicks :
    \E sourceRecover \in Inputs(source, sourceTick), sinkRecover \in Inputs(sink, sinkTick) :
      \E push \in IF sourceTick THEN Payloads \union {None} ELSE {None}, pop \in {FALSE, sinkTick} :
        Step(sourceTick, sinkTick, sourceRecover, sinkRecover, push, pop)

Next == Event(BOOLEAN, BOOLEAN)

Spec == Init /\ [][Next]_vars

\* Both clocks keep ticking: the handshake is graceful, its clocks are alive.
SourceTicks == Event({TRUE}, BOOLEAN)
SinkTicks == Event(BOOLEAN, {TRUE})
Fairness == WF_vars(SourceTicks) /\ WF_vars(SinkTicks)

-----------------------------------------------------------------------------

\* The pointers of the two halves tell what the queue holds.
Agree == (written + Pointers - read) % Pointers = Len(queue)

(***************************************************************************)
(* From the reset of one half to that of the other the pointers tell          *)
(* nothing, so until then neither end may accept or deliver, not even when    *)
(* new requests arrive while an older handshake drains.                       *)
(***************************************************************************)
QuiescedWhileSplit == ~Agree => Blocked(source, FALSE) /\ Blocked(sink, FALSE)

\* A recovery that was asked for completes, also when both ends ask.
RecoveryCompletes == recovering ~> ~recovering

\* When the inputs stay quiet, both ends take traffic again for good.
ReturnsToTraffic ==
  <>[](~source.recoverInputSeen /\ ~sink.recoverInputSeen)
    => <>[](~Blocked(source, FALSE) /\ ~Blocked(sink, FALSE))

(***************************************************************************)
(* The handshake of Endpoint.step gives the channel back: four levels cross   *)
(* the clocks and each waits for another, at both ends at once, yet a         *)
(* recovery completes and no end stays in the flush.                          *)
(***************************************************************************)
RecoveryEnds == RecoveryCompletes /\ ReturnsToTraffic
=============================================================================

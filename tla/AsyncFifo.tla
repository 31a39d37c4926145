------------------------------ MODULE AsyncFifo ------------------------------
(***************************************************************************)
(* The Gray-pointer asynchronous FIFO of Loom/Hw/AsyncFifo.lean.           *)
(*                                                                         *)
(* A source clock and a sink clock share a ring of Depth slots.  Each side *)
(* owns one counter and sees the other's through two synchronizer stages.  *)
(* A stage that samples may land anywhere between its old value and the    *)
(* remote counter of that instant (sample, lines 79-80), so each side      *)
(* decides on a view that can be arbitrarily old.  One event is any set of *)
(* coincident clock edges; every decision reads the state before it.       *)
(*                                                                         *)
(* The counters are unbounded in the source.  MaxCount is the bound that   *)
(* ends the production of new payloads.                                    *)
(***************************************************************************)
EXTENDS Integers, Sequences

CONSTANTS
  Payloads,   \* the words the channel can carry
  None,       \* "no push requested"
  Depth,      \* number of slots, c.depth
  MaxCount    \* bound on writeCount

ASSUME PayloadsAssumption == None \notin Payloads /\ Payloads # {}
ASSUME DepthAssumption == Depth \in Nat \ {0}
ASSUME MaxCountAssumption == MaxCount \in Nat

VARIABLES
  storage,          \* the ring; all slots hold one word before the first write
  writeCount,       \* owned by the source clock
  readCount,        \* owned by the sink clock
  readStage0,       \* readCount, first synchronizer stage of the source
  readSeenByWrite,  \* readCount, as the source decides on it
  writeStage0,      \* writeCount, first synchronizer stage of the sink
  writeSeenByRead,  \* writeCount, as the sink decides on it
  sourceReleased,   \* the source left the common reset
  sinkReleased,     \* the sink left the common reset
  sent,             \* ledger: payloads the source side accepted
  received          \* ledger: payloads the sink side delivered

counters == <<writeCount, readCount>>
views == <<readStage0, readSeenByWrite, writeStage0, writeSeenByRead>>
released == <<sourceReleased, sinkReleased>>
ledger == <<sent, received>>
vars == <<storage, counters, views, released, ledger>>

Slots == 0 .. Depth - 1

\* Mutant: the ring wraps one slot early.
SlotWrapsEarly(count) == count % (Depth - 1)
Slot(count) == count % Depth

\* Mutant: the stage may fall back to any past value, as binary counters do.
SamplesAnyPast(old, current) == 0 .. current
\* The values sample(old, current, requested) takes over all requests.
Samples(old, current) == old .. current

(***************************************************************************)
(* Decisions.  live says that the side is released and its clock ticks.    *)
(***************************************************************************)

Accepted(live, push) ==
  /\ live
  /\ writeCount - readSeenByWrite < Depth
  /\ push # None

\* Mutants: delivery from an empty ring; the last payload is held back.
DeliveredFromEmpty(live, pop) == live /\ pop /\ readCount <= writeSeenByRead
DeliveredButLast(live, pop) == live /\ pop /\ readCount + 1 < writeSeenByRead
Delivered(live, pop) == live /\ pop /\ readCount < writeSeenByRead

\* The source edge: store and publish an accepted payload, shift the view.
SourceEdge(live, push) ==
  /\ IF Accepted(live, push)
     THEN /\ storage' = [storage EXCEPT ![Slot(writeCount)] = push]
          /\ writeCount' = writeCount + 1
          /\ sent' = Append(sent, push)
     ELSE UNCHANGED <<storage, writeCount, sent>>
  /\ IF live
     THEN /\ readSeenByWrite' = readStage0
          /\ readStage0' \in Samples(readStage0, readCount)
     ELSE UNCHANGED <<readSeenByWrite, readStage0>>

\* The sink edge: free the slot of a delivered payload, shift the view.
SinkEdge(live, pop) ==
  /\ IF Delivered(live, pop)
     THEN /\ readCount' = readCount + 1
          /\ received' = Append(received, storage[Slot(readCount)])
     ELSE UNCHANGED <<readCount, received>>
  /\ IF live
     THEN /\ writeSeenByRead' = writeStage0
          /\ writeStage0' \in Samples(writeStage0, writeCount)
     ELSE UNCHANGED <<writeSeenByRead, writeStage0>>

\* ReleaseSchedule: each side is released at an event of its own choosing and
\* stays released.
Release ==
  /\ sourceReleased' \in {sourceReleased, TRUE}
  /\ sinkReleased' \in {sinkReleased, TRUE}

\* AsyncFifo.step on one request.
Step(sourceTick, sinkTick, push, pop) ==
  /\ Release
  /\ SourceEdge(sourceReleased' /\ sourceTick, push)
  /\ SinkEdge(sinkReleased' /\ sinkTick, pop)

Init ==
  /\ \E zero \in Payloads : storage = [s \in Slots |-> zero]
  /\ writeCount = 0 /\ readCount = 0
  /\ readStage0 = 0 /\ readSeenByWrite = 0
  /\ writeStage0 = 0 /\ writeSeenByRead = 0
  /\ sourceReleased = FALSE /\ sinkReleased = FALSE
  /\ sent = << >> /\ received = << >>

Pushes == IF writeCount < MaxCount THEN Payloads \union {None} ELSE {None}

Next ==
  \E sourceTick, sinkTick, pop \in BOOLEAN : \E push \in Pushes :
    Step(sourceTick, sinkTick, push, pop)

Spec == Init /\ [][Next]_vars

(***************************************************************************)
(* Fairness.  The release certificate of a realized System names these     *)
(* premises (SystemRealize.lean: sourceEventuallyObservesSink,             *)
(* sinkEventuallyObservesSource): a released clock keeps ticking and its   *)
(* synchronizer eventually samples the current remote counter.  The sink   *)
(* application keeps popping.                                              *)
(***************************************************************************)
SourceObserves ==
  /\ Next
  /\ sourceReleased'
  /\ readSeenByWrite' = readStage0
  /\ readStage0' = readCount

SinkServes ==
  /\ \E sourceTick \in BOOLEAN, push \in Pushes :
       Step(sourceTick, TRUE, push, TRUE)
  /\ sinkReleased'
  /\ writeStage0' = writeCount

Fairness == WF_vars(SourceObserves) /\ WF_vars(SinkServes)

FairSpec == Spec /\ Fairness

-----------------------------------------------------------------------------

TypeOK ==
  /\ storage \in [Slots -> Payloads]
  /\ writeCount \in Nat /\ readCount \in Nat
  /\ readStage0 \in Nat /\ readSeenByWrite \in Nat
  /\ writeStage0 \in Nat /\ writeSeenByRead \in Nat
  /\ sourceReleased \in BOOLEAN /\ sinkReleased \in BOOLEAN
  /\ sent \in Seq(Payloads) /\ received \in Seq(Payloads)

(***************************************************************************)
(* However old the two views are, the ring is never overfilled and never   *)
(* read past what was written: each view is a past value of the remote     *)
(* counter, and the occupancy the source believes in (the larger one) is   *)
(* within the ring.                                                        *)
(***************************************************************************)
ViewsConservative ==
  /\ readSeenByWrite <= readStage0 /\ readStage0 <= readCount
  /\ readCount <= writeSeenByRead
  /\ writeSeenByRead <= writeStage0 /\ writeStage0 <= writeCount
  /\ writeCount - readSeenByWrite <= Depth

(***************************************************************************)
(* Storage invariant: the slots between the two counters hold exactly the  *)
(* accepted payloads not delivered yet, in the order of acceptance.        *)
(***************************************************************************)
RingHoldsUndelivered ==
  /\ Len(sent) = writeCount /\ Len(received) = readCount
  /\ \A k \in readCount .. writeCount - 1 : storage[Slot(k)] = sent[k + 1]
  /\ \A k \in 1 .. readCount : received[k] = sent[k]

(***************************************************************************)
(* CollisionFree (AsyncQueueStorage.lean): the storage leaf leaves the     *)
(* result of a read and a write of one slot in one event undefined, so no  *)
(* event may do both.                                                      *)
(***************************************************************************)
SlotsCollisionFree ==
  [][ (writeCount' # writeCount /\ readCount' # readCount)
        => Slot(writeCount) # Slot(readCount) ]_vars

(***************************************************************************)
(* Every accepted payload is delivered, whatever the samples returned before. *)
(* The production is bounded and the delivery in order: that each payload     *)
(* gets through is the same as that the ring runs empty for good.             *)
(***************************************************************************)
EveryPayloadDelivered == <>[](readCount = writeCount)

(***************************************************************************)
(* Refinement: the ring is the abstract queue.  The weaker policy suffices *)
(* because a push is accepted only into a slot known to be free: the FIFO  *)
(* never exchanges on a full ring.                                         *)
(***************************************************************************)
AbstractQueue == [i \in 1 .. writeCount - readCount |-> storage[Slot(readCount + i - 1)]]

Queue == INSTANCE Chan WITH
           queue <- AbstractQueue, Exchange <- FALSE, MaxSent <- MaxCount

ImplementsChan == Queue!Spec
=============================================================================

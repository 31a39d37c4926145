-------------------------------- MODULE Chan --------------------------------
(***************************************************************************)
(* The executable abstract queue of Loom/Hw/Chan.lean: what every channel  *)
(* realization (single-clock adapter, asynchronous FIFO, toggle channel)   *)
(* promises.  One atomic event may push a payload and pop the head at the  *)
(* same time; both decisions read the queue before the event.              *)
(*                                                                         *)
(* sent and received are the ledger of runTrace: the payloads accepted and *)
(* delivered so far, in order.                                             *)
(***************************************************************************)
EXTENDS Naturals, Sequences

CONSTANTS
  Payloads,   \* the words a channel of this width can carry
  None,       \* "no push in this event"
  Depth,      \* declared capacity
  Exchange,   \* FullCoTickPolicy: TRUE is .exchange, FALSE is .refusePush
  MaxSent     \* bound on the ledger

VARIABLES queue, sent, received

vars == <<queue, sent, received>>

PopAccepted(pop) == pop /\ queue # << >>

\* Mutant: a push that ignores the declared capacity.
PushAcceptedUnbounded(push, pop) == push # None

\* A full queue accepts a push only under .exchange, and only in an event
\* that also pops.
PushAccepted(push, pop) ==
  /\ push # None
  /\ Len(queue) < Depth \/ (Exchange /\ PopAccepted(pop))

\* Chan.step together with the ledger entries it makes.
Step(push, pop) ==
  LET afterPop == IF PopAccepted(pop) THEN Tail(queue) ELSE queue
  IN /\ received' = IF PopAccepted(pop) THEN Append(received, Head(queue))
                                        ELSE received
     /\ queue' = IF PushAccepted(push, pop) THEN Append(afterPop, push)
                                            ELSE afterPop
     /\ sent' = IF PushAccepted(push, pop) THEN Append(sent, push) ELSE sent

Init == queue = << >> /\ sent = << >> /\ received = << >>

Next ==
  \E push \in Payloads \union {None}, pop \in BOOLEAN :
    /\ push = None \/ Len(sent) < MaxSent
    /\ Step(push, pop)

Spec == Init /\ [][Next]_vars

-----------------------------------------------------------------------------

(***************************************************************************)
(* runTrace_conservation: nothing is lost, duplicated, corrupted or        *)
(* reordered, and the declared capacity is never exceeded, also in the     *)
(* event that pops and pushes a full queue.                                *)
(***************************************************************************)
Conservation ==
  /\ sent = received \o queue
  /\ Len(queue) <= Depth
=============================================================================

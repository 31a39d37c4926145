----------------------------- MODULE LinksProofs -----------------------------
(***************************************************************************)
(* Proofs about the links of MCLinks, for queues and rings of any depth and *)
(* any payloads: whatever its synchronizers sample, the asynchronous ring    *)
(* holds the undelivered payloads in order and implements the abstract       *)
(* queue, the abstract queue keeps its ledger, the mailbox is such a         *)
(* queue, the recovery handshake quiets both ends while they disagree, and   *)
(* the arbiter answers every request once and keeps conditional stores        *)
(* atomic.  A step of the links is a step or a stutter of each of them.      *)
(***************************************************************************)
EXTENDS MCLinks, SequenceTheorems, TLAPS

(***************************************************************************)
(* The ring of AsyncFifo.                                                  *)
(***************************************************************************)

\* Quotient and remainder.
LEMMA DivMod ==
  ASSUME NEW a \in Nat, NEW d \in Nat \ {0}
  PROVE  a = d * (a \div d) + (a % d) /\ a % d \in 0 .. d - 1 /\ a \div d \in Nat
OBVIOUS

\* Multiples of d are at least d apart.
LEMMA MultiplesApart ==
  ASSUME NEW d \in Nat \ {0}, NEW p \in Int, NEW q \in Int, p < q
  PROVE  d * q >= d * p + d
OBVIOUS

\* Two counts less than one circumference apart have different slots
\* (mod_ne_of_ordered_distance).
LEMMA SlotsDistinct ==
  ASSUME NEW a \in Nat, NEW b \in Nat, a < b, b - a < Depth
  PROVE  Slot(a) # Slot(b)
<1> SUFFICES ASSUME Slot(a) = Slot(b) PROVE FALSE
  OBVIOUS
<1> DEFINE p == a \div Depth
           q == b \div Depth
           m == a % Depth
<1>1. /\ Depth \in Nat \ {0} /\ p \in Nat /\ q \in Nat /\ m \in Nat
      /\ a = Depth * p + m /\ b = Depth * q + m
  <2>1. Depth \in Nat \ {0}
    BY DepthAssumption
  <2>2. a = Depth * p + m /\ m \in 0 .. Depth - 1 /\ p \in Nat
    BY <2>1, DivMod
  <2>3. b = Depth * q + (b % Depth) /\ q \in Nat
    BY <2>1, DivMod
  <2>4. b % Depth = m
    BY DEF Slot
  <2> QED BY <2>1, <2>2, <2>3, <2>4
<1> HIDE DEF p, q, m
<1> DEFINE dp == Depth * p
           dq == Depth * q
<1>2. dp \in Int /\ dq \in Int /\ a = dp + m /\ b = dq + m
  BY <1>1
<1>3. p < q => dq >= dp + Depth
  BY <1>1, MultiplesApart
<1>4. q < p => dp >= dq + Depth
  BY <1>1, MultiplesApart
<1>5. p = q => dp = dq
  OBVIOUS
<1> HIDE DEF dp, dq
<1> QED BY <1>1, <1>2, <1>3, <1>4, <1>5

\* A slot is a slot of the ring.
LEMMA SlotInRing == ASSUME NEW a \in Nat PROVE Slot(a) \in Slots
BY DepthAssumption, DivMod DEF Slot, Slots

-----------------------------------------------------------------------------

\* What one event offers to the two sides.
LEMMA NextCases ==
  ASSUME Next
  PROVE  \E sl, kl, pop \in BOOLEAN, push \in Payloads \union {None} :
           /\ SourceEdge(sl, push) /\ SinkEdge(kl, pop)
           /\ push # None => writeCount < MaxCount
           /\ sourceReleased' \in {sourceReleased, TRUE}
           /\ sinkReleased' \in {sinkReleased, TRUE}
<1>1. PICK sourceTick \in BOOLEAN, sinkTick \in BOOLEAN, pop \in BOOLEAN, push \in Pushes :
        Step(sourceTick, sinkTick, push, pop)
  BY DEF Next
<1>2. push \in Payloads \union {None} /\ (push # None => writeCount < MaxCount)
  BY DEF Pushes
<1>3. (sourceReleased' /\ sourceTick) \in BOOLEAN /\ (sinkReleased' /\ sinkTick) \in BOOLEAN
  OBVIOUS
<1>4. /\ SourceEdge(sourceReleased' /\ sourceTick, push)
      /\ SinkEdge(sinkReleased' /\ sinkTick, pop)
      /\ sourceReleased' \in {sourceReleased, TRUE}
      /\ sinkReleased' \in {sinkReleased, TRUE}
  BY <1>1 DEF Step, Release
<1> QED BY <1>2, <1>3, <1>4

\* The source edge either stores and publishes one payload or none.
LEMMA SourceEdgeEffect ==
  ASSUME TypeOK, NEW live \in BOOLEAN, NEW push \in Payloads \union {None},
         SourceEdge(live, push)
  PROVE  /\ \/ /\ writeCount - readSeenByWrite < Depth
               /\ push \in Payloads
               /\ writeCount' = writeCount + 1
               /\ storage' = [storage EXCEPT ![Slot(writeCount)] = push]
               /\ sent' = Append(sent, push)
            \/ UNCHANGED <<storage, writeCount, sent>>
         /\ \/ /\ readSeenByWrite' = readStage0
               /\ readStage0' \in readStage0 .. readCount
            \/ UNCHANGED <<readSeenByWrite, readStage0>>
BY DEF SourceEdge, Accepted, Samples

\* The sink edge either delivers the payload of the oldest slot or nothing.
LEMMA SinkEdgeEffect ==
  ASSUME TypeOK, NEW live \in BOOLEAN, NEW pop \in BOOLEAN, SinkEdge(live, pop)
  PROVE  /\ \/ /\ readCount < writeSeenByRead
               /\ readCount' = readCount + 1
               /\ received' = Append(received, storage[Slot(readCount)])
            \/ UNCHANGED <<readCount, received>>
         /\ \/ /\ writeSeenByRead' = writeStage0
               /\ writeStage0' \in writeStage0 .. writeCount
            \/ UNCHANGED <<writeSeenByRead, writeStage0>>
BY DEF SinkEdge, Delivered, Samples

\* Every value of the FIFO has its declared type (AsyncFifo.lean, State).
THEOREM TypeCorrect == Spec => []TypeOK
<1>1. Init => TypeOK
  <2> SUFFICES ASSUME Init PROVE TypeOK
    OBVIOUS
  <2>1. storage \in [Slots -> Payloads]
    BY DEF Init
  <2>2. sent \in Seq(Payloads) /\ received \in Seq(Payloads)
    BY DEF Init
  <2> QED BY <2>1, <2>2 DEF Init, TypeOK
<1>2. TypeOK /\ [Next]_vars => TypeOK'
  <2> SUFFICES ASSUME TypeOK, [Next]_vars PROVE TypeOK'
    OBVIOUS
  <2>1. CASE Next
    <3>1. PICK sl \in BOOLEAN, kl \in BOOLEAN, pop \in BOOLEAN,
               push \in Payloads \union {None} :
            /\ SourceEdge(sl, push) /\ SinkEdge(kl, pop)
            /\ sourceReleased' \in {sourceReleased, TRUE}
            /\ sinkReleased' \in {sinkReleased, TRUE}
      BY <2>1, NextCases
    <3>2. /\ storage' \in [Slots -> Payloads] /\ writeCount' \in Nat
          /\ sent' \in Seq(Payloads)
      <4>1. CASE UNCHANGED <<storage, writeCount, sent>>
        BY <4>1 DEF TypeOK
      <4>2. CASE /\ push \in Payloads
                 /\ writeCount' = writeCount + 1
                 /\ storage' = [storage EXCEPT ![Slot(writeCount)] = push]
                 /\ sent' = Append(sent, push)
        <5>1. storage' \in [Slots -> Payloads]
          BY <4>2 DEF TypeOK
        <5>2. sent' \in Seq(Payloads)
          BY <4>2 DEF TypeOK
        <5>3. writeCount' \in Nat
          BY <4>2 DEF TypeOK
        <5> QED BY <5>1, <5>2, <5>3
      <4> QED BY <3>1, <4>1, <4>2, SourceEdgeEffect
    <3>3. readSeenByWrite' \in Nat /\ readStage0' \in Nat
      BY <3>1, SourceEdgeEffect DEF TypeOK
    <3>4. readCount' \in Nat /\ received' \in Seq(Payloads)
      <4>1. CASE UNCHANGED <<readCount, received>>
        BY <4>1 DEF TypeOK
      <4>2. CASE /\ readCount' = readCount + 1
                 /\ received' = Append(received, storage[Slot(readCount)])
        <5>1. Slot(readCount) \in Slots
          BY SlotInRing DEF TypeOK
        <5> QED BY <4>2, <5>1 DEF TypeOK
      <4> QED BY <3>1, <4>1, <4>2, SinkEdgeEffect
    <3>5. writeSeenByRead' \in Nat /\ writeStage0' \in Nat
      BY <3>1, SinkEdgeEffect DEF TypeOK
    <3>6. sourceReleased' \in BOOLEAN /\ sinkReleased' \in BOOLEAN
      BY <3>1 DEF TypeOK
    <3> QED BY <3>2, <3>3, <3>4, <3>5, <3>6 DEF TypeOK
  <2>2. CASE UNCHANGED vars
    BY <2>2 DEF vars, counters, views, released, ledger, TypeOK
  <2> QED BY <2>1, <2>2
<1> QED BY <1>1, <1>2, PTL DEF Spec

\* However old the views are, the source never believes in more room, nor the
\* sink in more payloads, than there is (AsyncFifo.lean, Rep).
THEOREM ViewsAreConservative == Spec => []ViewsConservative
<1>1. Init => ViewsConservative
  BY DepthAssumption DEF Init, ViewsConservative
<1>2. TypeOK /\ ViewsConservative /\ [Next]_vars => ViewsConservative'
  <2> SUFFICES ASSUME TypeOK, ViewsConservative, [Next]_vars
               PROVE  ViewsConservative'
    OBVIOUS
  <2>1. CASE Next
    <3>1. PICK sl \in BOOLEAN, kl \in BOOLEAN, pop \in BOOLEAN,
               push \in Payloads \union {None} :
            SourceEdge(sl, push) /\ SinkEdge(kl, pop)
      BY <2>1, NextCases
    <3>2. /\ \/ writeCount' = writeCount /\ readCount' = readCount
             \/ writeCount' = writeCount /\ readCount' = readCount + 1
             \/ writeCount' = writeCount + 1 /\ readCount' = readCount
             \/ writeCount' = writeCount + 1 /\ readCount' = readCount + 1
          /\ writeCount' # writeCount => writeCount - readSeenByWrite < Depth
          /\ readCount' # readCount => readCount < writeSeenByRead
      BY <3>1, SourceEdgeEffect, SinkEdgeEffect
    <3>3. \/ readSeenByWrite' = readStage0 /\ readStage0' \in readStage0 .. readCount
          \/ UNCHANGED <<readSeenByWrite, readStage0>>
      BY <3>1, SourceEdgeEffect
    <3>4. \/ writeSeenByRead' = writeStage0 /\ writeStage0' \in writeStage0 .. writeCount
          \/ UNCHANGED <<writeSeenByRead, writeStage0>>
      BY <3>1, SinkEdgeEffect
    <3> QED BY <3>2, <3>3, <3>4, DepthAssumption, SMTT(30) DEF TypeOK, ViewsConservative
  <2>2. CASE UNCHANGED vars
    BY <2>2 DEF vars, counters, views, released, ledger, ViewsConservative
  <2> QED BY <2>1, <2>2
<1> QED BY <1>1, <1>2, TypeCorrect, PTL DEF Spec

\* The storage leaf is never asked to read and write one slot in one event
\* (AsyncQueueStorage.lean, CollisionFree).
THEOREM NoCollision == Spec => SlotsCollisionFree
<1>1. TypeOK /\ ViewsConservative /\ [Next]_vars
        => [ (writeCount' # writeCount /\ readCount' # readCount)
               => Slot(writeCount) # Slot(readCount) ]_vars
  <2> SUFFICES ASSUME TypeOK, ViewsConservative, Next,
                      writeCount' # writeCount, readCount' # readCount
               PROVE  Slot(writeCount) # Slot(readCount)
    OBVIOUS
  <2>1. PICK sl \in BOOLEAN, kl \in BOOLEAN, pop \in BOOLEAN,
             push \in Payloads \union {None} :
          SourceEdge(sl, push) /\ SinkEdge(kl, pop)
    BY NextCases
  <2>2. writeCount - readSeenByWrite < Depth /\ readCount < writeSeenByRead
    BY <2>1, SourceEdgeEffect, SinkEdgeEffect
  <2>3. readCount < writeCount /\ writeCount - readCount < Depth
    BY <2>2, DepthAssumption DEF TypeOK, ViewsConservative
  <2> QED BY <2>3, SlotsDistinct DEF TypeOK
<1> QED BY <1>1, TypeCorrect, ViewsAreConservative, PTL DEF Spec, SlotsCollisionFree

-----------------------------------------------------------------------------

\* What Append leaves and adds.
LEMMA AppendFacts ==
  ASSUME NEW S, NEW q \in Seq(S), NEW e \in S
  PROVE  /\ Append(q, e) \in Seq(S)
         /\ Len(Append(q, e)) = Len(q) + 1
         /\ Append(q, e)[Len(q) + 1] = e
         /\ \A k \in 1 .. Len(q) : Append(q, e)[k] = q[k]
OBVIOUS

\* A step writes at most the slot of writeCount, which no undelivered payload
\* occupies, and delivers at most the oldest payload.
LEMMA StepKeepsRing ==
  ASSUME TypeOK, ViewsConservative, RingHoldsUndelivered, Next
  PROVE  RingHoldsUndelivered'
<1>1. PICK sl \in BOOLEAN, kl \in BOOLEAN, pop \in BOOLEAN,
           push \in Payloads \union {None} :
        SourceEdge(sl, push) /\ SinkEdge(kl, pop)
  BY NextCases
<1>2. /\ writeCount \in Nat /\ readCount \in Nat /\ readCount <= writeCount
      /\ writeSeenByRead <= writeCount
      /\ sent \in Seq(Payloads) /\ Len(sent) = writeCount
      /\ received \in Seq(Payloads) /\ Len(received) = readCount
  BY DEF TypeOK, ViewsConservative, RingHoldsUndelivered
<1>3. /\ Len(sent') = writeCount'
      /\ writeCount' \in {writeCount, writeCount + 1}
      /\ \A k \in 1 .. writeCount : sent'[k] = sent[k]
      /\ \A k \in readCount .. writeCount - 1 : storage'[Slot(k)] = storage[Slot(k)]
      /\ writeCount' = writeCount + 1 =>
           storage'[Slot(writeCount)] = sent'[writeCount + 1]
  <2>1. CASE UNCHANGED <<storage, writeCount, sent>>
    BY <1>2, <2>1
  <2>2. CASE /\ writeCount - readSeenByWrite < Depth
             /\ push \in Payloads
             /\ writeCount' = writeCount + 1
             /\ storage' = [storage EXCEPT ![Slot(writeCount)] = push]
             /\ sent' = Append(sent, push)
    <3>1. /\ Len(sent') = writeCount'
          /\ sent'[writeCount + 1] = push
          /\ \A k \in 1 .. writeCount : sent'[k] = sent[k]
      BY <1>2, <2>2, AppendFacts
    <3>2. storage \in [Slots -> Payloads] /\ Slot(writeCount) \in Slots
      BY <1>2, SlotInRing DEF TypeOK
    <3>3. storage'[Slot(writeCount)] = push
      BY <2>2, <3>2
    <3>4. ASSUME NEW k \in readCount .. writeCount - 1
          PROVE  storage'[Slot(k)] = storage[Slot(k)]
      <4>1. k \in Nat /\ k < writeCount /\ writeCount - k < Depth
        BY <1>2, <2>2, DepthAssumption DEF TypeOK, ViewsConservative
      <4>2. Slot(k) # Slot(writeCount)
        BY <1>2, <4>1, SlotsDistinct
      <4>3. Slot(k) \in Slots
        BY <4>1, SlotInRing
      <4> QED BY <2>2, <3>2, <4>2, <4>3
    <3> QED BY <2>2, <3>1, <3>3, <3>4
  <2> QED BY <1>1, <2>1, <2>2, SourceEdgeEffect
<1>4. /\ Len(received') = readCount'
      /\ readCount' \in {readCount, readCount + 1}
      /\ readCount' <= writeCount
      /\ \A k \in 1 .. readCount' : received'[k] = sent[k]
  <2>1. CASE UNCHANGED <<readCount, received>>
    BY <1>2, <2>1 DEF RingHoldsUndelivered
  <2>2. CASE /\ readCount < writeSeenByRead
             /\ readCount' = readCount + 1
             /\ received' = Append(received, storage[Slot(readCount)])
    <3>1. storage[Slot(readCount)] \in Payloads
      BY <1>2, SlotInRing DEF TypeOK
    <3>2. readCount < writeCount
      BY <1>2, <2>2 DEF TypeOK
    <3>3. storage[Slot(readCount)] = sent[readCount + 1]
      BY <1>2, <3>2 DEF RingHoldsUndelivered
    <3>4. /\ Len(received') = readCount + 1
          /\ received'[readCount + 1] = storage[Slot(readCount)]
          /\ \A k \in 1 .. readCount : received'[k] = received[k]
      BY <1>2, <2>2, <3>1, AppendFacts
    <3>5. \A k \in 1 .. readCount : received[k] = sent[k]
      BY DEF RingHoldsUndelivered
    <3>6. ASSUME NEW k \in 1 .. readCount' PROVE received'[k] = sent[k]
      <4>1. k = readCount + 1 \/ k \in 1 .. readCount
        BY <1>2, <2>2
      <4> QED BY <3>3, <3>4, <3>5, <4>1
    <3> QED BY <1>2, <2>2, <3>2, <3>4, <3>6
  <2> QED BY <1>1, <2>1, <2>2, SinkEdgeEffect
<1>5. ASSUME NEW k \in readCount' .. writeCount' - 1
      PROVE  storage'[Slot(k)] = sent'[k + 1]
  <2>0. writeCount' = writeCount \/ writeCount' = writeCount + 1
    BY <1>3
  <2>1. CASE k = writeCount
    <3>1. writeCount' = writeCount + 1
      BY <1>2, <2>0, <2>1
    <3> QED BY <1>3, <2>1, <3>1
  <2>2. CASE k # writeCount
    <3>1. k \in readCount .. writeCount - 1 /\ k + 1 \in 1 .. writeCount
      <4>1. readCount' = readCount \/ readCount' = readCount + 1
        BY <1>4
      <4> QED BY <1>2, <2>0, <2>2, <4>1
    <3>2. storage[Slot(k)] = sent[k + 1]
      BY <3>1 DEF RingHoldsUndelivered
    <3> QED BY <1>3, <3>1, <3>2
  <2> QED BY <2>1, <2>2
<1>6. ASSUME NEW k \in 1 .. readCount'
      PROVE  received'[k] = sent'[k]
  BY <1>2, <1>3, <1>4, <1>6
<1> QED BY <1>3, <1>4, <1>5, <1>6 DEF RingHoldsUndelivered

\* Nothing is lost, reordered or corrupted between acceptance and delivery.
THEOREM RingIsFaithful == Spec => []RingHoldsUndelivered
<1>1. Init => RingHoldsUndelivered
  BY DEF Init, RingHoldsUndelivered
<1>2. TypeOK /\ ViewsConservative /\ RingHoldsUndelivered /\ [Next]_vars
        => RingHoldsUndelivered'
  <2>1. ASSUME RingHoldsUndelivered, UNCHANGED vars PROVE RingHoldsUndelivered'
    BY <2>1 DEF vars, counters, views, released, ledger, RingHoldsUndelivered
  <2> QED BY <2>1, StepKeepsRing
<1> QED BY <1>1, <1>2, TypeCorrect, ViewsAreConservative, PTL DEF Spec
-----------------------------------------------------------------------------

\* What Tail leaves.
LEMMA TailFacts ==
  ASSUME NEW S, NEW q \in Seq(S), Len(q) > 0
  PROVE  /\ Tail(q) \in Seq(S)
         /\ Len(Tail(q)) = Len(q) - 1
         /\ Head(q) = q[1]
         /\ q # << >>
         /\ \A k \in 1 .. Len(q) - 1 : Tail(q)[k] = q[k + 1]
OBVIOUS

\* Two sequences with the same length and the same elements are equal.
LEMMA SameSequence ==
  ASSUME NEW S, NEW s \in Seq(S), NEW t \in Seq(S), Len(s) = Len(t),
         \A k \in 1 .. Len(s) : s[k] = t[k]
  PROVE  s = t
OBVIOUS

\* The positions before the last one.
LEMMA EarlierPosition ==
  ASSUME NEW n \in Nat, NEW b \in Nat, b <= n,
         NEW k \in 1 .. n + 1 - b, k # n - b + 1
  PROVE  k \in 1 .. n - b /\ b + k \in 1 .. n
OBVIOUS

\* A sequence that holds s from position b + 1 on still does when both grow by
\* the same element.
LEMMA TailGrows ==
  ASSUME NEW S, NEW e \in S, NEW s \in Seq(S), NEW a \in Seq(S), NEW t \in Seq(S),
         NEW n \in Nat, NEW b \in Nat, b <= n, Len(s) = n,
         Len(a) = n - b, Len(t) = n + 1 - b
  PROVE  /\ \A k \in 1 .. n - b : a[k] = s[b + k]
         /\ \A k \in 1 .. n + 1 - b : t[k] = Append(s, e)[b + k]
         => t = Append(a, e)
<1> SUFFICES ASSUME \A k \in 1 .. n - b : a[k] = s[b + k],
                    \A k \in 1 .. n + 1 - b : t[k] = Append(s, e)[b + k]
             PROVE  t = Append(a, e)
  OBVIOUS
<1> DEFINE ae == Append(a, e)
           se == Append(s, e)
<1>1. /\ ae \in Seq(S) /\ Len(ae) = n + 1 - b
      /\ ae[n - b + 1] = e
      /\ \A k \in 1 .. n - b : ae[k] = a[k]
  BY AppendFacts
<1>2. /\ se[n + 1] = e
      /\ \A k \in 1 .. n : se[k] = s[k]
  BY AppendFacts
<1>3. ASSUME NEW k \in 1 .. n + 1 - b PROVE t[k] = ae[k]
  <2>0. t[k] = se[b + k]
    OBVIOUS
  <2> HIDE DEF ae, se
  <2>1. CASE k = n - b + 1
    <3>1. b + k = n + 1
      BY <2>1
    <3> QED BY <1>1, <1>2, <2>0, <2>1, <3>1
  <2>2. CASE k # n - b + 1
    <3>1. k \in 1 .. n - b /\ b + k \in 1 .. n
      BY <2>2, EarlierPosition
    <3>2. a[k] = s[b + k]
      BY <3>1
    <3> QED BY <1>1, <1>2, <2>0, <3>1, <3>2
  <2> QED BY <2>1, <2>2
<1> HIDE DEF ae
<1>4. t = ae
  BY <1>1, <1>3, SameSequence
<1> QED BY <1>4 DEF ae

QueueIsLedgerTail ==
  /\ AbstractQueue \in Seq(Payloads)
  /\ Len(AbstractQueue) = writeCount - readCount
  /\ \A k \in 1 .. writeCount - readCount :
       AbstractQueue[k] = sent[readCount + k]

\* The abstract queue is the part of the ledger not delivered yet.
LEMMA QueueIsUndelivered ==
  TypeOK /\ ViewsConservative /\ RingHoldsUndelivered => QueueIsLedgerTail
<1> SUFFICES ASSUME TypeOK, ViewsConservative, RingHoldsUndelivered
             PROVE  QueueIsLedgerTail
  OBVIOUS
<1>1. writeCount \in Nat /\ readCount \in Nat /\ writeCount - readCount \in Nat
  BY DEF TypeOK, ViewsConservative
<1>2. ASSUME NEW k \in 1 .. writeCount - readCount
      PROVE  /\ storage[Slot(readCount + k - 1)] \in Payloads
             /\ storage[Slot(readCount + k - 1)] = sent[readCount + k]
  <2>1. /\ readCount + k - 1 \in Nat
        /\ readCount + k - 1 \in readCount .. writeCount - 1
        /\ (readCount + k - 1) + 1 = readCount + k
    BY <1>1
  <2>2. Slot(readCount + k - 1) \in Slots
    BY <2>1, SlotInRing
  <2>3. storage[Slot(readCount + k - 1)] = sent[(readCount + k - 1) + 1]
    BY <2>1 DEF RingHoldsUndelivered
  <2> QED BY <2>1, <2>2, <2>3 DEF TypeOK
<1> QED BY <1>1, <1>2, SMTT(30) DEF AbstractQueue, QueueIsLedgerTail

\* One event of the ring is one event of the abstract queue: pop when the sink
\* delivers, push what the source accepts.
LEMMA StepRefines ==
  ASSUME TypeOK, TypeOK', ViewsConservative, ViewsConservative',
         RingHoldsUndelivered, RingHoldsUndelivered', Next
  PROVE  Queue!Next
<1>1. PICK sl \in BOOLEAN, kl \in BOOLEAN, pop \in BOOLEAN,
           push \in Payloads \union {None} :
        /\ SourceEdge(sl, push) /\ SinkEdge(kl, pop)
        /\ push # None => writeCount < MaxCount
  BY NextCases
<1> DEFINE q == AbstractQueue
           r == readCount' # readCount
           w == writeCount' # writeCount
           p == IF w THEN push ELSE None
           afterPop == IF r THEN Tail(q) ELSE q
<1>2. /\ writeCount \in Nat /\ readCount \in Nat /\ writeCount - readCount \in Nat
      /\ writeCount' \in Nat /\ readCount' \in Nat /\ Len(sent) = writeCount
      /\ sent \in Seq(Payloads)
  BY DEF TypeOK, ViewsConservative, RingHoldsUndelivered
<1>3. /\ q \in Seq(Payloads) /\ Len(q) = writeCount - readCount
      /\ \A k \in 1 .. writeCount - readCount : q[k] = sent[readCount + k]
  BY QueueIsUndelivered DEF QueueIsLedgerTail
<1>4. /\ q' \in Seq(Payloads) /\ Len(q') = writeCount' - readCount'
      /\ \A k \in 1 .. writeCount' - readCount' : q'[k] = sent'[readCount' + k]
  <2>1. QueueIsLedgerTail'
    BY QueueIsUndelivered, PTL
  <2> QED BY <2>1 DEF QueueIsLedgerTail
<1>5. /\ w => /\ writeCount - readCount < Depth /\ push \in Payloads
              /\ writeCount' = writeCount + 1 /\ sent' = Append(sent, push)
      /\ ~w => writeCount' = writeCount /\ sent' = sent
  <2>1. readSeenByWrite <= readCount /\ Depth \in Nat
    BY DepthAssumption DEF TypeOK, ViewsConservative
  <2> QED BY <1>1, <1>2, <2>1, SourceEdgeEffect DEF TypeOK
<1>6. /\ r => /\ readCount < writeCount /\ readCount' = readCount + 1
              /\ received' = Append(received, storage[Slot(readCount)])
      /\ ~r => readCount' = readCount /\ received' = received
  BY <1>1, <1>2, SinkEdgeEffect, SMTT(30) DEF TypeOK, ViewsConservative
<1>7. r => /\ q # << >>
           /\ Head(q) = storage[Slot(readCount)]
  <2> SUFFICES ASSUME r PROVE q # << >> /\ Head(q) = storage[Slot(readCount)]
    OBVIOUS
  <2>1. q # << >> /\ Head(q) = q[1] /\ 1 \in 1 .. writeCount - readCount
    BY <1>2, <1>3, <1>6, TailFacts
  <2>2. q[1] = storage[Slot(readCount + 1 - 1)] /\ readCount + 1 - 1 = readCount
    BY <1>2, <2>1 DEF AbstractQueue
  <2> QED BY <2>1, <2>2
<1>8. /\ afterPop \in Seq(Payloads)
      /\ Len(afterPop) = writeCount - readCount'
      /\ \A k \in 1 .. writeCount - readCount' : afterPop[k] = sent[readCount' + k]
  <2>1. CASE r
    <3>1. /\ Tail(q) \in Seq(Payloads) /\ Len(Tail(q)) = Len(q) - 1
          /\ \A k \in 1 .. Len(q) - 1 : Tail(q)[k] = q[k + 1]
      BY <1>2, <1>3, <1>6, <2>1, TailFacts
    <3>2. ASSUME NEW k \in 1 .. writeCount - readCount'
          PROVE  Tail(q)[k] = sent[readCount' + k]
      <4>1. /\ k \in 1 .. Len(q) - 1 /\ k + 1 \in 1 .. writeCount - readCount
            /\ readCount + (k + 1) = readCount' + k
        BY <1>2, <1>3, <1>6, <2>1
      <4> QED BY <1>3, <3>1, <4>1
    <3> QED BY <1>2, <1>3, <1>6, <2>1, <3>1, <3>2
  <2>2. CASE ~r
    BY <1>3, <1>6, <2>2
  <2> QED BY <2>1, <2>2
<1>9. q' = IF w THEN Append(afterPop, push) ELSE afterPop
  <2>1. PICK old \in Seq(Payloads) :
          /\ old = afterPop /\ Len(old) = writeCount - readCount'
          /\ \A k \in 1 .. writeCount - readCount' : old[k] = sent[readCount' + k]
    BY <1>8
  <2>2. PICK new \in Seq(Payloads) :
          /\ new = q' /\ Len(new) = writeCount' - readCount'
          /\ \A k \in 1 .. writeCount' - readCount' : new[k] = sent'[readCount' + k]
    BY <1>4
  <2>3. readCount' <= writeCount
    BY <1>2, <1>6
  <2> HIDE DEF q, afterPop
  <2>4. CASE w
    <3>1. push \in Payloads /\ writeCount' = writeCount + 1
      BY <1>5, <2>4
    <3>2. /\ Len(new) = writeCount + 1 - readCount'
          /\ \A k \in 1 .. writeCount + 1 - readCount' :
               new[k] = Append(sent, push)[readCount' + k]
      <4>1. writeCount' - readCount' = writeCount + 1 - readCount'
        BY <1>2, <3>1
      <4>2. sent' = Append(sent, push)
        BY <1>5, <2>4
      <4> QED BY <2>2, <4>1, <4>2, Zenon
    <3>3. writeCount \in Nat /\ readCount' \in Nat /\ Len(sent) = writeCount
          /\ sent \in Seq(Payloads)
      BY <1>2
    <3>4. new = Append(old, push)
      BY <2>1, <2>3, <3>1, <3>2, <3>3, TailGrows, ZenonT(30)
    <3> QED BY <2>1, <2>2, <2>4, <3>4
  <2>5. CASE ~w
    <3>1. new = old
      BY <1>5, <2>1, <2>2, <2>5, SameSequence
    <3> QED BY <2>1, <2>2, <2>5, <3>1
  <2> QED BY <2>4, <2>5
<1>10. p \in Payloads \union {None} /\ r \in BOOLEAN
  OBVIOUS
<1>11. p = None \/ Len(sent) < MaxCount
  BY <1>1, <1>2, <1>5
<1>12. Queue!Step(p, r)
  <2>1. Queue!PopAccepted(r) <=> r
    BY <1>7 DEF Queue!PopAccepted
  <2>2. p # None <=> w
    BY <1>5, PayloadsAssumption
  <2>3. Queue!PushAccepted(p, r) <=> w
    <3>1. w => Len(q) < Depth
      BY <1>3, <1>5
    <3> QED BY <2>2, <3>1 DEF Queue!PushAccepted
  <2>4. received' = IF r THEN Append(received, Head(q)) ELSE received
    BY <1>6, <1>7
  <2>5. sent' = IF w THEN Append(sent, p) ELSE sent
    BY <1>5
  <2>6. q' = IF w THEN Append(afterPop, p) ELSE afterPop
    BY <1>9
  <2> QED BY <2>1, <2>3, <2>4, <2>5, <2>6 DEF Queue!Step
<1> HIDE DEF p, r
<1> QED BY <1>10, <1>11, <1>12 DEF Queue!Next

\* The ring under two clocks and arbitrary sampling implements the abstract
\* queue (AsyncFifo.lean, step refines Chan.step through Rep).
THEOREM RefinesChan == Spec => ImplementsChan
<1>1. Init => Queue!Init
  BY DEF Init, Queue!Init, AbstractQueue
<1>2. ASSUME TypeOK, TypeOK', ViewsConservative, ViewsConservative',
             RingHoldsUndelivered, RingHoldsUndelivered', [Next]_vars
      PROVE  [Queue!Next]_(Queue!vars)
  <2>1. CASE Next
    BY <1>2, <2>1, StepRefines
  <2>2. CASE UNCHANGED vars
    BY <2>2 DEF vars, counters, views, released, ledger, Queue!vars, AbstractQueue
  <2> QED BY <1>2, <2>1, <2>2
<1> QED BY <1>1, <1>2, TypeCorrect, ViewsAreConservative, RingIsFaithful, PTL
        DEF Spec, ImplementsChan, Queue!Spec

-----------------------------------------------------------------------------
(***************************************************************************)
(* The links together.                                                     *)
(***************************************************************************)

\* A step of the links moves at most one of them.
LEMMA StepOfEach ==
  [LinksNext]_linksVars =>
    /\ [C!Next]_(C!vars)
    /\ [T!Next]_(T!vars)
    /\ [R!Next]_(R!vars)
    /\ [A!Next]_(A!vars)
<1> SUFFICES ASSUME [LinksNext]_linksVars
             PROVE  /\ [C!Next]_(C!vars) /\ [T!Next]_(T!vars)
                    /\ [R!Next]_(R!vars) /\ [A!Next]_(A!vars)
  OBVIOUS
<1>1. UNCHANGED ofQueue => UNCHANGED C!vars
  BY DEF ofQueue, C!vars
<1>2. UNCHANGED ofToggle => UNCHANGED T!vars
  BY DEF ofToggle, T!vars, T!phases
<1>3. UNCHANGED ofRecovery => UNCHANGED R!vars
  BY DEF ofRecovery, R!vars
<1>4. UNCHANGED ofArbiter => UNCHANGED A!vars
  BY DEF ofArbiter, A!vars, A!arbiter, A!cores
<1> QED
  BY <1>1, <1>2, <1>3, <1>4
     DEF LinksNext, linksVars, RingStep, QueueStep, ToggleStep, RecoveryStep, ArbiterStep,
         OfRing, OfQueue, OfToggle, OfRecovery, OfArbiter

-----------------------------------------------------------------------------
(***************************************************************************)
(* The abstract queue.                                                     *)
(***************************************************************************)

\* A word moves from the head of one sequence to the end of another.
LEMMA HeadToEnd ==
  ASSUME NEW S, NEW front \in Seq(S), NEW back \in Seq(S), back # << >>
  PROVE  /\ Append(front, Head(back)) \in Seq(S) /\ Tail(back) \in Seq(S)
         /\ Len(Tail(back)) = Len(back) - 1
         /\ Append(front, Head(back)) \o Tail(back) = front \o back
<1>1. /\ Head(back) \in S /\ Tail(back) \in Seq(S) /\ Len(Tail(back)) = Len(back) - 1
      /\ Len(back) \in Nat \ {0} /\ Len(front) \in Nat
      /\ Head(back) = back[1]
      /\ \A i \in 1..Len(Tail(back)) : Tail(back)[i] = back[i + 1]
  BY HeadTailProperties, EmptySeq, LenProperties
<1> DEFINE moved == Append(front, Head(back))
<1>2. /\ moved \in Seq(S) /\ Len(moved) = Len(front) + 1
      /\ \A i \in 1..Len(front) : moved[i] = front[i]
      /\ moved[Len(front) + 1] = back[1]
  <2>1. \A word \in S :
          /\ Append(front, word) \in Seq(S) /\ Len(Append(front, word)) = Len(front) + 1
          /\ \A i \in 1..Len(front) : Append(front, word)[i] = front[i]
          /\ Append(front, word)[Len(front) + 1] = word
    BY AppendProperties
  <2>2. PICK word \in S : word = Head(back)
    BY <1>1
  <2>3. moved = Append(front, word) /\ word = back[1]
    BY <1>1, <2>2
  <2> HIDE DEF moved
  <2> QED BY <2>1, <2>3
<1> HIDE DEF moved
<1>3. /\ moved \o Tail(back) \in Seq(S) /\ front \o back \in Seq(S)
      /\ Len(moved \o Tail(back)) = Len(front) + Len(back)
      /\ Len(front \o back) = Len(front) + Len(back)
  <2>1. front \o back \in Seq(S) /\ Len(front \o back) = Len(front) + Len(back)
    BY ConcatProperties
  <2>2. /\ moved \o Tail(back) \in Seq(S)
        /\ Len(moved \o Tail(back)) = Len(moved) + Len(Tail(back))
    BY <1>1, <1>2, ConcatProperties
  <2> QED BY <1>1, <1>2, <2>1, <2>2
<1>4. ASSUME NEW i \in 1..Len(front) + Len(back)
      PROVE  (moved \o Tail(back))[i] = (front \o back)[i]
  <2>1. (front \o back)[i] = IF i <= Len(front) THEN front[i] ELSE back[i - Len(front)]
    BY ConcatProperties
  <2>2. (moved \o Tail(back))[i] =
          IF i <= Len(front) + 1 THEN moved[i] ELSE Tail(back)[i - (Len(front) + 1)]
    <3>1. i \in 1..Len(moved) + Len(Tail(back))
      BY <1>1, <1>2
    <3>2. \A n \in 1..Len(moved) + Len(Tail(back)) : (moved \o Tail(back))[n] =
            IF n <= Len(moved) THEN moved[n] ELSE Tail(back)[n - Len(moved)]
      BY <1>1, <1>2, ConcatProperties
    <3> QED BY <1>2, <3>1, <3>2
  <2>3. i > Len(front) + 1 =>
          Tail(back)[i - (Len(front) + 1)] = back[i - Len(front)]
    BY <1>1
  <2> QED BY <1>1, <1>2, <2>1, <2>2, <2>3
<1>5. moved \o Tail(back) = front \o back
  BY <1>3, <1>4, SeqEqual
<1> QED BY <1>1, <1>2, <1>5 DEF moved

\* A word joins the end of a concatenation.
LEMMA AppendToConcat ==
  ASSUME NEW S, NEW front \in Seq(S), NEW back \in Seq(S), NEW word \in S
  PROVE  /\ Append(back, word) \in Seq(S) /\ Len(Append(back, word)) = Len(back) + 1
         /\ front \o Append(back, word) = Append(front \o back, word)
<1>1. \A s \in Seq(S) : Append(s, word) = s \o <<word>>
  BY AppendIsConcat
<1>2. <<word>> \in Seq(S) /\ front \o back \in Seq(S)
  BY ConcatProperties
<1>3. front \o (back \o <<word>>) = (front \o back) \o <<word>>
  BY <1>2, ConcatAssociative
<1> QED BY <1>1, <1>2, <1>3

\* The words of the queue and of its ledger, with what the property says.
QueueInv ==
  /\ line \in Seq(Payloads) /\ offered \in Seq(Payloads) /\ served \in Seq(Payloads)
  /\ C!Conservation

\* One event keeps the ledger in order and the queue within its capacity.
LEMMA QueueStepInv == QueueInv /\ [C!Next]_(C!vars) => QueueInv'
<1> SUFFICES ASSUME QueueInv, [C!Next]_(C!vars) PROVE QueueInv'
  OBVIOUS
<1>1. CASE UNCHANGED C!vars
  BY <1>1 DEF C!vars, QueueInv, C!Conservation
<1>2. CASE C!Next
  <2>1. PICK push \in Payloads \union {None}, pop \in BOOLEAN : C!Step(push, pop)
    BY <1>2 DEF C!Next
  <2> DEFINE popped == C!PopAccepted(pop)
             pushed == C!PushAccepted(push, pop)
             rest == IF popped THEN Tail(line) ELSE line
  <2>2. /\ line \in Seq(Payloads) /\ offered \in Seq(Payloads) /\ served \in Seq(Payloads)
        /\ offered = served \o line /\ Len(line) <= QueueDepth
    BY DEF QueueInv, C!Conservation
  <2>3. /\ served' = IF popped THEN Append(served, Head(line)) ELSE served
        /\ line' = IF pushed THEN Append(rest, push) ELSE rest
        /\ offered' = IF pushed THEN Append(offered, push) ELSE offered
    BY <2>1 DEF C!Step
  <2>4. popped => line # << >>
    BY DEF C!PopAccepted
  <2>5. pushed => push \in Payloads /\ Len(rest) < QueueDepth
    <3>1. pushed => push \in Payloads /\ (Len(line) < QueueDepth \/ popped)
      BY <2>1 DEF C!PushAccepted
    <3> QED BY <2>2, <2>4, <3>1, RecoveryAssumption
  <2> HIDE DEF popped, pushed
  <2>6. /\ rest \in Seq(Payloads) /\ served' \in Seq(Payloads)
        /\ served' \o rest = offered /\ Len(rest) <= QueueDepth
    <3>1. CASE popped
      <4>1. /\ Append(served, Head(line)) \in Seq(Payloads) /\ Tail(line) \in Seq(Payloads)
            /\ Len(Tail(line)) = Len(line) - 1
            /\ Append(served, Head(line)) \o Tail(line) = served \o line
        BY <2>2, <2>4, <3>1, HeadToEnd
      <4>2. Len(line) \in Nat
        BY <2>2, LenProperties
      <4> QED BY <2>2, <2>3, <3>1, <4>1, <4>2, RecoveryAssumption, SMTT(30)
    <3>2. CASE ~popped
      BY <2>2, <2>3, <3>2
    <3> QED BY <3>1, <3>2
  <2> HIDE DEF rest
  <2>7. CASE pushed
    <3>1. /\ Append(rest, push) \in Seq(Payloads)
          /\ Len(Append(rest, push)) = Len(rest) + 1
          /\ served' \o Append(rest, push) = Append(served' \o rest, push)
      BY <2>5, <2>6, <2>7, AppendToConcat
    <3>2. line' = Append(rest, push) /\ offered' = Append(offered, push)
      BY <2>3, <2>7 DEF rest
    <3>3. Append(offered, push) \in Seq(Payloads) /\ Len(rest) \in Nat
      BY <2>2, <2>5, <2>6, <2>7, LenProperties
    <3>4. Len(Append(rest, push)) <= QueueDepth
      BY <2>5, <2>6, <2>7, <3>1, <3>3, RecoveryAssumption
    <3>5. offered' = served' \o line'
      BY <2>6, <3>1, <3>2
    <3> QED BY <2>6, <3>1, <3>2, <3>3, <3>4, <3>5 DEF QueueInv, C!Conservation
  <2>8. CASE ~pushed
    BY <2>2, <2>3, <2>6, <2>8 DEF QueueInv, C!Conservation
  <2> QED BY <2>7, <2>8
<1> QED BY <1>1, <1>2

\* Nothing is lost, duplicated or reordered in the abstract queue, nor is its
\* capacity exceeded, also in an event that pops and pushes a full queue
\* (Loom/Hw/Chan.lean runTrace_conservation).
THEOREM QueueConserves == LinksSpec => []Conservation
<1>1. LinksInit => QueueInv
  <2>1. /\ << >> \in Seq(Payloads) /\ Len(<< >>) = 0 /\ << >> \o << >> = << >>
    OBVIOUS
  <2> QED BY <2>1, RecoveryAssumption DEF LinksInit, C!Init, QueueInv, C!Conservation
<1>2. QueueInv /\ [LinksNext]_linksVars => QueueInv'
  BY StepOfEach, QueueStepInv
<1>3. QueueInv => Conservation
  BY DEF QueueInv, Conservation
<1> QED BY <1>1, <1>2, <1>3, PTL DEF LinksSpec
-----------------------------------------------------------------------------
(***************************************************************************)
(* The toggle mailbox.  The invariant adds to the toggles that a payload is   *)
(* pending only while the source is busy, and visible only while it is        *)
(* pending (Rep, lines 80-84).                                               *)
(***************************************************************************)

\* Every flag is a bit.
MailboxFlags ==
  /\ pending \in BOOLEAN /\ sourceBusy \in BOOLEAN /\ visible \in BOOLEAN
  /\ sourcePhase \in BOOLEAN /\ sinkPhase \in BOOLEAN
  /\ ackPhase \in BOOLEAN /\ sourceAckPhase \in BOOLEAN

MailboxNests == (pending => sourceBusy) /\ (visible => pending)

\* The payload in the latch and the ledgers are of the channel's words.
MailboxWords ==
  /\ payload \in Payloads
  /\ taken \in Seq(Payloads) /\ given \in Seq(Payloads)

MailboxInv == MailboxFlags /\ MailboxNests /\ T!FlagsAreToggles /\ MailboxWords

\* The reset mailbox is empty, and all its toggles agree.
LEMMA MailboxInitInv == T!Init => MailboxInv
<1> SUFFICES ASSUME T!Init PROVE MailboxInv
  OBVIOUS
<1>1. MailboxFlags /\ MailboxNests
  BY DEF T!Init, MailboxFlags, MailboxNests
<1>2. T!FlagsAreToggles
  BY Zenon DEF T!Init, T!FlagsAreToggles
<1>3. MailboxWords
  BY SMT DEF T!Init, MailboxWords
<1> QED BY <1>1, <1>2, <1>3 DEF MailboxInv

\* One event keeps the flags and the toggles in agreement.
LEMMA MailboxStepInv == MailboxInv /\ T!Next => MailboxInv'
<1> SUFFICES ASSUME MailboxInv, T!Next PROVE MailboxInv'
  OBVIOUS
<1>1. PICK sourceTick \in BOOLEAN, sinkTick \in BOOLEAN, pop \in BOOLEAN,
           publish \in BOOLEAN, acknowledge \in BOOLEAN, push \in T!Pushes :
        T!Step(sourceTick, sinkTick, push, pop, publish, acknowledge)
  BY DEF T!Next
<1> DEFINE take == T!Takes(sourceTick, push)
           give == T!Gives(sinkTick, pop)
<1>2. take \in BOOLEAN /\ give \in BOOLEAN
  BY <1>1 DEF T!Takes, T!Gives, MailboxInv, MailboxFlags
<1>3. (take => ~sourceBusy) /\ (give => visible /\ pending)
  BY DEF T!Takes, T!Gives
<1>4. T!Frees(sourceTick, acknowledge) = (sourceTick /\ acknowledge /\ ~pending)
  BY <1>1 DEF T!Frees, MailboxInv, MailboxFlags
<1>5. T!Shows(sinkTick, publish) = (sinkTick /\ publish /\ pending)
  BY <1>1 DEF T!Shows, MailboxInv, MailboxFlags
<1>6. MailboxWords'
  <2>1. take => push \in Payloads
    BY <1>1 DEF T!Takes, T!Pushes
  <2> QED BY <1>1, <2>1 DEF T!Step, MailboxInv, MailboxWords
<1>7. MailboxFlags' /\ MailboxNests' /\ T!FlagsAreToggles'
  <2> HIDE DEF take, give
  <2>1. /\ pending' = (~give /\ (pending \/ take))
        /\ sourceBusy' = (take \/ (sourceBusy /\ ~(sourceTick /\ acknowledge /\ ~pending)))
        /\ visible' = (~give /\ (visible \/ (sinkTick /\ publish /\ pending)))
        /\ sourcePhase' = (sourcePhase # take)
        /\ sinkPhase' = IF sinkTick /\ publish THEN sourcePhase ELSE sinkPhase
        /\ ackPhase' = (ackPhase # give)
        /\ sourceAckPhase' = IF sourceTick /\ acknowledge THEN ackPhase ELSE sourceAckPhase
    BY <1>1, <1>4, <1>5 DEF T!Step, take, give
  <2>2. MailboxFlags'
    BY <1>1, <1>2, <2>1 DEF MailboxInv, MailboxFlags
  <2>3. MailboxNests'
    BY <1>1, <1>2, <1>3, <2>1 DEF MailboxInv, MailboxFlags, MailboxNests
  <2>4. T!FlagsAreToggles'
    BY <1>1, <1>2, <1>3, <2>1, <2>2 DEF MailboxInv, MailboxFlags, MailboxNests, T!FlagsAreToggles
  <2> QED BY <2>2, <2>3, <2>4
<1> QED BY <1>6, <1>7 DEF MailboxInv

\* The invariant reads only the variables of the mailbox.
LEMMA MailboxStutterInv == MailboxInv /\ UNCHANGED T!vars => MailboxInv'
  BY DEF MailboxInv, MailboxFlags, MailboxNests, T!FlagsAreToggles, MailboxWords, T!vars, T!phases

\* The mailbox keeps its invariant, whichever link moves.
LEMMA MailboxInvariance == LinksSpec => []MailboxInv
<1>1. LinksInit => MailboxInv
  BY MailboxInitInv DEF LinksInit
<1>2. MailboxInv /\ [LinksNext]_linksVars => MailboxInv'
  BY StepOfEach, MailboxStepInv, MailboxStutterInv
<1> QED BY <1>1, <1>2, PTL DEF LinksSpec

\* What step reads of the other clock's flags is what the toggles on its own
\* side say, for every schedule of ticks and every delay of the synchronizers.
THEOREM FlagsFollowToggles == LinksSpec => []T!FlagsAreToggles
<1>1. MailboxInv => T!FlagsAreToggles
  BY DEF MailboxInv
<1> QED BY MailboxInvariance, <1>1, PTL

\* One event of the mailbox is one event of the queue, or none.
LEMMA MailboxStepRefines == MailboxInv /\ [T!Next]_(T!vars) => [T!Queue!Next]_(T!Queue!vars)
<1> SUFFICES ASSUME MailboxInv, [T!Next]_(T!vars) PROVE [T!Queue!Next]_(T!Queue!vars)
  OBVIOUS
<1>1. CASE UNCHANGED T!vars
  BY <1>1 DEF T!vars, T!phases, T!Queue!vars
<1>2. CASE T!Next
  <2>1. PICK sourceTick \in BOOLEAN, sinkTick \in BOOLEAN, pop \in BOOLEAN,
             publish \in BOOLEAN, acknowledge \in BOOLEAN, push \in T!Pushes :
          T!Step(sourceTick, sinkTick, push, pop, publish, acknowledge)
    BY <1>2 DEF T!Next
  <2> DEFINE take == T!Takes(sourceTick, push)
             give == T!Gives(sinkTick, pop)
  <2>2. take \in BOOLEAN /\ give \in BOOLEAN /\ pending \in BOOLEAN
    BY <2>1 DEF T!Takes, T!Gives, MailboxInv, MailboxFlags
  <2>3. (take => ~pending /\ push # None) /\ (give => pending)
    BY DEF T!Takes, T!Gives, MailboxInv, MailboxNests
  <2>4. /\ payload' = IF take THEN push ELSE payload
        /\ pending' = (~give /\ (pending \/ take))
        /\ taken' = IF take THEN Append(taken, push) ELSE taken
        /\ given' = IF give THEN Append(given, payload) ELSE given
    BY <2>1 DEF T!Step
  <2>5. push \in Payloads \union {None} /\ (push = None \/ Len(taken) < MaxSent)
    BY <2>1 DEF T!Pushes
  <2> HIDE DEF take, give
  <2>6. CASE take
    <3>1. ~pending /\ ~give /\ pending' /\ payload' = push /\ given' = given
          /\ taken' = Append(taken, push)
      BY <2>2, <2>3, <2>4, <2>6
    <3>2. ~T!Queue!PopAccepted(FALSE) /\ T!Queue!PushAccepted(push, FALSE)
      BY <2>3, <2>6, <3>1, SMT DEF T!Queue!PopAccepted, T!Queue!PushAccepted
    <3>3. Append(<< >>, push) = <<push>>
      OBVIOUS
    <3>4. T!Queue!Step(push, FALSE)
      BY <3>1, <3>2, <3>3 DEF T!Queue!Step
    <3> QED BY <2>5, <3>4 DEF T!Queue!Next
  <2>7. CASE give
    <3>1. pending /\ ~take /\ ~pending' /\ given' = Append(given, payload)
          /\ taken' = taken
      BY <2>2, <2>3, <2>4, <2>7
    <3>2. T!Queue!PopAccepted(TRUE) /\ ~T!Queue!PushAccepted(None, TRUE)
      BY <3>1 DEF T!Queue!PopAccepted, T!Queue!PushAccepted
    <3>3. Tail(<<payload>>) = << >> /\ Head(<<payload>>) = payload
      OBVIOUS
    <3>4. T!Queue!Step(None, TRUE)
      BY <3>1, <3>2, <3>3 DEF T!Queue!Step
    <3> QED BY <3>4 DEF T!Queue!Next
  <2>8. CASE ~take /\ ~give
    <3>1. payload' = payload /\ pending' = pending /\ taken' = taken /\ given' = given
      BY <2>2, <2>4, <2>8
    <3> QED BY <3>1 DEF T!Queue!vars
  <2> QED BY <2>6, <2>7, <2>8
<1> QED BY <1>1, <1>2


\* step_refines: whatever the clocks and the synchronizers do, the mailbox
\* behaves as an abstract channel of depth one.
THEOREM MailboxRefinesChan == LinksSpec => MailboxIsChannel
<1>1. LinksInit => T!Queue!Init
  BY DEF LinksInit, T!Init, T!Queue!Init
<1>2. MailboxInv /\ [LinksNext]_linksVars => [T!Queue!Next]_(T!Queue!vars)
  BY StepOfEach, MailboxStepRefines
<1> QED
  BY <1>1, <1>2, MailboxInvariance, PTL
     DEF LinksSpec, MailboxIsChannel, T!MailboxIsChannel, T!Queue!Spec
-----------------------------------------------------------------------------
(***************************************************************************)
(* The recovery handshake, while requests respect the drain (~AnyTime; the    *)
(* run RecoveryRequests shows what happens otherwise).                        *)
(***************************************************************************)

Ends ==
  [recoverInputSeen : BOOLEAN, request : BOOLEAN, peerRequest0 : BOOLEAN, peerRequest1 : BOOLEAN,
   acknowledge : BOOLEAN, peerAcknowledge0 : BOOLEAN, peerAcknowledge1 : BOOLEAN, flushed : BOOLEAN]

\* e's request travels through p and back as one front: a stage shows it only
\* if the stages before do.
Front(e, p) ==
  /\ p.peerRequest1 = e.request => p.peerRequest0 = e.request
  /\ p.acknowledge = e.request => p.peerRequest1 = e.request
  /\ e.peerAcknowledge0 = e.request => p.acknowledge = e.request
  /\ e.peerAcknowledge1 = e.request => e.peerAcknowledge0 = e.request

\* A request is held until it is acknowledged and the end flushed, and nothing
\* of it is left after the flush.
Held(e) ==
  /\ e.recoverInputSeen => e.request
  /\ e.flushed /\ e.request => e.peerAcknowledge1
  /\ e.acknowledge \/ e.peerAcknowledge1 => e.request \/ e.flushed

\* While no flush ended the handshake, p has heard e's request, or is done.
Heard(e, p, open) ==
  /\ e.request => p.peerRequest0 \/ open
  /\ e.peerRequest0 => p.flushed \/ open

\* While the halves disagree, an end asks or hears its peer ask.
Quiet(e, p, open) ==
  /\ open
  /\ e.request \/ e.peerRequest1
  /\ e.peerRequest0 \/ p.flushed

\* Both ends, and the handshake they are in.
Handshake(e, p, open, split) ==
  /\ Front(e, p) /\ Front(p, e)
  /\ Held(e) /\ Held(p)
  /\ Heard(e, p, open) /\ Heard(p, e, open)
  /\ split => Quiet(e, p, open) /\ Quiet(p, e, open)

\* A tick of either end, or of both, takes the ends to ne and np, opens or
\* closes the handshake, and may split the halves.
Moves(e, p, ne, np, eTick, pTick, eNow, pNow, open, opens, split, splits) ==
  LET closes == open /\ ne.flushed /\ np.flushed
      asks(end, tick, now) == tick /\ R!NewRequest(end, now)
      resets(end, tick) == tick /\ R!LocalFlush(end) /\ ~end.flushed
  IN /\ e \in Ends /\ p \in Ends
     /\ {eTick, pTick, eNow, pNow, open, opens, split, splits} \subseteq BOOLEAN
     /\ Handshake(e, p, open, split)
     /\ ne = R!EndpointStep(e, eTick, eNow, p) /\ np = R!EndpointStep(p, pTick, pNow, e)
     /\ (asks(e, eTick, eNow) => ~e.flushed) /\ (asks(p, pTick, pNow) => ~p.flushed)
     /\ opens = (~closes /\ (open \/ asks(e, eTick, eNow) \/ asks(p, pTick, pNow)))
     /\ splits => ~closes /\ (split \/ resets(e, eTick) \/ resets(p, pTick))

\* What the move keeps, seen from one end.
LEMMA EndKeeps ==
  ASSUME NEW e, NEW p, NEW ne, NEW np, NEW eTick, NEW pTick, NEW eNow, NEW pNow,
         NEW open, NEW opens, NEW split, NEW splits,
         Moves(e, p, ne, np, eTick, pTick, eNow, pNow, open, opens, split, splits)
  PROVE  /\ ne \in Ends
         /\ Front(ne, np) /\ Held(ne) /\ Heard(ne, np, opens)
         /\ splits => Quiet(ne, np, opens)
<1>0. /\ e \in Ends /\ p \in Ends
      /\ eTick \in BOOLEAN /\ pTick \in BOOLEAN /\ eNow \in BOOLEAN /\ pNow \in BOOLEAN
      /\ open \in BOOLEAN /\ opens \in BOOLEAN /\ split \in BOOLEAN /\ splits \in BOOLEAN
      /\ Handshake(e, p, open, split)
      /\ ne = R!EndpointStep(e, eTick, eNow, p) /\ np = R!EndpointStep(p, pTick, pNow, e)
      /\ eTick /\ R!NewRequest(e, eNow) => ~e.flushed
      /\ pTick /\ R!NewRequest(p, pNow) => ~p.flushed
      /\ open /\ ~(ne.flushed /\ np.flushed) => opens
      /\ eTick /\ R!NewRequest(e, eNow) => opens \/ (open /\ ne.flushed /\ np.flushed)
      /\ pTick /\ R!NewRequest(p, pNow) => opens \/ (open /\ ne.flushed /\ np.flushed)
      /\ splits => /\ ~(open /\ ne.flushed /\ np.flushed)
                   /\ \/ split
                      \/ eTick /\ R!LocalFlush(e) /\ ~e.flushed
                      \/ pTick /\ R!LocalFlush(p) /\ ~p.flushed
  BY DEF Moves
<1>1. /\ ne.recoverInputSeen = (IF eTick THEN eNow ELSE e.recoverInputSeen)
      /\ ne.request = (IF eTick THEN ~(e.flushed /\ ~eNow) /\ ((eNow /\ ~e.recoverInputSeen) \/ e.peerRequest1 \/ e.request) ELSE e.request)
      /\ ne.peerRequest0 = (IF eTick THEN p.request ELSE e.peerRequest0)
      /\ ne.peerRequest1 = (IF eTick THEN e.peerRequest0 ELSE e.peerRequest1)
      /\ ne.acknowledge = (IF eTick THEN e.peerRequest1 ELSE e.acknowledge)
      /\ ne.peerAcknowledge0 = (IF eTick THEN p.acknowledge ELSE e.peerAcknowledge0)
      /\ ne.peerAcknowledge1 = (IF eTick THEN e.peerAcknowledge0 ELSE e.peerAcknowledge1)
      /\ ne.flushed = (IF eTick THEN ~(~eNow /\ ~e.request /\ ~e.peerRequest1 /\ ~e.peerAcknowledge1)
                                      /\ (e.flushed \/ (e.request /\ e.peerAcknowledge1)) ELSE e.flushed)
  BY <1>0 DEF R!EndpointStep, R!Ticked, R!Requested, R!NewRequest, R!Idle, R!LocalFlush
<1>2. /\ np.peerRequest0 = (IF pTick THEN e.request ELSE p.peerRequest0)
      /\ np.peerRequest1 = (IF pTick THEN p.peerRequest0 ELSE p.peerRequest1)
      /\ np.acknowledge = (IF pTick THEN p.peerRequest1 ELSE p.acknowledge)
      /\ np.flushed = (IF pTick THEN ~(~pNow /\ ~p.request /\ ~p.peerRequest1 /\ ~p.peerAcknowledge1)
                                      /\ (p.flushed \/ (p.request /\ p.peerAcknowledge1)) ELSE p.flushed)
  BY <1>0 DEF R!EndpointStep, R!Ticked, R!Requested, R!NewRequest, R!Idle, R!LocalFlush
<1>3. ne \in Ends
  BY <1>0 DEF Ends, R!EndpointStep, R!Ticked, R!Requested, R!NewRequest, R!Idle, R!LocalFlush
<1>5. Front(ne, np)
  BY <1>0, <1>1, <1>2 DEF Ends, Handshake, Front, Held, R!NewRequest
<1>6. Held(ne)
  BY <1>0, <1>1 DEF Ends, Handshake, Front, Held, R!NewRequest
<1>7. Heard(ne, np, opens)
  BY <1>0, <1>1, <1>2 DEF Ends, Handshake, Front, Held, Heard, R!NewRequest
<1>8. splits => Quiet(ne, np, opens)
  BY <1>0, <1>1, <1>2 DEF Ends, Handshake, Front, Held, Heard, Quiet, R!NewRequest, R!LocalFlush
<1> QED BY <1>3, <1>5, <1>6, <1>7, <1>8

\* A pointer or a difference of pointers wraps at most once.
LEMMA WrapsOnce ==
  ASSUME NEW d \in Nat \ {0}, NEW a \in Nat, a < 2 * d
  PROVE  a % d = IF a < d THEN a ELSE a - d
<1>1. a = d * (a \div d) + (a % d) /\ a % d \in 0 .. d - 1 /\ a \div d \in Nat
  OBVIOUS
<1> DEFINE q == a \div d
           product == d * q
<1>2. q = 0 => product = 0
  OBVIOUS
<1>3. q = 1 => product = d
  OBVIOUS
<1>4. q >= 2 => product >= 2 * d
  BY <1>1
<1>5. product \in Int /\ q \in Nat /\ a = product + (a % d)
  BY <1>1
<1> HIDE DEF q, product
<1> QED BY <1>1, <1>2, <1>3, <1>4, <1>5

\* A half held in reset has its pointer cleared.
Cleared == (source.flushed => written = 0) /\ (sink.flushed => read = 0)

\* Where the pointers can be, and what the queue holds.
Halves ==
  /\ written \in 0..Pointers - 1 /\ read \in 0..Pointers - 1
  /\ queue \in Seq({First}) /\ Len(queue) <= QueueDepth
  /\ Cleared

RecoveryInv ==
  /\ source \in Ends /\ sink \in Ends /\ recovering \in BOOLEAN
  /\ Halves
  /\ Handshake(source, sink, recovering, ~R!Agree)

\* The next place of a pointer, and how far one pointer is ahead of another.
LEMMA NextPlace ==
  ASSUME NEW v \in 0..Pointers - 1
  PROVE  /\ (v + 1) % Pointers = IF v + 1 < Pointers THEN v + 1 ELSE 0
         /\ (v + 1) % Pointers \in 0..Pointers - 1
<1>1. Pointers \in Nat \ {0} /\ v + 1 \in Nat /\ v + 1 < 2 * Pointers
  BY RecoveryAssumption
<1> DEFINE a == v + 1
<1>2. a % Pointers = IF a < Pointers THEN a ELSE a - Pointers
  <2> HIDE DEF a
  <2> QED BY <1>1, WrapsOnce DEF a
<1> QED BY <1>1, <1>2

\* How far a pointer is ahead of another, without the modulus.
LEMMA PlacesAhead ==
  ASSUME NEW v \in 0..Pointers - 1, NEW u \in 0..Pointers - 1
  PROVE  (v + Pointers - u) % Pointers = IF v < u THEN v + Pointers - u ELSE v - u
<1> DEFINE d == v + Pointers - u
<1>1. Pointers \in Nat \ {0} /\ d \in Nat /\ d < 2 * Pointers
  BY RecoveryAssumption
<1>2. d % Pointers = IF d < Pointers THEN d ELSE d - Pointers
  <2> HIDE DEF d
  <2> QED BY <1>1, WrapsOnce
<1> QED BY <1>1, <1>2

\* The pointers a push and a pop leave agree with the queue they leave.
LEMMA AgreeMoves ==
  ASSUME NEW w \in 0..Pointers - 1, NEW r \in 0..Pointers - 1, NEW n \in 0..QueueDepth,
         NEW nw \in 0..Pointers - 1, NEW nr \in 0..Pointers - 1,
         nw = IF w + 1 < Pointers THEN w + 1 ELSE 0,
         nr = IF r + 1 < Pointers THEN r + 1 ELSE 0,
         (w + Pointers - r) % Pointers = n
  PROVE  /\ n < QueueDepth => (nw + Pointers - r) % Pointers = n + 1
         /\ n > 0 => (w + Pointers - nr) % Pointers = n - 1
         /\ (nw + Pointers - nr) % Pointers = n
<1>1. Pointers \in Nat \ {0} /\ Pointers > 2 * QueueDepth /\ QueueDepth \in Nat
  BY RecoveryAssumption
<1>2. /\ (w + Pointers - r) % Pointers = IF w < r THEN w + Pointers - r ELSE w - r
      /\ (nw + Pointers - r) % Pointers = IF nw < r THEN nw + Pointers - r ELSE nw - r
      /\ (w + Pointers - nr) % Pointers = IF w < nr THEN w + Pointers - nr ELSE w - nr
      /\ (nw + Pointers - nr) % Pointers = IF nw < nr THEN nw + Pointers - nr ELSE nw - nr
  BY PlacesAhead
<1> QED BY <1>1, <1>2

\* One event keeps the halves of the channel in order, and takes the pointers
\* apart from the queue only by resetting one half.
LEMMA HalvesKeep ==
  ASSUME RecoveryInv,
         NEW sourceTick \in BOOLEAN, NEW sinkTick \in BOOLEAN,
         NEW sourceRecover \in R!Inputs(source, sourceTick),
         NEW sinkRecover \in R!Inputs(sink, sinkTick),
         NEW push \in IF sourceTick THEN {First, None} ELSE {None},
         NEW pop \in {FALSE, sinkTick},
         R!Step(sourceTick, sinkTick, sourceRecover, sinkRecover, push, pop)
  PROVE  /\ Halves'
         /\ ~R!Agree' => /\ ~(recovering /\ source'.flushed /\ sink'.flushed)
                         /\ \/ ~R!Agree
                            \/ sourceTick /\ R!LocalFlush(source) /\ ~source.flushed
                            \/ sinkTick /\ R!LocalFlush(sink) /\ ~sink.flushed
<1> DEFINE maskedPush == IF R!Blocked(source, sourceRecover) THEN None ELSE push
           maskedPop == pop /\ ~R!Blocked(sink, sinkRecover)
           pushed == R!Channel!PushAccepted(maskedPush, maskedPop)
           popped == R!Channel!PopAccepted(maskedPop)
           completes == recovering /\ source'.flushed /\ sink'.flushed
           rest == IF popped THEN Tail(queue) ELSE queue
           clearsSource == sourceTick /\ R!ResetHeld(source)
           clearsSink == sinkTick /\ R!ResetHeld(sink)
<1>1. /\ source \in Ends /\ sink \in Ends /\ recovering \in BOOLEAN
      /\ written \in 0..Pointers - 1 /\ read \in 0..Pointers - 1
      /\ queue \in Seq({First}) /\ Len(queue) \in 0..QueueDepth
      /\ source.flushed => written = 0
      /\ sink.flushed => read = 0
  BY LenProperties, RecoveryAssumption DEF RecoveryInv, Halves, Cleared
<1>2. /\ source' = R!EndpointStep(source, sourceTick, sourceRecover, sink)
      /\ sink' = R!EndpointStep(sink, sinkTick, sinkRecover, source)
      /\ queue' = IF completes THEN << >> ELSE IF pushed THEN Append(rest, maskedPush) ELSE rest
      /\ written' = IF clearsSource THEN 0 ELSE IF pushed THEN (written + 1) % Pointers ELSE written
      /\ read' = IF clearsSink THEN 0 ELSE IF popped THEN (read + 1) % Pointers ELSE read
  BY DEF R!Step
<1>3. /\ popped \in BOOLEAN /\ pushed \in BOOLEAN
      /\ popped => /\ queue # << >>
                   /\ sinkTick /\ ~R!ResetHeld(sink) /\ ~sink.flushed
      /\ pushed => /\ Len(queue) < QueueDepth /\ maskedPush = First
                   /\ sourceTick /\ ~R!ResetHeld(source) /\ ~source.flushed
  <2>1. maskedPush \in {First, None} /\ (maskedPush # None => sourceTick)
    OBVIOUS
  <2>2. maskedPop \in BOOLEAN /\ (maskedPop => sinkTick)
    <3>1. pop = FALSE \/ pop = sinkTick
      OBVIOUS
    <3>2. CASE pop = FALSE
      BY <3>2
    <3>3. CASE pop = sinkTick
      BY <3>3, Zenon
    <3> QED BY <3>1, <3>2, <3>3
  <2>3. /\ maskedPush # None => ~R!ResetHeld(source) /\ ~source.flushed
        /\ maskedPop => ~R!ResetHeld(sink) /\ ~sink.flushed
    BY <1>1 DEF R!Blocked, R!ResetHeld, R!LocalFlush, Ends
  <2> HIDE DEF maskedPush, maskedPop
  <2>4. popped = (maskedPop /\ queue # << >>)
    BY DEF R!Channel!PopAccepted
  <2>5. pushed = (maskedPush # None /\ Len(queue) < QueueDepth)
    BY <2>2 DEF R!Channel!PushAccepted, R!Channel!PopAccepted
  <2> QED BY <2>1, <2>2, <2>3, <2>4, <2>5
<1>4. /\ source'.flushed => clearsSource \/ (source.flushed /\ ~sourceTick)
      /\ sink'.flushed => clearsSink \/ (sink.flushed /\ ~sinkTick)
  BY <1>1, <1>2 DEF R!EndpointStep, R!Ticked, R!ResetHeld
<1>5. /\ clearsSource => source.flushed \/ (sourceTick /\ R!LocalFlush(source) /\ ~source.flushed)
      /\ clearsSink => sink.flushed \/ (sinkTick /\ R!LocalFlush(sink) /\ ~sink.flushed)
  BY <1>1 DEF R!ResetHeld
<1>6. /\ clearsSource \in BOOLEAN /\ clearsSink \in BOOLEAN
      /\ clearsSource => ~pushed
      /\ clearsSink => ~popped
  BY <1>1, <1>3 DEF R!ResetHeld, R!LocalFlush, Ends
<1> HIDE DEF pushed, popped, completes, clearsSource, clearsSink, maskedPush, maskedPop
<1>7. /\ rest \in Seq({First})
      /\ Len(rest) = IF popped THEN Len(queue) - 1 ELSE Len(queue)
      /\ popped => Len(queue) > 0
  BY <1>1, <1>3, HeadTailProperties, EmptySeq
<1>8. /\ ~completes => Len(queue') = IF pushed THEN Len(rest) + 1 ELSE Len(rest)
      /\ completes => Len(queue') = 0
      /\ queue' \in Seq({First})
  <2> HIDE DEF rest
  <2>1. CASE completes
    BY <1>2, <2>1, EmptySeq
  <2>2. CASE ~completes /\ pushed
    <3>1. maskedPush \in {First}
      BY <1>3, <2>2
    <3>2. Append(rest, maskedPush) \in Seq({First}) /\ Len(Append(rest, maskedPush)) = Len(rest) + 1
      BY <1>7, <3>1, AppendProperties
    <3> QED BY <1>2, <1>7, <2>2, <3>2
  <2>3. CASE ~completes /\ ~pushed
    BY <1>1, <1>2, <1>7, <2>3
  <2> QED BY <1>3, <2>1, <2>2, <2>3
<1> DEFINE nw == (written + 1) % Pointers
           nr == (read + 1) % Pointers
<1> HIDE DEF rest
<1>9. /\ nw \in 0..Pointers - 1 /\ nw = IF written + 1 < Pointers THEN written + 1 ELSE 0
      /\ nr \in 0..Pointers - 1 /\ nr = IF read + 1 < Pointers THEN read + 1 ELSE 0
      /\ written' = IF clearsSource THEN 0 ELSE IF pushed THEN nw ELSE written
      /\ read' = IF clearsSink THEN 0 ELSE IF popped THEN nr ELSE read
  BY <1>1, <1>2, NextPlace
<1> HIDE DEF nw, nr
<1>10. Halves'
  <2>1. written' \in 0..Pointers - 1 /\ read' \in 0..Pointers - 1
    BY <1>1, <1>9, RecoveryAssumption
  <2>2. Len(queue') <= QueueDepth
    BY <1>1, <1>3, <1>7, <1>8, RecoveryAssumption
  <2>3. Cleared'
    BY <1>1, <1>2, <1>3, <1>4, <1>6 DEF Cleared
  <2> QED BY <1>8, <2>1, <2>2, <2>3 DEF Halves
<1>11. completes => R!Agree'
  <2>1. completes => written' = 0 /\ read' = 0
    BY <1>1, <1>2, <1>3, <1>4, <1>6 DEF completes
  <2>2. (0 + Pointers - 0) % Pointers = 0
    BY PlacesAhead, RecoveryAssumption
  <2> QED BY <1>8, <2>1, <2>2 DEF R!Agree
<1>12. ASSUME R!Agree, ~completes,
              ~(sourceTick /\ R!LocalFlush(source) /\ ~source.flushed),
              ~(sinkTick /\ R!LocalFlush(sink) /\ ~sink.flushed)
       PROVE  R!Agree'
  <2>1. /\ written' = IF pushed THEN nw ELSE written
        /\ read' = IF popped THEN nr ELSE read
    BY <1>1, <1>5, <1>6, <1>9, <1>12
  <2>2. (written + Pointers - read) % Pointers = Len(queue)
    BY <1>12 DEF R!Agree
  <2>3. /\ Len(queue) < QueueDepth => (nw + Pointers - read) % Pointers = Len(queue) + 1
        /\ Len(queue) > 0 => (written + Pointers - nr) % Pointers = Len(queue) - 1
        /\ (nw + Pointers - nr) % Pointers = Len(queue)
    BY <1>1, <1>9, <2>2, AgreeMoves
  <2>4. Len(queue') = IF pushed THEN Len(rest) + 1 ELSE Len(rest)
    BY <1>8, <1>12
  <2>5. CASE pushed /\ popped
    BY <1>1, <1>7, <2>1, <2>3, <2>4, <2>5 DEF R!Agree
  <2>6. CASE pushed /\ ~popped
    BY <1>1, <1>3, <1>7, <2>1, <2>3, <2>4, <2>6 DEF R!Agree
  <2>7. CASE ~pushed /\ popped
    BY <1>1, <1>7, <2>1, <2>3, <2>4, <2>7 DEF R!Agree
  <2>8. CASE ~pushed /\ ~popped
    BY <1>1, <1>7, <2>1, <2>2, <2>4, <2>8 DEF R!Agree
  <2> QED BY <1>3, <2>5, <2>6, <2>7, <2>8
<1> QED BY <1>10, <1>11, <1>12 DEF completes
\* One event of the channel keeps the invariant.
LEMMA RecoveryStepInv ==
  ASSUME ~AnyTime, RecoveryInv, R!Next
  PROVE  RecoveryInv'
<1>a. PICK sourceTick \in BOOLEAN, sinkTick \in BOOLEAN :
        \E sourceRecover \in R!Inputs(source, sourceTick), sinkRecover \in R!Inputs(sink, sinkTick) :
          \E push \in IF sourceTick THEN {First} \union {None} ELSE {None}, pop \in {FALSE, sinkTick} :
            R!Step(sourceTick, sinkTick, sourceRecover, sinkRecover, push, pop)
  BY DEF R!Next, R!Event
<1>b. PICK sourceRecover \in R!Inputs(source, sourceTick), sinkRecover \in R!Inputs(sink, sinkTick) :
        \E push \in IF sourceTick THEN {First} \union {None} ELSE {None}, pop \in {FALSE, sinkTick} :
          R!Step(sourceTick, sinkTick, sourceRecover, sinkRecover, push, pop)
  BY <1>a
<1>1. PICK push \in IF sourceTick THEN {First} \union {None} ELSE {None}, pop \in {FALSE, sinkTick} :
        R!Step(sourceTick, sinkTick, sourceRecover, sinkRecover, push, pop)
  BY <1>b
<1>2. /\ sourceRecover \in BOOLEAN /\ sinkRecover \in BOOLEAN
      /\ sourceTick /\ R!NewRequest(source, sourceRecover) => ~source.flushed
      /\ sinkTick /\ R!NewRequest(sink, sinkRecover) => ~sink.flushed
  BY <1>1 DEF R!Inputs, R!NewRequest
<1>3. /\ source \in Ends /\ sink \in Ends /\ recovering \in BOOLEAN /\ (~R!Agree) \in BOOLEAN
      /\ Handshake(source, sink, recovering, ~R!Agree)
      /\ Handshake(sink, source, recovering, ~R!Agree)
  BY DEF RecoveryInv, Handshake
<1>4. /\ Halves'
      /\ ~R!Agree' => /\ ~(recovering /\ source'.flushed /\ sink'.flushed)
                      /\ \/ ~R!Agree
                         \/ sourceTick /\ R!LocalFlush(source) /\ ~source.flushed
                         \/ sinkTick /\ R!LocalFlush(sink) /\ ~sink.flushed
  <2>1. push \in IF sourceTick THEN {First, None} ELSE {None}
    BY <1>1
  <2> QED BY <1>1, <2>1, HalvesKeep
<1>5. /\ source' = R!EndpointStep(source, sourceTick, sourceRecover, sink)
      /\ sink' = R!EndpointStep(sink, sinkTick, sinkRecover, source)
      /\ recovering' = /\ ~(recovering /\ source'.flushed /\ sink'.flushed)
                       /\ \/ recovering
                          \/ sourceTick /\ R!NewRequest(source, sourceRecover)
                          \/ sinkTick /\ R!NewRequest(sink, sinkRecover)
  BY <1>1 DEF R!Step
<1>6. /\ Moves(source, sink, source', sink', sourceTick, sinkTick, sourceRecover, sinkRecover,
                recovering, recovering', ~R!Agree, ~R!Agree')
      /\ Moves(sink, source, sink', source', sinkTick, sourceTick, sinkRecover, sourceRecover,
                recovering, recovering', ~R!Agree, ~R!Agree')
  BY <1>2, <1>3, <1>4, <1>5, ZenonT(40) DEF Moves
<1>7. /\ source' \in Ends
      /\ Front(source', sink') /\ Held(source') /\ Heard(source', sink', recovering')
      /\ ~R!Agree' => Quiet(source', sink', recovering')
  BY <1>6, EndKeeps
<1>8. /\ sink' \in Ends
      /\ Front(sink', source') /\ Held(sink') /\ Heard(sink', source', recovering')
      /\ ~R!Agree' => Quiet(sink', source', recovering')
  BY <1>6, EndKeeps
<1>9. Handshake(source', sink', recovering', ~R!Agree')
  BY <1>7, <1>8 DEF Handshake
<1> QED BY <1>4, <1>5, <1>7, <1>8, <1>9 DEF RecoveryInv

\* From the reset of one half to that of the other neither end accepts or
\* delivers, whatever the clocks do and whichever end asks, as long as an end
\* that drains is not asked again (Loom/Hw/RecoveryProtocol.lean step).
THEOREM SplitIsQuiet == ASSUME ~AnyTime PROVE LinksSpec => []QuiescedWhileSplit
<1>1. LinksInit => RecoveryInv
  <2> SUFFICES ASSUME R!Init PROVE RecoveryInv
    BY DEF LinksInit
  <2>1. /\ source = R!Endpoint0 /\ sink = R!Endpoint0 /\ recovering = FALSE
        /\ written = 0 /\ read = 0 /\ queue = << >>
    BY DEF R!Init
  <2>2. source \in Ends /\ sink \in Ends /\ recovering \in BOOLEAN
    BY <2>1 DEF R!Endpoint0, Ends
  <2>3. Halves
    BY <2>1, RecoveryAssumption, EmptySeq DEF Halves, Cleared
  <2>4. R!Agree
    <3>1. (0 + Pointers - 0) % Pointers = 0
      BY PlacesAhead, RecoveryAssumption
    <3> QED BY <2>1, <3>1 DEF R!Agree
  <2>5. Handshake(source, sink, recovering, ~R!Agree)
    BY <2>1, <2>4 DEF R!Endpoint0, Handshake, Front, Held, Heard
  <2> QED BY <2>2, <2>3, <2>5 DEF RecoveryInv
<1>2. RecoveryInv /\ [LinksNext]_linksVars => RecoveryInv'
  <2> SUFFICES ASSUME RecoveryInv, [R!Next]_(R!vars) PROVE RecoveryInv'
    BY StepOfEach
  <2>1. CASE UNCHANGED R!vars
    BY <2>1 DEF R!vars, RecoveryInv, Halves, Cleared, R!Agree
  <2> QED BY <2>1, RecoveryStepInv
<1>3. RecoveryInv => QuiescedWhileSplit
  BY DEF RecoveryInv, Handshake, Quiet, QuiescedWhileSplit, R!QuiescedWhileSplit, R!Blocked
<1> QED BY <1>1, <1>2, <1>3, PTL DEF LinksSpec
-----------------------------------------------------------------------------
(***************************************************************************)
(* The arbiter and the two cores.                                          *)
(***************************************************************************)

Requests == A!Request \union {None}
Tags == Words \union {None}

ArbiterTypes ==
  /\ latch \in [A!Lanes -> Requests] /\ pulse \in [A!Lanes -> Requests]
  /\ waiting \in [A!Lanes -> Requests]
  /\ reserved \in [A!Lanes -> Tags] /\ lrValid \in [A!Lanes -> Tags]
  /\ linked \in [A!Lanes -> Tags]
  /\ st \in {"IDLE", "BUSY"} /\ owner \in A!Lanes /\ last \in A!Lanes
  /\ start \in Requests /\ master \in Requests /\ mDone \in BOOLEAN
  /\ done \subseteq A!Lanes
  /\ overwritten \in [A!Lanes -> BOOLEAN]

\* The four places a request of lane i can be in.
Pulses(i) == pulse[i] # None
Buffered(i) == latch[i] # None
Served(i) == st = "BUSY" /\ owner = i
Answered(i) == i \in done

\* A core that waits has its request in one place, and no other has any.
Owed(i) ==
  /\ Pulses(i) => ~Buffered(i) /\ ~Served(i) /\ ~Answered(i)
  /\ Buffered(i) => ~Served(i) /\ ~Answered(i)
  /\ Served(i) => ~Answered(i)
  /\ waiting[i] # None <=> Pulses(i) \/ Buffered(i) \/ Served(i) \/ Answered(i)

OwedInv == ArbiterTypes /\ \A i \in A!Lanes : Owed(i)

\* The transaction of lane i is under way and had no effect yet.
InFlight(i) == Served(i) /\ (start # None \/ master # None)

Waits(i, op) == waiting[i] # None /\ waiting[i].op = op

\* The reading half of the core's pair has not taken place yet.
LrUnfinished(i) == Waits(i, "lr") /\ (Pulses(i) \/ Buffered(i) \/ InFlight(i))

\* The master has the owner's request once, in one of its three stages.
MasterInv ==
  /\ start # None => st = "BUSY" /\ start = waiting[owner] /\ master = None
  /\ master # None => st = "BUSY" /\ master = waiting[owner]
  /\ mDone => st = "BUSY" /\ start = None /\ master = None

\* What a lane holds is the request its core waits for.
Carries(i) ==
  /\ Pulses(i) => pulse[i] = waiting[i]
  /\ Buffered(i) => latch[i] = waiting[i]

\* A reservation whose read took place is on the word the core works with, and
\* that word has not been written since; nor has that of a conditional store
\* that the arbiter let through.  What is under way reserved its word, or broke
\* the other lane's reservation of it.
Reserves(i) ==
  /\ reserved[i] # None /\ ~LrUnfinished(i) =>
       /\ ~overwritten[i]
       /\ linked[i] \in {None, reserved[i]}
       /\ Waits(i, "sc") => waiting[i].word = reserved[i]
  /\ Waits(i, "lr") => linked[i] = waiting[i].word
  /\ InFlight(i) /\ Waits(i, "lr") => reserved[i] = waiting[i].word
  /\ InFlight(i) /\ Waits(i, "sc") => ~overwritten[i]
  /\ \A j \in A!Lanes \ {i} :
       InFlight(j) /\ A!Writes(waiting[j]) => reserved[i] # waiting[j].word

AtomicInv ==
  /\ OwedInv
  /\ MasterInv
  /\ \A i \in A!Lanes : Carries(i) /\ Reserves(i)

\* At most one lane is granted, at an operation boundary.
LEMMA OneGranted ==
  ASSUME ArbiterTypes, NEW i \in A!Granted
  PROVE  /\ i \in A!Lanes /\ st = "IDLE" /\ Buffered(i)
         /\ \A j \in A!Granted : j = i
BY DEF A!Granted, A!Grant1, A!Lanes, Buffered

\* The registers of the arbiter after a cycle.
LEMMA ArbiterMoves ==
  ASSUME ArbiterTypes, A!Arbitrate
  PROVE  /\ \A i \in A!Forwarded : st' = "BUSY" /\ owner' = i /\ start' = latch[i]
         /\ A!Forwarded = {} => start' = None
         /\ A!Granted = {} => owner' = owner
         /\ A!Forwarded = {} => st' = IF A!Completes THEN "IDLE" ELSE st
         /\ owner' \in A!Lanes /\ last' \in A!Lanes /\ st' \in {"IDLE", "BUSY"}
         /\ start' \in Requests
<1>1. ASSUME NEW i \in A!Forwarded PROVE st' = "BUSY" /\ owner' = i /\ start' = latch[i]
  <2>1. i \in A!Granted /\ A!Forwarded # {}
    BY DEF A!Forwarded
  <2>2. \A j \in A!Granted : j = i
    BY <2>1, OneGranted
  <2>3. (CHOOSE j \in A!Forwarded : TRUE) = i
    BY <2>2 DEF A!Forwarded
  <2>4. owner' \in A!Granted
    BY <2>1 DEF A!Arbitrate
  <2> QED BY <2>1, <2>2, <2>3, <2>4 DEF A!Arbitrate
<1>2. /\ A!Forwarded = {} => start' = None
      /\ A!Granted = {} => owner' = owner
      /\ A!Forwarded = {} => st' = IF A!Completes THEN "IDLE" ELSE st
  BY DEF A!Arbitrate
<1>3. owner' \in A!Lanes /\ last' \in A!Lanes
  BY DEF A!Arbitrate, ArbiterTypes, A!Granted
<1>4. st' \in {"IDLE", "BUSY"}
  BY DEF A!Arbitrate, ArbiterTypes
<1>5. start' \in Requests
  <2>1. \A i \in A!Forwarded : latch[i] \in Requests
    BY DEF A!Forwarded, A!Granted, ArbiterTypes
  <2> QED BY <1>1, <1>2, <2>1 DEF Requests
<1> QED BY <1>1, <1>2, <1>3, <1>4, <1>5

\* What lane i may execute: a request of its program, with a conditional store
\* only to the word it holds.
LEMMA ExecutesRequest ==
  ASSUME NEW i, NEW r \in A!Executes(i)
  PROVE  /\ r \in Requests
         /\ r # None => /\ waiting[i] = None
                        /\ r \in A!Request
                        /\ r.op = "sc" => linked[i] = r.word
<1>1. MCAccesses \subseteq A!Request
  BY ArbiterAssumption DEF MCAccesses, Access, A!Request
<1> QED BY <1>1 DEF A!Executes, Requests

\* A cycle as lane i sees it: whether its request moves on, and what the core
\* executes.
Advances(i, executed, finishes) ==
  LET issued == IF A!IsOp(executed, "sc") /\ lrValid[i] # executed.word THEN None ELSE executed
  IN /\ executed \in A!Executes(i)
     /\ latch'[i] = A!Latched(i)
     /\ i \in done' <=> i \in A!Refused \/ (Served(i) /\ mDone)
     /\ Served(i)' <=> i \in A!Forwarded \/ (Served(i) /\ ~mDone)
     /\ pulse'[i] = issued
     /\ waiting'[i] = IF issued # None THEN issued ELSE IF i \in done THEN None ELSE waiting[i]
     /\ linked'[i] = IF A!IsOp(executed, "sc") THEN None
                     ELSE IF A!IsOp(executed, "lr") THEN executed.word ELSE linked[i]

\* A cycle of the arbiter is such a cycle for each lane.
LEMMA LaneAdvances ==
  ASSUME ArbiterTypes, NEW finishes \in BOOLEAN, A!Cycle(finishes), NEW i \in A!Lanes
  PROVE  \E executed : Advances(i, executed, finishes)
<1>1. PICK e0 \in A!Executes(0), e1 \in A!Executes(1) :
        A!Run([k \in A!Lanes |-> IF k = 0 THEN e0 ELSE e1])
  BY DEF A!Cycle
<1> DEFINE e == IF i = 0 THEN e0 ELSE e1
<1>2. e \in A!Executes(i)
  BY <1>1 DEF A!Lanes
<1>3. /\ pulse'[i] = IF A!IsOp(e, "sc") /\ lrValid[i] # e.word THEN None ELSE e
      /\ waiting'[i] = IF pulse'[i] # None THEN pulse'[i] ELSE IF i \in done THEN None ELSE waiting[i]
      /\ linked'[i] = IF A!IsOp(e, "sc") THEN None
                      ELSE IF A!IsOp(e, "lr") THEN e.word ELSE linked[i]
  BY <1>1 DEF A!Run
<1>4. A!Arbitrate
  BY DEF A!Cycle
<1>5. latch'[i] = A!Latched(i)
  BY <1>4 DEF A!Arbitrate
<1>6. i \in done' <=> i \in A!Refused \/ (Served(i) /\ mDone)
  BY <1>4 DEF A!Arbitrate, Served, A!Completes
<1>7. Served(i)' <=> i \in A!Forwarded \/ (Served(i) /\ ~mDone)
  <2>1. CASE A!Forwarded # {}
    <3>1. PICK k \in A!Forwarded : TRUE
      BY <2>1
    <3>2. k \in A!Granted
      BY DEF A!Forwarded
    <3>3. st = "IDLE" /\ \A j \in A!Granted : j = k
      BY <3>2, OneGranted
    <3>4. st' = "BUSY" /\ owner' = k
      BY <1>4, ArbiterMoves
    <3>5. i \in A!Forwarded <=> i = k
      BY <3>3 DEF A!Forwarded
    <3> QED BY <3>3, <3>4, <3>5 DEF Served
  <2>2. CASE A!Forwarded = {} /\ A!Granted # {}
    <3>1. st = "IDLE"
      BY <2>2, OneGranted
    <3>2. st' = "IDLE"
      BY <1>4, <2>2, <3>1, ArbiterMoves DEF A!Completes
    <3> QED BY <2>2, <3>1, <3>2 DEF Served
  <2>3. CASE A!Forwarded = {} /\ A!Granted = {}
    <3>1. owner' = owner /\ st' = IF st = "BUSY" /\ mDone THEN "IDLE" ELSE st
      BY <1>4, <2>3, ArbiterMoves DEF A!Completes
    <3> QED BY <2>3, <3>1 DEF Served
  <2> QED BY <2>1, <2>2, <2>3
<1> QED BY <1>2, <1>3, <1>5, <1>6, <1>7 DEF Advances

\* The registers keep their types.
LEMMA TypesKept ==
  ASSUME ArbiterTypes, NEW finishes \in BOOLEAN, A!Cycle(finishes)
  PROVE  ArbiterTypes'
<1>1. A!Arbitrate /\ A!Serve(finishes)
  BY DEF A!Cycle
<1>2. PICK e0 \in A!Executes(0), e1 \in A!Executes(1) :
        A!Run([k \in A!Lanes |-> IF k = 0 THEN e0 ELSE e1])
  BY DEF A!Cycle
<1> DEFINE e == [k \in A!Lanes |-> IF k = 0 THEN e0 ELSE e1]
<1>3. /\ e \in [A!Lanes -> Requests] 
      /\ \A k \in A!Lanes : A!IsOp(e[k], "lr") => e[k].word \in Words
  BY <1>2, ExecutesRequest DEF A!IsOp, A!Request, Requests
<1>4. A!Run(e)
  BY <1>2
<1> HIDE DEF e
<1>5. pulse' \in [A!Lanes -> Requests] /\ waiting' \in [A!Lanes -> Requests]
  BY <1>3, <1>4 DEF A!Run, ArbiterTypes, Requests
<1>6. lrValid' \in [A!Lanes -> Tags] /\ linked' \in [A!Lanes -> Tags]
  BY <1>3, <1>4 DEF A!Run, ArbiterTypes, Tags
<1>7. latch' \in [A!Lanes -> Requests]
  BY <1>1 DEF A!Arbitrate, A!Latched, ArbiterTypes, Requests
<1>8. reserved' \in [A!Lanes -> Tags]
  <2>1. \A i \in A!Forwarded : latch[i].word \in Words
    BY DEF A!Forwarded, A!Granted, ArbiterTypes, Requests, A!Request
  <2> QED BY <1>1, <2>1 DEF A!Arbitrate, ArbiterTypes, Tags
<1>9. done' \subseteq A!Lanes
  BY <1>1 DEF A!Arbitrate, A!Refused, A!Granted, ArbiterTypes
<1>10. master' \in Requests /\ mDone' \in BOOLEAN
  BY <1>1 DEF A!Serve, ArbiterTypes, Requests
<1>11. overwritten' \in [A!Lanes -> BOOLEAN]
  BY <1>1 DEF A!Serve, ArbiterTypes
<1> QED
  BY <1>1, <1>5, <1>6, <1>7, <1>8, <1>9, <1>10, <1>11, ArbiterMoves DEF ArbiterTypes

\* A cycle takes a request from one place to the next, or leaves it.
LEMMA OwedStep ==
  ASSUME OwedInv, NEW finishes \in BOOLEAN, A!Cycle(finishes)
  PROVE  OwedInv'
<1>1. ArbiterTypes'
  BY TypesKept DEF OwedInv
<1>2. ASSUME NEW i \in A!Lanes PROVE Owed(i)'
  <2>1. PICK executed : Advances(i, executed, finishes)
    BY LaneAdvances DEF OwedInv
  <2>2. Owed(i)
    BY DEF OwedInv
  <2>3. i \in A!Granted => Buffered(i) /\ st = "IDLE"
    BY OneGranted DEF OwedInv
  <2>4. /\ i \in A!Forwarded \/ i \in A!Refused <=> i \in A!Granted
        /\ ~(i \in A!Forwarded /\ i \in A!Refused)
    BY DEF A!Forwarded, A!Refused
  <2>5. Buffered(i)' <=> Pulses(i) \/ (Buffered(i) /\ i \notin A!Granted)
    BY <2>1 DEF Advances, A!Latched, Buffered, Pulses
  <2>6. Pulses(i)' => waiting[i] = None /\ waiting'[i] # None
    BY <2>1, ExecutesRequest DEF Advances, Pulses
  <2>7. ~Pulses(i)' => (waiting'[i] # None <=> waiting[i] # None /\ i \notin done)
    BY <2>1 DEF Advances, Pulses
  <2>8. /\ Answered(i)' <=> i \in A!Refused \/ (Served(i) /\ mDone)
        /\ Served(i)' <=> i \in A!Forwarded \/ (Served(i) /\ ~mDone)
    BY <2>1 DEF Advances, Answered
  <2> DEFINE granted == i \in A!Granted
             forwarded == i \in A!Forwarded
             refused == i \in A!Refused
             waits == waiting[i] # None
             waitsNext == waiting'[i] # None
  <2>9. /\ Pulses(i) => ~Buffered(i) /\ ~Served(i) /\ ~Answered(i)
        /\ Buffered(i) => ~Served(i) /\ ~Answered(i)
        /\ Served(i) => ~Answered(i)
        /\ waits <=> Pulses(i) \/ Buffered(i) \/ Served(i) \/ Answered(i)
    BY <2>2 DEF Owed
  <2>10. /\ granted => Buffered(i)
         /\ (forwarded \/ refused) <=> granted
         /\ ~(forwarded /\ refused)
         /\ Buffered(i)' <=> Pulses(i) \/ (Buffered(i) /\ ~granted)
         /\ Pulses(i)' => ~waits /\ waitsNext
         /\ ~Pulses(i)' => (waitsNext <=> waits /\ ~Answered(i))
    BY <2>3, <2>4, <2>5, <2>6, <2>7 DEF Answered
  <2> HIDE DEF granted, forwarded, refused, waits, waitsNext
  <2>11. /\ Pulses(i)' => ~Buffered(i)' /\ ~Served(i)' /\ ~Answered(i)'
         /\ Buffered(i)' => ~Served(i)' /\ ~Answered(i)'
         /\ Served(i)' => ~Answered(i)'
         /\ waitsNext <=> Pulses(i)' \/ Buffered(i)' \/ Served(i)' \/ Answered(i)'
    BY <2>8, <2>9, <2>10 DEF forwarded, refused
  <2> QED BY <2>11 DEF Owed, waitsNext
<1> QED BY <1>1, <1>2 DEF OwedInv

\* At reset no core waits and no lane holds anything.
LEMMA ArbiterInit == A!Init => AtomicInv
<1> SUFFICES ASSUME A!Init PROVE AtomicInv
  OBVIOUS
<1>1. ArbiterTypes
  BY DEF A!Init, ArbiterTypes, Requests, Tags, A!Lanes
<1>2. \A i \in A!Lanes : Owed(i)
  BY DEF A!Init, Owed, Pulses, Buffered, Served, Answered
<1>3. MasterInv
  BY DEF A!Init, MasterInv
<1>4. \A i \in A!Lanes : Carries(i) /\ Reserves(i)
  BY DEF A!Init, Carries, Reserves, Pulses, Buffered, Waits, InFlight, Served
<1> QED BY <1>1, <1>2, <1>3, <1>4 DEF AtomicInv, OwedInv

\* The requests of the arbiter are not lost, doubled or answered to the other
\* core, when two collide and when one arrives while another is served
\* (HpArbiter.lean arbRule).
THEOREM OwedAnswers == LinksSpec => []AnswersOwed
<1>1. LinksInit => OwedInv
  BY ArbiterInit DEF LinksInit, AtomicInv
<1>2. OwedInv /\ [LinksNext]_linksVars => OwedInv'
  <2> SUFFICES ASSUME OwedInv, [A!Next]_(A!vars) PROVE OwedInv'
    BY StepOfEach
  <2>1. CASE UNCHANGED A!vars
    BY <2>1 DEF A!vars, A!arbiter, A!cores, OwedInv, ArbiterTypes, Owed, Pulses, Buffered,
                Served, Answered
  <2>2. CASE A!Next
    BY <2>2, OwedStep DEF A!Next
  <2> QED BY <2>1, <2>2
<1>3. OwedInv => AnswersOwed
  <2> SUFFICES ASSUME OwedInv, NEW i \in A!Lanes
               PROVE  LET places == {z \in {"pulse", "latch", "service", "answer"} :
                                       CASE z = "pulse" -> pulse[i] # None
                                         [] z = "latch" -> latch[i] # None
                                         [] z = "service" -> st = "BUSY" /\ owner = i
                                         [] z = "answer" -> i \in done}
                      IN IF waiting[i] = None THEN places = {} ELSE \E z \in places : places = {z}
    BY DEF AnswersOwed, A!AnswersOwed
  <2> DEFINE places == {z \in {"pulse", "latch", "service", "answer"} :
                          CASE z = "pulse" -> pulse[i] # None
                            [] z = "latch" -> latch[i] # None
                            [] z = "service" -> st = "BUSY" /\ owner = i
                            [] z = "answer" -> i \in done}
  <2>1. /\ "pulse" \in places <=> Pulses(i)
        /\ "latch" \in places <=> Buffered(i)
        /\ "service" \in places <=> Served(i)
        /\ "answer" \in places <=> Answered(i)
        /\ places \subseteq {"pulse", "latch", "service", "answer"}
    BY DEF Pulses, Buffered, Served, Answered
  <2> HIDE DEF places
  <2>2. Owed(i)
    BY DEF OwedInv
  <2>3. IF waiting[i] = None THEN places = {} ELSE \E z \in places : places = {z}
    BY <2>1, <2>2 DEF Owed
  <2> QED BY <2>3 DEF places
<1> QED BY <1>1, <1>2, <1>3, PTL DEF LinksSpec

\* The master's side of a cycle: the request moves from start to master to done.
LEMMA MasterStep ==
  ASSUME AtomicInv, NEW finishes \in BOOLEAN, A!Cycle(finishes)
  PROVE  MasterInv'
<1>1. A!Arbitrate /\ A!Serve(finishes) /\ ArbiterTypes /\ MasterInv
  BY DEF A!Cycle, AtomicInv, OwedInv
<1>2. /\ finishes => master # None
      /\ mDone' = finishes
      /\ master' = IF finishes THEN None ELSE IF start # None THEN start ELSE master
  BY <1>1 DEF A!Serve
<1>3. \A i \in A!Lanes : Served(i) => waiting'[i] = waiting[i]
  <2> SUFFICES ASSUME NEW i \in A!Lanes, Served(i) PROVE waiting'[i] = waiting[i]
    OBVIOUS
  <2>1. PICK executed : Advances(i, executed, finishes)
    BY <1>1, LaneAdvances
  <2>2. waiting[i] # None /\ ~Answered(i)
    BY DEF AtomicInv, OwedInv, Owed
  <2>3. executed = None
    BY <2>1, <2>2, ExecutesRequest DEF Advances
  <2> QED BY <2>1, <2>2, <2>3 DEF Advances, Answered, A!IsOp
<1>4. CASE A!Forwarded # {}
  <2>1. PICK i \in A!Forwarded : TRUE
    BY <1>4
  <2>2. i \in A!Granted /\ i \in A!Lanes /\ st = "IDLE" /\ Buffered(i)
    BY <1>1, OneGranted DEF A!Forwarded
  <2>3. st' = "BUSY" /\ owner' = i /\ start' = latch[i]
    BY <1>1, ArbiterMoves
  <2>4. start = None /\ master = None /\ ~finishes
    BY <1>1, <1>2, <2>2 DEF MasterInv
  <2>5. waiting'[i] = waiting[i] /\ latch[i] = waiting[i]
    <3>1. PICK executed : Advances(i, executed, finishes)
      BY <1>1, <2>2, LaneAdvances
    <3>2. waiting[i] # None /\ ~Answered(i) /\ latch[i] = waiting[i]
      BY <2>2 DEF AtomicInv, OwedInv, Owed, Carries
    <3>3. executed = None
      BY <3>1, <3>2, ExecutesRequest DEF Advances
    <3> QED BY <3>1, <3>2, <3>3 DEF Advances, Answered, A!IsOp
  <2> QED BY <1>2, <2>3, <2>4, <2>5 DEF MasterInv
<1>5. CASE A!Forwarded = {}
  <2>1. start' = None /\ st' = IF A!Completes THEN "IDLE" ELSE st
    BY <1>1, <1>5, ArbiterMoves
  <2>2. CASE start # None \/ master # None
    <3>1. st = "BUSY" /\ ~mDone /\ st' = "BUSY"
      BY <1>1, <2>1, <2>2 DEF MasterInv, A!Completes
    <3>2. A!Granted = {} /\ owner' = owner /\ owner \in A!Lanes
      BY <1>1, <1>5, <3>1, OneGranted, ArbiterMoves DEF ArbiterTypes
    <3>3. waiting'[owner] = waiting[owner]
      BY <1>3, <3>1, <3>2 DEF Served
    <3> QED BY <1>1, <1>2, <2>1, <3>1, <3>2, <3>3 DEF MasterInv
  <2>3. CASE start = None /\ master = None
    BY <1>2, <2>1, <2>3 DEF MasterInv
  <2> QED BY <2>2, <2>3
<1> QED BY <1>4, <1>5

\* What lane i holds stays the request its core waits for.
LEMMA CarriesStep ==
  ASSUME AtomicInv, NEW finishes \in BOOLEAN, A!Cycle(finishes), NEW i \in A!Lanes
  PROVE  Carries(i)'
<1>1. PICK executed : Advances(i, executed, finishes)
  BY LaneAdvances DEF AtomicInv, OwedInv
<1>2. Carries(i) /\ Owed(i)
  BY DEF AtomicInv, OwedInv
<1>3. Pulses(i)' => pulse'[i] = waiting'[i]
  BY <1>1 DEF Advances, Pulses
<1>4. Buffered(i)' => latch'[i] = waiting'[i]
  <2> SUFFICES ASSUME Buffered(i)' PROVE latch'[i] = waiting'[i]
    OBVIOUS
  <2>1. Pulses(i) \/ Buffered(i)
    BY <1>1 DEF Advances, A!Latched, Buffered, Pulses
  <2>2. latch'[i] = waiting[i]
    BY <1>1, <1>2, <2>1 DEF Advances, A!Latched, Buffered, Pulses, Carries
  <2>3. waiting[i] # None /\ ~Answered(i)
    BY <1>2, <2>1 DEF Owed
  <2>4. executed = None
    BY <1>1, <2>3, ExecutesRequest DEF Advances
  <2> QED BY <1>1, <2>2, <2>3, <2>4 DEF Advances, Answered, A!IsOp
<1> QED BY <1>3, <1>4 DEF Carries

\* A transaction is under way from its start pulse until the master is through.
LEMMA InFlightMoves ==
  ASSUME AtomicInv, NEW finishes \in BOOLEAN, A!Cycle(finishes), NEW i \in A!Lanes
  PROVE  /\ InFlight(i)' <=> i \in A!Forwarded \/ (InFlight(i) /\ ~finishes)
         /\ finishes => st = "BUSY" /\ master = waiting[owner] /\ InFlight(owner)
<1>1. A!Arbitrate /\ A!Serve(finishes) /\ ArbiterTypes /\ MasterInv
  BY DEF A!Cycle, AtomicInv, OwedInv
<1>2. /\ finishes => master # None
      /\ master' = IF finishes THEN None ELSE IF start # None THEN start ELSE master
  BY <1>1 DEF A!Serve
<1>3. Served(i)' <=> i \in A!Forwarded \/ (Served(i) /\ ~mDone)
  BY <1>1, LaneAdvances DEF Advances
<1>8. /\ InFlight(i)' <=> Served(i)' /\ (start' # None \/ master' # None)
      /\ InFlight(i) <=> Served(i) /\ (start # None \/ master # None)
  BY DEF InFlight
<1>4. InFlight(i)' <=> i \in A!Forwarded \/ (InFlight(i) /\ ~finishes)
  <2>4. CASE i \in A!Forwarded
    <3>1. start' = latch[i] /\ latch[i] # None
      BY <1>1, <2>4, ArbiterMoves, OneGranted DEF A!Forwarded, Buffered
    <3> QED BY <1>3, <2>4, <1>8, <3>1
  <2>5. CASE i \notin A!Forwarded /\ Served(i)
    <3>1. A!Forwarded = {}
      BY <1>1, <2>5, OneGranted DEF A!Forwarded, Served
    <3>2. start' = None
      BY <1>1, <3>1, ArbiterMoves
    <3>3. mDone => start = None /\ master = None
      BY <1>1 DEF MasterInv
    <3> QED BY <1>2, <1>3, <2>5, <1>8, <3>2, <3>3
  <2>6. CASE i \notin A!Forwarded /\ ~Served(i)
    BY <1>3, <2>6, <1>8
  <2> QED BY <2>4, <2>5, <2>6
<1>7. finishes => st = "BUSY" /\ master = waiting[owner] /\ InFlight(owner)
  BY <1>1, <1>2 DEF MasterInv, InFlight, Served
<1> QED BY <1>4, <1>7

\* A parked core executes nothing, and stays parked until it is answered.
LEMMA ParkedStays ==
  ASSUME OwedInv, NEW finishes \in BOOLEAN, A!Cycle(finishes), NEW i \in A!Lanes,
         waiting[i] # None
  PROVE  /\ pulse'[i] = None /\ linked'[i] = linked[i]
         /\ waiting'[i] = IF Answered(i) THEN None ELSE waiting[i]
<1>1. PICK executed : Advances(i, executed, finishes)
  BY LaneAdvances DEF OwedInv
<1>2. executed = None
  BY <1>1, ExecutesRequest DEF Advances
<1> QED BY <1>1, <1>2 DEF Advances, Answered, A!IsOp

\* What a cycle does to the reservation of lane i.
LEMMA ReservedMoves ==
  ASSUME ArbiterTypes, A!Arbitrate, NEW i \in A!Lanes
  PROVE  /\ i \in A!Forwarded /\ latch[i].op = "lr" => reserved'[i] = latch[i].word
         /\ i \in A!Forwarded /\ latch[i].op = "sc" => reserved'[i] = None
         /\ reserved'[i] # None =>
              \/ reserved'[i] = reserved[i]
              \/ i \in A!Forwarded /\ latch[i].op = "lr"
         /\ A!Forwarded = {} => reserved'[i] = reserved[i]
         /\ \A j \in A!Forwarded \ {i} : A!Writes(latch[j]) => reserved'[i] # latch[j].word
<1>1. reserved'[i] = IF A!Killed(i) THEN None
                     ELSE IF i \in A!Forwarded /\ latch[i].op = "lr" THEN latch[i].word
                     ELSE IF i \in A!Forwarded /\ latch[i].op = "sc" THEN None
                     ELSE reserved[i]
  BY DEF A!Arbitrate
<1>2. i \in A!Forwarded => ~A!Killed(i)
  BY OneGranted DEF A!Killed, A!Forwarded
<1>3. A!Forwarded = {} => ~A!Killed(i)
  BY DEF A!Killed
<1>4. ASSUME NEW j \in A!Forwarded \ {i}, A!Writes(latch[j])
      PROVE  reserved'[i] # latch[j].word
  <2>1. latch[j].word \in Words /\ i \notin A!Forwarded
    BY OneGranted DEF A!Forwarded, A!Granted, ArbiterTypes, Requests, A!Request
  <2>2. None \notin Words
    BY ArbiterAssumption
  <2> QED BY <1>1, <1>4, <2>1, <2>2 DEF A!Killed
<1> QED BY <1>1, <1>2, <1>3, <1>4

\* Another lane's write leaves a reservation that it did not break alone.
LEMMA OverwrittenMoves ==
  ASSUME AtomicInv, NEW finishes \in BOOLEAN, A!Cycle(finishes), NEW i \in A!Lanes,
         overwritten'[i]
  PROVE  /\ overwritten[i] => ~(finishes /\ owner = i /\ Waits(i, "lr"))
         /\ ~overwritten[i] =>
              \E j \in A!Lanes \ {i} :
                /\ InFlight(j) /\ finishes /\ A!Writes(waiting[j])
                /\ \/ linked[i] = waiting[j].word
                   \/ Waits(i, "sc") /\ waiting[i].word = waiting[j].word
<1>1. A!Serve(finishes) /\ ArbiterTypes /\ MasterInv
  BY DEF A!Cycle, AtomicInv, OwedInv
<1>2. finishes => st = "BUSY" /\ master = waiting[owner] /\ InFlight(owner) /\ master # None
  BY <1>1, InFlightMoves DEF A!Serve
<1>3. CASE ~finishes
  BY <1>1, <1>3 DEF A!Serve
<1>4. CASE finishes /\ i = owner
  <2>1. overwritten'[i] = (master.op # "lr" /\ overwritten[i])
    BY <1>1, <1>4 DEF A!Serve
  <2> QED BY <1>2, <1>4, <2>1 DEF Waits
<1>5. CASE finishes /\ i # owner
  <2>1. overwritten'[i] = (overwritten[i] \/ (A!Writes(master) /\ A!Depends(i, master.word)))
    BY <1>1, <1>5 DEF A!Serve
  <2>2. ~overwritten[i] => A!Writes(master) /\ A!Depends(i, master.word)
    BY <2>1
  <2>3. waiting[i] = [op |-> "sc", word |-> master.word] =>
          Waits(i, "sc") /\ waiting[i].word = master.word
    <3>1. [op |-> "sc", word |-> master.word] # None
      <4>1. master \in A!Request
        BY <1>1, <1>2, <1>5 DEF ArbiterTypes, Requests
      <4>2. [op |-> "sc", word |-> master.word] \in A!Request
        BY <4>1 DEF A!Request
      <4> QED BY <4>2, ArbiterAssumption
    <3> QED BY <3>1 DEF Waits
  <2>4. owner \in A!Lanes \ {i}
    BY <1>1, <1>5 DEF ArbiterTypes
  <2> QED BY <1>2, <1>5, <2>2, <2>3, <2>4 DEF A!Depends
<1> QED BY <1>3, <1>4, <1>5

\* The reading half of a pair ends when the master finishes it.
LEMMA LrMoves ==
  ASSUME AtomicInv, NEW finishes \in BOOLEAN, A!Cycle(finishes), NEW i \in A!Lanes,
         LrUnfinished(i), ~LrUnfinished(i)'
  PROVE  InFlight(i) /\ finishes
<1>1. Owed(i) /\ Carries(i) /\ OwedInv /\ ArbiterTypes
  BY DEF AtomicInv, OwedInv
<1>2. waiting[i] # None /\ ~Answered(i)
  BY <1>1 DEF LrUnfinished, Waits, Owed, InFlight
<1>3. Waits(i, "lr")'
  BY <1>1, <1>2, ParkedStays DEF LrUnfinished, Waits
<1>4. ~Buffered(i)' /\ ~InFlight(i)'
  BY <1>3 DEF LrUnfinished
<1>5. latch'[i] = A!Latched(i)
  BY <1>1, LaneAdvances DEF Advances
<1>6. ~Pulses(i) /\ (Buffered(i) => i \in A!Granted)
  BY <1>4, <1>5 DEF A!Latched, Buffered, Pulses
<1>7. Buffered(i) => latch[i].op = "lr"
  BY <1>1 DEF LrUnfinished, Waits, Carries
<1>8. ~Buffered(i)
  BY <1>4, <1>6, <1>7, InFlightMoves DEF A!Forwarded, A!Dropped
<1> QED BY <1>4, <1>6, <1>8, InFlightMoves DEF LrUnfinished

\* A cycle keeps what a reservation means.
LEMMA ReservesStep ==
  ASSUME AtomicInv, NEW finishes \in BOOLEAN, A!Cycle(finishes), NEW i \in A!Lanes
  PROVE  Reserves(i)'
<1>1. /\ A!Arbitrate /\ ArbiterTypes /\ OwedInv /\ MasterInv
      /\ \A j \in A!Lanes : Owed(j) /\ Carries(j) /\ Reserves(j)
  BY DEF A!Cycle, AtomicInv, OwedInv
<1>2. PICK executed : Advances(i, executed, finishes)
  BY <1>1, LaneAdvances
<1>3. \A j \in A!Forwarded : /\ j \in A!Lanes /\ st = "IDLE" /\ Buffered(j)
                             /\ latch[j] = waiting[j] /\ waiting[j] # None /\ ~Answered(j)
                             /\ waiting'[j] = waiting[j] /\ ~finishes
  <2> SUFFICES ASSUME NEW j \in A!Forwarded
               PROVE  /\ j \in A!Lanes /\ st = "IDLE" /\ Buffered(j)
                      /\ latch[j] = waiting[j] /\ waiting[j] # None /\ ~Answered(j)
                      /\ waiting'[j] = waiting[j] /\ ~finishes
    OBVIOUS
  <2>1. j \in A!Lanes /\ st = "IDLE" /\ Buffered(j)
    BY <1>1, OneGranted DEF A!Forwarded
  <2>2. latch[j] = waiting[j] /\ waiting[j] # None /\ ~Answered(j)
    BY <1>1, <2>1 DEF Carries, Owed
  <2>3. ~finishes
    BY <2>1, InFlightMoves
  <2> QED BY <1>1, <2>1, <2>2, <2>3, ParkedStays
<1>4. \A j \in A!Lanes : InFlight(j) => /\ waiting[j] # None /\ ~Answered(j) /\ st = "BUSY"
                                        /\ waiting'[j] = waiting[j] /\ A!Forwarded = {}
  <2> SUFFICES ASSUME NEW j \in A!Lanes, InFlight(j)
               PROVE  /\ waiting[j] # None /\ ~Answered(j) /\ st = "BUSY"
                      /\ waiting'[j] = waiting[j] /\ A!Forwarded = {}
    OBVIOUS
  <2>1. waiting[j] # None /\ ~Answered(j) /\ st = "BUSY"
    BY <1>1 DEF Owed, InFlight, Served
  <2> QED BY <1>1, <1>3, <2>1, ParkedStays
<1>5. ASSUME reserved'[i] # None, ~LrUnfinished(i)'
      PROVE  /\ ~overwritten'[i]
             /\ linked'[i] \in {None, reserved'[i]}
             /\ Waits(i, "sc")' => waiting'[i].word = reserved'[i]
  <2>1. reserved'[i] = reserved[i]
    <3>1. ~(i \in A!Forwarded /\ latch[i].op = "lr")
      BY <1>3, <1>5, InFlightMoves DEF LrUnfinished, Waits
    <3> QED BY <1>1, <1>5, <3>1, ReservedMoves
  <2>2. CASE LrUnfinished(i)
    <3>1. InFlight(i) /\ finishes /\ Waits(i, "lr")
      BY <1>5, <2>2, LrMoves DEF LrUnfinished
    <3>2. reserved[i] = waiting[i].word /\ linked[i] = waiting[i].word
      BY <1>1, <3>1 DEF Reserves
    <3>3. linked'[i] = linked[i] /\ waiting'[i] = waiting[i]
      BY <1>1, <1>4, <3>1, ParkedStays
    <3>4. ~Waits(i, "sc")'
      BY <3>1, <3>3 DEF Waits
    <3>5. ~overwritten'[i]
      <4> SUFFICES ASSUME overwritten'[i] PROVE FALSE
        BY TypesKept, <1>1 DEF ArbiterTypes
      <4>1. owner = i
        BY <3>1 DEF InFlight, Served
      <4>2. ~overwritten[i]
        BY <3>1, <4>1, OverwrittenMoves
      <4> QED BY <3>1, <4>1, <4>2, OverwrittenMoves DEF InFlight, Served
    <3> QED BY <2>1, <3>2, <3>3, <3>4, <3>5
  <2>3. CASE ~LrUnfinished(i)
    <3>1. /\ ~overwritten[i] /\ linked[i] \in {None, reserved[i]}
          /\ Waits(i, "sc") => waiting[i].word = reserved[i]
      BY <1>1, <1>5, <2>1, <2>3 DEF Reserves
    <3>2. ~overwritten'[i]
      <4> SUFFICES ASSUME overwritten'[i] PROVE FALSE
        BY TypesKept, <1>1 DEF ArbiterTypes
      <4>1. PICK j \in A!Lanes \ {i} :
              /\ InFlight(j) /\ A!Writes(waiting[j])
              /\ \/ linked[i] = waiting[j].word
                 \/ Waits(i, "sc") /\ waiting[i].word = waiting[j].word
        BY <3>1, OverwrittenMoves
      <4>2. reserved[i] # waiting[j].word
        BY <1>1, <4>1 DEF Reserves
      <4>3. waiting[j].word # None
        <5>1. waiting[j] \in A!Request
          BY <1>1, <1>4, <4>1 DEF ArbiterTypes, Requests
        <5> QED BY <5>1, ArbiterAssumption DEF A!Request
      <4> QED BY <3>1, <4>1, <4>2, <4>3
    <3>3. CASE waiting[i] # None
      BY <1>1, <2>1, <3>1, <3>2, <3>3, ParkedStays DEF Waits
    <3>4. CASE waiting[i] = None
      <4>1. executed \in Requests /\ (executed # None => executed \in A!Request)
            /\ (executed # None /\ executed.op = "sc" => linked[i] = executed.word)
        BY <1>2, ExecutesRequest DEF Advances
      <4>2. executed # None => executed.word \in Words
        BY <4>1 DEF A!Request
      <4>3. ~A!IsOp(executed, "lr")
        <5> SUFFICES ASSUME A!IsOp(executed, "lr") PROVE FALSE
          OBVIOUS
        <5>1. pulse'[i] = executed /\ waiting'[i] = executed /\ executed # None /\ executed.op = "lr"
          BY <1>2 DEF Advances, A!IsOp
        <5> QED BY <1>5, <5>1 DEF LrUnfinished, Waits, Pulses
      <4>4. linked'[i] \in {None, reserved'[i]}
        BY <1>2, <2>1, <3>1, <4>3 DEF Advances
      <4>5. Waits(i, "sc")' => waiting'[i].word = reserved'[i]
        <5> SUFFICES ASSUME Waits(i, "sc")' PROVE waiting'[i].word = reserved'[i]
          OBVIOUS
        <5>1. waiting'[i] = executed /\ executed # None /\ executed.op = "sc"
          BY <1>2, <3>4 DEF Advances, Waits
        <5>2. linked[i] = executed.word /\ linked[i] # None
          BY <4>1, <4>2, <5>1, ArbiterAssumption
        <5> QED BY <2>1, <3>1, <5>1, <5>2
      <4> QED BY <3>2, <4>4, <4>5
    <3> QED BY <3>3, <3>4
  <2> QED BY <2>2, <2>3
<1>6. Waits(i, "lr")' => linked'[i] = waiting'[i].word
  <2> SUFFICES ASSUME Waits(i, "lr")' PROVE linked'[i] = waiting'[i].word
    OBVIOUS
  <2>1. CASE waiting[i] # None
    <3>1. waiting'[i] = waiting[i] /\ linked'[i] = linked[i]
      BY <1>1, <2>1, ParkedStays DEF Waits
    <3>2. Waits(i, "lr")
      BY <3>1 DEF Waits
    <3> QED BY <1>1, <3>1, <3>2 DEF Reserves
  <2>2. CASE waiting[i] = None
    <3>1. waiting'[i] = executed /\ executed # None /\ executed.op = "lr"
      BY <1>2, <2>2 DEF Advances, Waits
    <3> QED BY <1>2, <3>1 DEF Advances, A!IsOp
  <2> QED BY <2>1, <2>2
<1>7. InFlight(i)' /\ Waits(i, "lr")' => reserved'[i] = waiting'[i].word
  <2> SUFFICES ASSUME InFlight(i)', Waits(i, "lr")' PROVE reserved'[i] = waiting'[i].word
    OBVIOUS
  <2>1. CASE i \in A!Forwarded
    BY <1>1, <1>3, <2>1, ReservedMoves DEF Waits
  <2>2. CASE InFlight(i)
    <3>1. waiting'[i] = waiting[i] /\ reserved'[i] = reserved[i]
      BY <1>1, <1>4, <2>2, ReservedMoves
    <3>2. Waits(i, "lr")
      BY <3>1 DEF Waits
    <3> QED BY <1>1, <2>2, <3>1, <3>2 DEF Reserves
  <2> QED BY <2>1, <2>2, InFlightMoves
<1>8. InFlight(i)' /\ Waits(i, "sc")' => ~overwritten'[i]
  <2> SUFFICES ASSUME InFlight(i)', Waits(i, "sc")', overwritten'[i] PROVE FALSE
    BY TypesKept, <1>1 DEF ArbiterTypes
  <2>1. CASE i \in A!Forwarded
    <3>1. latch[i] = waiting[i] /\ waiting[i].op = "sc" /\ waiting[i] # None /\ ~finishes
      BY <1>3, <2>1 DEF Waits
    <3>2. reserved[i] = latch[i].word
      BY <2>1, <3>1 DEF A!Forwarded, A!Dropped
    <3>3. reserved[i] # None
      <4>1. latch[i] \in A!Request
        BY <1>1, <1>3, <2>1, <3>1 DEF ArbiterTypes, Requests
      <4> QED BY <3>2, <4>1, ArbiterAssumption DEF A!Request
    <3>4. ~LrUnfinished(i)
      BY <3>1 DEF LrUnfinished, Waits
    <3>5. ~overwritten[i]
      BY <1>1, <1>3, <2>1, <3>3, <3>4 DEF Reserves
    <3> QED BY <3>1, <3>5, OverwrittenMoves
  <2>2. CASE InFlight(i) /\ ~finishes
    <3>1. waiting'[i] = waiting[i]
      BY <1>4, <2>2
    <3>2. Waits(i, "sc")
      BY <3>1 DEF Waits
    <3>3. ~overwritten[i]
      BY <1>1, <2>2, <3>2 DEF Reserves
    <3> QED BY <2>2, <3>3, OverwrittenMoves
  <2> QED BY <2>1, <2>2, InFlightMoves
<1>9. ASSUME NEW j \in A!Lanes \ {i}, InFlight(j)', A!Writes(waiting'[j])
      PROVE  reserved'[i] # waiting'[j].word
  <2>1. CASE j \in A!Forwarded
    BY <1>1, <1>3, <1>9, <2>1, ReservedMoves
  <2>2. CASE InFlight(j)
    <3>1. waiting'[j] = waiting[j] /\ reserved'[i] = reserved[i]
      BY <1>1, <1>4, <2>2, ReservedMoves
    <3> QED BY <1>1, <1>9, <2>2, <3>1 DEF Reserves
  <2> QED BY <1>9, <2>1, <2>2, InFlightMoves
<1> QED BY <1>5, <1>6, <1>7, <1>8, <1>9 DEF Reserves

\* A cycle keeps the whole invariant.
LEMMA AtomicStep == AtomicInv /\ [A!Next]_(A!vars) => AtomicInv'
<1> SUFFICES ASSUME AtomicInv, [A!Next]_(A!vars) PROVE AtomicInv'
  OBVIOUS
<1>1. CASE UNCHANGED A!vars
  BY <1>1 DEF A!vars, A!arbiter, A!cores, AtomicInv, OwedInv, ArbiterTypes, Owed, Pulses, Buffered,
              Served, Answered, MasterInv, Carries, Reserves, LrUnfinished, InFlight, Waits
<1>2. CASE A!Next
  <2>1. PICK finishes \in BOOLEAN : A!Cycle(finishes)
    BY <1>2 DEF A!Next
  <2>2. OwedInv'
    BY <2>1, OwedStep DEF AtomicInv
  <2> QED BY <2>1, <2>2, MasterStep, CarriesStep, ReservesStep DEF AtomicInv
<1> QED BY <1>1, <1>2

\* Lines 71-75 of HpArbiter.lean: a conditional store that gets through stores
\* to a word that the other core has not written since it was read.
THEOREM ConditionalStores == LinksSpec => ConditionalIsAtomic
<1>1. LinksInit => AtomicInv
  BY ArbiterInit DEF LinksInit
<1>2. AtomicInv /\ [LinksNext]_linksVars => AtomicInv'
  BY StepOfEach, AtomicStep
<1>3. AtomicInv /\ [LinksNext]_linksVars =>
        [\A i \in A!Lanes : mDone' /\ owner = i /\ master.op = "sc" => ~overwritten[i]]_(A!vars)
  <2> SUFFICES ASSUME AtomicInv, A!Next, NEW i \in A!Lanes, mDone', owner = i, master.op = "sc"
               PROVE  ~overwritten[i]
    BY StepOfEach
  <2>1. PICK finishes \in BOOLEAN : A!Cycle(finishes)
    BY DEF A!Next
  <2>2. finishes
    BY <2>1 DEF A!Cycle, A!Serve
  <2>3. master = waiting[i] /\ InFlight(i) /\ master # None
    BY <2>1, <2>2, InFlightMoves DEF A!Cycle, A!Serve
  <2> QED BY <2>3 DEF AtomicInv, Reserves, Waits
<1> QED BY <1>1, <1>2, <1>3, PTL DEF LinksSpec, ConditionalIsAtomic, A!ConditionalIsAtomic
=============================================================================

------------------------- MODULE EpochProtocolProofs -------------------------
(***************************************************************************)
(* Proofs about EpochProtocol for every number of cells and volumes and    *)
(* every saturation value: the inductive invariant Inv and the guarantees  *)
(* that follow from it.                                                    *)
(***************************************************************************)
EXTENDS EpochProtocol, TLAPS

\* The saturating increment stays in range, never decreases, and moves every
\* epoch but the saturated one.
LEMMA SatIncFacts ==
  ASSUME NEW e \in Epochs
  PROVE  /\ SatInc(e) \in Epochs
         /\ e <= SatInc(e)
         /\ SatInc(e) # 0
         /\ e # MaxE => SatInc(e) = e + 1
         /\ e = MaxE => SatInc(e) = e
BY MaxEAssumption DEF Epochs, SatInc

\* A pending value other than NoBump is a bump, and a bump is not NoBump.
LEMMA PendingIsBump ==
  ASSUME TypeOK, pending # NoBump
  PROVE  /\ pending \in Bumps
         /\ pending.cell \in Cells
         /\ pending.target \in Epochs
         /\ pending.acked \in [Volumes -> BOOLEAN]
BY DEF TypeOK, Bumps

\* Every value the protocol stores has its declared type (Protocol.lean, St).
THEOREM TypeCorrect == Spec => []TypeOK
<1>1. Init => TypeOK
  BY MaxEAssumption, MaxRcAssumption DEF Init, TypeOK, Epochs
<1>2. TypeOK /\ [Next]_vars => TypeOK'
  <2> SUFFICES ASSUME TypeOK, [Next]_vars PROVE TypeOK'
    OBVIOUS
  <2>1. ASSUME NEW i \in Cells, NEW p \in Policies, Bump(i, p) PROVE TypeOK'
    <3>1. SatInc(epoch[i]) \in Epochs
      BY SatIncFacts DEF TypeOK
    <3>2. pending' \in Bumps
      BY <2>1, <3>1 DEF Bump, Bumps
    <3> QED BY <2>1, <3>1, <3>2 DEF Bump, TypeOK
  <2>2. ASSUME NEW k \in Volumes, Ack(k) PROVE TypeOK'
    <3>1. pending # NoBump
      BY <2>2 DEF Ack
    <3>2. pending' \in Bumps
      BY <2>2, <3>1, PendingIsBump DEF Ack, Bumps
    <3>3. repl' \in [Volumes -> [Cells -> Epochs]]
      BY <2>2, <3>1, PendingIsBump DEF Ack, TypeOK
    <3> QED BY <2>2, <3>2, <3>3 DEF Ack, TypeOK, dispositions
  <2>3. CASE BumpReturn
    BY <2>3 DEF BumpReturn, TypeOK, Bumps, dispositions
  <2>4. ASSUME NEW i \in Cells, Acquire(i) PROVE TypeOK'
    BY <2>4 DEF Acquire, TypeOK, dispositions
  <2>5. ASSUME NEW i \in Cells, Release(i) PROVE TypeOK'
    BY <2>5 DEF Release, TypeOK, dispositions
  <2>6. CASE UNCHANGED vars
    BY <2>6 DEF vars, dispositions, TypeOK
  <2> QED BY <2>1, <2>2, <2>3, <2>4, <2>5, <2>6 DEF Next
<1> QED BY <1>1, <1>2, PTL DEF Spec

-----------------------------------------------------------------------------
(***************************************************************************)
(* The inductive step, one lemma per event that touches epochs.            *)
(***************************************************************************)

\* A bump moves one home epoch and leaves every replica one step behind it.
LEMMA BumpKeepsInv ==
  ASSUME TypeOK, Inv, NEW i \in Cells, NEW p \in Policies, Bump(i, p)
  PROVE  Inv'
<1> DEFINE next == SatInc(epoch[i])
<1>1. /\ epoch[i] \in Epochs /\ next \in Epochs /\ epoch[i] <= next /\ next # 0
      /\ epoch[i] = MaxE => next = MaxE
  BY SatIncFacts DEF TypeOK
<1>2. /\ pending = NoBump
      /\ epoch' = [epoch EXCEPT ![i] = next]
      /\ dead' = [dead EXCEPT ![i] = dead[i] \/ next = MaxE]
      /\ pending' = [cell |-> i, target |-> next, policy |-> p,
                     acked |-> [k \in Volumes |-> FALSE]]
      /\ UNCHANGED <<rc, occupied, repl, returned>>
  BY DEF Bump
<1>3. pending' # NoBump
  <2>1. pending' \in Bumps
    BY <1>1, <1>2 DEF Bumps
  <2> QED BY <2>1, NoBumpAssumption
<1>4. \A k \in Volumes, j \in Cells : repl[k][j] = epoch[j]
  BY <1>2 DEF Inv, SettledCoherent
<1>5. \A j \in Cells : epoch'[j] = IF j = i THEN next ELSE epoch[j]
  BY <1>2 DEF TypeOK
<1>6. DeadIffSaturated'
  BY <1>1, <1>2, <1>5 DEF Inv, DeadIffSaturated, TypeOK
<1>7. EpochNonzero'
  BY <1>1, <1>5 DEF Inv, EpochNonzero
<1>8. SettledCoherent'
  BY <1>3 DEF SettledCoherent
<1>9. InFlightCoherent'
  <2>1. pending'.target = epoch'[pending'.cell]
    BY <1>2, <1>5
  <2>2. ASSUME NEW k \in Volumes, NEW j \in Cells
        PROVE  IF j = pending'.cell /\ ~pending'.acked[k]
               THEN SatInc(repl'[k][j]) = epoch'[j]
               ELSE repl'[k][j] = epoch'[j]
    BY <1>2, <1>4, <1>5
  <2> QED BY <2>1, <2>2 DEF InFlightCoherent
<1>10. ReturnedBehind'
  BY <1>1, <1>2, <1>5 DEF Inv, ReturnedBehind, TypeOK, Epochs
<1> QED BY <1>6, <1>7, <1>8, <1>9, <1>10 DEF Inv

\* An acknowledgement brings one replica up to its home.
LEMMA AckKeepsInv ==
  ASSUME TypeOK, Inv, NEW k \in Volumes, Ack(k)
  PROVE  Inv'
<1> DEFINE i == pending.cell
<1>1. pending # NoBump /\ i \in Cells /\ pending.target = epoch[i]
  BY PendingIsBump DEF Ack, Inv, InFlightCoherent
<1>2. /\ repl' = [repl EXCEPT ![k][i] = epoch[i]]
      /\ pending' = [pending EXCEPT !.acked[k] = TRUE]
      /\ UNCHANGED <<epoch, dead, returned>>
  BY <1>1 DEF Ack, dispositions
<1>3. /\ pending' # NoBump
      /\ pending'.cell = i /\ pending'.target = pending.target
      /\ \A l \in Volumes : l # k => pending'.acked[l] = pending.acked[l]
      /\ pending'.acked[k] = TRUE
  <2>1. pending \in Bumps
    BY <1>1, PendingIsBump
  <2>2. pending' \in Bumps
    BY <1>2, <2>1 DEF Bumps
  <2>3. pending' # NoBump
    BY <2>2, NoBumpAssumption
  <2>4. /\ pending'.cell = i /\ pending'.target = pending.target
        /\ pending'.acked = [pending.acked EXCEPT ![k] = TRUE]
    BY <1>2, <2>1 DEF Bumps
  <2>5. pending.acked \in [Volumes -> BOOLEAN]
    BY <1>1, PendingIsBump
  <2> QED BY <2>3, <2>4, <2>5
<1>4. \A l \in Volumes, j \in Cells :
        repl'[l][j] = IF l = k /\ j = i THEN epoch[j] ELSE repl[l][j]
  BY <1>1, <1>2 DEF TypeOK
<1>5. SettledCoherent'
  BY <1>3 DEF SettledCoherent
<1>6. InFlightCoherent'
  <2>1. ASSUME NEW l \in Volumes, NEW j \in Cells
        PROVE  IF j = pending'.cell /\ ~pending'.acked[l]
               THEN SatInc(repl'[l][j]) = epoch'[j]
               ELSE repl'[l][j] = epoch'[j]
    BY <1>1, <1>2, <1>3, <1>4 DEF Inv, InFlightCoherent
  <2> QED BY <1>1, <1>2, <1>3, <2>1 DEF InFlightCoherent
<1>7. ReturnedBehind'
  BY <1>1, <1>2, <1>4 DEF Inv, ReturnedBehind
<1>8. DeadIffSaturated' /\ EpochNonzero'
  BY <1>2 DEF Inv, DeadIffSaturated, EpochNonzero
<1> QED BY <1>5, <1>6, <1>7, <1>8 DEF Inv

\* A return finds every replica at its home.
LEMMA ReturnKeepsInv ==
  ASSUME TypeOK, Inv, BumpReturn
  PROVE  Inv'
<1> DEFINE i == pending.cell
<1>1. pending # NoBump /\ i \in Cells
  BY PendingIsBump DEF BumpReturn
<1>2. \A k \in Volumes, j \in Cells : repl[k][j] = epoch[j]
  BY <1>1 DEF BumpReturn, Inv, InFlightCoherent
<1>3. /\ pending' = NoBump
      /\ returned' = [returned EXCEPT ![i] = epoch[i]]
      /\ UNCHANGED <<epoch, dead, repl>>
  BY DEF BumpReturn, dispositions
<1>4. ReturnedBehind'
  BY <1>1, <1>2, <1>3 DEF Inv, ReturnedBehind, TypeOK, Epochs
<1>5. SettledCoherent' /\ InFlightCoherent'
  BY <1>2, <1>3 DEF SettledCoherent, InFlightCoherent
<1>6. DeadIffSaturated' /\ EpochNonzero'
  BY <1>3 DEF Inv, DeadIffSaturated, EpochNonzero
<1> QED BY <1>4, <1>5, <1>6 DEF Inv

\* The protocol invariant holds in every reachable state (Protocol.lean, Inv).
THEOREM Invariance == Spec => []Inv
<1>1. Init => Inv
  <2> SUFFICES ASSUME Init PROVE Inv
    OBVIOUS
  <2>0. epoch \in [Cells -> Nat \ {0}]
    <3>1. epoch \in [Cells -> 1 .. MaxE]
      BY Zenon DEF Init
    <3> QED BY <3>1, MaxEAssumption
  <2>1. DeadIffSaturated
    <3>1. dead = [i \in Cells |-> epoch[i] = MaxE]
      BY DEF Init
    <3> QED BY <3>1, Zenon DEF DeadIffSaturated
  <2>2. EpochNonzero
    BY <2>0 DEF EpochNonzero
  <2>3. SettledCoherent /\ InFlightCoherent
    BY DEF Init, SettledCoherent, InFlightCoherent
  <2>4. ReturnedBehind
    <3>1. returned = epoch /\ repl = [k \in Volumes |-> epoch]
      BY Zenon DEF Init
    <3> QED BY <2>0, <3>1 DEF ReturnedBehind
  <2> QED BY <2>1, <2>2, <2>3, <2>4 DEF Inv
<1>2. TypeOK /\ Inv /\ [Next]_vars => Inv'
  <2> SUFFICES ASSUME TypeOK, Inv, [Next]_vars PROVE Inv'
    OBVIOUS
  <2>1. CASE \E i \in Cells, p \in Policies : Bump(i, p)
    BY <2>1, BumpKeepsInv
  <2>2. CASE \E k \in Volumes : Ack(k)
    BY <2>2, AckKeepsInv
  <2>3. CASE BumpReturn
    BY <2>3, ReturnKeepsInv
  <2>4. CASE UNCHANGED <<epoch, dead, repl, pending, returned>>
    BY <2>4 DEF Inv, DeadIffSaturated, EpochNonzero, SettledCoherent,
         InFlightCoherent, ReturnedBehind
  <2>5. ASSUME NEW i \in Cells, Acquire(i) \/ Release(i)
        PROVE  UNCHANGED <<epoch, dead, repl, pending, returned>>
    BY <2>5 DEF Acquire, Release, dispositions
  <2>6. CASE UNCHANGED vars
    BY <2>4, <2>6 DEF vars, dispositions
  <2> QED BY <2>1, <2>2, <2>3, <2>4, <2>5, <2>6 DEF Next
<1> QED BY <1>1, <1>2, TypeCorrect, PTL DEF Spec

-----------------------------------------------------------------------------

\* A use that succeeds matches the replica it was checked against, on a cell
\* that is neither dead nor poisoned.
LEMMA UseOk ==
  ASSUME NEW k \in Volumes, NEW r \in Requests, Use(k, r) = "ok", TypeOK
  PROVE  /\ repl[k][r.cell] = r.epoch
         /\ ~dead[r.cell] /\ ~poison[r.cell] /\ occupied[r.cell]
<1>1. r.cell \in Cells /\ r.wellFormed \in BOOLEAN /\ r.classOk \in BOOLEAN
  BY DEF Requests
<1>2. occupied[r.cell] \in BOOLEAN
  BY <1>1 DEF TypeOK
<1>3. r.wellFormed /\ occupied[r.cell] /\ r.classOk
  BY <1>1, <1>2 DEF Use
<1> QED BY <1>3 DEF Use

\* T-E1, T-E5: after the return of a bump no volume accepts an older
\* reference, now or in any later state.
THEOREM ReturnGuarantee == Spec => []StaleFailsForever
<1>1. TypeOK /\ Inv => StaleFailsForever
  <2> SUFFICES ASSUME TypeOK, Inv, NEW k \in Volumes, NEW r \in Requests,
                      r.epoch < returned[r.cell]
               PROVE  /\ Use(k, r) # "ok"
                      /\ (r.wellFormed /\ r.classOk /\ occupied[r.cell])
                           => Use(k, r) \in {"stale", "poisoned"}
    BY DEF StaleFailsForever
  <2>1. r.cell \in Cells /\ r.epoch \in Epochs
    BY DEF Requests
  <2>2. returned[r.cell] <= repl[k][r.cell]
    BY <2>1 DEF Inv, ReturnedBehind
  <2>3. repl[k][r.cell] # r.epoch
    BY <2>1, <2>2 DEF TypeOK, Epochs
  <2>4. Use(k, r) # "ok"
    BY <2>3, UseOk
  <2>5. ASSUME r.wellFormed, r.classOk, occupied[r.cell]
        PROVE  Use(k, r) \in {"stale", "poisoned"}
    BY <2>3, <2>5 DEF Use
  <2> QED BY <2>4, <2>5
<1> QED BY <1>1, TypeCorrect, Invariance, PTL

\* T-E7: before the return a success is at most one generation old, and only
\* at a volume that has not acknowledged the bump in flight.
THEOREM RevocationWindow == Spec => []SuccessIsCurrentOrInFlight
<1>1. TypeOK /\ Inv => SuccessIsCurrentOrInFlight
  <2> SUFFICES ASSUME TypeOK, Inv, NEW k \in Volumes, NEW r \in Requests,
                      Use(k, r) = "ok", r.epoch # epoch[r.cell]
               PROVE  /\ pending # NoBump
                      /\ pending.cell = r.cell
                      /\ ~pending.acked[k]
                      /\ r.epoch + 1 = epoch[r.cell]
    BY DEF SuccessIsCurrentOrInFlight
  <2>1. r.cell \in Cells /\ r.epoch \in Epochs
    BY DEF Requests
  <2>2. repl[k][r.cell] = r.epoch /\ ~dead[r.cell]
    BY UseOk
  <2>3. pending # NoBump
    BY <2>1, <2>2 DEF Inv, SettledCoherent
  <2>4. pending.cell = r.cell /\ ~pending.acked[k] /\ SatInc(r.epoch) = epoch[r.cell]
    BY <2>1, <2>2, <2>3 DEF Inv, InFlightCoherent
  <2>5. epoch[r.cell] # MaxE
    BY <2>1, <2>2 DEF Inv, DeadIffSaturated, TypeOK
  <2>6. SatInc(r.epoch) = r.epoch + 1
    BY <2>1, <2>4, <2>5, SatIncFacts
  <2> QED BY <2>3, <2>4, <2>6
<1> QED BY <1>1, TypeCorrect, Invariance, PTL

\* No step revives a saturated cell or clears its poison.
LEMMA DispositionsOnlySet ==
  ASSUME TypeOK, Inv, [Next]_vars, NEW i \in Cells
  PROVE  /\ dead[i] => dead'[i] /\ epoch'[i] = MaxE
         /\ poison[i] => poison'[i]
<1>1. dead[i] => epoch[i] = MaxE
  BY DEF Inv, DeadIffSaturated
<1>2. ASSUME NEW j \in Cells, NEW p \in Policies, Bump(j, p)
      PROVE  /\ dead[i] => dead'[i] /\ epoch'[i] = MaxE
             /\ poison[i] => poison'[i]
  <2>1. epoch[i] = MaxE => epoch'[i] = MaxE
    BY <1>2, SatIncFacts DEF Bump, TypeOK
  <2>2. dead'[i] = IF i = j THEN dead[i] \/ SatInc(epoch[i]) = MaxE ELSE dead[i]
    BY <1>2 DEF Bump, TypeOK
  <2>3. poison'[i] = IF i = j THEN poison[i] \/ p = "poison" ELSE poison[i]
    BY <1>2 DEF Bump, TypeOK
  <2> QED BY <1>1, <2>1, <2>2, <2>3
<1>3. CASE UNCHANGED <<epoch, dead, poison>>
  BY <1>1, <1>3
<1>4. CASE \E k \in Volumes : Ack(k)
  BY <1>3, <1>4 DEF Ack, dispositions
<1>5. CASE BumpReturn
  BY <1>3, <1>5 DEF BumpReturn, dispositions
<1>6. CASE \E j \in Cells : Acquire(j) \/ Release(j)
  BY <1>3, <1>6 DEF Acquire, Release, dispositions
<1>7. CASE UNCHANGED vars
  BY <1>3, <1>7 DEF vars, dispositions
<1> QED BY <1>2, <1>4, <1>5, <1>6, <1>7 DEF Next

\* T-E2, T-E3: death and poison are permanent and admit no reference.
THEOREM DeathIsPermanent == Spec => DeathAndPoisonArePermanent
<1>1. ASSUME TypeOK, Inv, TypeOK', [Next]_vars, NEW i \in Cells,
             dead[i] \/ poison[i]
      PROVE  /\ dead[i] => dead'[i] /\ epoch'[i] = MaxE
             /\ poison[i] => poison'[i]
             /\ \A k \in Volumes, r \in Requests :
                  r.cell = i => Use(k, r)' # "ok"
  <2>1. /\ dead[i] => dead'[i] /\ epoch'[i] = MaxE
        /\ poison[i] => poison'[i]
    BY <1>1, DispositionsOnlySet
  <2>2. dead'[i] \/ poison'[i]
    BY <1>1, <2>1
  <2>3. ASSUME NEW k \in Volumes, NEW r \in Requests, r.cell = i
        PROVE  Use(k, r)' # "ok"
    <3>1. r.wellFormed \in BOOLEAN /\ r.classOk \in BOOLEAN
      BY DEF Requests
    <3>2. occupied'[i] \in BOOLEAN
      BY <1>1 DEF TypeOK
    <3> QED BY <2>2, <2>3, <3>1, <3>2 DEF Use
  <2> QED BY <2>1, <2>3
<1>2. TypeOK /\ Inv /\ TypeOK' /\ [Next]_vars
        => [ \A i \in Cells :
               (dead[i] \/ poison[i]) =>
                 /\ dead[i] => dead'[i] /\ epoch'[i] = MaxE
                 /\ poison[i] => poison'[i]
                 /\ \A k \in Volumes, r \in Requests :
                      r.cell = i => Use(k, r)' # "ok" ]_vars
  BY <1>1
<1> QED BY <1>2, TypeCorrect, Invariance, PTL DEF Spec, DeathAndPoisonArePermanent
=============================================================================

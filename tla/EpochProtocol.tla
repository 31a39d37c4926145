--------------------------- MODULE EpochProtocol ---------------------------
(***************************************************************************)
(* The epoch revocation protocol of Machines/Epoch/Protocol.lean.          *)
(*                                                                         *)
(* A home cell holds a saturating epoch.  Every referent volume checks     *)
(* references against its own replica of that epoch.  bump moves the home  *)
(* epoch at once; the replicas follow one by one when their volume         *)
(* acknowledges, and the bump returns only when all of them have.  Between *)
(* bump and bumpReturn a volume may still accept the old epoch; after the  *)
(* return none may, ever again.                                            *)
(*                                                                         *)
(* The use event of the source is a pure read, hence not an action here:   *)
(* Use is evaluated in every state by the properties.                      *)
(***************************************************************************)
EXTENDS Naturals

CONSTANTS
  Cells,      \* Fin N
  Volumes,    \* Fin K
  MaxE,       \* the saturated epoch, 2^W - 1
  NoBump,     \* pending = none
  MaxRc       \* bound on the referent count

ASSUME MaxEAssumption == MaxE \in Nat \ {0}
ASSUME MaxRcAssumption == MaxRc \in Nat

VARIABLES
  epoch, rc, poison, dead, occupied,  \* the fields of the home cells
  repl,       \* repl[k][i]: the replica volume k checks cell i against
  pending,    \* the bump in flight, or NoBump
  returned    \* history: home epoch of each cell when its last bump returned

dispositions == <<poison, dead>>
vars == <<epoch, rc, dispositions, occupied, repl, pending, returned>>

Policies == {"lazy", "poison"}
Epochs == 0 .. MaxE

Bumps == [cell : Cells, target : Epochs, policy : Policies,
          acked : [Volumes -> BOOLEAN]]

ASSUME NoBumpAssumption == NoBump \notin Bumps

(***************************************************************************)
(* satInc (lines 126-130): at the maximum the counter stands still.        *)
(***************************************************************************)

SatInc(e) == IF e = MaxE THEN e ELSE e + 1

(***************************************************************************)
(* useLocal and use (lines 202-220): structure, then poison, then          *)
(* freshness, then rights.  A request names a cell or is out of range.     *)
(***************************************************************************)
Requests == [cell : Cells, epoch : Epochs, wellFormed : BOOLEAN,
             classOk : BOOLEAN, rights : BOOLEAN]

Use(k, r) ==
  LET i == r.cell
  IN CASE ~r.wellFormed -> "badref"
       [] r.wellFormed /\ ~occupied[i] ->
            IF repl[k][i] = r.epoch THEN "badref" ELSE "stale"
       [] r.wellFormed /\ occupied[i] /\ ~r.classOk -> "badref"
       [] r.wellFormed /\ occupied[i] /\ r.classOk ->
            IF poison[i] THEN "poisoned"
            ELSE IF dead[i] \/ repl[k][i] # r.epoch THEN "stale"
            ELSE IF r.rights THEN "ok" ELSE "denied"

(***************************************************************************)
(* Transitions (stepEv, lines 246-273).                                    *)
(***************************************************************************)

\* Mutant: a second bump while one is in flight.
BumpWhilePending(i, p) ==
  /\ epoch' = [epoch EXCEPT ![i] = SatInc(@)]
  /\ poison' = [poison EXCEPT ![i] = @ \/ p = "poison"]
  /\ dead' = [dead EXCEPT ![i] = @ \/ SatInc(epoch[i]) = MaxE]
  /\ pending' = [cell |-> i, target |-> SatInc(epoch[i]), policy |-> p,
                 acked |-> [k \in Volumes |-> FALSE]]
  /\ UNCHANGED <<rc, occupied, repl, returned>>
Bump(i, p) ==
  /\ pending = NoBump
  /\ epoch' = [epoch EXCEPT ![i] = SatInc(@)]
  /\ poison' = [poison EXCEPT ![i] = @ \/ p = "poison"]
  /\ dead' = [dead EXCEPT ![i] = @ \/ SatInc(epoch[i]) = MaxE]
  /\ pending' = [cell |-> i, target |-> SatInc(epoch[i]), policy |-> p,
                 acked |-> [k \in Volumes |-> FALSE]]
  /\ UNCHANGED <<rc, occupied, repl, returned>>

\* Mutant: an acknowledgement that is lost.
AckLost(k) ==
  /\ pending # NoBump
  /\ repl' = [repl EXCEPT ![k][pending.cell] = pending.target]
  /\ UNCHANGED <<epoch, rc, dispositions, occupied, pending, returned>>
Ack(k) ==
  /\ pending # NoBump
  /\ repl' = [repl EXCEPT ![k][pending.cell] = pending.target]
  /\ pending' = [pending EXCEPT !.acked[k] = TRUE]
  /\ UNCHANGED <<epoch, rc, dispositions, occupied, returned>>

\* Mutant: the first acknowledgement is enough.
BumpReturnOnFirstAck ==
  /\ pending # NoBump
  /\ \E k \in Volumes : pending.acked[k]
  /\ pending' = NoBump
  /\ returned' = [returned EXCEPT ![pending.cell] = epoch[pending.cell]]
  /\ UNCHANGED <<epoch, rc, dispositions, occupied, repl>>
BumpReturn ==
  /\ pending # NoBump
  /\ \A k \in Volumes : pending.acked[k]
  /\ pending' = NoBump
  /\ returned' = [returned EXCEPT ![pending.cell] = epoch[pending.cell]]
  /\ UNCHANGED <<epoch, rc, dispositions, occupied, repl>>

Acquire(i) ==
  /\ rc[i] < MaxRc
  /\ rc' = [rc EXCEPT ![i] = @ + 1]
  /\ UNCHANGED <<epoch, dispositions, occupied, repl, pending, returned>>

\* Natural-number subtraction: releasing at zero leaves zero.
Release(i) ==
  /\ rc' = [rc EXCEPT ![i] = IF @ = 0 THEN 0 ELSE @ - 1]
  /\ UNCHANGED <<epoch, dispositions, occupied, repl, pending, returned>>

Init ==
  /\ epoch \in [Cells -> 1 .. MaxE]
  /\ rc \in [Cells -> 0 .. MaxRc]
  /\ poison = [i \in Cells |-> FALSE]
  /\ dead = [i \in Cells |-> epoch[i] = MaxE]
  /\ occupied \in [Cells -> BOOLEAN]
  /\ repl = [k \in Volumes |-> epoch]
  /\ pending = NoBump
  /\ returned = epoch

Next ==
  \/ \E i \in Cells, p \in Policies : Bump(i, p)
  \/ \E k \in Volumes : Ack(k)
  \/ BumpReturn
  \/ \E i \in Cells : Acquire(i) \/ Release(i)

Spec == Init /\ [][Next]_vars

(***************************************************************************)
(* The scheduling hypothesis of Bounded.lean (AckStep): a volume that has  *)
(* not acknowledged eventually does, and a complete bump returns.  Without *)
(* it use, acquire and release may run forever (unbounded_without_         *)
(* fairness).                                                              *)
(***************************************************************************)
FreshAck(k) == pending # NoBump /\ ~pending.acked[k] /\ Ack(k)

Fairness ==
  /\ \A k \in Volumes : WF_vars(FreshAck(k))
  /\ WF_vars(BumpReturn)

FairSpec == Spec /\ Fairness

-----------------------------------------------------------------------------

TypeOK ==
  /\ epoch \in [Cells -> Epochs]
  /\ rc \in [Cells -> Nat]
  /\ poison \in [Cells -> BOOLEAN]
  /\ dead \in [Cells -> BOOLEAN]
  /\ occupied \in [Cells -> BOOLEAN]
  /\ repl \in [Volumes -> [Cells -> Epochs]]
  /\ pending \in Bumps \union {NoBump}
  /\ returned \in [Cells -> Epochs]

(***************************************************************************)
(* T-E1 and T-E5, the return guarantee: once a bump of cell i has returned,*)
(* no volume accepts a reference older than the epoch it published, and a  *)
(* well formed one fails as stale or poisoned.                             *)
(***************************************************************************)
StaleFailsForever ==
  \A k \in Volumes, r \in Requests :
    r.epoch < returned[r.cell] =>
      /\ Use(k, r) # "ok"
      /\ (r.wellFormed /\ r.classOk /\ occupied[r.cell])
           => Use(k, r) \in {"stale", "poisoned"}

(***************************************************************************)
(* T-E7 bounded from above: a use that succeeds carries the home epoch,    *)
(* or a bump of that very cell is in flight, this volume has not           *)
(* acknowledged it, and the reference is exactly one generation old.       *)
(***************************************************************************)
SuccessIsCurrentOrInFlight ==
  \A k \in Volumes, r \in Requests :
    Use(k, r) = "ok" =>
      \/ r.epoch = epoch[r.cell]
      \/ /\ pending # NoBump
         /\ pending.cell = r.cell
         /\ ~pending.acked[k]
         /\ r.epoch + 1 = epoch[r.cell]

(***************************************************************************)
(* T-E2 and T-E3: saturation and poisoning are permanent, and a cell in    *)
(* either state accepts no reference at any volume, current ones included. *)
(***************************************************************************)
DeathAndPoisonArePermanent ==
  [][ \A i \in Cells :
        (dead[i] \/ poison[i]) =>
          /\ dead[i] => dead'[i] /\ epoch'[i] = MaxE
          /\ poison[i] => poison'[i]
          /\ \A k \in Volumes, r \in Requests :
               r.cell = i => Use(k, r)' # "ok" ]_vars

\* T-E8: a bump whose volumes keep answering returns.
BumpReturns == (pending # NoBump) ~> (pending = NoBump)

(***************************************************************************)
(* The inductive invariant (Inv, lines 304-318): no replica runs ahead of  *)
(* its home; with no bump in flight every replica equals its home; a bump  *)
(* in flight broadcasts the home epoch, disturbs no other cell, and leaves *)
(* the volumes that have not acknowledged one generation behind.           *)
(***************************************************************************)
DeadIffSaturated == \A i \in Cells : dead[i] <=> epoch[i] = MaxE

EpochNonzero == \A i \in Cells : epoch[i] # 0

SettledCoherent ==
  pending = NoBump => \A k \in Volumes, i \in Cells : repl[k][i] = epoch[i]

InFlightCoherent ==
  pending # NoBump =>
    /\ pending.target = epoch[pending.cell]
    /\ \A k \in Volumes, i \in Cells :
         IF i = pending.cell /\ ~pending.acked[k]
         THEN SatInc(repl[k][i]) = epoch[i]
         ELSE repl[k][i] = epoch[i]

ReturnedBehind ==
  \A i \in Cells :
    /\ returned[i] <= epoch[i]
    /\ \A k \in Volumes : returned[i] <= repl[k][i]

Inv ==
  /\ DeadIffSaturated
  /\ EpochNonzero
  /\ SettledCoherent
  /\ InFlightCoherent
  /\ ReturnedBehind
=============================================================================

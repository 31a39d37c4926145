------------------------------ MODULE GateCore ------------------------------
(***************************************************************************)
(* The core of LNP64-mu as a scheduler: refill, issue with its upfront     *)
(* charge, countdown, retirement, and the gate activations that let one    *)
(* domain run on another's budget (Machines/Lnp64u/Step.lean, gate_call,   *)
(* gate_return, yield and halt of Isa/System.lean, haltDom of Kernel.lean).*)
(*                                                                         *)
(* One step is one machine cycle.  Programs are arbitrary: which           *)
(* instruction a domain issues, whether its fetch or a later check faults, *)
(* and whether the handle it presents is good are all nondeterministic.    *)
(* Capabilities, memory and the Mover are in CapKernel.                    *)
(***************************************************************************)
EXTENDS Integers, FiniteSets

CONSTANTS
  Domains, Gates,
  Callee,         \* GateConfig.callee
  Priority,       \* DomainCfg: distinct, the higher wins
  Quota,          \* budgetQ
  Period,         \* periodP
  MaxDonation,    \* maxDonation of the calling domain
  Hyperperiod,    \* a common multiple of the periods; see phase
  MaxChainDepth,
  PlainCosts,     \* costs of the instructions that touch nothing here
  GateCost,       \* cost of gate_call and gate_return
  SchedCost,      \* cost of yield and halt
  None

Activations == [caller : Domains, savedServing : Gates \union {None},
                depth : 1 .. MaxChainDepth, donated : Nat]

ASSUME NoneAssumption == None \notin Gates \union Activations
ASSUME GatesAssumption == {"running", "halted"} \intersect Gates = {}
ASSUME ManifestAssumption ==
  /\ Callee \in [Gates -> Domains]
  /\ Priority \in [Domains -> Nat]
  /\ Period \in [Domains -> Nat \ {0}]
  /\ Quota \in [Domains -> Nat]
  /\ MaxDonation \in [Domains -> Nat]
  /\ \A d, e \in Domains : Priority[d] = Priority[e] => d = e
  /\ \A d \in Domains : Quota[d] <= Period[d]
ASSUME HyperperiodAssumption ==
  Hyperperiod \in Nat \ {0} /\ \A d \in Domains : Hyperperiod % Period[d] = 0
ASSUME CostAssumption ==
  /\ PlainCosts \subseteq Nat \ {0}
  /\ GateCost \in Nat \ {0}
  /\ SchedCost \in Nat \ {0}
ASSUME ChainAssumption == MaxChainDepth \in Nat \ {0}

VARIABLES
  phase,     \* cycle % Hyperperiod: every period divides the 2^32 of cycle
  budget,    \* cycles left in the current period
  run,       \* "running", "halted", or the gate the domain is blocked on
  serving,   \* the gate a domain is serving, or None
  act,       \* act[g]: the activation of gate g, or None
  inflight,  \* the issued instruction, or None
  yielded    \* history: retired a yield since its last refill

gateVars == <<run, serving, act>>
vars == <<phase, budget, gateVars, inflight, yielded>>

\* An instruction word, as far as scheduling can tell: a call of some gate,
\* or one of these.
Ops == Gates \union {"plain", "return", "yield", "halt"}

CostsOf(op) ==
  IF op \in Gates \union {"return"} THEN {GateCost}
  ELSE IF op = "plain" THEN PlainCosts ELSE {SchedCost}

\* d runs inside a live activation.
Unwinds(d) == serving[d] # None /\ act[serving[d]] # None

\* chainOrigin with n cycles of fuel.
Origin[n \in 0 .. MaxChainDepth] ==
  [d \in Domains |->
     IF n > 0 /\ Unwinds(d) THEN Origin[n - 1][act[serving[d]].caller] ELSE d]

\* The budget payer of a domain.

\* Mutant: the direct caller pays.
PayerOneHop(d) ==
  IF serving[d] # None /\ act[serving[d]] # None THEN act[serving[d]].caller ELSE d
Payer(d) == Origin[MaxChainDepth][d]

\* refillPhase: the budgets the core phase of this cycle sees.
AtBoundary(d) == phase % Period[d] = 0
Refilled == [d \in Domains |-> IF AtBoundary(d) THEN Quota[d] ELSE budget[d]]

Eligible == {d \in Domains : run[d] = "running" /\ Refilled[Payer(d)] > 0}

\* schedule: the eligible domain of highest priority.
Scheduled(d) == d \in Eligible /\ \A e \in Eligible : Priority[e] <= Priority[d]

\* haltDom: terminal; an activation d was serving unwinds to its caller.

\* Mutant: the activation is not unwound.
HaltDomKeepsGate(d) ==
  /\ run' = [run EXCEPT ![d] = "halted"]
  /\ serving' = [serving EXCEPT ![d] = None]
  /\ UNCHANGED act
HaltDom(d) ==
  /\ run' = IF Unwinds(d)
            THEN [run EXCEPT ![d] = "halted", ![act[serving[d]].caller] = "running"]
            ELSE [run EXCEPT ![d] = "halted"]
  /\ act' = IF Unwinds(d) THEN [act EXCEPT ![serving[d]] = None] ELSE act
  /\ serving' = [serving EXCEPT ![d] = None]

-----------------------------------------------------------------------------
(***************************************************************************)
(* Retirement of the instruction d issued.                                 *)
(***************************************************************************)
Fault(d) == HaltDom(d) /\ budget' = Refilled

Plain(d) == budget' = Refilled /\ UNCHANGED gateVars

Yield(d) == budget' = [Refilled EXCEPT ![d] = 0] /\ UNCHANGED gateVars

CallDepth(d) ==
  IF serving[d] # None /\ act[serving[d]] # None
  THEN act[serving[d]].depth + 1
  ELSE 1

CanCall(d, g) ==
  /\ act[g] = None
  /\ Callee[g] # d
  /\ run[Callee[g]] = "running"
  /\ serving[Callee[g]] = None
  /\ CallDepth(d) <= MaxChainDepth

GateCall(d, g) ==
  /\ CanCall(d, g)
  /\ act' = [act EXCEPT ![g] = [caller |-> d, savedServing |-> serving[Callee[g]],
                                depth |-> CallDepth(d), donated |-> MaxDonation[d]]]
  /\ serving' = [serving EXCEPT ![Callee[g]] = g]
  /\ run' = [run EXCEPT ![d] = g]
  /\ budget' = Refilled

GateReturn(d) ==
  /\ Unwinds(d)
  /\ LET a == act[serving[d]]
     IN /\ serving' = [serving EXCEPT ![d] = a.savedServing]
        /\ run' = [run EXCEPT ![a.caller] = "running"]
  /\ act' = [act EXCEPT ![serving[d]] = None]
  /\ budget' = Refilled

\* Every instruction may also end with an errno (a stale handle, a busy gate,
\* no room for the transferred capability), which is Plain; loads, stores and
\* move may fault, and so does a return outside an activation.
Execute(d, op) ==
  \/ op \in Gates /\ (GateCall(d, op) \/ Plain(d))
  \/ op = "return" /\ IF Unwinds(d) THEN GateReturn(d) \/ Plain(d) ELSE Fault(d)
  \/ op = "plain" /\ (Plain(d) \/ Fault(d))
  \/ op = "yield" /\ Yield(d)
  \/ op = "halt" /\ Fault(d)

-----------------------------------------------------------------------------
(***************************************************************************)
(* The core phase.                                                         *)
(***************************************************************************)
Retire ==
  /\ inflight # None /\ inflight.cyclesLeft <= 1
  /\ inflight' = None
  /\ Execute(inflight.dom, inflight.op)

Burn ==
  /\ inflight # None /\ inflight.cyclesLeft > 1
  /\ inflight' = [inflight EXCEPT !.cyclesLeft = @ - 1]
  /\ budget' = Refilled
  /\ UNCHANGED gateVars

\* The whole cost is charged to the payer; a serving domain also draws down
\* the donation of its activation.
Launch(d, op, cost) ==
  /\ budget' = [Refilled EXCEPT ![Payer(d)] = @ - cost]
  /\ act' = IF serving[d] = None THEN act
            ELSE [act EXCEPT ![serving[d]].donated = @ - cost]
  /\ inflight' = [dom |-> d, op |-> op, cyclesLeft |-> cost]
  /\ UNCHANGED <<run, serving>>

\* Mutant: an underfunded issue only waits (the third refutation of
\* Theorems/T6.lean).
ChargeStalls(d, op, cost) ==
  IF cost <= Refilled[Payer(d)]
  THEN IF serving[d] = None \/ cost <= act[serving[d]].donated THEN Launch(d, op, cost)
       ELSE Fault(d) /\ UNCHANGED inflight
  ELSE budget' = Refilled /\ UNCHANGED <<gateVars, inflight>>
Charge(d, op, cost) ==
  IF cost <= Refilled[Payer(d)]
  THEN IF serving[d] = None THEN Launch(d, op, cost)
       ELSE IF act[serving[d]] # None /\ cost <= act[serving[d]].donated
            THEN Launch(d, op, cost)
            ELSE Fault(d) /\ UNCHANGED inflight
  ELSE IF serving[d] = None
       THEN /\ budget' = [Refilled EXCEPT ![Payer(d)] = 0]
            /\ UNCHANGED <<gateVars, inflight>>
       ELSE Fault(d) /\ UNCHANGED inflight

\* Fetch or decode may fail, which is a fault before any charge.
Issue(d) ==
  /\ inflight = None
  /\ Scheduled(d)
  /\ \/ \E op \in Ops : \E cost \in CostsOf(op) : Charge(d, op, cost)
     \/ Fault(d) /\ UNCHANGED inflight

NothingToIssue ==
  /\ inflight = None
  /\ Eligible = {}
  /\ budget' = Refilled
  /\ UNCHANGED <<gateVars, inflight>>

Retires(d, op) ==
  inflight # None /\ inflight.cyclesLeft <= 1 /\ inflight.dom = d /\ inflight.op = op

\* One cycle.
Next ==
  /\ Retire \/ Burn \/ NothingToIssue \/ \E d \in Domains : Issue(d)
  /\ phase' = (phase + 1) % Hyperperiod
  /\ yielded' = [d \in Domains |->
                   Retires(d, "yield") \/ (yielded[d] /\ ~AtBoundary(d))]

Init ==
  /\ phase = 0
  /\ budget = Quota
  /\ run = [d \in Domains |-> "running"]
  /\ serving = [d \in Domains |-> None]
  /\ act = [g \in Gates |-> None]
  /\ inflight = None
  /\ yielded = [d \in Domains |-> FALSE]

Spec == Init /\ [][Next]_vars

\* The clock keeps ticking.
FairSpec == Spec /\ WF_vars(Next)

-----------------------------------------------------------------------------


TypeOK ==
  /\ phase \in 0 .. Hyperperiod - 1
  /\ budget \in [Domains -> Nat]
  /\ run \in [Domains -> Gates \union {"running", "halted"}]
  /\ serving \in [Domains -> Gates \union {None}]
  /\ act \in [Gates -> Activations \union {None}]
  /\ inflight \in [dom : Domains, op : Ops, cyclesLeft : Nat \ {0}] \union {None}
  /\ yielded \in [Domains -> BOOLEAN]

(***************************************************************************)
(* The gate records, the serving marks and the blocked domains describe    *)
(* one another, through calls, returns and forced unwinds (Wf, gate_serving*)
(* to gate_saved_none): no caller is left blocked on a freed gate, no gate *)
(* stays taken by a domain that stopped serving it, and a domain that      *)
(* halted serves nothing.                                                  *)
(***************************************************************************)
GatesConsistent ==
  /\ \A g \in Gates :
       act[g] # None =>
         /\ serving[Callee[g]] = g
         /\ run[act[g].caller] = g
         /\ act[g].savedServing = None
  /\ \A d \in Domains :
       /\ serving[d] # None => Callee[serving[d]] = d /\ act[serving[d]] # None
       /\ run[d] \in Gates => act[run[d]] # None /\ act[run[d]].caller = d
       /\ run[d] = "halted" => serving[d] = None

(***************************************************************************)
(* Donation: whatever runs is paid for by the domain at the origin of its  *)
(* serving chain, a blocked domain that serves no one itself, and that     *)
(* domain pays for no other chain.                                         *)
(***************************************************************************)
PayerIsOrigin ==
  \A d \in Domains :
    run[d] = "running" /\ serving[d] # None =>
      /\ serving[Payer(d)] = None
      /\ run[Payer(d)] \in Gates
      /\ \A e \in Domains : run[e] = "running" /\ Payer(e) = Payer(d) => e = d

\* T9: no budget exceeds its quota, no activation its donation.
BudgetsBounded ==
  /\ \A d \in Domains : 0 <= budget[d] /\ budget[d] <= Quota[d]
  /\ \A g \in Gates :
       act[g] # None => 0 <= act[g].donated /\ act[g].donated <= MaxDonation[act[g].caller]

\* The instruction in flight belongs to a running domain.
InflightRunning == inflight # None => run[inflight.dom] = "running"

(***************************************************************************)
(* T6, no hostage: whatever the callee does (returns, faults, halts, loops *)
(* or calls deeper), a blocked caller resumes.  Holds for manifests that   *)
(* are strictly schedulable: StrictlySchedulable of Theorems/T6.lean.      *)
(***************************************************************************)
NoHostage == \A d \in Domains : (run[d] \in Gates) ~> (run[d] \notin Gates)

(***************************************************************************)
(* What the manual says of yield (Isa/System.lean lines 374-376): it gives *)
(* up the rest of the period, the domain is rescheduled at its next refill.*)
(* The code empties the domain's own budget; called through a gate before  *)
(* the refill, the domain is issued on its caller's.                       *)
(***************************************************************************)
YieldGivesUpPeriod ==
  [][ \A d \in Domains :
        (inflight = None /\ inflight' # None /\ inflight'.dom = d)
          => ~yielded[d] \/ AtBoundary(d) ]_vars
=============================================================================

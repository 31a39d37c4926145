--------------------------- MODULE GateCoreProofs ---------------------------
(***************************************************************************)
(* Proofs about GateCore for every manifest: any number of domains and     *)
(* gates, any callees, priorities, quotas and periods.                     *)
(*                                                                         *)
(* Types, gates and budgets hold whatever domain Payer names; that it names *)
(* the origin of the serving chain needs the depths recorded in the        *)
(* activations (DepthsExact): they bound the walk by its fuel.             *)
(***************************************************************************)
EXTENDS GateCore, Induction

\* The cost of an instruction is positive.
LEMMA CostsPositive ==
  ASSUME NEW op \in Ops, NEW cost \in CostsOf(op)
  PROVE  cost \in Nat \ {0}
BY CostAssumption DEF CostsOf

\* The budgets after the refill phase.
LEMMA RefilledType ==
  ASSUME TypeOK
  PROVE  Refilled \in [Domains -> Nat]
BY ManifestAssumption DEF TypeOK, Refilled

\* The three values a cycle can leave in the budgets.
BudgetStep ==
  \/ budget' = Refilled
  \/ \E x : budget' = [Refilled EXCEPT ![x] = 0]
  \/ \E x : \E cost \in Nat : cost <= Refilled[x] /\ budget' = [Refilled EXCEPT ![x] = @ - cost]

\* A launched instruction draws on the donation of the gate its domain serves.
DrawDown(d, cost) ==
  /\ serving[d] # None => act[serving[d]] # None /\ cost <= act[serving[d]].donated
  /\ act' = IF serving[d] = None THEN act
            ELSE [act EXCEPT ![serving[d]].donated = @ - cost]
  /\ UNCHANGED <<run, serving>>

\* What a cycle does to the gates, on behalf of a running domain d.
GateStep(d) ==
  \/ HaltDom(d)
  \/ \E g \in Gates : GateCall(d, g)
  \/ GateReturn(d)
  \/ \E cost \in Nat : DrawDown(d, cost)

\* What a cycle does to the latched instruction.
LatchStep ==
  \/ inflight' = None
  \/ /\ inflight # None /\ UNCHANGED gateVars
     /\ inflight' = [inflight EXCEPT !.cyclesLeft = @ - 1]
     /\ inflight'.cyclesLeft \in Nat \ {0}
  \/ \E d \in Domains, op \in Ops, cost \in Nat \ {0} :
       /\ run[d] = "running" /\ UNCHANGED run
       /\ inflight' = [dom |-> d, op |-> op, cyclesLeft |-> cost]

\* An executed instruction changes the gates in one of these ways.
LEMMA ExecuteCases ==
  ASSUME TypeOK, NEW d \in Domains, NEW op \in Ops, Execute(d, op)
  PROVE  BudgetStep /\ (UNCHANGED gateVars \/ GateStep(d))
<1>1. Plain(d) => BudgetStep /\ UNCHANGED gateVars
  BY DEF Plain, BudgetStep
<1>2. Fault(d) => BudgetStep /\ GateStep(d)
  BY DEF Fault, BudgetStep, GateStep
<1>3. ASSUME NEW g \in Gates, GateCall(d, g) PROVE BudgetStep /\ GateStep(d)
  BY <1>3 DEF GateCall, BudgetStep, GateStep
<1>4. GateReturn(d) => BudgetStep /\ GateStep(d)
  BY DEF GateReturn, BudgetStep, GateStep
<1>5. Yield(d) => BudgetStep /\ UNCHANGED gateVars
  BY DEF Yield, BudgetStep
<1> QED BY <1>1, <1>2, <1>3, <1>4, <1>5 DEF Execute

\* An issue either launches, is refused, or faults.
LEMMA ChargeCases ==
  ASSUME TypeOK, NEW d \in Domains, run[d] = "running", inflight = None,
         NEW op \in Ops, NEW cost \in CostsOf(op), Charge(d, op, cost)
  PROVE  BudgetStep /\ LatchStep /\ (UNCHANGED gateVars \/ GateStep(d))
<1>1. cost \in Nat \ {0}
  BY CostsPositive
<1>2. CASE Fault(d) /\ UNCHANGED inflight
  BY <1>2 DEF Fault, BudgetStep, GateStep, LatchStep
<1>3. CASE budget' = [Refilled EXCEPT ![Payer(d)] = 0] /\ UNCHANGED <<gateVars, inflight>>
  BY <1>3 DEF BudgetStep, LatchStep
<1>4. CASE /\ Launch(d, op, cost) /\ cost <= Refilled[Payer(d)]
           /\ serving[d] # None => act[serving[d]] # None /\ cost <= act[serving[d]].donated
  <2>1. BudgetStep
    BY <1>1, <1>4 DEF Launch, BudgetStep
  <2>2. LatchStep
    BY <1>1, <1>4 DEF Launch, LatchStep
  <2>3. DrawDown(d, cost)
    BY <1>4 DEF Launch, DrawDown
  <2> QED BY <1>1, <2>1, <2>2, <2>3 DEF GateStep
<1> QED BY <1>2, <1>3, <1>4 DEF Charge

\* One cycle, as far as types, gates and budgets are concerned.
LEMMA NextCases ==
  ASSUME TypeOK, InflightRunning, Next
  PROVE  /\ BudgetStep /\ LatchStep
         /\ \/ UNCHANGED gateVars
            \/ \E d \in Domains : run[d] = "running" /\ GateStep(d)
         /\ phase' = (phase + 1) % Hyperperiod
         /\ yielded' \in [Domains -> BOOLEAN]
<1>1. /\ phase' = (phase + 1) % Hyperperiod
      /\ yielded' \in [Domains -> BOOLEAN]
  BY DEF Next, Retires, TypeOK
<1>2. CASE Retire
  <2>1. /\ inflight # None /\ inflight' = None
        /\ Execute(inflight.dom, inflight.op)
        /\ inflight.dom \in Domains /\ inflight.op \in Ops
        /\ run[inflight.dom] = "running"
    BY <1>2 DEF Retire, TypeOK, InflightRunning
  <2> QED BY <1>1, <2>1, ExecuteCases DEF LatchStep
<1>3. CASE Burn
  <2>1. BudgetStep /\ UNCHANGED gateVars
    BY <1>3 DEF Burn, BudgetStep
  <2>2. LatchStep
    BY <1>3 DEF Burn, LatchStep, TypeOK
  <2> QED BY <1>1, <2>1, <2>2
<1>4. CASE NothingToIssue
  BY <1>1, <1>4 DEF NothingToIssue, BudgetStep, LatchStep
<1>5. ASSUME NEW d \in Domains, Issue(d)
      PROVE  BudgetStep /\ LatchStep /\ run[d] = "running"
             /\ (UNCHANGED gateVars \/ GateStep(d))
  <2>1. inflight = None /\ run[d] = "running"
    BY <1>5 DEF Issue, Scheduled, Eligible
  <2>2. CASE \E op \in Ops : \E cost \in CostsOf(op) : Charge(d, op, cost)
    BY <2>1, <2>2, ChargeCases
  <2>3. CASE Fault(d) /\ UNCHANGED inflight
    BY <2>1, <2>3 DEF Fault, BudgetStep, GateStep, LatchStep
  <2> QED BY <1>5, <2>1, <2>2, <2>3 DEF Issue
<1> QED BY <1>1, <1>2, <1>3, <1>4, <1>5 DEF Next
-----------------------------------------------------------------------------

\* A call records an activation no deeper than the chain may be.
LEMMA NewActivation ==
  ASSUME TypeOK, NEW d \in Domains, NEW h \in Gates, GateCall(d, h)
  PROVE  [caller |-> d, savedServing |-> serving[Callee[h]], depth |-> CallDepth(d),
          donated |-> MaxDonation[d]] \in Activations
<1>1. CallDepth(d) <= MaxChainDepth
  BY DEF GateCall, CanCall
<1>2. CallDepth(d) \in Nat \ {0}
  <2>1. CASE serving[d] # None /\ act[serving[d]] # None
    <3>1. act[serving[d]] \in Activations
      BY <2>1 DEF TypeOK
    <3> QED BY <2>1, <3>1, ChainAssumption DEF CallDepth, Activations
  <2>2. CASE ~(serving[d] # None /\ act[serving[d]] # None)
    BY <2>2 DEF CallDepth
  <2> QED BY <2>1, <2>2
<1>3. CallDepth(d) \in 1 .. MaxChainDepth
  BY <1>1, <1>2, ChainAssumption
<1>4. Callee[h] \in Domains /\ MaxDonation[d] \in Nat
  BY ManifestAssumption
<1> QED BY <1>3, <1>4 DEF Activations, TypeOK

\* No step of a gate leaves the types.
LEMMA GateStepType ==
  ASSUME TypeOK, NEW d \in Domains, GateStep(d)
  PROVE  /\ run' \in [Domains -> Gates \union {"running", "halted"}]
         /\ serving' \in [Domains -> Gates \union {None}]
         /\ act' \in [Gates -> Activations \union {None}]
<1> DEFINE g == serving[d]
<1>1. /\ run \in [Domains -> Gates \union {"running", "halted"}]
      /\ serving \in [Domains -> Gates \union {None}]
      /\ act \in [Gates -> Activations \union {None}]
      /\ g \in Gates \union {None}
  BY DEF TypeOK
<1>2. g # None => g \in Gates /\ act[g] \in Activations \union {None}
  BY <1>1
<1>3. Unwinds(d) => /\ g \in Gates /\ act[g] \in Activations
                    /\ act[g].caller \in Domains
                    /\ act[g].savedServing \in Gates \union {None}
  BY <1>1, <1>2 DEF Unwinds, Activations
<1>4. CASE HaltDom(d)
  BY <1>1, <1>3, <1>4 DEF HaltDom
<1>5. CASE \E h \in Gates : GateCall(d, h)
  <2>1. PICK h \in Gates : GateCall(d, h)
    BY <1>5
  <2>2. Callee[h] \in Domains
    BY ManifestAssumption
  <2>3. [caller |-> d, savedServing |-> serving[Callee[h]], depth |-> CallDepth(d),
         donated |-> MaxDonation[d]] \in Activations
    BY <2>1, NewActivation
  <2> QED BY <1>1, <2>1, <2>2, <2>3 DEF GateCall
<1>6. CASE GateReturn(d)
  BY <1>1, <1>3, <1>6 DEF GateReturn
<1>7. CASE \E cost \in Nat : DrawDown(d, cost)
  <2>1. PICK cost \in Nat : DrawDown(d, cost)
    BY <1>7
  <2>2. CASE g = None
    BY <1>1, <2>1, <2>2 DEF DrawDown
  <2>3. CASE g # None
    <3>1. g \in Gates /\ act[g] \in Activations /\ cost <= act[g].donated
      BY <1>2, <2>1, <2>3 DEF DrawDown
    <3>2. [act[g] EXCEPT !.donated = @ - cost] \in Activations
      BY <3>1 DEF Activations
    <3>3. act' = [act EXCEPT ![g] = [act[g] EXCEPT !.donated = @ - cost]]
      BY <1>1, <2>1, <2>3, <3>1 DEF DrawDown
    <3> QED BY <1>1, <2>1, <3>1, <3>2, <3>3 DEF DrawDown
  <2> QED BY <2>2, <2>3
<1> QED BY <1>4, <1>5, <1>6, <1>7 DEF GateStep

\* The gates are disjoint from the other run states.
LEMMA RunStates ==
  ASSUME NEW g \in Gates PROVE g # "running" /\ g # "halted" /\ g # None
BY GatesAssumption, NoneAssumption

\* A cycle keeps the types.
LEMMA TypeStep == TypeOK /\ InflightRunning /\ [Next]_vars => TypeOK'
<1> SUFFICES ASSUME TypeOK, InflightRunning, [Next]_vars PROVE TypeOK'
  OBVIOUS
<1>1. CASE Next
  <2>1. phase' \in 0 .. Hyperperiod - 1
    BY <1>1, NextCases, HyperperiodAssumption DEF TypeOK
  <2>2. budget' \in [Domains -> Nat]
    <3>1. BudgetStep /\ Refilled \in [Domains -> Nat]
      BY <1>1, NextCases, RefilledType
    <3>2. ASSUME NEW x, NEW cost \in Nat, cost <= Refilled[x],
                 budget' = [Refilled EXCEPT ![x] = @ - cost]
          PROVE  budget' \in [Domains -> Nat]
      <4>1. ASSUME NEW y \in Domains
            PROVE  (IF y = x THEN Refilled[y] - cost ELSE Refilled[y]) \in Nat
        BY <3>1, <3>2
      <4>2. budget' = [y \in Domains |-> IF y = x THEN Refilled[y] - cost ELSE Refilled[y]]
        BY <3>1, <3>2
      <4> QED BY <4>1, <4>2
    <3> QED BY <3>1, <3>2 DEF BudgetStep
  <2>3. /\ run' \in [Domains -> Gates \union {"running", "halted"}]
        /\ serving' \in [Domains -> Gates \union {None}]
        /\ act' \in [Gates -> Activations \union {None}]
    <3>1. CASE UNCHANGED gateVars
      BY <3>1 DEF gateVars, TypeOK
    <3> QED BY <1>1, <3>1, NextCases, GateStepType
  <2>4. inflight' \in [dom : Domains, op : Ops, cyclesLeft : Nat \ {0}] \union {None}
    <3>1. LatchStep
      BY <1>1, NextCases
    <3>2. CASE /\ inflight # None
               /\ inflight' = [inflight EXCEPT !.cyclesLeft = @ - 1]
               /\ inflight'.cyclesLeft \in Nat \ {0}
      BY <3>2 DEF TypeOK
    <3> QED BY <3>1, <3>2 DEF LatchStep
  <2>5. yielded' \in [Domains -> BOOLEAN]
    BY <1>1, NextCases
  <2> QED BY <2>1, <2>2, <2>3, <2>4, <2>5 DEF TypeOK
<1>2. CASE UNCHANGED vars
  BY <1>2 DEF vars, gateVars, TypeOK
<1> QED BY <1>1, <1>2

\* An instruction is latched only by a running domain, and nothing stops that
\* domain until it retires: while the latch is full no other domain acts.
LEMMA InflightStep == TypeOK /\ InflightRunning /\ [Next]_vars => InflightRunning'
<1> SUFFICES ASSUME TypeOK, InflightRunning, [Next]_vars PROVE InflightRunning'
  OBVIOUS
<1>1. CASE Next
  <2>1. LatchStep
    BY <1>1, NextCases
  <2>2. CASE /\ inflight # None /\ UNCHANGED gateVars
             /\ inflight' = [inflight EXCEPT !.cyclesLeft = @ - 1]
    <3>1. inflight'.dom = inflight.dom /\ run' = run
      BY <2>2 DEF gateVars, TypeOK
    <3> QED BY <2>2, <3>1 DEF InflightRunning
  <2>3. ASSUME NEW d \in Domains, NEW op \in Ops, NEW cost \in Nat \ {0},
               run[d] = "running", UNCHANGED run,
               inflight' = [dom |-> d, op |-> op, cyclesLeft |-> cost]
        PROVE  InflightRunning'
    BY <2>3 DEF InflightRunning
  <2> QED BY <2>1, <2>2, <2>3 DEF LatchStep, InflightRunning
<1>2. CASE UNCHANGED vars
  BY <1>2 DEF vars, gateVars, InflightRunning
<1> QED BY <1>1, <1>2

\* The machine boots with every gate free.
LEMMA BootFacts == Init => TypeOK /\ InflightRunning
BY ManifestAssumption, HyperperiodAssumption DEF Init, TypeOK, InflightRunning

\* Every value of the core has its declared type; chains of calls are no
\* deeper than maxChainDepth, and neither budgets nor donations go below zero
\* (Step.lean corePhase, Isa/System.lean gate_call).
THEOREM TypeCorrect == Spec => []TypeOK
<1> QED BY BootFacts, TypeStep, InflightStep, PTL DEF Spec

\* The instruction in flight belongs to a running domain (Step.lean corePhase
\* retires it without looking).
THEOREM LatchIsRunning == Spec => []InflightRunning
<1> QED BY BootFacts, TypeStep, InflightStep, PTL DEF Spec
-----------------------------------------------------------------------------

\* A serving domain is the callee of the one gate that names it, so no other
\* gate is disturbed when that activation ends.
LEMMA ServedGate ==
  ASSUME TypeOK, GatesConsistent, NEW d \in Domains, run[d] = "running", Unwinds(d)
  PROVE  /\ serving[d] \in Gates /\ Callee[serving[d]] = d
         /\ act[serving[d]] \in Activations
         /\ act[serving[d]].caller \in Domains \ {d}
         /\ run[act[serving[d]].caller] = serving[d]
         /\ act[serving[d]].savedServing = None
         /\ \A g \in Gates : act[g] # None /\ g # serving[d] =>
              Callee[g] # d /\ act[g].caller \notin {d, act[serving[d]].caller}
<1>1. serving[d] \in Gates /\ serving[d] # None /\ act[serving[d]] # None
  BY DEF Unwinds, TypeOK
<1>2. act[serving[d]] \in Activations /\ act[serving[d]].caller \in Domains
  BY <1>1 DEF TypeOK, Activations
<1>3. ASSUME NEW g \in Gates, act[g] # None
      PROVE  /\ serving[Callee[g]] = g /\ run[act[g].caller] = g
             /\ act[g].savedServing = None /\ act[g].caller # d
  <2>1. serving[Callee[g]] = g /\ run[act[g].caller] = g /\ act[g].savedServing = None
    BY <1>3 DEF GatesConsistent
  <2> QED BY <2>1, RunStates
<1>4. Callee[serving[d]] = d
  BY <1>1 DEF GatesConsistent
<1> QED BY <1>1, <1>2, <1>3, <1>4

\* A halted or faulting server leaves no trace of the activation it served.
LEMMA HaltKeepsGates ==
  ASSUME TypeOK, GatesConsistent, NEW d \in Domains, run[d] = "running", HaltDom(d)
  PROVE  GatesConsistent'
<1>1. /\ run \in [Domains -> Gates \union {"running", "halted"}]
      /\ serving \in [Domains -> Gates \union {None}]
      /\ act \in [Gates -> Activations \union {None}]
  BY DEF TypeOK
<1>2. CASE Unwinds(d)
  <2> DEFINE s == serving[d]
             c == act[serving[d]].caller
  <2>1. /\ s \in Gates /\ Callee[s] = d /\ c \in Domains \ {d} /\ run[c] = s
        /\ \A g \in Gates : act[g] # None /\ g # s =>
             Callee[g] # d /\ act[g].caller \notin {d, c}
    BY <1>2, ServedGate
  <2>2. /\ run' = [run EXCEPT ![d] = "halted", ![c] = "running"]
        /\ act' = [act EXCEPT ![s] = None]
        /\ serving' = [serving EXCEPT ![d] = None]
    BY <1>2 DEF HaltDom
  <2> HIDE DEF s, c
  <2>3. ASSUME NEW g \in Gates, act'[g] # None
        PROVE  /\ serving'[Callee[g]] = g /\ run'[act'[g].caller] = g
               /\ act'[g].savedServing = None
    <3>1. g # s /\ act'[g] = act[g]
      BY <1>1, <2>1, <2>2, <2>3
    <3>2. Callee[g] # d /\ act[g].caller \notin {d, c} /\ Callee[g] \in Domains
          /\ act[g].caller \in Domains
      BY <1>1, <2>1, <2>3, <3>1, ManifestAssumption DEF Activations
    <3> QED BY <1>1, <2>2, <2>3, <3>1, <3>2 DEF GatesConsistent
  <2>4. ASSUME NEW e \in Domains
        PROVE  /\ serving'[e] # None =>
                    Callee[serving'[e]] = e /\ act'[serving'[e]] # None
               /\ run'[e] \in Gates => act'[run'[e]] # None /\ act'[run'[e]].caller = e
               /\ run'[e] = "halted" => serving'[e] = None
    <3>1. serving'[e] # None => /\ Callee[serving'[e]] = e /\ act'[serving'[e]] # None
                                /\ serving'[e] = serving[e]
      <4> SUFFICES ASSUME serving'[e] # None
                   PROVE  /\ Callee[serving'[e]] = e /\ act'[serving'[e]] # None
                          /\ serving'[e] = serving[e]
        OBVIOUS
      <4>1. e # d /\ serving'[e] = serving[e] /\ serving[e] # s
        BY <1>1, <2>1, <2>2 DEF GatesConsistent
      <4> QED BY <1>1, <2>2, <4>1 DEF GatesConsistent
    <3>2. run'[e] \in Gates => act'[run'[e]] # None /\ act'[run'[e]].caller = e
      <4> SUFFICES ASSUME run'[e] \in Gates
                   PROVE  act'[run'[e]] # None /\ act'[run'[e]].caller = e
        OBVIOUS
      <4>1. e # d /\ e # c /\ run'[e] = run[e]
        BY <1>1, <2>1, <2>2, RunStates
      <4>2. run[e] # s
        BY <4>1, <2>1 DEF GatesConsistent, s, c
      <4> QED BY <1>1, <2>2, <4>1, <4>2 DEF GatesConsistent
    <3>3. run'[e] = "halted" => serving'[e] = None
      BY <1>1, <2>1, <2>2 DEF GatesConsistent
    <3> QED BY <3>1, <3>2, <3>3
  <2> QED BY <2>3, <2>4 DEF GatesConsistent
<1>3. CASE ~Unwinds(d)
  <2>1. serving[d] = None
    BY <1>3 DEF Unwinds, GatesConsistent
  <2>2. run' = [run EXCEPT ![d] = "halted"] /\ act' = act /\ serving' = serving
    BY <1>1, <1>3, <2>1 DEF HaltDom
  <2>3. ASSUME NEW g \in Gates, act[g] # None PROVE run'[act[g].caller] = g
    <3>1. run[act[g].caller] = g /\ act[g].caller # d
      BY <2>3, RunStates DEF GatesConsistent
    <3> QED BY <1>1, <2>2, <3>1
  <2>4. ASSUME NEW e \in Domains, run'[e] \in Gates PROVE run'[e] = run[e]
    BY <1>1, <2>2, <2>4, RunStates
  <2>5. ASSUME NEW e \in Domains, run'[e] = "halted" PROVE serving[e] = None
    BY <1>1, <2>1, <2>2, <2>5 DEF GatesConsistent
  <2> QED BY <2>2, <2>3, <2>4, <2>5 DEF GatesConsistent
<1> QED BY <1>2, <1>3
\* A return frees the gate and its caller, and only them.
LEMMA ReturnKeepsGates ==
  ASSUME TypeOK, GatesConsistent, NEW d \in Domains, run[d] = "running", GateReturn(d)
  PROVE  GatesConsistent'
<1> DEFINE s == serving[d]
           c == act[serving[d]].caller
<1>1. /\ run \in [Domains -> Gates \union {"running", "halted"}]
      /\ serving \in [Domains -> Gates \union {None}]
      /\ act \in [Gates -> Activations \union {None}]
  BY DEF TypeOK
<1>2. /\ s \in Gates /\ Callee[s] = d /\ c \in Domains \ {d} /\ run[c] = s
      /\ \A g \in Gates : act[g] # None /\ g # s =>
           Callee[g] # d /\ act[g].caller \notin {d, c}
  BY ServedGate DEF GateReturn
<1>3. /\ run' = [run EXCEPT ![c] = "running"]
      /\ act' = [act EXCEPT ![s] = None]
      /\ serving' = [serving EXCEPT ![d] = None]
  BY ServedGate DEF GateReturn
<1>4. ASSUME NEW e \in Domains, run[e] = s PROVE e = c
  BY <1>2, <1>4 DEF GatesConsistent
<1> HIDE DEF s, c
<1>5. ASSUME NEW g \in Gates, act'[g] # None
      PROVE  /\ serving'[Callee[g]] = g /\ run'[act'[g].caller] = g
             /\ act'[g].savedServing = None
  <2>1. g # s /\ act'[g] = act[g]
    BY <1>1, <1>2, <1>3, <1>5
  <2>2. Callee[g] # d /\ act[g].caller \notin {d, c} /\ Callee[g] \in Domains
        /\ act[g].caller \in Domains
    BY <1>1, <1>2, <1>5, <2>1, ManifestAssumption DEF Activations
  <2> QED BY <1>1, <1>3, <1>5, <2>1, <2>2 DEF GatesConsistent
<1>6. ASSUME NEW e \in Domains, serving'[e] # None
      PROVE  Callee[serving'[e]] = e /\ act'[serving'[e]] # None
  <2>1. e # d /\ serving'[e] = serving[e] /\ serving[e] # s
    BY <1>1, <1>2, <1>3, <1>6 DEF GatesConsistent
  <2> QED BY <1>1, <1>3, <1>6, <2>1 DEF GatesConsistent
<1>7. ASSUME NEW e \in Domains, run'[e] \in Gates
      PROVE  act'[run'[e]] # None /\ act'[run'[e]].caller = e
  <2>1. e # c /\ run'[e] = run[e]
    BY <1>1, <1>2, <1>3, <1>7, RunStates
  <2>2. run[e] # s
    BY <1>4, <2>1
  <2> QED BY <1>1, <1>3, <1>7, <2>1, <2>2 DEF GatesConsistent
<1>8. ASSUME NEW e \in Domains, run'[e] = "halted" PROVE serving'[e] = None
  BY <1>1, <1>2, <1>3, <1>8 DEF GatesConsistent
<1> QED BY <1>5, <1>6, <1>7, <1>8 DEF GatesConsistent

\* A call is accepted only on a free gate with an idle callee.
LEMMA CallKeepsGates ==
  ASSUME TypeOK, GatesConsistent, NEW d \in Domains, run[d] = "running",
         NEW h \in Gates, GateCall(d, h)
  PROVE  GatesConsistent'
<1> DEFINE c == Callee[h]
<1>1. /\ run \in [Domains -> Gates \union {"running", "halted"}]
      /\ serving \in [Domains -> Gates \union {None}]
      /\ act \in [Gates -> Activations \union {None}]
      /\ c \in Domains
  BY ManifestAssumption DEF TypeOK
<1>2. act[h] = None /\ c # d /\ run[c] = "running" /\ serving[c] = None
  BY DEF GateCall, CanCall
<1>3. PICK a : /\ a.caller = d /\ a.savedServing = None /\ a # None
               /\ act' = [act EXCEPT ![h] = a]
               /\ serving' = [serving EXCEPT ![c] = h]
               /\ run' = [run EXCEPT ![d] = h]
  <2> DEFINE a == [caller |-> d, savedServing |-> serving[c],
                   depth |-> CallDepth(d), donated |-> MaxDonation[d]]
  <2>1. /\ act' = [act EXCEPT ![h] = a] /\ serving' = [serving EXCEPT ![c] = h]
        /\ run' = [run EXCEPT ![d] = h]
    BY DEF GateCall
  <2>2. a.caller = d /\ a.savedServing = None
    BY <1>2
  <2>3. a # None
    BY NewActivation, NoneAssumption
  <2> QED BY <2>1, <2>2, <2>3
<1> HIDE DEF c
<1>4. ASSUME NEW g \in Gates, act'[g] # None
      PROVE  /\ serving'[Callee[g]] = g /\ run'[act'[g].caller] = g
             /\ act'[g].savedServing = None
  <2>1. CASE g = h
    BY <1>1, <1>2, <1>3, <2>1 DEF c
  <2>2. CASE g # h
    <3>1. act'[g] = act[g] /\ act[g] # None
      BY <1>1, <1>3, <1>4, <2>2
    <3>2. serving[Callee[g]] = g /\ run[act[g].caller] = g /\ act[g].savedServing = None
      BY <3>1 DEF GatesConsistent
    <3>3. Callee[g] # c /\ act[g].caller # d /\ Callee[g] \in Domains
          /\ act[g].caller \in Domains
      BY <1>1, <1>2, <3>1, <3>2, RunStates, ManifestAssumption DEF Activations
    <3> QED BY <1>1, <1>3, <3>1, <3>2, <3>3
  <2> QED BY <2>1, <2>2
<1>5. ASSUME NEW e \in Domains, serving'[e] # None
      PROVE  Callee[serving'[e]] = e /\ act'[serving'[e]] # None
  <2>1. CASE e = c
    BY <1>1, <1>3, <2>1 DEF c
  <2>2. CASE e # c
    <3>1. serving'[e] = serving[e] /\ serving[e] # None
      BY <1>1, <1>3, <1>5, <2>2
    <3>2. Callee[serving[e]] = e /\ act[serving[e]] # None
      BY <3>1 DEF GatesConsistent
    <3> QED BY <1>1, <1>3, <3>1, <3>2
  <2> QED BY <2>1, <2>2
<1>6. ASSUME NEW e \in Domains, run'[e] \in Gates
      PROVE  act'[run'[e]] # None /\ act'[run'[e]].caller = e
  <2>1. CASE e = d
    BY <1>1, <1>3, <2>1
  <2>2. CASE e # d
    <3>1. run'[e] = run[e]
      BY <1>1, <1>3, <2>2
    <3>2. act[run[e]] # None /\ act[run[e]].caller = e
      BY <1>6, <3>1 DEF GatesConsistent
    <3> QED BY <1>1, <1>2, <1>3, <1>6, <3>1, <3>2
  <2> QED BY <2>1, <2>2
<1>7. ASSUME NEW e \in Domains, run'[e] = "halted" PROVE serving'[e] = None
  <2>1. e # d /\ run[e] = "halted"
    BY <1>1, <1>3, <1>7, RunStates
  <2>2. e # c /\ serving[e] = None
    BY <1>2, <2>1 DEF GatesConsistent
  <2> QED BY <1>1, <1>3, <2>2
<1> QED BY <1>4, <1>5, <1>6, <1>7 DEF GatesConsistent

\* Drawing down a donation changes nothing else.
LEMMA DrawDownKeepsGates ==
  ASSUME TypeOK, GatesConsistent, NEW d \in Domains, NEW cost \in Nat, DrawDown(d, cost)
  PROVE  GatesConsistent'
<1>1. run' = run /\ serving' = serving
  BY DEF DrawDown
<1>2. ASSUME NEW g \in Gates
      PROVE  /\ act'[g] # None <=> act[g] # None
             /\ act[g] # None => /\ act'[g].caller = act[g].caller
                                 /\ act'[g].savedServing = act[g].savedServing
  <2>1. CASE serving[d] = None
    BY <2>1 DEF DrawDown
  <2>2. CASE serving[d] # None
    <3> DEFINE s == serving[d]
               b == [act[s] EXCEPT !.donated = @ - cost]
    <3>1. s \in Gates /\ act[s] \in Activations /\ act \in [Gates -> Activations \union {None}]
      BY <2>2 DEF DrawDown, TypeOK
    <3>2. act' = [act EXCEPT ![s] = b]
      BY <2>2, <3>1 DEF DrawDown
    <3>3. b.caller = act[s].caller /\ b.savedServing = act[s].savedServing
      BY <3>1 DEF Activations
    <3>4. b # None /\ act[s] # None
      <4>1. b \in Activations
        BY <2>2, <3>1 DEF DrawDown, Activations
      <4> QED BY <2>2, <4>1, NoneAssumption DEF DrawDown
    <3> QED BY <3>1, <3>2, <3>3, <3>4
  <2> QED BY <2>1, <2>2
<1> QED BY <1>1, <1>2 DEF GatesConsistent, TypeOK
\* Calls, returns, faults and halts in any order keep the gate records, the
\* serving marks and the blocked domains consistent: no caller is left blocked
\* on a freed gate (Kernel.lean haltDom, Isa/System.lean gate_call, gate_return).
THEOREM GatesAreConsistent == Spec => []GatesConsistent
<1>1. Init => GatesConsistent
  BY RunStates DEF Init, GatesConsistent
<1>2. TypeOK /\ InflightRunning /\ GatesConsistent /\ [Next]_vars => GatesConsistent'
  <2> SUFFICES ASSUME TypeOK, InflightRunning, GatesConsistent, [Next]_vars
               PROVE  GatesConsistent'
    OBVIOUS
  <2>1. CASE UNCHANGED gateVars
    BY <2>1 DEF gateVars, GatesConsistent
  <2>2. ASSUME NEW d \in Domains, run[d] = "running", GateStep(d)
        PROVE  GatesConsistent'
    BY <2>2, HaltKeepsGates, CallKeepsGates, ReturnKeepsGates, DrawDownKeepsGates
       DEF GateStep
  <2>3. UNCHANGED vars => UNCHANGED gateVars
    BY DEF vars
  <2> QED BY <2>1, <2>2, <2>3, NextCases
<1> QED BY <1>1, <1>2, TypeCorrect, LatchIsRunning, PTL DEF Spec

-----------------------------------------------------------------------------

\* The donation recorded by a call is the caller's, and is only drawn down.
LEMMA GateStepDonations ==
  ASSUME TypeOK, NEW d \in Domains, GateStep(d), BudgetsBounded,
         NEW g \in Gates, act'[g] # None
  PROVE  0 <= act'[g].donated /\ act'[g].donated <= MaxDonation[act'[g].caller]
<1>1. /\ act \in [Gates -> Activations \union {None}]
      /\ serving[d] \in Gates \union {None}
  BY DEF TypeOK
<1>2. act[g] # None => /\ act[g] \in Activations
                       /\ 0 <= act[g].donated
                       /\ act[g].donated <= MaxDonation[act[g].caller]
  BY <1>1 DEF BudgetsBounded
<1>3. CASE HaltDom(d)
  <2>1. act' = act \/ act' = [act EXCEPT ![serving[d]] = None]
    BY <1>3 DEF HaltDom
  <2>2. act'[g] = act[g]
    BY <1>1, <2>1
  <2> QED BY <1>2, <2>2
<1>4. CASE \E h \in Gates : GateCall(d, h)
  <2>1. PICK h \in Gates : GateCall(d, h)
    BY <1>4
  <2>2. CASE g = h
    <3>1. act'[g].donated = MaxDonation[d] /\ act'[g].caller = d
      BY <1>1, <2>1, <2>2 DEF GateCall
    <3> QED BY <3>1, ManifestAssumption
  <2>3. CASE g # h
    BY <1>1, <1>2, <2>1, <2>3 DEF GateCall
  <2> QED BY <2>2, <2>3
<1>5. CASE GateReturn(d)
  <2>1. act'[g] = act[g]
    BY <1>1, <1>5 DEF GateReturn
  <2> QED BY <1>2, <2>1
<1>6. CASE \E cost \in Nat : DrawDown(d, cost)
  <2>1. PICK cost \in Nat : DrawDown(d, cost)
    BY <1>6
  <2>2. CASE serving[d] = None \/ g # serving[d]
    <3>1. act'[g] = act[g]
      BY <1>1, <2>1, <2>2 DEF DrawDown
    <3> QED BY <1>2, <3>1
  <2>3. CASE serving[d] # None /\ g = serving[d]
    <3>1. act[g] \in Activations /\ cost <= act[g].donated
      BY <1>1, <2>1, <2>3 DEF DrawDown
    <3>2. act'[g] = [act[g] EXCEPT !.donated = @ - cost]
      BY <1>1, <2>1, <2>3, <3>1 DEF DrawDown
    <3>3. /\ act'[g].donated = act[g].donated - cost
          /\ act'[g].caller = act[g].caller
          /\ act[g].donated \in Nat /\ act[g].caller \in Domains
      BY <3>1, <3>2 DEF Activations
    <3>4. MaxDonation[act[g].caller] \in Nat
      BY <3>3, ManifestAssumption
    <3> QED BY <1>2, <3>1, <3>3, <3>4, NoneAssumption
  <2> QED BY <2>2, <2>3
<1> QED BY <1>3, <1>4, <1>5, <1>6 DEF GateStep

\* Whoever pays, a charge is covered before it is made: no budget exceeds its
\* quota, no activation the donation of its caller, and neither is overdrawn
\* (Step.lean corePhase; T9).
THEOREM BudgetsAreBounded == Spec => []BudgetsBounded
<1>1. Init => BudgetsBounded
  BY ManifestAssumption DEF Init, BudgetsBounded
<1>2. TypeOK /\ InflightRunning /\ BudgetsBounded /\ [Next]_vars => BudgetsBounded'
  <2> SUFFICES ASSUME TypeOK, InflightRunning, BudgetsBounded, [Next]_vars
               PROVE  BudgetsBounded'
    OBVIOUS
  <2>1. CASE Next
    <3>1. /\ Refilled \in [Domains -> Nat]
          /\ \A e \in Domains : Quota[e] \in Nat /\ Refilled[e] <= Quota[e]
      BY RefilledType, ManifestAssumption DEF Refilled, BudgetsBounded
    <3>2. ASSUME NEW e \in Domains
          PROVE  0 <= budget'[e] /\ budget'[e] <= Quota[e]
      <4>1. BudgetStep
        BY <2>1, NextCases
      <4>2. ASSUME NEW x, budget' = [Refilled EXCEPT ![x] = 0]
            PROVE  0 <= budget'[e] /\ budget'[e] <= Quota[e]
        BY <3>1, <4>2
      <4>3. ASSUME NEW x, NEW cost \in Nat, cost <= Refilled[x],
                   budget' = [Refilled EXCEPT ![x] = @ - cost]
            PROVE  0 <= budget'[e] /\ budget'[e] <= Quota[e]
        <5>1. budget'[e] = IF e = x THEN Refilled[e] - cost ELSE Refilled[e]
          BY <3>1, <4>3
        <5>2. e = x => cost <= Refilled[e]
          BY <4>3
        <5> QED BY <3>1, <5>1, <5>2
      <4>4. CASE budget' = Refilled
        BY <3>1, <4>4
      <4> QED BY <4>1, <4>2, <4>3, <4>4 DEF BudgetStep
    <3>3. ASSUME NEW g \in Gates, act'[g] # None
          PROVE  0 <= act'[g].donated /\ act'[g].donated <= MaxDonation[act'[g].caller]
      <4>1. CASE UNCHANGED gateVars
        BY <3>3, <4>1 DEF gateVars, BudgetsBounded
      <4> QED BY <2>1, <3>3, <4>1, NextCases, GateStepDonations
    <3> QED BY <3>2, <3>3 DEF BudgetsBounded
  <2>2. CASE UNCHANGED vars
    BY <2>2 DEF vars, gateVars, BudgetsBounded
  <2> QED BY <2>1, <2>2
<1> QED BY <1>1, <1>2, TypeCorrect, LatchIsRunning, PTL DEF Spec

-----------------------------------------------------------------------------
(***************************************************************************)
(* Who pays.                                                               *)
(***************************************************************************)

\* The depth of an activation is one more than that of the activation its
\* caller runs inside: a chain cannot be longer than the depth it records.
DepthsExact == \A g \in Gates : act[g] # None => act[g].depth = CallDepth(act[g].caller)

\* The domain d works for.
Caller(d) == act[serving[d]].caller

\* No step of a gate changes how deep a blocked caller is, and a call records
\* the depth of the domain that makes it.
LEMMA GateStepDepths ==
  ASSUME TypeOK, GatesConsistent, DepthsExact,
         NEW d \in Domains, run[d] = "running", GateStep(d)
  PROVE  DepthsExact'
<1> DEFINE After(c) == IF serving'[c] # None /\ act'[serving'[c]] # None
                       THEN act'[serving'[c]].depth + 1 ELSE 1
<1> SUFFICES \A g \in Gates : act'[g] # None => act'[g].depth = After(act'[g].caller)
  BY DEF DepthsExact, CallDepth
<1> HIDE DEF After
<1>1. /\ run \in [Domains -> Gates \union {"running", "halted"}]
      /\ serving \in [Domains -> Gates \union {None}]
      /\ act \in [Gates -> Activations \union {None}]
  BY DEF TypeOK
<1>2. ASSUME NEW g \in Gates, act[g] # None
      PROVE  /\ act[g].caller \in Domains \ {d}
             /\ run[act[g].caller] = g
             /\ act[g].depth = CallDepth(act[g].caller)
  BY <1>1, <1>2, RunStates DEF GatesConsistent, DepthsExact, Activations
<1>3. ASSUME NEW s \in Gates, act[s] # None, serving[d] = s,
             act' = [act EXCEPT ![s] = None], serving' = [serving EXCEPT ![d] = None]
      PROVE  \A g \in Gates : act'[g] # None => act'[g].depth = After(act'[g].caller)
  <2>1. ASSUME NEW g \in Gates, act'[g] # None
        PROVE  act'[g].depth = After(act'[g].caller)
    <3> DEFINE c == act[g].caller
    <3>1. g # s /\ act'[g] = act[g] /\ act[g] # None
      BY <1>1, <1>3, <2>1
    <3>2. c \in Domains /\ c # d /\ act[g].depth = CallDepth(c)
      BY <1>2, <3>1
    <3> HIDE DEF c
    <3>3. serving'[c] = serving[c] /\ serving[c] # s
      BY <1>1, <1>3, <3>2, RunStates DEF GatesConsistent
    <3>4. serving[c] # None => serving[c] \in Gates /\ act'[serving[c]] = act[serving[c]]
      BY <1>1, <1>3, <3>2, <3>3
    <3>5. After(c) = CallDepth(c)
      BY <3>3, <3>4 DEF CallDepth, After
    <3> QED BY <3>1, <3>2, <3>5 DEF c
  <2> QED BY <2>1
<1>4. CASE Unwinds(d) /\ (HaltDom(d) \/ GateReturn(d))
  BY <1>3, <1>4, ServedGate DEF HaltDom, GateReturn, Unwinds
<1>5. CASE ~Unwinds(d) /\ HaltDom(d)
  <2>1. serving[d] = None
    BY <1>5 DEF Unwinds, GatesConsistent
  <2>2. act' = act /\ serving' = serving
    BY <1>1, <1>5, <2>1 DEF HaltDom
  <2> QED BY <2>2 DEF DepthsExact, CallDepth, After
<1>6. ASSUME NEW h \in Gates, GateCall(d, h)
      PROVE  \A g \in Gates : act'[g] # None => act'[g].depth = After(act'[g].caller)
  <2> DEFINE e == Callee[h]
             a == [caller |-> d, savedServing |-> serving[Callee[h]],
                   depth |-> CallDepth(d), donated |-> MaxDonation[d]]
  <2>1. /\ act[h] = None /\ e # d /\ run[e] = "running" /\ e \in Domains
        /\ act' = [act EXCEPT ![h] = a] /\ serving' = [serving EXCEPT ![e] = h]
    BY <1>6, ManifestAssumption DEF GateCall, CanCall
  <2>2. a.caller = d /\ a.depth = CallDepth(d)
    OBVIOUS
  <2> HIDE DEF e, a
  <2>3. ASSUME NEW c \in Domains, c # e PROVE After(c) = CallDepth(c)
    <3>1. serving'[c] = serving[c] /\ serving[c] \in Gates \union {None}
      BY <1>1, <2>1, <2>3
    <3>2. serving[c] # None => act'[serving[c]] = act[serving[c]]
      <4>1. serving[c] # None => serving[c] # h
        BY <2>1, <2>3 DEF GatesConsistent
      <4> QED BY <1>1, <2>1, <3>1, <4>1
    <3> QED BY <3>1, <3>2 DEF CallDepth, After
  <2>4. ASSUME NEW g \in Gates, act'[g] # None
        PROVE  act'[g].depth = After(act'[g].caller)
    <3>1. CASE g = h
      <4>1. act'[g] = a
        BY <1>1, <2>1, <3>1
      <4>2. After(d) = CallDepth(d)
        BY <2>1, <2>3
      <4> QED BY <2>2, <4>1, <4>2
    <3>2. CASE g # h
      <4>1. act'[g] = act[g]
        BY <1>1, <2>1, <3>2
      <4>2. /\ act[g].caller \in Domains /\ act[g].caller # e
            /\ act[g].depth = CallDepth(act[g].caller)
        BY <1>2, <2>1, <2>4, <4>1, RunStates
      <4> QED BY <2>3, <4>1, <4>2
    <3> QED BY <3>1, <3>2
  <2> QED BY <2>4
<1>7. ASSUME NEW cost \in Nat, DrawDown(d, cost)
      PROVE  \A g \in Gates : act'[g] # None => act'[g].depth = After(act'[g].caller)
  <2>1. ASSUME NEW g \in Gates
        PROVE  /\ act'[g] # None <=> act[g] # None
               /\ act[g] # None => /\ act'[g].caller = act[g].caller
                                   /\ act'[g].depth = act[g].depth
    <3>1. CASE serving[d] = None \/ g # serving[d]
      BY <1>1, <1>7, <3>1 DEF DrawDown
    <3>2. CASE serving[d] # None /\ g = serving[d]
      <4>1. act[g] \in Activations /\ act[g] # None
            /\ act'[g] = [act[g] EXCEPT !.donated = @ - cost] /\ cost <= act[g].donated
        BY <1>1, <1>7, <3>2 DEF DrawDown
      <4>2. act'[g] \in Activations
        BY <4>1 DEF Activations
      <4> QED BY <4>1, <4>2, NoneAssumption DEF Activations
    <3> QED BY <3>1, <3>2
  <2>2. serving' = serving
    BY <1>7 DEF DrawDown
  <2>3. ASSUME NEW c \in Domains PROVE After(c) = CallDepth(c)
    <3>1. serving[c] \in Gates \union {None}
      BY <1>1
    <3>2. After(c) = IF serving[c] # None /\ act'[serving[c]] # None
                     THEN act'[serving[c]].depth + 1 ELSE 1
      BY <2>2 DEF After
    <3> QED BY <2>1, <3>1, <3>2 DEF CallDepth, After
  <2>4. ASSUME NEW g \in Gates, act'[g] # None
        PROVE  act'[g].depth = After(act'[g].caller)
    BY <1>2, <2>1, <2>3, <2>4
  <2> QED BY <2>4
<1> QED BY <1>4, <1>5, <1>6, <1>7 DEF GateStep, GateReturn

\* The machine boots with no activation, and a cycle leaves the depths exact.
THEOREM DepthsAreExact == Spec => []DepthsExact
<1>1. Init => DepthsExact
  BY DEF Init, DepthsExact
<1>2. TypeOK /\ InflightRunning /\ GatesConsistent /\ DepthsExact /\ [Next]_vars => DepthsExact'
  <2> SUFFICES ASSUME TypeOK, InflightRunning, GatesConsistent, DepthsExact, [Next]_vars
               PROVE  DepthsExact'
    OBVIOUS
  <2>1. CASE UNCHANGED gateVars
    BY <2>1 DEF gateVars, DepthsExact, CallDepth
  <2>2. ASSUME NEW d \in Domains, run[d] = "running", GateStep(d)
        PROVE  DepthsExact'
    BY <2>2, GateStepDepths
  <2>3. UNCHANGED vars => UNCHANGED gateVars
    BY DEF vars
  <2> QED BY <2>1, <2>2, <2>3, NextCases
<1> QED BY <1>1, <1>2, TypeCorrect, LatchIsRunning, GatesAreConsistent, PTL DEF Spec

\* The recursive definition of Origin, unfolded.
LEMMA OriginUnfolds ==
  ASSUME TypeOK
  PROVE  /\ Origin \in [0 .. MaxChainDepth -> [Domains -> Domains]]
         /\ \A d \in Domains : Origin[0][d] = d
         /\ \A n \in 0 .. MaxChainDepth - 1, d \in Domains :
              Origin[n + 1][d] = IF Unwinds(d) THEN Origin[n][Caller(d)] ELSE d
<1> DEFINE R == [Domains -> Domains]
           base == [d \in Domains |-> d]
           Hop(g) == [d \in Domains |-> IF Unwinds(d) THEN g[Caller(d)] ELSE d]
           F == [p \in Nat \X R |-> Hop(p[2])]
           Body(f) == [n \in 0 .. MaxChainDepth |->
                         [d \in Domains |-> IF n > 0 /\ Unwinds(d)
                                            THEN f[n - 1][act[serving[d]].caller] ELSE d]]
<1>1. ASSUME NEW d \in Domains, Unwinds(d) PROVE Caller(d) \in Domains
  BY <1>1 DEF TypeOK, Activations, Unwinds, Caller
<1>2. PICK f : Iterates(f, R, base, F, MaxChainDepth)
  <2>1. base \in R
    OBVIOUS
  <2>2. F \in [Nat \X R -> R]
    <3>1. \A g \in R : Hop(g) \in R
      BY <1>1
    <3> HIDE DEF R, Hop
    <3> QED BY <3>1
  <2>3. MaxChainDepth \in Nat
    BY ChainAssumption
  <2> HIDE DEF R, base, F
  <2> QED BY <2>1, <2>2, <2>3, Recursion
<1>3. ASSUME NEW n \in 0 .. MaxChainDepth - 1, NEW g \in R
      PROVE  F[<<n, g>>] = Hop(g)
  <2> HIDE DEF R, Hop
  <2> QED BY ChainAssumption
<1>4. ASSUME NEW n \in 0 .. MaxChainDepth - 1
      PROVE  f[n] \in R /\ f[n + 1] = [d \in Domains |-> IF Unwinds(d) THEN f[n][Caller(d)] ELSE d]
  <2> HIDE DEF R, F
  <2>1. n \in 0 .. MaxChainDepth
    BY ChainAssumption
  <2>2. f[n] \in R /\ f[n + 1] = F[<<n, f[n]>>]
    BY <1>2, <2>1 DEF Iterates
  <2>3. f[n + 1] = Hop(f[n])
    <3> HIDE DEF Hop
    <3> QED BY <1>3, <2>2
  <2> QED BY <2>2, <2>3
<1>5. f = Body(f)
  <2>1. ASSUME NEW n \in 0 .. MaxChainDepth
        PROVE  f[n] = [d \in Domains |-> IF n > 0 /\ Unwinds(d)
                                         THEN f[n - 1][Caller(d)] ELSE d]
    <3>1. CASE n = 0
      BY <1>2, <3>1 DEF Iterates
    <3>2. CASE n # 0
      <4>1. n - 1 \in 0 .. MaxChainDepth - 1 /\ n - 1 + 1 = n /\ n > 0
        BY <3>2, ChainAssumption
      <4> QED BY <1>4, <4>1
    <3> QED BY <3>1, <3>2
  <2> QED BY <1>2, <2>1 DEF Caller, Iterates
<1>6. Origin = Body(Origin)
  <2>1. Origin = CHOOSE g : g = Body(g)
    BY DEF Origin
  <2> HIDE DEF Body
  <2> QED BY <1>5, <2>1
<1>7. ASSUME NEW n \in 0 .. MaxChainDepth
      PROVE  Origin[n] = [d \in Domains |-> IF n > 0 /\ Unwinds(d)
                                            THEN Origin[n - 1][Caller(d)] ELSE d]
  BY <1>6 DEF Caller
<1>8. Origin[0] = base
  BY <1>7, ChainAssumption
<1>9. \A n \in 0 .. MaxChainDepth - 1 :
        Origin[n + 1] = [d \in Domains |-> IF Unwinds(d) THEN Origin[n][Caller(d)] ELSE d]
  <2> TAKE n \in 0 .. MaxChainDepth - 1
  <2>1. n + 1 \in 0 .. MaxChainDepth /\ n + 1 > 0 /\ n + 1 - 1 = n
    BY ChainAssumption
  <2> QED BY <1>7, <2>1
<1>10. Origin \in [0 .. MaxChainDepth -> R]
  <2> DEFINE S == {n \in Nat : n <= MaxChainDepth => Origin[n] \in R}
  <2>1. 0 \in S
    BY <1>8
  <2>2. ASSUME NEW n \in Nat, n \in S PROVE n + 1 \in S
    <3>1. CASE n + 1 <= MaxChainDepth
      <4>1. n \in 0 .. MaxChainDepth - 1 /\ Origin[n] \in R
        BY <2>2, <3>1, ChainAssumption
      <4>2. Origin[n + 1] = [d \in Domains |-> IF Unwinds(d) THEN Origin[n][Caller(d)] ELSE d]
        BY <1>9, <4>1
      <4>3. Origin[n + 1] \in R
        BY <1>1, <4>1, <4>2
      <4> QED BY <4>3
    <3>2. CASE ~(n + 1 <= MaxChainDepth)
      BY <3>2
    <3> QED BY <3>1, <3>2
  <2>3. Nat \subseteq S
    <3> HIDE DEF S
    <3> QED BY <2>1, <2>2, SetInduction
  <2>4. \A n \in 0 .. MaxChainDepth : Origin[n] \in R
    BY <2>3, ChainAssumption
  <2>5. Origin = [n \in 0 .. MaxChainDepth |-> Origin[n]]
    BY <1>6
  <2> HIDE DEF R
  <2> QED BY <2>4, <2>5
<1>11. \A n \in 0 .. MaxChainDepth - 1, d \in Domains :
         Origin[n + 1][d] = IF Unwinds(d) THEN Origin[n][Caller(d)] ELSE d
  BY <1>9
<1>12. \A d \in Domains : Origin[0][d] = d
  BY <1>8
<1> QED BY <1>10, <1>11, <1>12

\* One link of a chain: a serving domain is blocked on by its caller, which is
\* one level higher.
LEMMA CallerIsHigher ==
  ASSUME TypeOK, GatesConsistent, DepthsExact, NEW d \in Domains
  PROVE  /\ CallDepth(d) \in 1 .. MaxChainDepth + 1
         /\ ~Unwinds(d) => CallDepth(d) = 1
         /\ Unwinds(d) => /\ serving[d] \in Gates /\ Callee[serving[d]] = d
                          /\ Caller(d) \in Domains /\ run[Caller(d)] = serving[d]
                          /\ CallDepth(d) = CallDepth(Caller(d)) + 1
<1>1. CASE Unwinds(d)
  <2>1. serving[d] \in Gates /\ act[serving[d]] # None /\ act[serving[d]] \in Activations
    BY <1>1 DEF Unwinds, TypeOK
  <2>2. /\ Callee[serving[d]] = d /\ run[Caller(d)] = serving[d]
        /\ act[serving[d]].depth = CallDepth(Caller(d))
    BY <1>1, <2>1 DEF Unwinds, GatesConsistent, DepthsExact, Caller
  <2>3. CallDepth(d) = act[serving[d]].depth + 1
    BY <1>1 DEF Unwinds, CallDepth
  <2>4. act[serving[d]].depth \in 1 .. MaxChainDepth /\ Caller(d) \in Domains
    BY <2>1 DEF Activations, Caller
  <2> QED BY <1>1, <2>1, <2>2, <2>3, <2>4, ChainAssumption
<1>2. CASE ~Unwinds(d)
  BY <1>2, ChainAssumption DEF Unwinds, CallDepth
<1> QED BY <1>1, <1>2

\* The fuel of the walk is never what ends it: one more unit changes nothing
\* when there was enough for the depth of the chain.
LEMMA FuelSuffices ==
  ASSUME TypeOK, GatesConsistent, DepthsExact, NEW n \in 0 .. MaxChainDepth - 1
  PROVE  \A d \in Domains : CallDepth(d) <= n + 1 => Origin[n + 1][d] = Origin[n][d]
<1> DEFINE Enough(m) == \A d \in Domains : CallDepth(d) <= m + 1 => Origin[m + 1][d] = Origin[m][d]
           S == {m \in Nat : m <= MaxChainDepth - 1 => Enough(m)}
<1>0. MaxChainDepth \in Nat \ {0}
  BY ChainAssumption
<1>1. 0 \in S
  <2>1. ASSUME NEW d \in Domains, CallDepth(d) <= 1 PROVE Origin[1][d] = Origin[0][d]
    <3>1. ~Unwinds(d)
      <4>1. Unwinds(d) => CallDepth(Caller(d)) \in 1 .. MaxChainDepth + 1
        BY CallerIsHigher
      <4> QED BY <1>0, <2>1, <4>1, CallerIsHigher
    <3>2. Origin[0 + 1][d] = d /\ Origin[0][d] = d
      BY <1>0, <3>1, OriginUnfolds
    <3> QED BY <3>2
  <2> QED BY <2>1
<1>2. ASSUME NEW m \in Nat, m \in S PROVE m + 1 \in S
  <2> SUFFICES ASSUME m + 1 <= MaxChainDepth - 1,
                      NEW d \in Domains, CallDepth(d) <= m + 2
               PROVE  Origin[m + 2][d] = Origin[m + 1][d]
    OBVIOUS
  <2>1. m \in 0 .. MaxChainDepth - 1 /\ m + 1 \in 0 .. MaxChainDepth - 1 /\ m + 1 + 1 = m + 2
    BY <1>0
  <2>2. Origin[m + 2][d] = IF Unwinds(d) THEN Origin[m + 1][Caller(d)] ELSE d
    BY <2>1, OriginUnfolds
  <2>3. Origin[m + 1][d] = IF Unwinds(d) THEN Origin[m][Caller(d)] ELSE d
    BY <2>1, OriginUnfolds
  <2>4. CASE Unwinds(d)
    <3>1. /\ Caller(d) \in Domains /\ CallDepth(d) = CallDepth(Caller(d)) + 1
          /\ CallDepth(Caller(d)) \in 1 .. MaxChainDepth + 1
      BY <2>4, CallerIsHigher
    <3>2. CallDepth(Caller(d)) <= m + 1
      BY <1>0, <3>1
    <3>3. Origin[m + 1][Caller(d)] = Origin[m][Caller(d)]
      BY <1>0, <1>2, <2>1, <3>1, <3>2
    <3> QED BY <2>2, <2>3, <2>4, <3>3
  <2> QED BY <2>2, <2>3, <2>4
<1>3. n \in S
  <2>1. n \in Nat
    BY <1>0
  <2> HIDE DEF S
  <2> QED BY <1>1, <1>2, <2>1, SetInduction
<1>4. Enough(n)
  BY <1>0, <1>3
<1> QED BY <1>4

\* Whoever serves no one pays for itself; a serving domain is paid for by
\* whoever pays for its caller.
LEMMA PayerOfCaller ==
  ASSUME TypeOK, GatesConsistent, DepthsExact, NEW d \in Domains
  PROVE  /\ Payer(d) \in Domains
         /\ ~Unwinds(d) => Payer(d) = d
         /\ Unwinds(d) => Payer(d) = Payer(Caller(d))
<1> DEFINE M == MaxChainDepth
<1>1. M \in Nat /\ M - 1 \in 0 .. M - 1 /\ M - 1 + 1 = M /\ M \in 0 .. M
  BY ChainAssumption
<1>2. Payer(d) = IF Unwinds(d) THEN Origin[M - 1][Caller(d)] ELSE d
  BY <1>1, OriginUnfolds DEF Payer
<1>3. Payer(d) \in Domains
  BY <1>1, OriginUnfolds DEF Payer
<1>4. ASSUME Unwinds(d) PROVE Payer(d) = Payer(Caller(d))
  <2>1. /\ Caller(d) \in Domains /\ CallDepth(d) = CallDepth(Caller(d)) + 1
        /\ CallDepth(d) \in 1 .. M + 1 /\ CallDepth(Caller(d)) \in 1 .. M + 1
    BY <1>4, CallerIsHigher
  <2>2. CallDepth(Caller(d)) <= M - 1 + 1
    BY <1>1, <2>1
  <2>3. Origin[M][Caller(d)] = Origin[M - 1][Caller(d)]
    BY <1>1, <2>1, <2>2, FuelSuffices
  <2> QED BY <1>2, <1>4, <2>3 DEF Payer
<1> QED BY <1>2, <1>3, <1>4

\* The origin of a chain serves no one, and is blocked if the chain has a link.
LEMMA PayerIsRoot ==
  ASSUME TypeOK, GatesConsistent, DepthsExact, NEW d \in Domains
  PROVE  /\ ~Unwinds(Payer(d))
         /\ Unwinds(d) => run[Payer(d)] \in Gates
<1> DEFINE Rooted(e) == ~Unwinds(Payer(e)) /\ (Unwinds(e) => run[Payer(e)] \in Gates)
           S == {n \in Nat : \A e \in Domains : CallDepth(e) <= n => Rooted(e)}
<1>1. 0 \in S
  BY CallerIsHigher, ChainAssumption
<1>2. ASSUME NEW n \in Nat, n \in S PROVE n + 1 \in S
  <2> SUFFICES ASSUME NEW e \in Domains, CallDepth(e) <= n + 1 PROVE Rooted(e)
    OBVIOUS
  <2>1. CASE ~Unwinds(e)
    BY <2>1, PayerOfCaller
  <2>2. CASE Unwinds(e)
    <3> DEFINE c == Caller(e)
    <3>1. /\ c \in Domains /\ run[c] \in Gates /\ CallDepth(e) = CallDepth(c) + 1
          /\ Payer(e) = Payer(c) /\ CallDepth(c) \in 1 .. MaxChainDepth + 1
      BY <2>2, CallerIsHigher, PayerOfCaller
    <3>2. Rooted(c)
      BY <1>2, <3>1, ChainAssumption
    <3>3. ~Unwinds(c) => Payer(c) = c
      BY <3>1, PayerOfCaller
    <3> HIDE DEF c
    <3> QED BY <3>1, <3>2, <3>3
  <2> QED BY <2>1, <2>2
<1>3. CallDepth(d) \in Nat /\ CallDepth(d) <= CallDepth(d)
  BY CallerIsHigher, ChainAssumption
<1>4. CallDepth(d) \in S
  <2> HIDE DEF S
  <2> QED BY <1>1, <1>2, <1>3, SetInduction
<1> QED BY <1>3, <1>4

\* At one level a payer pays for one domain only.
LEMMA PayerIsInjective ==
  ASSUME TypeOK, GatesConsistent, DepthsExact,
         NEW d \in Domains, NEW e \in Domains,
         CallDepth(d) = CallDepth(e), Payer(d) = Payer(e)
  PROVE  d = e
<1> DEFINE S == {n \in Nat : \A a, b \in Domains :
                   CallDepth(a) = n + 1 /\ CallDepth(b) = n + 1 /\ Payer(a) = Payer(b) => a = b}
<1>1. \A a \in Domains : CallDepth(a) \in 1 .. MaxChainDepth + 1 /\ CallDepth(a) - 1 \in Nat
  BY CallerIsHigher, ChainAssumption
<1>2. 0 \in S
  <2>1. \A a \in Domains : CallDepth(a) = 1 => ~Unwinds(a)
    <3> SUFFICES ASSUME NEW a \in Domains, Unwinds(a) PROVE CallDepth(a) # 1
      OBVIOUS
    <3>1. CallDepth(a) = CallDepth(Caller(a)) + 1 /\ Caller(a) \in Domains
      BY CallerIsHigher
    <3> QED BY <1>1, <3>1, ChainAssumption
  <2> QED BY <2>1, PayerOfCaller
<1>3. ASSUME NEW n \in Nat, n \in S PROVE n + 1 \in S
  <2> SUFFICES ASSUME NEW a \in Domains, NEW b \in Domains,
                      CallDepth(a) = n + 2, CallDepth(b) = n + 2, Payer(a) = Payer(b)
               PROVE  a = b
    OBVIOUS
  <2>1. Unwinds(a) /\ Unwinds(b)
    BY CallerIsHigher
  <2>2. /\ Caller(a) \in Domains /\ CallDepth(a) = CallDepth(Caller(a)) + 1
        /\ run[Caller(a)] = serving[a] /\ Callee[serving[a]] = a
        /\ Payer(a) = Payer(Caller(a))
    BY <2>1, CallerIsHigher, PayerOfCaller
  <2>3. /\ Caller(b) \in Domains /\ CallDepth(b) = CallDepth(Caller(b)) + 1
        /\ run[Caller(b)] = serving[b] /\ Callee[serving[b]] = b
        /\ Payer(b) = Payer(Caller(b))
    BY <2>1, CallerIsHigher, PayerOfCaller
  <2>4. CallDepth(Caller(a)) = n + 1 /\ CallDepth(Caller(b)) = n + 1
    BY <1>1, <2>2, <2>3, ChainAssumption
  <2>5. Caller(a) = Caller(b)
    BY <1>3, <2>2, <2>3, <2>4
  <2> QED BY <2>2, <2>3, <2>5
<1>4. CallDepth(d) - 1 \in S
  <2> HIDE DEF S
  <2>1. CallDepth(d) - 1 \in Nat
    BY <1>1
  <2> QED BY <1>2, <1>3, <2>1, SetInduction
<1>5. CallDepth(d) - 1 + 1 = CallDepth(d)
  BY <1>1, ChainAssumption
<1> QED BY <1>4, <1>5

\* On the chain of one payer, whatever is above another domain is blocked.
LEMMA HigherIsBlocked ==
  ASSUME TypeOK, GatesConsistent, DepthsExact,
         NEW d \in Domains, NEW e \in Domains,
         CallDepth(d) < CallDepth(e), Payer(d) = Payer(e)
  PROVE  run[d] \in Gates
<1> DEFINE S == {n \in Nat : \A b \in Domains :
                   CallDepth(b) = n + 1 /\ CallDepth(d) < n + 1 /\ Payer(b) = Payer(d)
                     => run[d] \in Gates}
<1>1. \A a \in Domains : CallDepth(a) \in 1 .. MaxChainDepth + 1 /\ CallDepth(a) - 1 \in Nat
  BY CallerIsHigher, ChainAssumption
<1>2. 0 \in S
  BY <1>1, ChainAssumption
<1>3. ASSUME NEW n \in Nat, n \in S PROVE n + 1 \in S
  <2> SUFFICES ASSUME NEW b \in Domains, CallDepth(b) = n + 2, CallDepth(d) < n + 2,
                      Payer(b) = Payer(d)
               PROVE  run[d] \in Gates
    OBVIOUS
  <2> DEFINE c == Caller(b)
  <2>1. Unwinds(b)
    BY CallerIsHigher
  <2>2. /\ c \in Domains /\ CallDepth(b) = CallDepth(c) + 1
        /\ run[c] \in Gates /\ Payer(b) = Payer(c)
    BY <2>1, CallerIsHigher, PayerOfCaller
  <2> HIDE DEF c
  <2>3. CallDepth(c) = n + 1
    BY <1>1, <2>2, ChainAssumption
  <2>4. CASE CallDepth(d) = n + 1
    BY <2>2, <2>3, <2>4, PayerIsInjective
  <2>5. CASE CallDepth(d) < n + 1
    BY <1>3, <2>2, <2>3, <2>5
  <2> QED BY <1>1, <2>4, <2>5, ChainAssumption
<1>4. CallDepth(e) - 1 \in S
  <2> HIDE DEF S
  <2>1. CallDepth(e) - 1 \in Nat
    BY <1>1
  <2> QED BY <1>2, <1>3, <2>1, SetInduction
<1>5. CallDepth(e) - 1 + 1 = CallDepth(e)
  BY <1>1, ChainAssumption
<1> QED BY <1>4, <1>5

\* Donation: whatever runs inside a call is paid for by the origin of its
\* chain, which serves no one, is blocked, and pays for no other running
\* domain (State.lean chainOrigin and payer, Step.lean corePhase).
THEOREM PayerIsTheOrigin == Spec => []PayerIsOrigin
<1>1. TypeOK /\ GatesConsistent /\ DepthsExact => PayerIsOrigin
  <2> SUFFICES ASSUME TypeOK, GatesConsistent, DepthsExact,
                      NEW d \in Domains, run[d] = "running", serving[d] # None
               PROVE  /\ serving[Payer(d)] = None
                      /\ run[Payer(d)] \in Gates
                      /\ \A e \in Domains : run[e] = "running" /\ Payer(e) = Payer(d) => e = d
    BY DEF PayerIsOrigin
  <2>1. Unwinds(d)
    BY DEF GatesConsistent, Unwinds
  <2>2. Payer(d) \in Domains /\ ~Unwinds(Payer(d)) /\ run[Payer(d)] \in Gates
    BY <2>1, PayerOfCaller, PayerIsRoot
  <2>3. serving[Payer(d)] = None
    BY <2>2 DEF GatesConsistent, Unwinds
  <2>4. ASSUME NEW e \in Domains, run[e] = "running", Payer(e) = Payer(d) PROVE e = d
    <3>1. run[d] \notin Gates /\ run[e] \notin Gates
      BY <2>4, RunStates
    <3>2. ~(CallDepth(d) < CallDepth(e)) /\ ~(CallDepth(e) < CallDepth(d))
      BY <2>4, <3>1, HigherIsBlocked
    <3>3. CallDepth(d) = CallDepth(e)
      BY <3>2, CallerIsHigher, ChainAssumption
    <3> QED BY <2>4, <3>3, PayerIsInjective
  <2> QED BY <2>2, <2>3, <2>4
<1> QED BY <1>1, TypeCorrect, GatesAreConsistent, DepthsAreExact, PTL
=============================================================================

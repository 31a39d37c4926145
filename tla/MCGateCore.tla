----------------------------- MODULE MCGateCore -----------------------------
(***************************************************************************)
(* Every domain serves a gate that any other may call: with four domains   *)
(* and MaxChainDepth 2, chains of two calls form and the third call is     *)
(* refused.  da can pay for a whole chain, dc refills twice as often.      *)
(***************************************************************************)
EXTENDS GateCore, FiniteSetsExt

CONSTANTS da, db, dc, dd, ga, gb, gc, gd

MCCallee == [g \in Gates |->
               CASE g = ga -> da [] g = gb -> db [] g = gc -> dc [] g = gd -> dd]
MCPriority == [d \in Domains |-> CASE d = da -> 2 [] d = db -> 1 [] d = dc -> 4 [] d = dd -> 3]
MCQuota == [d \in Domains |-> IF d = da THEN 6 ELSE 2]
MCPeriod == [d \in Domains |-> IF d = dc THEN Hyperperiod \div 2 ELSE Hyperperiod]
MCMaxDonation == [d \in Domains |-> IF d = da THEN 5 ELSE 3]

\* StrictlySchedulable of Theorems/T6.lean.
ASSUME MCSchedulable ==
  2 * MapThenSumSet(LAMBDA d : Quota[d] * (Hyperperiod \div Period[d]), Domains)
    < Hyperperiod
=============================================================================

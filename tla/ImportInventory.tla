------------------------------ MODULE ImportInventory ------------------------------
(***************************************************************************)
(* What the construct inventory says of a module before the importer reads  *)
(* it: its clocks and resets, its latches, and its cells outside Loom's     *)
(* native ones.                                                            *)
(***************************************************************************)
EXTENDS ImportModule

(* A mutant: the table has a latch too.                                   *)
NativeCellsWithLatches == {"$sdff", "$sdffe", "$dlatch"} \cup (SupportedComb \ {"$sshr", "$shift", "$shiftx"})
NativeCells == {"$sdff", "$sdffe"} \cup (SupportedComb \ {"$sshr", "$shift", "$shiftx"})
ResetOf == [kind \in Sequential \cup {"$aldff", "$aldffe"} |->
              CASE kind \in {"$dff", "$dffe"} -> "none"
                [] kind \in Resets -> "synchronous"
                [] kind \in {"$adff", "$adffe"} -> "asynchronous"
                [] OTHER -> "asynchronous_load"]
Latches == {"$dlatch", "$adlatch", "$dlatchsr"}
KindOf(i) == Cells[i].kind
Clocked == {i \in DOMAIN Cells : KindOf(i) \in DOMAIN ResetOf}

Unsupported == {KindOf(i) : i \in {j \in DOMAIN Cells : KindOf(j) \notin NativeCells \cup {"child"}}}
Record ==
  [clock_domains |-> {<<Cells[i].clk, Cells[i].rising>> : i \in Clocked},
   resets        |-> {<<i, ResetOf[KindOf(i)]>> : i \in {j \in Clocked : ResetOf[KindOf(j)] # "none"}},
   latches       |-> Cardinality({i \in DOMAIN Cells : KindOf(i) \in Latches}),
   unsupported   |-> Unsupported]
Finished == phase \in {"pass", "blocked"}

(* A module whose cells the inventory takes for native meets no cell the    *)
(* importer has no operator for. Code: LOOM_NATIVE_CELLS, SUPPORTED_COMB.   *)
NativeCellsTranslate == Finished /\ Record.unsupported = {} => ~\E b \in blocks : b[1] = "yosys_cell"

(* Inventory and import see the same clocks, edge by edge, and every reset   *)
(* the inventory calls asynchronous blocks the import. Code: module_record  *)
(* and translate.                                                          *)
SameDomains ==
  Finished =>
    /\ {i \in DOMAIN Cells : KindOf(i) \in {"$aldff", "$aldffe"}} = {}
         => Record.clock_domains = {domains[n] : n \in DOMAIN domains}
    /\ (\E r \in Record.resets : r[2] \in {"asynchronous", "asynchronous_load"}) => phase = "blocked"
==================================================================================

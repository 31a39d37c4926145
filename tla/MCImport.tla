-------------------------------- MODULE MCImport --------------------------------
(***************************************************************************)
(* The parts of the importer side by side: a cell, a memory, a module with  *)
(* its inventory record, or a package.  A behaviour follows one of them.   *)
(***************************************************************************)
EXTENDS MCImportInventory, MCImportMemory, MCImportPackage

CONSTANTS Parts, MaxWidth, Fills, MemoryCells, MemoryPolicies,
          Designs, Documents, Classifications

VARIABLES part, cell, fill, result, blocked, mem, gold, design, identified, selection, reachable, pending, translated, ids, table, files

C == INSTANCE ImportCell
M == INSTANCE ImportMemory WITH Cells <- MemoryCells, Policies <- MemoryPolicies
P == INSTANCE ImportPackage WITH Policies <- Documents

(* The modules of a design are numbered in the order of their names, and an   *)
(* expression is made of expressions that were made before it.               *)
IsSequence(s) == Len(s) \in Nat /\ s = [n \in 1..Len(s) |-> s[n]]
ASSUME DesignsAssumption ==
  \A d \in Designs :
    /\ DOMAIN d \subseteq Nat /\ IsFiniteSet(DOMAIN d)
    /\ \A n \in DOMAIN d :
         /\ IsSequence(d[n].cells) /\ IsSequence(d[n].heap) /\ IsSequence(d[n].roots)
         /\ Members(d[n].roots) \subseteq DOMAIN d[n].heap
         /\ \A o \in DOMAIN d[n].heap : LET parts == d[n].heap[o].parts IN
              /\ d[n].heap[o] = [op |-> d[n].heap[o].op, parts |-> parts]
              /\ IsSequence(parts) /\ Members(parts) \subseteq 1..o - 1

(* A write port with a literal address has as many address bits as any, and   *)
(* a word of the initial value as many bits as the others.                   *)
ASSUME MemoriesAssumption ==
  \A c \in MemoryCells :
    /\ c.size \in Int /\ c.abits \in Int
    /\ \A w \in 0..c.size - 1 : c.init[w].ones \cup c.init[w].unknown \subseteq 0..c.width - 1
    /\ IsSequence(c.writes)
    /\ \A i \in DOMAIN c.writes : c.writes[i].static \in Int /\ (c.abits > 0 => c.writes[i].static < M!Power[c.abits])

AllNetlists == MCNetlists \cup MCClockings

ofCell == <<fill, result>>
ofMemory == <<mem, gold>>
ofEither == <<cell, blocked>>
ofModule == <<netlist, env, k, cache, blocks, domains, registers, outputs>>
ofPackage == <<design, identified, selection, reachable, pending, translated, ids, table, files>>
allVars == <<part, phase, policy, ofCell, ofMemory, ofEither, ofModule, ofPackage>>

NoCell == fill = 0 /\ result = 0
NoMemory == mem = 0 /\ gold = 0
NoModule ==
  /\ netlist = 0 /\ env = 0 /\ k = 0 /\ cache = 0 /\ blocks = 0
  /\ domains = 0 /\ registers = 0 /\ outputs = 0
NoPackage ==
  /\ design = 0 /\ identified = 0 /\ selection = 0 /\ reachable = 0 /\ pending = 0
  /\ translated = 0 /\ ids = 0 /\ table = 0 /\ files = 0

ImportInit ==
  /\ part \in Parts
  /\ \/ part = "cell" /\ C!Init /\ policy = 0 /\ NoMemory /\ NoModule /\ NoPackage
     \/ part = "memory" /\ M!Init /\ NoCell /\ NoModule /\ NoPackage
     \/ part = "module" /\ Init /\ cell = 0 /\ blocked = 0 /\ NoCell /\ NoMemory /\ NoPackage
     \/ part = "package" /\ P!Init /\ cell = 0 /\ blocked = 0 /\ NoCell /\ NoMemory /\ NoModule

CellStep == part = "cell" /\ C!Next /\ UNCHANGED <<part, policy, ofMemory, ofModule, ofPackage>>
MemoryStep == part = "memory" /\ M!Next /\ UNCHANGED <<part, ofCell, ofModule, ofPackage>>
ModuleStep == part = "module" /\ Next /\ UNCHANGED <<part, ofCell, ofMemory, ofEither, ofPackage>>
PackageStep == part = "package" /\ P!Next /\ UNCHANGED <<part, ofCell, ofMemory, ofEither, ofModule>>

ImportNext == CellStep \/ MemoryStep \/ ModuleStep \/ PackageStep
ImportSpec == ImportInit /\ [][ImportNext]_allVars
--------------------------------------------------------------------------------
(* A cell without a blocker computes what Yosys computes, signed division    *)
(* and amounts wider than the result apart, and a part select passes only    *)
(* with a zero fill. Code: cell_expr.                                        *)
LoweringIsExact == part = "cell" => C!LoweringIsExact /\ C!OnlyZeroFillPasses

(* "Unsupported cells are retained as source-located blockers; they are     *)
(* never guessed or dropped": no cell at all is emitted with another value.  *)
NeverGuessed == part = "cell" => C!Exact

(* Whole-word commits leave what the ordered, masked writes leave, and a     *)
(* read gives the word at its address, or the policy's fill past the end.    *)
(* Code: prepare_memories, memory_read, memory_address.                      *)
MemoriesAgree == part = "memory" => M!MemoriesAgree /\ M!ReadsAgree

(* A module that passes means what its netlist means: nothing it emits        *)
(* depends on a loop, the walk over its cells ends unless a net has no driver, *)
(* and registers share a domain only with one clock and one edge.            *)
(* Code: expr, cell_expr, translate.                                         *)
ModulesAreExact ==
  part = "module" => PassIsExact /\ PassIsAcyclic /\ OnlyUndrivenOverflows /\ EdgesStayApart

(* Inventory and importer agree on a module: what one takes for native meets  *)
(* no unknown cell in the other, both see the same clocks, and an             *)
(* asynchronous reset of the inventory blocks the import. Code:               *)
(* LOOM_NATIVE_CELLS, SUPPORTED_COMB, module_record and translate.            *)
InventoryAgrees == part = "module" => NativeCellsTranslate /\ SameDomains

(* A package that passes holds every module below its top, none blocked.    *)
(* Code: main.                                                             *)
PassIsComplete == part = "package" => P!PassIsComplete

(* The shared table stands for the trees, with one row for every object.      *)
(* Code: encode_module_expression_dag.                                      *)
TableIsTheTrees == part = "package" => P!TableIsTheTrees /\ P!SharingKept
================================================================================

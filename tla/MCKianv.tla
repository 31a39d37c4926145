--------------------------------- MODULE MCKianv ---------------------------------
(***************************************************************************)
(* The equivalence runner with its evidence, the miter it builds for one     *)
(* module, and the physical hand-over. A behaviour follows one of them.      *)
(***************************************************************************)
EXTENDS KianvEvidence, SequencesExt

CONSTANTS Parts, Miters, Nets, Hierarchies, EmittedDesigns, Plans, Macros, Torn,
          Top, Ram, Emit(_), Order(_)

VARIABLES part,
          miter, relation, nets, todo, driver, taps,
          hierarchy, emission, config, pdn, rtl, floorplan, powerplan, manifest, writing, verified

Miter == INSTANCE KianvMiter
Handoff == INSTANCE KianvHandoff WITH Packages <- Hierarchies, Emissions <- EmittedDesigns, Configs <- Plans,
       package <- hierarchy

(* The instances of a module are told apart by their names, before and after *)
(* they are emitted; the paths are sorted; a plan can be told from a torn file. *)
IsSequence(s) == Len(s) \in Nat /\ s = [n \in 1..Len(s) |-> s[n]]
InstancesOf(modules) == UNION {Handoff!Members(modules[n]) : n \in DOMAIN modules}
ASSUME NamesAssumption ==
  /\ \A h \in Hierarchies :
       \A i, j \in InstancesOf(h) : Emit(i.name) = Emit(j.name) => i.name = j.name
  /\ \A e \in EmittedDesigns : \A n \in DOMAIN e.modules :
       /\ IsSequence(e.modules[n])
       /\ \A i, j \in Handoff!Members(e.modules[n]) : i.name = j.name => i = j
ASSUME OrderAssumption ==
  \A h \in Hierarchies : (Top \in DOMAIN h /\ ~Handoff!Recursive(h)) =>
    LET sorted == Order(Handoff!Paths(h, Top)) IN
    /\ IsSequence(sorted) /\ Handoff!Members(sorted) = Handoff!Paths(h, Top)
    /\ \A k, m \in DOMAIN sorted : sorted[k] = sorted[m] => k = m
ASSUME PlansAssumption ==
  \A c \in Plans : IsSequence(c) /\ [n \in DOMAIN c |-> Handoff!Emitted(c[n])] \notin {None, Torn}

(* A package has no recursive hierarchy. A net has its own names, and one     *)
(* port at most that drives it.                                             *)
ASSUME MitersAssumption ==
  \A m \in Miters :
    /\ m.flatten \in BOOLEAN /\ IsFiniteSet(DOMAIN m.package)
    /\ \E rank \in [DOMAIN m.package -> 0..Cardinality(DOMAIN m.package)] : \A n \in DOMAIN m.package :
         \A c \in Miter!Present(m.package, m.package[n].children) : rank[c.of] < rank[n]
    /\ \A n \in DOMAIN m.package : LET module == m.package[n] IN
         /\ IsSequence(module.registers) /\ IsSequence(module.memories) /\ IsSequence(module.children)
         /\ \A i \in DOMAIN module.memories : module.memories[i].size \in Nat /\ module.memories[i].width \in Nat
ASSUME NetsAssumption ==
  \A n \in Nets :
    /\ \A bit \in DOMAIN n.aliases : IsSequence(n.aliases[bit])
    /\ \A bit, other \in DOMAIN n.aliases :
         Miter!Members(n.aliases[bit]) \cap Miter!Members(n.aliases[other]) # {} => bit = other
    /\ IsSequence(n.cells)
    /\ \A i \in DOMAIN n.cells :
         /\ IsSequence(n.cells[i])
         /\ \A j \in DOMAIN n.cells[i] : LET port == n.cells[i][j] IN
              IsSequence(port.bits) /\ port.input \in BOOLEAN /\ Miter!Members(port.bits) \subseteq DOMAIN n.aliases
    /\ \A i, x \in DOMAIN n.cells : \A j \in DOMAIN n.cells[i], y \in DOMAIN n.cells[x] :
         LET port == n.cells[i][j]
             other == n.cells[x][y]
         IN (~port.input /\ ~other.input) =>
              \A b \in DOMAIN port.bits, z \in DOMAIN other.bits :
                 port.bits[b] = other.bits[z] => <<i, j, b>> = <<x, y, z>>

ofMiter == <<miter, relation, nets, todo, driver, taps>>
ofHandoff == <<hierarchy, emission, config, pdn, rtl, floorplan, powerplan, manifest, writing, verified>>
ofRunner == <<files, running, report, evidence>>
allVars == <<part, ofMiter, ofHandoff, ofRunner, edits>>

NoMiter == miter = 0 /\ relation = None /\ nets = 0 /\ todo = <<>> /\ driver = 0 /\ taps = 0
NoHandoff ==
  /\ hierarchy = 0 /\ emission = 0 /\ config = 0 /\ pdn = 0 /\ rtl = None /\ floorplan = None
  /\ powerplan = None /\ manifest = None /\ writing = None /\ verified = None
NoRunner ==
  /\ elaborated = 0 /\ package = 0 /\ emitted = 0 /\ running = None /\ report = None
  /\ evidence = None

KianvInit ==
  /\ part \in Parts
  /\ \/ part = "runner" /\ Init /\ NoMiter /\ NoHandoff
     \/ part = "miter" /\ Miter!Init /\ NoHandoff /\ NoRunner /\ edits = 0
     \/ part = "handoff" /\ Handoff!Init /\ NoMiter /\ NoRunner

RunnerStep == part = "runner" /\ Next /\ UNCHANGED <<part, ofMiter, ofHandoff>>
MiterStep == part = "miter" /\ Miter!Next /\ UNCHANGED <<part, ofHandoff, ofRunner, edits>>
HandoffStep == part = "handoff" /\ Handoff!Next /\ UNCHANGED <<part, ofMiter, ofRunner>>

KianvNext == RunnerStep \/ MiterStep \/ HandoffStep
KianvSpec == KianvInit /\ [][KianvNext]_allVars
--------------------------------------------------------------------------------
Mod(name, leaf) == [name |-> name, leaf |-> leaf]
MCPackages ==
  {<<Mod("core", FALSE), Mod("ram", TRUE), Mod("mmu", TRUE)>>, <<Mod("core", FALSE), Mod("ram", TRUE)>>}
MCElaborations == {[n \in {"core", "ram", "mmu"} |-> 1], [n \in {"core", "ram"} |-> 1],
                   [n \in {"core", "ram", "mmu"} |-> IF n = "mmu" THEN 2 ELSE 1]}
MCContracts == {[module |-> "ram", contract |-> "sram"], [module |-> "ram", contract |-> "other"]}
MCSelections == {{}, {"core", "ram"}}

Reg(name, domain, offset, width) == [name |-> name, domain |-> domain, offset |-> offset, width |-> width]
Mem(name, size, width) == [name |-> name, size |-> size, width |-> width]
Inst(name, of) == [name |-> name, of |-> of]
Part(domains, registers, memories, children) ==
  [domains |-> domains, registers |-> registers, memories |-> memories, children |-> children]
Roots == {Part(<<"c">>, r, m, k) :
            r \in {<<>>, <<Reg("s", "c", 0, 1), Reg("s", "c", 1, 2)>>},
            m \in {<<>>, <<Mem("m", 2, 3)>>, <<Mem("m", 2, 3), Mem("n", 3, 2)>>},
            k \in {<<>>, <<Inst(1, "leaf")>>, <<Inst(1, "leaf"), Inst(2, "leaf")>>, <<Inst(1, "gone")>>}}
Leaves == {Part(d, r, m, <<>>) :
             d \in {<<"c">>, <<"c", "d">>, <<"c", "c">>},
             r \in {<<>>, <<Reg("q", "c", 0, 2)>>, <<Reg("q", "c", 0, 2), Reg("q", "c", 0, 2)>>},
             m \in {<<>>, <<Mem("w", 2, 2)>>}}
MCMiters ==
  {[package |-> [n \in {"root", "leaf"} |-> IF n = "root" THEN r ELSE l], root |-> "root", flatten |-> f] :
     r \in Roots, l \in Leaves, f \in BOOLEAN}

Port(input, bits) == [input |-> input, bits |-> bits]
MCAliases == {[b \in 1..3 |-> CASE b = 1 -> <<"a", "a2">> [] b = 2 -> two [] b = 3 -> <<"c">>] :
                two \in {<<"b">>, <<"b", "b2">>, <<>>}}
MCCells == {<<x, y>> : x \in {<<Port(FALSE, <<1>>), Port(TRUE, <<2, 3>>)>>, <<Port(FALSE, <<1, 3>>)>>, <<>>},
                       y \in {<<Port(FALSE, <<2>>), Port(TRUE, <<1>>)>>, <<Port(TRUE, <<1, 3>>)>>}}
MCNets == {[aliases |-> a, cells |-> c] : a \in MCAliases, c \in MCCells}

Design(top, mid) == [n \in {"top", "mid", "ram"} |-> CASE n = "top" -> top [] n = "mid" -> mid [] n = "ram" -> <<>>]
MCHierarchies ==
  {Design(<<Inst(0, "ram"), Inst(1, "mid")>>, <<Inst(0, "ram")>>),
   Design(<<Inst(1, "ram"), Inst(2, "ram")>>, <<Inst(0, "other")>>),
   Design(<<Inst(1, "mid"), Inst(3, "mid")>>, <<Inst(2, "ram")>>),
   Design(<<Inst(0, "ram")>>, <<Inst(0, "mid")>>),
   Design(<<Inst(1, "ram")>>, <<Inst(0, "ram")>>),
   Design(<<Inst(0, "mid")>>, <<>>),
   [n \in {"mid", "ram"} |-> <<>>]}
MCEmit(name) == IF name = 0 THEN 0 ELSE name + 1
EmitAll(h) == [n \in DOMAIN h |-> [i \in DOMAIN h[n] |-> [h[n][i] EXCEPT !.name = Emit(@)]]]
MCEmitted == {[modules |-> EmitAll(h), body |-> TRUE] : h \in MCHierarchies}
               \cup {[modules |-> EmitAll(Design(<<Inst(0, "ram"), Inst(1, "mid")>>, <<Inst(0, "ram"), Inst(1, "ram")>>)), body |-> b] :
                       b \in BOOLEAN}
MCPlans == {<<<<0>>, <<1, 0>>>>, <<<<1, 0>>, <<0>>>>, <<<<1>>, <<2>>>>, <<<<2>>, <<1>>>>, <<<<3, 2>>, <<1, 2>>>>, <<<<1, 2>>, <<3, 2>>, <<1, 2>>>>, <<<<1>>>>}

(* Lexicographic, as Python compares. *)
Less(p, q) ==
  \/ Len(p) < Len(q) /\ p = SubSeq(q, 1, Len(p))
  \/ \E n \in DOMAIN p \cap DOMAIN q : p[n] < q[n] /\ \A m \in 1..n - 1 : p[m] = q[m]
MCOrder(paths) == SetToSortSeq(paths, Less)
--------------------------------------------------------------------------------
(* A miter that is proved says that the designs agree: it relates every bit   *)
(* of state once, and the cut children leave no net undriven or unobserved.   *)
(* Code: state_pairs, add_memory_relation_wires, add_child_harness.           *)
MiterIsSound == part = "miter" => Miter!RelationIsComplete /\ Miter!CutsKeepContracts

(* A verified hand-over can be built: its memories are where the plans have   *)
(* them, and power reaches every one. Code: main of the verifier and          *)
(* add_power_hierarchy.                                                     *)
VerifiedIsBuildable == Handoff!VerifiedIsPlaced /\ Handoff!PowerReachesMacros

(* No translated path is translated again. Code: physical_config.            *)
TranslationIsExact == Handoff!TranslationIsExact
==================================================================================

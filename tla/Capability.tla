----------------------------- MODULE Capability -----------------------------
(***************************************************************************)
(* The capability tables of LNP64-mu and the pure functions of             *)
(* Machines/Lnp64u/Kernel.lean on them.                                    *)
(*                                                                         *)
(* t stands for the part of MachineState.doms these functions read and     *)
(* write: t.caps[d][s] is the entry in slot s of domain d, t.slotGen[d][s] *)
(* the generation of that slot, t.lineage[d][l] the parent reference held  *)
(* in lineage cell l.  A permission set is a subset of {"r", "w", "x"}.    *)
(***************************************************************************)
EXTENDS Naturals, FiniteSetsExt

CONSTANTS
  Domains,     \* DomainId
  Gates,       \* GateId
  NumSlots,    \* numSlots
  NumCells,    \* numLineage
  MemWords,    \* memWords
  GenRetired,  \* genRetired: a slot with this generation is dead
  None         \* the absent entry, cell, region, job, activation

ASSUME DomainsAssumption == IsFiniteSet(Domains)
ASSUME SizesAssumption ==
  /\ NumSlots \in Nat \ {0}
  /\ NumCells \in Nat \ {0}
  /\ MemWords \in Nat \ {0}
ASSUME GenRetiredAssumption == GenRetired \in Nat /\ GenRetired > 1

Slots == 0 .. NumSlots - 1
LineageCells == 0 .. NumCells - 1
Addrs == 0 .. MemWords - 1
Gens == 1 .. GenRetired
GenFirst == 1
Perms == SUBSET {"r", "w", "x"}

CapRefs == [dom : Domains, slot : Slots, gen : Gens]

MemKinds == [cls : {"mem"}, base : Addrs, len : 0 .. MemWords, perms : Perms]
GateKinds == [cls : {"gate"}, gate : Gates]
Kinds == MemKinds \union GateKinds
Entries == [kind : Kinds, lineage : LineageCells \union {None}]

ASSUME NoneAssumption ==
  None \notin Gates \union Domains \union LineageCells \union CapRefs \union Kinds \union Entries

Tables ==
  [caps : [Domains -> [Slots -> Entries \union {None}]],
   slotGen : [Domains -> [Slots -> Gens]],
   lineage : [Domains -> [LineageCells -> CapRefs \union {None}]]]

-----------------------------------------------------------------------------

WX(p) == ~ ({"w", "x"} \subseteq p)

\* CapKind.covers and Region.covers.
Covers(m, a, need) == m.base <= a /\ a < m.base + m.len /\ need \subseteq m.perms

LiveCap(t, d, s, g) == t.caps[d][s] # None /\ t.slotGen[d][s] = g

RefOf(t, d, s) == [dom |-> d, slot |-> s, gen |-> t.slotGen[d][s]]

LiveRef(t, r) == LiveCap(t, r.dom, r.slot, r.gen)

EntryOf(t, r) == t.caps[r.dom][r.slot]

\* The parent of a derived capability, None for a root or an empty slot.
ParentOf(t, d, s) ==
  IF t.caps[d][s] = None THEN None
  ELSE LET l == t.caps[d][s].lineage
       IN IF l = None THEN None ELSE t.lineage[d][l]

FreeSlots(t, d) == {s \in Slots : t.caps[d][s] = None /\ t.slotGen[d][s] # GenRetired}
FreeCells(t, d) == {l \in LineageCells : t.lineage[d][l] = None}

\* freeSlot and freeCell take the lowest one.
FreeSlot(t, d) == Min(FreeSlots(t, d))
FreeCell(t, d) == Min(FreeCells(t, d))

BumpGen(g) == IF g = GenRetired THEN g ELSE g + 1

-----------------------------------------------------------------------------

Place(t, d, s, kind, l) ==
  [t EXCEPT !.caps[d][s] = [kind |-> kind, lineage |-> l]]

InstallDerived(t, d, s, l, kind, parent) ==
  [Place(t, d, s, kind, l) EXCEPT !.lineage[d][l] = parent]

\* Children of old become children of new.
Reparent(t, old, new) ==
  [t EXCEPT !.lineage =
     [d \in Domains |-> [l \in LineageCells |->
        IF t.lineage[d][l] = old THEN new ELSE t.lineage[d][l]]]]

\* Mutant: the new roots keep their cells.
OrphanChildrenLeaking(t, old) ==
  [t EXCEPT !.caps = [d \in Domains |-> [s \in Slots |->
     IF t.caps[d][s] # None /\ ParentOf(t, d, s) = old
     THEN [kind |-> t.caps[d][s].kind, lineage |-> None]
     ELSE t.caps[d][s]]]]

\* Children of old become roots and give their cells back.
OrphanChildren(t, old) ==
  LET child(d, l) == l # None /\ t.lineage[d][l] = old
  IN [t EXCEPT
       !.caps = [d \in Domains |-> [s \in Slots |->
          IF t.caps[d][s] # None /\ child(d, t.caps[d][s].lineage)
          THEN [kind |-> t.caps[d][s].kind, lineage |-> None]
          ELSE t.caps[d][s]]],
       !.lineage = [d \in Domains |-> [l \in LineageCells |->
          IF child(d, l) THEN None ELSE t.lineage[d][l]]]]

\* Empty the slot, free its cell, retire its generation.
ClearSlot(t, d, s) ==
  LET freed(l) == t.caps[d][s] # None /\ t.caps[d][s].lineage = l
  IN [t EXCEPT
       !.caps[d][s] = None,
       !.slotGen[d][s] = BumpGen(@),
       !.lineage[d] = [l \in LineageCells |-> IF freed(l) THEN None ELSE @[l]]]

(***************************************************************************)
(* Descendant marking.  markStep marks the children of the root and of     *)
(* every marked capability; marks iterates it to the fixpoint, which is    *)
(* the least set the step adds nothing to.                                 *)
(***************************************************************************)
AllSlots == Domains \X Slots

\* Mutant: only the children of the root.
MarkChildren(t, root, m) ==
  m \union {ds \in AllSlots : ParentOf(t, ds[1], ds[2]) = root}
MarkStep(t, root, m) ==
  m \union
  {ds \in AllSlots :
     LET p == ParentOf(t, ds[1], ds[2])
     IN /\ p # None
        /\ \/ p = root
           \/ p.gen = t.slotGen[p.dom][p.slot] /\ <<p.dom, p.slot>> \in m}

Marks(t, root) ==
  {ds \in AllSlots :
     \A m \in SUBSET AllSlots : MarkStep(t, root, m) \subseteq m => ds \in m}

\* Mutant: as many rounds as there are domains.
MarksByShortRounds(t, root) ==
  LET rounds == Cardinality(Domains)
      m[n \in 0 .. rounds] == IF n = 0 THEN {} ELSE MarkStep(t, root, m[n - 1])
  IN m[rounds]

\* The loop as written: numDomains * numSlots rounds from the empty set.
MarksByRounds(t, root) ==
  LET rounds == Cardinality(Domains) * NumSlots
      m[n \in 0 .. rounds] ==
        IF n = 0 THEN {} ELSE MarkStep(t, root, m[n - 1])
  IN m[rounds]

\* Destroy every marked capability and free its cell.
DestroyMarked(t, m) ==
  LET dead(d, s) == <<d, s>> \in m /\ t.caps[d][s] # None
      freed(d, l) == \E s \in Slots : dead(d, s) /\ t.caps[d][s].lineage = l
  IN [caps |-> [d \in Domains |-> [s \in Slots |->
                  IF <<d, s>> \in m THEN None ELSE t.caps[d][s]]],
      slotGen |-> [d \in Domains |-> [s \in Slots |->
                  IF dead(d, s) THEN BumpGen(t.slotGen[d][s])
                                ELSE t.slotGen[d][s]]],
      lineage |-> [d \in Domains |-> [l \in LineageCells |->
                  IF freed(d, l) THEN None ELSE t.lineage[d][l]]]]

(***************************************************************************)
(* Transfer of the capability in (from, s) to domain to (lines 217-243,    *)
(* without the sweeps, which the instruction applies to its result).  The  *)
(* recipient must have a free slot and, for a derived capability, a cell.  *)
(***************************************************************************)
CanTransfer(t, from, s, to) ==
  /\ t.caps[from][s] # None
  /\ FreeSlots(t, to) # {}
  /\ t.caps[from][s].lineage # None => FreeCells(t, to) # {}

TransferCap(t, from, s, to) ==
  LET e == t.caps[from][s]
      s2 == FreeSlot(t, to)
      l2 == FreeCell(t, to)
      moved == IF e.lineage = None
               THEN Place(t, to, s2, e.kind, None)
               ELSE InstallDerived(t, to, s2, l2, e.kind, t.lineage[from][e.lineage])
  IN ClearSlot(Reparent(moved, RefOf(t, from, s), RefOf(t, to, s2)), from, s)
=============================================================================

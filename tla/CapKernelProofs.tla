--------------------------- MODULE CapKernelProofs ---------------------------
(***************************************************************************)
(* Theorems about CapKernel for every number of domains, gates, slots,     *)
(* cells, words and generations and for every manifest: its state is well  *)
(* typed, every authority in it lies within a root of the manifest, the    *)
(* authority cached in region registers and in the Mover is still held,    *)
(* the lineage cells balance, sweeps are complete, and the whole           *)
(* implements the abstract forest of capabilities.                         *)
(*                                                                         *)
(* The invariant of authority is the conjunction.  An instruction narrows, *)
(* copies or moves a kind that is already in the tables, so its result is  *)
(* a kind, and a confined one, only because the first is one; the          *)
(* cursors of a Mover job stay below MemWords, and never wrap, only        *)
(* because the job is still covered by a confined kind.  What a sweep      *)
(* needs of the instruction before it is KindsStable.                      *)
(*                                                                         *)
(* The invariant of structure, ForestInv, says that the tables are Rooted: *)
(* the recorded parents are live and acyclic, and each lineage cell has    *)
(* one user.  Every instruction is one of the four moves Derives, Drops,   *)
(* Revokes and Transfers or leaves the tables alone (CycleMoves), and each *)
(* move is the action of CapForest it is named for.                        *)
(***************************************************************************)
EXTENDS CapKernel, Induction, FiniteSetTheorems

(***************************************************************************)
(* The pure functions of Capability, for tables of any size: each leaves   *)
(* well-typed tables whose entries have kinds that were there before, or   *)
(* the kind being installed; the four moves keep tables Rooted; the rounds *)
(* of the sweep are as many as a chain of derivations can be long.         *)
(***************************************************************************)
\* Every entry of t has a kind in K.
KindsIn(t, K) ==
  \A d \in Domains, s \in Slots : t.caps[d][s] # None => t.caps[d][s].kind \in K

\* A non-empty set of naturals has a least element, and Min is it.
LEMMA MinIsLeast ==
  ASSUME NEW S, S \subseteq Nat, S # {}
  PROVE  Min(S) \in S /\ \A y \in S : Min(S) <= y
<1>1. PICK x \in S : \A y \in S : x <= y
  BY LeastNatural
<1> QED BY <1>1 DEF Min

\* freeSlot returns a free slot if there is one.
LEMMA FreeSlotIsFree ==
  ASSUME NEW t, NEW d \in Domains, FreeSlots(t, d) # {}
  PROVE  /\ FreeSlot(t, d) \in Slots /\ t.caps[d][FreeSlot(t, d)] = None
         /\ t.slotGen[d][FreeSlot(t, d)] # GenRetired
<1>1. FreeSlots(t, d) \subseteq Nat
  BY SizesAssumption DEF FreeSlots, Slots
<1>2. FreeSlot(t, d) \in FreeSlots(t, d)
  BY <1>1, MinIsLeast DEF FreeSlot
<1> QED BY <1>2 DEF FreeSlots

\* freeCell returns a free cell if there is one.
LEMMA FreeCellIsFree ==
  ASSUME NEW t, NEW d \in Domains, FreeCells(t, d) # {}
  PROVE  FreeCell(t, d) \in LineageCells /\ t.lineage[d][FreeCell(t, d)] = None
<1>1. FreeCells(t, d) \subseteq Nat
  BY SizesAssumption DEF FreeCells, LineageCells
<1>2. FreeCell(t, d) \in FreeCells(t, d)
  BY <1>1, MinIsLeast DEF FreeCell
<1> QED BY <1>2 DEF FreeCells

\* A bumped generation is a generation.
LEMMA BumpGenType == ASSUME NEW g \in Gens PROVE BumpGen(g) \in Gens
BY GenRetiredAssumption DEF BumpGen, Gens

\* What a well-typed table holds.
LEMMA TableParts ==
  ASSUME NEW t \in Tables
  PROVE  /\ t.caps \in [Domains -> [Slots -> Entries \union {None}]]
         /\ t.slotGen \in [Domains -> [Slots -> Gens]]
         /\ t.lineage \in [Domains -> [LineageCells -> CapRefs \union {None}]]
         /\ t = [caps |-> t.caps, slotGen |-> t.slotGen, lineage |-> t.lineage]
BY DEF Tables

CapsType == [Domains -> [Slots -> Entries \union {None}]]
LineageType == [Domains -> [LineageCells -> CapRefs \union {None}]]

\* An update of the whole capability table.
LEMMA UpdateCaps ==
  ASSUME NEW t \in Tables, NEW x \in CapsType
  PROVE  LET r == [t EXCEPT !.caps = x]
         IN r \in Tables /\ r.caps = x /\ r.slotGen = t.slotGen /\ r.lineage = t.lineage
BY DEF Tables, CapsType

\* An update of the whole lineage table.
LEMMA UpdateLineage ==
  ASSUME NEW t \in Tables, NEW x \in LineageType
  PROVE  LET r == [t EXCEPT !.lineage = x]
         IN r \in Tables /\ r.caps = t.caps /\ r.slotGen = t.slotGen /\ r.lineage = x
BY DEF Tables, LineageType

\* The parent of a capability is a reference, or None.
LEMMA ParentType ==
  ASSUME NEW t \in Tables, NEW d \in Domains, NEW s \in Slots
  PROVE  ParentOf(t, d, s) \in CapRefs \union {None}
<1>1. t.caps[d][s] # None => t.caps[d][s] \in Entries
  BY TableParts
<1>2. t.caps[d][s] # None => t.caps[d][s].lineage \in LineageCells \union {None}
  BY <1>1 DEF Entries
<1> QED BY <1>2, TableParts DEF ParentOf

-----------------------------------------------------------------------------

\* Place changes one entry.
LEMMA PlaceFacts ==
  ASSUME NEW t \in Tables, NEW d \in Domains, NEW s \in Slots, NEW kind \in Kinds,
         NEW l \in LineageCells \union {None}
  PROVE  LET r == Place(t, d, s, kind, l)
         IN /\ r \in Tables /\ r.slotGen = t.slotGen /\ r.lineage = t.lineage
            /\ \A e \in Domains, q \in Slots :
                 r.caps[e][q] =
                   IF e = d /\ q = s THEN [kind |-> kind, lineage |-> l] ELSE t.caps[e][q]
<1> DEFINE r == Place(t, d, s, kind, l)
           new == [kind |-> kind, lineage |-> l]
           x == [t.caps EXCEPT ![d] = [t.caps[d] EXCEPT ![s] = new]]
<1>1. new \in Entries
  BY DEF Entries
<1>2. Place(t, d, s, kind, l) = [t EXCEPT !.caps[d][s] = new]
  BY DEF Place
<1> HIDE DEF new
<1>3. x \in CapsType
  BY <1>1, TableParts DEF CapsType
<1>4. r = [t EXCEPT !.caps = x]
  BY <1>1, <1>2 DEF Tables
<1>5. \A e \in Domains, q \in Slots :
        x[e][q] = IF e = d /\ q = s THEN new ELSE t.caps[e][q]
  BY TableParts
<1> HIDE DEF x, r
<1>6. r \in Tables /\ r.caps = x /\ r.slotGen = t.slotGen /\ r.lineage = t.lineage
  BY <1>3, <1>4, UpdateCaps, Zenon
<1>7. \A e \in Domains, q \in Slots :
        r.caps[e][q] = IF e = d /\ q = s THEN [kind |-> kind, lineage |-> l]
                                         ELSE t.caps[e][q]
  BY <1>5, <1>6 DEF new
<1> QED BY <1>6, <1>7 DEF r

\* InstallDerived changes one entry and one cell.
LEMMA InstallFacts ==
  ASSUME NEW t \in Tables, NEW d \in Domains, NEW s \in Slots, NEW kind \in Kinds,
         NEW l \in LineageCells, NEW parent \in CapRefs \union {None}
  PROVE  LET r == InstallDerived(t, d, s, l, kind, parent)
         IN /\ r \in Tables /\ r.slotGen = t.slotGen
            /\ \A e \in Domains, q \in Slots :
                 r.caps[e][q] =
                   IF e = d /\ q = s THEN [kind |-> kind, lineage |-> l] ELSE t.caps[e][q]
            /\ \A e \in Domains, m \in LineageCells :
                 r.lineage[e][m] = IF e = d /\ m = l THEN parent ELSE t.lineage[e][m]
<1> DEFINE p == Place(t, d, s, kind, l)
           r == InstallDerived(t, d, s, l, kind, parent)
           x == [p.lineage EXCEPT ![d] = [p.lineage[d] EXCEPT ![l] = parent]]
<1>1. /\ p \in Tables /\ p.slotGen = t.slotGen /\ p.lineage = t.lineage
      /\ \A e \in Domains, q \in Slots :
           p.caps[e][q] =
             IF e = d /\ q = s THEN [kind |-> kind, lineage |-> l] ELSE t.caps[e][q]
  BY PlaceFacts
<1>2. r = [p EXCEPT !.lineage[d][l] = parent]
  BY DEF InstallDerived
<1> HIDE DEF p, r
<1>3. x \in LineageType
  BY <1>1, TableParts DEF LineageType
<1>4. r = [p EXCEPT !.lineage = x]
  BY <1>1, <1>2 DEF Tables
<1>5. \A e \in Domains, m \in LineageCells :
        x[e][m] = IF e = d /\ m = l THEN parent ELSE t.lineage[e][m]
  BY <1>1, TableParts
<1> HIDE DEF x
<1>6. r \in Tables /\ r.caps = p.caps /\ r.slotGen = p.slotGen /\ r.lineage = x
  BY <1>1, <1>3, <1>4, UpdateLineage, Zenon
<1>7. \A e \in Domains, q \in Slots :
        r.caps[e][q] =
          IF e = d /\ q = s THEN [kind |-> kind, lineage |-> l] ELSE t.caps[e][q]
  BY <1>1, <1>6, Zenon
<1>8. \A e \in Domains, m \in LineageCells :
        r.lineage[e][m] = IF e = d /\ m = l THEN parent ELSE t.lineage[e][m]
  BY <1>5, <1>6, Zenon
<1> QED BY <1>1, <1>6, <1>7, <1>8, Zenon DEF r

\* Reparent changes the cells that hold the old reference.
LEMMA ReparentFacts ==
  ASSUME NEW t \in Tables, NEW old, NEW new \in CapRefs
  PROVE  LET r == Reparent(t, old, new)
         IN /\ r \in Tables /\ r.caps = t.caps /\ r.slotGen = t.slotGen
            /\ \A e \in Domains, m \in LineageCells :
                 r.lineage[e][m] = IF t.lineage[e][m] = old THEN new ELSE t.lineage[e][m]
<1> DEFINE x == [d \in Domains |-> [l \in LineageCells |->
                   IF t.lineage[d][l] = old THEN new ELSE t.lineage[d][l]]]
           r == Reparent(t, old, new)
<1>1. r = [t EXCEPT !.lineage = x]
  BY DEF Reparent
<1>2. x \in LineageType
  BY TableParts DEF LineageType
<1>3. \A e \in Domains, m \in LineageCells :
        x[e][m] = IF t.lineage[e][m] = old THEN new ELSE t.lineage[e][m]
  OBVIOUS
<1> HIDE DEF x, r
<1>4. r \in Tables /\ r.caps = t.caps /\ r.slotGen = t.slotGen /\ r.lineage = x
  BY <1>1, <1>2, UpdateLineage, Zenon
<1> QED BY <1>3, <1>4, Zenon DEF r

\* OrphanChildren keeps every kind and cuts the children off.
LEMMA OrphanFacts ==
  ASSUME NEW t \in Tables, NEW old
  PROVE  LET r == OrphanChildren(t, old)
         IN /\ r \in Tables /\ r.slotGen = t.slotGen
            /\ \A e \in Domains, q \in Slots :
                 /\ r.caps[e][q] = None <=> t.caps[e][q] = None
                 /\ t.caps[e][q] # None =>
                      /\ r.caps[e][q].kind = t.caps[e][q].kind
                      /\ r.caps[e][q].lineage =
                           IF ParentOf(t, e, q) = old /\ t.caps[e][q].lineage # None
                           THEN None ELSE t.caps[e][q].lineage
            /\ \A e \in Domains, m \in LineageCells :
                 r.lineage[e][m] = IF t.lineage[e][m] = old THEN None ELSE t.lineage[e][m]
<1> DEFINE child(d, l) == l # None /\ t.lineage[d][l] = old
           x == [d \in Domains |-> [s \in Slots |->
                   IF t.caps[d][s] # None /\ child(d, t.caps[d][s].lineage)
                   THEN [kind |-> t.caps[d][s].kind, lineage |-> None]
                   ELSE t.caps[d][s]]]
           y == [d \in Domains |-> [l \in LineageCells |->
                   IF child(d, l) THEN None ELSE t.lineage[d][l]]]
           r == OrphanChildren(t, old)
<1>1. r = [t EXCEPT !.caps = x, !.lineage = y]
  BY DEF OrphanChildren
<1>2. ASSUME NEW e \in Domains, NEW q \in Slots
      PROVE  /\ x[e][q] \in Entries \union {None}
             /\ x[e][q] = None <=> t.caps[e][q] = None
             /\ t.caps[e][q] # None =>
                  /\ x[e][q].kind = t.caps[e][q].kind
                  /\ x[e][q].lineage =
                       IF ParentOf(t, e, q) = old /\ t.caps[e][q].lineage # None
                       THEN None ELSE t.caps[e][q].lineage
  <2>1. t.caps[e][q] # None => t.caps[e][q] \in Entries /\ t.caps[e][q].kind \in Kinds
    BY TableParts DEF Entries
  <2>2. t.caps[e][q] # None =>
          [kind |-> t.caps[e][q].kind, lineage |-> None] \in Entries
    BY <2>1 DEF Entries
  <2>3. CASE t.caps[e][q] # None /\ child(e, t.caps[e][q].lineage)
    BY <2>1, <2>2, <2>3, NoneAssumption DEF ParentOf
  <2>4. CASE t.caps[e][q] # None /\ ~child(e, t.caps[e][q].lineage)
    BY <2>1, <2>4, NoneAssumption DEF ParentOf
  <2>5. CASE t.caps[e][q] = None
    BY <2>5
  <2> QED BY <2>3, <2>4, <2>5
<1>3. x \in CapsType
  BY <1>2 DEF CapsType
<1>4. y \in LineageType
  BY TableParts DEF LineageType
<1>6. \A e \in Domains, m \in LineageCells :
        y[e][m] = IF t.lineage[e][m] = old THEN None ELSE t.lineage[e][m]
  BY NoneAssumption
<1> HIDE DEF x, y, r
<1>5. r \in Tables /\ r.caps = x /\ r.slotGen = t.slotGen /\ r.lineage = y
  BY <1>1, <1>3, <1>4 DEF Tables, CapsType, LineageType
<1> QED BY <1>2, <1>5, <1>6, Zenon DEF r

\* ClearSlot empties one slot and bumps its generation.
LEMMA ClearFacts ==
  ASSUME NEW t \in Tables, NEW d \in Domains, NEW s \in Slots
  PROVE  LET r == ClearSlot(t, d, s)
         IN /\ r \in Tables
            /\ \A e \in Domains, q \in Slots :
                 /\ r.caps[e][q] = IF e = d /\ q = s THEN None ELSE t.caps[e][q]
                 /\ r.slotGen[e][q] = IF e = d /\ q = s THEN BumpGen(t.slotGen[e][q])
                                                       ELSE t.slotGen[e][q]
            /\ \A e \in Domains, m \in LineageCells :
                 r.lineage[e][m] =
                   IF e = d /\ t.caps[d][s] # None /\ t.caps[d][s].lineage = m
                   THEN None ELSE t.lineage[e][m]
<1> DEFINE freed(l) == t.caps[d][s] # None /\ t.caps[d][s].lineage = l
           g == BumpGen(t.slotGen[d][s])
           z == [l \in LineageCells |-> IF freed(l) THEN None ELSE t.lineage[d][l]]
           r == ClearSlot(t, d, s)
<1>1. g \in Gens
  BY TableParts, BumpGenType
<1>2. z \in [LineageCells -> CapRefs \union {None}]
  BY TableParts
<1>3. r = [t EXCEPT !.caps[d][s] = None, !.slotGen[d][s] = g, !.lineage[d] = z]
  BY DEF ClearSlot, Tables
<1> HIDE DEF g, z, r
<1>4. /\ r.caps = [t.caps EXCEPT ![d] = [t.caps[d] EXCEPT ![s] = None]]
      /\ r.slotGen = [t.slotGen EXCEPT ![d] = [t.slotGen[d] EXCEPT ![s] = g]]
      /\ r.lineage = [t.lineage EXCEPT ![d] = z]
      /\ r \in Tables
  BY <1>1, <1>2, <1>3 DEF Tables
<1>5. ASSUME NEW e \in Domains, NEW q \in Slots
      PROVE  /\ r.caps[e][q] = IF e = d /\ q = s THEN None ELSE t.caps[e][q]
             /\ r.slotGen[e][q] = IF e = d /\ q = s THEN g ELSE t.slotGen[e][q]
  BY <1>4, TableParts
<1>6. \A e \in Domains, m \in LineageCells :
        r.lineage[e][m] = IF e = d THEN z[m] ELSE t.lineage[e][m]
  BY <1>4, TableParts
<1> QED BY <1>4, <1>5, <1>6 DEF r, g, z

\* DestroyMarked empties the marked slots and bumps those that held something.
LEMMA DestroyFacts ==
  ASSUME NEW t \in Tables, NEW m
  PROVE  LET r == DestroyMarked(t, m)
         IN /\ r \in Tables
            /\ \A e \in Domains, q \in Slots :
                 /\ r.caps[e][q] = IF <<e, q>> \in m THEN None ELSE t.caps[e][q]
                 /\ r.slotGen[e][q] = IF <<e, q>> \in m /\ t.caps[e][q] # None
                                      THEN BumpGen(t.slotGen[e][q]) ELSE t.slotGen[e][q]
            /\ \A e \in Domains, l \in LineageCells :
                 r.lineage[e][l] =
                   IF \E q \in Slots :
                        <<e, q>> \in m /\ t.caps[e][q] # None /\ t.caps[e][q].lineage = l
                   THEN None ELSE t.lineage[e][l]
<1> DEFINE dead(d, s) == <<d, s>> \in m /\ t.caps[d][s] # None
           freed(d, l) == \E s \in Slots : dead(d, s) /\ t.caps[d][s].lineage = l
           x == [d \in Domains |-> [s \in Slots |->
                   IF <<d, s>> \in m THEN None ELSE t.caps[d][s]]]
           y == [d \in Domains |-> [s \in Slots |->
                   IF dead(d, s) THEN BumpGen(t.slotGen[d][s]) ELSE t.slotGen[d][s]]]
           z == [d \in Domains |-> [l \in LineageCells |->
                   IF freed(d, l) THEN None ELSE t.lineage[d][l]]]
           r == DestroyMarked(t, m)
<1>1. r = [caps |-> x, slotGen |-> y, lineage |-> z]
  BY DEF DestroyMarked
<1>2. x \in [Domains -> [Slots -> Entries \union {None}]]
  BY TableParts
<1>3. y \in [Domains -> [Slots -> Gens]]
  BY TableParts, BumpGenType
<1>4. z \in [Domains -> [LineageCells -> CapRefs \union {None}]]
  BY TableParts
<1>5. ASSUME NEW e \in Domains, NEW q \in Slots
      PROVE  /\ x[e][q] = IF <<e, q>> \in m THEN None ELSE t.caps[e][q]
             /\ y[e][q] = IF <<e, q>> \in m /\ t.caps[e][q] # None
                          THEN BumpGen(t.slotGen[e][q]) ELSE t.slotGen[e][q]
  OBVIOUS
<1>7. \A e \in Domains, l \in LineageCells :
        z[e][l] = IF \E q \in Slots :
                       <<e, q>> \in m /\ t.caps[e][q] # None /\ t.caps[e][q].lineage = l
                  THEN None ELSE t.lineage[e][l]
  BY Zenon
<1> HIDE DEF x, y, z, r
<1>6. r \in Tables /\ r.caps = x /\ r.slotGen = y /\ r.lineage = z
  BY <1>1, <1>2, <1>3, <1>4 DEF Tables
<1> QED BY <1>5, <1>6, <1>7 DEF r

\* TransferCap moves one entry, under its kind, to a free slot of another
\* domain, and clears the slot it came from.
LEMMA TransferFacts ==
  ASSUME NEW t \in Tables, NEW from \in Domains, NEW s \in Slots, NEW to \in Domains,
         CanTransfer(t, from, s, to)
  PROVE  LET r == TransferCap(t, from, s, to)
             s2 == FreeSlot(t, to)
         IN /\ r \in Tables
            /\ s2 \in Slots /\ t.caps[to][s2] = None
            /\ r.caps[to][s2] # None
            /\ r.caps[to][s2].kind = t.caps[from][s].kind
            /\ \A e \in Domains, q \in Slots :
                 /\ ~(e = to /\ q = s2) =>
                      r.caps[e][q] = IF e = from /\ q = s THEN None ELSE t.caps[e][q]
                 /\ r.slotGen[e][q] = IF e = from /\ q = s THEN BumpGen(t.slotGen[e][q])
                                                           ELSE t.slotGen[e][q]
<1> DEFINE e1 == t.caps[from][s]
           s2 == FreeSlot(t, to)
           l2 == FreeCell(t, to)
           parent == t.lineage[from][e1.lineage]
           moved == IF e1.lineage = None
                    THEN Place(t, to, s2, e1.kind, None)
                    ELSE InstallDerived(t, to, s2, l2, e1.kind, parent)
           spliced == Reparent(moved, RefOf(t, from, s), RefOf(t, to, s2))
           r == ClearSlot(spliced, from, s)
<1>1. /\ e1 # None /\ e1 \in Entries /\ e1.kind \in Kinds
      /\ e1.lineage \in LineageCells \union {None}
      /\ FreeSlots(t, to) # {}
      /\ e1.lineage # None => FreeCells(t, to) # {}
  BY TableParts DEF CanTransfer, Entries
<1>2. s2 \in Slots /\ t.caps[to][s2] = None
  BY <1>1, FreeSlotIsFree
<1>3. e1.lineage # None => l2 \in LineageCells /\ parent \in CapRefs \union {None}
  BY <1>1, FreeCellIsFree, TableParts
<1>4. r = TransferCap(t, from, s, to)
  BY DEF TransferCap
<1>5. RefOf(t, to, s2) \in CapRefs
  BY <1>2, TableParts DEF RefOf, CapRefs
<1> HIDE DEF e1, s2, l2, parent
<1>6. /\ moved \in Tables /\ moved.slotGen = t.slotGen
      /\ moved.caps[to][s2] \in Entries /\ moved.caps[to][s2].kind = e1.kind
      /\ \A e \in Domains, q \in Slots :
           ~(e = to /\ q = s2) => moved.caps[e][q] = t.caps[e][q]
  <2>1. CASE e1.lineage = None
    <3>1. /\ moved = Place(t, to, s2, e1.kind, None)
          /\ [kind |-> e1.kind, lineage |-> None] \in Entries
      BY <1>1, <2>1 DEF Entries
    <3> QED BY <1>1, <1>2, <3>1, PlaceFacts
  <2>2. CASE e1.lineage # None
    <3>1. /\ moved = InstallDerived(t, to, s2, l2, e1.kind, parent)
          /\ [kind |-> e1.kind, lineage |-> l2] \in Entries
      BY <1>1, <1>3, <2>2 DEF Entries
    <3> QED BY <1>1, <1>2, <1>3, <2>2, <3>1, InstallFacts, SMTT(30)
  <2> QED BY <2>1, <2>2
<1> HIDE DEF moved
<1>7. spliced \in Tables /\ spliced.caps = moved.caps /\ spliced.slotGen = t.slotGen
  BY <1>5, <1>6, ReparentFacts
<1> HIDE DEF spliced
<1>8. /\ r \in Tables
      /\ \A e \in Domains, q \in Slots :
           /\ r.caps[e][q] = IF e = from /\ q = s THEN None ELSE spliced.caps[e][q]
           /\ r.slotGen[e][q] = IF e = from /\ q = s THEN BumpGen(spliced.slotGen[e][q])
                                                     ELSE spliced.slotGen[e][q]
  <2>1. spliced \in Tables
    BY <1>7
  <2>2. PICK u \in Tables : u = spliced
    BY <2>1
  <2>3. LET v == ClearSlot(u, from, s)
        IN /\ v \in Tables
           /\ \A e \in Domains, q \in Slots :
                /\ v.caps[e][q] = IF e = from /\ q = s THEN None ELSE u.caps[e][q]
                /\ v.slotGen[e][q] = IF e = from /\ q = s THEN BumpGen(u.slotGen[e][q])
                                                          ELSE u.slotGen[e][q]
    BY ClearFacts
  <2> QED BY <2>2, <2>3
<1> HIDE DEF r
<1>9. to # from \/ s2 # s
  BY <1>1, <1>2 DEF e1
<1>10. /\ r.caps[to][s2] = moved.caps[to][s2]
       /\ r.caps[to][s2] # None
  BY <1>2, <1>6, <1>7, <1>8, <1>9, NoneAssumption
<1>11. ASSUME NEW e \in Domains, NEW q \in Slots
       PROVE  /\ ~(e = to /\ q = s2) =>
                   r.caps[e][q] = IF e = from /\ q = s THEN None ELSE t.caps[e][q]
              /\ r.slotGen[e][q] = IF e = from /\ q = s THEN BumpGen(t.slotGen[e][q])
                                                        ELSE t.slotGen[e][q]
  BY <1>6, <1>7, <1>8
<1>12. r.caps[to][s2].kind = t.caps[from][s].kind
  BY <1>6, <1>10 DEF e1
<1> QED BY <1>2, <1>4, <1>8, <1>10, <1>11, <1>12 DEF s2

-----------------------------------------------------------------------------
(***************************************************************************)
(* The ledger.  Each operation is looked at as what it does to the cell a  *)
(* capability names and to its parent: that is all LedgerBalanced and the  *)
(* capability forest see of the lineage tables.                            *)
(***************************************************************************)

\* The cell the capability in a slot names, None for a root or an empty slot.
CellIn(t, d, s) == IF t.caps[d][s] = None THEN None ELSE t.caps[d][s].lineage

\* LedgerBalanced of any tables: used cells and derived capabilities correspond.
Ledger(t) ==
  \A d \in Domains :
    /\ \A s \in Slots : CellIn(t, d, s) # None => t.lineage[d][CellIn(t, d, s)] # None
    /\ \A s1, s2 \in Slots :
         CellIn(t, d, s1) = CellIn(t, d, s2) /\ CellIn(t, d, s1) # None => s1 = s2
    /\ \A l \in LineageCells :
         t.lineage[d][l] # None => \E s \in Slots : CellIn(t, d, s) = l

\* None is neither a cell nor a reference nor an entry.
LEMMA NoneIsNothing == None \notin LineageCells /\ None \notin CapRefs /\ None \notin Entries
BY NoneAssumption

\* The parent is what the named cell holds.
LEMMA ParentByCell ==
  ASSUME NEW t \in Tables, NEW d \in Domains, NEW s \in Slots
  PROVE  /\ CellIn(t, d, s) \in LineageCells \union {None}
         /\ ParentOf(t, d, s) =
              IF CellIn(t, d, s) = None THEN None ELSE t.lineage[d][CellIn(t, d, s)]
<1>1. t.caps[d][s] # None => t.caps[d][s] \in Entries
  BY TableParts
<1>2. t.caps[d][s] # None => t.caps[d][s].lineage \in LineageCells \union {None}
  BY <1>1 DEF Entries
<1> QED BY <1>2 DEF ParentOf, CellIn

\* An entry just made names the cell it was made with.
LEMMA EntryCell ==
  ASSUME NEW kind \in Kinds, NEW l \in LineageCells \union {None}
  PROVE  LET e == [kind |-> kind, lineage |-> l] IN e # None /\ e \in Entries /\ e.lineage = l
BY NoneIsNothing DEF Entries

\* A derivation uses up a free cell and gives the new capability its parent.
LEMMA InstallView ==
  ASSUME NEW t \in Tables, NEW d \in Domains, NEW s \in Slots, NEW kind \in Kinds,
         NEW l \in LineageCells, NEW parent \in CapRefs,
         Ledger(t), t.caps[d][s] = None, t.lineage[d][l] = None
  PROVE  LET r == InstallDerived(t, d, s, l, kind, parent)
         IN /\ Ledger(r)
            /\ \A e \in Domains, q \in Slots :
                 ParentOf(r, e, q) = IF e = d /\ q = s THEN parent ELSE ParentOf(t, e, q)
<1> DEFINE r == InstallDerived(t, d, s, l, kind, parent)
<1>1. /\ r \in Tables
      /\ \A e \in Domains, q \in Slots :
           r.caps[e][q] =
             IF e = d /\ q = s THEN [kind |-> kind, lineage |-> l] ELSE t.caps[e][q]
      /\ \A e \in Domains, m \in LineageCells :
           r.lineage[e][m] = IF e = d /\ m = l THEN parent ELSE t.lineage[e][m]
  BY InstallFacts
<1> HIDE DEF r
<1>2. ASSUME NEW e \in Domains, NEW q \in Slots
      PROVE  /\ CellIn(r, e, q) = IF e = d /\ q = s THEN l ELSE CellIn(t, e, q)
             /\ CellIn(t, e, q) \in LineageCells \union {None}
             /\ e = d => CellIn(t, e, q) # l
  <2>1. CellIn(t, e, q) \in LineageCells \union {None}
    BY ParentByCell
  <2>2. e = d => CellIn(t, e, q) # l
    BY NoneIsNothing DEF Ledger
  <2>3. CASE e = d /\ q = s
    BY <1>1, <2>1, <2>2, <2>3, EntryCell DEF CellIn
  <2>4. CASE ~(e = d /\ q = s)
    BY <1>1, <2>1, <2>2, <2>4 DEF CellIn
  <2> QED BY <2>3, <2>4
<1>3. CellIn(t, d, s) = None
  BY DEF CellIn
<1>4. Ledger(r)
  <2> SUFFICES ASSUME NEW e \in Domains
               PROVE  /\ \A q \in Slots : CellIn(r, e, q) # None => r.lineage[e][CellIn(r, e, q)] # None
                      /\ \A q1, q2 \in Slots :
                           CellIn(r, e, q1) = CellIn(r, e, q2) /\ CellIn(r, e, q1) # None => q1 = q2
                      /\ \A m \in LineageCells :
                           r.lineage[e][m] # None => \E q \in Slots : CellIn(r, e, q) = m
    BY DEF Ledger
  <2>1. ASSUME NEW q \in Slots, CellIn(r, e, q) # None PROVE r.lineage[e][CellIn(r, e, q)] # None
    BY <1>1, <1>2, <2>1, NoneIsNothing DEF Ledger
  <2>2. ASSUME NEW q1 \in Slots, NEW q2 \in Slots,
               CellIn(r, e, q1) = CellIn(r, e, q2), CellIn(r, e, q1) # None
        PROVE  q1 = q2
    BY <1>2, <2>2 DEF Ledger
  <2>3. ASSUME NEW m \in LineageCells, r.lineage[e][m] # None
        PROVE  \E q \in Slots : CellIn(r, e, q) = m
    <3>1. CASE e = d /\ m = l
      BY <1>2, <3>1
    <3>2. CASE ~(e = d /\ m = l)
      <4>1. PICK q \in Slots : CellIn(t, e, q) = m
        BY <1>1, <2>3, <3>2 DEF Ledger
      <4>2. ~(e = d /\ q = s)
        BY <1>3, <4>1, NoneIsNothing
      <4> QED BY <1>2, <4>1, <4>2
    <3> QED BY <3>1, <3>2
  <2> QED BY <2>1, <2>2, <2>3
<1>5. ASSUME NEW e \in Domains, NEW q \in Slots
      PROVE  ParentOf(r, e, q) = IF e = d /\ q = s THEN parent ELSE ParentOf(t, e, q)
  <2>1. /\ ParentOf(r, e, q) =
             IF CellIn(r, e, q) = None THEN None ELSE r.lineage[e][CellIn(r, e, q)]
        /\ ParentOf(t, e, q) =
             IF CellIn(t, e, q) = None THEN None ELSE t.lineage[e][CellIn(t, e, q)]
    BY <1>1, ParentByCell
  <2> QED BY <1>1, <1>2, <2>1, NoneIsNothing
<1> QED BY <1>4, <1>5 DEF r

\* A root placed in an empty slot touches neither cells nor parents.
LEMMA PlaceView ==
  ASSUME NEW t \in Tables, NEW d \in Domains, NEW s \in Slots, NEW kind \in Kinds,
         Ledger(t), t.caps[d][s] = None
  PROVE  LET r == Place(t, d, s, kind, None)
         IN /\ Ledger(r)
            /\ \A e \in Domains, q \in Slots : ParentOf(r, e, q) = ParentOf(t, e, q)
<1> DEFINE r == Place(t, d, s, kind, None)
<1>1. /\ r \in Tables /\ r.lineage = t.lineage
      /\ \A e \in Domains, q \in Slots :
           r.caps[e][q] =
             IF e = d /\ q = s THEN [kind |-> kind, lineage |-> None] ELSE t.caps[e][q]
  BY PlaceFacts
<1> HIDE DEF r
<1>2. ASSUME NEW e \in Domains, NEW q \in Slots PROVE CellIn(r, e, q) = CellIn(t, e, q)
  <2>1. CASE e = d /\ q = s
    BY <1>1, <2>1, EntryCell DEF CellIn
  <2>2. CASE ~(e = d /\ q = s)
    BY <1>1, <2>2 DEF CellIn
  <2> QED BY <2>1, <2>2
<1>3. Ledger(r)
  BY <1>1, <1>2 DEF Ledger
<1>4. ASSUME NEW e \in Domains, NEW q \in Slots PROVE ParentOf(r, e, q) = ParentOf(t, e, q)
  BY <1>1, <1>2, ParentByCell
<1> QED BY <1>3, <1>4 DEF r

\* Reparenting moves the children of one reference to another.
LEMMA ReparentView ==
  ASSUME NEW t \in Tables, NEW old \in CapRefs, NEW new \in CapRefs, Ledger(t)
  PROVE  LET r == Reparent(t, old, new)
         IN /\ Ledger(r)
            /\ \A e \in Domains, q \in Slots :
                 ParentOf(r, e, q) = IF ParentOf(t, e, q) = old THEN new ELSE ParentOf(t, e, q)
<1> DEFINE r == Reparent(t, old, new)
<1>1. /\ r \in Tables /\ r.caps = t.caps
      /\ \A e \in Domains, m \in LineageCells :
           r.lineage[e][m] = IF t.lineage[e][m] = old THEN new ELSE t.lineage[e][m]
  BY ReparentFacts
<1> HIDE DEF r
<1>2. ASSUME NEW e \in Domains, NEW q \in Slots
      PROVE  CellIn(r, e, q) = CellIn(t, e, q) /\ CellIn(t, e, q) \in LineageCells \union {None}
  BY <1>1, ParentByCell DEF CellIn
<1>3. \A e \in Domains, m \in LineageCells : r.lineage[e][m] = None <=> t.lineage[e][m] = None
  BY <1>1, NoneIsNothing
<1>4. Ledger(r)
  BY <1>2, <1>3 DEF Ledger
<1>5. ASSUME NEW e \in Domains, NEW q \in Slots
      PROVE  ParentOf(r, e, q) = IF ParentOf(t, e, q) = old THEN new ELSE ParentOf(t, e, q)
  <2>1. /\ ParentOf(r, e, q) =
             IF CellIn(r, e, q) = None THEN None ELSE r.lineage[e][CellIn(r, e, q)]
        /\ ParentOf(t, e, q) =
             IF CellIn(t, e, q) = None THEN None ELSE t.lineage[e][CellIn(t, e, q)]
    BY <1>1, ParentByCell
  <2> QED BY <1>1, <1>2, <2>1, NoneIsNothing
<1> QED BY <1>4, <1>5 DEF r

\* Orphaning gives back the cells of the children, which become roots.
LEMMA OrphanView ==
  ASSUME NEW t \in Tables, NEW old \in CapRefs, Ledger(t)
  PROVE  LET r == OrphanChildren(t, old)
         IN /\ Ledger(r)
            /\ \A e \in Domains, q \in Slots :
                 ParentOf(r, e, q) = IF ParentOf(t, e, q) = old THEN None ELSE ParentOf(t, e, q)
<1> DEFINE r == OrphanChildren(t, old)
<1>1. /\ r \in Tables
      /\ \A e \in Domains, q \in Slots :
           /\ r.caps[e][q] = None <=> t.caps[e][q] = None
           /\ t.caps[e][q] # None =>
                r.caps[e][q].lineage =
                  IF ParentOf(t, e, q) = old /\ t.caps[e][q].lineage # None
                  THEN None ELSE t.caps[e][q].lineage
      /\ \A e \in Domains, m \in LineageCells :
           r.lineage[e][m] = IF t.lineage[e][m] = old THEN None ELSE t.lineage[e][m]
  BY OrphanFacts
<1> HIDE DEF r
<1>2. ASSUME NEW e \in Domains, NEW q \in Slots
      PROVE  /\ CellIn(t, e, q) \in LineageCells \union {None}
             /\ ParentOf(t, e, q) =
                  IF CellIn(t, e, q) = None THEN None ELSE t.lineage[e][CellIn(t, e, q)]
             /\ CellIn(r, e, q) = IF ParentOf(t, e, q) = old THEN None ELSE CellIn(t, e, q)
  <2>1. /\ CellIn(t, e, q) \in LineageCells \union {None}
        /\ ParentOf(t, e, q) =
             IF CellIn(t, e, q) = None THEN None ELSE t.lineage[e][CellIn(t, e, q)]
    BY ParentByCell
  <2>2. CellIn(r, e, q) = IF ParentOf(t, e, q) = old THEN None ELSE CellIn(t, e, q)
    BY <1>1, <2>1, NoneIsNothing DEF CellIn
  <2> QED BY <2>1, <2>2
<1>3. Ledger(r)
  <2> SUFFICES ASSUME NEW e \in Domains
               PROVE  /\ \A q \in Slots : CellIn(r, e, q) # None => r.lineage[e][CellIn(r, e, q)] # None
                      /\ \A q1, q2 \in Slots :
                           CellIn(r, e, q1) = CellIn(r, e, q2) /\ CellIn(r, e, q1) # None => q1 = q2
                      /\ \A m \in LineageCells :
                           r.lineage[e][m] # None => \E q \in Slots : CellIn(r, e, q) = m
    BY DEF Ledger
  <2>1. ASSUME NEW q \in Slots, CellIn(r, e, q) # None PROVE r.lineage[e][CellIn(r, e, q)] # None
    <3>1. CellIn(r, e, q) = CellIn(t, e, q) /\ ParentOf(t, e, q) # old
      BY <1>2, <2>1
    <3>2. CellIn(t, e, q) \in LineageCells /\ t.lineage[e][CellIn(t, e, q)] # old
      BY <1>2, <2>1, <3>1
    <3>3. t.lineage[e][CellIn(t, e, q)] # None
      BY <2>1, <3>1 DEF Ledger
    <3> QED BY <1>1, <3>1, <3>2, <3>3
  <2>2. ASSUME NEW q1 \in Slots, NEW q2 \in Slots,
               CellIn(r, e, q1) = CellIn(r, e, q2), CellIn(r, e, q1) # None
        PROVE  q1 = q2
    <3>1. CellIn(r, e, q1) = CellIn(t, e, q1) /\ CellIn(r, e, q2) = CellIn(t, e, q2)
      BY <1>2, <2>2
    <3>2. CellIn(t, e, q1) = CellIn(t, e, q2) /\ CellIn(t, e, q1) # None => q1 = q2
      BY DEF Ledger
    <3> QED BY <2>2, <3>1, <3>2
  <2>3. ASSUME NEW m \in LineageCells, r.lineage[e][m] # None
        PROVE  \E q \in Slots : CellIn(r, e, q) = m
    <3>1. t.lineage[e][m] # None /\ t.lineage[e][m] # old
      BY <1>1, <2>3
    <3>2. PICK q \in Slots : CellIn(t, e, q) = m
      BY <3>1 DEF Ledger
    <3>3. ParentOf(t, e, q) # old
      BY <1>2, <3>1, <3>2, NoneIsNothing
    <3> QED BY <1>2, <3>2, <3>3
  <2> QED BY <2>1, <2>2, <2>3
<1>4. ASSUME NEW e \in Domains, NEW q \in Slots
      PROVE  ParentOf(r, e, q) = IF ParentOf(t, e, q) = old THEN None ELSE ParentOf(t, e, q)
  <2>1. ParentOf(r, e, q) =
          IF CellIn(r, e, q) = None THEN None ELSE r.lineage[e][CellIn(r, e, q)]
    BY <1>1, ParentByCell
  <2> QED BY <1>1, <1>2, <2>1, NoneIsNothing
<1> QED BY <1>3, <1>4 DEF r

\* Clearing a slot frees its cell and leaves every other parent alone.
LEMMA ClearView ==
  ASSUME NEW t \in Tables, NEW d \in Domains, NEW s \in Slots, Ledger(t)
  PROVE  LET r == ClearSlot(t, d, s)
         IN /\ Ledger(r)
            /\ \A e \in Domains, q \in Slots :
                 ParentOf(r, e, q) = IF e = d /\ q = s THEN None ELSE ParentOf(t, e, q)
<1> DEFINE r == ClearSlot(t, d, s)
<1>1. /\ r \in Tables
      /\ \A e \in Domains, q \in Slots :
           r.caps[e][q] = IF e = d /\ q = s THEN None ELSE t.caps[e][q]
      /\ \A e \in Domains, m \in LineageCells :
           r.lineage[e][m] =
             IF e = d /\ t.caps[d][s] # None /\ t.caps[d][s].lineage = m
             THEN None ELSE t.lineage[e][m]
  BY ClearFacts
<1> HIDE DEF r
<1>2. ASSUME NEW e \in Domains, NEW q \in Slots
      PROVE  /\ CellIn(t, e, q) \in LineageCells \union {None}
             /\ CellIn(r, e, q) = IF e = d /\ q = s THEN None ELSE CellIn(t, e, q)
  BY <1>1, ParentByCell DEF CellIn
<1>3. \A e \in Domains, m \in LineageCells :
        r.lineage[e][m] = IF e = d /\ CellIn(t, d, s) = m THEN None ELSE t.lineage[e][m]
  BY <1>1, NoneIsNothing DEF CellIn
<1>4. Ledger(r)
  <2> SUFFICES ASSUME NEW e \in Domains
               PROVE  /\ \A q \in Slots : CellIn(r, e, q) # None => r.lineage[e][CellIn(r, e, q)] # None
                      /\ \A q1, q2 \in Slots :
                           CellIn(r, e, q1) = CellIn(r, e, q2) /\ CellIn(r, e, q1) # None => q1 = q2
                      /\ \A m \in LineageCells :
                           r.lineage[e][m] # None => \E q \in Slots : CellIn(r, e, q) = m
    BY DEF Ledger
  <2>1. ASSUME NEW q \in Slots, CellIn(r, e, q) # None PROVE r.lineage[e][CellIn(r, e, q)] # None
    <3>1. CellIn(r, e, q) = CellIn(t, e, q) /\ ~(e = d /\ q = s)
      BY <1>2, <2>1
    <3>2. ~(e = d /\ CellIn(t, d, s) = CellIn(t, e, q))
      BY <2>1, <3>1 DEF Ledger
    <3> QED BY <1>2, <1>3, <2>1, <3>1, <3>2 DEF Ledger
  <2>2. ASSUME NEW q1 \in Slots, NEW q2 \in Slots,
               CellIn(r, e, q1) = CellIn(r, e, q2), CellIn(r, e, q1) # None
        PROVE  q1 = q2
    <3>1. CellIn(r, e, q1) = CellIn(t, e, q1) /\ CellIn(r, e, q2) = CellIn(t, e, q2)
      BY <1>2, <2>2
    <3>2. CellIn(t, e, q1) = CellIn(t, e, q2) /\ CellIn(t, e, q1) # None => q1 = q2
      BY DEF Ledger
    <3> QED BY <2>2, <3>1, <3>2
  <2>3. ASSUME NEW m \in LineageCells, r.lineage[e][m] # None
        PROVE  \E q \in Slots : CellIn(r, e, q) = m
    <3>1. t.lineage[e][m] # None /\ ~(e = d /\ CellIn(t, d, s) = m)
      BY <1>3, <2>3
    <3>2. PICK q \in Slots : CellIn(t, e, q) = m
      BY <3>1 DEF Ledger
    <3> QED BY <1>2, <3>1, <3>2
  <2> QED BY <2>1, <2>2, <2>3
<1>5. ASSUME NEW e \in Domains, NEW q \in Slots
      PROVE  ParentOf(r, e, q) = IF e = d /\ q = s THEN None ELSE ParentOf(t, e, q)
  <2>1. /\ ParentOf(r, e, q) =
             IF CellIn(r, e, q) = None THEN None ELSE r.lineage[e][CellIn(r, e, q)]
        /\ ParentOf(t, e, q) =
             IF CellIn(t, e, q) = None THEN None ELSE t.lineage[e][CellIn(t, e, q)]
    BY <1>1, ParentByCell
  <2>2. e = d /\ q # s /\ CellIn(t, e, q) # None => CellIn(t, d, s) # CellIn(t, e, q)
    BY DEF Ledger
  <2> QED BY <1>2, <1>3, <2>1, <2>2
<1> QED BY <1>4, <1>5 DEF r

\* Destroying marked capabilities frees their cells and no other.
LEMMA DestroyView ==
  ASSUME NEW t \in Tables, NEW m, Ledger(t)
  PROVE  LET r == DestroyMarked(t, m)
         IN /\ Ledger(r)
            /\ \A e \in Domains, q \in Slots :
                 ParentOf(r, e, q) = IF <<e, q>> \in m THEN None ELSE ParentOf(t, e, q)
<1> DEFINE r == DestroyMarked(t, m)
<1>1. /\ r \in Tables
      /\ \A e \in Domains, q \in Slots :
           r.caps[e][q] = IF <<e, q>> \in m THEN None ELSE t.caps[e][q]
      /\ \A e \in Domains, l \in LineageCells :
           r.lineage[e][l] =
             IF \E q \in Slots : <<e, q>> \in m /\ t.caps[e][q] # None /\ t.caps[e][q].lineage = l
             THEN None ELSE t.lineage[e][l]
  BY DestroyFacts, SMTT(30)
<1> HIDE DEF r
<1>2. ASSUME NEW e \in Domains, NEW q \in Slots
      PROVE  /\ CellIn(t, e, q) \in LineageCells \union {None}
             /\ CellIn(r, e, q) = IF <<e, q>> \in m THEN None ELSE CellIn(t, e, q)
  BY <1>1, ParentByCell DEF CellIn
<1>3. ASSUME NEW e \in Domains, NEW l \in LineageCells
      PROVE  r.lineage[e][l] = IF \E q \in Slots : <<e, q>> \in m /\ CellIn(t, e, q) = l
                               THEN None ELSE t.lineage[e][l]
  <2>1. ASSUME NEW q \in Slots
        PROVE  (t.caps[e][q] # None /\ t.caps[e][q].lineage = l) <=> CellIn(t, e, q) = l
    BY NoneIsNothing DEF CellIn
  <2> QED BY <1>1, <2>1
<1>4. Ledger(r)
  <2> SUFFICES ASSUME NEW e \in Domains
               PROVE  /\ \A q \in Slots : CellIn(r, e, q) # None => r.lineage[e][CellIn(r, e, q)] # None
                      /\ \A q1, q2 \in Slots :
                           CellIn(r, e, q1) = CellIn(r, e, q2) /\ CellIn(r, e, q1) # None => q1 = q2
                      /\ \A l \in LineageCells :
                           r.lineage[e][l] # None => \E q \in Slots : CellIn(r, e, q) = l
    BY DEF Ledger
  <2>1. ASSUME NEW q \in Slots, CellIn(r, e, q) # None PROVE r.lineage[e][CellIn(r, e, q)] # None
    <3>1. CellIn(r, e, q) = CellIn(t, e, q) /\ <<e, q>> \notin m
      BY <1>2, <2>1
    <3>2. \A k \in Slots : CellIn(t, e, k) = CellIn(t, e, q) => k = q
      BY <2>1, <3>1 DEF Ledger
    <3>3. t.lineage[e][CellIn(t, e, q)] # None
      BY <2>1, <3>1 DEF Ledger
    <3>4. r.lineage[e][CellIn(t, e, q)] = t.lineage[e][CellIn(t, e, q)]
      BY <1>2, <1>3, <2>1, <3>1, <3>2
    <3> QED BY <3>1, <3>3, <3>4
  <2>2. ASSUME NEW q1 \in Slots, NEW q2 \in Slots,
               CellIn(r, e, q1) = CellIn(r, e, q2), CellIn(r, e, q1) # None
        PROVE  q1 = q2
    <3>1. CellIn(r, e, q1) = CellIn(t, e, q1) /\ CellIn(r, e, q2) = CellIn(t, e, q2)
      BY <1>2, <2>2
    <3>2. CellIn(t, e, q1) = CellIn(t, e, q2) /\ CellIn(t, e, q1) # None => q1 = q2
      BY DEF Ledger
    <3> QED BY <2>2, <3>1, <3>2
  <2>3. ASSUME NEW l \in LineageCells, r.lineage[e][l] # None
        PROVE  \E q \in Slots : CellIn(r, e, q) = l
    <3>1. t.lineage[e][l] # None /\ ~\E q \in Slots : <<e, q>> \in m /\ CellIn(t, e, q) = l
      BY <1>3, <2>3
    <3>2. PICK q \in Slots : CellIn(t, e, q) = l
      BY <3>1 DEF Ledger
    <3> QED BY <1>2, <3>1, <3>2
  <2> QED BY <2>1, <2>2, <2>3
<1>5. ASSUME NEW e \in Domains, NEW q \in Slots
      PROVE  ParentOf(r, e, q) = IF <<e, q>> \in m THEN None ELSE ParentOf(t, e, q)
  <2>1. /\ ParentOf(r, e, q) =
             IF CellIn(r, e, q) = None THEN None ELSE r.lineage[e][CellIn(r, e, q)]
        /\ ParentOf(t, e, q) =
             IF CellIn(t, e, q) = None THEN None ELSE t.lineage[e][CellIn(t, e, q)]
    BY <1>1, ParentByCell
  <2>2. CASE <<e, q>> \in m
    BY <1>2, <2>1, <2>2
  <2>3. CASE <<e, q>> \notin m
    <3>1. CellIn(r, e, q) = CellIn(t, e, q)
      BY <1>2, <2>3
    <3>2. CellIn(t, e, q) # None => \A k \in Slots : CellIn(t, e, k) = CellIn(t, e, q) => k = q
      BY DEF Ledger
    <3> QED BY <1>2, <1>3, <2>1, <2>3, <3>1, <3>2
  <2> QED BY <2>2, <2>3
<1> QED BY <1>4, <1>5 DEF r

\* A transfer gives the moved capability its old parent, hands its children
\* over to its new name, and leaves every other parent alone.
LEMMA TransferView ==
  ASSUME NEW t \in Tables, NEW from \in Domains, NEW s \in Slots, NEW to \in Domains,
         CanTransfer(t, from, s, to), Ledger(t)
  PROVE  LET r == TransferCap(t, from, s, to)
             s2 == FreeSlot(t, to)
         IN /\ Ledger(r)
            /\ \A e \in Domains, q \in Slots :
                 ParentOf(r, e, q) =
                   IF e = from /\ q = s THEN None
                   ELSE LET p == IF e = to /\ q = s2 THEN ParentOf(t, from, s)
                                                     ELSE ParentOf(t, e, q)
                        IN IF p = RefOf(t, from, s) THEN RefOf(t, to, s2) ELSE p
<1> DEFINE e1 == t.caps[from][s]
           s2 == FreeSlot(t, to)
           l2 == FreeCell(t, to)
           parent == t.lineage[from][e1.lineage]
           moved == IF e1.lineage = None
                    THEN Place(t, to, s2, e1.kind, None)
                    ELSE InstallDerived(t, to, s2, l2, e1.kind, parent)
           old == RefOf(t, from, s)
           new == RefOf(t, to, s2)
           spliced == Reparent(moved, old, new)
           r == ClearSlot(spliced, from, s)
           P(e, q) == IF e = to /\ q = s2 THEN ParentOf(t, from, s) ELSE ParentOf(t, e, q)
<1>1. /\ e1 # None /\ e1 \in Entries /\ e1.kind \in Kinds
      /\ e1.lineage \in LineageCells \union {None}
      /\ FreeSlots(t, to) # {}
      /\ e1.lineage # None => FreeCells(t, to) # {}
  BY TableParts DEF CanTransfer, Entries
<1>2. s2 \in Slots /\ t.caps[to][s2] = None
  BY <1>1, FreeSlotIsFree
<1>3. e1.lineage # None => /\ l2 \in LineageCells /\ t.lineage[to][l2] = None
                           /\ parent \in CapRefs
  <2>1. CellIn(t, from, s) = e1.lineage
    BY <1>1 DEF CellIn
  <2>2. e1.lineage # None => parent # None
    BY <2>1 DEF Ledger
  <2> QED BY <1>1, <2>2, FreeCellIsFree, TableParts
<1>4. r = TransferCap(t, from, s, to)
  BY DEF TransferCap
<1>5. new \in CapRefs /\ old \in CapRefs
  BY <1>2, TableParts DEF RefOf, CapRefs
<1>6. ParentOf(t, from, s) = (IF e1.lineage = None THEN None ELSE parent) /\ ParentOf(t, to, s2) = None
  BY <1>1, <1>2 DEF ParentOf
<1> HIDE DEF e1, s2, l2, parent, old, new
<1>7. /\ moved \in Tables /\ Ledger(moved)
      /\ \A e \in Domains, q \in Slots : ParentOf(moved, e, q) = P(e, q)
  <2>1. CASE e1.lineage = None
    <3> DEFINE v == Place(t, to, s2, e1.kind, None)
    <3>1. v \in Tables
      BY <1>1, <1>2, PlaceFacts
    <3>2. Ledger(v) /\ \A e \in Domains, q \in Slots : ParentOf(v, e, q) = ParentOf(t, e, q)
      BY <1>1, <1>2, PlaceView
    <3>3. moved = v
      BY <2>1
    <3> HIDE DEF v, moved
    <3> QED BY <1>6, <2>1, <3>1, <3>2, <3>3
  <2>2. CASE e1.lineage # None
    <3> DEFINE v == InstallDerived(t, to, s2, l2, e1.kind, parent)
    <3>1. v \in Tables
      BY <1>1, <1>2, <1>3, <2>2, InstallFacts
    <3>2. /\ Ledger(v)
          /\ \A e \in Domains, q \in Slots :
               ParentOf(v, e, q) = IF e = to /\ q = s2 THEN parent ELSE ParentOf(t, e, q)
      BY <1>1, <1>2, <1>3, <2>2, InstallView
    <3>3. moved = v
      BY <2>2
    <3> HIDE DEF v, moved
    <3> QED BY <1>6, <2>2, <3>1, <3>2, <3>3
  <2> QED BY <2>1, <2>2
<1> HIDE DEF moved, P
<1>8. /\ spliced \in Tables /\ Ledger(spliced)
      /\ \A e \in Domains, q \in Slots :
           ParentOf(spliced, e, q) = IF P(e, q) = old THEN new ELSE P(e, q)
  <2>1. PICK u \in Tables : u = moved
    BY <1>7
  <2>2. Reparent(u, old, new) \in Tables
    BY <1>5, ReparentFacts
  <2>3. LET v == Reparent(u, old, new)
        IN /\ Ledger(v)
           /\ \A e \in Domains, q \in Slots :
                ParentOf(v, e, q) = IF ParentOf(u, e, q) = old THEN new ELSE ParentOf(u, e, q)
    BY <1>5, <1>7, <2>1, ReparentView
  <2> QED BY <1>7, <2>1, <2>2, <2>3
<1> HIDE DEF spliced
<1>9. /\ Ledger(r)
      /\ \A e \in Domains, q \in Slots :
           ParentOf(r, e, q) = IF e = from /\ q = s THEN None ELSE ParentOf(spliced, e, q)
  <2>1. PICK u \in Tables : u = spliced
    BY <1>8
  <2>2. LET v == ClearSlot(u, from, s)
        IN /\ Ledger(v)
           /\ \A e \in Domains, q \in Slots :
                ParentOf(v, e, q) = IF e = from /\ q = s THEN None ELSE ParentOf(u, e, q)
    BY <1>8, <2>1, ClearView
  <2> QED BY <2>1, <2>2
<1> HIDE DEF r
<1>10. ASSUME NEW e \in Domains, NEW q \in Slots
       PROVE  ParentOf(r, e, q) = IF e = from /\ q = s THEN None
                                  ELSE IF P(e, q) = old THEN new ELSE P(e, q)
  BY <1>8, <1>9
<1> QED BY <1>4, <1>9, <1>10 DEF P, old, new, s2

-----------------------------------------------------------------------------
(***************************************************************************)
(* The forest.  Parents are live capabilities and no chain of them comes   *)
(* back to itself; the four ways an instruction changes the forest, each   *)
(* as a relation between the tables before and after, keep it so.          *)
(***************************************************************************)
SlotOf(r) == <<r.dom, r.slot>>

\* A set of slots in which every capability has its parent.
HoldsParents(t, S) ==
  \A d \in Domains, s \in Slots :
    <<d, s>> \in S => ParentOf(t, d, s) # None /\ SlotOf(ParentOf(t, d, s)) \in S

Rooted(t) ==
  /\ \A d \in Domains, s \in Slots : t.caps[d][s] # None => t.slotGen[d][s] # GenRetired
  /\ \A d \in Domains, s \in Slots : ParentOf(t, d, s) # None => LiveRef(t, ParentOf(t, d, s))
  /\ \A S \in SUBSET AllSlots : HoldsParents(t, S) => S = {}

\* From t to r the slot keeps its capability, or its emptiness.
Keeps(t, r, d, s) ==
  /\ r.caps[d][s] = None <=> t.caps[d][s] = None
  /\ t.caps[d][s] # None => r.caps[d][s].kind = t.caps[d][s].kind
  /\ r.slotGen[d][s] = t.slotGen[d][s]

\* From t to r the slot loses its capability, and with it its generation.
Empties(t, r, d, s) ==
  /\ r.caps[d][s] = None
  /\ r.slotGen[d][s] = IF t.caps[d][s] = None THEN t.slotGen[d][s] ELSE BumpGen(t.slotGen[d][s])

\* From t to r the free slot receives a capability.
Fills(t, r, d, s, kind) ==
  /\ t.caps[d][s] = None /\ t.slotGen[d][s] # GenRetired
  /\ r.caps[d][s] # None /\ r.caps[d][s].kind = kind
  /\ r.slotGen[d][s] = t.slotGen[d][s]

\* cap_dup and mem_grant: n is derived from p with authority kind.
Derives(t, r, n, p, kind) ==
  /\ n \in CapRefs /\ p \in CapRefs /\ LiveRef(t, p)
  /\ t.slotGen[n.dom][n.slot] = n.gen /\ Fills(t, r, n.dom, n.slot, kind)
  /\ \A d \in Domains, s \in Slots : <<d, s>> # SlotOf(n) => Keeps(t, r, d, s)
  /\ \A d \in Domains, s \in Slots :
       ParentOf(r, d, s) = IF <<d, s>> = SlotOf(n) THEN p ELSE ParentOf(t, d, s)

\* cap_drop: c goes and its children go to its parent.
Drops(t, r, c) ==
  /\ c \in CapRefs /\ LiveRef(t, c)
  /\ Empties(t, r, c.dom, c.slot)
  /\ \A d \in Domains, s \in Slots : <<d, s>> # SlotOf(c) => Keeps(t, r, d, s)
  /\ \A d \in Domains, s \in Slots :
       ParentOf(r, d, s) =
         IF <<d, s>> = SlotOf(c) THEN None
         ELSE IF ParentOf(t, d, s) = c THEN ParentOf(t, c.dom, c.slot) ELSE ParentOf(t, d, s)

\* cap_revoke: the marked capabilities go.
Revokes(t, r, c) ==
  /\ c \in CapRefs /\ LiveRef(t, c)
  /\ \A d \in Domains, s \in Slots :
       IF <<d, s>> \in Marks(t, c) THEN Empties(t, r, d, s) ELSE Keeps(t, r, d, s)
  /\ \A d \in Domains, s \in Slots :
       ParentOf(r, d, s) = IF <<d, s>> \in Marks(t, c) THEN None ELSE ParentOf(t, d, s)

\* A transfer: c goes on as n.
Transfers(t, r, c, n) ==
  /\ c \in CapRefs /\ LiveRef(t, c) /\ n \in CapRefs /\ SlotOf(n) # SlotOf(c)
  /\ t.slotGen[n.dom][n.slot] = n.gen
  /\ Fills(t, r, n.dom, n.slot, t.caps[c.dom][c.slot].kind)
  /\ Empties(t, r, c.dom, c.slot)
  /\ \A d \in Domains, s \in Slots :
       <<d, s>> \notin {SlotOf(c), SlotOf(n)} => Keeps(t, r, d, s)
  /\ \A d \in Domains, s \in Slots :
       ParentOf(r, d, s) =
         IF <<d, s>> = SlotOf(c) THEN None
         ELSE LET p == IF <<d, s>> = SlotOf(n) THEN ParentOf(t, c.dom, c.slot)
                                               ELSE ParentOf(t, d, s)
              IN IF p = c THEN n ELSE p

\* A capability that is the parent of another is where its reference says.
LEMMA ParentIsThere ==
  ASSUME NEW t \in Tables, Rooted(t), NEW d \in Domains, NEW s \in Slots,
         ParentOf(t, d, s) # None
  PROVE  LET p == ParentOf(t, d, s)
         IN /\ p \in CapRefs /\ LiveRef(t, p) /\ SlotOf(p) \in AllSlots
            /\ p.dom \in Domains /\ p.slot \in Slots
            /\ t.caps[p.dom][p.slot] # None /\ t.slotGen[p.dom][p.slot] = p.gen
            /\ t.caps[d][s] # None
<1> DEFINE p == ParentOf(t, d, s)
<1>1. p \in CapRefs
  BY ParentType
<1>2. LiveRef(t, p)
  BY DEF Rooted
<1>3. t.caps[d][s] # None
  BY DEF ParentOf
<1> HIDE DEF p
<1>4. p.dom \in Domains /\ p.slot \in Slots
  BY <1>1 DEF CapRefs
<1> QED BY <1>1, <1>2, <1>3, <1>4 DEF LiveRef, LiveCap, SlotOf, AllSlots, p

\* A derivation leaves a forest.
LEMMA DerivesRooted ==
  ASSUME NEW t \in Tables, NEW r \in Tables, Rooted(t), NEW n, NEW p, NEW kind,
         Derives(t, r, n, p, kind)
  PROVE  Rooted(r)
<1>1. /\ n.dom \in Domains /\ n.slot \in Slots /\ p.dom \in Domains /\ p.slot \in Slots
      /\ p \in CapRefs /\ n \in CapRefs
      /\ t.caps[p.dom][p.slot] # None /\ t.slotGen[p.dom][p.slot] = p.gen
      /\ t.caps[n.dom][n.slot] = None
  BY DEF Derives, CapRefs, LiveRef, LiveCap, Fills
<1>2. \A d \in Domains, s \in Slots : <<d, s>> # SlotOf(n) => Keeps(t, r, d, s)
  BY DEF Derives
<1>3. \A d \in Domains, s \in Slots :
        ParentOf(r, d, s) = IF <<d, s>> = SlotOf(n) THEN p ELSE ParentOf(t, d, s)
  BY DEF Derives
<1>4. SlotOf(p) # SlotOf(n)
  BY <1>1 DEF SlotOf
<1>5. ASSUME NEW d \in Domains, NEW s \in Slots, r.caps[d][s] # None
      PROVE  r.slotGen[d][s] # GenRetired
  <2>1. CASE <<d, s>> = SlotOf(n)
    BY <1>1, <2>1 DEF Derives, Fills, SlotOf
  <2>2. CASE <<d, s>> # SlotOf(n)
    BY <1>2, <1>5, <2>2 DEF Keeps, Rooted
  <2> QED BY <2>1, <2>2
<1>6. ASSUME NEW x \in CapRefs, LiveRef(t, x) PROVE LiveRef(r, x)
  <2>1. x.dom \in Domains /\ x.slot \in Slots
    BY DEF CapRefs
  <2>2. t.caps[x.dom][x.slot] # None
    BY <1>6 DEF LiveRef, LiveCap
  <2>3. <<x.dom, x.slot>> # SlotOf(n)
    BY <1>1, <2>2 DEF SlotOf
  <2>4. Keeps(t, r, x.dom, x.slot)
    BY <1>2, <2>1, <2>3
  <2> QED BY <1>6, <2>4 DEF LiveRef, LiveCap, Keeps
<1>7. ASSUME NEW d \in Domains, NEW s \in Slots, ParentOf(r, d, s) # None
      PROVE  LiveRef(r, ParentOf(r, d, s))
  <2>1. CASE <<d, s>> = SlotOf(n)
    <3>1. ParentOf(r, d, s) = p /\ LiveRef(t, p)
      BY <1>3, <2>1 DEF Derives
    <3> QED BY <1>1, <1>6, <3>1
  <2>2. CASE <<d, s>> # SlotOf(n)
    BY <1>3, <1>6, <1>7, <2>2, ParentIsThere
  <2> QED BY <2>1, <2>2
<1>8. ASSUME NEW S \in SUBSET AllSlots, HoldsParents(r, S) PROVE S = {}
  <2> DEFINE T == S \ {SlotOf(n)}
  <2>1. ASSUME NEW d \in Domains, NEW s \in Slots, <<d, s>> \in T
        PROVE  ParentOf(t, d, s) # None /\ SlotOf(ParentOf(t, d, s)) \in T
    <3>1. ParentOf(t, d, s) # None /\ SlotOf(ParentOf(t, d, s)) \in S
      BY <1>3, <1>8, <2>1 DEF HoldsParents
    <3>2. t.caps[ParentOf(t, d, s).dom][ParentOf(t, d, s).slot] # None
      BY <3>1, ParentIsThere
    <3>3. SlotOf(ParentOf(t, d, s)) # SlotOf(n)
      BY <1>1, <3>2 DEF SlotOf
    <3> QED BY <3>1, <3>3
  <2>2. T \in SUBSET AllSlots
    OBVIOUS
  <2> HIDE DEF T
  <2>3. T = {}
    BY <2>1, <2>2 DEF HoldsParents, Rooted
  <2>4. SlotOf(n) \notin S
    <3>1. SUFFICES ASSUME SlotOf(n) \in S PROVE FALSE
      OBVIOUS
    <3>2. ParentOf(r, n.dom, n.slot) = p
      BY <1>1, <1>3 DEF SlotOf
    <3>3. SlotOf(p) \in S
      BY <1>1, <1>8, <3>1, <3>2 DEF HoldsParents, SlotOf
    <3> QED BY <1>4, <2>3, <3>3 DEF T
  <2> QED BY <2>3, <2>4 DEF T
<1> QED BY <1>5, <1>7, <1>8 DEF Rooted

\* A drop leaves a forest.
LEMMA DropsRooted ==
  ASSUME NEW t \in Tables, NEW r \in Tables, Rooted(t), NEW c, Drops(t, r, c)
  PROVE  Rooted(r)
<1> DEFINE pc == ParentOf(t, c.dom, c.slot)
<1>1. /\ c \in CapRefs /\ c.dom \in Domains /\ c.slot \in Slots /\ LiveRef(t, c)
      /\ r.caps[c.dom][c.slot] = None
  BY DEF Drops, CapRefs, Empties
<1>2. \A d \in Domains, s \in Slots : <<d, s>> # SlotOf(c) => Keeps(t, r, d, s)
  BY DEF Drops
<1>3. \A d \in Domains, s \in Slots :
        ParentOf(r, d, s) =
          IF <<d, s>> = SlotOf(c) THEN None
          ELSE IF ParentOf(t, d, s) = c THEN pc ELSE ParentOf(t, d, s)
  BY DEF Drops
<1>4. ASSUME pc # None PROVE SlotOf(pc) # SlotOf(c)
  <2>1. SUFFICES ASSUME SlotOf(pc) = SlotOf(c) PROVE FALSE
    OBVIOUS
  <2>2. {SlotOf(c)} \in SUBSET AllSlots /\ SlotOf(c) \in {SlotOf(c)}
    BY <1>1 DEF SlotOf, AllSlots
  <2>3. HoldsParents(t, {SlotOf(c)})
    BY <1>1, <1>4, <2>1 DEF HoldsParents, SlotOf
  <2> QED BY <2>2, <2>3 DEF Rooted
<1> HIDE DEF pc
<1>5. ASSUME NEW d \in Domains, NEW s \in Slots, r.caps[d][s] # None
      PROVE  r.slotGen[d][s] # GenRetired
  <2>1. <<d, s>> # SlotOf(c)
    BY <1>1, <1>5 DEF SlotOf
  <2> QED BY <1>2, <1>5, <2>1 DEF Keeps, Rooted
<1>6. ASSUME NEW x \in CapRefs, LiveRef(t, x), SlotOf(x) # SlotOf(c) PROVE LiveRef(r, x)
  <2>1. x.dom \in Domains /\ x.slot \in Slots
    BY DEF CapRefs
  <2>2. Keeps(t, r, x.dom, x.slot)
    BY <1>2, <1>6, <2>1 DEF SlotOf
  <2> QED BY <1>6, <2>2 DEF LiveRef, LiveCap, Keeps
<1>7. ASSUME NEW x \in CapRefs, LiveRef(t, x), x # c PROVE SlotOf(x) # SlotOf(c)
  BY <1>1, <1>7 DEF LiveRef, LiveCap, SlotOf, CapRefs
<1>8. pc # None => pc \in CapRefs /\ LiveRef(t, pc)
  BY <1>1, ParentIsThere DEF pc
<1>9. ASSUME NEW d \in Domains, NEW s \in Slots, ParentOf(r, d, s) # None
      PROVE  LiveRef(r, ParentOf(r, d, s))
  <2>1. CASE ParentOf(t, d, s) = c
    BY <1>3, <1>4, <1>6, <1>8, <1>9, <2>1
  <2>2. CASE ParentOf(t, d, s) # c
    <3>1. ParentOf(r, d, s) = ParentOf(t, d, s)
      BY <1>3, <1>9, <2>2
    <3>2. ParentOf(t, d, s) \in CapRefs /\ LiveRef(t, ParentOf(t, d, s))
      BY <1>9, <3>1, ParentIsThere
    <3> QED BY <1>6, <1>7, <2>2, <3>1, <3>2
  <2> QED BY <2>1, <2>2
<1>10. ASSUME NEW S \in SUBSET AllSlots, HoldsParents(r, S) PROVE S = {}
  <2> DEFINE T == S \union {SlotOf(c)}
  <2>1. CASE \E d \in Domains, s \in Slots : <<d, s>> \in S /\ ParentOf(t, d, s) = c
    <3>1. pc # None /\ SlotOf(pc) \in S
      BY <1>3, <1>10, <2>1 DEF HoldsParents
    <3>2. HoldsParents(t, T)
      <4>1. SUFFICES ASSUME NEW d \in Domains, NEW s \in Slots, <<d, s>> \in T
                     PROVE  ParentOf(t, d, s) # None /\ SlotOf(ParentOf(t, d, s)) \in T
        BY DEF HoldsParents
      <4>2. CASE <<d, s>> = SlotOf(c)
        <5>1. d = c.dom /\ s = c.slot
          BY <4>2 DEF SlotOf
        <5> QED BY <3>1, <5>1 DEF pc
      <4>3. CASE <<d, s>> # SlotOf(c) /\ ParentOf(t, d, s) = c
        BY <1>1, <4>3, NoneIsNothing
      <4>4. CASE <<d, s>> # SlotOf(c) /\ ParentOf(t, d, s) # c
        <5>1. <<d, s>> \in S /\ ParentOf(r, d, s) = ParentOf(t, d, s)
          BY <1>3, <4>1, <4>4
        <5> QED BY <1>10, <5>1 DEF HoldsParents
      <4> QED BY <4>2, <4>3, <4>4
    <3>3. T \in SUBSET AllSlots /\ SlotOf(c) \in T
      BY <1>1 DEF SlotOf, AllSlots
    <3> QED BY <3>2, <3>3 DEF Rooted
  <2>2. CASE ~\E d \in Domains, s \in Slots : <<d, s>> \in S /\ ParentOf(t, d, s) = c
    <3>1. HoldsParents(t, S)
      BY <1>3, <1>10, <2>2 DEF HoldsParents
    <3> QED BY <3>1 DEF Rooted
  <2> QED BY <2>1, <2>2
<1> QED BY <1>5, <1>9, <1>10 DEF Rooted

\* Every slot that is marked, and every child of one, is in each closed set.
LEMMA MarksLeast ==
  ASSUME NEW t, NEW root, NEW m \in SUBSET AllSlots, MarkStep(t, root, m) \subseteq m
  PROVE  Marks(t, root) \subseteq m
BY DEF Marks

\* The marks are closed: they are the least fixpoint of markStep.
LEMMA MarksClosed ==
  ASSUME NEW t, NEW root
  PROVE  Marks(t, root) \in SUBSET AllSlots /\ MarkStep(t, root, Marks(t, root)) \subseteq Marks(t, root)
<1>1. Marks(t, root) \in SUBSET AllSlots
  BY DEF Marks
<1>2. ASSUME NEW x \in MarkStep(t, root, Marks(t, root)) PROVE x \in Marks(t, root)
  <2>1. x \in AllSlots
    BY <1>1 DEF MarkStep
  <2>2. ASSUME NEW m \in SUBSET AllSlots, MarkStep(t, root, m) \subseteq m PROVE x \in m
    <3>1. Marks(t, root) \subseteq m
      BY <2>2, MarksLeast
    <3>2. x \in MarkStep(t, root, m)
      BY <3>1 DEF MarkStep
    <3> QED BY <2>2, <3>2
  <2> QED BY <2>1, <2>2 DEF Marks
<1> QED BY <1>1, <1>2

\* A slot is marked because its parent is the root or is marked.
LEMMA MarkedByParent ==
  ASSUME NEW t, NEW root, NEW d \in Domains, NEW s \in Slots, <<d, s>> \in Marks(t, root)
  PROVE  LET p == ParentOf(t, d, s)
         IN p # None /\ (p = root \/ SlotOf(p) \in Marks(t, root))
<1> DEFINE why(x) ==
             LET p == ParentOf(t, x[1], x[2])
             IN p # None /\ (p = root \/ (p.gen = t.slotGen[p.dom][p.slot] /\ <<p.dom, p.slot>> \in Marks(t, root)))
           m == {x \in Marks(t, root) : why(x)}
<1>1. m \in SUBSET AllSlots
  BY MarksClosed
<1>2. ASSUME NEW x \in MarkStep(t, root, m) PROVE x \in m
  <2>1. CASE x \in m
    BY <2>1
  <2>2. CASE x \notin m
    <3>1. x \in AllSlots /\ why(x)
      BY <1>2, <2>2 DEF MarkStep
    <3>2. x \in MarkStep(t, root, Marks(t, root))
      BY <3>1 DEF MarkStep
    <3>3. x \in Marks(t, root)
      BY <3>2, MarksClosed
    <3> QED BY <3>1, <3>3
  <2> QED BY <2>1, <2>2
<1>3. Marks(t, root) \subseteq m
  <2> HIDE DEF m
  <2> QED BY <1>1, <1>2, MarksLeast
<1>4. why(<<d, s>>)
  BY <1>3
<1> QED BY <1>4 DEF SlotOf

\* In a forest no capability is marked as its own descendant.
LEMMA RootUnmarked ==
  ASSUME NEW t \in Tables, Rooted(t), NEW c \in CapRefs
  PROVE  SlotOf(c) \notin Marks(t, c)
<1>1. SUFFICES ASSUME SlotOf(c) \in Marks(t, c) PROVE FALSE
  OBVIOUS
<1>2. HoldsParents(t, Marks(t, c))
  BY <1>1, MarkedByParent DEF HoldsParents
<1> QED BY <1>1, <1>2, MarksClosed DEF Rooted

\* A capability that is not marked has a parent that is not, or none.
LEMMA UnmarkedParent ==
  ASSUME NEW t \in Tables, Rooted(t), NEW root, NEW d \in Domains, NEW s \in Slots,
         <<d, s>> \notin Marks(t, root), ParentOf(t, d, s) # None
  PROVE  SlotOf(ParentOf(t, d, s)) \notin Marks(t, root) /\ ParentOf(t, d, s) # root
<1> DEFINE p == ParentOf(t, d, s)
<1>1. t.slotGen[p.dom][p.slot] = p.gen
  BY ParentIsThere
<1>2. SUFFICES ASSUME <<p.dom, p.slot>> \in Marks(t, root) \/ p = root PROVE FALSE
  BY DEF SlotOf
<1>3. <<d, s>> \in AllSlots /\ <<d, s>>[1] = d /\ <<d, s>>[2] = s
  BY DEF AllSlots
<1>4. <<d, s>> \in MarkStep(t, root, Marks(t, root))
  BY <1>1, <1>2, <1>3 DEF MarkStep
<1> QED BY <1>4, MarksClosed

\* A revocation leaves a forest.
LEMMA RevokesRooted ==
  ASSUME NEW t \in Tables, NEW r \in Tables, Rooted(t), NEW c, Revokes(t, r, c)
  PROVE  Rooted(r)
<1>1. \A d \in Domains, s \in Slots :
        IF <<d, s>> \in Marks(t, c) THEN Empties(t, r, d, s) ELSE Keeps(t, r, d, s)
  BY DEF Revokes
<1>2. \A d \in Domains, s \in Slots :
        ParentOf(r, d, s) = IF <<d, s>> \in Marks(t, c) THEN None ELSE ParentOf(t, d, s)
  BY DEF Revokes
<1>3. ASSUME NEW d \in Domains, NEW s \in Slots, r.caps[d][s] # None
      PROVE  r.slotGen[d][s] # GenRetired
  <2>1. Keeps(t, r, d, s)
    BY <1>1, <1>3 DEF Empties
  <2> QED BY <1>3, <2>1 DEF Keeps, Rooted
<1>4. ASSUME NEW d \in Domains, NEW s \in Slots, ParentOf(r, d, s) # None
      PROVE  LiveRef(r, ParentOf(r, d, s))
  <2> DEFINE p == ParentOf(t, d, s)
  <2>1. <<d, s>> \notin Marks(t, c) /\ ParentOf(r, d, s) = p /\ p # None
    BY <1>2, <1>4
  <2>2. p.dom \in Domains /\ p.slot \in Slots /\ LiveRef(t, p)
    BY <2>1, ParentIsThere
  <2>3. <<p.dom, p.slot>> \notin Marks(t, c)
    BY <2>1, UnmarkedParent DEF SlotOf
  <2> HIDE DEF p
  <2>4. Keeps(t, r, p.dom, p.slot)
    BY <1>1, <2>2, <2>3
  <2> QED BY <2>1, <2>2, <2>4 DEF Keeps, LiveRef, LiveCap
<1>5. ASSUME NEW S \in SUBSET AllSlots, HoldsParents(r, S) PROVE S = {}
  <2>1. HoldsParents(t, S)
    BY <1>2, <1>5 DEF HoldsParents
  <2> QED BY <2>1 DEF Rooted
<1> QED BY <1>3, <1>4, <1>5 DEF Rooted

\* A transfer leaves a forest.
LEMMA TransfersRooted ==
  ASSUME NEW t \in Tables, NEW r \in Tables, Rooted(t), NEW c, NEW n, Transfers(t, r, c, n)
  PROVE  Rooted(r)
<1> DEFINE P(d, s) == IF <<d, s>> = SlotOf(n) THEN ParentOf(t, c.dom, c.slot) ELSE ParentOf(t, d, s)
<1>1. /\ c \in CapRefs /\ c.dom \in Domains /\ c.slot \in Slots /\ LiveRef(t, c)
      /\ n \in CapRefs /\ n.dom \in Domains /\ n.slot \in Slots
      /\ SlotOf(n) # SlotOf(c)
      /\ r.caps[c.dom][c.slot] = None
      /\ t.caps[n.dom][n.slot] = None /\ t.slotGen[n.dom][n.slot] # GenRetired
      /\ r.caps[n.dom][n.slot] # None
      /\ r.slotGen[n.dom][n.slot] = n.gen
      /\ r.slotGen[n.dom][n.slot] = t.slotGen[n.dom][n.slot]
  BY DEF Transfers, CapRefs, Empties, Fills
<1>2. \A d \in Domains, s \in Slots :
        <<d, s>> # SlotOf(c) /\ <<d, s>> # SlotOf(n) => Keeps(t, r, d, s)
  BY DEF Transfers
<1>3. \A d \in Domains, s \in Slots :
        ParentOf(r, d, s) = IF <<d, s>> = SlotOf(c) THEN None
                            ELSE IF P(d, s) = c THEN n ELSE P(d, s)
  BY DEF Transfers
<1> HIDE DEF P
<1>4. ASSUME NEW d \in Domains, NEW s \in Slots, r.caps[d][s] # None
      PROVE  r.slotGen[d][s] # GenRetired
  <2>1. <<d, s>> # SlotOf(c)
    BY <1>1, <1>4 DEF SlotOf
  <2>2. CASE <<d, s>> = SlotOf(n)
    BY <1>1, <2>2 DEF SlotOf
  <2>3. CASE <<d, s>> # SlotOf(n)
    BY <1>2, <1>4, <2>1, <2>3 DEF Keeps, Rooted
  <2> QED BY <2>2, <2>3
<1>5. LiveRef(r, n)
  BY <1>1 DEF LiveRef, LiveCap
<1>6. ASSUME NEW x \in CapRefs, LiveRef(t, x), x # c PROVE LiveRef(r, x) /\ SlotOf(x) # SlotOf(n)
  <2>1. x.dom \in Domains /\ x.slot \in Slots /\ t.caps[x.dom][x.slot] # None
    BY <1>6 DEF CapRefs, LiveRef, LiveCap
  <2>2. <<x.dom, x.slot>> # SlotOf(n)
    BY <1>1, <2>1 DEF SlotOf
  <2>3. <<x.dom, x.slot>> # SlotOf(c)
    BY <1>1, <1>6 DEF LiveRef, LiveCap, SlotOf, CapRefs
  <2>4. Keeps(t, r, x.dom, x.slot)
    BY <1>2, <2>1, <2>2, <2>3
  <2> QED BY <1>6, <2>2, <2>4 DEF LiveRef, LiveCap, Keeps, SlotOf
<1>7. ASSUME NEW d \in Domains, NEW s \in Slots, P(d, s) # None
      PROVE  P(d, s) \in CapRefs /\ LiveRef(t, P(d, s))
  BY <1>1, <1>7, ParentIsThere DEF P
<1>8. ASSUME NEW d \in Domains, NEW s \in Slots, ParentOf(r, d, s) # None
      PROVE  LiveRef(r, ParentOf(r, d, s))
  <2>1. CASE P(d, s) = c
    BY <1>3, <1>5, <1>8, <2>1
  <2>2. CASE P(d, s) # c
    BY <1>3, <1>6, <1>7, <1>8, <2>2
  <2> QED BY <2>1, <2>2
<1>9. ASSUME NEW S \in SUBSET AllSlots, HoldsParents(r, S) PROVE S = {}
  <2> DEFINE T == (S \ {SlotOf(n)}) \union (IF SlotOf(n) \in S THEN {SlotOf(c)} ELSE {})
  <2>1. ASSUME NEW d \in Domains, NEW s \in Slots, <<d, s>> \in S
        PROVE  /\ P(d, s) # None /\ SlotOf(P(d, s)) \in T
               /\ <<d, s>> # SlotOf(c)
    <3>1. ParentOf(r, d, s) # None /\ SlotOf(ParentOf(r, d, s)) \in S
      BY <1>9, <2>1 DEF HoldsParents
    <3>2. <<d, s>> # SlotOf(c)
      BY <1>3, <3>1
    <3>3. CASE P(d, s) = c
      <4>1. ParentOf(r, d, s) = n
        BY <1>3, <3>2, <3>3
      <4>2. SlotOf(n) \in S /\ c # None
        BY <1>1, <3>1, <4>1, NoneIsNothing
      <4> QED BY <3>2, <3>3, <4>2
    <3>4. CASE P(d, s) # c
      <4>1. ParentOf(r, d, s) = P(d, s)
        BY <1>3, <3>2, <3>4
      <4>2. SlotOf(P(d, s)) # SlotOf(n)
        BY <1>6, <1>7, <3>1, <3>4, <4>1
      <4> QED BY <3>1, <3>2, <4>1, <4>2
    <3> QED BY <3>3, <3>4
  <2>2. T \in SUBSET AllSlots
    BY <1>1 DEF SlotOf, AllSlots
  <2>3. ASSUME NEW d \in Domains, NEW s \in Slots, <<d, s>> \in T
        PROVE  ParentOf(t, d, s) # None /\ SlotOf(ParentOf(t, d, s)) \in T
    <3>1. CASE <<d, s>> = SlotOf(c)
      <4>1. SlotOf(n) \in S
        BY <2>1, <2>3, <3>1
      <4>2. <<n.dom, n.slot>> \in S /\ P(n.dom, n.slot) = ParentOf(t, c.dom, c.slot)
        BY <4>1 DEF SlotOf, P
      <4>3. d = c.dom /\ s = c.slot
        BY <3>1 DEF SlotOf
      <4> HIDE DEF T
      <4> QED BY <1>1, <2>1, <4>2, <4>3
    <3>2. CASE <<d, s>> # SlotOf(c)
      <4>1. <<d, s>> \in S /\ P(d, s) = ParentOf(t, d, s)
        BY <2>3, <3>2 DEF P
      <4> HIDE DEF T
      <4> QED BY <2>1, <4>1
    <3> QED BY <3>1, <3>2
  <2>4. S # {} => T # {}
    OBVIOUS
  <2> HIDE DEF T
  <2>5. T = {}
    BY <2>2, <2>3 DEF HoldsParents, Rooted
  <2> QED BY <2>4, <2>5
<1> QED BY <1>4, <1>8, <1>9 DEF Rooted

-----------------------------------------------------------------------------
(***************************************************************************)
(* The rounds of the revoke sweep.                                         *)
(***************************************************************************)

\* There are numDomains * numSlots slots.
LEMMA SlotCount ==
  /\ IsFiniteSet(AllSlots)
  /\ Cardinality(AllSlots) = Cardinality(Domains) * NumSlots
  /\ Cardinality(AllSlots) \in Nat
<1>1. NumSlots - 1 \in Int /\ 0 \in Int /\ NumSlots > 0
  BY SizesAssumption
<1>2. IsFiniteSet(Slots) /\ Cardinality(Slots) = NumSlots
  <2>1. IsFiniteSet(0 .. NumSlots - 1) /\ Cardinality(0 .. NumSlots - 1) =
          IF 0 > NumSlots - 1 THEN 0 ELSE NumSlots - 1 - 0 + 1
    BY <1>1, FS_Interval
  <2> QED BY <1>1, <2>1, SizesAssumption DEF Slots
<1>3. IsFiniteSet(Domains \X Slots)
      /\ Cardinality(Domains \X Slots) = Cardinality(Domains) * Cardinality(Slots)
  BY <1>2, DomainsAssumption, FS_Product
<1>4. Cardinality(Domains \X Slots) \in Nat
  BY <1>3, FS_CardinalityType
<1> QED BY <1>2, <1>3, <1>4 DEF AllSlots

\* A round only adds slots, and adds those of a smaller set too.
LEMMA MarkStepGrows ==
  ASSUME NEW t, NEW root, NEW m \in SUBSET AllSlots
  PROVE  /\ m \subseteq MarkStep(t, root, m) /\ MarkStep(t, root, m) \in SUBSET AllSlots
         /\ \A k \in SUBSET AllSlots :
              m \subseteq k => MarkStep(t, root, m) \subseteq MarkStep(t, root, k)
BY DEF MarkStep

\* m is the sequence of sets that N rounds of the loop go through.
IsRounds(t, root, N, m) ==
  /\ m \in [0 .. N -> SUBSET AllSlots]
  /\ m[0] = {}
  /\ \A n \in 0 .. N - 1 : m[n + 1] = MarkStep(t, root, m[n])
  /\ MarksByRounds(t, root) = m[N]

\* The loop goes through such a sequence.
LEMMA RoundsUnfold ==
  ASSUME NEW t, NEW root, NEW N \in Nat, N = Cardinality(Domains) * NumSlots
  PROVE  \E m : IsRounds(t, root, N, m)
<1> DEFINE R == SUBSET AllSlots
           F == [p \in Nat \X R |-> MarkStep(t, root, p[2])]
           Body(f) == [n \in 0 .. N |-> IF n = 0 THEN {} ELSE MarkStep(t, root, f[n - 1])]
<1>1. {} \in R
  OBVIOUS
<1>2. F \in [Nat \X R -> R] /\ \A n \in Nat, m \in R : F[<<n, m>>] = MarkStep(t, root, m)
  BY MarkStepGrows
<1>3. PICK f : Iterates(f, R, {}, F, N)
  <2> HIDE DEF R, F
  <2> QED BY <1>1, <1>2, Recursion
<1> HIDE DEF R, F
<1>4. /\ f \in [0 .. N -> R] /\ f[0] = {}
      /\ \A n \in 0 .. N - 1 : f[n + 1] = MarkStep(t, root, f[n])
  <2>1. f \in [0 .. N -> R] /\ f[0] = {} /\ \A n \in 0 .. N - 1 : f[n + 1] = F[<<n, f[n]>>]
    BY <1>3 DEF Iterates
  <2>2. \A n \in 0 .. N - 1 : n \in Nat /\ n \in 0 .. N
    OBVIOUS
  <2> QED BY <1>2, <2>1, <2>2, ZenonT(40)
<1>5. f = Body(f)
  <2>1. ASSUME NEW n \in 0 .. N
        PROVE  f[n] = IF n = 0 THEN {} ELSE MarkStep(t, root, f[n - 1])
    <3>1. CASE n = 0
      BY <1>4, <3>1
    <3>2. CASE n # 0
      <4>1. n - 1 \in 0 .. N - 1 /\ n - 1 + 1 = n
        BY <3>2
      <4> QED BY <1>4, <3>2, <4>1
    <3> QED BY <3>1, <3>2
  <2>2. f = [n \in 0 .. N |-> f[n]]
    BY <1>4
  <2> QED BY <2>1, <2>2
<1> DEFINE m == CHOOSE g : g = Body(g)
<1>6. MarksByRounds(t, root) = m[N]
  BY DEF MarksByRounds
<1>7. m = Body(m)
  <2> HIDE DEF Body
  <2> QED BY <1>5
<1> HIDE DEF m
<1>8. \A n \in 0 .. N : m[n] = IF n = 0 THEN {} ELSE MarkStep(t, root, m[n - 1])
  BY <1>7
<1>9. m[0] = {} /\ \A n \in 0 .. N - 1 : m[n + 1] = MarkStep(t, root, m[n])
  <2>1. ASSUME NEW n \in 0 .. N - 1 PROVE m[n + 1] = MarkStep(t, root, m[n])
    <3>1. n + 1 \in 0 .. N /\ n + 1 # 0 /\ n + 1 - 1 = n
      OBVIOUS
    <3> QED BY <1>8, <3>1
  <2> QED BY <1>8, <2>1
<1> DEFINE S == {n \in Nat : n <= N => m[n] \in R}
<1>10. \A n \in 0 .. N : m[n] \in R
  <2>1. Nat \subseteq S
    <3>1. 0 \in S
      BY <1>1, <1>9
    <3>2. ASSUME NEW n \in Nat, n \in S PROVE n + 1 \in S
      <4>1. CASE n + 1 <= N
        <5>1. n \in 0 .. N - 1 /\ m[n] \in R
          BY <3>2, <4>1
        <5> QED BY <1>9, <5>1, MarkStepGrows DEF R
      <4>2. CASE ~(n + 1 <= N)
        BY <4>2
      <4> QED BY <4>1, <4>2
    <3> HIDE DEF S
    <3> QED BY <3>1, <3>2, SetInduction
  <2> QED BY <2>1
<1>11. m \in [0 .. N -> R]
  <2>1. m = [n \in 0 .. N |-> m[n]]
    BY <1>7
  <2> QED BY <1>10, <2>1
<1> QED BY <1>6, <1>9, <1>11 DEF R, IsRounds

\* The sweep marks exactly the descendants: each round but the last adds a
\* slot, and there are only so many.
LEMMA RoundsMark ==
  ASSUME NEW t, NEW root
  PROVE  MarksByRounds(t, root) = Marks(t, root)
<1> DEFINE N == Cardinality(AllSlots)
           Step(m) == MarkStep(t, root, m)
<1>1. IsFiniteSet(AllSlots) /\ N \in Nat /\ N = Cardinality(Domains) * NumSlots
  BY SlotCount
<1> HIDE DEF N
<1>0. PICK m : IsRounds(t, root, N, m)
  BY <1>1, RoundsUnfold
<1>2. /\ m \in [0 .. N -> SUBSET AllSlots]
      /\ m[0] = {}
      /\ \A n \in 0 .. N - 1 : m[n + 1] = Step(m[n])
      /\ MarksByRounds(t, root) = m[N]
  BY <1>0 DEF IsRounds
<1> HIDE DEF Step
<1>3. ASSUME NEW x \in SUBSET AllSlots
      PROVE  /\ Step(x) \in SUBSET AllSlots /\ x \subseteq Step(x)
             /\ x \subseteq Marks(t, root) => Step(x) \subseteq Marks(t, root)
             /\ IsFiniteSet(x) /\ Cardinality(x) \in Nat
             /\ Cardinality(x) <= Cardinality(Step(x))
             /\ Cardinality(x) = Cardinality(Step(x)) => Step(x) = x
  <2>1. Step(x) \in SUBSET AllSlots /\ x \subseteq Step(x)
    BY MarkStepGrows DEF Step
  <2>2. ASSUME x \subseteq Marks(t, root) PROVE Step(x) \subseteq Marks(t, root)
    <3>1. Step(x) \subseteq Step(Marks(t, root))
      BY <2>2, MarksClosed, MarkStepGrows DEF Step
    <3>2. Step(Marks(t, root)) \subseteq Marks(t, root)
      BY MarksClosed DEF Step
    <3> QED BY <3>1, <3>2
  <2>3. IsFiniteSet(x) /\ IsFiniteSet(Step(x))
    BY <1>1, <2>1, FS_Subset
  <2>4. /\ Cardinality(x) <= Cardinality(Step(x))
        /\ Cardinality(Step(x)) = Cardinality(x) => Step(x) = x
    BY <2>1, <2>3, FS_Subset
  <2> QED BY <2>1, <2>2, <2>3, <2>4, FS_CardinalityType
<1> DEFINE S == {n \in Nat : n <= N => /\ m[n] \subseteq Marks(t, root)
                                       /\ Step(m[n]) = m[n] \/ Cardinality(m[n]) >= n}
<1>4. 0 \in S
  BY <1>2, FS_EmptySet
<1>5. ASSUME NEW n \in Nat, n \in S PROVE n + 1 \in S
  <2> SUFFICES ASSUME n + 1 <= N
               PROVE  /\ m[n + 1] \subseteq Marks(t, root)
                      /\ Step(m[n + 1]) = m[n + 1] \/ Cardinality(m[n + 1]) >= n + 1
    OBVIOUS
  <2>1. /\ n \in 0 .. N - 1 /\ n \in 0 .. N
        /\ m[n] \subseteq Marks(t, root)
        /\ Step(m[n]) = m[n] \/ Cardinality(m[n]) >= n
    BY <1>1, <1>5
  <2>2. m[n + 1] = Step(m[n]) /\ m[n] \in SUBSET AllSlots
    BY <1>2, <2>1
  <2>3. m[n + 1] \subseteq Marks(t, root)
    BY <1>3, <2>1, <2>2
  <2>4. CASE Step(m[n]) = m[n]
    BY <2>2, <2>3, <2>4
  <2>5. CASE Step(m[n]) # m[n]
    <3>1. Cardinality(m[n]) >= n /\ Cardinality(m[n]) < Cardinality(Step(m[n]))
      <4>1. /\ Cardinality(m[n]) <= Cardinality(Step(m[n]))
            /\ Cardinality(m[n]) # Cardinality(Step(m[n]))
            /\ Cardinality(m[n]) \in Nat /\ Cardinality(Step(m[n])) \in Nat
        BY <1>3, <2>2, <2>5
      <4> QED BY <2>1, <2>5, <4>1
    <3>2. Cardinality(m[n]) \in Nat /\ Cardinality(Step(m[n])) \in Nat
      BY <1>3, <2>2
    <3>3. Cardinality(Step(m[n])) >= n + 1
      BY <3>1, <3>2
    <3> QED BY <2>2, <2>3, <3>3
  <2> QED BY <2>4, <2>5
<1>6. N \in S
  <2> HIDE DEF S
  <2> QED BY <1>1, <1>4, <1>5, SetInduction
<1>7. m[N] \subseteq Marks(t, root) /\ m[N] \in SUBSET AllSlots
  BY <1>1, <1>2, <1>6
<1>8. Step(m[N]) \subseteq m[N]
  <2>1. CASE Step(m[N]) = m[N]
    BY <2>1
  <2>2. CASE Cardinality(m[N]) >= N
    <3>1. Cardinality(m[N]) <= Cardinality(AllSlots)
          /\ (Cardinality(AllSlots) = Cardinality(m[N]) => AllSlots = m[N])
      BY <1>1, <1>7, FS_Subset
    <3>2. AllSlots = m[N]
      BY <1>1, <1>3, <1>7, <2>2, <3>1 DEF N
    <3> QED BY <1>3, <1>7, <3>2
  <2> QED BY <1>1, <1>6, <2>1, <2>2
<1>9. Marks(t, root) \subseteq m[N]
  BY <1>7, <1>8, MarksLeast DEF Step
<1>10. m[N] = Marks(t, root)
  BY <1>7, <1>9
<1> QED BY <1>2, <1>10

-----------------------------------------------------------------------------
(***************************************************************************)
(* What the four relations do to the forest that CapForest sees: the live  *)
(* references, the retired ones, and the parent and kind of each live one. *)
(***************************************************************************)
LiveOf(t) == {r \in CapRefs : LiveRef(t, r)}
RetiredOf(t) == {r \in CapRefs : r.gen < t.slotGen[r.dom][r.slot]}

\* The parts of a reference, and when two name the same capability.
LEMMA RefParts ==
  ASSUME NEW x \in CapRefs
  PROVE  /\ x.dom \in Domains /\ x.slot \in Slots /\ x.gen \in Gens /\ x.gen \in Nat
         /\ SlotOf(x) = <<x.dom, x.slot>>
         /\ \A y \in CapRefs : x = y <=> SlotOf(x) = SlotOf(y) /\ x.gen = y.gen
BY DEF CapRefs, Gens, SlotOf

\* The generation of a slot that is given up is the one just below the next.
LEMMA BumpRetires ==
  ASSUME NEW g \in Gens, g # GenRetired, NEW h \in Gens
  PROVE  h < BumpGen(g) <=> h < g \/ h = g
BY GenRetiredAssumption DEF BumpGen, Gens

\* A slot that is kept names what it named.
LEMMA KeptRef ==
  ASSUME NEW t, NEW r, NEW x \in CapRefs, Keeps(t, r, x.dom, x.slot)
  PROVE  /\ LiveRef(r, x) <=> LiveRef(t, x)
         /\ LiveRef(t, x) => EntryOf(r, x).kind = EntryOf(t, x).kind
         /\ x \in RetiredOf(r) <=> x \in RetiredOf(t)
BY DEF Keeps, LiveRef, LiveCap, EntryOf, RetiredOf

\* A slot that is emptied names nothing, and retires what it named.
LEMMA EmptiedRef ==
  ASSUME NEW t \in Tables, Rooted(t), NEW r, NEW x \in CapRefs, Empties(t, r, x.dom, x.slot)
  PROVE  /\ ~LiveRef(r, x)
         /\ x \in RetiredOf(r) <=> x \in RetiredOf(t) \/ LiveRef(t, x)
<1>1. x.dom \in Domains /\ x.slot \in Slots /\ x.gen \in Gens
  BY RefParts
<1>2. t.slotGen[x.dom][x.slot] \in Gens
  BY <1>1, TableParts
<1>3. CASE t.caps[x.dom][x.slot] = None
  BY <1>3 DEF Empties, LiveRef, LiveCap, RetiredOf
<1>4. CASE t.caps[x.dom][x.slot] # None
  <2>1. t.slotGen[x.dom][x.slot] # GenRetired
    BY <1>1, <1>4 DEF Rooted
  <2>2. r.slotGen[x.dom][x.slot] = BumpGen(t.slotGen[x.dom][x.slot]) /\ r.caps[x.dom][x.slot] = None
    BY <1>4 DEF Empties
  <2>3. x.gen < BumpGen(t.slotGen[x.dom][x.slot]) <=>
          x.gen < t.slotGen[x.dom][x.slot] \/ x.gen = t.slotGen[x.dom][x.slot]
    BY <1>1, <1>2, <2>1, BumpRetires
  <2> QED BY <1>4, <2>2, <2>3 DEF LiveRef, LiveCap, RetiredOf
<1> QED BY <1>3, <1>4

\* A slot that is filled names the new capability, and retires nothing.
LEMMA FilledRef ==
  ASSUME NEW t \in Tables, NEW r, NEW n \in CapRefs, NEW kind, NEW x \in CapRefs,
         t.slotGen[n.dom][n.slot] = n.gen, Fills(t, r, n.dom, n.slot, kind),
         SlotOf(x) = SlotOf(n)
  PROVE  /\ LiveRef(r, x) <=> x = n
         /\ ~LiveRef(t, x)
         /\ EntryOf(r, x).kind = kind
         /\ x \in RetiredOf(r) <=> x \in RetiredOf(t)
<1>1. x.dom = n.dom /\ x.slot = n.slot /\ (x = n <=> x.gen = n.gen)
  BY RefParts
<1> QED BY <1>1 DEF Fills, LiveRef, LiveCap, EntryOf, RetiredOf

\* It named nothing before, and the new capability was not retired.
LEMMA NewRef ==
  ASSUME NEW t \in Tables, NEW n \in CapRefs,
         t.slotGen[n.dom][n.slot] = n.gen, t.caps[n.dom][n.slot] = None
  PROVE  ~LiveRef(t, n) /\ n \notin RetiredOf(t)
<1>1. n.gen \in Nat
  BY RefParts
<1> QED BY <1>1 DEF LiveRef, LiveCap, RetiredOf

\* What a derivation shows.
LEMMA DerivesShows ==
  ASSUME NEW t \in Tables, NEW r \in Tables, Rooted(t), NEW n, NEW p, NEW kind,
         Derives(t, r, n, p, kind)
  PROVE  /\ n \in CapRefs /\ p \in LiveOf(t) /\ n \notin LiveOf(t) /\ n \notin RetiredOf(t)
         /\ LiveOf(r) = LiveOf(t) \union {n}
         /\ RetiredOf(r) = RetiredOf(t)
         /\ \A x \in LiveOf(r) :
              /\ ParentOf(r, x.dom, x.slot) = IF x = n THEN p ELSE ParentOf(t, x.dom, x.slot)
              /\ EntryOf(r, x).kind = IF x = n THEN kind ELSE EntryOf(t, x).kind
<1>1. /\ n \in CapRefs /\ p \in CapRefs /\ LiveRef(t, p)
      /\ t.slotGen[n.dom][n.slot] = n.gen /\ Fills(t, r, n.dom, n.slot, kind)
  BY DEF Derives
<1>2. ASSUME NEW x \in CapRefs
      PROVE  /\ LiveRef(r, x) <=> LiveRef(t, x) \/ x = n
             /\ x \in RetiredOf(r) <=> x \in RetiredOf(t)
             /\ LiveRef(r, x) =>
                  /\ ParentOf(r, x.dom, x.slot) = IF x = n THEN p ELSE ParentOf(t, x.dom, x.slot)
                  /\ EntryOf(r, x).kind = IF x = n THEN kind ELSE EntryOf(t, x).kind
  <2>1. /\ x.dom \in Domains /\ x.slot \in Slots /\ SlotOf(x) = <<x.dom, x.slot>>
        /\ x = n => SlotOf(x) = SlotOf(n)
    BY RefParts
  <2>2. ParentOf(r, x.dom, x.slot) = IF SlotOf(x) = SlotOf(n) THEN p ELSE ParentOf(t, x.dom, x.slot)
    BY <2>1 DEF Derives
  <2>3. CASE SlotOf(x) = SlotOf(n)
    <3>1. /\ LiveRef(r, x) <=> x = n
          /\ ~LiveRef(t, x)
          /\ EntryOf(r, x).kind = kind
          /\ x \in RetiredOf(r) <=> x \in RetiredOf(t)
      BY <1>1, <2>3, FilledRef
    <3> QED BY <2>2, <2>3, <3>1
  <2>4. CASE SlotOf(x) # SlotOf(n)
    <3>1. Keeps(t, r, x.dom, x.slot)
      BY <2>1, <2>4 DEF Derives
    <3> QED BY <2>1, <2>2, <2>4, <3>1, KeptRef
  <2> QED BY <2>3, <2>4
<1>3. ~LiveRef(t, n) /\ n \notin RetiredOf(t)
  BY <1>1, NewRef DEF Fills
<1>4. LiveOf(r) = LiveOf(t) \union {n}
  BY <1>1, <1>2 DEF LiveOf
<1>5. RetiredOf(r) = RetiredOf(t)
  BY <1>2 DEF RetiredOf
<1> QED BY <1>1, <1>2, <1>3, <1>4, <1>5 DEF LiveOf

\* What a drop shows.
LEMMA DropsShows ==
  ASSUME NEW t \in Tables, NEW r \in Tables, Rooted(t), NEW c, Drops(t, r, c)
  PROVE  /\ c \in LiveOf(t)
         /\ LiveOf(r) = LiveOf(t) \ {c}
         /\ RetiredOf(r) = RetiredOf(t) \union {c}
         /\ \A x \in LiveOf(r) :
              /\ ParentOf(r, x.dom, x.slot) =
                   IF ParentOf(t, x.dom, x.slot) = c THEN ParentOf(t, c.dom, c.slot)
                                                     ELSE ParentOf(t, x.dom, x.slot)
              /\ EntryOf(r, x).kind = EntryOf(t, x).kind
<1>1. c \in CapRefs /\ LiveRef(t, c) /\ Empties(t, r, c.dom, c.slot)
  BY DEF Drops
<1>2. ASSUME NEW x \in CapRefs
      PROVE  /\ LiveRef(r, x) <=> LiveRef(t, x) /\ x # c
             /\ x \in RetiredOf(r) <=> x \in RetiredOf(t) \/ x = c
             /\ LiveRef(r, x) =>
                  /\ ParentOf(r, x.dom, x.slot) =
                       IF ParentOf(t, x.dom, x.slot) = c THEN ParentOf(t, c.dom, c.slot)
                                                         ELSE ParentOf(t, x.dom, x.slot)
                  /\ EntryOf(r, x).kind = EntryOf(t, x).kind
  <2>1. /\ x.dom \in Domains /\ x.slot \in Slots /\ SlotOf(x) = <<x.dom, x.slot>>
        /\ x = c <=> SlotOf(x) = SlotOf(c) /\ x.gen = c.gen
    BY <1>1, RefParts
  <2>2. CASE SlotOf(x) = SlotOf(c)
    <3>1. x.dom = c.dom /\ x.slot = c.slot
      BY <2>2 DEF SlotOf
    <3>2. LiveRef(t, x) <=> x = c
      BY <1>1, <2>1, <2>2, <3>1 DEF LiveRef, LiveCap
    <3>3. /\ ~LiveRef(r, x)
          /\ x \in RetiredOf(r) <=> x \in RetiredOf(t) \/ LiveRef(t, x)
      BY <1>1, <3>1, EmptiedRef
    <3> QED BY <3>2, <3>3
  <2>3. CASE SlotOf(x) # SlotOf(c)
    <3>1. Keeps(t, r, x.dom, x.slot)
      BY <2>1, <2>3 DEF Drops
    <3>2. ParentOf(r, x.dom, x.slot) =
            IF ParentOf(t, x.dom, x.slot) = c THEN ParentOf(t, c.dom, c.slot)
                                              ELSE ParentOf(t, x.dom, x.slot)
      BY <2>1, <2>3 DEF Drops
    <3> QED BY <2>1, <2>3, <3>1, <3>2, KeptRef
  <2> QED BY <2>2, <2>3
<1>3. LiveOf(r) = LiveOf(t) \ {c}
  BY <1>1, <1>2 DEF LiveOf
<1>4. RetiredOf(r) = RetiredOf(t) \union {c}
  BY <1>1, <1>2 DEF RetiredOf
<1> QED BY <1>1, <1>2, <1>3, <1>4 DEF LiveOf

\* What a revocation shows: the live references in marked slots are retired.
LEMMA RevokesShows ==
  ASSUME NEW t \in Tables, NEW r \in Tables, Rooted(t), NEW c, Revokes(t, r, c)
  PROVE  LET D == {x \in LiveOf(t) : SlotOf(x) \in Marks(t, c)}
         IN /\ c \in LiveOf(t) /\ c \notin D
            /\ LiveOf(r) = LiveOf(t) \ D
            /\ RetiredOf(r) = RetiredOf(t) \union D
            /\ \A x \in LiveOf(r) :
                 /\ ParentOf(r, x.dom, x.slot) = ParentOf(t, x.dom, x.slot)
                 /\ EntryOf(r, x).kind = EntryOf(t, x).kind
<1> DEFINE D == {x \in LiveOf(t) : SlotOf(x) \in Marks(t, c)}
<1>1. c \in CapRefs /\ LiveRef(t, c) /\ SlotOf(c) \notin Marks(t, c)
  BY RootUnmarked DEF Revokes
<1>2. ASSUME NEW x \in CapRefs
      PROVE  /\ LiveRef(r, x) <=> LiveRef(t, x) /\ x \notin D
             /\ x \in RetiredOf(r) <=> x \in RetiredOf(t) \/ x \in D
             /\ LiveRef(r, x) =>
                  /\ ParentOf(r, x.dom, x.slot) = ParentOf(t, x.dom, x.slot)
                  /\ EntryOf(r, x).kind = EntryOf(t, x).kind
  <2>1. x.dom \in Domains /\ x.slot \in Slots /\ SlotOf(x) = <<x.dom, x.slot>>
    BY RefParts
  <2>2. CASE SlotOf(x) \in Marks(t, c)
    <3>1. Empties(t, r, x.dom, x.slot)
      BY <2>1, <2>2 DEF Revokes
    <3>2. ~LiveRef(r, x) /\ (x \in RetiredOf(r) <=> x \in RetiredOf(t) \/ LiveRef(t, x))
      BY <3>1, EmptiedRef
    <3> QED BY <2>2, <3>2 DEF LiveOf
  <2>3. CASE SlotOf(x) \notin Marks(t, c)
    <3>1. Keeps(t, r, x.dom, x.slot) /\ ParentOf(r, x.dom, x.slot) = ParentOf(t, x.dom, x.slot)
      BY <2>1, <2>3 DEF Revokes
    <3> QED BY <2>3, <3>1, KeptRef
  <2> QED BY <2>2, <2>3
<1>3. \A x \in D : x \in CapRefs /\ x \in LiveOf(t)
  BY DEF LiveOf
<1>4. c \notin D
  BY <1>1
<1> HIDE DEF D
<1>5. LiveOf(r) = LiveOf(t) \ D
  BY <1>2, <1>3 DEF LiveOf
<1>6. RetiredOf(r) = RetiredOf(t) \union D
  BY <1>2, <1>3 DEF RetiredOf
<1> QED BY <1>1, <1>2, <1>4, <1>5, <1>6 DEF LiveOf, D

\* What a transfer shows.
LEMMA TransfersShows ==
  ASSUME NEW t \in Tables, NEW r \in Tables, Rooted(t), NEW c, NEW n, Transfers(t, r, c, n)
  PROVE  /\ c \in LiveOf(t) /\ n \in CapRefs /\ n \notin LiveOf(t) /\ n \notin RetiredOf(t)
         /\ LiveOf(r) = (LiveOf(t) \ {c}) \union {n}
         /\ RetiredOf(r) = RetiredOf(t) \union {c}
         /\ \A x \in LiveOf(r) :
              /\ ParentOf(r, x.dom, x.slot) =
                   LET p == IF x = n THEN ParentOf(t, c.dom, c.slot)
                                     ELSE ParentOf(t, x.dom, x.slot)
                   IN IF p = c THEN n ELSE p
              /\ EntryOf(r, x).kind = IF x = n THEN EntryOf(t, c).kind ELSE EntryOf(t, x).kind
<1>1. /\ c \in CapRefs /\ LiveRef(t, c) /\ Empties(t, r, c.dom, c.slot)
      /\ n \in CapRefs /\ t.slotGen[n.dom][n.slot] = n.gen
      /\ Fills(t, r, n.dom, n.slot, EntryOf(t, c).kind) /\ SlotOf(n) # SlotOf(c)
  BY DEF Transfers, EntryOf
<1>2. ASSUME NEW x \in CapRefs
      PROVE  /\ LiveRef(r, x) <=> (LiveRef(t, x) /\ x # c) \/ x = n
             /\ x \in RetiredOf(r) <=> x \in RetiredOf(t) \/ x = c
             /\ LiveRef(r, x) =>
                  /\ ParentOf(r, x.dom, x.slot) =
                       LET p == IF x = n THEN ParentOf(t, c.dom, c.slot)
                                         ELSE ParentOf(t, x.dom, x.slot)
                       IN IF p = c THEN n ELSE p
                  /\ EntryOf(r, x).kind = IF x = n THEN EntryOf(t, c).kind ELSE EntryOf(t, x).kind
  <2>1. /\ x.dom \in Domains /\ x.slot \in Slots /\ SlotOf(x) = <<x.dom, x.slot>>
        /\ x = c <=> SlotOf(x) = SlotOf(c) /\ x.gen = c.gen
        /\ x = n <=> SlotOf(x) = SlotOf(n) /\ x.gen = n.gen
    BY <1>1, RefParts
  <2>2. CASE SlotOf(x) = SlotOf(c)
    <3>1. x.dom = c.dom /\ x.slot = c.slot
      BY <2>2 DEF SlotOf
    <3>2. LiveRef(t, x) <=> x = c
      BY <1>1, <2>1, <2>2, <3>1 DEF LiveRef, LiveCap
    <3>3. /\ ~LiveRef(r, x)
          /\ x \in RetiredOf(r) <=> x \in RetiredOf(t) \/ LiveRef(t, x)
      BY <1>1, <3>1, EmptiedRef
    <3>4. x # n
      BY <1>1, <2>1, <2>2
    <3> QED BY <3>2, <3>3, <3>4
  <2>3. CASE SlotOf(x) = SlotOf(n)
    <3>1. /\ LiveRef(r, x) <=> x = n
          /\ ~LiveRef(t, x)
          /\ EntryOf(r, x).kind = EntryOf(t, c).kind
          /\ x \in RetiredOf(r) <=> x \in RetiredOf(t)
      <4>1. PICK k : k = EntryOf(t, c).kind
        OBVIOUS
      <4>2. /\ n \in CapRefs /\ t.slotGen[n.dom][n.slot] = n.gen
            /\ Fills(t, r, n.dom, n.slot, k)
        BY <1>1, <4>1
      <4>3. /\ LiveRef(r, x) <=> x = n
            /\ ~LiveRef(t, x)
            /\ EntryOf(r, x).kind = k
            /\ x \in RetiredOf(r) <=> x \in RetiredOf(t)
        BY <2>3, <4>2, FilledRef
      <4> QED BY <4>1, <4>3
    <3>2. x # c
      BY <1>1, <2>1, <2>3
    <3>3. ParentOf(r, x.dom, x.slot) =
            IF ParentOf(t, c.dom, c.slot) = c THEN n ELSE ParentOf(t, c.dom, c.slot)
      BY <1>1, <2>1, <2>3 DEF Transfers
    <3> QED BY <3>1, <3>2, <3>3
  <2>4. CASE SlotOf(x) # SlotOf(c) /\ SlotOf(x) # SlotOf(n)
    <3>1. Keeps(t, r, x.dom, x.slot)
      BY <2>1, <2>4 DEF Transfers
    <3>2. ParentOf(r, x.dom, x.slot) =
            IF ParentOf(t, x.dom, x.slot) = c THEN n ELSE ParentOf(t, x.dom, x.slot)
      BY <2>1, <2>4 DEF Transfers
    <3> QED BY <2>1, <2>4, <3>1, <3>2, KeptRef
  <2> QED BY <2>2, <2>3, <2>4
<1>3. ~LiveRef(t, n) /\ n \notin RetiredOf(t)
  BY <1>1, NewRef DEF Fills
<1>4. LiveOf(r) = (LiveOf(t) \ {c}) \union {n}
  BY <1>1, <1>2 DEF LiveOf
<1>5. RetiredOf(r) = RetiredOf(t) \union {c}
  BY <1>1, <1>2 DEF RetiredOf
<1> QED BY <1>1, <1>2, <1>3, <1>4, <1>5 DEF LiveOf

\* The marked slots hold the descendants: x is marked exactly if every set of
\* live references that holds x and its members' parents holds the root too.
LEMMA MarkedIsBelow ==
  ASSUME NEW t \in Tables, Rooted(t), NEW c \in LiveOf(t), NEW x \in LiveOf(t)
  PROVE  SlotOf(x) \in Marks(t, c) <=>
           /\ x # c
           /\ \A up \in SUBSET LiveOf(t) :
                /\ x \in up
                /\ \A y \in up : ParentOf(t, y.dom, y.slot) # None => ParentOf(t, y.dom, y.slot) \in up
                => c \in up
<1>1. ASSUME NEW y \in LiveOf(t)
      PROVE  /\ y \in CapRefs /\ y.dom \in Domains /\ y.slot \in Slots
             /\ SlotOf(y) = <<y.dom, y.slot>> /\ SlotOf(y) \in AllSlots
             /\ t.slotGen[y.dom][y.slot] = y.gen
             /\ LET p == ParentOf(t, y.dom, y.slot)
                IN p # None => p \in LiveOf(t)
             /\ \A z \in LiveOf(t) : SlotOf(z) = SlotOf(y) => z = y
  <2>1. /\ y \in CapRefs /\ y.dom \in Domains /\ y.slot \in Slots
        /\ SlotOf(y) = <<y.dom, y.slot>> /\ LiveRef(t, y)
    BY RefParts DEF LiveOf
  <2>2. ParentOf(t, y.dom, y.slot) # None => ParentOf(t, y.dom, y.slot) \in LiveOf(t)
    BY <2>1, ParentIsThere DEF LiveOf
  <2>3. \A z \in LiveOf(t) : SlotOf(z) = SlotOf(y) => z = y
    BY <2>1, RefParts DEF LiveOf, LiveRef, LiveCap, SlotOf
  <2> QED BY <2>1, <2>2, <2>3 DEF AllSlots, LiveRef, LiveCap
<1>2. ASSUME SlotOf(x) \in Marks(t, c),
             NEW up \in SUBSET LiveOf(t), x \in up, c \notin up,
             \A y \in up : ParentOf(t, y.dom, y.slot) # None => ParentOf(t, y.dom, y.slot) \in up
      PROVE  FALSE
  <2> DEFINE m == {ds \in AllSlots : ~\E y \in up : SlotOf(y) = ds}
  <2>1. ASSUME NEW ds \in MarkStep(t, c, m) PROVE ds \in m
    <3>1. SUFFICES ASSUME ds \notin m PROVE FALSE
      OBVIOUS
    <3> DEFINE p == ParentOf(t, ds[1], ds[2])
    <3>2. /\ ds \in AllSlots /\ p # None
          /\ p = c \/ <<p.dom, p.slot>> \in m
      BY <2>1, <3>1 DEF MarkStep
    <3>3. PICK y \in up : SlotOf(y) = ds
      BY <3>1, <3>2
    <3>4. ds[1] = y.dom /\ ds[2] = y.slot
      BY <3>3 DEF SlotOf
    <3>5. p \in up
      BY <1>2, <3>2, <3>4
    <3>6. SlotOf(p) \notin m
      BY <3>5
    <3> QED BY <1>2, <3>2, <3>5, <3>6 DEF SlotOf
  <2>2. m \in SUBSET AllSlots
    OBVIOUS
  <2>3. SlotOf(x) \notin m
    BY <1>2
  <2> HIDE DEF m
  <2>4. Marks(t, c) \subseteq m
    BY <2>1, <2>2, MarksLeast
  <2> QED BY <1>2, <2>3, <2>4
<1>3. ASSUME SlotOf(x) \notin Marks(t, c), x # c,
             \A up \in SUBSET LiveOf(t) :
                /\ x \in up
                /\ \A y \in up : ParentOf(t, y.dom, y.slot) # None => ParentOf(t, y.dom, y.slot) \in up
                => c \in up
      PROVE  FALSE
  <2> DEFINE up == {y \in LiveOf(t) : y # c /\ SlotOf(y) \notin Marks(t, c)}
  <2>1. ASSUME NEW y \in up, ParentOf(t, y.dom, y.slot) # None
        PROVE  ParentOf(t, y.dom, y.slot) \in up
    <3>1. y \in LiveOf(t) /\ <<y.dom, y.slot>> \notin Marks(t, c)
      BY <1>1
    <3>2. /\ SlotOf(ParentOf(t, y.dom, y.slot)) \notin Marks(t, c)
          /\ ParentOf(t, y.dom, y.slot) # c
      BY <1>1, <2>1, <3>1, UnmarkedParent
    <3> QED BY <1>1, <2>1, <3>1, <3>2
  <2>2. up \in SUBSET LiveOf(t) /\ x \in up /\ c \notin up
    BY <1>3
  <2> HIDE DEF up
  <2> QED BY <1>3, <2>1, <2>2
<1>4. SlotOf(x) \in Marks(t, c) => x # c
  BY <1>1, RootUnmarked
<1> QED BY <1>2, <1>3, <1>4

--------------------------------------------------------------------------------
(***************************************************************************)
(* Authority: what the cycles of the kernel keep.                          *)
(***************************************************************************)
\* The kinds that lie within a root of the manifest.
Allowed == {k \in Kinds : Confined(k)}

TablesOK(t) == t \in Tables /\ KindsIn(t, Allowed)

RegionFiles == [Domains -> [Regions -> RegionRecs \union {None}]]

\* The cached authority rg, job is what the tables t still grant: RegionsBacked
\* and MoverBacked, of any tables.
RegionsFit(t, rg) ==
  \A d \in Domains, r \in Regions :
    rg[d][r] # None =>
      /\ rg[d][r].backing.dom = d
      /\ LiveRef(t, rg[d][r].backing)
      /\ EntryOf(t, rg[d][r].backing).kind =
           [cls |-> "mem", base |-> rg[d][r].base, len |-> rg[d][r].len,
            perms |-> rg[d][r].perms]

JobFits(t, job) ==
  job # None =>
    /\ job.src.dom = job.owner /\ job.dst.dom = job.owner
    /\ \A i \in 0 .. job.remaining - 1 :
         /\ MoverCheck(t, job.src, job.srcCur + i, {"r"})
         /\ MoverCheck(t, job.dst, job.dstCur + i, {"w"})

CacheOK(t, rg, job) ==
  /\ rg \in RegionFiles /\ RegionsFit(t, rg)
  /\ job \in Jobs \union {None} /\ JobFits(t, job)

AuthorityOK == TablesOK(tab) /\ CacheOK(tab, regions, mover)

\* A reference alive before an instruction and after it names the same kind:
\* what makes it enough to sweep by liveness alone.
KindsStable(t) ==
  \A d \in Domains, s \in Slots :
    /\ tab.caps[d][s] # None /\ t.caps[d][s] # None
    /\ t.slotGen[d][s] = tab.slotGen[d][s]
    => t.caps[d][s].kind = tab.caps[d][s].kind

GatesOK ==
  /\ run \in [Domains -> {"running", "blocked", "halted"}]
  /\ serving \in [Domains -> Gates \union {None}]
  /\ act \in [Gates -> Activations \union {None}]

IInv == AuthorityOK /\ GatesOK

-----------------------------------------------------------------------------

\* A narrowed confined kind is a confined kind.
LEMMA NarrowStaysConfined ==
  ASSUME NEW k \in Allowed, k \in MemKinds, NEW n \in Narrowings, CanNarrow(k, n)
  PROVE  Narrow(k, n) \in Allowed
<1>1. /\ n.off \in Addrs /\ n.len \in 0 .. MemWords /\ n.perms \in Perms
      /\ k.cls = "mem" /\ k.base \in Addrs /\ k.len \in 0 .. MemWords
      /\ MemWords \in Nat
  BY NarrowingsAssumption, SizesAssumption DEF MemKinds
<1>2. /\ n.off + n.len <= k.len /\ k.base + n.off < MemWords
      /\ n.perms \subseteq k.perms /\ WX(n.perms)
  BY DEF CanNarrow
<1> DEFINE new == Narrow(k, n)
<1>3. /\ new.cls = "mem" /\ new.base = k.base + n.off
      /\ new.len = n.len /\ new.perms = n.perms
  BY DEF Narrow
<1>4. new \in MemKinds
  BY <1>1, <1>2 DEF MemKinds, Narrow, Addrs
<1>5. PICK d \in Domains, s \in Slots : InitCaps[d][s] # None /\ Within(k, InitCaps[d][s])
  BY DEF Allowed, Confined
<1>6. /\ InitCaps[d][s] \in MemKinds
      /\ InitCaps[d][s].base \in Nat /\ InitCaps[d][s].len \in Nat
  BY <1>1, <1>5, ManifestAssumption, SizesAssumption
     DEF Within, Kinds, MemKinds, GateKinds, Addrs
<1>7. /\ InitCaps[d][s].base <= k.base
      /\ k.base + k.len <= InitCaps[d][s].base + InitCaps[d][s].len
      /\ k.perms \subseteq InitCaps[d][s].perms
      /\ InitCaps[d][s].cls = "mem"
  BY <1>1, <1>5 DEF Within
<1> HIDE DEF new
<1>8. /\ InitCaps[d][s].base <= new.base
      /\ new.base + new.len <= InitCaps[d][s].base + InitCaps[d][s].len
  BY <1>1, <1>2, <1>3, <1>6, <1>7 DEF Addrs
<1>9. new.perms \subseteq InitCaps[d][s].perms
  BY <1>2, <1>3, <1>7
<1>10. Within(new, InitCaps[d][s])
  BY <1>3, <1>7, <1>8, <1>9 DEF Within
<1>11. Confined(new)
  BY <1>2, <1>3, <1>5, <1>10 DEF Confined
<1> QED BY <1>4, <1>11 DEF Allowed, Kinds, new

\* What a live handle gives: a reference and a confined kind of its class.
LEMMA LiveHandle ==
  ASSUME TablesOK(tab), NEW d \in Domains, NEW h \in Handles, CapLive(d, h)
  PROVE  /\ HandleRef(d, h) \in CapRefs
         /\ h.slot \in Slots
         /\ KindOf(d, h) \in Allowed
         /\ h.cls = "mem" => KindOf(d, h) \in MemKinds
         /\ h.cls = "gate" => KindOf(d, h) \in GateKinds
<1>1. h.slot \in Slots /\ tab.caps[d][h.slot] # None /\ tab.slotGen[d][h.slot] = h.gen
  BY DEF CapLive, LiveCap, Handles
<1>2. h.gen \in Gens
  BY <1>1, TableParts DEF TablesOK
<1>3. HandleRef(d, h) \in CapRefs
  BY <1>1, <1>2 DEF HandleRef, CapRefs
<1>4. KindOf(d, h) \in Allowed /\ KindOf(d, h).cls = h.cls
  BY <1>1 DEF TablesOK, KindsIn, KindOf, CapLive
<1>5. KindOf(d, h) \in MemKinds \union GateKinds
  BY <1>4 DEF Allowed, Kinds
<1> QED BY <1>1, <1>3, <1>4, <1>5 DEF MemKinds, GateKinds

\* A confined memory kind ends within memory.
LEMMA AllowedFits ==
  ASSUME NEW k \in Allowed, k.cls = "mem"
  PROVE  k \in MemKinds /\ k.base + k.len <= MemWords
<1>1. k \in MemKinds
  BY DEF Allowed, Kinds, GateKinds
<1>2. PICK d \in Domains, s \in Slots : InitCaps[d][s] # None /\ Within(k, InitCaps[d][s])
  BY DEF Allowed, Confined
<1> DEFINE root == InitCaps[d][s]
<1>3. root \in Kinds /\ root.cls = "mem" /\ k.base + k.len <= root.base + root.len
  BY <1>2, ManifestAssumption DEF Within
<1>4. root \in MemKinds
  BY <1>3 DEF Kinds, GateKinds
<1>5. root.base + root.len <= MemWords
  BY <1>4, ManifestAssumption
<1>6. /\ root.base \in Nat /\ root.len \in Nat /\ k.base \in Nat /\ k.len \in Nat
      /\ MemWords \in Nat
  BY <1>1, <1>4, SizesAssumption DEF MemKinds, Addrs
<1> HIDE DEF root
<1>7. k.base + k.len <= MemWords
  BY <1>3, <1>5, <1>6
<1> QED BY <1>1, <1>7

\* A word the Mover may touch is a word of memory.
LEMMA MoverCheckFits ==
  ASSUME NEW t, TablesOK(t), NEW ref \in CapRefs, NEW a \in Nat, NEW need,
         MoverCheck(t, ref, a, need)
  PROVE  a < MemWords
<1> DEFINE k == EntryOf(t, ref).kind
<1>1. ref.dom \in Domains /\ ref.slot \in Slots
  BY DEF CapRefs
<1>2. k \in Allowed /\ k.cls = "mem" /\ k.base <= a /\ a < k.base + k.len
  BY <1>1 DEF MoverCheck, LiveRef, LiveCap, EntryOf, Covers, TablesOK, KindsIn
<1>3. k \in MemKinds /\ k.base + k.len <= MemWords
  BY <1>2, AllowedFits
<1>4. k.base \in Nat /\ k.len \in Nat /\ MemWords \in Nat
  BY <1>3, SizesAssumption DEF MemKinds, Addrs
<1> HIDE DEF k
<1> QED BY <1>2, <1>3, <1>4

\* The Mover phase leaves a job that fits, one word shorter, or none.
LEMMA MoverPhaseOK ==
  ASSUME NEW t, TablesOK(t), NEW job \in Jobs \union {None}, JobFits(t, job)
  PROVE  MoverPhase(t, job) \in Jobs \union {None} /\ JobFits(t, MoverPhase(t, job))
<1>1. CASE job = None \/ job.remaining <= 1 \/ ~MoverMayCopy(t, job)
  BY <1>1 DEF MoverPhase, JobFits
<1>2. CASE ~(job = None \/ job.remaining <= 1 \/ ~MoverMayCopy(t, job))
  <2> DEFINE new == MoverPhase(t, job)
             sc == (job.srcCur + 1) % MemWords
             dc == (job.dstCur + 1) % MemWords
             n == job.remaining - 1
  <2>1. /\ job # None /\ job \in Jobs /\ job.remaining \in Nat /\ job.remaining > 1
        /\ job.srcCur \in Nat /\ job.dstCur \in Nat
        /\ job.src \in CapRefs /\ job.dst \in CapRefs
        /\ MemWords \in Nat \ {0}
    BY <1>2, SizesAssumption DEF Jobs, Addrs
  <2>2. sc \in Addrs /\ dc \in Addrs /\ n \in 0 .. MemWords
    BY <2>1, SizesAssumption DEF Jobs, Addrs
  <2>3. new = [job EXCEPT !.srcCur = sc, !.dstCur = dc, !.remaining = n]
    BY <1>2, <2>1 DEF MoverPhase, Jobs
  <2>4. \A i \in 0 .. job.remaining - 1 :
          /\ MoverCheck(t, job.src, job.srcCur + i, {"r"})
          /\ MoverCheck(t, job.dst, job.dstCur + i, {"w"})
    BY <2>1 DEF JobFits
  <2>5. /\ MoverCheck(t, job.src, job.srcCur + 1, {"r"})
        /\ MoverCheck(t, job.dst, job.dstCur + 1, {"w"})
    BY <2>1, <2>4
  <2>6. job.srcCur + 1 < MemWords /\ job.dstCur + 1 < MemWords
    BY <2>1, <2>5, MoverCheckFits
  <2>7. sc = job.srcCur + 1 /\ dc = job.dstCur + 1
    BY <2>1, <2>6
  <2> HIDE DEF sc, dc, n, new
  <2>8. /\ new \in Jobs /\ new.srcCur = sc /\ new.dstCur = dc /\ new.remaining = n
        /\ new.src = job.src /\ new.dst = job.dst /\ new.owner = job.owner
    BY <2>1, <2>2, <2>3 DEF Jobs
  <2>9. ASSUME NEW i \in 0 .. new.remaining - 1
        PROVE  /\ MoverCheck(t, new.src, new.srcCur + i, {"r"})
               /\ MoverCheck(t, new.dst, new.dstCur + i, {"w"})
    <3>1. /\ i + 1 \in 0 .. job.remaining - 1
          /\ new.srcCur + i = job.srcCur + (i + 1)
          /\ new.dstCur + i = job.dstCur + (i + 1)
      BY <2>1, <2>7, <2>8 DEF n
    <3> QED BY <2>4, <2>8, <3>1
  <2>10. job.src.dom = job.owner /\ job.dst.dom = job.owner
    BY <2>1 DEF JobFits
  <2>11. JobFits(t, new)
    BY <2>8, <2>9, <2>10 DEF JobFits
  <2> QED BY <2>8, <2>11 DEF new
<1> QED BY <1>1, <1>2

\* A cycle that leaves good tables, and cached authority that fits them, is good.
LEMMA FinishCycleOK ==
  ASSUME NEW t, TablesOK(t), NEW rg, NEW job, CacheOK(t, rg, job),
         FinishCycle(t, rg, job)
  PROVE  AuthorityOK'
<1> DEFINE job2 == MoverPhase(t, job)
<1>1. tab' = t /\ regions' = rg /\ mover' = job2
  BY DEF FinishCycle
<1>2. job2 \in Jobs \union {None} /\ JobFits(t, job2)
  BY MoverPhaseOK DEF CacheOK
<1> HIDE DEF job2
<1>3. TablesOK(tab)'
  BY <1>1 DEF TablesOK, KindsIn
<1>4. CacheOK(tab, regions, mover)'
  BY <1>1, <1>2 DEF CacheOK, RegionsFit, JobFits, MoverCheck, LiveRef, LiveCap, EntryOf, Covers
<1> QED BY <1>3, <1>4 DEF AuthorityOK

\* The same for an instruction that sweeps, when it leaves kinds stable.
LEMMA FinishSweptOK ==
  ASSUME AuthorityOK, NEW t, TablesOK(t), KindsStable(t), FinishSwept(t)
  PROVE  AuthorityOK'
<1> DEFINE rg == SweepRegions(t, regions)
           job == SweepMover(t, mover)
<1>1. /\ regions \in RegionFiles /\ mover \in Jobs \union {None}
      /\ RegionsFit(tab, regions) /\ JobFits(tab, mover)
  BY DEF AuthorityOK, CacheOK
<1>2. ASSUME NEW ref \in CapRefs, LiveRef(tab, ref), LiveRef(t, ref)
      PROVE  EntryOf(t, ref).kind = EntryOf(tab, ref).kind
  BY <1>2 DEF LiveRef, LiveCap, EntryOf, KindsStable, CapRefs
<1>3. rg \in RegionFiles
  BY <1>1 DEF SweepRegions, RegionFiles
<1>4. RegionsFit(t, rg)
  <2> SUFFICES ASSUME NEW d \in Domains, NEW r \in Regions, rg[d][r] # None
               PROVE  /\ rg[d][r].backing.dom = d
                      /\ LiveRef(t, rg[d][r].backing)
                      /\ EntryOf(t, rg[d][r].backing).kind =
                           [cls |-> "mem", base |-> rg[d][r].base, len |-> rg[d][r].len,
                            perms |-> rg[d][r].perms]
    BY DEF RegionsFit
  <2>1. rg[d][r] = regions[d][r] /\ LiveRef(t, regions[d][r].backing)
    BY DEF SweepRegions
  <2>2. regions[d][r].backing \in CapRefs
    BY <1>1, <2>1 DEF RegionFiles, RegionRecs
  <2> HIDE DEF rg
  <2> QED BY <1>1, <1>2, <2>1, <2>2 DEF RegionsFit
<1>5. job \in Jobs \union {None}
  BY <1>1 DEF SweepMover
<1>6. JobFits(t, job)
  <2> SUFFICES ASSUME job # None PROVE JobFits(t, job)
    BY DEF JobFits
  <2>1. job = mover /\ mover # None /\ LiveRef(t, mover.src) /\ LiveRef(t, mover.dst)
    BY DEF SweepMover
  <2>2. mover.src \in CapRefs /\ mover.dst \in CapRefs
    BY <1>1, <2>1 DEF Jobs
  <2> HIDE DEF job
  <2> QED BY <1>1, <1>2, <2>1, <2>2 DEF JobFits, MoverCheck
<1>7. FinishCycle(t, rg, job)
  BY DEF FinishSwept
<1> HIDE DEF rg, job
<1> QED BY <1>3, <1>4, <1>5, <1>6, <1>7, FinishCycleOK DEF CacheOK

\* Nothing has to be swept when every capability stays as it was.
LEMMA FinishUnsweptOK ==
  ASSUME AuthorityOK, NEW t, TablesOK(t), FinishCycle(t, regions, mover),
         \A e \in Domains, q \in Slots :
           tab.caps[e][q] # None =>
             t.caps[e][q] = tab.caps[e][q] /\ t.slotGen[e][q] = tab.slotGen[e][q]
  PROVE  AuthorityOK'
<1>1. /\ regions \in RegionFiles /\ mover \in Jobs \union {None}
      /\ RegionsFit(tab, regions) /\ JobFits(tab, mover)
  BY DEF AuthorityOK, CacheOK
<1>2. ASSUME NEW ref \in CapRefs, LiveRef(tab, ref)
      PROVE  LiveRef(t, ref) /\ EntryOf(t, ref).kind = EntryOf(tab, ref).kind
  BY <1>2 DEF LiveRef, LiveCap, EntryOf, CapRefs
<1>3. RegionsFit(t, regions)
  <2> SUFFICES ASSUME NEW d \in Domains, NEW r \in Regions, regions[d][r] # None
               PROVE  /\ regions[d][r].backing.dom = d
                      /\ LiveRef(t, regions[d][r].backing)
                      /\ EntryOf(t, regions[d][r].backing).kind =
                           [cls |-> "mem", base |-> regions[d][r].base,
                            len |-> regions[d][r].len, perms |-> regions[d][r].perms]
    BY DEF RegionsFit
  <2>1. regions[d][r].backing \in CapRefs
    BY <1>1 DEF RegionFiles, RegionRecs
  <2> QED BY <1>1, <1>2, <2>1 DEF RegionsFit
<1>4. JobFits(t, mover)
  <2> SUFFICES ASSUME mover # None PROVE JobFits(t, mover)
    BY DEF JobFits
  <2>1. mover.src \in CapRefs /\ mover.dst \in CapRefs
    BY <1>1 DEF Jobs
  <2> QED BY <1>1, <1>2, <2>1 DEF JobFits, MoverCheck
<1> QED BY <1>1, <1>3, <1>4, FinishCycleOK DEF CacheOK

\* Deriving a confined kind keeps the tables good.
LEMMA InstallOK ==
  ASSUME AuthorityOK, NEW owner \in Domains, NEW kind \in Allowed, NEW parent \in CapRefs,
         Install(owner, kind, parent)
  PROVE  AuthorityOK'
<1> DEFINE s == FreeSlot(tab, owner)
           l == FreeCell(tab, owner)
           r == InstallDerived(tab, owner, s, l, kind, parent)
<1>1. s \in Slots /\ l \in LineageCells /\ tab.caps[owner][s] = None
  BY FreeSlotIsFree, FreeCellIsFree DEF Install
<1>2. FinishCycle(r, regions, mover)
  BY DEF Install
<1>3. kind \in Kinds /\ tab \in Tables /\ KindsIn(tab, Allowed)
  BY DEF Allowed, AuthorityOK, TablesOK
<1> HIDE DEF s, l
<1>4. /\ r \in Tables /\ r.slotGen = tab.slotGen
      /\ \A e \in Domains, q \in Slots :
           r.caps[e][q] =
             IF e = owner /\ q = s THEN [kind |-> kind, lineage |-> l] ELSE tab.caps[e][q]
  <2>1. PICK u \in Tables : u = tab
    BY <1>3
  <2>2. LET v == InstallDerived(u, owner, s, l, kind, parent)
        IN /\ v \in Tables /\ v.slotGen = u.slotGen
           /\ \A e \in Domains, q \in Slots :
                v.caps[e][q] =
                  IF e = owner /\ q = s THEN [kind |-> kind, lineage |-> l]
                                        ELSE u.caps[e][q]
    BY <1>1, <1>3, InstallFacts
  <2> QED BY <2>1, <2>2
<1> HIDE DEF r
<1>5. KindsIn(r, Allowed)
  BY <1>3, <1>4 DEF KindsIn
<1>6. TablesOK(r)
  BY <1>4, <1>5 DEF TablesOK
<1>7. \A e \in Domains, q \in Slots :
        tab.caps[e][q] # None =>
          r.caps[e][q] = tab.caps[e][q] /\ r.slotGen[e][q] = tab.slotGen[e][q]
  BY <1>1, <1>4
<1> QED BY <1>2, <1>6, <1>7, FinishUnsweptOK

\* A transfer by handle keeps the tables good, the null handle included.
LEMMA TransferByHandleOK ==
  ASSUME AuthorityOK, NEW d \in Domains, NEW to \in Domains,
         NEW h \in Handles \union {None}, TransferByHandle(d, to, h)
  PROVE  AuthorityOK'
<1>1. CASE h = None /\ FinishCycle(tab, regions, mover)
  BY <1>1, FinishCycleOK DEF AuthorityOK
<1>2. CASE /\ h # None /\ CapLive(d, h) /\ CanTransfer(tab, d, h.slot, to)
           /\ FinishSwept(TransferCap(tab, d, h.slot, to))
  <2> DEFINE r == TransferCap(tab, d, h.slot, to)
             s2 == FreeSlot(tab, to)
  <2>1. /\ h \in Handles /\ h.slot \in Slots
        /\ tab \in Tables /\ KindsIn(tab, Allowed)
        /\ tab.caps[d][h.slot] # None
    BY <1>2 DEF Handles, AuthorityOK, TablesOK, CanTransfer
  <2>2. /\ r \in Tables /\ s2 \in Slots
        /\ r.caps[to][s2].kind = tab.caps[d][h.slot].kind
        /\ tab.caps[to][s2] = None
        /\ \A e \in Domains, q \in Slots :
             ~(e = to /\ q = s2) =>
               r.caps[e][q] = IF e = d /\ q = h.slot THEN None ELSE tab.caps[e][q]
    <3>1. PICK u \in Tables, q1 \in Slots : u = tab /\ q1 = h.slot
      BY <2>1
    <3>2. LET v == TransferCap(u, d, q1, to)
              q2 == FreeSlot(u, to)
          IN /\ v \in Tables /\ q2 \in Slots
             /\ v.caps[to][q2].kind = u.caps[d][q1].kind
             /\ u.caps[to][q2] = None
             /\ \A e \in Domains, q \in Slots :
                  ~(e = to /\ q = q2) =>
                    v.caps[e][q] = IF e = d /\ q = q1 THEN None ELSE u.caps[e][q]
      BY <1>2, <3>1, TransferFacts
    <3> QED BY <3>1, <3>2
  <2> HIDE DEF r, s2
  <2>3. KindsIn(r, Allowed)
    BY <2>1, <2>2 DEF KindsIn
  <2>4. TablesOK(r)
    BY <2>2, <2>3 DEF TablesOK
  <2>5. KindsStable(r)
    BY <2>2 DEF KindsStable
  <2> QED BY <1>2, <2>4, <2>5, FinishSweptOK DEF r
<1> QED BY <1>1, <1>2 DEF TransferByHandle

-----------------------------------------------------------------------------

\* cap_dup keeps tables and cached authority good.
LEMMA CapDupOK ==
  ASSUME AuthorityOK, NEW d \in Domains, NEW h \in Handles, CapDup(d, h)
  PROVE  AuthorityOK'
<1>1. CapLive(d, h) /\ TablesOK(tab)
  BY DEF CapDup, AuthorityOK
<1>2. /\ HandleRef(d, h) \in CapRefs /\ KindOf(d, h) \in Allowed
      /\ h.cls = "mem" => KindOf(d, h) \in MemKinds
  BY <1>1, LiveHandle
<1>3. CASE h.cls = "gate" /\ Install(d, KindOf(d, h), HandleRef(d, h))
  BY <1>2, <1>3, InstallOK
<1>4. ASSUME h.cls = "mem", NEW n \in Narrowings, CanNarrow(KindOf(d, h), n),
             Install(d, Narrow(KindOf(d, h), n), HandleRef(d, h))
      PROVE  AuthorityOK'
  <2>1. Narrow(KindOf(d, h), n) \in Allowed
    BY <1>2, <1>4, NarrowStaysConfined
  <2> QED BY <1>2, <1>4, <2>1, InstallOK
<1> QED BY <1>3, <1>4 DEF CapDup

\* mem_grant does, for the domain it grants to.
LEMMA MemGrantOK ==
  ASSUME AuthorityOK, NEW d \in Domains, NEW h \in Handles, NEW to \in Domains,
         MemGrant(d, h, to)
  PROVE  AuthorityOK'
<1>1. CapLive(d, h) /\ h.cls = "mem" /\ TablesOK(tab)
  BY DEF MemGrant, MemLive, AuthorityOK
<1>2. /\ HandleRef(d, h) \in CapRefs /\ KindOf(d, h) \in Allowed
      /\ KindOf(d, h) \in MemKinds
  BY <1>1, LiveHandle
<1>3. PICK n \in Narrowings : /\ CanNarrow(KindOf(d, h), n)
                              /\ Install(to, Narrow(KindOf(d, h), n), HandleRef(d, h))
  BY DEF MemGrant
<1>4. Narrow(KindOf(d, h), n) \in Allowed
  BY <1>2, <1>3, NarrowStaysConfined
<1> QED BY <1>2, <1>3, <1>4, InstallOK

\* cap_drop does: it splices or orphans the children, then clears the slot.
LEMMA CapDropOK ==
  ASSUME AuthorityOK, NEW d \in Domains, NEW h \in Handles, CapDrop(d, h)
  PROVE  AuthorityOK'
<1> DEFINE ref == HandleRef(d, h)
           p == ParentOf(tab, d, h.slot)
           spliced == IF p = None THEN OrphanChildren(tab, ref)
                                  ELSE Reparent(tab, ref, p)
           r == ClearSlot(spliced, d, h.slot)
<1>1. CapLive(d, h) /\ TablesOK(tab) /\ FinishSwept(r)
  BY DEF CapDrop, AuthorityOK
<1>2. h.slot \in Slots
  BY DEF Handles
<1>3. tab \in Tables /\ KindsIn(tab, Allowed)
  BY <1>1 DEF TablesOK
<1>4. PICK t \in Tables : t = tab
  BY <1>3
<1>5. p \in CapRefs \union {None}
  BY <1>2, <1>4, ParentType
<1> HIDE DEF ref, p
<1>6. /\ spliced \in Tables /\ KindsIn(spliced, Allowed)
      /\ \A e \in Domains, q \in Slots :
           /\ spliced.caps[e][q] # None <=> tab.caps[e][q] # None
           /\ tab.caps[e][q] # None => spliced.caps[e][q].kind = tab.caps[e][q].kind
  <2>1. CASE p = None
    <3> DEFINE u == OrphanChildren(t, ref)
    <3>1. /\ u \in Tables
          /\ \A e \in Domains, q \in Slots :
               /\ u.caps[e][q] = None <=> t.caps[e][q] = None
               /\ t.caps[e][q] # None => u.caps[e][q].kind = t.caps[e][q].kind
      BY OrphanFacts
    <3>2. spliced = u
      BY <1>4, <2>1
    <3> HIDE DEF u, spliced
    <3>3. KindsIn(u, Allowed)
      BY <1>3, <1>4, <3>1 DEF KindsIn
    <3> QED BY <1>4, <3>1, <3>2, <3>3
  <2>2. CASE p # None
    <3> DEFINE u == Reparent(t, ref, p)
    <3>1. p \in CapRefs
      BY <1>5, <2>2
    <3>2. u \in Tables /\ u.caps = t.caps
      BY <3>1, ReparentFacts
    <3>3. spliced = u
      BY <1>4, <2>2
    <3> HIDE DEF u, spliced
    <3>4. KindsIn(u, Allowed)
      BY <1>3, <1>4, <3>2 DEF KindsIn
    <3> QED BY <1>4, <3>2, <3>3, <3>4
  <2> QED BY <2>1, <2>2
<1> HIDE DEF spliced
<1>7. PICK t2 \in Tables, s \in Slots : t2 = spliced /\ s = h.slot
  BY <1>2, <1>6
<1>8. LET v == ClearSlot(t2, d, s)
      IN /\ v \in Tables
         /\ \A e \in Domains, q \in Slots :
              v.caps[e][q] = IF e = d /\ q = s THEN None ELSE t2.caps[e][q]
  BY ClearFacts
<1>9. /\ r \in Tables
      /\ \A e \in Domains, q \in Slots :
           r.caps[e][q] = IF e = d /\ q = s THEN None ELSE spliced.caps[e][q]
  BY <1>7, <1>8
<1> HIDE DEF r
<1>10. TablesOK(r)
  BY <1>6, <1>9 DEF TablesOK, KindsIn
<1>11. KindsStable(r)
  BY <1>6, <1>9 DEF KindsStable
<1> QED BY <1>1, <1>10, <1>11, FinishSweptOK

\* cap_revoke does, whatever set of slots was marked.
LEMMA CapRevokeOK ==
  ASSUME AuthorityOK, NEW d \in Domains, NEW h \in Handles, CapRevoke(d, h)
  PROVE  AuthorityOK'
<1> DEFINE m == Marks(tab, HandleRef(d, h))
           r == DestroyMarked(tab, m)
<1>1. FinishSwept(r) /\ tab \in Tables /\ KindsIn(tab, Allowed)
  BY DEF CapRevoke, AuthorityOK, TablesOK
<1> HIDE DEF m
<1>2. PICK t \in Tables : t = tab
  BY <1>1
<1>3. LET v == DestroyMarked(t, m)
      IN /\ v \in Tables
         /\ \A e \in Domains, q \in Slots :
              v.caps[e][q] = IF <<e, q>> \in m THEN None ELSE t.caps[e][q]
  BY DestroyFacts
<1>4. /\ r \in Tables
      /\ \A e \in Domains, q \in Slots :
           r.caps[e][q] = IF <<e, q>> \in m THEN None ELSE tab.caps[e][q]
  BY <1>2, <1>3
<1> HIDE DEF r
<1>5. TablesOK(r)
  BY <1>1, <1>4 DEF TablesOK, KindsIn
<1>6. KindsStable(r)
  BY <1>4 DEF KindsStable
<1> QED BY <1>1, <1>5, <1>6, FinishSweptOK

\* map does: the register mirrors the live capability it was loaded from.
LEMMA MapOK ==
  ASSUME AuthorityOK, NEW d \in Domains, NEW h \in Handles, NEW r \in Regions, Map(d, h, r)
  PROVE  AuthorityOK'
<1> DEFINE k == KindOf(d, h)
           region == [base |-> k.base, len |-> k.len, perms |-> k.perms,
                      backing |-> HandleRef(d, h)]
           rg == [regions EXCEPT ![d][r] = region]
<1>1. /\ CapLive(d, h) /\ h.cls = "mem" /\ TablesOK(tab) /\ CacheOK(tab, regions, mover)
      /\ regions \in RegionFiles /\ RegionsFit(tab, regions)
  BY DEF Map, MemLive, AuthorityOK, CacheOK
<1>2. FinishCycle(tab, rg, mover)
  BY DEF Map
<1>3. HandleRef(d, h) \in CapRefs /\ k \in MemKinds
  BY <1>1, LiveHandle
<1>4. region \in RegionRecs
  BY <1>3 DEF MemKinds, RegionRecs
<1>5. /\ region.backing.dom = d
      /\ LiveRef(tab, region.backing)
      /\ EntryOf(tab, region.backing).kind =
           [cls |-> "mem", base |-> region.base, len |-> region.len,
            perms |-> region.perms]
  BY <1>1, <1>3 DEF HandleRef, LiveRef, LiveCap, EntryOf, KindOf, CapLive, MemKinds
<1> HIDE DEF region
<1>6. rg \in RegionFiles
  BY <1>1, <1>4 DEF RegionFiles
<1>7. ASSUME NEW e \in Domains, NEW q \in Regions
      PROVE  rg[e][q] = IF e = d /\ q = r THEN region ELSE regions[e][q]
  BY <1>1 DEF RegionFiles
<1> HIDE DEF rg
<1>8. RegionsFit(tab, rg)
  BY <1>1, <1>5, <1>7 DEF RegionsFit
<1> QED BY <1>1, <1>2, <1>6, <1>8, FinishCycleOK DEF CacheOK

\* unmap does.
LEMMA UnmapOK ==
  ASSUME AuthorityOK, NEW d \in Domains, NEW r \in Regions, Unmap(d, r)
  PROVE  AuthorityOK'
<1> DEFINE rg == [regions EXCEPT ![d][r] = None]
<1>1. /\ TablesOK(tab) /\ CacheOK(tab, regions, mover)
      /\ regions \in RegionFiles /\ RegionsFit(tab, regions)
  BY DEF AuthorityOK, CacheOK
<1>2. FinishCycle(tab, rg, mover)
  BY DEF Unmap
<1>3. rg \in RegionFiles
  BY <1>1 DEF RegionFiles
<1>4. ASSUME NEW e \in Domains, NEW q \in Regions
      PROVE  rg[e][q] = IF e = d /\ q = r THEN None ELSE regions[e][q]
  BY <1>1 DEF RegionFiles
<1> HIDE DEF rg
<1>5. RegionsFit(tab, rg)
  BY <1>1, <1>4 DEF RegionsFit
<1> QED BY <1>1, <1>2, <1>3, <1>5, FinishCycleOK DEF CacheOK

\* move does: the job it starts fits both capabilities.
LEMMA MoveOK ==
  ASSUME AuthorityOK, NEW d \in Domains, NEW hs \in Handles, Move(d, hs)
  PROVE  AuthorityOK'
<1>1. MemLive(d, hs) /\ TablesOK(tab) /\ CacheOK(tab, regions, mover)
  BY DEF Move, AuthorityOK
<1>2. PICK hd \in Handles, n \in 0 .. MemWords :
        /\ MemLive(d, hd)
        /\ "r" \in KindOf(d, hs).perms /\ "w" \in KindOf(d, hd).perms
        /\ Fits(KindOf(d, hs), KindOf(d, hd), n)
        /\ FinishCycle(tab, regions,
             [owner |-> d, src |-> HandleRef(d, hs), dst |-> HandleRef(d, hd),
              srcCur |-> KindOf(d, hs).base, dstCur |-> KindOf(d, hd).base,
              remaining |-> n])
  BY DEF Move
<1> DEFINE ks == KindOf(d, hs)
           kd == KindOf(d, hd)
           job == [owner |-> d, src |-> HandleRef(d, hs), dst |-> HandleRef(d, hd),
                   srcCur |-> ks.base, dstCur |-> kd.base, remaining |-> n]
<1>3. HandleRef(d, hs) \in CapRefs /\ ks \in MemKinds
  BY <1>1, LiveHandle DEF MemLive
<1>4. HandleRef(d, hd) \in CapRefs /\ kd \in MemKinds
  BY <1>1, <1>2, LiveHandle DEF MemLive
<1>5. job \in Jobs
  BY <1>3, <1>4 DEF Jobs, MemKinds
<1>6. /\ LiveRef(tab, job.src) /\ EntryOf(tab, job.src).kind = ks
      /\ LiveRef(tab, job.dst) /\ EntryOf(tab, job.dst).kind = kd
  BY <1>1, <1>2 DEF MemLive, CapLive, HandleRef, LiveRef, LiveCap, EntryOf, KindOf
<1>7. /\ ks.base \in Nat /\ ks.len \in Nat /\ ks.cls = "mem"
      /\ kd.base \in Nat /\ kd.len \in Nat /\ kd.cls = "mem"
      /\ n \in Nat /\ n <= ks.len /\ n <= kd.len
  BY <1>2, <1>3, <1>4, SizesAssumption DEF MemKinds, Addrs, Fits
<1>8. /\ job.src.dom = job.owner /\ job.dst.dom = job.owner
      /\ job.srcCur = ks.base /\ job.dstCur = kd.base /\ job.remaining = n
  BY DEF HandleRef
<1>9. FinishCycle(tab, regions, job) /\ "r" \in ks.perms /\ "w" \in kd.perms
  BY <1>2
<1> HIDE DEF job, ks, kd
<1>10. ASSUME NEW i \in 0 .. job.remaining - 1
       PROVE  /\ MoverCheck(tab, job.src, job.srcCur + i, {"r"})
              /\ MoverCheck(tab, job.dst, job.dstCur + i, {"w"})
  <2>1. /\ ks.base <= ks.base + i /\ ks.base + i < ks.base + ks.len
        /\ kd.base <= kd.base + i /\ kd.base + i < kd.base + kd.len
    BY <1>7, <1>8
  <2> QED BY <1>6, <1>7, <1>8, <1>9, <2>1 DEF MoverCheck, Covers
<1>11. JobFits(tab, job)
  BY <1>8, <1>10 DEF JobFits
<1> QED BY <1>1, <1>5, <1>9, <1>11, FinishCycleOK DEF CacheOK

-----------------------------------------------------------------------------

\* The nesting depth of a call that is allowed is within the bound.
LEMMA ChainDepthType ==
  ASSUME GatesOK, NEW d \in Domains, ChainDepth(d) <= MaxChainDepth
  PROVE  ChainDepth(d) \in 1 .. MaxChainDepth
<1>1. CASE serving[d] # None /\ act[serving[d]] # None
  <2>1. act[serving[d]] \in Activations
    BY <1>1 DEF GatesOK
  <2>2. act[serving[d]].depth \in Nat \ {0}
    BY <2>1, ChainAssumption DEF Activations
  <2> QED BY <1>1, <2>2, ChainAssumption DEF ChainDepth
<1>2. CASE ~(serving[d] # None /\ act[serving[d]] # None)
  BY <1>2, ChainAssumption DEF ChainDepth
<1> QED BY <1>1, <1>2

\* gate_call keeps the whole invariant, with the transfer it performs.
LEMMA GateCallOK ==
  ASSUME IInv, NEW d \in Domains, NEW h \in Handles, GateCall(d, h)
  PROVE  IInv'
<1>1. CapLive(d, h) /\ h.cls = "gate" /\ TablesOK(tab) /\ AuthorityOK /\ GatesOK
  BY DEF GateCall, GateLive, IInv, AuthorityOK
<1> DEFINE g == KindOf(d, h).gate
           callee == Callee[g]
           a == [caller |-> d, savedServing |-> serving[callee], depth |-> ChainDepth(d)]
<1>2. g \in Gates /\ callee \in Domains
  BY <1>1, LiveHandle, ManifestAssumption DEF GateKinds
<1>3. /\ ChainDepth(d) <= MaxChainDepth
      /\ \E arg \in Handles \union {None} : TransferByHandle(d, callee, arg)
      /\ act' = [act EXCEPT ![g] = a]
      /\ serving' = [serving EXCEPT ![callee] = g]
      /\ run' = [run EXCEPT ![d] = "blocked"]
  BY DEF GateCall
<1> HIDE DEF g, callee
<1>4. AuthorityOK'
  BY <1>1, <1>2, <1>3, TransferByHandleOK
<1>5. a \in Activations
  BY <1>1, <1>2, <1>3, ChainDepthType DEF GatesOK, Activations
<1> HIDE DEF a
<1>6. GatesOK'
  BY <1>1, <1>2, <1>3, <1>5 DEF GatesOK
<1> QED BY <1>4, <1>6 DEF IInv

\* gate_return keeps it, with the transfer it performs.
LEMMA GateReturnOK ==
  ASSUME IInv, NEW d \in Domains, GateReturn(d)
  PROVE  IInv'
<1> DEFINE a == act[serving[d]]
<1>1. /\ serving[d] # None /\ a # None
      /\ \E reply \in Handles \union {None} : TransferByHandle(d, a.caller, reply)
      /\ serving' = [serving EXCEPT ![d] = a.savedServing]
      /\ run' = [run EXCEPT ![a.caller] = "running"]
      /\ act' = [act EXCEPT ![serving[d]] = None]
      /\ AuthorityOK /\ GatesOK
  BY DEF GateReturn, IInv
<1>2. a.caller \in Domains /\ a.savedServing \in Gates \union {None}
  <2>1. a \in Activations
    BY <1>1 DEF GatesOK
  <2> QED BY <2>1 DEF Activations
<1> HIDE DEF a
<1>3. AuthorityOK'
  BY <1>1, <1>2, TransferByHandleOK
<1>4. GatesOK'
  BY <1>1, <1>2 DEF GatesOK
<1> QED BY <1>3, <1>4 DEF IInv

\* A halt keeps it, unwinding the activation the domain was serving.
LEMMA HaltDomOK ==
  ASSUME IInv, NEW d \in Domains, HaltDom(d)
  PROVE  IInv'
<1>1. AuthorityOK /\ GatesOK /\ FinishCycle(tab, regions, mover)
  BY DEF HaltDom, IInv
<1>2. AuthorityOK'
  BY <1>1, FinishCycleOK DEF AuthorityOK
<1>3. serving' = [serving EXCEPT ![d] = None]
  BY DEF HaltDom
<1>4. CASE serving[d] # None /\ act[serving[d]] # None
  <2>1. act[serving[d]] \in Activations
    BY <1>1, <1>4 DEF GatesOK
  <2>2. act[serving[d]].caller \in Domains
    BY <2>1 DEF Activations
  <2>3. GatesOK'
    BY <1>1, <1>3, <1>4, <2>2 DEF GatesOK, HaltDom
  <2> QED BY <1>2, <2>3 DEF IInv
<1>5. CASE ~(serving[d] # None /\ act[serving[d]] # None)
  <2>1. GatesOK'
    BY <1>1, <1>3, <1>5 DEF GatesOK, HaltDom
  <2> QED BY <1>2, <2>1 DEF IInv
<1> QED BY <1>4, <1>5

-----------------------------------------------------------------------------

\* The manifest puts only confined kinds in the tables at boot.
LEMMA InitOK == Init => IInv
<1> SUFFICES ASSUME Init PROVE IInv
  OBVIOUS
<1>1. \A d \in Domains, s \in Slots :
        InitCaps[d][s] # None => InitCaps[d][s] \in Allowed
  <2> SUFFICES ASSUME NEW d \in Domains, NEW s \in Slots, InitCaps[d][s] # None
               PROVE  InitCaps[d][s] \in Allowed
    OBVIOUS
  <2> DEFINE k == InitCaps[d][s]
  <2>1. k \in Kinds
    BY ManifestAssumption
  <2>2. k.cls = "mem" => WX(k.perms)
    BY <2>1, ManifestAssumption DEF Kinds, GateKinds
  <2>3. Within(k, k)
    BY <2>1, SizesAssumption DEF Within, Kinds, MemKinds, GateKinds, Addrs
  <2> QED BY <2>1, <2>2, <2>3 DEF Allowed, Confined
<1>2. TablesOK(tab)
  <2>1. tab.caps = [d \in Domains |-> [s \in Slots |->
                      IF InitCaps[d][s] = None THEN None
                      ELSE [kind |-> InitCaps[d][s], lineage |-> None]]]
    BY DEF Init
  <2>2. GenFirst \in Gens
    BY GenRetiredAssumption DEF GenFirst, Gens
  <2>3. \A d \in Domains, s \in Slots :
          InitCaps[d][s] # None => [kind |-> InitCaps[d][s], lineage |-> None] \in Entries
    BY <1>1 DEF Allowed, Entries
  <2>4. tab.caps \in [Domains -> [Slots -> Entries \union {None}]]
    BY <2>1, <2>3
  <2>5. tab \in Tables
    BY <2>2, <2>4 DEF Init, Tables
  <2>6. KindsIn(tab, Allowed)
    BY <1>1, <2>1 DEF KindsIn
  <2> QED BY <2>5, <2>6 DEF TablesOK
<1>3. regions \in RegionFiles
  <2> SUFFICES ASSUME NEW d \in Domains, NEW r \in Regions
               PROVE  BootRegion(d, r) \in RegionRecs \union {None}
    BY DEF Init, RegionFiles
  <2> DEFINE s == InitRegions[d][r]
  <2>1. s \in Slots \union {None}
    BY ManifestAssumption
  <2>2. CASE s # None /\ InitCaps[d][s] \in MemKinds
    <3>1. [dom |-> d, slot |-> s, gen |-> GenFirst] \in CapRefs
      BY <2>1, <2>2, GenRetiredAssumption DEF CapRefs, GenFirst, Gens
    <3> QED BY <2>2, <3>1 DEF BootRegion, RegionRecs, MemKinds
  <2>3. CASE ~(s # None /\ InitCaps[d][s] \in MemKinds)
    BY <2>3 DEF BootRegion
  <2> QED BY <2>2, <2>3
<1>4. RegionsFit(tab, regions)
  <2> SUFFICES ASSUME NEW d \in Domains, NEW r \in Regions, regions[d][r] # None
               PROVE  /\ regions[d][r].backing.dom = d
                      /\ LiveRef(tab, regions[d][r].backing)
                      /\ EntryOf(tab, regions[d][r].backing).kind =
                           [cls |-> "mem", base |-> regions[d][r].base,
                            len |-> regions[d][r].len, perms |-> regions[d][r].perms]
    BY DEF RegionsFit
  <2> DEFINE s == InitRegions[d][r]
             k == InitCaps[d][s]
  <2>1. regions[d][r] = BootRegion(d, r)
    BY DEF Init
  <2>2. s # None /\ s \in Slots /\ k \in MemKinds
    BY <2>1, ManifestAssumption DEF BootRegion
  <2>3. regions[d][r] = [base |-> k.base, len |-> k.len, perms |-> k.perms,
                         backing |-> [dom |-> d, slot |-> s, gen |-> GenFirst]]
    BY <2>1, <2>2 DEF BootRegion
  <2>4. tab.slotGen[d][s] = GenFirst /\ tab.caps[d][s] = [kind |-> k, lineage |-> None]
    <3>1. k # None
    BY <2>2, NoneAssumption DEF Kinds
  <3> QED BY <1>2, <2>2, <3>1 DEF Init
  <2>5. tab.caps[d][s].kind = k /\ tab.caps[d][s] # None
    BY <2>2, <2>4, NoneAssumption DEF Entries, Kinds
  <2>6. k = [cls |-> "mem", base |-> k.base, len |-> k.len, perms |-> k.perms]
    BY <2>2 DEF MemKinds
  <2> HIDE DEF s, k
  <2> QED BY <2>3, <2>4, <2>5, <2>6 DEF LiveRef, LiveCap, EntryOf
<1>5. AuthorityOK
  BY <1>2, <1>3, <1>4 DEF Init, AuthorityOK, CacheOK, JobFits
<1>6. GatesOK
  BY DEF Init, GatesOK
<1> QED BY <1>5, <1>6 DEF IInv

\* Whatever instruction retires keeps the invariant.
LEMMA RetireOK ==
  ASSUME IInv, NEW d \in Domains, Retire(d)
  PROVE  IInv'
<1>1. AuthorityOK /\ GatesOK
  BY DEF IInv
<1>2. UNCHANGED gateVars => GatesOK'
  BY <1>1 DEF gateVars, GatesOK
<1>3. ASSUME NEW h \in Handles, CapDup(d, h) PROVE IInv'
  BY <1>1, <1>2, <1>3, CapDupOK DEF CapDup, IInv
<1>4. ASSUME NEW h \in Handles, CapDrop(d, h) PROVE IInv'
  BY <1>1, <1>2, <1>4, CapDropOK DEF CapDrop, IInv
<1>5. ASSUME NEW h \in Handles, CapRevoke(d, h) PROVE IInv'
  BY <1>1, <1>2, <1>5, CapRevokeOK DEF CapRevoke, IInv
<1>6. ASSUME NEW h \in Handles, NEW to \in Domains, MemGrant(d, h, to) PROVE IInv'
  BY <1>1, <1>2, <1>6, MemGrantOK DEF MemGrant, IInv
<1>7. ASSUME NEW h \in Handles, NEW r \in Regions, Map(d, h, r) PROVE IInv'
  BY <1>1, <1>2, <1>7, MapOK DEF Map, IInv
<1>8. ASSUME NEW h \in Handles, GateCall(d, h) PROVE IInv'
  BY <1>8, GateCallOK
<1>9. ASSUME NEW h \in Handles, Move(d, h) PROVE IInv'
  BY <1>1, <1>2, <1>9, MoveOK DEF Move, IInv
<1>10. ASSUME NEW r \in Regions, Unmap(d, r) PROVE IInv'
  BY <1>1, <1>2, <1>10, UnmapOK DEF Unmap, IInv
<1>11. CASE GateReturn(d)
  BY <1>11, GateReturnOK
<1>12. CASE HaltDom(d)
  BY <1>12, HaltDomOK
<1> QED
  BY <1>3, <1>4, <1>5, <1>6, <1>7, <1>8, <1>9, <1>10, <1>11, <1>12 DEF Retire

\* Every cycle preserves the invariant.
LEMMA NextOK == IInv /\ [Next]_vars => IInv'
<1> SUFFICES ASSUME IInv, [Next]_vars PROVE IInv'
  OBVIOUS
<1>1. ASSUME NEW d \in Domains, Retire(d) PROVE IInv'
  BY <1>1, RetireOK
<1>2. CASE Idle
  <2>1. FinishCycle(tab, regions, mover) /\ UNCHANGED gateVars
    BY <1>2 DEF Idle
  <2>2. AuthorityOK'
    BY <2>1, FinishCycleOK DEF IInv, AuthorityOK
  <2>3. GatesOK'
    BY <2>1 DEF IInv, GatesOK, gateVars
  <2> QED BY <2>2, <2>3 DEF IInv
<1>3. CASE UNCHANGED vars
  BY <1>3 DEF vars, gateVars, IInv, AuthorityOK, GatesOK, TablesOK, KindsIn, CacheOK,
                RegionsFit, JobFits, MoverCheck, LiveRef, LiveCap, EntryOf, Covers
<1> QED BY <1>1, <1>2, <1>3 DEF Next

\* The invariant holds in every reachable state.
THEOREM InvariantHolds == Spec => []IInv
BY InitOK, NextOK, PTL DEF Spec

\* The tables, the cached authority and the gates are always well typed: no
\* instruction leaves a handle, cell, address or nesting depth out of range.
THEOREM TypeCorrect == Spec => []TypeOK
<1>1. IInv => TypeOK
  BY DEF IInv, AuthorityOK, GatesOK, TablesOK, CacheOK, RegionFiles, TypeOK
<1> QED BY <1>1, InvariantHolds, PTL

\* T2 and T8: whatever is duplicated, granted, transferred, dropped or revoked,
\* in any order, no capability authorizes more than a root of the manifest,
\* and none is both writable and executable.
THEOREM AuthorityIsConfined == Spec => []AuthorityConfined
<1>1. IInv => AuthorityConfined
  BY DEF IInv, AuthorityOK, TablesOK, KindsIn, Allowed, AuthorityConfined
<1> QED BY <1>1, InvariantHolds, PTL

\* T3, region registers: at the end of every cycle a mapped region mirrors a
\* live capability of its own domain, although sweepRegions looks only at
\* generations and the tables were spliced, cleared and refilled in between.
THEOREM RegionsAreBacked == Spec => []RegionsBacked
<1>1. IInv => RegionsBacked
  BY DEF IInv, AuthorityOK, CacheOK, RegionsFit, RegionsBacked
<1> QED BY <1>1, InvariantHolds, PTL

\* T3, the Mover: a job in flight could copy every word it still has to copy
\* under the tables as they now are, so a job the sweep spared never aborts.
THEOREM MoverIsBacked == Spec => []MoverBacked
<1>1. IInv => MoverBacked
  BY DEF IInv, AuthorityOK, CacheOK, JobFits, MoverBacked
<1> QED BY <1>1, InvariantHolds, PTL

-----------------------------------------------------------------------------
(***************************************************************************)
(* The ledger and the forest.  Each cycle leaves the tables alone or does  *)
(* to them one of the four moves: that keeps the ledger balanced and the   *)
(* forest rooted, and is a step of CapForest.                              *)
(***************************************************************************)
ForestInv == Ledger(tab) /\ Rooted(tab)

ForestStep(t, r) ==
  \/ r = t
  \/ \E n, p, kind : Derives(t, r, n, p, kind) /\ Within(kind, EntryOf(t, p).kind)
  \/ \E c : Drops(t, r, c)
  \/ \E c : Revokes(t, r, c)
  \/ \E c, n : Transfers(t, r, c, n)

\* A narrowed kind lies within the kind it is narrowed from.
LEMMA NarrowWithin ==
  ASSUME NEW k \in MemKinds, NEW n \in Narrowings, CanNarrow(k, n)
  PROVE  Narrow(k, n) \in Kinds /\ Within(Narrow(k, n), k)
<1>1. /\ n.off \in Addrs /\ n.len \in 0 .. MemWords /\ n.perms \in Perms
      /\ k.cls = "mem" /\ k.base \in Addrs /\ k.len \in 0 .. MemWords
      /\ MemWords \in Nat
  BY NarrowingsAssumption, SizesAssumption DEF MemKinds
<1>2. /\ n.off + n.len <= k.len /\ k.base + n.off < MemWords /\ n.perms \subseteq k.perms
  BY DEF CanNarrow
<1>3. Narrow(k, n) \in MemKinds
  BY <1>1, <1>2 DEF MemKinds, Narrow, Addrs
<1>4. k.base <= k.base + n.off /\ k.base + n.off + n.len <= k.base + k.len
  BY <1>1, <1>2 DEF Addrs
<1> QED BY <1>1, <1>2, <1>3, <1>4 DEF Within, Narrow, Kinds

\* A live handle refers to a live capability.
LEMMA LiveHandleRef ==
  ASSUME tab \in Tables, NEW d \in Domains, NEW h \in Handles, CapLive(d, h)
  PROVE  /\ HandleRef(d, h) \in CapRefs /\ LiveRef(tab, HandleRef(d, h))
         /\ EntryOf(tab, HandleRef(d, h)).kind = KindOf(d, h)
         /\ h.slot \in Slots /\ tab.caps[d][h.slot] # None
         /\ tab.slotGen[d][h.slot] = h.gen
         /\ HandleRef(d, h) = RefOf(tab, d, h.slot)
         /\ SlotOf(HandleRef(d, h)) = <<d, h.slot>>
<1>1. h.slot \in Slots /\ tab.caps[d][h.slot] # None /\ tab.slotGen[d][h.slot] = h.gen
  BY DEF CapLive, LiveCap, Handles
<1>2. h.gen \in Gens
  BY <1>1, TableParts
<1>3. HandleRef(d, h) \in CapRefs
  BY <1>1, <1>2 DEF HandleRef, CapRefs
<1> QED BY <1>1, <1>3 DEF HandleRef, LiveRef, LiveCap, EntryOf, KindOf, RefOf, SlotOf

\* cap_dup and mem_grant derive a capability from the one presented.
LEMMA InstallMoves ==
  ASSUME tab \in Tables, ForestInv, NEW owner \in Domains, NEW kind \in Kinds,
         NEW p \in CapRefs, LiveRef(tab, p), Install(owner, kind, p)
  PROVE  Ledger(tab') /\ \E n : Derives(tab, tab', n, p, kind)
<1> DEFINE s == FreeSlot(tab, owner)
           l == FreeCell(tab, owner)
           r == InstallDerived(tab, owner, s, l, kind, p)
           n == RefOf(tab, owner, s)
<1>1. /\ s \in Slots /\ l \in LineageCells /\ tab.caps[owner][s] = None
      /\ tab.slotGen[owner][s] # GenRetired /\ tab.lineage[owner][l] = None
  BY FreeSlotIsFree, FreeCellIsFree DEF Install
<1>2. tab' = r
  BY DEF Install, FinishCycle
<1>3. /\ n \in CapRefs /\ n.dom = owner /\ n.slot = s /\ n.gen = tab.slotGen[owner][s]
      /\ SlotOf(n) = <<owner, s>>
  BY <1>1, TableParts DEF RefOf, CapRefs, SlotOf
<1> HIDE DEF s, l, n
<1>4. PICK u \in Tables : u = tab
  OBVIOUS
<1>5. LET v == InstallDerived(u, owner, s, l, kind, p)
      IN /\ v.slotGen = u.slotGen
         /\ \A e \in Domains, q \in Slots :
              v.caps[e][q] =
                IF e = owner /\ q = s THEN [kind |-> kind, lineage |-> l] ELSE u.caps[e][q]
  BY <1>1, InstallFacts
<1>6. LET v == InstallDerived(u, owner, s, l, kind, p)
      IN /\ Ledger(v)
         /\ \A e \in Domains, q \in Slots :
              ParentOf(v, e, q) = IF e = owner /\ q = s THEN p ELSE ParentOf(u, e, q)
  BY <1>1, <1>4, InstallView DEF ForestInv
<1>7. /\ r.slotGen = tab.slotGen
      /\ \A e \in Domains, q \in Slots :
           r.caps[e][q] =
             IF e = owner /\ q = s THEN [kind |-> kind, lineage |-> l] ELSE tab.caps[e][q]
      /\ Ledger(r)
      /\ \A e \in Domains, q \in Slots :
           ParentOf(r, e, q) = IF e = owner /\ q = s THEN p ELSE ParentOf(tab, e, q)
  BY <1>4, <1>5, <1>6
<1> HIDE DEF r
<1>8. r.caps[owner][s] # None /\ r.caps[owner][s].kind = kind
  BY <1>1, <1>7, EntryCell
<1>9. Derives(tab, r, n, p, kind)
  <2>1. Fills(tab, r, n.dom, n.slot, kind)
    BY <1>1, <1>3, <1>7, <1>8 DEF Fills
  <2>2. \A d \in Domains, q \in Slots : <<d, q>> # SlotOf(n) => Keeps(tab, r, d, q)
    BY <1>3, <1>7 DEF Keeps
  <2>3. \A d \in Domains, q \in Slots :
          ParentOf(r, d, q) = IF <<d, q>> = SlotOf(n) THEN p ELSE ParentOf(tab, d, q)
    BY <1>3, <1>7
  <2> QED BY <1>3, <2>1, <2>2, <2>3 DEF Derives
<1> QED BY <1>2, <1>7, <1>9

\* cap_drop drops the capability presented.
LEMMA CapDropMoves ==
  ASSUME tab \in Tables, ForestInv, NEW d \in Domains, NEW h \in Handles, CapDrop(d, h)
  PROVE  Ledger(tab') /\ Drops(tab, tab', HandleRef(d, h))
<1> DEFINE ref == HandleRef(d, h)
           p == ParentOf(tab, d, h.slot)
           spliced == IF p = None THEN OrphanChildren(tab, ref)
                                  ELSE Reparent(tab, ref, p)
           r == ClearSlot(spliced, d, h.slot)
<1>1. CapLive(d, h) /\ tab' = r
  BY DEF CapDrop, FinishSwept, FinishCycle
<1>2. /\ ref \in CapRefs /\ LiveRef(tab, ref) /\ h.slot \in Slots
      /\ tab.caps[d][h.slot] # None /\ SlotOf(ref) = <<d, h.slot>>
      /\ ref.dom = d /\ ref.slot = h.slot
  BY <1>1, LiveHandleRef DEF HandleRef
<1>3. PICK t \in Tables : t = tab
  OBVIOUS
<1>4. p \in CapRefs \union {None}
  BY <1>2, <1>3, ParentType
<1>5. p = ParentOf(tab, ref.dom, ref.slot)
  BY <1>2
<1> HIDE DEF ref, p
<1>6. /\ spliced \in Tables /\ Ledger(spliced)
      /\ \A e \in Domains, q \in Slots :
           /\ Keeps(tab, spliced, e, q)
           /\ ParentOf(spliced, e, q) = IF ParentOf(tab, e, q) = ref THEN p ELSE ParentOf(tab, e, q)
  <2>1. CASE p = None
    <3> DEFINE u == OrphanChildren(t, ref)
    <3>1. /\ u \in Tables /\ u.slotGen = t.slotGen
          /\ \A e \in Domains, q \in Slots :
               /\ u.caps[e][q] = None <=> t.caps[e][q] = None
               /\ t.caps[e][q] # None => u.caps[e][q].kind = t.caps[e][q].kind
      BY OrphanFacts
    <3>2. /\ Ledger(u)
          /\ \A e \in Domains, q \in Slots :
               ParentOf(u, e, q) = IF ParentOf(t, e, q) = ref THEN None ELSE ParentOf(t, e, q)
      BY <1>2, <1>3, OrphanView DEF ForestInv
    <3>3. spliced = u
      BY <1>3, <2>1
    <3> HIDE DEF u, spliced
    <3>4. \A e \in Domains, q \in Slots : Keeps(tab, u, e, q)
      BY <1>3, <3>1 DEF Keeps
    <3> QED BY <1>3, <2>1, <3>1, <3>2, <3>3, <3>4
  <2>2. CASE p # None
    <3> DEFINE u == Reparent(t, ref, p)
    <3>1. p \in CapRefs
      BY <1>4, <2>2
    <3>2. u \in Tables /\ u.caps = t.caps /\ u.slotGen = t.slotGen
      BY <3>1, ReparentFacts
    <3>3. /\ Ledger(u)
          /\ \A e \in Domains, q \in Slots :
               ParentOf(u, e, q) = IF ParentOf(t, e, q) = ref THEN p ELSE ParentOf(t, e, q)
      BY <1>2, <1>3, <3>1, ReparentView DEF ForestInv
    <3>4. spliced = u
      BY <1>3, <2>2
    <3> HIDE DEF u, spliced
    <3>5. \A e \in Domains, q \in Slots : Keeps(tab, u, e, q)
      BY <1>3, <3>2 DEF Keeps
    <3> QED BY <1>3, <3>2, <3>3, <3>4, <3>5
  <2> QED BY <2>1, <2>2
<1> HIDE DEF spliced
<1>7. PICK t2 \in Tables, s \in Slots : t2 = spliced /\ s = h.slot
  BY <1>2, <1>6
<1>8. LET v == ClearSlot(t2, d, s)
      IN \A e \in Domains, q \in Slots :
           /\ v.caps[e][q] = IF e = d /\ q = s THEN None ELSE t2.caps[e][q]
           /\ v.slotGen[e][q] = IF e = d /\ q = s THEN BumpGen(t2.slotGen[e][q])
                                                 ELSE t2.slotGen[e][q]
  BY ClearFacts
<1>9. LET v == ClearSlot(t2, d, s)
      IN /\ Ledger(v)
         /\ \A e \in Domains, q \in Slots :
              ParentOf(v, e, q) = IF e = d /\ q = s THEN None ELSE ParentOf(t2, e, q)
  BY <1>6, <1>7, ClearView
<1>10. /\ Ledger(r)
       /\ \A e \in Domains, q \in Slots :
            /\ r.caps[e][q] = IF e = d /\ q = s THEN None ELSE spliced.caps[e][q]
            /\ r.slotGen[e][q] = IF e = d /\ q = s THEN BumpGen(spliced.slotGen[e][q])
                                                  ELSE spliced.slotGen[e][q]
            /\ ParentOf(r, e, q) = IF e = d /\ q = s THEN None ELSE ParentOf(spliced, e, q)
  BY <1>7, <1>8, <1>9
<1> HIDE DEF r
<1>11. Empties(tab, r, ref.dom, ref.slot)
  BY <1>2, <1>6, <1>7, <1>10 DEF Empties, Keeps
<1>12. \A e \in Domains, q \in Slots : <<e, q>> # SlotOf(ref) => Keeps(tab, r, e, q)
  <2> SUFFICES ASSUME NEW e \in Domains, NEW q \in Slots, <<e, q>> # SlotOf(ref)
               PROVE  Keeps(tab, r, e, q)
    OBVIOUS
  <2>1. ~(e = d /\ q = s)
    BY <1>2, <1>7
  <2> QED BY <1>6, <1>10, <2>1 DEF Keeps
<1>13. \A e \in Domains, q \in Slots :
         ParentOf(r, e, q) =
           IF <<e, q>> = SlotOf(ref) THEN None
           ELSE IF ParentOf(tab, e, q) = ref THEN p ELSE ParentOf(tab, e, q)
  BY <1>2, <1>6, <1>7, <1>10
<1>14. Drops(tab, r, ref)
  BY <1>2, <1>5, <1>11, <1>12, <1>13 DEF Drops
<1> QED BY <1>1, <1>10, <1>14 DEF ref

\* cap_revoke destroys what is marked from the capability presented.
LEMMA CapRevokeMoves ==
  ASSUME tab \in Tables, ForestInv, NEW d \in Domains, NEW h \in Handles, CapRevoke(d, h)
  PROVE  Ledger(tab') /\ Revokes(tab, tab', HandleRef(d, h))
<1> DEFINE ref == HandleRef(d, h)
           m == Marks(tab, ref)
           r == DestroyMarked(tab, m)
<1>1. CapLive(d, h) /\ tab' = r
  BY DEF CapRevoke, MemLive, FinishSwept, FinishCycle
<1>2. ref \in CapRefs /\ LiveRef(tab, ref)
  BY <1>1, LiveHandleRef
<1>3. m = Marks(tab, ref)
  OBVIOUS
<1> HIDE DEF m, ref
<1>4. PICK t \in Tables : t = tab
  OBVIOUS
<1>5. LET v == DestroyMarked(t, m)
      IN /\ v \in Tables
         /\ \A e \in Domains, q \in Slots :
              v.caps[e][q] = IF <<e, q>> \in m THEN None ELSE t.caps[e][q]
         /\ \A e \in Domains, q \in Slots :
              v.slotGen[e][q] = IF <<e, q>> \in m /\ t.caps[e][q] # None
                                THEN BumpGen(t.slotGen[e][q]) ELSE t.slotGen[e][q]
  BY DestroyFacts
<1>6. LET v == DestroyMarked(t, m)
      IN /\ Ledger(v)
         /\ \A e \in Domains, q \in Slots :
              ParentOf(v, e, q) = IF <<e, q>> \in m THEN None ELSE ParentOf(t, e, q)
  BY <1>4, DestroyView DEF ForestInv
<1>7. /\ Ledger(r)
      /\ \A e \in Domains, q \in Slots :
           /\ r.caps[e][q] = IF <<e, q>> \in m THEN None ELSE tab.caps[e][q]
           /\ r.slotGen[e][q] = IF <<e, q>> \in m /\ tab.caps[e][q] # None
                                THEN BumpGen(tab.slotGen[e][q]) ELSE tab.slotGen[e][q]
           /\ ParentOf(r, e, q) = IF <<e, q>> \in m THEN None ELSE ParentOf(tab, e, q)
  BY <1>4, <1>5, <1>6
<1> HIDE DEF r
<1>8. \A e \in Domains, q \in Slots :
        IF <<e, q>> \in m THEN Empties(tab, r, e, q) ELSE Keeps(tab, r, e, q)
  BY <1>7 DEF Empties, Keeps
<1>9. Revokes(tab, r, ref)
  BY <1>2, <1>3, <1>7, <1>8 DEF Revokes
<1> QED BY <1>1, <1>7, <1>9 DEF ref

\* A transfer moves the capability presented, unless none is.
LEMMA TransferMoves ==
  ASSUME tab \in Tables, ForestInv, NEW d \in Domains, NEW to \in Domains,
         NEW h \in Handles \union {None}, TransferByHandle(d, to, h)
  PROVE  Ledger(tab') /\ ForestStep(tab, tab')
<1>1. CASE h = None /\ FinishCycle(tab, regions, mover)
  BY <1>1 DEF FinishCycle, ForestInv, ForestStep
<1>2. CASE /\ h # None /\ CapLive(d, h) /\ CanTransfer(tab, d, h.slot, to)
           /\ FinishSwept(TransferCap(tab, d, h.slot, to))
  <2> DEFINE r == TransferCap(tab, d, h.slot, to)
             s2 == FreeSlot(tab, to)
             c == RefOf(tab, d, h.slot)
             n == RefOf(tab, to, s2)
  <2>1. tab' = r /\ h \in Handles
    BY <1>2 DEF FinishSwept, FinishCycle
  <2>2. /\ c \in CapRefs /\ LiveRef(tab, c) /\ h.slot \in Slots
        /\ tab.caps[d][h.slot] # None /\ c.dom = d /\ c.slot = h.slot
        /\ SlotOf(c) = <<d, h.slot>>
    BY <1>2, <2>1, LiveHandleRef DEF RefOf
  <2>3. /\ s2 \in Slots /\ tab.caps[to][s2] = None /\ tab.slotGen[to][s2] # GenRetired
    BY <1>2, FreeSlotIsFree DEF CanTransfer
  <2>4. /\ n \in CapRefs /\ n.dom = to /\ n.slot = s2 /\ n.gen = tab.slotGen[to][s2]
        /\ SlotOf(n) = <<to, s2>>
    BY <2>3, TableParts DEF RefOf, CapRefs, SlotOf
  <2>5. PICK u \in Tables, q1 \in Slots : u = tab /\ q1 = h.slot
    BY <2>2
  <2>6. LET v == TransferCap(u, d, q1, to)
            q2 == FreeSlot(u, to)
        IN /\ v.caps[to][q2] # None
           /\ v.caps[to][q2].kind = u.caps[d][q1].kind
           /\ \A e \in Domains, q \in Slots :
                /\ ~(e = to /\ q = q2) =>
                     v.caps[e][q] = IF e = d /\ q = q1 THEN None ELSE u.caps[e][q]
                /\ v.slotGen[e][q] = IF e = d /\ q = q1 THEN BumpGen(u.slotGen[e][q])
                                                        ELSE u.slotGen[e][q]
    BY <1>2, <2>5, TransferFacts
  <2>7. LET v == TransferCap(u, d, q1, to)
            q2 == FreeSlot(u, to)
        IN /\ Ledger(v)
           /\ \A e \in Domains, q \in Slots :
                ParentOf(v, e, q) =
                  IF e = d /\ q = q1 THEN None
                  ELSE LET x == IF e = to /\ q = q2 THEN ParentOf(u, d, q1)
                                                    ELSE ParentOf(u, e, q)
                       IN IF x = RefOf(u, d, q1) THEN RefOf(u, to, q2) ELSE x
    BY <1>2, <2>5, TransferView DEF ForestInv
  <2>8. /\ r.caps[to][s2] # None
        /\ r.caps[to][s2].kind = tab.caps[d][h.slot].kind
        /\ \A e \in Domains, q \in Slots :
             /\ ~(e = to /\ q = s2) =>
                  r.caps[e][q] = IF e = d /\ q = h.slot THEN None ELSE tab.caps[e][q]
             /\ r.slotGen[e][q] = IF e = d /\ q = h.slot THEN BumpGen(tab.slotGen[e][q])
                                                         ELSE tab.slotGen[e][q]
    BY <2>5, <2>6
  <2>9. /\ Ledger(r)
        /\ \A e \in Domains, q \in Slots :
             ParentOf(r, e, q) =
               IF e = d /\ q = h.slot THEN None
               ELSE LET x == IF e = to /\ q = s2 THEN ParentOf(tab, d, h.slot)
                                                 ELSE ParentOf(tab, e, q)
                    IN IF x = c THEN n ELSE x
    BY <2>5, <2>7
  <2> HIDE DEF r, s2, c, n
  <2>10. SlotOf(n) # SlotOf(c)
    BY <2>2, <2>3, <2>4
  <2>11. Fills(tab, r, n.dom, n.slot, tab.caps[c.dom][c.slot].kind)
    BY <2>2, <2>3, <2>4, <2>8, <2>10 DEF Fills
  <2>12. Empties(tab, r, c.dom, c.slot)
    BY <2>2, <2>4, <2>8, <2>10 DEF Empties
  <2>13. \A e \in Domains, q \in Slots :
           <<e, q>> \notin {SlotOf(c), SlotOf(n)} => Keeps(tab, r, e, q)
    BY <2>2, <2>4, <2>8 DEF Keeps
  <2>14. \A e \in Domains, q \in Slots :
           ParentOf(r, e, q) =
             IF <<e, q>> = SlotOf(c) THEN None
             ELSE LET x == IF <<e, q>> = SlotOf(n) THEN ParentOf(tab, c.dom, c.slot)
                                                   ELSE ParentOf(tab, e, q)
                  IN IF x = c THEN n ELSE x
    BY <2>2, <2>4, <2>9
  <2>15. Transfers(tab, r, c, n)
    BY <2>2, <2>4, <2>10, <2>11, <2>12, <2>13, <2>14 DEF Transfers
  <2> QED BY <2>1, <2>9, <2>15 DEF ForestStep
<1> QED BY <1>1, <1>2 DEF TransferByHandle

\* Whatever instruction retires, the ledger stays balanced and the tables
\* make a step of the forest.
LEMMA RetireMoves ==
  ASSUME IInv, ForestInv, NEW d \in Domains, Retire(d)
  PROVE  Ledger(tab') /\ ForestStep(tab, tab')
<1>1. TablesOK(tab) /\ tab \in Tables /\ GatesOK
  BY DEF IInv, AuthorityOK, TablesOK
<1>2. tab' = tab => Ledger(tab') /\ ForestStep(tab, tab')
  BY DEF ForestInv, ForestStep
<1>3. ASSUME NEW owner \in Domains, NEW h \in Handles, MemLive(d, h), NEW n \in Narrowings,
             CanNarrow(KindOf(d, h), n), Install(owner, Narrow(KindOf(d, h), n), HandleRef(d, h))
      PROVE  Ledger(tab') /\ ForestStep(tab, tab')
  <2>1. KindOf(d, h) \in MemKinds
    BY <1>1, <1>3, LiveHandle DEF MemLive
  <2>2. /\ HandleRef(d, h) \in CapRefs /\ LiveRef(tab, HandleRef(d, h))
        /\ EntryOf(tab, HandleRef(d, h)).kind = KindOf(d, h)
    BY <1>1, <1>3, LiveHandleRef DEF MemLive
  <2>3. Narrow(KindOf(d, h), n) \in Kinds /\ Within(Narrow(KindOf(d, h), n), KindOf(d, h))
    BY <1>3, <2>1, NarrowWithin
  <2>4. Ledger(tab') /\ \E x : Derives(tab, tab', x, HandleRef(d, h), Narrow(KindOf(d, h), n))
    BY <1>1, <1>3, <2>2, <2>3, InstallMoves
  <2> QED BY <2>2, <2>3, <2>4 DEF ForestStep
<1>4. ASSUME NEW h \in Handles, CapDup(d, h) PROVE Ledger(tab') /\ ForestStep(tab, tab')
  <2>1. CASE h.cls = "mem"
    BY <1>3, <1>4, <2>1 DEF CapDup, MemLive
  <2>2. CASE h.cls = "gate" /\ Install(d, KindOf(d, h), HandleRef(d, h))
    <3>1. CapLive(d, h)
      BY <1>4 DEF CapDup
    <3>2. KindOf(d, h) \in GateKinds
      BY <1>1, <2>2, <3>1, LiveHandle
    <3>3. /\ HandleRef(d, h) \in CapRefs /\ LiveRef(tab, HandleRef(d, h))
          /\ EntryOf(tab, HandleRef(d, h)).kind = KindOf(d, h)
      BY <1>1, <3>1, LiveHandleRef
    <3>4. KindOf(d, h) \in Kinds /\ Within(KindOf(d, h), KindOf(d, h))
      BY <3>2 DEF Within, Kinds, GateKinds
    <3>5. Ledger(tab') /\ \E x : Derives(tab, tab', x, HandleRef(d, h), KindOf(d, h))
      BY <1>1, <2>2, <3>3, <3>4, InstallMoves
    <3> QED BY <3>3, <3>4, <3>5 DEF ForestStep
  <2> QED BY <1>4, <2>1, <2>2 DEF CapDup
<1>5. ASSUME NEW h \in Handles, CapDrop(d, h) PROVE Ledger(tab') /\ ForestStep(tab, tab')
  BY <1>1, <1>5, CapDropMoves DEF ForestStep
<1>6. ASSUME NEW h \in Handles, CapRevoke(d, h) PROVE Ledger(tab') /\ ForestStep(tab, tab')
  BY <1>1, <1>6, CapRevokeMoves DEF ForestStep
<1>7. ASSUME NEW h \in Handles, NEW to \in Domains, MemGrant(d, h, to)
      PROVE  Ledger(tab') /\ ForestStep(tab, tab')
  BY <1>3, <1>7 DEF MemGrant
<1>8. ASSUME NEW h \in Handles, NEW r \in Regions, Map(d, h, r)
      PROVE  Ledger(tab') /\ ForestStep(tab, tab')
  BY <1>2, <1>8 DEF Map, FinishCycle
<1>9. ASSUME NEW h \in Handles, GateCall(d, h) PROVE Ledger(tab') /\ ForestStep(tab, tab')
  <2> DEFINE callee == Callee[KindOf(d, h).gate]
  <2>1. callee \in Domains
    BY <1>1, <1>9, LiveHandle, ManifestAssumption DEF GateCall, GateLive, GateKinds
  <2>2. \E arg \in Handles \union {None} : TransferByHandle(d, callee, arg)
    BY <1>9 DEF GateCall
  <2> HIDE DEF callee
  <2> QED BY <1>1, <2>1, <2>2, TransferMoves
<1>10. ASSUME NEW h \in Handles, Move(d, h) PROVE Ledger(tab') /\ ForestStep(tab, tab')
  BY <1>2, <1>10 DEF Move, FinishCycle
<1>11. ASSUME NEW r \in Regions, Unmap(d, r) PROVE Ledger(tab') /\ ForestStep(tab, tab')
  BY <1>2, <1>11 DEF Unmap, FinishCycle
<1>12. CASE GateReturn(d)
  <2> DEFINE caller == act[serving[d]].caller
  <2>1. act[serving[d]] \in Activations
    BY <1>1, <1>12 DEF GateReturn, GatesOK
  <2>2. caller \in Domains
    BY <2>1 DEF Activations
  <2>3. \E reply \in Handles \union {None} : TransferByHandle(d, caller, reply)
    BY <1>12 DEF GateReturn
  <2> HIDE DEF caller
  <2> QED BY <1>1, <2>2, <2>3, TransferMoves
<1>13. CASE HaltDom(d)
  BY <1>2, <1>13 DEF HaltDom, FinishCycle
<1> QED
  BY <1>4, <1>5, <1>6, <1>7, <1>8, <1>9, <1>10, <1>11, <1>12, <1>13 DEF Retire

\* So does every cycle.
LEMMA CycleMoves ==
  ASSUME IInv, ForestInv, [Next]_vars
  PROVE  Ledger(tab') /\ ForestStep(tab, tab')
<1>1. ASSUME NEW d \in Domains, Retire(d) PROVE Ledger(tab') /\ ForestStep(tab, tab')
  BY <1>1, RetireMoves
<1>2. CASE Idle \/ UNCHANGED vars
  BY <1>2 DEF Idle, FinishCycle, vars, ForestInv, ForestStep
<1> QED BY <1>1, <1>2 DEF Next

\* A step of the forest leaves a forest.
LEMMA StepRooted ==
  ASSUME NEW t \in Tables, NEW r \in Tables, Rooted(t), ForestStep(t, r)
  PROVE  Rooted(r)
BY DerivesRooted, DropsRooted, RevokesRooted, TransfersRooted DEF ForestStep

\* The manifest boots with roots only.
LEMMA InitForest == Init => ForestInv
<1> SUFFICES ASSUME Init PROVE ForestInv
  OBVIOUS
<1>1. tab \in Tables
  BY InitOK DEF IInv, AuthorityOK, TablesOK
<1>2. ASSUME NEW d \in Domains, NEW s \in Slots
      PROVE  /\ CellIn(tab, d, s) = None /\ ParentOf(tab, d, s) = None
             /\ tab.slotGen[d][s] # GenRetired
  <2>1. tab.caps[d][s] = IF InitCaps[d][s] = None THEN None
                         ELSE [kind |-> InitCaps[d][s], lineage |-> None]
    BY DEF Init
  <2>2. tab.slotGen[d][s] = 1
    BY DEF Init, GenFirst
  <2>3. InitCaps[d][s] # None => [kind |-> InitCaps[d][s], lineage |-> None].lineage = None
    OBVIOUS
  <2>4. CellIn(tab, d, s) = None
    BY <2>1, <2>3 DEF CellIn
  <2> QED BY <1>1, <2>2, <2>4, ParentByCell, GenRetiredAssumption
<1>3. \A d \in Domains, l \in LineageCells : tab.lineage[d][l] = None
  BY DEF Init
<1>4. Ledger(tab)
  BY <1>2, <1>3 DEF Ledger
<1>5. Rooted(tab)
  <2>1. ASSUME NEW S \in SUBSET AllSlots, HoldsParents(tab, S) PROVE S = {}
    BY <1>2, <2>1 DEF HoldsParents, AllSlots
  <2> QED BY <1>2, <2>1 DEF Rooted
<1> QED BY <1>4, <1>5 DEF ForestInv

\* Every cycle keeps the ledger balanced and the forest rooted.
LEMMA NextForest == IInv /\ IInv' /\ ForestInv /\ [Next]_vars => ForestInv'
<1> SUFFICES ASSUME IInv, IInv', ForestInv, [Next]_vars PROVE ForestInv'
  OBVIOUS
<1>1. tab \in Tables /\ tab' \in Tables
  BY DEF IInv, AuthorityOK, TablesOK
<1>2. Ledger(tab') /\ ForestStep(tab, tab')
  BY CycleMoves
<1>3. Rooted(tab')
  BY <1>1, <1>2, StepRooted DEF ForestInv
<1>4. Ledger(tab)' /\ Rooted(tab)'
  BY <1>2, <1>3 DEF Ledger, CellIn, Rooted, HoldsParents, ParentOf, LiveRef, LiveCap, SlotOf
<1> QED BY <1>4 DEF ForestInv

\* The ledger and the forest are in order in every reachable state.
THEOREM ForestHolds == Spec => []ForestInv
BY InvariantHolds, InitForest, NextForest, PTL DEF Spec

\* The forest that the tables stand for, now and after the step.
LEMMA ForestIs ==
  /\ Live = LiveOf(tab) /\ RetiredRefs = RetiredOf(tab)
  /\ Live' = LiveOf(tab') /\ RetiredRefs' = RetiredOf(tab')
BY DEF Live, LiveOf, RetiredRefs, RetiredOf, LiveRef, LiveCap

\* Its parents and authorities, now and after the step.
LEMMA ForestMaps ==
  /\ [r \in Live |-> ParentOf(tab, r.dom, r.slot)]' = [r \in Live' |-> ParentOf(tab', r.dom, r.slot)]
  /\ [r \in Live |-> EntryOf(tab, r).kind]' = [r \in Live' |-> EntryOf(tab', r).kind]
BY DEF ParentOf, EntryOf

\* A derivation is one of the forest.
LEMMA DerivesForest ==
  ASSUME tab \in Tables, tab' \in Tables, Rooted(tab), NEW n, NEW p, NEW kind,
         Derives(tab, tab', n, p, kind), Within(kind, EntryOf(tab, p).kind)
  PROVE  Forest!Next
<1>1. /\ p \in Live /\ n \notin Live /\ n \notin RetiredRefs
      /\ Live' = Live \union {n} /\ RetiredRefs' = RetiredRefs
      /\ \A x \in Live' :
           /\ ParentOf(tab', x.dom, x.slot) = IF x = n THEN p ELSE ParentOf(tab, x.dom, x.slot)
           /\ EntryOf(tab', x).kind = IF x = n THEN kind ELSE EntryOf(tab, x).kind
  <2>1. PICK t \in Tables, r \in Tables : t = tab /\ r = tab'
    OBVIOUS
  <2> QED BY <2>1, DerivesShows, ForestIs
<1>2. [r \in Live |-> EntryOf(tab, r).kind]'[n] = kind
  BY <1>1, ForestMaps
<1>3. Forest!Derive(p, n, kind)
  BY <1>1, ForestMaps DEF Forest!Derive
<1> QED BY <1>1, <1>2, <1>3 DEF Forest!Next

\* So is a drop.
LEMMA DropsForest ==
  ASSUME tab \in Tables, tab' \in Tables, Rooted(tab), NEW c, Drops(tab, tab', c)
  PROVE  Forest!Next
<1>1. /\ c \in Live /\ Live' = Live \ {c} /\ RetiredRefs' = RetiredRefs \union {c}
      /\ \A x \in Live' :
           /\ ParentOf(tab', x.dom, x.slot) =
                IF ParentOf(tab, x.dom, x.slot) = c THEN ParentOf(tab, c.dom, c.slot)
                                                    ELSE ParentOf(tab, x.dom, x.slot)
           /\ EntryOf(tab', x).kind = EntryOf(tab, x).kind
  <2>1. PICK t \in Tables, r \in Tables : t = tab /\ r = tab'
    OBVIOUS
  <2> QED BY <2>1, DropsShows, ForestIs
<1>2. Forest!Drop(c)
  BY <1>1, ForestMaps DEF Forest!Drop
<1> QED BY <1>1, <1>2 DEF Forest!Next

\* So is a transfer.
LEMMA TransfersForest ==
  ASSUME tab \in Tables, tab' \in Tables, Rooted(tab), NEW c, NEW n, Transfers(tab, tab', c, n)
  PROVE  Forest!Next
<1>1. /\ c \in Live /\ n \notin Live /\ n \notin RetiredRefs
      /\ Live' = (Live \ {c}) \union {n} /\ RetiredRefs' = RetiredRefs \union {c}
      /\ \A x \in Live' :
           /\ ParentOf(tab', x.dom, x.slot) =
                LET p == IF x = n THEN ParentOf(tab, c.dom, c.slot)
                                  ELSE ParentOf(tab, x.dom, x.slot)
                IN IF p = c THEN n ELSE p
           /\ EntryOf(tab', x).kind = IF x = n THEN EntryOf(tab, c).kind ELSE EntryOf(tab, x).kind
  <2>1. PICK t \in Tables, r \in Tables : t = tab /\ r = tab'
    OBVIOUS
  <2> QED BY <2>1, TransfersShows, ForestIs
<1>2. ParentOf(tab, c.dom, c.slot) # c
  <2>1. PICK t \in Tables : t = tab
    OBVIOUS
  <2>2. c \in CapRefs
    BY <1>1 DEF Live
  <2>3. SlotOf(c) \notin Marks(t, c) /\ SlotOf(c) = <<c.dom, c.slot>> /\ c.dom \in Domains /\ c.slot \in Slots
    BY <2>1, <2>2, RootUnmarked, RefParts
  <2>4. c # None
    BY <2>2, NoneIsNothing
  <2> QED BY <2>1, <2>3, <2>4, UnmarkedParent
<1>3. Forest!Transfer(c, n)
  BY <1>1, <1>2, ForestMaps DEF Forest!Transfer
<1> QED BY <1>1, <1>3 DEF Forest!Next

\* A revocation is one of the forest, or destroys nothing.
LEMMA RevokesForest ==
  ASSUME tab \in Tables, tab' \in Tables, Rooted(tab), NEW c, Revokes(tab, tab', c)
  PROVE  [Forest!Next]_(Forest!vars)
<1> DEFINE D == {x \in Live : SlotOf(x) \in Marks(tab, c)}
<1>1. /\ c \in Live /\ c \notin D /\ Live' = Live \ D /\ RetiredRefs' = RetiredRefs \union D
      /\ \A x \in Live' :
           /\ ParentOf(tab', x.dom, x.slot) = ParentOf(tab, x.dom, x.slot)
           /\ EntryOf(tab', x).kind = EntryOf(tab, x).kind
  <2>1. PICK t \in Tables, r \in Tables : t = tab /\ r = tab'
    OBVIOUS
  <2> QED BY <2>1, RevokesShows, ForestIs
<1>2. D = Forest!Descendants(c)
  <2>1. PICK t \in Tables : t = tab
    OBVIOUS
  <2>2. ASSUME NEW x \in Live
        PROVE  SlotOf(x) \in Marks(tab, c) <=>
                 /\ x # c
                 /\ \A up \in SUBSET Live :
                      /\ x \in up
                      /\ \A y \in up : ParentOf(tab, y.dom, y.slot) # None => ParentOf(tab, y.dom, y.slot) \in up
                      => c \in up
    <3>1. c \in LiveOf(t) /\ x \in LiveOf(t) /\ Live = LiveOf(t)
      BY <1>1, <2>1, ForestIs
    <3> QED BY <2>1, <3>1, MarkedIsBelow
  <2>3. \A up \in SUBSET Live : \A y \in up :
          [r \in Live |-> ParentOf(tab, r.dom, r.slot)][y] = ParentOf(tab, y.dom, y.slot)
    OBVIOUS
  <2> QED BY <2>2, <2>3 DEF Forest!Descendants
<1> HIDE DEF D
<1>3. D \subseteq Live
  BY DEF D
<1>4. Forest!Revoke(c)
  BY <1>1, <1>2, ForestMaps DEF Forest!Revoke
<1>5. CASE D = {}
  <2>1. Live' = Live /\ RetiredRefs' = RetiredRefs
    BY <1>1, <1>5
  <2> QED BY <1>1, <2>1, ForestMaps DEF Forest!vars
<1>6. CASE D # {}
  <2>1. \E x \in Live \ Live' : \E a \in Live \intersect Live' : Forest!Revoke(a)
    BY <1>1, <1>3, <1>4, <1>6
  <2> QED BY <2>1 DEF Forest!Next
<1> QED BY <1>5, <1>6

\* The boot tables are a forest of roots with no retired name.
LEMMA InitIsForest == Init => Forest!Init
<1> SUFFICES ASSUME Init PROVE Forest!Init
  OBVIOUS
<1>1. tab \in Tables
  BY InitOK DEF IInv, AuthorityOK, TablesOK
<1>2. ASSUME NEW d \in Domains, NEW s \in Slots
      PROVE  ParentOf(tab, d, s) = None /\ tab.slotGen[d][s] = 1
  <2>1. tab.caps[d][s] = IF InitCaps[d][s] = None THEN None
                         ELSE [kind |-> InitCaps[d][s], lineage |-> None]
    BY DEF Init
  <2>2. tab.slotGen[d][s] = 1
    BY DEF Init, GenFirst
  <2>3. InitCaps[d][s] # None => [kind |-> InitCaps[d][s], lineage |-> None].lineage = None
    OBVIOUS
  <2> QED BY <2>1, <2>2, <2>3 DEF ParentOf
<1>3. RetiredRefs = {}
  <2>1. ASSUME NEW x \in CapRefs PROVE ~(x.gen < tab.slotGen[x.dom][x.slot])
    <3>1. x.dom \in Domains /\ x.slot \in Slots /\ x.gen \in 1 .. GenRetired
      BY DEF CapRefs, Gens
    <3> QED BY <1>2, <3>1, GenRetiredAssumption
  <2> QED BY <2>1 DEF RetiredRefs
<1>4. Live \subseteq CapRefs
  BY DEF Live
<1>5. [r \in Live |-> ParentOf(tab, r.dom, r.slot)] = [r \in Live |-> None]
  BY <1>2, <1>4 DEF CapRefs
<1>6. [r \in Live |-> EntryOf(tab, r).kind] = [c \in Live |-> [r \in Live |-> EntryOf(tab, r).kind][c]]
  OBVIOUS
<1> QED BY <1>3, <1>4, <1>5, <1>6 DEF Forest!Init

\* Every cycle is a step of the forest or leaves it alone.
LEMMA NextIsForest == IInv /\ IInv' /\ ForestInv /\ [Next]_vars => [Forest!Next]_(Forest!vars)
<1> SUFFICES ASSUME IInv, IInv', ForestInv, [Next]_vars PROVE [Forest!Next]_(Forest!vars)
  OBVIOUS
<1>1. tab \in Tables /\ tab' \in Tables /\ Rooted(tab)
  BY DEF IInv, AuthorityOK, TablesOK, ForestInv
<1>2. ForestStep(tab, tab')
  BY CycleMoves
<1>3. CASE tab' = tab
  BY <1>3, ForestIs, ForestMaps DEF Forest!vars
<1>4. CASE tab' # tab
  BY <1>1, <1>2, <1>4, DerivesForest, DropsForest, RevokesForest, TransfersForest DEF ForestStep
<1> QED BY <1>3, <1>4

\* T9: the cells in use and the derived capabilities correspond one to one
\* after any sequence of instructions, so no cell leaks and none is shared.
\* Code: the splicing, orphaning and clearing of Kernel.lean.
THEOREM LedgerIsBalanced == Spec => []LedgerBalanced
<1>1. ForestInv => LedgerBalanced
  BY DEF ForestInv, Ledger, CellIn, LedgerBalanced, CellOf
<1> QED BY <1>1, ForestHolds, PTL

\* The revoke sweep of numDomains * numSlots rounds marks every descendant:
\* a chain of derivations cannot be longer than there are slots.
THEOREM SweepIsComplete == Spec => []RoundsReachFixpoint
<1>1. IInv => RoundsReachFixpoint
  BY RoundsMark DEF RoundsReachFixpoint
<1> QED BY <1>1, InvariantHolds, PTL

\* The refinement: whatever retires, the tables, cells and sweeps implement
\* the capability forest.  In particular cap_revoke destroys exactly the
\* strict descendants of the capability it is given, and a reference that was
\* retired never names a capability again.
THEOREM ForestIsImplemented == Spec => ImplementsForest
<1>1. Init => Forest!Init
  BY InitIsForest
<1>2. IInv /\ IInv' /\ ForestInv /\ [Next]_vars => [Forest!Next]_(Forest!vars)
  BY NextIsForest
<1>3. Spec => Forest!Init /\ [][Forest!Next]_(Forest!vars)
  BY <1>1, <1>2, InvariantHolds, ForestHolds, PTL DEF Spec
<1> QED BY <1>3 DEF ImplementsForest, Forest!Spec
=============================================================================

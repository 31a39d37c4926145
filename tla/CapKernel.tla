------------------------------ MODULE CapKernel ------------------------------
(***************************************************************************)
(* The capability kernel of LNP64-mu: every instruction of                 *)
(* Machines/Lnp64u/Isa/System.lean that touches authority, the unwinding   *)
(* of a halted server, and the Mover.                                      *)
(*                                                                         *)
(* One step is one machine cycle (Step.lean, step): at most one            *)
(* instruction retires, atomically, and then the Mover phase of that same  *)
(* cycle runs on the tables the instruction left behind.  Which domain     *)
(* retires, and the words in its registers and in memory, are arbitrary:   *)
(* scheduling and budgets are in GateCore.  An instruction that returns an *)
(* errno changes nothing here and is the Idle cycle.                       *)
(***************************************************************************)
EXTENDS Capability

CONSTANTS
  Regions,        \* RegionId
  MaxChainDepth,  \* maxChainDepth
  InitCaps,       \* manifest: InitCaps[d][s] is a kind or None
  InitRegions,    \* manifest: InitRegions[d][r] is a slot or None
  Callee,         \* manifest: the domain that serves each gate
  Narrowings      \* the descriptors presented: a set of [off, len, perms]

ASSUME ManifestAssumption ==
  /\ InitCaps \in [Domains -> [Slots -> Kinds \union {None}]]
  /\ InitRegions \in [Domains -> [Regions -> Slots \union {None}]]
  /\ Callee \in [Gates -> Domains]
  /\ \A d \in Domains, s \in Slots :
       InitCaps[d][s] \in MemKinds =>
         /\ WX(InitCaps[d][s].perms)
         /\ InitCaps[d][s].base + InitCaps[d][s].len <= MemWords
ASSUME NarrowingsAssumption ==
  Narrowings \subseteq [off : Addrs, len : 0 .. MemWords, perms : Perms]
ASSUME ChainAssumption == MaxChainDepth \in Nat \ {0}

VARIABLES
  tab,      \* capability, generation and lineage tables
  regions,  \* regions[d][r]: cached authority, or None
  mover,    \* the Mover's job, or None
  run,      \* RunState: "running", "blocked", "halted"
  serving,  \* the gate a domain is serving, or None
  act       \* act[g]: the activation of gate g, or None

gateVars == <<run, serving, act>>
vars == <<tab, regions, mover, gateVars>>

RegionRecs == [base : Addrs, len : 0 .. MemWords, perms : Perms, backing : CapRefs]
Jobs == [owner : Domains, src : CapRefs, dst : CapRefs,
         srcCur : Addrs, dstCur : Addrs, remaining : 0 .. MemWords]
Activations == [caller : Domains, savedServing : Gates \union {None},
                depth : 1 .. MaxChainDepth]

\* Handle.decode of an arbitrary word; generation 0 matches no slot.
Handles == [slot : Slots, gen : 0 .. GenRetired, cls : {"mem", "gate"}]

-----------------------------------------------------------------------------

\* capLive (lines 50-57): the generation and the class bit must match.
CapLive(d, h) ==
  LiveCap(tab, d, h.slot, h.gen) /\ h.cls = tab.caps[d][h.slot].kind.cls

KindOf(d, h) == tab.caps[d][h.slot].kind
HandleRef(d, h) == [dom |-> d, slot |-> h.slot, gen |-> h.gen]

MemLive(d, h) == CapLive(d, h) /\ h.cls = "mem"
GateLive(d, h) == CapLive(d, h) /\ h.cls = "gate"

DomCovers(d, a, need) ==
  \E r \in Regions : regions[d][r] # None /\ Covers(regions[d][r], a, need)

\* Mutant: the range is not checked against the parent.
CanNarrowUnbounded(k, n) ==
  k.base + n.off < MemWords /\ n.perms \subseteq k.perms /\ WX(n.perms)
\* narrow (lines 76-89): inside the parent, inside memory, no escalation, W^X.
CanNarrow(k, n) ==
  /\ n.off + n.len <= k.len
  /\ k.base + n.off < MemWords
  /\ n.perms \subseteq k.perms
  /\ WX(n.perms)

Narrow(k, n) ==
  [cls |-> "mem", base |-> k.base + n.off, len |-> n.len, perms |-> n.perms]

\* Mutant: region registers are left alone.
SweepNoRegion(t, rg) == rg
\* sweepRegions and sweepMover: drop the cached authority that died in t.
SweepRegions(t, rg) ==
  [d \in Domains |-> [r \in Regions |->
     IF rg[d][r] # None /\ LiveRef(t, rg[d][r].backing) THEN rg[d][r] ELSE None]]

SweepMover(t, job) ==
  IF job # None /\ LiveRef(t, job.src) /\ LiveRef(t, job.dst) THEN job ELSE None

(***************************************************************************)
(* The Mover phase: one word per cycle, both capabilities checked again    *)
(* against the current tables.  Memory contents are not modelled, so the   *)
(* status word a finished or aborted job writes is not either.             *)
(***************************************************************************)
MoverCheck(t, ref, a, need) ==
  /\ LiveRef(t, ref)
  /\ EntryOf(t, ref).kind.cls = "mem"
  /\ Covers(EntryOf(t, ref).kind, a, need)

MoverMayCopy(t, job) ==
  MoverCheck(t, job.src, job.srcCur, {"r"}) /\ MoverCheck(t, job.dst, job.dstCur, {"w"})

MoverPhase(t, job) ==
  IF job = None \/ job.remaining <= 1 \/ ~MoverMayCopy(t, job)
  THEN None
  ELSE [job EXCEPT !.srcCur = (@ + 1) % MemWords,
                   !.dstCur = (@ + 1) % MemWords,
                   !.remaining = @ - 1]

\* The rest of a cycle in which an instruction left t, rg and job behind.
FinishCycle(t, rg, job) ==
  tab' = t /\ regions' = rg /\ mover' = MoverPhase(t, job)

\* The same for an instruction that ends with both sweeps.
FinishSwept(t) ==
  FinishCycle(t, SweepRegions(t, regions), SweepMover(t, mover))

-----------------------------------------------------------------------------

Install(owner, kind, parent) ==
  /\ FreeSlots(tab, owner) # {}
  /\ FreeCells(tab, owner) # {}
  /\ FinishCycle(
       InstallDerived(tab, owner, FreeSlot(tab, owner), FreeCell(tab, owner), kind, parent),
       regions, mover)

CapDup(d, h) ==
  /\ CapLive(d, h)
  /\ \/ /\ h.cls = "mem"
        /\ \E n \in Narrowings :
             /\ CanNarrow(KindOf(d, h), n)
             /\ Install(d, Narrow(KindOf(d, h), n), HandleRef(d, h))
     \/ /\ h.cls = "gate"
        /\ Install(d, KindOf(d, h), HandleRef(d, h))
  /\ UNCHANGED gateVars

CapDrop(d, h) ==
  /\ CapLive(d, h)
  /\ LET ref == HandleRef(d, h)
         p == ParentOf(tab, d, h.slot)
         spliced == IF p = None THEN OrphanChildren(tab, ref)
                                ELSE Reparent(tab, ref, p)
     IN FinishSwept(ClearSlot(spliced, d, h.slot))
  /\ UNCHANGED gateVars

CapRevoke(d, h) ==
  /\ MemLive(d, h)
  /\ FinishSwept(DestroyMarked(tab, Marks(tab, HandleRef(d, h))))
  /\ UNCHANGED gateVars

MemGrant(d, h, to) ==
  /\ MemLive(d, h)
  /\ \E n \in Narrowings :
       /\ CanNarrow(KindOf(d, h), n)
       /\ Install(to, Narrow(KindOf(d, h), n), HandleRef(d, h))
  /\ UNCHANGED gateVars

Map(d, h, r) ==
  /\ MemLive(d, h)
  /\ LET k == KindOf(d, h)
         region == [base |-> k.base, len |-> k.len, perms |-> k.perms,
                    backing |-> HandleRef(d, h)]
     IN FinishCycle(tab, [regions EXCEPT ![d][r] = region], mover)
  /\ UNCHANGED gateVars

Unmap(d, r) ==
  /\ FinishCycle(tab, [regions EXCEPT ![d][r] = None], mover)
  /\ UNCHANGED gateVars

\* transferByHandle (lines 94-104): the null handle transfers nothing.
TransferByHandle(d, to, h) ==
  \/ h = None /\ FinishCycle(tab, regions, mover)
  \/ /\ h # None
     /\ CapLive(d, h)
     /\ CanTransfer(tab, d, h.slot, to)
     /\ FinishSwept(TransferCap(tab, d, h.slot, to))

ChainDepth(d) ==
  IF serving[d] # None /\ act[serving[d]] # None
  THEN act[serving[d]].depth + 1
  ELSE 1

GateCall(d, h) ==
  /\ GateLive(d, h)
  /\ LET g == KindOf(d, h).gate
         callee == Callee[g]
     IN /\ act[g] = None
        /\ callee # d
        /\ run[callee] = "running"
        /\ serving[callee] = None
        /\ ChainDepth(d) <= MaxChainDepth
        /\ \E arg \in Handles \union {None} : TransferByHandle(d, callee, arg)
        /\ act' = [act EXCEPT ![g] = [caller |-> d,
                                      savedServing |-> serving[callee],
                                      depth |-> ChainDepth(d)]]
        /\ serving' = [serving EXCEPT ![callee] = g]
        /\ run' = [run EXCEPT ![d] = "blocked"]

\* Outside an activation gate_return is a protocol fault, see HaltDom.
GateReturn(d) ==
  /\ serving[d] # None
  /\ act[serving[d]] # None
  /\ LET a == act[serving[d]]
     IN /\ \E reply \in Handles \union {None} : TransferByHandle(d, a.caller, reply)
        /\ serving' = [serving EXCEPT ![d] = a.savedServing]
        /\ run' = [run EXCEPT ![a.caller] = "running"]
  /\ act' = [act EXCEPT ![serving[d]] = None]

\* Mutant: the destination may be shorter than the copy.
FitsSource(src, dst, n) == n <= src.len
Fits(src, dst, n) == n <= src.len /\ n <= dst.len

\* move (lines 323-354).  The four descriptor words are loaded under region
\* authority; what they hold is arbitrary.
Move(d, hs) ==
  /\ mover = None
  /\ MemLive(d, hs) /\ "r" \in KindOf(d, hs).perms
  /\ \E a \in Addrs : \A i \in 0 .. 3 : DomCovers(d, (a + i) % MemWords, {"r"})
  /\ \E hd \in Handles :
       /\ MemLive(d, hd) /\ "w" \in KindOf(d, hd).perms
       /\ \E status \in Addrs : DomCovers(d, status, {"w"})
       /\ \E n \in 0 .. MemWords :
            /\ Fits(KindOf(d, hs), KindOf(d, hd), n)
            /\ FinishCycle(tab, regions,
                 [owner |-> d, src |-> HandleRef(d, hs), dst |-> HandleRef(d, hd),
                  srcCur |-> KindOf(d, hs).base, dstCur |-> KindOf(d, hd).base,
                  remaining |-> n])
  /\ UNCHANGED gateVars

\* halt, and every domain-fatal fault: haltDom with its unwinding.
HaltDom(d) ==
  /\ IF serving[d] # None /\ act[serving[d]] # None
     THEN /\ run' = [run EXCEPT ![d] = "halted",
                                ![act[serving[d]].caller] = "running"]
          /\ act' = [act EXCEPT ![serving[d]] = None]
     ELSE run' = [run EXCEPT ![d] = "halted"] /\ UNCHANGED act
  /\ serving' = [serving EXCEPT ![d] = None]
  /\ FinishCycle(tab, regions, mover)

\* No capability instruction retires in this cycle.
Idle == FinishCycle(tab, regions, mover) /\ UNCHANGED gateVars

Retire(d) ==
  \/ \E h \in Handles :
       \/ CapDup(d, h)
       \/ CapDrop(d, h)
       \/ CapRevoke(d, h)
       \/ \E to \in Domains : MemGrant(d, h, to)
       \/ \E r \in Regions : Map(d, h, r)
       \/ GateCall(d, h)
       \/ Move(d, h)
  \/ \E r \in Regions : Unmap(d, r)
  \/ GateReturn(d)
  \/ HaltDom(d)

BootRegion(d, r) ==
  LET s == InitRegions[d][r]
  IN IF s # None /\ InitCaps[d][s] \in MemKinds
     THEN [base |-> InitCaps[d][s].base, len |-> InitCaps[d][s].len,
           perms |-> InitCaps[d][s].perms,
           backing |-> [dom |-> d, slot |-> s, gen |-> GenFirst]]
     ELSE None

Init ==
  /\ tab = [caps |-> [d \in Domains |-> [s \in Slots |->
                        IF InitCaps[d][s] = None THEN None
                        ELSE [kind |-> InitCaps[d][s], lineage |-> None]]],
            slotGen |-> [d \in Domains |-> [s \in Slots |-> GenFirst]],
            lineage |-> [d \in Domains |-> [l \in LineageCells |-> None]]]
  /\ regions = [d \in Domains |-> [r \in Regions |-> BootRegion(d, r)]]
  /\ mover = None
  /\ run = [d \in Domains |-> "running"]
  /\ serving = [d \in Domains |-> None]
  /\ act = [g \in Gates |-> None]

Next ==
  \/ \E d \in Domains : run[d] = "running" /\ Retire(d)
  \/ Idle

Spec == Init /\ [][Next]_vars

-----------------------------------------------------------------------------

TypeOK ==
  /\ tab \in Tables
  /\ regions \in [Domains -> [Regions -> RegionRecs \union {None}]]
  /\ mover \in Jobs \union {None}
  /\ run \in [Domains -> {"running", "blocked", "halted"}]
  /\ serving \in [Domains -> Gates \union {None}]
  /\ act \in [Gates -> Activations \union {None}]

Live == {r \in CapRefs : LiveRef(tab, r)}

(***************************************************************************)
(* T9, the lineage ledger: in every domain the occupied cells and the      *)
(* derived capabilities are in one-to-one correspondence.  A cell that     *)
(* leaks is quota lost for good; a cell named twice is freed under a live  *)
(* capability by the next drop.                                            *)
(***************************************************************************)
CellOf(d, s) == IF tab.caps[d][s] = None THEN None ELSE tab.caps[d][s].lineage

LedgerBalanced ==
  \A d \in Domains :
    /\ \A s \in Slots : CellOf(d, s) # None => tab.lineage[d][CellOf(d, s)] # None
    /\ \A s1, s2 \in Slots :
         CellOf(d, s1) = CellOf(d, s2) /\ CellOf(d, s1) # None => s1 = s2
    /\ \A l \in LineageCells :
         tab.lineage[d][l] # None => \E s \in Slots : CellOf(d, s) = l

\* Authority a within authority b.
Within(a, b) ==
  /\ a.cls = b.cls
  /\ a.cls = "gate" => a = b
  /\ a.cls = "mem" => /\ b.base <= a.base /\ a.base + a.len <= b.base + b.len
                      /\ a.perms \subseteq b.perms

(***************************************************************************)
(* T2 and T8: every authority in the machine lies within a root of the     *)
(* manifest and satisfies W^X.  RegionsBacked extends it to the cached one.*)
(***************************************************************************)
Confined(k) ==
  /\ k.cls = "mem" => WX(k.perms)
  /\ \E d \in Domains, s \in Slots :
       InitCaps[d][s] # None /\ Within(k, InitCaps[d][s])

AuthorityConfined ==
  \A d \in Domains, s \in Slots :
    tab.caps[d][s] # None => Confined(tab.caps[d][s].kind)

(***************************************************************************)
(* T3: cached authority never outlives, or exceeds, the capability it      *)
(* caches, at the end of every cycle: a region register mirrors a live     *)
(* capability of its own domain, and a Mover job in flight could copy      *)
(* every word it still has to copy.                                        *)
(***************************************************************************)
RegionsBacked ==
  \A d \in Domains, r \in Regions :
    LET rg == regions[d][r]
    IN rg # None =>
         /\ rg.backing.dom = d
         /\ LiveRef(tab, rg.backing)
         /\ EntryOf(tab, rg.backing).kind =
              [cls |-> "mem", base |-> rg.base, len |-> rg.len, perms |-> rg.perms]

MoverBacked ==
  mover # None =>
    /\ mover.src.dom = mover.owner /\ mover.dst.dom = mover.owner
    /\ \A i \in 0 .. mover.remaining - 1 :
         /\ MoverCheck(tab, mover.src, mover.srcCur + i, {"r"})
         /\ MoverCheck(tab, mover.dst, mover.dstCur + i, {"w"})

(***************************************************************************)
(* The revoke sweep stops after numDomains * numSlots rounds: by then it   *)
(* has marked every descendant of any capability that could be revoked.    *)
(***************************************************************************)
RoundsReachFixpoint ==
  \A r \in Live : MarksByRounds(tab, r) = Marks(tab, r)

(***************************************************************************)
(* Refinement: the tables implement the capability forest.  In particular  *)
(* cap_revoke destroys exactly the strict descendants, and a reference     *)
(* that was retired never names a capability again.                        *)
(***************************************************************************)
RetiredRefs == {r \in CapRefs : r.gen < tab.slotGen[r.dom][r.slot]}

Forest == INSTANCE CapForest WITH
            Refs <- CapRefs,
            Root <- None,
            live <- Live,
            parent <- [r \in Live |-> ParentOf(tab, r.dom, r.slot)],
            auth <- [r \in Live |-> EntryOf(tab, r).kind],
            retired <- RetiredRefs

ImplementsForest == Forest!Spec
=============================================================================

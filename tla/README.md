# TLA+ models of Loom, its machines and its release scripts

This directory holds TLA+ models of the executable semantics in this repository and of the
programs that turn them into released artefacts, the TLC configurations that check them on small
instances, and TLAPS proofs of the theorems that matter most. The Lean part of the repository
already proves many of its own statements. The models are independent of those proofs: they are
translated from the *definitions* (the step functions, the scripts), state the properties again as
invariants, step properties, refinements and liveness over whole behaviours, and put together what
the Lean development treats apart or does not treat at all: a retired instruction and the Mover in
one cycle; two clocks, release skew and sampling in one event; a recovery request during the drain
of the last one; interrupted and repeated runs of the generators; files replaced under a verifier.

Paths are relative to the repository root. Every definition is listed with its file and lines in
`PROJECT.json` under `map`; what can go wrong in the code, with the properties that watch it,
under `hazards`.

## 1. Inventory

| component | state | operations | interacts through | what is hard |
|---|---|---|---|---|
| LNP64-mu capability kernel, Mover (`Machines/Lnp64u/Kernel.lean`, `Isa/System.lean`, `Step.lean`) | capability slots, generations, lineage cells, region registers, one Mover job, gate records | `cap_dup`, `cap_drop`, `cap_revoke`, `mem_grant`, `map`, `unmap`, `move`, transfer in `gate_call` and `gate_return`, `haltDom`, `moverPhase` | handles and parent references with generations; regions and Mover cache authority of slots any domain may retire | reuse and retirement of slots, splicing of chains, a fixed number of marking rounds, lineage quota |
| LNP64-mu scheduler, budgets, gates (`Step.lean`, `State.lean`, `Isa.lean`) | cycle, budgets, run states, activations, serving marks, latch | refill, schedule, charge, countdown, retire; call, return, yield, halt, fault | a server runs on its caller's budget and within a donation | nested chains, payer walk, unwinding, underfunded issue, starvation of a blocked caller |
| Epoch protocol (`Machines/Epoch/Protocol.lean`, `Bounded.lean`) | home cells, a replica array per volume, one bump in flight | bump, ack, bumpReturn, acquire, release, use | acknowledgements | an old reference between bump and return; saturation |
| Abstract channel (`Loom/Hw/Chan.lean`) | queue, ledger | step | every realization refines it | full co-tick policies |
| Asynchronous FIFO (`Loom/Hw/AsyncFifo.lean`) | ring, two counters, two synchronizers, release bits | an event of any coincident edges | samples of the other counter | stale views, skewed release, same-slot access |
| Toggle channel (`Loom/Hw/ToggleChan.lean`) | payload, four phases, three flags | an event of any coincident edges | phases seen late | flags that no clock owns |
| Channel recovery (`Loom/Hw/RecoveryProtocol.lean`) | two endpoints with their synchronizers, queue | request, acknowledge, flush, complete | levels that cross in two stages | one half reset before the other; requests while the last handshake drains |
| LNP64mini memory arbiter and LR/SC (`Machines/Lnp64mini/HpArbiter.lean`, `Core.lean`) | request buffers, reservations, owner; the cores' `lr_valid` | latch, grant, forward, refuse, complete; LR, SC, stores | one-cycle pulses, one memory port | collisions, atomicity of SC, livelock |
| Release witness generator (`scripts/gen_release_witness.py`) | the generated directory | write if changed, prune, raise | directory kept between calls; modules import each other | batches of several sizes; interrupted calls; leftovers of a larger design |
| Release byte binding (`scripts/check_release_binding.py`) | none | read, order, compare | reads every file of the directory | leaves that the theorem does not reach |
| Conformance hardware leg (`scripts/conformance_hw.py`) | live and trapped vectors, machine state | generate, run, remove a trapping vector, read back, compare, diagnose | assembler, simulator, board | bit positions across removal rounds; trap attribution |
| Verilog importer (`scripts/yosys_to_loom_ir.py`) | expression cache, cells in progress, blockers | index, collect, translate, sweep, close, intern, write | Yosys netlist in, import IR out | widths and signs, merged write ports, loops, sharing by identity |
| Construct inventory (`scripts/verilog_inventory.py`) | none | record | must agree with the importer | two tables of cells |
| KianV equivalence runner and evidence (`scripts/kianv_bottom_up_equivalence.py`, `kianv_equivalence_evidence.py`) | results, `report.json`, evidence | select, contract, prove, finish, publish | files read anew per module; report left by earlier calls | replacement of files, abortion, packing of memories, harness edits in order |
| KianV physical hand-over (`scripts/kianv_physical_handoff.py`, `verify_kianv_physical_handoff.py`) | RTL, floorplan, power plan, manifest | generate, verify | files on disk | interruption between writes, renaming, power of nested macros |
| Not modelled | | | | see section 6 |

What makes each part correct:

* capability kernel: no more authority than a manifest root gives; revoke destroys exactly the
  strict descendants; a retired reference names nothing again; lineage balances; cached authority
  does not outlive its capability;
* scheduler and gates: activations, serving marks and blocked domains describe one another; the
  origin pays; nothing is overdrawn; a blocked caller resumes;
* epoch: after a bump returned no volume accepts an older reference; before, at most one
  generation old; a bump returns;
* channels: nothing is lost, duplicated, reordered, invented or stuck; between the resets of the
  two halves nothing moves, and afterwards the channel is usable again;
* arbiter: one answer per request; a conditional store is atomic; refusals are paid for by writes;
* witness and binding: what the theorem reaches is this call's text, and what is bound to the RTL
  is what the theorem reaches;
* conformance: a vector's verdict is what its assertion gives on that core;
* importer: what passes denotes what the netlist denotes; what cannot be denoted is a blocker;
* KianV: evidence says "proved" only of designs that were compared, of all modules; a verified
  hand-over is of one piece.

## 2. Modules

| modules | stand for | role |
|---|---|---|
| `Capability`, `CapKernel`, `CapForest`, `MCCapKernel` | `Kernel.lean`, `Isa/System.lean`, `Step.lean` | pure functions, state machine of authority, abstract forest of references used once, instance |
| `CapKernelProofs` | | lemmas per table function and per move of the forest; theorems |
| `GateCore`, `MCGateCore`, `GateCoreProofs` | `Step.lean`, `Isa/System.lean` | cycle-level scheduler, budgets, gates |
| `EpochProtocol`, `EpochProtocolProofs` | `Machines/Epoch` | protocol |
| `Chan` | `Chan.lean` | abstract specification of channels |
| `AsyncFifo` | `AsyncFifo.lean` | two-clock ring, refines `Chan` |
| `ToggleChan` | `ToggleChan.lean` | mailbox, refines `Chan` at depth one |
| `RecoveryProtocol` | `RecoveryProtocol.lean` | recovery handshake over `Chan` |
| `HpArbiter` | `HpArbiter.lean`, LR and SC of `Core.lean` | arbiter with two cores and a memory master |
| `MCLinks`, `LinksProofs` | | the five above side by side; theorems about all five |
| `Induction` | | induction and recursion over the naturals and along a rank, for the proofs |
| `WitnessRope`, `WitnessFiles`, `WitnessSemantic`, `WitnessDir`, `MCWitnessDir` | `gen_release_witness.py` | ropes and trees; every file with its imports, declarations and uses; order of one call; the directory over several calls |
| `ReleaseBinding` | `check_release_binding.py` | binding of a directory to RTL |
| `BatchProgram`, `ConformanceHw`, `MCConformanceHw` | `conformance_hw.py` | generated program and its execution; the leg |
| `ImportOps`, `ImportCell`, `ImportMemory`, `ImportModule`, `ImportPackage` and their `MC` modules | `yosys_to_loom_ir.py` | operators by value; cells, memories, one module, `main` |
| `ImportInventory`, `MCImportInventory` | `verilog_inventory.py` | record of a module beside its translation |
| `ImportProofs` | | theorems about what is written for a package, what a memory holds and what a module means |
| `KianvEvidence`, `KianvMiter`, `KianvHandoff`, `MCKianv`, `KianvProofs`, `MiterProofs` | the four KianV scripts | runner and evidence, what Yosys is told to compare, hand-over and its check |

`MCLinks`, `MCImport` and `MCKianv` each hold several independent parts: a behaviour chooses one
(`part`) and the variables of the others keep their initial values.

**CapKernel.** One step is one machine cycle: at most one instruction retires, then the Mover
phase runs on the tables it left (`FinishCycle`). Handles are arbitrary, stale ones included. Which
domain retires is arbitrary; `GateCore` says which schedules exist. Instructions that end with an
errno before a mutation are the `Idle` cycle. `Marks` is the least set closed under `MarkStep`; the
code runs a fixed number of rounds (`MarksByRounds`), and `RoundsReachFixpoint` checks that they
agree for every reference that could be revoked. `ImplementsForest` maps live slots to abstract
references, so a derivation takes a fresh name, drop splices, transfer renames in place and revoke
destroys exactly the strict descendants.

**GateCore.** One step is one cycle: refill, then retire or burn or issue. Programs are arbitrary.
`phase` is the cycle modulo a common multiple of the periods; the source counts in 32 bits and
requires each period to divide 2^32, so the wrap of that counter is a boundary of every period.

**EpochProtocol.** The events of `stepEv`. `use` is a pure read: the properties evaluate `Use` for
every volume and request in every state. `returned` is a history variable.

**AsyncFifo.** A request is any subset of coincident clock edges, a release bit for each side and
arbitrary samples. The abstract queue is the undelivered part of the ring.

**ToggleChan.** `publish` and `acknowledge` are free, as in the source. `FlagsAreToggles` is why
`step` may read `pending` on both clocks.

**RecoveryProtocol.** `step` with both endpoints. The source keeps the queue abstract; the model
adds the pointers of the two halves that `resetHeld` clears (lines 77-80), because *that nothing
moves between the two resets* is what the handshake is for. `Inputs` bounds when a request rises:
not while its own endpoint still holds the flush of the last one, for a pulse of any width
(`AnyTime = FALSE`); `AnyTime = TRUE` drops that, and holds the request until both halves are
flushed (section 5).

**HpArbiter.** One clock; every register is read before the cycle. A core runs a program that
makes any of a set of accesses, and an SC only after an LR of the word. `overwritten`, `tried` and
`committed` are ghosts. The two designs that the header of `HpArbiter.lean` (lines 43-53) reports as
tried and rejected are mutants here: TLC finds the lost update of the first (`DroppedNever`) and
the livelock of the second (`KilledByAnyAccess`).

**Witness modules.** A file is a record of what it imports, declares and mentions, with the RTL
lines, rope nodes and concatenations that the binding reads back. Proof terms and the spelling of
right-hand sides are abstracted. `WitnessDir` follows calls: every call writes in order what
changed, prunes some families, may raise at a missing literal, and may be interrupted before or
inside a write (`Torn`); after a complete call the binding reads the whole directory.

**ConformanceHw.** The program is generated instruction by instruction and executed on a core that
answers each operand pair arbitrarily, may trap on any operation under test, or may have one of
three faults outside them. The removal of trapping vectors, the readback, the RTL comparison, the
diagnostics and the exit are actions.

**Import modules.** An import expression is the value it denotes; what operators mean is taken
from the Lean side (`Loom/Hw/ImportIR.lean`) and from the Yosys cell library (marked external). A
memory whose address expressions Loom refuses to read back ends as `refused`. `ImportModule` walks a
netlist cell by cell as `expr` does, with its cache and its set of cells in progress.

**KianV modules.** A file stands for its digest; a conversion replaces any of them; whether two
bodies are equivalent is external.
`KianvMiter` executes the harness commands one by one on the nets of a module.

## 3. What is checked

| run | instance | what it shows |
|---|---|---|
| `links` | ring of depth 3, 7 payloads; queue of depth 2; mailbox with 5 payloads; recovery with depth 2, pointers modulo 5; two cores, two words | see below |
| `recovery_requests` (violation) | the recovery part, requests at any time | section 5 |
| `epoch` | two cells, three volumes, epochs to 3 | `StaleFailsForever` after the return, `SuccessIsCurrentOrInFlight` before it, `BumpReturns` |
| `cap_forest` | two domains, three slots, two lineage cells, generations to 2, one region, one gate | `ImplementsForest`, `RoundsReachFixpoint`, `LedgerBalanced`, `AuthorityConfined`, `RegionsBacked`, `MoverBacked` |
| `gate_core` | four domains each serving a gate, chains of two | `GatesConsistent`, `PayerIsOrigin` |
| `gate_core_live` | three domains, strictly schedulable | `NoHostage` |
| `gate_core_yield` (violation) | the same | section 5 |
| `witness_dir` | two calls for any two of five texts, one interruption; every small shape once | `ReleaseIsFresh`, `BindingIsExact` of every call; `ModulesCompile`, `ProofsIndexText` of one |
| `conformance_hw` | three lists of vectors, all cores on four operand pairs | `ResultsAreTrue`, `ExitIsJustified` |
| `import` | cells to four bits, memories, small modules, packages of three modules | `LoweringIsExact`, `MemoriesAgree`, `ModulesAreExact`, `InventoryAgrees`, `PassIsComplete`, `TableIsTheTrees` |
| `import_guess` (violation) | the cells | section 5 |
| `kianv` | three modules; small miters; two memories; two edits | `EvidenceIsTrue`, `EvidenceIsComplete`, `MiterIsSound`, `VerifiedIsBuildable`, `TranslationIsExact` |

In `links`: `ViewsConservative`, `SlotsCollisionFree`, `ImplementsChan` and `EveryPayloadDelivered`
are about the ring; `Conservation` about the abstract queue under the exchange policy, `Exchange =
TRUE` (the ring and the mailbox refine it under the other); `MailboxIsChannel` about the mailbox;
`QuiescedWhileSplit` and `RecoveryEnds` about recovery; `AnswersOwed`, `ConditionalIsAtomic` and
`SomeoneProceeds` about the arbiter.

Several properties are conjunctions of named parts, one for each thing that could fail by itself:
`RecoveryEnds` (a recovery completes; traffic returns), `ModulesCompile` (names in scope; imports
acyclic and declarations unique), `ProofsIndexText` (ropes and lookups; bridges), `BindingIsExact`
(fresh output binds; what binds is imported; refusals are about leftovers), `ResultsAreTrue`
(verdicts; readback; details), `ExitIsJustified`, `LoweringIsExact`, `MemoriesAgree`,
`ModulesAreExact` (meaning; no loop; the walk ends; clock edges), `InventoryAgrees`, `MiterIsSound`
(relation; cuts) and `VerifiedIsBuildable` (places; power). Type invariants, `Inv`,
`DeathAndPoisonArePermanent`, `FlagsAreToggles`, `RingHoldsUndelivered`, `BudgetsBounded` and
`InflightRunning` have no run: they are proved (section 4).

Why the bounds are enough:

* ring: with depth 3 and 7 payloads both counters pass the ring twice, so every alignment of a
  stale view with a reused slot occurs; the depth is not a power of two. Acceptances are bounded,
  so `EveryPayloadDelivered` is stated as: in the end, and for good, all is delivered;
* mailbox: each phase returns to its first value after two payloads; five are sent;
* recovery: the endpoints are finite-state and unbounded in time; pointers modulo 5 tell apart all
  fillings of a queue of depth 2, also after one half was cleared;
* arbiter: two words tell a matching reservation from another; runs are unbounded in time;
* epochs: a cell starts fresh, in the middle, or one bump from saturation; three volumes and two
  cells for interference;
* capabilities: two generations let each slot be reused once and then retired; chains cross both
  domains and the gate in both directions; three slots and two cells let each quota run out alone;
* gates: complete chains form and the next call is refused; costs 1 to 3, quotas 2 and 6 and
  donations 3 and 5 make underfunded issues, exhausted donations and covered charges occur;
* witness: the literals 16, 4 and 64 of the source are parameters, scaled to 2, 3 and 1, with
  `--block-size` and `--batch-blocks` 2, and texts of up to 14 lines. So each batching family wraps
  at another count, and every pair of them both divides and misses. Five texts: two of one
  shape, one smaller in every family, one smaller in outputs only, one that lacks a literal;
* conformance: words of 4 bits (source: 64), two bitmap words, diagnostics of 2, at most 3 traps:
  indices cross a word boundary, lists are too long for the bitmap and short enough to lose all;
* import: widths to 4, memories of 2 and 4 words and up to 4 write ports, addresses one bit
  too wide; modules of two or three cells with every register kind, loops, undriven and unknown
  bits; packages whose modules instantiate each other in cycles;
* KianV: the package has 3 modules (source: 74) of which one is contracted, the floorplan 2 macros
  (source: 21); two replacements of files hit both sides of any read.

Every property of a passing run has a *mutant* in `PROJECT.json`: a definition with a plausible bug
(an operator named for it, above the definition it varies), under which TLC finds that property
violated.

### Fairness

* ring: `SystemRealize.lean` (`TimingPremise`) names as premises that each released clock keeps
  observing the other's counter. `SourceObserves` and `SinkServes` are weakly fair; the second
  includes a sink that keeps popping, which is the environment's part. No fairness of the source;
* mailbox: `SourceHears`, `SinkServes`: clocks tick, a phase is let through in the end, the sink
  pops. The source calls the synchronizers adversarial as to *when*; that they never deliver at
  all is what these exclude;
* recovery: both clocks tick (line 9: the reset manager requests "while the corresponding channel
  clock is alive"; line 25 puts clock availability outside). The return to traffic holds for inputs
  that become quiet;
* arbiter: the clock runs and the master ends what it started (`WF` of `Next` and `Cycle(TRUE)`):
  `HpMaster.lean` pulses done when the bus answers and, with `err`, 4096 cycles later at the latest.
  That a write gets through needs a bus that answers in that time. Programs get no fairness; `SomeoneProceeds` is about cores that do keep trying;
* epoch: `Bounded.lean` (`AckStep`) schedules an acknowledgement that is missing. Without it the
  source itself shows a counterexample (`unbounded_without_fairness`);
* gates: only that the clock ticks. The rest follows from `StrictlySchedulable`
  (`Theorems/T6.lean`), which `MCGateCore` states as an assumption that TLC evaluates.

Deadlock is checked except in `witness_dir`, `conformance_hw`, `import`, `import_guess` and `kianv`,
whose programs end.

## 4. What is proved

TLAPS proves the following for every value of the constants that satisfies the named assumptions of
the modules: no theorem bounds cells, volumes, domains, gates, slots, payloads, modules or files. Of
the 40 properties of the passing runs, 28 are theorems.

**`EpochProtocolProofs`.** `Inv` with `ReturnedBehind`, which relates the history variable to the
replicas. `InFlightCoherent` is why it is inductive: until volume k acknowledges, its replica of the
pending cell is exactly one `SatInc` behind, and all others equal their homes. `ReturnGuarantee`,
`RevocationWindow` and `DeathIsPermanent` follow.

**`LinksProofs`** is about the behaviours of `MCLinks`: `StepOfEach` reduces a step to a step or a
stutter of each part.

* ring: `ViewsAreConservative`: each view lies behind the counter it mirrors, with no assumption on
  when samples move. `NoCollision`: two counts less than `Depth` apart have different slots.
  `RingIsFaithful` for the same reason. `RefinesChan`: every event maps to one event of the abstract
  queue; `TailGrows` does the sequence arithmetic;
* queue: `QueueConserves`, from an invariant that keeps the queue within its depth;
* mailbox: the inductive invariant adds to `FlagsAreToggles` that a payload is pending only while
  the source is busy and visible only while it is pending; without that a delivery could meet an
  acceptance in one event. `MailboxRefinesChan` maps an acceptance to a push, a delivery to a pop
  and everything else to a stutter;
* recovery: `SplitIsQuiet`. The invariant (`Handshake`) describes the reachable pairs of endpoints
  as one handshake: a request travels to the peer and back as one front (`Front`), is held until it
  is answered and leaves nothing behind (`Held`), and is heard before the flush that ends it
  (`Heard`); while the halves disagree each end asks or hears its peer ask (`Quiet`), so neither is
  idle. `Agree` relates the two pointers to the queue, for which pointers must tell a full queue
  from an empty one (`RecoveryAssumption`). The theorem has the hypothesis that requests wait for
  their own endpoint (`~AnyTime`), which run `links` satisfies and run `recovery_requests` shows to
  be needed;
* arbiter: `OwedAnswers` follows one lane at a time (`LaneAdvances`): a request is in one of four
  places and moves to the next. `ConditionalStores` needs that *and* what a reservation means
  (`Reserves`): from the read that made it, and until a conditional store that used it is done,
  the other core has not written the word. `ArbiterAssumption` says that words and requests
  differ from `None`.

**`CapKernelProofs`**: authority. One lemma per function of `Capability`, one
per instruction of `CapKernel`. `TypeOK`, `AuthorityConfined`, `RegionsBacked` and `MoverBacked` are
inductive only together (`IInv`): an instruction narrows a kind that is in the tables, so the result
is confined because the first is; the cursors of a job do not wrap because the capability that
covers them ends within memory. The core of the cached authority is `KindsStable`: a reference alive
before an instruction and after it names the same kind, so sweeps may look at generations.

**`CapKernelProofs`**: the forest. `LedgerBalanced` is not inductive: a cell can balance and record
a parent that is dead, or one that descends from the child. `ForestInv` adds `Rooted`: a capability
is never in a retired slot, every recorded parent is alive, and no non-empty set of slots holds the
parents of all its members, so that parents are acyclic. Instructions change the tables in four ways
only (`Derives`, `Drops`, `Revokes`, `Transfers`; `CycleMoves`), and each keeps the invariant: that a spliced child does not skip to a dead
grandparent, that a transferred parent takes its children along, that a sweep leaves no child
behind. Three theorems follow: `LedgerIsBalanced`; `SweepIsComplete`, because a chain of parents
visits each slot at most once, so that as many rounds as there are slots reach the least fixpoint
(`RoundsMark`); and `ForestIsImplemented`, the refinement of `CapForest`, where `MarkedIsBelow`
identifies what a sweep marks with the strict descendants. `NoneAssumption` keeps `None` apart from
references, entries and lineage cells.

**`GateCoreProofs`.** `NextCases` reduces a cycle to what it does to budgets, gates and the latch.
`TypeOK` and `InflightRunning` are inductive together; `GatesConsistent` relative to them
(`ServedGate`: a gate that ends is the only one that names its server and its caller);
`BudgetsAreBounded` does not depend on who pays. `PayerIsTheOrigin`: `payer` walks a chain with a
fixed amount of fuel. `DepthsAreExact` is the invariant that makes it enough: the depth recorded in
an activation is one more than that of the activation its caller serves, so a walk cannot go round
and is no longer than the depth allowed.

**`KianvProofs`**: the evidence. `EvidenceTruth`: the inductive invariant says of every stage what the
next relies on. While a call runs the results that are not `stale` are about the files on disk; the
report binds those files; evidence is a report. A resumed or aborted call leaves an older report,
which keeps its own digests. A result is stale when a design was replaced after its comparison and
before the digests of the same call; the theorem says nothing of these. `EvidenceCompleteness`: a
report covers what was selected from the package its call loaded (`CallIsInside`,
`ReportIsInside`); an accepted one has as many different names as that package is expected to have
modules, so `--module` and `--leaves-only` left none out, and the counts of its statuses leave one
contract. The package a report binds is the loaded one unless it was replaced under the call. `PackagesAssumption`: a package is a sequence of modules.

**`KianvProofs`**: the hand-over. `HandoffIInv` says that what a call has still to write, and what a
manifest lists, is of one package, one emission and one source of the floorplan (`OneCall`), even
though the manifest takes its digests from the disk: an interrupted call never reaches its manifest.
Three facts about hierarchies make that enough.

* `TranslationsAreExact`: a path that is the translation of an earlier one would be in the
  floorplan twice when its turn comes, and is refused (`ConfigIsExact`). So no chain exists among
  the paths, and the power plan, which may hold more than them, is translated exactly too: it is the
  test on the floorplan that protects it, because both go through the paths in one order.
* `SameNumber`: emitted names are as different as names, so the floorplan has as many places as
  the package has paths.
* `PowerGoesDown`: below a module whose emitted paths are the package's, an instance that begins a
  path to a memory is the powered child that was found once, and its module's paths are again the
  package's. The modules with that property are the set that `PowerFlows` asks for.

`VerifiedCanBeBuilt` follows. The functions of the hierarchy exist (`PathsExist`, the least
fixpoint) and unfold for any hierarchy; where paths are sequences of names, or the walk for memories
and the walk for power agree (`ReachesIsPaths`), the modules must not instantiate each other in a
cycle, which both scripts test. `NamesAssumption`: emitted instance names are told apart as the names
are (the encoding at lines 41-48 is one-to-one and does not meet the identifiers it leaves alone),
and a module of Verilog text has one instance of a name; `OrderAssumption`: `sorted` lists every
path once, in whatever fixed order; `PlansAssumption`: a floorplan is a sequence and is not a
truncated file.

**`MiterProofs`**: `MitersAreSound`, what Yosys is told to compare. It has two halves.

* The relation between the two sides. A walk and the tables it builds are recursive functions on the
  modules of a package; `WalkIs`, `InstancesAre` and `TalliedIs` say what they list. A state of the
  miter pairs whatever both sides hold in one place (`PairsExact`), and no two pairs claim one word:
  the groups of a module begin where those before it end (`GroupsGrow`), so one group is one memory
  (`SameGroup`), and the slices of a group follow one another (`SlicesTake`, `WordsDisjoint`).
* The commands of a harness. `CutsInv` says what the commands executed so far have done to the nets:
  every child is deleted before the first port is cut, so that no deletion disconnects a contract;
  one port at most drives a bit and a name stands for one bit, so that no cut replaces another. At
  the end every name of an output carries its own contract and every input reads a net that
  something drives (`CutsKeep`).

`MitersAssumption`: a package has finitely many modules and no recursive hierarchy, which the
importer refuses, and sizes and widths are natural. `NetsAssumption`: a name stands for one bit of a
module, and one port at most drives a bit, as in every netlist that Yosys has checked.

**`ImportProofs`** is about the behaviours of `MCImport` that follow a package, a memory or a module.

* `PackagesAreComplete`: a package that passes holds every module below its top once, and no other.
  The closure is a worklist; its invariant (`Closure`) is that whatever is remembered is below the
  top, and that what is below a remembered module is remembered too unless that module is still
  pending. When nothing is pending the remembered set is closed, hence all of `Reference`
  (`ReferenceIs`: the least closed set). `CollectedIs` says what one look at a module adds, `Sequel`
  that a module is translated once, `Output` that both files are about all of them.
* `TablesAreTheTrees`: `TableInv` says that the table encodes the module that was done last.
  Interning lists parts first (`InternKeeps`, by induction over the objects): the objects it adds
  below an object are smaller than the object, so that none of them is the object itself, and each is
  listed once. So rows refer to earlier rows (`RowsAre`), a row stands for what its object stands for
  (`RowsStandForObjects`), and there are no more rows than objects (`SequenceCounts`).
* `MemoriesDoAgree` (the property `MemoriesAgree`): Loom's memory is Yosys's after every cycle, and a
  read finds its word. Both sides are loops over the ports, of different shape: Yosys masks bits in
  order, the importer groups the leading ports with literal addresses and writes whole words, each
  over what the earlier ports made of it. `IsWord` says what the first ports make of a word, bit by
  bit: what the last port that writes the bit says, or what was there. A word is determined by that
  (`OneWord`), grouping does not change it (`GroupedIs`: a group joins only ports of its own address,
  and one group at most writes a word), and both loops keep it (`CommittedIs` with `AccumulatedIs`,
  `YosysWrittenIs`). An address is cut to the memory only after a write past the end has lost its
  mask (`PortsAre`), as the size is a power of two (`SizeIs`); a read-only memory is a chain of
  choices that ends at the word asked for (`ReadIs`). The invariant `MemoryInv` says that the
  memories are equal and that a ready cell has a shape the importer takes.
* `ModulesMeanTheirNetlists` (the property `ModulesAreExact`): a module that passes means what its
  netlist means, whatever the values of its nets. The walk of `expr` goes from a vector to what it
  asks next: the cell that drives it, that cell's operands, or its bits one by one.
  * It ends (`RanksFound`): each question leaves fewer cells outside the stack, or as many and only
    single bits, or as many and fewer vectors still to read (`Room`, `Long`, `Count`,
    `AskedIsBelow`); so it has a value for every vector (`FoundedRecursion`). Only a single net that
    nothing drives would be asked for again; that is the overflow (`UndrivenIs`).
  * Each answer keeps what was known (`ExprsAre`, with `CellIs` for a cell and `FromCellIs`,
    `SinglesAre` for a vector): the cache holds values of cells that are settled (`Known`), blockers
    are only added (`Goes`), and unless there is one the answer is the value of its bits (`Stands`).
  * A cell is settled when its operands settle before it. The settled cells are closed
    (`SettledIs`), so everything a passing module emits needs settled cells only (`NeededIs`): no
    loop. `OneDriver`: without shared bits a bit has one driver, the cell the walk finds.
    Everything is compared in every assignment of the nets that agrees with every cell.
  * `ModuleInv` says how far a translation is (`Progress`), what it must have blocked for by then
    (`Cautious`: shared bits, cells of unknown kind, asynchronous resets), and that without a blocker
    what it has emitted is right (`Right`). One lemma per action keeps it; `NextIs` compares the next
    value of a register with the cell, enables and resets included.
* `InventoriesAgree` (`InventoryAgrees`) follows from the same invariant (`RecordIsRight`): a cell of
  unknown kind is swept into a blocker at the latest after the last instance, and the domains are
  those of the registers in the order of the cells.

`MemoriesAssumption`: sizes are integers, a literal address has no more bits than an address port and
an initial word none past its width: Yosys' cells hold such fields, and the importer slices them so.

`DesignsAssumption`: a design has finitely many modules, numbered in the order of their sorted
names, and an expression is made of expressions that exist already: `ModuleTranslator` builds them
bottom up and never assigns into one.

`NetlistsAssumption`: as in a netlist that Yosys has checked, vectors are sequences of bits, the
outputs of a cell are nets and not constants, and no cell drives an input port.
`PoliciesAssumption`: a policy has finitely many rules.

`Induction` states induction and recursion on the naturals, along a rank (`RankInduction`,
`RankRecursion`), along a relation in which every set has a least member (`FoundedRecursion`) and
over the steps of a loop (`Iteration`), about sets and functions. Recursive operators are unknown to
the provers used; recursive *functions* (`Origin`, `SelectedOf`, `MarksByRounds`, `Walk`, `Visited`,
`Intern`, `Power`, `Exprs`, `Settled`, `Needed`) exist and unfold by its theorems, and what they
compute is proved by induction over the set of arguments for which it holds.

Only model-checked:

* liveness (`EveryPayloadDelivered`, `RecoveryEnds`, `SomeoneProceeds`, `BumpReturns`, `NoHostage`):
  temporal proofs under fairness are out of reach of the provers used;
* the lowering of a cell (`LoweringIsExact`): it compares operators of Loom and of Yosys on every
  pair of operands, which is arithmetic on the bits of integers that the provers do not have;
* the witness generator (`ReleaseIsFresh`, `ModulesCompile`, `ProofsIndexText`, `BindingIsExact`):
  its definitions use recursive operators over trees and texts;
* `ResultsAreTrue`, `ExitIsJustified` of the conformance leg: bit patterns and a recursive run.

## 5. Findings

1. **yield** (`gate_core_yield`). `yield` (`Isa/System.lean:367-376`) empties the budget of the domain
   that executes it; the scheduler (`Step.lean:71-77`) looks at the budget of the *payer*. In the
   trace `dc` yields while it serves no gate, so its budget is 0; `da` then calls the gate that `dc`
   serves, and `dc` is issued on `da`'s budget, before its own refill. The manual text (374-376)
   says that it is rescheduled at its next refill. `NoHostage` does not depend on it.
2. **recovery requests** (`recovery_requests`). `Endpoint.step` does not tell the levels of one
   handshake from those of the last. A request that rises while an endpoint is still flushed finds
   both ends flushed: `completes` fires at once, and the request level drops before the peer has
   answered it. The peer answers late; the source, which sees neither request nor acknowledgement,
   idles and takes traffic; then the late acknowledgement arrives, and the next request takes it for
   its own. The source half is reset with a payload in the channel while the sink still delivers.
   That is what lines 14-22 and 77-80 of `RecoveryProtocol.lean` exclude. It needs a request within
   the drain of the last handshake, which takes a few ticks of each clock. With requests that wait
   until their own endpoint has left the flush, run `links` finds nothing.
3. **shift amounts** (`import_guess`). The docstring of `yosys_to_loom_ir.py` (lines 8-9) says that
   unsupported cells are never guessed. Both operands of a `$shl` go through the generic resize to
   the width of the result (941-945). In the trace the result has one bit, the operand is 1 and the
   amount is 2, in two bits: cut to one bit the amount is 0, and the lowered cell gives 1 where the
   cell gives 0, without a blocker. `LoweringIsExact` leaves out such amounts, and also `$div` and
   `$mod` of signed operands, which become the unsigned operators.

Smaller disagreements met while modelling, without a run of their own:

* `gen_release_witness.py:1286-1288` says that surplus modules are removed; only some families are
  (compare 704, 725, 755, 856, 884, 1714, 1781). `BindingIsExact` shows what follows: the
  binding refuses a complete call only for leftovers;
* `conformance_hw.py`: when the simulator is missing, the RTL leg says SKIP (537) although
  428-429 ask for it; the RTL comparison (551) stops at the first trap, 546-547 speak of all;
* `yosys_to_loom_ir.py`: the helper at 137 describes shift amounts that the generic resize (941-945)
  cuts first; 1004 reads an `x` in `SRST_VALUE` as 0 without the policy that 1236 enforces;
* `verilog_inventory.py:253` counts blocked modules by another rule than 362-366 list them;
* `kianv_equivalence_evidence.py:78` says 74 of 74 modules; with `--module` the 74 may be a
  selection of a larger package. The runner takes its digests after the proofs
  (`kianv_bottom_up_equivalence.py:433-437`), so a file replaced after its comparison is bound
  unproved, and a package replaced while the call runs is bound without its modules. The runner
  cannot see either. `EvidenceIsTrue` leaves out the results of modules compared before such a
  replacement (`stale`), `EvidenceIsComplete` speaks of the package the call loaded (`repackaged`
  says that the bound one is another); replacements before a comparison or between calls are in;
* `verify_kianv_physical_handoff.py:112-113` promises "exactly once" for the power plan and tests
  that it occurs;
* `Core.lean:2261-2263`: a thread switch within a core keeps `lr_valid` and the arbiter's
  reservation, and a core's own plain store clears neither, so LR/SC does not order two threads of
  one core.

## 6. Not modelled

* LNP64-mu base instructions, encodings, assembler: sequential; the hardware core (`Hw/`), the
  Epoch engine, the Gray-pointer circuit of the FIFO, `CapWalk`: refinements of what is modelled,
  planned;
* recovery beyond one channel: the coordinated commit (`RecoveryProtocol.lean:227-296`),
  `SystemRecovery`, the generated controllers, metastability;
* LNP64mini beyond its arbiter: threads, park and wake, caches, the GP master; in `HpArbiter` the
  bus phases of the memory master, its `err` flag and what an aborted write leaves in memory, the
  `busy` flag, which mirrors `st`, and the data lines;
* the hardware DSL, compiler and emitters: functions over unbounded syntax trees, proved in Lean;
  the certificate checkers of `Loom/Dp`;
* in modelled scripts: the text of right-hand sides and proof terms, the flat and single-program
  emission (`emit`, `emit_program_tail`), the text of the drivers of the certificate generators,
  names and source locations of the importer, JSON layout, `--flatten-module`, the digest of the
  contract file, digests of helper tools, checks on the padframe, on synthesis options and on
  antenna diodes, a failing assembler or simulator, reports and environment;
* the other scripts: text checks, cost fits, test vectors, vendor tools, board files; they read their
  inputs once and keep no state.

Within modelled components, memory contents, register values, errno codes and the order of error
checks are abstracted; `CapKernel` and `GateCore` each keep the guards of the other as arbitrary
choices, so each over-approximates the machine.

## 7. Plan

Done: capability kernel, scheduler and gates, epoch protocol, channels, recovery, arbiter, the
release scripts. Next, in this order:

1. proofs: `ResultsAreTrue` and `ExitIsJustified` of the conformance leg, whose invariant relates
   the results to the vectors that were removed; `ReleaseIsFresh` over the calls that write and
   prune;
2. threads within a core of LNP64mini over `HpArbiter`, then park and wake;
3. finite-width Gray pointers as a refinement of `AsyncFifo`; the coordinated commit over
   `RecoveryProtocol`;
4. `CapWalk` over `EpochProtocol`; the Epoch engine as its refinement;
5. the composition of `CapKernel` and `GateCore`.

## 8. Running

In this directory: `tlc -config Links.cfg MCLinks` (module and configuration of each run are in
`PROJECT.json`), `tlapm LinksProofs.tla`.

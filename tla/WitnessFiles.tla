------------------------------ MODULE WitnessFiles ------------------------------
(***************************************************************************)
(* What the release witness generator writes: the canonical RTL it reads,  *)
(* the sections it parses it into, and, file by file, the names every      *)
(* generated Lean module imports, declares and mentions, with the RTL      *)
(* lines, ropes and concatenations that the byte binding reads back.       *)
(***************************************************************************)
EXTENDS WitnessRope, FiniteSets

CONSTANTS BlockSize,    \* wires (and initial words) per block: --block-size
          BatchBlocks,  \* wire blocks per module: --batch-blocks
          Sixteen,      \* the literal 16: registers, outputs, chunks, evidence, ports
          Four,         \* the literal 4: wire blocks per semantic batch
          CheckSize     \* the literal 64: wires per kernel check

ASSUME SizesPositive ==
  /\ {BlockSize, BatchBlocks, Sixteen, Four, CheckSize} \subseteq Nat \ {0}
  /\ \E k \in 0..8 : Sixteen = 2 ^ k

(* A design: how many outputs, registers and wires it has, its memories as  *)
(* records [size, writes], and a tag that tells two texts of one shape apart. *)
Design == [tag : Nat, outs : Nat, regs : Nat, wires : Nat, mems : Seq([size : Nat, writes : Nat])]

Line(k, i, j, v) == [k |-> k, i |-> i, j |-> j, v |-> v]
Lines(k, i, count, v) == [n \in 1..count |-> Line(k, i, n - 1, v)]
Kind(lines, k) == SelectSeq(lines, LAMBDA l : l.k = k)
OverMems(d, piece(_)) == FlattenSeq([m \in 1..Len(d.mems) |-> piece(m)])

(* The text of a design in the order the printer writes it. *)
Prefix(d) ==
  Lines("head", 0, 3, 0) \o Lines("output", 0, d.outs, 0) \o <<Line(");", 0, 0, 0)>>
  \o Lines("regdecl", 0, d.regs, 0) \o Lines("memdecl", 0, Len(d.mems), 0)
MemText(d, m) ==
  <<Line("initial", m - 1, 0, 0)>> \o Lines("init", m - 1, d.mems[m].size, d.tag)
  \o <<Line("initend", m - 1, 0, 0)>>
Suffix(d) ==
  <<Line("always", 0, 0, 0), Line("if rst", 0, 0, 0)>> \o Lines("reset", 0, d.regs, 0)
  \o <<Line("else", 0, 0, 0)>> \o Lines("next", 0, d.regs, d.tag)
  \o OverMems(d, LAMBDA m : Lines("write", m - 1, d.mems[m].writes, 0))
  \o <<Line("end", 0, 0, 0), Line("end", 1, 0, 0)>> \o Lines("assign", 0, d.outs, d.tag)
  \o <<Line("endmodule", 0, 0, 0)>>
Rtl(d) ==
  Prefix(d) \o OverMems(d, LAMBDA m : MemText(d, m)) \o Lines("wire", 0, d.wires, d.tag) \o Suffix(d)

(* The sections the parser cuts the text into: the walk stops at the first  *)
(* line of another kind, the memory writes go to the memory they name.      *)
PrefixLength(lines) ==
  Len(Kind(lines, "head")) + Len(Kind(lines, "output")) + 1
  + Len(Kind(lines, "regdecl")) + Len(Kind(lines, "memdecl"))
Parse(lines) ==
  LET always == CHOOSE n \in DOMAIN lines : lines[n].k = "always" IN
  [prefix |-> Slice(lines, 0, PrefixLength(lines)),
   regs   |-> Kind(lines, "regdecl"),
   mems   |-> [m \in 1..Len(Kind(lines, "memdecl")) |->
                [init   |-> SelectSeq(lines, LAMBDA l : l.k = "init" /\ l.i = m - 1),
                 writes |-> SelectSeq(lines, LAMBDA l : l.k = "write" /\ l.i = m - 1)]],
   wires  |-> Kind(lines, "wire"),
   outs   |-> Kind(lines, "output"),
   suffix |-> Slice(lines, always - 1, Len(lines))]
--------------------------------------------------------------------------------
(* Names and modules are triples of a kind and two indices. *)
Name(k, i) == <<k, i, 0>>
Names(kinds, S) == {Name(k, i) : k \in kinds, i \in S}
Range0(from, to) == from..(to - 1)
Below(to, count) == IF to < count THEN to ELSE count

File(file, imports, defs, uses) ==
  [file |-> file, imports |-> imports, defs |-> defs, uses |-> uses,
   text |-> <<>>, leaves |-> <<>>, ropes |-> <<>>, lists |-> <<>>]

Blocks(p) == Chunks(p.wires, BlockSize)
BlockCount(p) == Len(Blocks(p))
BatchSpan(b, per, count) == Range0(b * per, Below((b + 1) * per, count))
Batches(p) == Range0(0, CeilDiv(BlockCount(p), BatchBlocks))
Evidence(p) == Range0(0, CeilDiv(BlockCount(p), Sixteen))
ChunkCount(p) == CeilDiv(BlockCount(p), Sixteen)
ChunkSpan(p, c) == BatchSpan(c, Sixteen, BlockCount(p))
ChunkBatches(p) == Range0(0, CeilDiv(ChunkCount(p), Sixteen))
RegBlocks(p) == Range0(0, Len(Chunks(p.regs, Sixteen)))
OutBlocks(p) == Range0(0, Len(Chunks(p.outs, Sixteen)))
InitBlocks(p, m) == Range0(0, Len(Chunks(p.mems[m + 1].init, BlockSize)))
Mems(p) == Range0(0, Len(p.mems))

(* The checked declarations of block b, and what the bridge names of them: the *)
(* block and its two halves only.                                              *)
Indexed(p, b) ==
  {<<"indexed", b, path>> : path \in CheckedNodes(Len(Blocks(p)[b + 1]), CheckSize, <<>>)}
BridgeNames(p, b) ==
  {<<"indexed", b, path>> :
     path \in {<<>>} \union (IF Len(Blocks(p)[b + 1]) > CheckSize THEN {<<"L">>, <<"R">>} ELSE {})}
IndexedBlock(b) == <<"indexed", b, <<>> >>
--------------------------------------------------------------------------------
(* The wire modules. *)

BatchFile(p, i) ==
  LET span == BatchSpan(i, BatchBlocks, BlockCount(p)) IN
  [File(Name("Batch", i), {}, Names({"wireBlock", "diskWireBlock", "renderWireBlock"}, span), {})
     EXCEPT !.leaves = [n \in Names({"diskWireBlock"}, span) |-> Blocks(p)[n[2] + 1]],
            !.text = [b \in span |-> Blocks(p)[b + 1]]]

IndexedBatchFile(p, i) ==
  LET span == BatchSpan(i, BatchBlocks, BlockCount(p)) IN
  [File(Name("IndexedBatch", i), {Name("Batch", i)},
       UNION {Indexed(p, b) : b \in span} \union Names({"indexedMatches"}, span),
       Names({"wireBlock"}, span))
     EXCEPT !.text = [b \in span |-> Blocks(p)[b + 1]]]

FastBatchFile(p, i) ==
  LET span == BatchSpan(i, BatchBlocks, BlockCount(p)) IN
  [File(Name("FastIndexedBatch", i), {}, Names({"fastLookup", "fastBlock"}, span), {})
     EXCEPT !.text = [b \in span |-> LookupTree(Blocks(p)[b + 1])]]

FastRootFile(p) ==
  LET all == Range0(0, BlockCount(p)) IN
  [File(Name("FastIndexedRoot", 0), Names({"FastIndexedBatch"}, Batches(p)),
       {Name("fastTree", 0), Name("fastTable", 0)} \union Names({"fastResolve"}, all),
       Names({"fastBlock"}, all)) EXCEPT !.text = BalancedPaths(BlockCount(p))]

EvidenceFile(p, i) ==
  LET span == BatchSpan(i, Sixteen, BlockCount(p)) IN
  [File(Name("FastLookupEvidenceBatch", i), {Name("FastIndexedRoot", 0)}, Names({"fastEvidence"}, span),
       {Name("fastTree", 0), Name("fastTable", 0)} \union Names({"fastBlock", "fastResolve"}, span))
     EXCEPT !.text = [b \in span |-> BalancedPaths(BlockCount(p))[b + 1]]]

EvidenceRootFile(p) ==
  File(Name("FastLookupEvidenceRoot", 0), Names({"FastLookupEvidenceBatch"}, Evidence(p)), {}, {})

CheckedBlocksFile(p) ==
  LET all == Range0(0, BlockCount(p)) IN
  [File(Name("FastCheckedIndexedBlocks", 0), {Name("FastLookupEvidenceRoot", 0)},
       {Name("fastCheckedBlocks", 0)} \union Names({"fastChecked"}, all),
       Names({"fastBlock", "fastEvidence"}, all))
     EXCEPT !.text = LookupTree([b \in 1..BlockCount(p) |-> b - 1])]

BridgeFile(p, i) ==
  LET span == BatchSpan(i, BatchBlocks, BlockCount(p)) IN
  File(Name("FastIndexedBridgeBatch", i), {Name("IndexedBatch", i), Name("FastIndexedBatch", i)},
       Names({"fastBlockEq"}, span),
       Names({"fastBlock", "fastLookup"}, span) \union UNION {BridgeNames(p, b) : b \in span})

BridgeRootFile(p) ==
  File(Name("FastIndexedBridge", 0),
       {Name("IndexedRoot", 0), Name("FastIndexedRoot", 0)} \union Names({"FastIndexedBridgeBatch"}, Batches(p)),
       {Name("bridge", 0)},
       {Name("fastTree", 0), Name("indexedTree", 0)} \union Names({"fastBlockEq"}, Range0(0, BlockCount(p))))

(* The batches that hold a set of blocks.  Mutant: only the one of the first. *)
OwnersOfFirst(span) == {b \div BatchBlocks : b \in {b \in span : \A c \in span : b <= c}}
Owners(span) == {b \div BatchBlocks : b \in span}

(* Chunks of sixteen blocks, sixteen chunks to a module; the module imports *)
(* the batches that own its blocks.                                        *)
TreeChunkFile(p, i) ==
  LET chunks == BatchSpan(i, Sixteen, ChunkCount(p))
      span   == UNION {ChunkSpan(p, c) : c \in chunks}
      Tree(c) == Balanced(Leaves([n \in 1..Cardinality(ChunkSpan(p, c)) |->
                                    Name("diskWireBlock", c * Sixteen + n - 1)])) IN
  [File(Name("TreeChunkBatch", i), Names({"IndexedBatch"}, Owners(span)),
       Names({"wireChunk", "indexedChunk", "diskWireTreeChunk", "chunkMatches", "renderChunk"}, chunks),
       Names({"wireBlock", "diskWireBlock", "renderWireBlock", "indexedMatches"}, span)
         \union {IndexedBlock(b) : b \in span})
     EXCEPT !.ropes = [n \in Names({"diskWireTreeChunk"}, chunks) |-> Tree(n[2])]]

ChunkNames(p, k) == [c \in 1..ChunkCount(p) |-> Name(k, c - 1)]

IndexedRootFile(p) ==
  LET chunks == Range0(0, ChunkCount(p)) IN
  [File(Name("IndexedRoot", 0), Names({"TreeChunkBatch"}, ChunkBatches(p)),
       {Name("wireTree", 0), Name("indexedTree", 0), Name("wiresMatch", 0), Name("wireTable", 0)}
         \union Names({"indexedResolve"}, Range0(0, BlockCount(p))),
       Names({"wireChunk", "indexedChunk", "chunkMatches"}, chunks)
         \union {IndexedBlock(b) : b \in Range0(0, BlockCount(p))})
     EXCEPT !.text = BalancedPaths(BlockCount(p))]

SemanticRootFile(p) ==
  [File(Name("SemanticRoot", 0), {Name("IndexedRoot", 0)}, {Name("Semantic.program", 0)}, {Name("wireTree", 0)})
     EXCEPT !.text = <<p.prefix, p.suffix, p.mems>>]
--------------------------------------------------------------------------------
(* The program and its text. *)

MemDataFile(p, m) ==
  [File(Name("MemData", m), {}, {Name("mem", m)} \union {<<"memInit", m, b>> : b \in InitBlocks(p, m)}, {})
     EXCEPT !.text = p.mems[m + 1]]

MemRenderFile(p, m, b) ==
  LET disk == <<"diskMemInit", m, b>> IN
  [File(<<"MemRender", m, b>>, {Name("MemData", m)}, {disk, <<"renderMemInit", m, b>>}, {Name("mem", m), <<"memInit", m, b>>})
     EXCEPT !.leaves = [n \in {disk} |-> Chunks(p.mems[m + 1].init, BlockSize)[b + 1]]]

MemRootFile(p, m) ==
  LET blocks == InitBlocks(p, m)
      start == Name("diskMemStart", m)
      init == Name("diskMemInitTree", m)
      end == Name("diskMemEnd", m)
      disk == Name("diskMemTree", m)
      Body(n) == IF n = init
                 THEN Balanced(Leaves([b \in 1..Cardinality(blocks) |-> <<"diskMemInit", m, b - 1>>]))
                 ELSE Node(Leaf(start), Node(Leaf(init), Leaf(end))) IN
  [File(Name("MemRoot", m), {Name("MemData", m)} \union {<<"MemRender", m, b>> : b \in blocks},
       {start, init, end, disk, Name("renderMem", m)},
       {Name("mem", m)} \union {<<k, m, b>> : k \in {"diskMemInit", "renderMemInit"}, b \in blocks})
     EXCEPT !.leaves = [n \in {start, end} |-> <<Line(IF n = start THEN "initial" ELSE "initend", m, 0, 0)>>],
            !.ropes = [n \in {init, disk} |-> Body(n)]]

ProgramDataFile(p) ==
  [File(Name("ProgramData", 0), {Name("IndexedRoot", 0)} \union Names({"MemData"}, Mems(p)),
       {Name("program", 0)} \union Names({"programRegBlock"}, RegBlocks(p)) \union Names({"programOutBlock"}, OutBlocks(p)),
       {Name("wireTree", 0)} \union Names({"mem"}, Mems(p)))
     EXCEPT !.text = <<p.regs, p.outs, p.suffix>>]

(* Where the sections lie in the prefix and in the suffix. *)
HeaderCount(p) == Len(p.prefix) - Len(p.regs) - Len(p.mems)
ResetStart == 2
NextStart(p) == ResetStart + Len(p.regs) + 1
WritesStart(p) == NextStart(p) + Len(p.regs)
WritesCount(p) == FoldSeq(LAMBDA mem, n : n + Len(mem.writes), 0, p.mems)
OutsStart(p) == WritesStart(p) + WritesCount(p) + 2

FramingRegFile(p, b) ==
  LET from == b * Sixteen
      to == Below(from + Sixteen, Len(p.regs))
      At(start) == Slice(p.suffix, start + from, start + to) IN
  [File(Name("FramingReg", b), {Name("ProgramData", 0)},
       Names({"diskRegDeclBlock", "diskRegResetBlock", "diskRegNextBlock", "renderRegBlock"}, {b}),
       Names({"programRegBlock"}, {b}))
     EXCEPT !.leaves = Name("diskRegDeclBlock", b) :> Slice(p.prefix, HeaderCount(p) + from, HeaderCount(p) + to)
                       @@ Name("diskRegResetBlock", b) :> At(ResetStart)
                       @@ Name("diskRegNextBlock", b) :> At(NextStart(p))]

FramingOutFile(p, b) ==
  LET from == b * Sixteen
      to == Below(from + Sixteen, Len(p.outs)) IN
  [File(Name("FramingOut", b), {Name("ProgramData", 0)}, Names({"diskOutBlock", "renderOutBlock"}, {b}),
       Names({"programOutBlock"}, {b}))
     EXCEPT !.leaves = Name("diskOutBlock", b) :> Slice(p.suffix, OutsStart(p) + from, OutsStart(p) + to)]

FixedLeaves(p) ==
  Name("diskHeader", 0) :> Slice(p.prefix, 0, HeaderCount(p))
  @@ Name("diskMemDecls", 0) :> Slice(p.prefix, HeaderCount(p) + Len(p.regs), Len(p.prefix))
  @@ Name("diskAlwaysStart", 0) :> Slice(p.suffix, 0, ResetStart)
  @@ Name("diskAlwaysMiddle", 0) :> Slice(p.suffix, ResetStart + Len(p.regs), NextStart(p))
  @@ Name("diskMemWrites", 0) :> Slice(p.suffix, WritesStart(p), WritesStart(p) + WritesCount(p))
  @@ Name("diskAlwaysEnd", 0) :> Slice(p.suffix, WritesStart(p) + WritesCount(p), OutsStart(p))
  @@ Name("diskModuleEnd", 0) :> Slice(p.suffix, Len(p.suffix) - 1, Len(p.suffix))

FramingFixedFile(p) ==
  [File(Name("FramingFixed", 0), {Name("ProgramData", 0)}, DOMAIN FixedLeaves(p), {})
     EXCEPT !.leaves = FixedLeaves(p)]

(* The memories' trees hang on a right spine, as the renderer's do. *)
MemSpine(p) == FoldRight(LAMBDA m, t : IF t = Empty THEN Leaf(m) ELSE Node(Leaf(m), t),
                         [m \in 1..Len(p.mems) |-> Name("diskMemTree", m - 1)], Empty)

BlockNames(k, count) == [b \in 1..count |-> Name(k, b - 1)]

RootFile(p) ==
  LET regs == Cardinality(RegBlocks(p))
      outs == Cardinality(OutBlocks(p))
      ropes == Name("diskWireLineTree", 0) :> Balanced(Leaves(ChunkNames(p, "diskWireTreeChunk")))
               @@ Name("diskMemTrees", 0) :> MemSpine(p)
               @@ Name("diskTree", 0) :> Node(Leaf(Name("diskPrefix", 0)),
                    Node(Leaf(Name("diskMemTrees", 0)),
                         Node(Leaf(Name("diskWireTree", 0)), Leaf(Name("diskSuffix", 0)))))
      lists == Name("diskPrefix", 0) :>
                 <<Name("diskHeader", 0)>> \o BlockNames("diskRegDeclBlock", regs) \o <<Name("diskMemDecls", 0)>>
               @@ Name("diskSuffix", 0) :>
                 <<Name("diskAlwaysStart", 0)>> \o BlockNames("diskRegResetBlock", regs)
                 \o <<Name("diskAlwaysMiddle", 0)>> \o BlockNames("diskRegNextBlock", regs)
                 \o <<Name("diskMemWrites", 0), Name("diskAlwaysEnd", 0)>>
                 \o BlockNames("diskOutBlock", outs) \o <<Name("diskModuleEnd", 0)>> IN
  [File(Name("Root", 0),
       {Name("ProgramData", 0), Name("IndexedRoot", 0), Name("FramingFixed", 0)}
         \union Names({"FramingReg"}, RegBlocks(p)) \union Names({"FramingOut"}, OutBlocks(p))
         \union Names({"MemRoot"}, Mems(p)),
       DOMAIN ropes \union DOMAIN lists \union {Name("diskWireTree", 0)},
       {Name("wireTree", 0), Name("program", 0)} \union Names({"renderMem"}, Mems(p))
         \union Names({"diskWireTreeChunk", "renderChunk"}, Range0(0, ChunkCount(p)))
         \union Names({"renderRegBlock"}, RegBlocks(p)) \union Names({"renderOutBlock"}, OutBlocks(p))
         \union UNION {ToSet(lists[n]) : n \in DOMAIN lists})
     EXCEPT !.ropes = ropes, !.lists = lists]
================================================================================

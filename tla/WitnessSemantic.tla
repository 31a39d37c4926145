----------------------------- MODULE WitnessSemantic -----------------------------
(***************************************************************************)
(* The semantic certificates the generator writes when it is given a design *)
(* expression, and the order in which one call writes, prunes and checks.   *)
(***************************************************************************)
EXTENDS WitnessFiles

(* hybrid: TRUE for the artifact whose register certificates come from elsewhere. *)
Regs(p) == Range0(0, Len(p.regs))
RegBatches(p) == Range0(0, CeilDiv(Len(p.regs), Sixteen))
Ports(p) == UNION {{<<m, w>> : w \in Range0(0, Len(p.mems[m + 1].writes))} : m \in Mems(p)}
PortBatches(p) == Range0(0, CeilDiv(WritesCount(p), Sixteen))
WireBatches(p) == Range0(0, CeilDiv(BlockCount(p), Four))

SemanticWireFile(p, i) ==
  LET span == BatchSpan(i, Four, BlockCount(p)) IN
  File(Name("SemanticWireBatch", i), {Name("Root", 0)}, Names({"semanticLeaf"}, span),
       {Name("program", 0), Name("indexedTree", 0), Name("wireTable", 0)} \union {IndexedBlock(b) : b \in span})

SemanticWiresFile(p) ==
  File(Name("SemanticWires", 0), Names({"SemanticWireBatch"}, WireBatches(p)), {Name("wiresWellFormed", 0)},
       {Name("indexedTree", 0)} \union Names({"semanticLeaf"}, Range0(0, BlockCount(p))))

SemanticRegFile(p, i, hybrid) ==
  LET span == BatchSpan(i, Sixteen, Len(p.regs)) IN
  IF hybrid
  THEN File(Name("SemanticRegBatch", i), Names({"HybridReg"}, span),
            Names({"outputBehavior"}, span), {Name("program", 0)})
  ELSE [File(Name("SemanticRegBatch", i), {Name("Root", 0), Name("PlanCertBatch", i)},
             Names({"outputBehavior", "registerBehavior"}, span),
             {Name("program", 0), Name("wiresMatch", 0)} \union Names({"planCert"}, span))
          EXCEPT !.text = Slice(p.suffix, NextStart(p) + i * Sixteen, NextStart(p) + (i + 1) * Sixteen)]

SemanticRegsFile(p) ==
  [File(Name("SemanticRegs", 0), Names({"SemanticRegBatch"}, RegBatches(p)), {Name("registerRoots", 0)},
       {Name("program", 0)} \union Names({"outputBehavior", "registerBehavior"}, Regs(p)))
     EXCEPT !.text = Slice(p.suffix, NextStart(p), WritesStart(p))]

ReadRegFile(p, r) ==
  File(Name("ReadRegBatch", r), {Name("Root", 0)}, Names({"registerRead", "registerDeclared"}, {r}), {Name("program", 0)})
ReadRegsFile(p) == File(Name("ReadRegs", 0), Names({"ReadRegBatch"}, Regs(p)), {}, {})
DeclMemFile(p, m) == File(Name("DeclMemBatch", m), {Name("Root", 0)}, Names({"memoryDeclared"}, {m}), {})
DeclMemsFile(p) == File(Name("DeclMems", 0), Names({"DeclMemBatch"}, Mems(p)), {}, {})

SemanticActionsFile(p) ==
  File(Name("SemanticActions", 0), {Name("ReadRegs", 0), Name("DeclMems", 0)}, {Name("rulesDeclared", 0)},
       Names({"registerDeclared"}, Regs(p)) \union Names({"memoryDeclared"}, Mems(p)))
SemanticDesignWFFile ==
  File(Name("SemanticDesignWF", 0), {Name("SemanticActions", 0)}, {Name("designWF", 0)}, {Name("rulesDeclared", 0)})
SemanticReadsFile(p) ==
  File(Name("SemanticReads", 0), {Name("ReadRegs", 0)}, {Name("designReads", 0)}, Names({"registerRead"}, Regs(p)))

SemanticMemBaseFile(p) ==
  File(Name("SemanticMemBase", 0), {Name("Root", 0)}, Names({"sourceMemory"}, Mems(p)),
       {Name("program", 0)} \union Names({"mem"}, Mems(p)))
MemInitFile(p, m, b) ==
  File(<<"SemanticMemInit", m, b>>, {Name("Root", 0)}, {<<"initBehavior", m, b>>}, {<<"memInit", m, b>>})
MemPortFile(p, m, w) ==
  [File(<<"SemanticMemPort", m, w>>, {Name("SemanticMemBase", 0)} \union Names({"IndexedPortCertBatch"}, PortBatches(p)),
       {<<"portAt", m, w>>},
       {Name("wiresMatch", 0), Name("sourceMemory", m), Name("mem", m), <<"portCert", m, w>>})
     EXCEPT !.text = p.mems[m + 1].writes[w + 1]]
SemanticMemsFile(p) ==
  LET inits == UNION {{<<m, b>> : b \in InitBlocks(p, m)} : m \in Mems(p)} IN
  [File(Name("SemanticMems", 0),
       {Name("SemanticMemBase", 0)} \union {<<"SemanticMemInit", x[1], x[2]>> : x \in inits}
         \union {<<"SemanticMemPort", x[1], x[2]>> : x \in Ports(p)},
       {Name("memoryRoots", 0)},
       Names({"sourceMemory"}, Mems(p)) \union {<<"initBehavior", x[1], x[2]>> : x \in inits}
         \union {<<"portAt", x[1], x[2]>> : x \in Ports(p)})
     EXCEPT !.text = p.mems]

SemanticModuleFile ==
  File(Name("SemanticModule", 0), Names({"SemanticWires", "SemanticRegs", "SemanticMems", "SemanticReads"}, {0}),
       {Name("moduleBehavior", 0)},
       Names({"wiresMatch", "wiresWellFormed", "designReads", "registerRoots", "memoryRoots", "program"}, {0}))
(* Written for the two artifacts Acc8 (not hybrid) and Lnp64u (hybrid) only.  *)
SemanticReleaseFile(hybrid) ==
  LET wf == IF hybrid THEN {0} ELSE {} IN
  File(Name("SemanticRelease", 0), Names({"SemanticModule"}, {0}) \union Names({"SemanticDesignWF"}, wf),
       {Name("verifiedRelease", 0)},
       Names({"moduleBehavior", "program", "diskTree", "registerRoots", "memoryRoots"}, {0}) \union Names({"designWF"}, wf))

(* The programs that write certificates; no module of the release imports them. *)
CertGenFile(hybrid) == [File(Name("CertGen", 0), {}, {}, {}) EXCEPT !.text = <<hybrid>>]
CertGenPortsFile(hybrid) == [File(Name("CertGenPorts", 0), {}, {}, {}) EXCEPT !.text = <<hybrid>>]

(* Written elsewhere: sixteen plan certificates or port certificates to a   *)
(* module, or one hybrid module per register.                               *)
PortAt(p, n) == CHOOSE x \in Ports(p) :
  n = x[2] + FoldSeq(LAMBDA mem, k : k + Len(mem.writes), 0, SubSeq(p.mems, 1, x[1]))
HybridRegFile(r) == File(Name("HybridReg", r), {Name("Root", 0)}, {Name("registerBehavior", r)}, {})
PlanCertFile(p, b) == File(Name("PlanCertBatch", b), {}, Names({"planCert"}, BatchSpan(b, Sixteen, Len(p.regs))), {})
PortCertFile(p, b) ==
  File(Name("IndexedPortCertBatch", b), {},
       {<<"portCert", PortAt(p, n)[1], PortAt(p, n)[2]>> : n \in BatchSpan(b, Sixteen, WritesCount(p))}, {})
CertificateFiles(p, hybrid) ==
  (IF hybrid THEN {HybridRegFile(r) : r \in Regs(p)} ELSE {PlanCertFile(p, b) : b \in RegBatches(p)})
  \union {PortCertFile(p, b) : b \in PortBatches(p)}
--------------------------------------------------------------------------------
(* One call of the generator: a sequence of writes, of removals of the       *)
(* surplus members of a family, and of the check that the text holds the     *)
(* zero literals a write port starts from.                                   *)
Write(f) == [op |-> "write", file |-> f]
Writes(S, F(_)) == [n \in 1..Cardinality(S) |-> Write(F(n - 1))]
Prune(family, S) == <<[op |-> "prune", family |-> family, keep |-> Names({family}, S)]>>
Require == <<[op |-> "require"]>>
RuntimeFile(p) == [File(Name("Runtime.tsv", 0), {}, {}, {}) EXCEPT !.text = <<p.regs, p.wires, p.suffix>>]
ManifestFile(p) ==
  [File(Name("modules.txt", 0), {}, {}, {}) EXCEPT
     !.text = <<Batches(p), ChunkBatches(p), Mems(p), RegBlocks(p), OutBlocks(p), [m \in Mems(p) |-> InitBlocks(p, m)]>>]

WireOps(p) ==
  Writes(Batches(p), LAMBDA i : BatchFile(p, i)) \o Prune("Batch", Batches(p))
  \o Writes(Batches(p), LAMBDA i : IndexedBatchFile(p, i)) \o Prune("IndexedBatch", Batches(p))
  \o Writes(Batches(p), LAMBDA i : FastBatchFile(p, i)) \o Prune("FastIndexedBatch", Batches(p))
  \o <<Write(FastRootFile(p))>>
  \o Writes(Evidence(p), LAMBDA i : EvidenceFile(p, i)) \o Prune("FastLookupEvidenceBatch", Evidence(p))
  \o <<Write(EvidenceRootFile(p)), Write(CheckedBlocksFile(p))>>
  \o Writes(Batches(p), LAMBDA i : BridgeFile(p, i)) \o Prune("FastIndexedBridgeBatch", Batches(p))
  \o <<Write(BridgeRootFile(p))>>
  \o Writes(ChunkBatches(p), LAMBDA i : TreeChunkFile(p, i)) \o Prune("TreeChunkBatch", ChunkBatches(p))
  \o Prune("RenderProof", {}) \o <<Write(IndexedRootFile(p)), Write(SemanticRootFile(p))>>

ProgramOps(p) ==
  FlattenSeq([m \in 1..Len(p.mems) |->
     <<Write(MemDataFile(p, m - 1))>>
     \o Writes(InitBlocks(p, m - 1), LAMBDA b : MemRenderFile(p, m - 1, b))
     \o <<Write(MemRootFile(p, m - 1))>>])
  \o <<Write(ProgramDataFile(p))>>
  \o Writes(RegBlocks(p), LAMBDA b : FramingRegFile(p, b))
  \o Writes(OutBlocks(p), LAMBDA b : FramingOutFile(p, b))
  \o <<Write(FramingFixedFile(p)), Write(RootFile(p)), Write(ManifestFile(p))>>

SemanticOps(p, hybrid) ==
  Writes(WireBatches(p), LAMBDA i : SemanticWireFile(p, i)) \o Prune("SemanticWireBatch", WireBatches(p))
  \o <<Write(SemanticWiresFile(p))>>
  \o Writes(RegBatches(p), LAMBDA i : SemanticRegFile(p, i, hybrid)) \o Prune("SemanticRegBatch", RegBatches(p))
  \o <<Write(SemanticRegsFile(p))>>
  \o Writes(Regs(p), LAMBDA r : ReadRegFile(p, r)) \o Prune("ReadRegBatch", Regs(p)) \o <<Write(ReadRegsFile(p))>>
  \o Writes(Mems(p), LAMBDA m : DeclMemFile(p, m)) \o Prune("DeclMemBatch", Mems(p)) \o <<Write(DeclMemsFile(p))>>
  \o <<Write(SemanticActionsFile(p))>>
  \o (IF hybrid THEN <<Write(SemanticDesignWFFile)>> ELSE <<>>)
  \o <<Write(SemanticReadsFile(p)), Write(SemanticMemBaseFile(p))>>
  \o FlattenSeq([m \in 1..Len(p.mems) |->
       Writes(InitBlocks(p, m - 1), LAMBDA b : MemInitFile(p, m - 1, b))
       \o FlattenSeq([w \in 1..Len(p.mems[m].writes) |-> Require \o <<Write(MemPortFile(p, m - 1, w - 1))>>])])
  \o <<Write(SemanticMemsFile(p)), Write(SemanticModuleFile), Write(SemanticReleaseFile(hybrid)),
       Write(CertGenFile(hybrid)), Write(CertGenPortsFile(hybrid))>>

Emission(p, hybrid) == <<Write(RuntimeFile(p))>> \o WireOps(p) \o ProgramOps(p) \o SemanticOps(p, hybrid)
FilesOf(ops) == {ops[n].file : n \in {n \in DOMAIN ops : ops[n].op = "write"}}
================================================================================

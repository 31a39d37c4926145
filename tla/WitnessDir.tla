------------------------------- MODULE WitnessDir -------------------------------
(***************************************************************************)
(* The generated directory over several calls of the witness generator.    *)
(* The release script never empties it: each call writes the files whose   *)
(* text changed, in place and in order, and removes surplus members of     *)
(* some families.  A call may be interrupted between two files or inside   *)
(* one, or stop at a missing literal; the next call may be for another     *)
(* text.  After a complete call the byte binding reads the whole directory. *)
(***************************************************************************)
EXTENDS WitnessSemantic

(* An input stands for a text and how the generator is called for it.      *)
CONSTANTS Inputs, DesignOf(_), HybridOf(_),
          Fits(_),     \* the text holds the literals a write port starts from
          Recalled,    \* the inputs whose calls are followed, interrupted and repeated
          MaxCalls, MaxCrashes

ASSUME Recalled \subseteq Inputs /\ Inputs \subseteq Nat \ {0}

VARIABLES dir,      \* file -> the input whose text it holds, or a member of Torn
          input, pos, phase, calls, crashes

vars == <<dir, input, pos, phase, calls, crashes>>

OpsFor(k) == Emission(Parse(Rtl(DesignOf(k))), HybridOf(k))
Ops == [k \in Recalled |-> OpsFor(k)]
AsFunction(files) == [n \in {f.file : f \in files} |-> CHOOSE f \in files : f.file = n]
Content == [k \in Recalled |-> AsFunction(FilesOf(Ops[k]))]
TornAtHead == -1
TornInside == 0
Torn == {TornAtHead, TornInside}

B == INSTANCE ReleaseBinding

RECURSIVE ImportsWithin(_, _)
ImportsWithin(files, S) ==
  LET more == UNION {files[f].imports \cap DOMAIN files : f \in S} IN
  IF more \subseteq S THEN S ELSE ImportsWithin(files, S \union more)
RootClosure == [k \in Recalled |-> ImportsWithin(Content[k], {Name("Root", 0)})]
ReleaseClosure == [k \in Recalled |-> ImportsWithin(Content[k], {Name("SemanticRelease", 0)})]

(* Whether the directory already holds the text that input k gives file f. *)
Current(d, k, f) == f \in DOMAIN d /\ d[f] \in Recalled /\ Content[d[f]][f] = Content[k][f]
--------------------------------------------------------------------------------
Init ==
  /\ dir = <<>>
  /\ input \in Inputs
  /\ pos = 0
  /\ phase = "idle"
  /\ calls = 0
  /\ crashes = 0

Begin(k) ==
  /\ phase \notin {"writing", "written"}
  /\ calls < MaxCalls
  /\ calls' = calls + 1
  /\ input' = k
  /\ pos' = 1
  /\ phase' = "writing"
  /\ UNCHANGED <<dir, crashes>>

Working == phase = "writing" /\ pos <= Len(Ops[input])
Op == Ops[input][pos]
Advance == pos' = pos + 1 /\ UNCHANGED <<input, phase, calls, crashes>>

(* write_if_changed leaves a file that already holds its text alone. *)
KeepOrWrite(f) == dir' = IF Current(dir, input, f) THEN dir ELSE (f :> input) @@ dir

WriteFile ==
  /\ Working
  /\ Op.op = "write"
  /\ KeepOrWrite(Op.file.file)
  /\ Advance

(* Mutant: the members to keep are removed too. *)
PruneFamilyAll ==
  /\ Working
  /\ Op.op = "prune"
  /\ dir' = [f \in {f \in DOMAIN dir : f[1] # Op.family} |-> dir[f]]
  /\ Advance
PruneFamily ==
  /\ Working
  /\ Op.op = "prune"
  /\ dir' = [f \in {f \in DOMAIN dir : f[1] = Op.family => f \in Op.keep} |-> dir[f]]
  /\ Advance

(* literal_ref raises when the text has no wire for a literal. *)
CheckLiteral ==
  /\ Working
  /\ Op.op = "require"
  /\ phase' = IF Fits(input) THEN phase ELSE "failed"
  /\ pos' = pos + 1
  /\ UNCHANGED <<dir, input, calls, crashes>>

(* Interrupted between two files, or inside one: the file was opened for    *)
(* writing, so its old text is gone.  A file cut between two declarations   *)
(* keeps the first of them: the next complete call replaces it like any     *)
(* torn file, and left over they are surplus, which the binding refuses like *)
(* the unreadable file that stands for it here.                             *)
Crash ==
  /\ Working
  /\ crashes < MaxCrashes
  /\ crashes' = crashes + 1
  /\ phase' = "crashed"
  /\ \/ dir' = dir
     \/ /\ Op.op = "write"
        /\ ~Current(dir, input, Op.file.file)
        /\ \E t \in IF Op.file.leaves = <<>> THEN {TornAtHead} ELSE Torn : dir' = (Op.file.file :> t) @@ dir
  /\ UNCHANGED <<input, pos, calls>>

Finish ==
  /\ phase = "writing"
  /\ pos > Len(Ops[input])
  /\ phase' = "written"
  /\ UNCHANGED <<dir, input, pos, calls, crashes>>

(* The directory as the byte binding reads it. *)
View(d) == [f \in {f \in DOMAIN d : d[f] \in Recalled} |-> Content[d[f]][f]]
Binds(d, k) == (\A f \in DOMAIN d : d[f] # TornInside) /\ B!Bound(View(d), Rtl(DesignOf(k)))

CheckBinding ==
  /\ phase = "written"
  /\ phase' = IF Binds(dir, input) THEN "bound" ELSE "refused"
  /\ UNCHANGED <<dir, input, pos, calls, crashes>>

Next ==
  \/ \E k \in Recalled : Begin(k)
  \/ WriteFile
  \/ PruneFamily
  \/ CheckLiteral
  \/ Crash
  \/ Finish
  \/ CheckBinding

Spec == Init /\ [][Next]_vars
--------------------------------------------------------------------------------
(* Whatever earlier calls left behind, torn files included, after a complete *)
(* call every module the release theorem reaches holds this call's text.     *)
ReleaseIsFresh ==
  phase \in {"written", "bound", "refused"} =>
    \A f \in ReleaseClosure[input] : Current(dir, input, f)

(* A binding accepts only declarations of modules that the root imports, so  *)
(* the bytes compared are the bytes the theorem is about; no leaf of an       *)
(* earlier text takes part.                                                  *)
BoundIsImported ==
  phase = "bound" =>
    \A f \in DOMAIN View(dir) : View(dir)[f].leaves # <<>> => f \in RootClosure[input] /\ Current(dir, input, f)

(* A binding refuses a complete call only because of a module that this text *)
(* has no use for and an earlier call left in the directory.                 *)
RefusedForLeftovers ==
  phase = "refused" => \E f \in DOMAIN dir : f \notin DOMAIN Content[input]

(* The files of one call, for every input. *)
P == Parse(Rtl(DesignOf(input)))
Emitted == FilesOf(OpsFor(input))
Modules == AsFunction(Emitted \union CertificateFiles(P, HybridOf(input)))

(* Every module imports only modules that one call (or the certificate      *)
(* generators) writes, and every name it mentions is declared by itself or  *)
(* by a module it reaches: the batch sizes 4, 16, 64 and --batch-blocks of   *)
(* the different families are combined without losing a name.               *)
NamesInScope ==
  phase = "idle" =>
    LET mods == Modules IN
    \A f \in DOMAIN mods :
      /\ mods[f].imports \subseteq DOMAIN mods
      /\ mods[f].uses \subseteq UNION {mods[g].defs : g \in ImportsWithin(mods, {f})}

(* Imports have no cycle, and no name is declared by two modules of one      *)
(* call: Lean would refuse either.                                          *)
ModulesConsistent ==
  phase = "idle" =>
    LET mods == Modules IN
    \A f \in DOMAIN mods :
      /\ f \notin ImportsWithin(mods, mods[f].imports \cap DOMAIN mods)
      /\ \A g \in DOMAIN mods : mods[f].defs \cap mods[g].defs # {} => f = g

(* The rope of chunk ropes that the theorems are about is the balanced rope *)
(* over all blocks that the fast view, the semantic leaves and the paths of *)
(* every lookup proof are built for; each path leads to its block.          *)
RopesAgree ==
  phase = "idle" =>
    LET n == BlockCount(P)
        Sub(c) == Balanced(Leaves([k \in 1..Cardinality(ChunkSpan(P, c)) |-> c * Sixteen + k - 1]))
        chunked == Graft(Balanced(Leaves([c \in 1..ChunkCount(P) |-> c - 1])), [c \in Range0(0, ChunkCount(P)) |-> Sub(c)])
        table == LookupTree([k \in 1..n |-> k - 1])
    IN /\ chunked = Balanced(Leaves([b \in 1..n |-> b - 1]))
       /\ \A b \in 1..n : Resolve(chunked, BalancedPaths(n)[b]) = Leaf(b - 1) /\ LookupAt(table, b - 1) = b - 1

(* The equality proof of a fast and a checked block names every declaration *)
(* the checked block is split into: true while a block is at most two checks *)
(* long, as the release script's 128 and 64 are.                            *)
BridgeNamesBlock ==
  phase = "idle" => \A b \in Range0(0, BlockCount(P)) : Indexed(P, b) = BridgeNames(P, b)

(* Lean accepts the files of one call: no import is missing or circular, and *)
(* every name is declared exactly once within reach. Code: the batching of    *)
(* main and the import lists of every family.                                *)
ModulesCompile == NamesInScope /\ ModulesConsistent

(* The proofs index the text they are about: ropes, lookup paths and bridges *)
(* are cut from one text by different computations. Code: balanced_paths,     *)
(* lookup and bridge modules.                                               *)
ProofsIndexText == RopesAgree /\ BridgeNamesBlock

(* A design with a memory, a write port, a register and an output is bound  *)
(* to its text straight after a generation into an empty directory: cutting *)
(* the text into blocks and ropes and reading it back loses no line.        *)
FreshOutputBinds ==
  phase = "idle" /\ P.mems # <<>> /\ WritesCount(P) > 0 => B!Bound(AsFunction(Emitted), Rtl(DesignOf(input)))

(* The binding says what the release needs: it binds what a call has just     *)
(* written, refuses only what an earlier call left behind, and what it binds  *)
(* is imported by the root and of this text. Code: main of the binding check. *)
BindingIsExact == FreshOutputBinds /\ BoundIsImported /\ RefusedForLeftovers
================================================================================

------------------------------ MODULE ReleaseBinding ------------------------------
(***************************************************************************)
(* The byte binding between a directory of generated modules and the RTL   *)
(* they are about.  A directory is a function from file names to the       *)
(* records of WitnessFiles; every module in it is read, imported or not.   *)
(***************************************************************************)
EXTENDS WitnessFiles

(* declarations: the literal lists of all files.  A second declaration of a *)
(* name is refused, except that a wire block silently replaces an earlier.  *)
LeafFiles(dir, n) == {f \in DOMAIN dir : n \in DOMAIN dir[f].leaves}
Declared(dir) == UNION {DOMAIN dir[f].leaves : f \in DOMAIN dir}
Value(dir, n) == dir[CHOOSE f \in LeafFiles(dir, n) : TRUE].leaves[n]
DeclarationsReadable(dir) ==
  \A n \in Declared(dir) :
    /\ Cardinality(LeafFiles(dir, n)) = 1 \/ n[1] = "diskWireBlock"
    /\ Value(dir, n) # <<>>    \* an empty list is printed as an empty line, which is not a string

(* definition_index, rope_definition, list_concat_references.               *)
Ropes(dir, n) == {f \in DOMAIN dir : n \in DOMAIN dir[f].ropes}
Lists(dir, n) == {f \in DOMAIN dir : n \in DOMAIN dir[f].lists}
Rope(dir, n) == IF Ropes(dir, n) = {} THEN Empty ELSE dir[CHOOSE f \in Ropes(dir, n) : TRUE].ropes[n]
Concat(dir, n) == IF Lists(dir, n) = {} THEN <<>> ELSE dir[CHOOSE f \in Lists(dir, n) : TRUE].lists[n]
IndexReadable(dir) ==
  /\ \A f, g \in DOMAIN dir : f # g => DOMAIN dir[f].ropes \cap DOMAIN dir[g].ropes = {}
  /\ \A f, g \in DOMAIN dir : f # g => DOMAIN dir[f].lists \cap DOMAIN dir[g].lists = {}

(* The chunks of the wires: the generator with --batch-blocks always writes *)
(* diskWireLineTree, a tree of chunks, so that the older forms (diskWireTree *)
(* itself, or blocks in place of chunks) do not come up.                    *)

(* The identifiers of a rope in the order they are written. *)
References(dir, n) == Flatten(Rope(dir, n))

Numbered(names) == SetToSortSeq(names, LAMBDA a, b : a[3] < b[3] \/ (a[3] = b[3] /\ a[2] < b[2]))
OfKind(dir, k) == Numbered({n \in Declared(dir) : n[1] = k})

MemNumbers(dir) == [x \in DOMAIN References(dir, Name("diskMemTrees", 0)) |-> References(dir, Name("diskMemTrees", 0))[x][2]]
MemInits(dir, m) == References(dir, Name("diskMemInitTree", m))
WireChunks(dir) == References(dir, Name("diskWireLineTree", 0))
WireLeaves(dir) == FlattenSeq([c \in DOMAIN WireChunks(dir) |-> References(dir, WireChunks(dir)[c])])

(* A definition that is read and that no module holds is an error.          *)
Asked(dir) ==
  {Name("diskTree", 0), Name("diskMemTrees", 0), Name("diskWireLineTree", 0)}
    \union UNION {Names({"diskMemTree", "diskMemInitTree"}, {m}) : m \in ToSet(MemNumbers(dir))}
    \union ToSet(WireChunks(dir))
DefinitionsPresent(dir) ==
  /\ \A n \in Asked(dir) : Ropes(dir, n) # {}
  /\ Lists(dir, Name("diskPrefix", 0)) # {} /\ Lists(dir, Name("diskSuffix", 0)) # {}

(* ordered_names: what has to hold of the trees, and the order they give. *)
FramingFixed(dir) ==
  Rope(dir, Name("diskTree", 0)) =
    Node(Leaf(Name("diskPrefix", 0)), Node(Leaf(Name("diskMemTrees", 0)),
      Node(Leaf(Name("diskWireTree", 0)), Leaf(Name("diskSuffix", 0)))))
MemoriesInOrder(dir) ==
  /\ Rope(dir, Name("diskMemTrees", 0)) # Empty
  /\ MemNumbers(dir) = [x \in DOMAIN MemNumbers(dir) |-> x - 1]
  /\ \A m \in ToSet(MemNumbers(dir)) :
       /\ References(dir, Name("diskMemTree", m)) = <<Name("diskMemStart", m), Name("diskMemInitTree", m), Name("diskMemEnd", m)>>
       /\ MemInits(dir, m) = Numbered({n \in Declared(dir) : n[1] = "diskMemInit" /\ n[2] = m})
PrefixInOrder(dir) ==
  Concat(dir, Name("diskPrefix", 0)) =
    <<Name("diskHeader", 0)>> \o OfKind(dir, "diskRegDeclBlock") \o <<Name("diskMemDecls", 0)>>
WiresInOrder(dir) == WireLeaves(dir) = OfKind(dir, "diskWireBlock")

OrderedNames(dir) ==
  Concat(dir, Name("diskPrefix", 0))
  \o FlattenSeq([x \in DOMAIN MemNumbers(dir) |->
       LET m == MemNumbers(dir)[x] IN <<Name("diskMemStart", m)>> \o MemInits(dir, m) \o <<Name("diskMemEnd", m)>>])
  \o WireLeaves(dir)
  \o Concat(dir, Name("diskSuffix", 0))

(* main: every ordered name is declared, every declaration is ordered, and *)
(* the bytes are the RTL's.                                                *)
(* Mutant: declarations that no rope refers to are tolerated. *)
BoundSuperset(dir, rtl) ==
  /\ DeclarationsReadable(dir)
  /\ IndexReadable(dir) /\ DefinitionsPresent(dir)
  /\ FramingFixed(dir)
  /\ MemoriesInOrder(dir)
  /\ PrefixInOrder(dir)
  /\ WiresInOrder(dir)
  /\ ToSet(OrderedNames(dir)) \subseteq Declared(dir)
  /\ FlattenSeq([x \in DOMAIN OrderedNames(dir) |-> Value(dir, OrderedNames(dir)[x])]) = rtl
Bound(dir, rtl) ==
  /\ DeclarationsReadable(dir)
  /\ IndexReadable(dir) /\ DefinitionsPresent(dir)
  /\ FramingFixed(dir)
  /\ MemoriesInOrder(dir)
  /\ PrefixInOrder(dir)
  /\ WiresInOrder(dir)
  /\ ToSet(OrderedNames(dir)) = Declared(dir)
  /\ FlattenSeq([x \in DOMAIN OrderedNames(dir) |-> Value(dir, OrderedNames(dir)[x])]) = rtl
================================================================================

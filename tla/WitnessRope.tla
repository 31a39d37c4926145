------------------------------ MODULE WitnessRope ------------------------------
(***************************************************************************)
(* The list and tree helpers of the release witness generator: chunking,   *)
(* balanced ropes, the paths that index them and the random access trees.  *)
(* A rope is <<"leaf", x>>, <<"node", left, right>> or Empty.              *)
(***************************************************************************)
EXTENDS Naturals, Sequences, SequencesExt

Leaf(x) == <<"leaf", x>>
Node(l, r) == <<"node", l, r>>
Empty == <<>>

CeilDiv(n, d) == (n + d - 1) \div d

(* Zero based slice values[from:to] of a sequence. *)
Slice(values, from, to) == SubSeq(values, from + 1, IF to < Len(values) THEN to ELSE Len(values))

(* Consecutive pieces of at most `size` values; one empty piece when there are none. *)
Chunks(values, size) ==
  IF values = <<>> THEN << <<>> >>
  ELSE [c \in 1..CeilDiv(Len(values), size) |-> Slice(values, (c - 1) * size, c * size)]

(* Mutant: an odd first subtree is carried up instead of the last. *)
PairedFromRight(level) ==
  LET odd == Len(level) % 2 IN
  [i \in 1..CeilDiv(Len(level), 2) |->
     IF odd = 1 /\ i = 1 THEN level[1] ELSE Node(level[2 * i - 1 - odd], level[2 * i - odd])]

(* One level of pairing: neighbours are joined, an odd last one is carried up. *)
Paired(level) ==
  [i \in 1..CeilDiv(Len(level), 2) |->
     IF 2 * i > Len(level) THEN level[2 * i - 1] ELSE Node(level[2 * i - 1], level[2 * i])]

(* The balanced tree over subtrees; the generator's four writers of such     *)
(* trees (ropes, appends and the two kinds of proof term) share this shape. *)
RECURSIVE Balanced(_)
Balanced(level) ==
  CASE level = <<>> -> Empty
    [] Len(level) = 1 -> level[1]
    [] OTHER -> Balanced(Paired(level))

Leaves(names) == [i \in DOMAIN names |-> Leaf(names[i])]

(* The path to every leaf, computed level by level beside the tree. *)
PairedPaths(level) ==
  [i \in 1..CeilDiv(Len(level), 2) |->
     IF 2 * i > Len(level) THEN level[2 * i - 1]
     ELSE [x \in DOMAIN level[2 * i - 1] |-> <<FALSE>> \o level[2 * i - 1][x]] @@
          [x \in DOMAIN level[2 * i] |-> <<TRUE>> \o level[2 * i][x]]]

RECURSIVE PathsOver(_)
PathsOver(level) == IF Len(level) <= 1 THEN level ELSE PathsOver(PairedPaths(level))

(* The path of leaf i (counted from 1) of a balanced tree with `count` leaves. *)
BalancedPaths(count) ==
  IF count = 0 THEN <<>>
  ELSE PathsOver([i \in 1..count |-> [x \in {i} |-> <<>>]])[1]

(* A random access tree: every inner node caches the size of its left half. *)
RECURSIVE LookupTree(_)
LookupTree(entries) ==
  LET mid == Len(entries) \div 2 IN
  IF Len(entries) = 1 THEN Leaf(entries[1])
  ELSE <<"node", LookupTree(Slice(entries, 0, mid)), LookupTree(Slice(entries, mid, Len(entries))), mid>>

(* The declarations a wire block is checked in: a block longer than the     *)
(* check size is halved, and the halves halved again.  A declaration is     *)
(* named by the path of halves that leads to it.                           *)
RECURSIVE CheckedNodes(_, _, _)
CheckedNodes(len, checkSize, path) ==
  IF len > checkSize
  THEN LET half == len \div 2 IN
       CheckedNodes(half, checkSize, Append(path, "L")) \union
       CheckedNodes(len - half, checkSize, Append(path, "R")) \union {path}
  ELSE {path}
--------------------------------------------------------------------------------
(* What the Lean side reads out of these trees. *)

RECURSIVE Flatten(_)
Flatten(t) ==
  CASE t = Empty -> <<>>
    [] t # Empty /\ t[1] = "leaf" -> <<t[2]>>
    [] OTHER -> Flatten(t[2]) \o Flatten(t[3])

RECURSIVE Resolve(_, _)
Resolve(t, path) ==
  CASE path = <<>> -> t
    [] t[1] = "leaf" -> Empty
    [] OTHER -> Resolve(IF Head(path) THEN t[3] ELSE t[2], Tail(path))

RECURSIVE LookupAt(_, _)
LookupAt(t, i) ==
  IF t[1] = "leaf" THEN t[2]
  ELSE IF i < t[4] THEN LookupAt(t[2], i) ELSE LookupAt(t[3], i - t[4])

(* A tree of subtrees with every leaf replaced by the subtree it names. *)
RECURSIVE Graft(_, _)
Graft(t, sub) ==
  CASE t = Empty -> Empty
    [] t # Empty /\ t[1] = "leaf" -> sub[t[2]]
    [] OTHER -> Node(Graft(t[2], sub), Graft(t[3], sub))
================================================================================

------------------------------- MODULE KianvMiter -------------------------------
(***************************************************************************)
(* What the equivalence runner tells Yosys to compare for one module: the    *)
(* pairs of registers and memory words, the packing of every memory into one *)
(* wire, and the harness that cuts the children off at their ports, executed *)
(* command by command on the nets of the original module.                   *)
(***************************************************************************)
EXTENDS Integers, Sequences, SequencesExt, FiniteSets

CONSTANTS Miters, \* records of a package (a function from names to modules), root, flatten
          Nets,   \* records of aliases (bits to wire names) and cells (sequences of ports)
        None

VARIABLES miter, relation, \* the pairs, or None
          nets, todo,      \* the commands of the harness still to execute
          driver,          \* what drives every wire
          taps             \* the wire every contract output reads

vars == <<miter, relation, nets, todo, driver, taps>>
Members(s) == {s[i] : i \in DOMAIN s}
--------------------------------------------------------------------------------
(* state_pairs. A pair names a register slice or a memory word by its place  *)
(* in the original hierarchy and by the body that holds it on the other side. *)
Body(module, register) ==
  IF Len(module.domains) > 1 THEN {i \in DOMAIN module.domains : module.domains[i] = register.domain} ELSE {0}

RegisterPairs(module, path) ==
  [r \in DOMAIN module.registers |->
     LET register == module.registers[r] IN
     [kind |-> "register", path |-> path, name |-> register.name, group |-> 0, address |-> 0,
      offset |-> register.offset, width |-> register.width, body |-> Body(module, register)]]

MemoryPairs(module, path, group) ==
  FlattenSeq([m \in DOMAIN module.memories |->
    LET memory == module.memories[m] IN
    [a \in 1..memory.size |->
       [kind |-> "memory", path |-> path, name |-> memory.name, group |-> group + m - 1, address |-> a - 1,
        offset |-> 0, width |-> memory.width, body |-> {0}]]])

(* visit: the modules below a root, in the order of the walk, with their      *)
(* path; a child that the package does not have is refused by Raises.        *)
Under(name, visits) == [k \in DOMAIN visits |-> [path |-> <<name>> \o visits[k].path, of |-> visits[k].of]]
Walk(package, flatten) ==
  LET walk[name \in DOMAIN package] ==
        LET children == IF flatten THEN package[name].children ELSE <<>>
        IN <<[path |-> <<>>, of |-> name]>>
           \o FlattenSeq([c \in DOMAIN children |->
                IF children[c].of \in DOMAIN package THEN Under(children[c].name, walk[children[c].of]) ELSE <<>>])
  IN walk

(* The pairs below a module; one count numbers the memories of all modules.  *)
Visited(package, walk) ==
  LET visited[n \in 0..Len(walk)] ==
        IF n = 0 THEN [pairs |-> <<>>, groups |-> 0]
        ELSE LET module == package[walk[n].of]
                 before == visited[n - 1]
             IN [pairs |-> before.pairs \o RegisterPairs(module, walk[n].path)
                                        \o MemoryPairs(module, walk[n].path, before.groups),
                 groups |-> before.groups + Len(module.memories)]
  IN visited
Visit(package, name, flatten) ==
  LET walk == Walk(package, flatten)[name] IN Visited(package, walk)[Len(walk)].pairs

(* The two names of a pair; a slice's Loom register is named by its offset.  *)
Side(p) == <<p.path, p.body, p.kind, p.name, p.offset, p.address>>
(* The modules visited from a root: the least set with the root and, when     *)
(* flattened, the children of its members.                                  *)
Reached(package, root, flatten) ==
  LET children(n) == {c.of : c \in Members(package[n].children)}
      all == {root} \cup UNION {{n} \cup children(n) : n \in DOMAIN package}
      closed(S) == root \in S /\ (flatten => \A n \in S \cap DOMAIN package : children(n) \subseteq S)
  IN {n \in all : \A S \in SUBSET all : closed(S) => n \in S}
Raises(m) ==
  LET reached == Reached(m.package, m.root, m.flatten) IN
  \/ \E n \in reached : n \notin DOMAIN m.package
  \/ \E n \in reached \cap DOMAIN m.package : LET module == m.package[n] IN
       \/ Len(module.domains) > 1 /\ module.memories # <<>>
       \/ \E r \in Members(module.registers) : Cardinality(Body(module, r)) # 1

(* add_memory_relation_wires: the words of a group, which are paired by      *)
(* address, take the bits of one wire in turn.                              *)
InGroup(p, group) == p.kind = "memory" /\ p.group = group
Offsets(pairs, group) ==
  LET offset[k \in 0..Len(pairs)] ==
        IF k = 0 THEN 0 ELSE offset[k - 1] + (IF InGroup(pairs[k], group) THEN pairs[k].width ELSE 0)
  IN offset
Slice(pairs, k) == Offsets(pairs, pairs[k].group)[k - 1]..(Offsets(pairs, pairs[k].group)[k] - 1)
--------------------------------------------------------------------------------
(* add_child_harness on the side of the original, where a net has aliases; the *)
(* converted side has one endpoint a port. The names of a bit are ordered     *)
(* with the stable public one first. An x or z at a port, which the code       *)
(* refuses like a bit without a name, is one.                                *)
Bits(cell) == UNION {Members(port.bits) : port \in Members(cell)}
Deletes == [i \in DOMAIN nets.cells |-> [op |-> "delete", at |-> <<i>>, wire |-> ""]]
Connects(i) ==
  FlattenSeq([j \in DOMAIN nets.cells[i] |-> LET port == nets.cells[i][j] IN
    FlattenSeq([b \in DOMAIN port.bits |-> LET names == nets.aliases[port.bits[b]] IN
      IF port.input THEN <<[op |-> "tap", at |-> <<i, j, b>>, wire |-> names[1]]>>
      ELSE [n \in DOMAIN names |-> [op |-> "drive", at |-> <<i, j, b>>, wire |-> names[n]]]])])
(* A mutant: every child is removed just before its own ports are cut.        *)
HarnessInterleaved == FlattenSeq([i \in DOMAIN nets.cells |-> <<Deletes[i]>> \o Connects(i)])
Harness == Deletes \o FlattenSeq([i \in DOMAIN nets.cells |-> Connects(i)])

Wires == UNION {Members(nets.aliases[bit]) : bit \in DOMAIN nets.aliases}
BitOf(wire) == CHOOSE bit \in DOMAIN nets.aliases : wire \in Members(nets.aliases[bit])
Outputs(i) == UNION {Members(port.bits) : port \in {p \in Members(nets.cells[i]) : ~p.input}}
Logic == <<"logic">>
Nothing == <<"nothing">>

Init ==
  /\ miter \in Miters
  /\ relation = None
  /\ nets \in Nets
  /\ todo = <<>>
  /\ driver = <<>>
  /\ taps = <<>>

(* script_for: the pairs, unless a relation is missing or doubled; then the   *)
(* hierarchy is flattened, or cut unless a bit of a port has no name. A       *)
(* constant bit is a wire that the logic drives.                           *)
Relate ==
  /\ relation = None /\ ~Raises(miter)
  /\ LET pairs == Visit(miter.package, miter.root, miter.flatten) IN
     /\ Cardinality({Side(p) : p \in Members(pairs)}) = Len(pairs)
     /\ relation' = pairs
  /\ \/ miter.flatten /\ todo' = <<>>
     \/ /\ ~miter.flatten
        /\ \A i \in DOMAIN nets.cells : \A bit \in Bits(nets.cells[i]) : nets.aliases[bit] # <<>>
        /\ todo' = Harness
  /\ driver' = [w \in Wires |->
       IF \E i \in DOMAIN nets.cells : BitOf(w) \in Outputs(i)
       THEN <<"cell", CHOOSE i \in DOMAIN nets.cells : BitOf(w) \in Outputs(i)>> ELSE Logic]
  /\ UNCHANGED <<miter, nets, taps>>

(* Yosys: removing a cell disconnects its outputs, and what a contract drives *)
(* on any of its nets.                                                     *)
Cleared(w, i) ==
  \/ driver[w] = <<"cell", i>>
  \/ driver[w][1] = "contract" /\ BitOf(w) \in Bits(nets.cells[i])
Command ==
  /\ todo # <<>>
  /\ LET c == Head(todo) IN
     \/ /\ c.op = "delete"
        /\ driver' = [w \in Wires |-> IF Cleared(w, c.at[1]) THEN Nothing ELSE driver[w]]
        /\ UNCHANGED taps
     \/ /\ c.op = "drive"
        /\ driver' = [driver EXCEPT ![c.wire] = <<"contract", c.at>>]
        /\ UNCHANGED taps
     \/ /\ c.op = "tap"
        /\ taps' = Append(taps, <<c.at, c.wire>>)
        /\ UNCHANGED driver
  /\ todo' = Tail(todo)
  /\ UNCHANGED <<miter, relation, nets>>

Next == Relate \/ Command
--------------------------------------------------------------------------------
(* The instances below a module, with their paths. *)
Present(package, children) == {c \in Members(children) : c.of \in DOMAIN package}
Instances(package) ==
  LET under[name \in DOMAIN package] ==
        {<<<<>>, name>>} \cup UNION {{<<<<c.name>> \o i[1], i[2]>> : i \in under[c.of]} :
                                      c \in Present(package, package[name].children)}
  IN under
Below(m) == IF m.flatten THEN Instances(m.package)[m.root] ELSE {<<<<>>, m.root>>}

(* The pairs of a register slice, or of a memory word, of an instance.       *)
OfRegister(pairs, module, path, register) ==
  {k \in DOMAIN pairs :
     /\ pairs[k].path = path /\ pairs[k].kind = "register" /\ pairs[k].name = register.name
     /\ pairs[k].offset = register.offset /\ pairs[k].width = register.width
     /\ pairs[k].body = Body(module, register)}
OfWord(pairs, path, memory, address) ==
  {k \in DOMAIN pairs :
     /\ pairs[k].path = path /\ pairs[k].kind = "memory" /\ pairs[k].name = memory.name
     /\ pairs[k].address = address /\ pairs[k].width = memory.width}
IsSingle(S) == \E x \in S : S = {x}

(* Every register slice and every memory word of every module below a root   *)
(* is paired exactly once, and nothing else is.                              *)
PairsAreExact ==
  LET Registers(i) == Members(miter.package[i[2]].registers)
      Memories(i) == Members(miter.package[i[2]].memories)
      Pair(i, r) == OfRegister(relation, miter.package[i[2]], i[1], r)
  IN /\ \A i \in Below(miter) :
          /\ \A r \in Registers(i) : IsSingle(Pair(i, r))
          /\ \A m \in Memories(i) : \A a \in 0..m.size - 1 : IsSingle(OfWord(relation, i[1], m, a))
     /\ \A k \in DOMAIN relation : \E i \in Below(miter) :
          \/ \E r \in Registers(i) : k \in Pair(i, r)
          \/ \E m \in Memories(i) : \E a \in 0..m.size - 1 : k \in OfWord(relation, i[1], m, a)

(* The words of a group are those of one memory, and they take all bits of    *)
(* its wire without sharing one.                                            *)
WordsAreDisjoint ==
  \A k \in DOMAIN relation : relation[k].kind = "memory" =>
    LET group == {l \in DOMAIN relation : InGroup(relation[l], relation[k].group)}
    IN /\ \A l \in group : relation[l].path = relation[k].path /\ relation[l].name = relation[k].name
       /\ \A l \in group \ {k} : Slice(relation, l) \cap Slice(relation, k) = {}
       /\ UNION {Slice(relation, l) : l \in group}
            = 0..(Offsets(relation, relation[k].group)[Len(relation)] - 1)

(* Code: state_pairs, add_memory_relation_wires.                             *)
RelationIsComplete == relation # None => PairsAreExact /\ WordsAreDisjoint

(* When the harness is done, every name of a child's output bit carries its   *)
(* contract, every child input is observed at a net that something drives,   *)
(* and no child is left.  Code: add_child_harness.                           *)
CutsKeepContracts ==
  (relation # None /\ ~miter.flatten /\ todo = <<>>) =>
    \A i \in DOMAIN nets.cells : \A j \in DOMAIN nets.cells[i] : \A b \in DOMAIN nets.cells[i][j].bits :
      LET bit == nets.cells[i][j].bits[b]
      IN IF nets.cells[i][j].input
         THEN \E n \in DOMAIN taps : taps[n][1] = <<i, j, b>> /\ BitOf(taps[n][2]) = bit
                                       /\ driver[taps[n][2]][1] \in {"logic", "contract"}
         ELSE \A w \in Members(nets.aliases[bit]) : driver[w] = <<"contract", <<i, j, b>>>>
================================================================================

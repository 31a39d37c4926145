------------------------------- MODULE ImportModule -------------------------------
(***************************************************************************)
(* The translation of one elaborated module: index the drivers, collect the *)
(* registers, translate their next values, the inputs of the instances and  *)
(* the outputs by walking the cells backwards, and sweep up what is left.   *)
(* An expression is the vector it denotes for the inputs and the registers  *)
(* of env; a bit is a net, or below 0 a constant.                          *)
(***************************************************************************)
EXTENDS ImportOps, FiniteSets

CONSTANTS Netlists,   \* the modules: cells, input and output ports, other ports
          Policies    \* four-state policies, each a set of rules; {} when there is none

VARIABLES netlist, policy,
          env,        \* the value of each net that an input, a register or a child drives
          phase, k,
          cache, blocks, \* the expression cache and the unsupported list
          domains,    \* the clock domain of each register
          registers, outputs

translation == <<cache, blocks>>
vars == <<netlist, policy, env, phase, k, cache, blocks, domains, registers, outputs>>

Zero == -1
One == -2
X == -3
Sequential == {"$dff", "$dffe", "$sdff", "$sdffe", "$sdffce", "$adff", "$adffe"}
Enabled == {"$dffe", "$sdffe", "$sdffce", "$adffe"}
Resets == {"$sdff", "$sdffe", "$sdffce"}
Cells == netlist.cells
Members(s) == {s[i] : i \in DOMAIN s}
CellsOf(kinds) ==
  LET upTo[n \in 0..Len(Cells)] ==
        IF n = 0 THEN <<>> ELSE IF Cells[n].kind \in kinds THEN Append(upTo[n - 1], n) ELSE upTo[n - 1]
  IN upTo[Len(Cells)]
Flops == CellsOf(Sequential)
Children == CellsOf({"child"})
Sources == (UNION {Members(p.bits) : p \in Members(netlist.inputs)})
             \cup (UNION {Members(Cells[i].out) : i \in Members(Flops) \cup Members(Children)})

(* As Yosys writes a checked netlist: a cell's outputs are nets, and inputs   *)
(* are driven from outside alone.                                          *)
ASSUME NetlistsAssumption ==
  \A n \in Netlists :
    /\ n.cells \in Seq(Members(n.cells)) /\ n.inputs \in Seq(Members(n.inputs)) /\ n.outputs \in Seq(Members(n.outputs))
    /\ \A c \in Members(n.cells) :
         {c.out, c.A, c.B, c.S, c.reset} \subseteq Seq(Int) /\ Members(c.out) \subseteq Nat /\ c.line \in Int
    /\ \A p \in Members(n.inputs) :
         p.bits \in Seq(Nat) /\ \A c \in Members(n.cells) : Members(p.bits) \cap Members(c.out) = {}
    /\ \A p \in Members(n.outputs) : p.bits \in Seq(Int) /\ p.line \in Int
ASSUME PoliciesAssumption == \A p \in Policies : IsFiniteSet(p)

Init ==
  /\ netlist \in Netlists
  /\ policy \in Policies
  /\ env \in [Sources -> {0, 1}]
  /\ phase = "index"
  /\ k = 1
  /\ cache = [i \in DOMAIN Cells |-> BV(0, 0)]
  /\ blocks = {}
  /\ domains = <<>>
  /\ registers = <<>>
  /\ outputs = <<>>

(* A partial translation: the vector, and the cache and blockers after it.  *)
Result(v, st) == [v |-> v, st |-> st]
Block(st, kind, at) == [st EXCEPT !.blocks = @ \cup {<<kind, at>>}]
Now == [cache |-> cache, blocks |-> blocks, overflow |-> FALSE]

Matching(line) == {r \in policy : line \in r.lo..r.hi}
Literal(bits, fill) == FromBits(Len(bits), [i \in DOMAIN bits |-> CASE bits[i] = One -> 1 [] bits[i] = X -> fill [] OTHER -> 0])
FillBit(rule) == IF rule.fill = "one" THEN 1 ELSE 0

Constant(bits, line, st) ==
  IF X \notin Members(bits) THEN Result(Literal(bits, 0), st)
  ELSE IF Cardinality(Matching(line)) = 1
  THEN Result(Literal(bits, FillBit(CHOOSE r \in Matching(line) : TRUE)), st)
  ELSE Result(BV(Len(bits), 0),
              Block(st, CASE policy = {} -> "four_state_constant"
                          [] policy # {} /\ Matching(line) = {} -> "four_state_policy_missing"
                          [] OTHER -> "four_state_policy_ambiguous", line))

Aliased(bits, vectors) == bits \in vectors \/ (Len(bits) = 1 /\ \E v \in vectors : bits[1] \in Members(v))
InputVectors == {p.bits : p \in Members(netlist.inputs)}
RegisterVectors == {Cells[i].out : i \in Members(Flops)}
Sampled(bits) == FromBits(Len(bits), [i \in DOMAIN bits |-> env[bits[i]]])

(* The last cell that drives a bit, and the cell that drives a vector.      *)
Driving(bit) == {i \in DOMAIN Cells : bit \in Members(Cells[i].out)}
Last(set) == CHOOSE i \in set : \A j \in set : j <= i
First(set) == CHOOSE i \in set : \A j \in set : j >= i
OffsetIn(bit, bits) == (CHOOSE o \in DOMAIN bits : bits[o] = bit /\ \A p \in DOMAIN bits : bits[p] = bit => p <= o) - 1

(* The operands a cell's lowering reads, in the order it reads them.        *)
Operands(c) ==
  CASE c.kind = "$mux" -> <<c.B, c.A, c.S>>
    [] c.kind \in DOMAIN UnaryOps \cup DOMAIN ReduceOps -> <<c.A>>
    [] OTHER -> <<c.A, c.B>>
Lowered(c, vs) ==
  LET n == Len(vs)
  IN CellValue(c.kind, vs[IF n = 3 THEN 2 ELSE 1], vs[IF n = 3 THEN 1 ELSE n], vs[n], Len(c.out), FALSE, FALSE, vs[1])

Joined(vs) ==
  LET j[i \in 1..Len(vs)] == IF i = 1 THEN vs[1] ELSE Concat(j[i - 1], vs[i]) IN j[Len(vs)]
Singles(bits) == [i \in DOMAIN bits |-> <<bits[Len(bits) + 1 - i]>>]

(* expr without a cell: no bits at all, constants, inputs and registers.    *)
IsLeaf(bits) ==
  \/ \A b \in Members(bits) : b < 0
  \/ Aliased(bits, InputVectors) \/ Aliased(bits, RegisterVectors)
LeafExpr(bits, line, st) ==
  IF bits = <<>> THEN Result(BV(1, 0), Block(st, "zero_width", line))
  ELSE IF \A b \in Members(bits) : b < 0 THEN Constant(bits, line, st)
  ELSE Result(Sampled(bits), st)

(* The cell a vector is the output of, or a single bit is driven by, or 0.   *)
CellOf(bits) ==
  LET exact == {i \in DOMAIN Cells : Cells[i].out = bits}
  IN CASE exact # {} -> First(exact)
       [] exact = {} /\ Len(bits) = 1 /\ Driving(bits[1]) # {} -> Last(Driving(bits[1]))
       [] OTHER -> 0

(* cell_expr: a cell in the cache or in progress, and one that is no         *)
(* operator, is not looked into; read is what its operands gave.            *)
LooksInto(i, st, path) == st.cache[i].width = 0 /\ i \notin path /\ Cells[i].kind \in SupportedComb
Cached(i, r) == Result(r.v, [r.st EXCEPT !.cache[i] = r.v])
CellExpr(i, read, st, path) ==
  LET c == Cells[i]
      zero == BV(Larger(Len(c.out), 1), 0)
  IN IF st.cache[i].width # 0 THEN Result(st.cache[i], st)
     ELSE IF i \in path THEN Result(zero, Block(st, "combinational_cycle", i))
     ELSE Cached(i, IF c.kind \in Sequential \cup {"child"} THEN Result(Sampled(c.out), st)
                    ELSE IF c.kind \notin SupportedComb THEN Result(zero, Block(st, "yosys_cell", i))
                    ELSE Result(Lowered(c, read.v), read.st))

(* expr of several vectors in a row; path holds the cells in progress.  What *)
(* is asked before a vector can be answered: the operands of its cell, or its *)
(* bits one by one.  A single bit without any driver makes the code call       *)
(* itself with that bit until the stack ends.                               *)
Ask(vectors, line, st, path) == [vectors |-> vectors, line |-> line, before |-> st, path |-> path]
Asked(bits, line, st, path) ==
  LET i == CellOf(bits)
  IN CASE IsLeaf(bits) -> Ask(<<>>, line, st, path)
       [] ~IsLeaf(bits) /\ i # 0 ->
            Ask(IF LooksInto(i, st, path) THEN Operands(Cells[i]) ELSE <<>>, Cells[i].line, st, path \cup {i})
       [] OTHER -> Ask(IF Len(bits) > 1 THEN Singles(bits) ELSE <<>>, line, st, path)
FromCell(bits, i, whole) ==
  IF Cells[i].out = bits THEN whole ELSE Result(SliceExpr(whole.v, OffsetIn(bits[1], Cells[i].out), 1), whole.st)
OneExpr(bits, line, st, path, read) ==
  LET i == CellOf(bits)
  IN CASE IsLeaf(bits) -> LeafExpr(bits, line, st)
       [] ~IsLeaf(bits) /\ i # 0 -> FromCell(bits, i, CellExpr(i, read, st, path))
       [] ~IsLeaf(bits) /\ i = 0 /\ Len(bits) > 1 -> Result(Joined(read.v), read.st)
       [] OTHER -> Result(BV(1, 0), [st EXCEPT !.overflow = TRUE])
Followed(v, rest) == Result(<<v>> \o rest.v, rest.st)
AndThen(walk, first, vectors, line, path) == Followed(first.v, walk[Ask(vectors, line, first.st, path)])
Answer(walk, vectors, line, st, path) ==
  LET read == walk[Asked(Head(vectors), line, st, path)]
  IN IF vectors = <<>> THEN Result(<<>>, st)
     ELSE AndThen(walk, OneExpr(Head(vectors), line, st, path, read), Tail(vectors), line, path)
BlockKinds == {"multiple_drivers", "asynchronous_reset_state", "unelaborated_instance_parameter", "unconnected_instance_input",
               "port_direction", "yosys_cell", "combinational_cycle", "zero_width",
               "four_state_constant", "four_state_policy_missing", "four_state_policy_ambiguous"}
Translations == [cache : [DOMAIN Cells -> [width : Nat, value : Nat]],
                 blocks : SUBSET (BlockKinds \X Int), overflow : BOOLEAN]
Asks == [vectors : Seq(Seq(Int)), line : Int, before : Translations, path : SUBSET DOMAIN Cells]
Exprs(vectors, line, st, path) ==
  LET walk[q \in Asks] == Answer(walk, q.vectors, q.line, q.before, q.path)
  IN walk[Ask(vectors, line, st, path)]

TheOnly(r) == Result(r.v[1], r.st)
Expr(bits, line, st) == TheOnly(Exprs(<<bits>>, line, st, {}))

(***************************************************************************)
(* The steps of translate.  A translation that overflows the stack ends.    *)
(***************************************************************************)
Yields(st, next) ==
  /\ cache' = st.cache /\ blocks' = st.blocks
  /\ phase' = IF st.overflow THEN "overflow" ELSE next
Untouched == UNCHANGED <<netlist, policy, env>>

SharedBits == {b \in UNION {Members(c.out) : c \in Members(Cells)} : Cardinality(Driving(b)) > 1}
Index ==
  /\ phase = "index"
  /\ phase' = "collect"
  /\ blocks' = blocks \cup {<<"multiple_drivers", b>> : b \in SharedBits}
  /\ Untouched /\ UNCHANGED <<k, cache, domains, registers, outputs>>

DomainOf(i) == <<Cells[i].clk, Cells[i].rising>>
Collect ==
  /\ phase = "collect"
  /\ phase' = "next"
  /\ domains' = [n \in DOMAIN Flops |-> DomainOf(Flops[n])]
  /\ blocks' = blocks \cup (IF \E i \in Members(Flops) : Cells[i].kind \in {"$adff", "$adffe"}
                            THEN {<<"asynchronous_reset_state", 0>>} ELSE {})
  /\ Untouched /\ UNCHANGED <<k, cache, registers, outputs>>

(* decode_parameter reads an x of the reset value as 0.                     *)
ResetValue(c) == Literal(c.reset, 0)
Level(v, high) == IF high THEN v.value = 1 ELSE v.value = 0
(* A mutant: the enable always comes first.                                *)
RegisterNextGated(c, d, enable, reset) ==
  LET q == Sampled(c.out)
      enabled(yes) == IF c.kind \in Enabled /\ ~Level(enable, c.enHigh) THEN q ELSE yes
      cleared(no) == IF c.kind \in Resets /\ Level(reset, c.rstHigh) THEN ResetValue(c) ELSE no
  IN enabled(cleared(d))
RegisterNext(c, d, enable, reset) ==
  LET q == Sampled(c.out)
      enabled(yes) == IF c.kind \in Enabled /\ ~Level(enable, c.enHigh) THEN q ELSE yes
      cleared(no) == IF c.kind \in Resets /\ Level(reset, c.rstHigh) THEN ResetValue(c) ELSE no
  IN IF c.kind = "$sdffce" THEN enabled(cleared(d)) ELSE cleared(enabled(d))

Controls(c) == <<c.A>> \o (IF c.kind \in Enabled THEN <<c.B>> ELSE <<>>) \o (IF c.kind \in Resets THEN <<c.S>> ELSE <<>>)
NextOf(c, vs) == RegisterNext(c, vs[1], vs[IF Len(vs) > 1 THEN 2 ELSE 1], vs[Len(vs)])
AddRegister(c, read) ==
  /\ registers' = Append(registers, NextOf(c, read.v))
  /\ Yields(read.st, "next")
TranslateRegister ==
  /\ phase = "next"
  /\ k <= Len(Flops)
  /\ LET c == Cells[Flops[k]] IN AddRegister(c, Exprs(Controls(c), c.line, Now, {}))
  /\ k' = k + 1
  /\ Untouched /\ UNCHANGED <<domains, outputs>>
RegistersDone ==
  /\ phase = "next" /\ k > Len(Flops)
  /\ phase' = "instances" /\ k' = 1
  /\ Untouched /\ UNCHANGED <<cache, blocks, domains, registers, outputs>>

TranslateInstance ==
  /\ phase = "instances"
  /\ k <= Len(Children)
  /\ LET i == Children[k]
         c == Cells[i]
         parameter == IF c.parameters THEN Block(Now, "unelaborated_instance_parameter", i) ELSE Now
         connected == IF c.A = <<>> THEN Block(parameter, "unconnected_instance_input", i) ELSE parameter
     IN Yields(Expr(c.A, c.line, connected).st, "instances")
  /\ k' = k + 1
  /\ Untouched /\ UNCHANGED <<domains, registers, outputs>>

(* The cells no expression reached are looked at too.  A kind without a $ is *)
(* an instance: the elaboration (verilog_inventory.py line 324) refuses any *)
(* other.  Memory cells are those of ImportMemory.                          *)
Sweep ==
  /\ phase = "instances" /\ k > Len(Children)
  /\ phase' = "outputs" /\ k' = 1
  /\ blocks' = blocks \cup {<<"yosys_cell", i>> : i \in {j \in DOMAIN Cells :
                              Cells[j].kind \notin {"child"} \cup Sequential \cup SupportedComb}}
                       \cup (IF netlist.inout THEN {<<"port_direction", 0>>} ELSE {})
  /\ Untouched /\ UNCHANGED <<cache, domains, registers, outputs>>

AddOutput(read) == outputs' = Append(outputs, read.v) /\ Yields(read.st, "outputs")
TranslateOutput ==
  /\ phase = "outputs"
  /\ k <= Len(netlist.outputs)
  /\ AddOutput(Expr(netlist.outputs[k].bits, netlist.outputs[k].line, Now))
  /\ k' = k + 1
  /\ Untouched /\ UNCHANGED <<domains, registers>>

Finish ==
  /\ phase = "outputs" /\ k > Len(netlist.outputs)
  /\ phase' = IF blocks = {} THEN "pass" ELSE "blocked"
  /\ Untouched /\ UNCHANGED <<k, cache, blocks, domains, registers, outputs>>

Next == Index \/ Collect \/ TranslateRegister \/ RegistersDone \/ TranslateInstance \/ Sweep \/ TranslateOutput \/ Finish
Spec == Init /\ [][Next]_vars

(***************************************************************************)
(* What the netlist means: the values of its nets that agree with every     *)
(* cell.  An x that is read is what the policy puts in its place.           *)
(***************************************************************************)
Read == {c.A : c \in Members(Cells)} \cup {c.B : c \in Members(Cells)} \cup {c.S : c \in Members(Cells)}
          \cup {p.bits : p \in Members(netlist.outputs)}
Nets == {b \in UNION {Members(v) : v \in Read \cup InputVectors \cup {c.out : c \in Members(Cells)}} : b >= 0}
Fill(line) == IF \E r \in Matching(line) : r.fill = "one" THEN 1 ELSE 0
Means(sigma, bits, line) ==
  FromBits(Len(bits), [i \in DOMAIN bits |-> CASE bits[i] >= 0 -> sigma[bits[i]]
                                              [] bits[i] = X -> Fill(line)
                                              [] OTHER -> IF bits[i] = One THEN 1 ELSE 0])
Combinational == {i \in DOMAIN Cells : Cells[i].kind \in SupportedComb}
Agrees(sigma) ==
  /\ \A b \in Sources : sigma[b] = env[b]
  /\ \A i \in Combinational :
       LET c == Cells[i]   reads == Operands(c)
       IN Means(sigma, c.out, c.line) = Lowered(c, [n \in DOMAIN reads |-> Means(sigma, reads[n], c.line)])
YosysNext(sigma, c) ==
  LET d == Means(sigma, c.A, c.line)   q == Means(sigma, c.out, c.line)
      enable == Level(Means(sigma, c.B, c.line), c.enHigh)   reset == Level(Means(sigma, c.S, c.line), c.rstHigh)
      value == Literal(c.reset, Fill(c.line))
  IN CASE c.kind = "$dff"    -> d
       [] c.kind = "$dffe"   -> IF enable THEN d ELSE q
       [] c.kind = "$sdff"   -> IF reset THEN value ELSE d
       [] c.kind = "$sdffe"  -> IF reset THEN value ELSE IF enable THEN d ELSE q
       [] c.kind = "$sdffce" -> IF ~enable THEN q ELSE IF reset THEN value ELSE d
Exact ==
  \A sigma \in {f \in [Nets -> {0, 1}] : Agrees(f)} :
    /\ \A n \in DOMAIN outputs : outputs[n] = Means(sigma, netlist.outputs[n].bits, netlist.outputs[n].line)
    /\ \A n \in DOMAIN registers : registers[n] = YosysNext(sigma, Cells[Flops[n]])
ResetsKnown == \A i \in Members(Flops) : X \notin Members(Cells[i].reset)

(* The cells an emitted expression depends on, and the cells whose value    *)
(* follows from inputs, registers and children.                            *)
Feeding(bits) == UNION {Driving(b) : b \in Members(bits)}
FeedingCell(i) == IF i \in Combinational THEN UNION {Feeding(v) : v \in Members(Operands(Cells[i]))} ELSE {}
Needed ==
  LET n[d \in 0..Len(Cells)] ==
        IF d = 0 THEN Members(Flops) \cup (UNION {Feeding(p.bits) : p \in Members(netlist.outputs)})
                        \cup (UNION {UNION {Feeding(v) : v \in Members(Controls(Cells[i]))} : i \in Members(Flops)})
                        \cup (UNION {Feeding(Cells[i].A) : i \in Members(Children)})
        ELSE n[d - 1] \cup (UNION {FeedingCell(i) : i \in n[d - 1]})
  IN n[Len(Cells)]
Settled ==
  LET s[d \in 0..Len(Cells)] ==
        IF d = 0 THEN DOMAIN Cells \ Combinational
        ELSE s[d - 1] \cup {i \in Combinational : FeedingCell(i) \subseteq s[d - 1]}
  IN s[Len(Cells)]

(* A module that passes means what the netlist means: every output and the  *)
(* next value of every register, whatever the nets. A net with no driver,   *)
(* an unknown cell or an unclassified x would let two values stand for it.  *)
(* Code: expr, cell_expr, constant, block, translate.                       *)
PassIsExact == phase = "pass" /\ ResetsKnown => Exact

(* Nothing that an emitted expression depends on is part of a loop. Code:    *)
(* the in_progress set of cell_expr.                                        *)
PassIsAcyclic == phase = "pass" => Needed \subseteq Settled

(* The walk ends, unless it reads a net that nothing drives. Code: expr.     *)
OnlyUndrivenOverflows ==
  phase = "overflow" => \E b \in Nets : b \notin Sources /\ \A c \in Members(Cells) : b \notin Members(c.out)

(* Two registers share a domain only with the same clock and the same edge. *)
(* Code: translate, clock_domains and domain_names.                         *)
EdgesStayApart ==
  \A m, n \in DOMAIN domains :
    domains[m] = domains[n] => LET c == Cells[Flops[m]]   d == Cells[Flops[n]] IN c.clk = d.clk /\ c.rising = d.rising
==================================================================================

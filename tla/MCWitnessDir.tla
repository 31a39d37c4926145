------------------------------ MODULE MCWitnessDir ------------------------------
(* Texts of one shape that are generated one after another (the last lacks  *)
(* a literal), one with fewer blocks of every family and one with fewer     *)
(* outputs only; and every small shape, generated once.                     *)
EXTENDS WitnessDir

CONSTANT MaxSize

Large == [tag |-> 1, outs |-> 3, regs |-> 3, wires |-> 5, mems |-> <<[size |-> 4, writes |-> 1], [size |-> 2, writes |-> 1]>>]
Edited == [Large EXCEPT !.tag = 2]
Small == [tag |-> 1, outs |-> 2, regs |-> 1, wires |-> 2, mems |-> <<[size |-> 2, writes |-> 1]>>]
Narrow == [Large EXCEPT !.outs = 2]

Calls == 1..5

Volume(d) == d.outs + d.regs + d.wires + FoldSeq(LAMBDA m, n : n + m.size + m.writes, 0, d.mems)

(* All shapes with at most three outputs, five registers, twelve wires and  *)
(* two memories, by number.                                                 *)
Memory(n) == [size |-> 2 + 2 * (n % 2), writes |-> n \div 2]
Memories(n) ==
  CASE n = 0 -> <<>>
    [] n \in 1..6 -> <<Memory(n - 1)>>
    [] OTHER -> <<Memory((n - 7) % 6), Memory((n - 7) \div 6)>>
Shape(n) ==
  [tag |-> 1, outs |-> 1 + (n % 3), regs |-> 1 + ((n \div 3) % 5),
   wires |-> 1 + ((n \div 15) % 12), mems |-> Memories(n \div 180)]
TextsAndShapes == Calls \union {n \in 6..(5 + 180 * 43) : Volume(Shape(n - 6)) <= MaxSize}
MCDesignOf(n) == IF n \in Calls THEN <<Large, Edited, Small, Narrow, Edited>>[n] ELSE Shape(n - 6)
MCHybridOf(n) == n \in Calls
MCFits(n) == n # 5
================================================================================

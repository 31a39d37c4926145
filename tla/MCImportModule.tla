----------------------------- MODULE MCImportModule -----------------------------
EXTENDS ImportModule

Cell(kind, out, a, b, s, line) ==
  [kind |-> kind, out |-> out, A |-> a, B |-> b, S |-> s, line |-> line, clk |-> <<7>>, rising |-> TRUE,
   enHigh |-> TRUE, rstHigh |-> TRUE, reset |-> [i \in DOMAIN out |-> Zero], parameters |-> FALSE]
Module(cells, out) ==
  [cells |-> cells, inputs |-> <<[name |-> "a", bits |-> <<2, 3>>]>>,
   outputs |-> <<[name |-> "y", bits |-> out, line |-> 3]>>, inout |-> FALSE]

(* Two cells in a row or in a loop, with an x, a constant or a net nothing  *)
(* drives among what they read.                                            *)
Pairs ==
  {Module(<<Cell(k1, <<4>>, a1, <<2>>, <<3>>, 1), Cell(k2, <<6>>, a2, b2, <<3>>, 2)>>, out) :
     k1 \in {"$not", "$and", "$dff", "$adff", "$dlatch", "child"}, a1 \in {<<2>>, <<6>>, <<X>>, <<9>>},
     k2 \in {"$xor", "$mux"}, a2 \in {<<4>>, <<3>>, <<6>>}, b2 \in {<<4>>, <<One>>},
     out \in {<<6>>, <<6, 4>>, <<2, 3>>}}

(* Every register, with both polarities.                                   *)
Registers ==
  {Module(<<[Cell(kind, <<4>>, d, <<2>>, <<3>>, 1) EXCEPT !.enHigh = en, !.rstHigh = rst, !.reset = <<One>>],
            [Cell("$dff", <<5>>, <<4>>, <<2>>, <<3>>, 2) EXCEPT !.rising = en]>>, <<5, 4>>) :
     kind \in Sequential \ {"$adff", "$adffe"}, d \in {<<4>>, <<5>>}, en \in BOOLEAN, rst \in BOOLEAN}

(* Vectors taken apart and put together, two drivers, children.            *)
Vectors2 ==
  {Module(<<Cell(k1, <<4, 5>>, a1, <<3, 2>>, <<3>>, 1), Cell(k2, <<6, 8>>, a2, <<One, X>>, <<2>>, 2)>>, out) :
     k1 \in {"$add", "child", "$dff"}, a1 \in {<<2, 3>>, <<3, 6>>, <<>>}, k2 \in {"$sub", "$or"},
     a2 \in {<<5, 4>>, <<4, Zero>>}, out \in {<<8, 4>>, <<6, 8>>, <<5, 3, 8>>, <<8>>}}
Odd ==
  {Module(<<Cell("$not", <<4>>, <<2>>, <<2>>, <<3>>, 1), Cell("$and", <<o>>, <<2>>, <<3>>, <<3>>, 2)>>, <<4>>) : o \in {4, 6}}
  \cup {[Module(<<Cell("child", <<4>>, <<2>>, <<2>>, <<3>>, 1)>>, <<4>>) EXCEPT !.cells[1].parameters = TRUE],
        [Module(<<>>, <<2>>) EXCEPT !.inout = TRUE]}
MCNetlists == Pairs \cup Registers \cup Vectors2 \cup Odd

Rule(lo, hi, fill) == [lo |-> lo, hi |-> hi, fill |-> fill]
MCPolicies == {{}, {Rule(1, 2, "one")}, {Rule(1, 1, "one"), Rule(1, 2, "zero")}}
==================================================================================

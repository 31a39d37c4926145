----------------------------- MODULE MCImportPackage -----------------------------
EXTENDS Integers, Sequences

Node(op, parts) == [op |-> op, parts |-> parts]
(* Shared leaves, and squares of squares.                                  *)
Squares == <<Node("signal", <<>>), Node("mul", <<1, 1>>), Node("mul", <<2, 2>>), Node("add", <<3, 1>>)>>
SharedLeaves == <<Node("signal", <<>>), Node("literal", <<>>), Node("mux", <<2, 1, 2>>)>>
Mod(cells, heap, roots, blockers) == [cells |-> cells, heap |-> heap, roots |-> roots, blockers |-> blockers]

MCDesigns ==
  {[n \in 1..3 |-> CASE n = 1 -> Mod(c1, Squares, <<4, 3, 4>>, FALSE)
                     [] n = 2 -> Mod(c2, SharedLeaves, <<3, 1>>, b = 2)
                     [] n = 3 -> Mod(c3, Squares, <<2, 1>>, b = 3)] :
     c1 \in {<<2>>, <<3, 3, 2>>, <<>>}, c2 \in {<<>>, <<3>>, <<8, 3>>}, c3 \in {<<>>, <<2>>, <<1, 7>>}, b \in {0, 2, 3}}
Document(name, class, fill, lo, hi) == [name |-> name, classification |-> class, fill |-> fill, lo |-> lo, hi |-> hi]
Good == Document("a", "undriven", "zero", 1, 2)
MCDocuments == {<<>>, <<Good>>, <<Good, Good>>, <<[Good EXCEPT !.hi = 0]>>, <<[Good EXCEPT !.fill = "x"]>>,
                <<[Good EXCEPT !.classification = "other"]>>}
==================================================================================

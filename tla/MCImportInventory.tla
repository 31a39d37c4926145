---------------------------- MODULE MCImportInventory ----------------------------
EXTENDS MCImportModule, ImportInventory

(* Registers of every kind, on either edge, with a latch or a comparison    *)
(* beside them.                                                            *)
Clockings ==
  {Module(<<[Cell(k1, <<4>>, <<2>>, <<2>>, <<3>>, 1) EXCEPT !.rising = r1],
            [Cell(k2, <<5>>, <<4>>, <<2>>, <<3>>, 2) EXCEPT !.rising = r2], Cell(k3, <<6>>, <<4>>, <<5>>, <<2>>, 2)>>, <<6>>) :
     k1 \in Sequential \cup {"$aldff"}, k2 \in {"$dff", "$sdff", "$aldffe"}, k3 \in {"$eq", "$xor", "$dlatch", "$shr", "$pow"},
     r1 \in BOOLEAN, r2 \in BOOLEAN}
MCClockings == Clockings \cup Odd
==================================================================================

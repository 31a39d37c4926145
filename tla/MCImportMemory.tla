----------------------------- MODULE MCImportMemory -----------------------------
EXTENDS Integers, Sequences

Dyn == [static |-> -1, clocked |-> TRUE, rising |-> TRUE]
At(raw) == [Dyn EXCEPT !.static = raw]
Zeros == [w \in 0..3 |-> [ones |-> {}, unknown |-> {}]]
Base == [kind |-> "$mem_v2", size |-> 2, width |-> 2, abits |-> 1, readPorts |-> 1, offset |-> 0, wellPacked |-> TRUE,
         features |-> {}, readReset |-> FALSE, exact |-> TRUE, writes |-> <<>>, init |-> Zeros]
With(writes, abits) == [Base EXCEPT !.writes = writes, !.abits = abits]
Narrow(writes, abits) == [With(writes, abits) EXCEPT !.width = 1]

MCMemoryCells == {
  Narrow(<<Dyn, Dyn, Dyn>>, 1), With(<<Dyn, Dyn>>, 2), With(<<At(0), At(1), At(0)>>, 1),
  Narrow(<<At(0), At(0), Dyn>>, 1), With(<<At(0), Dyn, At(0)>>, 1), Narrow(<<At(1), At(3), Dyn>>, 2),
  Narrow(<<At(2), At(0), At(2), At(0)>>, 2),
  [With(<<>>, 2) EXCEPT !.init = [w \in 0..3 |-> [ones |-> {w % 2}, unknown |-> IF w = 1 THEN {0} ELSE {}]]],
  [With(<<>>, 2) EXCEPT !.size = 4, !.init = [w \in 0..3 |-> [ones |-> {w % 2}, unknown |-> {}]]],
  [Base EXCEPT !.kind = "$mem"], [Base EXCEPT !.size = 3], [Base EXCEPT !.offset = 1],
  With(<<Dyn>>, 1), [With(<<Dyn>>, 1) EXCEPT !.size = 4], [Base EXCEPT !.size = 4],
  [Base EXCEPT !.size = 1], [With(<<Dyn>>, 1) EXCEPT !.size = 1], [Base EXCEPT !.exact = FALSE],
  [Base EXCEPT !.wellPacked = FALSE], [Base EXCEPT !.features = {"RD_CLK_ENABLE"}], [Base EXCEPT !.readReset = TRUE],
  With(<<[Dyn EXCEPT !.clocked = FALSE]>>, 1), With(<<[Dyn EXCEPT !.rising = FALSE]>>, 1)}
==================================================================================

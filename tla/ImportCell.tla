------------------------------- MODULE ImportCell -------------------------------
(***************************************************************************)
(* One combinational Yosys cell at a time through the importer's lowering,  *)
(* against what Yosys says the cell computes.                              *)
(***************************************************************************)
EXTENDS ImportOps

CONSTANTS MaxWidth,    \* widths of operands and results
          Fills        \* what the four-state policy may say of a part select: zero, one, none

VARIABLES cell, fill, phase, result, blocked
vars == <<cell, fill, phase, result, blocked>>

Vectors == UNION {{BV(w, n) : n \in 0..(2^w - 1)} : w \in 1..MaxWidth}
Shifts == {"$shl", "$shr", "$sshr"}
Signable(kind) == kind \in {"$not", "$neg", "$sshr"} \cup Compares \cup DOMAIN ArithOps

(* The cells the Verilog front end makes without a width-reducing pass.     *)
WellFormed(c) ==
  /\ c.aSigned => Signable(c.kind)
  /\ c.bSigned = (c.aSigned /\ (c.kind \in Compares \/ (c.kind \in DOMAIN ArithOps /\ c.kind \notin Shifts)))
       \/ c.kind \in {"$shift", "$shiftx"}
  /\ c.kind \in DOMAIN UnaryOps \cup DOMAIN ArithOps \cup {"$sshr"} => c.width >= c.a.width
  /\ c.kind \in DOMAIN ArithOps \ Shifts => c.width >= c.b.width
  /\ c.kind = "$mux" => c.a.width = c.width /\ c.b.width = c.width
  /\ c.kind \in DOMAIN UnaryOps \cup DOMAIN ReduceOps => c.b = BV(1, 0)
  /\ c.s.value = 1 => c.kind = "$mux"

Init ==
  /\ cell \in {c \in [kind : SupportedComb, a : Vectors, b : Vectors, s : {BV(1, 0), BV(1, 1)},
                      width : 1..MaxWidth, aSigned : BOOLEAN, bSigned : BOOLEAN] : WellFormed(c)}
  /\ fill \in IF cell.kind = "$shiftx" THEN Fills ELSE {"none"}
  /\ phase = "cell"
  /\ result = BV(1, 0)
  /\ blocked = {}

(* What keeps the importer from translating a part select.                 *)
Blockers ==
  IF cell.kind # "$shiftx" THEN {}
  ELSE IF cell.bSigned THEN {"signed_shiftx"}
  ELSE CASE fill = "none" -> {"four_state_policy"}
         [] fill = "one"  -> {"four_state_shiftx_fill"}
         [] fill = "zero" -> {}

Lower ==
  /\ phase = "cell"
  /\ phase' = "done"
  /\ blocked' = Blockers
  /\ result' = IF Blockers \subseteq {"four_state_shiftx_fill"}
               THEN CellValue(cell.kind, cell.a, cell.b, cell.s, cell.width, cell.aSigned, cell.bSigned,
                              IF fill = "one" THEN Ones(cell.width) ELSE BV(cell.width, 0))
               ELSE BV(cell.width, 0)
  /\ UNCHANGED <<cell, fill>>

Next == Lower
Spec == Init /\ [][Next]_vars

(* What Yosys computes: integers, cut to the result; the operands have the  *)
(* sign only when both have one.                                           *)
IntOf(v, signed) == IF signed THEN Signed(v) ELSE v.value
Towards0(n, d) == LET q == (IF n < 0 THEN -n ELSE n) \div (IF d < 0 THEN -d ELSE d)
                  IN IF (n < 0) = (d < 0) THEN q ELSE -q
FloorShift(n, amount) == IF amount > 12 THEN (IF n < 0 THEN -1 ELSE 0) ELSE n \div 2^amount
LeftShift(n, amount) == IF amount > 12 THEN 0 ELSE n * 2^amount

(* A selected bit outside the vector: zero for $shift, anything for $shiftx. *)
Selects(c, bits) ==
  \A i \in 0..(c.width - 1) :
    LET at == i + IntOf(c.b, c.bSigned)
    IN IF at \in 0..(c.a.width - 1) THEN BitAt(bits, i) = BitAt(c.a, at)
       ELSE c.kind = "$shift" => BitAt(bits, i) = 0

YosysInteger(c) ==
  LET a == IntOf(c.a, c.aSigned)   b == IntOf(c.b, c.bSigned)
      truth(p) == IF p THEN 1 ELSE 0
  IN CASE c.kind = "$not" -> -1 - a
       [] c.kind = "$neg" -> -a
       [] c.kind = "$logic_not"   -> truth(a = 0)
       [] c.kind = "$reduce_and"  -> truth(\A i \in 0..(c.a.width - 1) : BitAt(c.a, i) = 1)
       [] c.kind \in {"$reduce_or", "$reduce_bool"} -> truth(\E i \in 0..(c.a.width - 1) : BitAt(c.a, i) = 1)
       [] c.kind = "$logic_and"   -> truth(a # 0 /\ b # 0)
       [] c.kind = "$logic_or"    -> truth(a # 0 \/ b # 0)
       [] c.kind = "$mux" -> IF c.s.value = 1 THEN b ELSE a
       [] c.kind = "$and" -> Binary("bit_and", c.width, BV(c.width, a), BV(c.width, b)).value
       [] c.kind = "$or"  -> Binary("bit_or", c.width, BV(c.width, a), BV(c.width, b)).value
       [] c.kind = "$xor" -> Binary("bit_xor", c.width, BV(c.width, a), BV(c.width, b)).value
       [] c.kind = "$add" -> a + b
       [] c.kind = "$sub" -> a - b
       [] c.kind = "$mul" -> a * b
       [] c.kind = "$div" -> Towards0(a, b)
       [] c.kind = "$mod" -> a - b * Towards0(a, b)
       [] c.kind = "$shl" -> LeftShift(a, c.b.value)
       [] c.kind = "$shr" -> FloorShift(BV(c.width, a).value, c.b.value)
       [] c.kind = "$sshr" -> FloorShift(a, c.b.value)
       [] c.kind = "$eq" -> truth(a = b)
       [] c.kind = "$ne" -> truth(a # b)
       [] c.kind = "$lt" -> truth(a < b)
       [] c.kind = "$le" -> truth(a <= b)
       [] c.kind = "$gt" -> truth(a > b)
       [] c.kind = "$ge" -> truth(a >= b)

Computes(c, bits) ==
  /\ bits.width = c.width
  /\ CASE c.kind \in {"$shift", "$shiftx"} -> Selects(c, bits)
       [] c.kind \in {"$div", "$mod"} /\ c.b.value = 0 -> TRUE
       [] OTHER -> bits = BV(c.width, YosysInteger(c))

Exact == phase = "done" /\ blocked = {} => Computes(cell, result)

(* Outside signed division and shifts by more bits than the result has,     *)
(* what the importer emits without a blocker is what Yosys computes.       *)
(* Code: ModuleTranslator.cell_expr, resize, arithmetic_shift_right.        *)
LoweringIsExact ==
  ~(cell.kind \in {"$div", "$mod"} /\ cell.aSigned) /\ ~(cell.kind \in {"$shl", "$shr"} /\ cell.b.width > cell.width)
    => Exact

(* The four-state normalisation of a part select is the validated one.      *)
(* Code: the $shiftx branch of cell_expr.                                   *)
OnlyZeroFillPasses ==
  phase = "done" /\ blocked = {} /\ cell.kind = "$shiftx"
    => \A i \in 0..(cell.width - 1) : i + cell.b.value >= cell.a.width => BitAt(result, i) = 0
==================================================================================

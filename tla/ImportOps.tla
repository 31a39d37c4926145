-------------------------------- MODULE ImportOps --------------------------------
(***************************************************************************)
(* The operators of Loom's neutral import expressions, each given by the    *)
(* value it denotes, and the lowering of a Yosys cell to them.             *)
(***************************************************************************)
EXTENDS Integers, Sequences

(* The powers of two, and a vector of width bits.                          *)
Power[n \in Nat] == IF n = 0 THEN 1 ELSE 2 * Power[n - 1]
BV(width, n) == [width |-> width, value |-> n % Power[width]]
Signed(v) == IF v.value >= Power[v.width - 1] THEN v.value - Power[v.width] ELSE v.value
Ones(width) == BV(width, Power[width] - 1)
Bool(b) == BV(1, IF b THEN 1 ELSE 0)
Larger(a, b) == IF a >= b THEN a ELSE b
BitAt(v, i) == (v.value \div Power[i]) % 2
FromBits(width, bits) ==
  LET upTo[i \in 0..width] == IF i = 0 THEN 0 ELSE upTo[i - 1] + bits[i] * Power[i - 1]
  IN BV(width, upTo[width])

SliceExpr(v, offset, width) == BV(width, v.value \div Power[offset])
Concat(high, low) == BV(high.width + low.width, high.value * Power[low.width] + low.value)
Resize(v, width, signed) == BV(width, IF signed THEN Signed(v) ELSE v.value)
Mux(condition, yes, no) == IF condition.value = 1 THEN yes ELSE no

Unary(op, v) ==
  CASE op = "bit_not"     -> BV(v.width, -1 - v.value)
    [] op = "negate"      -> BV(v.width, -v.value)
    [] op = "reduce_and"  -> Bool(v = Ones(v.width))
    [] op = "reduce_bool" -> Bool(v.value # 0)
    [] op = "logical_not" -> Bool(v.value = 0)

Binary(op, width, left, right) ==
  LET Ones2(i) == BitAt(left, i - 1) + BitAt(right, i - 1) IN
  CASE op = "bit_and" -> FromBits(width, [i \in 1..width |-> Ones2(i) \div 2])
    [] op = "bit_or"  -> FromBits(width, [i \in 1..width |-> (Ones2(i) + 1) \div 2])
    [] op = "bit_xor" -> FromBits(width, [i \in 1..width |-> Ones2(i) % 2])
    [] op = "add" -> BV(width, left.value + right.value)
    [] op = "sub" -> BV(width, left.value - right.value)
    [] op = "mul" -> BV(width, left.value * right.value)
    [] op = "unsigned_div" -> BV(width, IF right.value = 0 THEN 0 ELSE left.value \div right.value)
    [] op = "unsigned_rem" -> BV(width, IF right.value = 0 THEN left.value ELSE left.value % right.value)
    [] op = "shift_left" -> BV(width, IF right.value >= width THEN 0 ELSE left.value * Power[right.value])
    [] op = "logical_shift_right" -> BV(width, IF right.value >= width THEN 0 ELSE left.value \div Power[right.value])
    [] op = "equal" -> Bool(left.value = right.value)
    [] op = "unsigned_less_than" -> Bool(left.value < right.value)
    [] op = "signed_less_than" -> Bool(Signed(left) < Signed(right))

(* An arithmetic shift as a logical one over work bits: past the base width *)
(* the sign is everywhere.                                                 *)
ShiftThrough(work, base, v, amount, width, signed) ==
  LET wide == Resize(v, work, signed)
      far == Resize(amount, work, FALSE)
      moved == Binary("logical_shift_right", work, wide, far)
      fill == Mux(SliceExpr(wide, work - 1, 1), Ones(work), BV(work, 0))
  IN Resize(IF signed THEN Mux(Binary("unsigned_less_than", 1, far, BV(work, base)), moved, fill) ELSE moved,
            width, signed)

(* A mutant: the sign extension is no wider than the vector.               *)
ArithmeticShiftRightNarrow(v, amount, width, signed) ==
  LET base == Larger(v.width, width) IN ShiftThrough(Larger(base, amount.width), base, v, amount, width, signed)
(* A sign extension twice as wide brings in sign bits.                     *)
ArithmeticShiftRight(v, amount, width, signed) ==
  LET base == Larger(v.width, width)
  IN ShiftThrough(Larger(IF signed THEN 2 * base ELSE base, amount.width), base, v, amount, width, signed)

(* $shift: right by the amount, left by its magnitude when it is negative. *)
Shift(v, amount, width, signed, amountSigned) ==
  LET work == Larger(Larger(v.width, amount.width), width)
      wide == Resize(v, work, signed)
      by == Resize(amount, work, amountSigned)
      right == Binary("logical_shift_right", work, wide, by)
      left == Binary("shift_left", work, wide, Unary("negate", by))
  IN Resize(IF amountSigned THEN Mux(SliceExpr(by, work - 1, 1), left, right) ELSE right, width, signed)

(* $shiftx: a part select, with the policy's fill above the vector. *)
ShiftX(v, amount, width, fill) ==
  LET extended == Concat(fill, v)
      work == Larger(extended.width, amount.width)
      far == Resize(amount, work, FALSE)
      moved == Binary("logical_shift_right", work, Resize(extended, work, FALSE), far)
  IN Mux(Binary("unsigned_less_than", 1, far, BV(work, v.width)), Resize(moved, width, FALSE), fill)

Compare(kind, a, b, aSigned, bSigned) ==
  LET common == Larger(a.width, b.width)
      left == Resize(a, common, aSigned)
      right == Resize(b, common, bSigned)
      less(x, y) == Binary(IF aSigned /\ bSigned THEN "signed_less_than" ELSE "unsigned_less_than", 1, x, y)
      negated(x) == Unary("logical_not", x)
  IN CASE kind = "$eq" -> Binary("equal", 1, left, right)
       [] kind = "$ne" -> negated(Binary("equal", 1, left, right))
       [] kind = "$lt" -> less(left, right)
       [] kind = "$gt" -> less(right, left)
       [] kind = "$ge" -> negated(less(left, right))
       [] kind = "$le" -> negated(less(right, left))

UnaryOps == [k \in {"$not", "$neg"} |-> IF k = "$not" THEN "bit_not" ELSE "negate"]
ReduceOps == [k \in {"$logic_not", "$reduce_and", "$reduce_or", "$reduce_bool"} |->
                CASE k = "$logic_not" -> "logical_not" [] k = "$reduce_and" -> "reduce_and" [] OTHER -> "reduce_bool"]
LogicOps == [k \in {"$logic_and", "$logic_or"} |-> IF k = "$logic_and" THEN "bit_and" ELSE "bit_or"]
Compares == {"$eq", "$ne", "$lt", "$le", "$ge", "$gt"}
ArithOps == [k \in {"$and", "$or", "$xor", "$add", "$sub", "$mul", "$div", "$mod", "$shl", "$shr"} |->
               CASE k = "$and" -> "bit_and" [] k = "$or" -> "bit_or" [] k = "$xor" -> "bit_xor"
                 [] k = "$add" -> "add" [] k = "$sub" -> "sub" [] k = "$mul" -> "mul"
                 [] k = "$div" -> "unsigned_div" [] k = "$mod" -> "unsigned_rem"
                 [] k = "$shl" -> "shift_left" [] k = "$shr" -> "logical_shift_right"]
SupportedComb == DOMAIN UnaryOps \cup DOMAIN ReduceOps \cup DOMAIN LogicOps \cup Compares \cup DOMAIN ArithOps
                   \cup {"$mux", "$sshr", "$shift", "$shiftx"}

(* What a cell with the operands a, b and s is lowered to, for a result of  *)
(* width bits; fill is what the four-state policy puts out of range.       *)
CellValue(kind, a, b, s, width, aSigned, bSigned, fill) ==
  CASE kind \in DOMAIN UnaryOps  -> Unary(UnaryOps[kind], Resize(a, width, aSigned))
    [] kind \in DOMAIN ReduceOps -> Resize(Unary(ReduceOps[kind], a), width, FALSE)
    [] kind \in DOMAIN LogicOps  -> Resize(Binary(LogicOps[kind], 1, Unary("reduce_bool", a), Unary("reduce_bool", b)), width, FALSE)
    [] kind = "$mux"    -> Mux(s, Resize(b, width, FALSE), Resize(a, width, FALSE))
    [] kind = "$sshr"   -> ArithmeticShiftRight(a, b, width, aSigned)
    [] kind = "$shift"  -> Shift(a, b, width, aSigned, bSigned)
    [] kind = "$shiftx" -> ShiftX(a, b, width, fill)
    [] kind \in Compares -> Resize(Compare(kind, a, b, aSigned, bSigned), width, FALSE)
    [] kind \in DOMAIN ArithOps ->
         Binary(ArithOps[kind], width, Resize(a, width, aSigned), Resize(b, width, bSigned))
==================================================================================

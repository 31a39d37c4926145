------------------------------ MODULE BatchProgram ------------------------------
(***************************************************************************)
(* The one program that the hardware leg of the conformance vectors runs:  *)
(* what is emitted for a list of vectors, and what a core makes of it.     *)
(* The width of a word, the number of bitmap words and the size of a       *)
(* diagnostic are parameters; the program uses 64, 5 and 4.                *)
(***************************************************************************)
EXTENDS Integers, Sequences, SequencesExt, Bitwise

CONSTANTS WordBits,      \* bits of a word
          BitmapWords,   \* words, and registers, of the pass bitmap
          DmemWords,     \* words of the data memory
          SlotBase       \* the memory word of the first raw result

ASSUME ProgramSizes ==
  /\ WordBits \in Nat /\ WordBits % 2 = 0 /\ WordBits > 0
  /\ BitmapWords \in 1..7
  /\ SlotBase >= BitmapWords + 2 /\ DmemWords >= SlotBase

Trap == -1                       \* what a core answers for an operation it faults on

(* Registers: the bitmap, the mismatch and vector counts, and the scratch.  *)
RBitmap == [w \in 0..(BitmapWords - 1) |-> w + 1]
RMismatch == BitmapWords + 1
RNvec == BitmapWords + 2
RA == 10
RB == 11
RRes == 12
RFlag == 13
RT == 14
RU == 15
Regs == 0..15
MismatchWord == BitmapWords
NvecWord == BitmapWords + 1
Slot(g) == SlotBase + g

(* An instruction: destination, two operands, and the vector it is for.     *)
(* Immediates and memory words stand in the last operand.                   *)
NoOwner == -1
I(op, d, a, b) == [op |-> op, d |-> d, a |-> a, b |-> b, owner |-> NoOwner]
Owned(g, code) == [n \in DOMAIN code |-> [code[n] EXCEPT !.owner = g]]

Half == 2 ^ (WordBits \div 2)
Li64(r, v) == <<I("LI", r, 0, v % Half), I("LIU", r, r, v \div Half)>>
DoOp(d, v, a, b) == <<I(v.op, d, a, IF v.form = "rrr" THEN b ELSE 0)>>

EqFlag(f, a, b) == <<I("XOR", f, a, b), I("SLTU", f, 0, f), I("XORI", f, f, 1)>>

Inputs(v, rs1, rs2) == Li64(RA, rs1) \o (IF v.form = "rrr" THEN Li64(RB, rs2) ELSE <<>>)

(* The flag of a vector by the kind of its assertion. *)
CheckOf(v) ==
  CASE v.kind = "no_fault" -> <<I("LI", RFlag, 0, 1)>>
    [] v.kind = "reg_value" -> Li64(RT, v.arg) \o EqFlag(RFlag, RRes, RT)
    [] v.kind = "bits_zero_above" ->
         <<I("LSRI", RT, RRes, v.arg), I("SLTU", RFlag, 0, RT), I("XORI", RFlag, RFlag, 1)>>
    [] v.kind = "same_as" ->
         Inputs(v, v.ref1, v.ref2) \o DoOp(RT, v, RA, RB) \o EqFlag(RFlag, RRes, RT)

Folded(g) ==
  LET r == RBitmap[g \div WordBits] IN
  <<I("LSLI", RU, RFlag, g % WordBits), I("OR", r, r, RU),
    I("XORI", RU, RFlag, 1), I("ADD", RMismatch, RMismatch, RU)>>

VectorCode(g, v) ==
  Owned(g, Inputs(v, v.rs1, v.rs2) \o DoOp(RRes, v, RA, RB) \o <<I("SD", Slot(g), RRes, 0)>>
           \o CheckOf(v) \o Folded(g))

Prologue == [w \in 1..BitmapWords |-> I("LI", RBitmap[w - 1], 0, 0)] \o <<I("LI", RMismatch, 0, 0)>>
Epilogue(count) ==
  <<I("LI", RNvec, 0, count)>>
  \o [w \in 1..BitmapWords |-> I("SD", w - 1, RBitmap[w - 1], 0)]
  \o <<I("SD", MismatchWord, RMismatch, 0), I("SD", NvecWord, RNvec, 0), I("EXIT", 0, 0, 0)>>

(* `live` is the list of <<index, vector>> to execute.  Mutant: the vectors   *)
(* are numbered anew after a removal.                                        *)
GenProgramRenumbered(live) ==
  Prologue \o FlattenSeq([n \in DOMAIN live |-> VectorCode(n - 1, live[n][2])]) \o Epilogue(Len(live))
GenProgram(live) ==
  Prologue \o FlattenSeq([n \in DOMAIN live |-> VectorCode(live[n][1], live[n][2])]) \o Epilogue(Len(live))

(* Got and reference of a few vectors, in neighbouring registers from 1 up. *)
DiagnosticOf(v, rg, rr) ==
  Inputs(v, v.rs1, v.rs2) \o DoOp(rg, v, RA, RB)
  \o CASE v.kind = "reg_value" -> Li64(rr, v.arg)
       [] v.kind = "bits_zero_above" -> <<I("LSRI", rr, rg, v.arg)>>
       [] v.kind = "same_as" -> Inputs(v, v.ref1, v.ref2) \o DoOp(rr, v, RA, RB)
       [] OTHER -> <<I("LI", rr, 0, 0)>>
GenDiagnostic(items) ==
  FlattenSeq([n \in DOMAIN items |-> DiagnosticOf(items[n][2], 2 * n - 1, 2 * n)]) \o <<I("EXIT", 0, 0, 0)>>
--------------------------------------------------------------------------------
(* A core: `answers` gives the result of the operations under test on their *)
(* operands, and `fault` is what is wrong with the rest of it, if anything. *)

Apply(core, i, x, y) ==
  CASE i.op = "LI" -> i.b
    [] i.op = "LIU" -> (i.b * Half) + (x % Half)
    [] i.op = "XOR" -> x ^^ y
    [] i.op = "XORI" -> x ^^ i.b
    [] i.op = "OR" -> x | y
    [] i.op = "SLTU" -> IF x < y THEN 1 ELSE 0
    [] i.op = "LSLI" -> (x * 2 ^ i.b) % 2 ^ WordBits
    [] i.op = "LSRI" -> x \div 2 ^ i.b
    [] i.op = "ADD" -> IF core.fault = "ADD ignores" THEN x ELSE (x + y) % 2 ^ WordBits
    [] OTHER -> core.answers[<<i.op, x, y>>]

Reset == [regs |-> [r \in Regs |-> 0], mem |-> [w \in 0..(DmemWords - 1) |-> 0], trap |-> 0, halted |-> FALSE]

(* One instruction, the n-th of the program.  Register 0 reads as zero. *)
Execute(core, s, i, n) ==
  LET x == s.regs[i.a]
      y == s.regs[i.b % 16] IN
  CASE s.trap # 0 \/ s.halted -> s
    [] i.op = "EXIT" -> [s EXCEPT !.halted = (core.fault # "EXIT ignored")]
    [] i.op = "SD" -> IF core.fault = "SD traps" THEN [s EXCEPT !.trap = n] ELSE [s EXCEPT !.mem[i.d] = x]
    [] OTHER ->
         LET v == Apply(core, i, x, y) IN
         IF v = Trap THEN [s EXCEPT !.trap = n] ELSE [s EXCEPT !.regs[i.d] = v]

RECURSIVE RunFrom(_, _, _, _)
RunFrom(core, code, s, n) ==
  IF n > Len(code) \/ s.trap # 0 \/ s.halted THEN s
  ELSE RunFrom(core, code, Execute(core, s, code[n], n), n + 1)

(* The readout: trap position, halt, registers and memory. *)
Run(core, code) == RunFrom(core, code, Reset, 1)
================================================================================

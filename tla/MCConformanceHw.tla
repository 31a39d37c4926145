---------------------------- MODULE MCConformanceHw ----------------------------
(* Five convertible vectors, of every kind, over two bitmap words of four    *)
(* bits, and two that cannot be converted; a list too long for them, and one *)
(* so short that every vector can be removed.                                *)
EXTENDS ConformanceHw
Vec(op, form, kind, rs1, rs2, arg) ==
  [op |-> op, form |-> form, kind |-> kind, rs1 |-> rs1, rs2 |-> rs2, arg |-> arg,
   ref1 |-> 2, ref2 |-> 1, runnable |-> TRUE]
Blocked == [Vec("mul", "rrr", "reg_value", 1, 1, 1) EXCEPT !.runnable = FALSE]
Sequence == Vec("mul", "sequence", "reg_value", 1, 1, 1)
Five == <<Vec("mul", "rrr", "reg_value", 1, 2, 2), Blocked, Vec("neg", "rr", "bits_zero_above", 1, 0, 1),
          Vec("mul", "rrr", "same_as", 1, 2, 0), Sequence, Vec("mul", "rrr", "no_fault", 3, 3, 0),
          Vec("neg", "rr", "reg_value", 1, 0, 1)>>
Docs == {Five, Five \o Five, SubSeq(Five, 1, 3)}

Points == {<<"mul", 1, 2>>, <<"mul", 2, 1>>, <<"mul", 3, 3>>, <<"neg", 1, 0>>}
Answers == {a @@ (<<"mul", 1, 0>> :> 1) : a \in [Points -> {Trap, 1, 2}]}
Core(a, f) == [answers |-> a, fault |-> f]
Sound == {Core(a, "none") : a \in Answers}
Broken == {Core(a, f) : a \in {a \in Answers : a[<<"mul", 3, 3>>] = 1}, f \in {"ADD ignores", "SD traps", "EXIT ignored"}}
DesignCores == Sound \union Broken
(* The RTL is the Design, or answers one operation otherwise. *)
RtlCores == [d \in DesignCores |->
  {[d EXCEPT !.answers[p] = x] : p \in Points, x \in {Trap, 1, 2}}]
Names == [op \in {"mul", "neg"} |-> op]
AliasTables == {Names, [Names EXCEPT !["neg"] = "mul"]}
================================================================================

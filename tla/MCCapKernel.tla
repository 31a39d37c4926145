---------------------------- MODULE MCCapKernel ----------------------------
(***************************************************************************)
(* A manifest with two domains.  d1 boots with a writable memory root,     *)
(* mapped, a capability for the gate d2 serves and a free slot; d2 boots   *)
(* with nothing.                                                           *)
(***************************************************************************)
EXTENDS CapKernel

CONSTANTS d1, d2, g1, r1

RW == {"r", "w"}

MCInitCaps ==
  [d \in {d1, d2} |-> [s \in 0 .. NumSlots - 1 |->
     CASE d = d1 /\ s = 0 -> [cls |-> "mem", base |-> 0, len |-> 2, perms |-> RW]
       [] d = d1 /\ s = 1 -> [cls |-> "gate", gate |-> g1]
       [] OTHER -> None]]

MCInitRegions == [d \in {d1, d2} |-> [r \in Regions |-> IF d = d1 THEN 0 ELSE None]]

MCCallee == [g \in Gates |-> d2]

\* A half that can be narrowed again, and two requests the kernel must refuse.
MCNarrowings ==
  {[off |-> 0, len |-> 1, perms |-> RW],
   [off |-> 1, len |-> 2, perms |-> {"r"}],
   [off |-> 0, len |-> 1, perms |-> {"w", "x"}]}
=============================================================================

------------------------------ MODULE ImportMemory ------------------------------
(***************************************************************************)
(* A Yosys $mem_v2 cell and the Loom memory the importer makes of it.  A    *)
(* Yosys write port masks bits and the ports write in order; a Loom port    *)
(* writes a whole word, and every expression reads the memory as it was     *)
(* before the cycle.  A word is the set of its one bits.                   *)
(***************************************************************************)
EXTENDS ImportOps, FiniteSets

CONSTANTS Cells,    \* the memory cells
          Policies  \* what the four-state policy makes of the cell's x bits: zero, one, none

VARIABLES cell, policy, phase, blocked,
          mem,      \* Loom's memory
          gold      \* the Yosys memory
vars == <<cell, policy, phase, blocked, mem, gold>>

Bits == 0..(cell.width - 1)
Addresses == 0..(Power[cell.abits] - 1)
Words == 0..(cell.size - 1)
AddressWidth == CHOOSE w \in 0..cell.size : Power[w] >= cell.size /\ \A v \in 0..(w - 1) : Power[v] < cell.size
Partial == cell.abits # AddressWidth
Filled(unknown) == IF policy = "one" THEN unknown ELSE {}

Init ==
  /\ cell \in Cells
  /\ policy \in Policies
  /\ phase = "cell"
  /\ blocked = {}
  /\ mem = [w \in Words |-> {}]
  /\ gold = mem

(* The shape and the features of the cell, then its read resets, its write  *)
(* clocks and its initial value.                                           *)
Shape ==
  IF cell.kind # "$mem_v2" THEN {"memory_cell"}
  ELSE IF \/ cell.size <= 0 \/ cell.size \notin {Power[n] : n \in 0..cell.size}
          \/ cell.width <= 0 \/ cell.abits <= 0 \/ cell.readPorts <= 0 \/ cell.offset # 0 THEN {"memory_shape"}
  ELSE IF ~cell.wellPacked THEN {"memory_port_shape"}
  ELSE IF cell.features # {} THEN {"memory_semantics"} ELSE {}
Controls ==
  {b \in {"memory_read_control", "asynchronous_memory_write", "falling_edge_memory_write"} :
     CASE b = "memory_read_control" -> cell.readReset
       [] b = "asynchronous_memory_write" -> \E i \in DOMAIN cell.writes : ~cell.writes[i].clocked
       [] b = "falling_edge_memory_write" -> \E i \in DOMAIN cell.writes : ~cell.writes[i].rising}
(* An initial value of another size than the memory's is unknown throughout. *)
Initial(w) == IF cell.exact THEN cell.init[w] ELSE [ones |-> {}, unknown |-> Bits]
UnknownInit == UNION {Initial(w).unknown : w \in Words}
Unclassified == policy = "none" /\ (Partial \/ UnknownInit # {})

(* What the importer emits and Loom refuses to read back: a slice of more    *)
(* address bits than the ports have, a memory that is written and has none.  *)
Refused == cell.abits < AddressWidth \/ (AddressWidth = 0 /\ cell.writes # <<>>)

Prepare ==
  /\ phase = "cell"
  /\ blocked' = IF Shape # {} THEN Shape
                ELSE Controls \cup (IF cell.exact THEN {} ELSE {"memory_initialization"})
                              \cup (IF Unclassified THEN {"four_state"} ELSE {})
  /\ phase' = IF blocked' # {} THEN "blocked" ELSE IF Refused THEN "refused" ELSE "ready"
  /\ mem' = IF Shape # {} THEN mem
            ELSE [w \in Words |-> Initial(w).ones \cup Filled(Initial(w).unknown)]
  /\ gold' = mem'
  /\ UNCHANGED <<cell, policy>>

(* A write port in a cycle: its address cut to the memory, its mask empty   *)
(* when the address is past the end.                                       *)
Port(i, in) ==
  LET raw == IF cell.writes[i].static >= 0 THEN cell.writes[i].static ELSE in.address
  IN [address |-> raw % Power[AddressWidth],
      mask    |-> IF Partial /\ raw >= cell.size THEN {} ELSE in.mask,
      data    |-> in.data,
      static  |-> cell.writes[i].static]

Merge(old, mask, data) == (old \ mask) \cup (data \cap mask)

(* The leading ports with literal addresses, one for each address.         *)
StaticPrefix(ports) ==
  CHOOSE n \in 0..Len(ports) : /\ \A i \in 1..n : ports[i].static >= 0
                               /\ n < Len(ports) => ports[n + 1].static < 0
(* A port joins the group of its address: it writes over what the group      *)
(* has, and the group writes what either writes.                            *)
Join(g, p) == [g EXCEPT !.mask = @ \cup p.mask, !.data = Merge(@, p.mask, p.data)]
Regroup(groups, p) ==
  IF \E i \in DOMAIN groups : groups[i].static = p.static
  THEN [i \in DOMAIN groups |-> IF groups[i].static = p.static THEN Join(groups[i], p) ELSE groups[i]]
  ELSE Append(groups, p)
Grouped(ports) ==
  LET n == StaticPrefix(ports)
      groups[i \in 0..n] == IF i = 0 THEN <<>> ELSE Regroup(groups[i - 1], ports[i])
  IN groups[n] \o SubSeq(ports, n + 1, Len(ports))

(* A mutant: a port forgets the earlier ones.                              *)
AccumulatedAlone(ports, i) == mem[ports[i].address]
(* The word port i writes over: the memory's, with what the earlier ports   *)
(* write to the same address.                                              *)
Accumulated(ports, i) ==
  LET p == ports[i]
      apart(e) == p.static >= 0 /\ e.static >= 0 /\ p.static # e.static
      a[j \in 0..(i - 1)] ==
        IF j = 0 THEN mem[p.address]
        ELSE LET e == ports[j]
             IN IF ~apart(e) /\ e.address = p.address /\ e.mask # {} THEN Merge(a[j - 1], e.mask, e.data) ELSE a[j - 1]
  IN a[i - 1]
Writes(ports) == [i \in DOMAIN ports |-> [enable  |-> ports[i].mask # {},
                                          address |-> ports[i].address,
                                          data    |-> Merge(Accumulated(ports, i), ports[i].mask, ports[i].data)]]

(* Loom commits the words in order; Yosys writes the masked bits in order.  *)
Committed(writes) ==
  LET c[i \in 0..Len(writes)] ==
        IF i = 0 THEN mem
        ELSE IF writes[i].enable THEN [c[i - 1] EXCEPT ![writes[i].address] = writes[i].data] ELSE c[i - 1]
  IN c[Len(writes)]
YosysWritten(in) ==
  LET raw(i) == IF cell.writes[i].static >= 0 THEN cell.writes[i].static ELSE in[i].address
      c[i \in 0..Len(in)] ==
        IF i = 0 THEN gold
        ELSE IF raw(i) < cell.size THEN [c[i - 1] EXCEPT ![raw(i)] = Merge(@, in[i].mask, in[i].data)] ELSE c[i - 1]
  IN c[Len(in)]

(* Data lines are all one or all zero: each bit of a word is written on its *)
(* own.                                                                    *)
Inputs(i) == [address : IF cell.writes[i].static >= 0 THEN {0} ELSE Addresses, mask : SUBSET Bits, data : {{}, Bits}]
Cycle ==
  /\ phase = "ready"
  /\ \E in \in {f \in [DOMAIN cell.writes -> UNION {Inputs(i) : i \in DOMAIN cell.writes}] :
                  \A i \in DOMAIN cell.writes : f[i] \in Inputs(i)} :
       /\ mem' = Committed(Writes(Grouped([i \in DOMAIN cell.writes |-> Port(i, in[i])])))
       /\ gold' = YosysWritten(in)
  /\ UNCHANGED <<cell, policy, phase, blocked>>

Next == Prepare \/ Cycle
Spec == Init /\ [][Next]_vars

(* A read: a read-only memory is a chain of choices between its words.     *)
MemoryRead(raw) ==
  LET address == raw % Power[AddressWidth]
      chain[i \in Words] == IF i = 0 THEN mem[0] ELSE IF address = i THEN mem[i] ELSE chain[i - 1]
      word == IF cell.writes = <<>> THEN chain[cell.size - 1] ELSE mem[address]
  IN IF Partial /\ raw >= cell.size THEN Filled(Bits) ELSE word

(* Whole-word commits in order leave the memory the ordered, masked writes  *)
(* leave, whatever addresses the ports share. Code: prepare_memories.       *)
MemoriesAgree == mem = gold

(* A read gives the word at its address, and past the end what the policy   *)
(* says. Code: memory_read, memory_address, memory_oob_fill.                *)
ReadsAgree ==
  phase = "ready" => \A raw \in Addresses :
    MemoryRead(raw) = IF raw < cell.size THEN gold[raw] ELSE Filled(Bits)
==================================================================================

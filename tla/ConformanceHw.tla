------------------------------ MODULE ConformanceHw ------------------------------
(***************************************************************************)
(* The hardware leg of the conformance vectors: sort the vectors, check     *)
(* the mnemonics, run them all as one program, remove a vector that traps   *)
(* and run again, read the bitmap back, compare with the RTL, diagnose the  *)
(* mismatches and decide.  An assembler or a simulator that itself fails    *)
(* ends the leg at once, before it reports anything; that is left out.      *)
(***************************************************************************)
EXTENDS BatchProgram, FiniteSets

CONSTANTS Documents,     \* the vector lists the leg may be given
          Designs, Rtls, \* the cores behind the Design simulator and the RTL: Rtls[design]
          Aliases,       \* what the assembler may make of the mnemonics: op -> op
          MaxTraps,      \* --max-traps
          DiagSize       \* vectors per diagnostic program

ASSUME RoundsAllowed == MaxTraps \in Nat /\ DiagSize \in Nat \ {0}

VARIABLES doc, design, rtl, assembles,
          rtlLeg,      \* "off", "on", or "on" without the RTL simulator: "missing"
          phase, round,
          live,        \* the <<index, vector>> still in the program
          trapped,     \* the indices removed, in order
          state,       \* the last readout
          passed, rtlReport, detail

vars == <<doc, design, rtl, assembles, rtlLeg, phase, round, live, trapped, state, passed, rtlReport, detail>>
env == <<doc, design, rtl, assembles, rtlLeg>>

CanConvert(v) ==
  /\ v.runnable
  /\ v.form \in {"rr", "rrr"}
  /\ v.kind \in {"no_fault", "reg_value", "bits_zero_above", "same_as"}
Convertible == SelectSeq(doc, CanConvert)
NConv == Len(Convertible)
Indexed == [n \in 1..NConv |-> <<n - 1, Convertible[n]>>]
Ops == {Convertible[n].op : n \in 1..NConv}

(* The assembler may take a mnemonic for another operation. *)
Assembled(code) == [n \in DOMAIN code |-> IF code[n].op \in DOMAIN assembles
                                          THEN [code[n] EXCEPT !.op = assembles[@]] ELSE code[n]]
RunDesign(code) == Run(design, Assembled(code))
RunRtl(code) == Run(rtl, Assembled(code))

Init ==
  /\ doc \in Documents
  /\ design \in Designs
  /\ rtl \in Rtls[design]
  /\ assembles \in Aliases
  /\ rtlLeg \in {"off", "on", "missing"}
  /\ phase = "start"
  /\ round = 0
  /\ live = <<>>
  /\ trapped = <<>>
  /\ state = Reset
  /\ passed = {}
  /\ rtlReport = "none"
  /\ detail = <<>>

Exit(how) == phase' = how /\ UNCHANGED <<env, round, live, trapped, state, passed, rtlReport, detail>>

TooMany == phase = "start" /\ (NConv > BitmapWords * WordBits \/ SlotBase + NConv > DmemWords) /\ Exit("too many")

(* verify_mnemonics: one probe per operation.  Mutant: no probe. *)
MnemonicUnchecked(op) == TRUE
Mnemonic(op) == assembles[op] = op
MnemonicsDrifted ==
  /\ phase = "start"
  /\ ~(NConv > BitmapWords * WordBits \/ SlotBase + NConv > DmemWords)
  /\ \E op \in Ops : ~Mnemonic(op)
  /\ Exit("mnemonics")

Prepare ==
  /\ phase = "start"
  /\ ~(NConv > BitmapWords * WordBits \/ SlotBase + NConv > DmemWords)
  /\ \A op \in Ops : Mnemonic(op)
  /\ live' = Indexed
  /\ phase' = "round"
  /\ UNCHANGED <<env, round, trapped, state, passed, rtlReport, detail>>

(* The list without vector g. *)
Without(list, g) == SelectSeq(list, LAMBDA item : item[1] # g)

(* One round: generate, assemble, run; a trap is attributed to the vector  *)
(* whose instruction it is at, which is then removed.                      *)
Round ==
  /\ phase = "round"
  /\ round <= MaxTraps
  /\ LET code == GenProgram(live)
         ran == RunDesign(code) IN
     /\ state' = ran
     /\ \/ /\ ran.trap = 0
           /\ phase' = IF ran.halted THEN "readback" ELSE "no clean halt"
           /\ UNCHANGED <<round, live, trapped>>
        \/ /\ ran.trap # 0
           /\ code[ran.trap].owner = NoOwner
           /\ phase' = "harness fault"
           /\ UNCHANGED <<round, live, trapped>>
        \/ /\ ran.trap # 0
           /\ code[ran.trap].owner # NoOwner
           /\ trapped' = Append(trapped, code[ran.trap].owner)
           /\ live' = Without(live, code[ran.trap].owner)
           /\ round' = round + 1
           /\ phase' = phase
  /\ UNCHANGED <<env, passed, rtlReport, detail>>

GiveUp == phase = "round" /\ round > MaxTraps /\ Exit("still trapping")

Executed == {live[n][1] : n \in DOMAIN live}
BitSet(g) == (state.regs[RBitmap[g \div WordBits]] \div 2 ^ (g % WordBits)) % 2 = 1
ReadoutConsistent(pass) ==
  /\ state.regs[RMismatch] = Cardinality(Executed \ pass)
  /\ state.regs[RNvec] = Len(live)
  /\ \A g \in NConv..(BitmapWords * WordBits - 1) : ~BitSet(g)

Readback ==
  /\ phase = "readback"
  /\ passed' = {g \in Executed : BitSet(g)}
  /\ phase' = IF ReadoutConsistent(passed') THEN "rtl" ELSE "inconsistent"
  /\ UNCHANGED <<env, round, live, trapped, state, rtlReport, detail>>

First == GenProgram(Indexed)   \* first.hex
Readout(s) == [regs |-> [r \in 1..9 |-> s.regs[r]], trap |-> s.trap, halted |-> s.halted, slot |-> s.mem[SlotBase]]
RtlLeg ==
  /\ phase = "rtl"
  /\ rtlReport' =
       CASE rtlLeg = "off" -> "none"
         [] rtlLeg = "missing" -> "SKIP"
         [] Readout(RunRtl(GenProgram(live))) # Readout(state) -> "MISMATCH"
         [] trapped # <<>> /\ RunRtl(First).trap # RunDesign(First).trap -> "MISMATCH"
         [] OTHER -> "OK"
  /\ phase' = "diagnose"
  /\ UNCHANGED <<env, round, live, trapped, state, passed, detail>>

Failed == Executed \ passed
FailedList == SelectSeq(Indexed, LAMBDA item : item[1] \in Failed)

(* The pairs of a chunk, from its neighbouring registers. *)
Detail(chunk, s) == [n \in DOMAIN chunk |-> <<chunk[n][1], s.regs[2 * n - 1], s.regs[2 * n]>>]

(* The next few mismatches, in a program of their own; a chunk that does not *)
(* halt is skipped, and its vectors are reported without a pair.            *)
Diagnose ==
  /\ phase = "diagnose"
  /\ Len(detail) < Len(FailedList)
  /\ LET from == Len(detail) + 1
         to == IF from + DiagSize - 1 < Len(FailedList) THEN from + DiagSize - 1 ELSE Len(FailedList)
         chunk == SubSeq(FailedList, from, to)
         ran == RunDesign(GenDiagnostic(chunk)) IN
     detail' = detail \o IF ran.halted THEN Detail(chunk, ran) ELSE [n \in DOMAIN chunk |-> <<chunk[n][1]>>]
  /\ UNCHANGED <<env, phase, round, live, trapped, state, passed, rtlReport>>

Report ==
  /\ phase = "diagnose"
  /\ Len(detail) = Len(FailedList)
  /\ Exit(IF Failed # {} \/ trapped # <<>> \/ rtlReport = "MISMATCH" THEN "failures" ELSE "ok")

Reported == phase \in {"ok", "failures"}
Next ==
  \/ TooMany
  \/ MnemonicsDrifted
  \/ Prepare
  \/ Round
  \/ GiveUp
  \/ Readback
  \/ RtlLeg
  \/ Diagnose
  \/ Report

Spec == Init /\ [][Next]_vars
--------------------------------------------------------------------------------
(* What the vectors say of a core, evaluated without any program. *)
Answer(core, v, a, b) == core.answers[<<v.op, a, IF v.form = "rrr" THEN b ELSE 0>>]
Faults(core, v) ==
  \/ Answer(core, v, v.rs1, v.rs2) = Trap
  \/ v.kind = "same_as" /\ Answer(core, v, v.ref1, v.ref2) = Trap
Reference(core, v) ==
  CASE v.kind = "reg_value" -> v.arg
    [] v.kind = "bits_zero_above" -> Answer(core, v, v.rs1, v.rs2) \div 2 ^ v.arg
    [] v.kind = "same_as" -> Answer(core, v, v.ref1, v.ref2)
    [] OTHER -> 0
Holds(core, v) ==
  CASE v.kind = "no_fault" -> TRUE
    [] v.kind = "bits_zero_above" -> Reference(core, v) = 0
    [] OTHER -> Answer(core, v, v.rs1, v.rs2) = Reference(core, v)
VectorOf(g) == Convertible[g + 1]

(* The verdict of every vector is the one its assertion gives on the core,   *)
(* through the program, the bitmap, the owners of trap positions and the     *)
(* rounds: passed, failed and trapped are three disjoint sets that hold      *)
(* every converted vector, and a removed vector shifts no other's bit.       *)
VerdictsAreTrue ==
  Reported =>
    \A g \in 0..(NConv - 1) :
      /\ (g \in ToSet(trapped)) = Faults(design, VectorOf(g))
      /\ (g \in passed) = (~Faults(design, VectorOf(g)) /\ Holds(design, VectorOf(g)))
      /\ (g \in Failed) = (~Faults(design, VectorOf(g)) /\ ~Holds(design, VectorOf(g)))

(* What the board reads back from memory is the same result: the bitmap,     *)
(* the counts, and the raw result of every executed vector in the slot of    *)
(* its global index, that of a removed vector being untouched.               *)
BoardReadsSame ==
  phase \in {"readback", "rtl", "diagnose", "ok", "failures"} =>
    /\ \A w \in 0..(BitmapWords - 1) : state.mem[w] = state.regs[RBitmap[w]]
    /\ state.mem[MismatchWord] = state.regs[RMismatch] /\ state.mem[NvecWord] = Len(live)
    /\ \A g \in 0..(NConv - 1) :
         state.mem[Slot(g)] = IF g \in Executed THEN Answer(design, VectorOf(g), VectorOf(g).rs1, VectorOf(g).rs2) ELSE 0

(* OK means: every converted vector holds on the Design, and when the RTL    *)
(* ran, on the RTL.                                                        *)
OkMeansConformant ==
  phase = "ok" =>
    \A g \in 0..(NConv - 1) :
      \A core \in {design} \union (IF rtlReport = "OK" THEN {rtl} ELSE {}) :
        ~Faults(core, VectorOf(g)) /\ Holds(core, VectorOf(g))

(* The leg gives up only when more vectors fault than --max-traps allows:    *)
(* every round removes one that does.                                       *)
GivesUpForTraps ==
  phase = "still trapping" /\ design.fault # "SD traps" =>
    Cardinality({g \in 0..(NConv - 1) : Faults(design, VectorOf(g))}) > MaxTraps

(* The pair reported for a mismatch is what the core answered and the value  *)
(* it is compared with, and they explain the mismatch.                      *)
DetailsAreTrue ==
  \A n \in DOMAIN detail :
    LET v == VectorOf(detail[n][1])
        got == Answer(design, v, v.rs1, v.rs2) IN
    detail[n] = <<detail[n][1], got, Reference(design, v)>> /\ ~Holds(design, v)

(* What the leg reports is so on the core: the verdicts, the words the board  *)
(* reads back and the details of the mismatches. Code: gen_program, run_leg   *)
(* and the diagnostics.                                                     *)
ResultsAreTrue == VerdictsAreTrue /\ BoardReadsSame /\ DetailsAreTrue

(* The leg ends in "ok" or gives up only with a reason that the cores bear    *)
(* out. Code: main, verify_mnemonics and the rounds.                         *)
ExitIsJustified == OkMeansConformant /\ GivesUpForTraps
================================================================================

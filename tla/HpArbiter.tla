------------------------------ MODULE HpArbiter ------------------------------
(***************************************************************************)
(* The two-requester front end of Machines/Lnp64mini/HpArbiter.lean, with the *)
(* two cores and the memory master it stands between (Core.lean, HpMaster).   *)
(* All of them share a clock: a cycle reads every register before it and      *)
(* writes them together.  Words have no contents: overwritten remembers that  *)
(* the word a core reserved was written by the other one since it was read.   *)
(*                                                                         *)
(* The master waits for the bus, with its five states in one: it pulses done  *)
(* when the transaction is through, or, with err, when 4096 cycles have       *)
(* passed.  The err flag is not modelled, nor that an aborted write may reach  *)
(* memory late or never; nor the busy flag, which mirrors st, and the data.   *)
(***************************************************************************)
EXTENDS Integers

CONSTANTS
  Words,     \* the words of memory the cores share
  Accesses,  \* the requests their programs make, of those in Request
  None

Lanes == {0, 1}

VARIABLES
  latch,      \* p0_*, p1_*: the one-entry request buffer of each lane
  reserved,   \* r0_*, r1_*: the word each lane has reserved at the arbiter
  st, owner, last,
  start,      \* d_start_*: the request handed to the master in this cycle
  done, scFail, resKill,  \* lanes with that pulse in this cycle
  master,     \* the request the memory master works on, st # IDLE in HpMaster
  mDone,      \* m_done
  pulse,      \* core_rd, core_wr with their tags: the request a core asserts
  waiting,    \* cores parked until their done: the request they wait for
  lrValid,    \* the word a core holds reserved for itself (lr_valid, lr_addr)
  linked,     \* the word of a core's last LR, until its SC
  overwritten,        \* ghost: the other core wrote that word since it was read
  tried, committed    \* ghosts: in the last cycle a core executed SC; a write got through

arbiter == <<latch, reserved, st, owner, last, start, done, scFail, resKill>>
cores == <<pulse, waiting, lrValid, linked>>
vars == <<arbiter, master, mDone, cores, overwritten, tried, committed>>

Request == [op : {"rd", "wr", "lr", "sc"}, word : Words]
Writes(request) == request.op \in {"wr", "sc"}

-----------------------------------------------------------------------------

\* grant1: with both buffers full the lane that was not granted last wins.
Grant1(buffers, recent) == buffers[1] # None /\ (buffers[0] = None \/ recent = 0)

\* The lane granted in this cycle, at an operation boundary only.
Granted == {i \in Lanes : /\ st = "IDLE" /\ latch[i] # None
                          /\ (i = 1) = Grant1(latch, last)}

\* Mutant: the reservation is checked by the core alone (the first design).
DroppedNever(i) == FALSE
\* scDrop: a conditional write whose reservation is gone is answered here.
Dropped(i) == latch[i].op = "sc" /\ reserved[i] # latch[i].word

Forwarded == {i \in Granted : ~Dropped(i)}
Refused == {i \in Granted : Dropped(i)}

\* Mutant: any access of the other core kills, reads that reserve included (the
\* second design).
KilledByAnyAccess(i) ==
  \E j \in Forwarded \ {i} : latch[j].op # "rd" /\ reserved[i] = latch[j].word
Killed(i) == \E j \in Forwarded \ {i} : Writes(latch[j]) /\ reserved[i] = latch[j].word

Completes == st = "BUSY" /\ mDone

\* Mutant: a request that meets a transaction in flight is not kept.
LatchedWhenIdle(i) ==
  IF pulse[i] # None /\ st = "IDLE" THEN pulse[i] ELSE IF i \in Granted THEN None ELSE latch[i]
\* A fresh pulse is latched last.
Latched(i) ==
  IF pulse[i] # None THEN pulse[i] ELSE IF i \in Granted THEN None ELSE latch[i]

\* arbRule.
Arbitrate ==
  /\ latch' = [i \in Lanes |-> Latched(i)]
  /\ reserved' =
       [i \in Lanes |->
          IF Killed(i) THEN None
          ELSE IF i \in Forwarded /\ latch[i].op = "lr" THEN latch[i].word
          ELSE IF i \in Forwarded /\ latch[i].op = "sc" THEN None
          ELSE reserved[i]]
  /\ resKill' = {i \in Lanes : Killed(i)}
  /\ scFail' = Refused
  /\ done' = Refused \union (IF Completes THEN {owner} ELSE {})
  /\ st' = IF Forwarded # {} THEN "BUSY" ELSE IF Completes THEN "IDLE" ELSE st
  /\ start' = IF Forwarded # {} THEN latch[CHOOSE i \in Forwarded : TRUE] ELSE None
  /\ IF Granted # {} THEN owner' \in Granted /\ last' = owner' ELSE UNCHANGED <<owner, last>>

\* Core i computes with the word it read, or has its conditional store under way.
Depends(i, word) == linked[i] = word \/ waiting[i] = [op |-> "sc", word |-> word]

\* The master takes a start pulse, and pulses done once when it is through.
Serve(finishes) ==
  /\ finishes => master # None
  /\ mDone' = finishes
  /\ master' = IF finishes THEN None ELSE IF start # None THEN start ELSE master
  /\ committed' = (finishes /\ Writes(master))
  /\ overwritten' =
       IF ~finishes THEN overwritten
       ELSE [i \in Lanes |->
               IF i = owner THEN master.op # "lr" /\ overwritten[i]
               ELSE overwritten[i] \/ (Writes(master) /\ Depends(i, master.word))]

-----------------------------------------------------------------------------

\* What a core that runs may execute: an SC only after an LR of the word.
Executes(i) ==
  IF waiting[i] # None THEN {None}
  ELSE {None} \union {r \in Accesses : r.op = "sc" => linked[i] = r.word}

IsOp(request, op) == request # None /\ request.op = op

\* An SC whose reservation the core itself knows to be gone fails without a
\* request; every other access is asserted for one cycle, and the core parks.
Run(executed) ==
  LET issued == [i \in Lanes |-> IF IsOp(executed[i], "sc") /\ lrValid[i] # executed[i].word
                                 THEN None ELSE executed[i]]
  IN /\ pulse' = issued
     /\ waiting' = [i \in Lanes |-> IF issued[i] # None THEN issued[i]
                                    ELSE IF i \in done THEN None ELSE waiting[i]]
     /\ lrValid' = [i \in Lanes |->
                      IF i \in resKill \/ IsOp(executed[i], "sc") THEN None
                      ELSE IF IsOp(executed[i], "lr") THEN executed[i].word ELSE lrValid[i]]
     /\ linked' = [i \in Lanes |->
                     IF IsOp(executed[i], "sc") THEN None
                     ELSE IF IsOp(executed[i], "lr") THEN executed[i].word ELSE linked[i]]
     /\ tried' = (\E i \in Lanes : IsOp(executed[i], "sc"))

Init ==
  /\ latch = [i \in Lanes |-> None] /\ reserved = [i \in Lanes |-> None]
  /\ st = "IDLE" /\ owner = 0 /\ last = 1 /\ start = None
  /\ done = {} /\ scFail = {} /\ resKill = {}
  /\ master = None /\ mDone = FALSE
  /\ pulse = [i \in Lanes |-> None] /\ waiting = [i \in Lanes |-> None]
  /\ lrValid = [i \in Lanes |-> None] /\ linked = [i \in Lanes |-> None]
  /\ overwritten = [i \in Lanes |-> FALSE] /\ tried = FALSE /\ committed = FALSE

Cycle(finishes) ==
  /\ Arbitrate
  /\ Serve(finishes)
  /\ \E x \in Executes(0), y \in Executes(1) : Run([i \in Lanes |-> IF i = 0 THEN x ELSE y])

Next == \E finishes \in BOOLEAN : Cycle(finishes)

Spec == Init /\ [][Next]_vars

\* The clock runs, and the master ends what it started: its timeout bounds a
\* transaction whatever the bus does.
Fairness == WF_vars(Next) /\ WF_vars(Cycle(TRUE))

-----------------------------------------------------------------------------

(***************************************************************************)
(* Every parked core has exactly one of: its pulse, its buffer, the           *)
(* transaction in flight, its answer.  No request is dropped when two         *)
(* collide, none is served twice, and no answer reaches the other core.       *)
(***************************************************************************)
AnswersOwed ==
  \A i \in Lanes :
    LET places == {x \in {"pulse", "latch", "service", "answer"} :
                     CASE x = "pulse" -> pulse[i] # None
                       [] x = "latch" -> latch[i] # None
                       [] x = "service" -> st = "BUSY" /\ owner = i
                       [] x = "answer" -> i \in done}
    IN IF waiting[i] = None THEN places = {} ELSE \E x \in places : places = {x}

(***************************************************************************)
(* Lines 71-75: a conditional store gets through only if the other core has   *)
(* not written the word since it was read.                                   *)
(***************************************************************************)
ConditionalIsAtomic ==
  [][\A i \in Lanes : mDone' /\ owner = i /\ master.op = "sc" => ~overwritten[i]]_vars

\* Cores that keep trying do not keep failing: some write gets through, on a bus
\* that answers before the timeout.
SomeoneProceeds == []<>tried => []<>committed
=============================================================================

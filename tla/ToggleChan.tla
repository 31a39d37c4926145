------------------------------ MODULE ToggleChan ------------------------------
(***************************************************************************)
(* The one-entry toggle mailbox of Loom/Hw/ToggleChan.lean.  The source      *)
(* latches a payload and flips sourcePhase; the sink sees that phase on a    *)
(* later tick, and its delivery flips ackPhase, which the source sees later  *)
(* still.  publish and acknowledge say that a synchronizer let the remote    *)
(* phase through at this tick: the environment chooses them freely.          *)
(***************************************************************************)
EXTENDS Naturals, Sequences

CONSTANTS
  Payloads,   \* the words the channel can carry
  None,       \* "no push requested"
  MaxSent     \* bound on the ledger

VARIABLES
  payload, pending, sourceBusy, visible,
  sourcePhase, sinkPhase, ackPhase, sourceAckPhase,
  taken,      \* ledger: payloads accepted so far
  given       \* ledger: payloads delivered so far

phases == <<sourcePhase, sinkPhase, ackPhase, sourceAckPhase>>
vars == <<payload, pending, sourceBusy, visible, phases, taken, given>>

Takes(sourceTick, push) == sourceTick /\ ~sourceBusy /\ push # None

Gives(sinkTick, pop) == sinkTick /\ pop /\ visible /\ pending

\* Mutant: an acknowledgement of the previous payload frees the source.
FreesEarly(sourceTick, acknowledge) == sourceTick /\ acknowledge
Frees(sourceTick, acknowledge) == sourceTick /\ acknowledge /\ ~pending

Shows(sinkTick, publish) == sinkTick /\ publish /\ pending

\* ToggleChan.step: every right-hand side reads the state before the event.
Step(sourceTick, sinkTick, push, pop, publish, acknowledge) ==
  LET take == Takes(sourceTick, push)
      give == Gives(sinkTick, pop)
  IN /\ payload' = IF take THEN push ELSE payload
     /\ pending' = (~give /\ (pending \/ take))
     /\ sourceBusy' = (take \/ (sourceBusy /\ ~Frees(sourceTick, acknowledge)))
     /\ visible' = (~give /\ (visible \/ Shows(sinkTick, publish)))
     /\ sourcePhase' = (sourcePhase # take)
     /\ sinkPhase' = IF sinkTick /\ publish THEN sourcePhase ELSE sinkPhase
     /\ ackPhase' = (ackPhase # give)
     /\ sourceAckPhase' = IF sourceTick /\ acknowledge THEN ackPhase ELSE sourceAckPhase
     /\ taken' = IF take THEN Append(taken, push) ELSE taken
     /\ given' = IF give THEN Append(given, payload) ELSE given

\* reset: one word in the latch, every bit FALSE.
Init ==
  /\ payload \in Payloads
  /\ pending = FALSE /\ sourceBusy = FALSE /\ visible = FALSE
  /\ sourcePhase = FALSE /\ sinkPhase = FALSE
  /\ ackPhase = FALSE /\ sourceAckPhase = FALSE
  /\ taken = << >> /\ given = << >>

Pushes == IF Len(taken) < MaxSent THEN Payloads \union {None} ELSE {None}

Next ==
  \E sourceTick, sinkTick, pop, publish, acknowledge \in BOOLEAN, push \in Pushes :
    Step(sourceTick, sinkTick, push, pop, publish, acknowledge)

Spec == Init /\ [][Next]_vars

\* The clocks keep ticking, the synchronizers let a phase through in the end,
\* and the sink keeps popping.
SourceHears ==
  \E sinkTick, pop, publish \in BOOLEAN, push \in Pushes :
    Step(TRUE, sinkTick, push, pop, publish, TRUE)
SinkServes ==
  \E sourceTick, acknowledge \in BOOLEAN, push \in Pushes :
    Step(sourceTick, TRUE, push, TRUE, TRUE, acknowledge)
Fairness == WF_vars(SourceHears) /\ WF_vars(SinkServes)

-----------------------------------------------------------------------------

(***************************************************************************)
(* step reads pending on both clocks, which no clock owns.  That is sound    *)
(* only because two phases a side can see say the same: the mailbox is full   *)
(* while source and acknowledge phase differ, the source is busy while its    *)
(* copy of the acknowledge phase lags, and the sink sees a payload while its  *)
(* copy of the source phase is ahead of what it acknowledged.                 *)
(***************************************************************************)
FlagsAreToggles ==
  /\ pending = (sourcePhase # ackPhase)
  /\ sourceBusy = (sourcePhase # sourceAckPhase)
  /\ visible = (sinkPhase # ackPhase)

(***************************************************************************)
(* step_refines: the mailbox is an abstract channel of depth one.  A push     *)
(* meets a pop in no event, so either policy of the channel fits.             *)
(***************************************************************************)
Queue == INSTANCE Chan WITH
           Depth <- 1, Exchange <- FALSE, sent <- taken, received <- given,
           queue <- IF pending THEN <<payload>> ELSE << >>
MailboxIsChannel == Queue!Spec
=============================================================================

----------------------------- MODULE ResumableRun -----------------------------
(***************************************************************************)
(* What checkpointing promises: a training run is a counter of steps and   *)
(* one durable cell.  A launch continues right after the durable step, a   *)
(* run is over only when its last step is durable, and a crash loses at    *)
(* most MaxLoss steps.  The one weakness the code has is stated too: while *)
(* the cell is being rewritten it holds nothing, and a crash then leaves a *)
(* job that cannot be resumed.                                             *)
(***************************************************************************)
EXTENDS Integers

CONSTANTS MaxLoss,  \* steps that a crash can lose
          MaxStep   \* bound: largest step

VARIABLES status, step, durable

vars == <<status, step, durable>>

Nothing == -1

TypeOK ==
  /\ status \in {"down", "up", "done", "failed"}
  /\ step \in 0 .. MaxStep
  /\ durable \in -1 .. MaxStep

Init == status = "down" /\ step = 0 /\ durable = 0

Start ==
  /\ status # "up"
  /\ IF durable = Nothing
       THEN status' = "failed" /\ step' = 0
       ELSE status' = "up" /\ step' = durable + 1
  /\ UNCHANGED durable

Advance ==
  /\ status = "up"
  /\ durable # Nothing
  /\ step < durable + MaxLoss
  /\ step' = step + 1
  /\ UNCHANGED <<status, durable>>

Finish ==
  /\ status = "up"
  /\ durable = step
  /\ status' = "done"
  /\ UNCHANGED <<step, durable>>

Erase ==
  /\ status = "up"
  /\ durable <= step
  /\ durable' = Nothing
  /\ UNCHANGED <<status, step>>

Persist ==
  /\ status = "up"
  /\ durable < step
  /\ durable' = step
  /\ UNCHANGED <<status, step>>

Die ==
  /\ status = "up"
  /\ status' = "down"
  /\ step' = 0
  /\ UNCHANGED durable

Next == Start \/ Advance \/ Finish \/ Erase \/ Persist \/ Die

Spec == Init /\ [][Next]_vars

===============================================================================

----------------------------- MODULE MCCheckpoint -----------------------------
(***************************************************************************)
(* Checkpoint on small instances: a scheduler restarts the job in mode     *)
(* auto.  (MCJobs has a job that is launched in any mode.)                 *)
(***************************************************************************)
EXTENDS Checkpoint

KeepTwo  == [r \in {"actor", "critic"} |-> 2]
KeepOne  == [r \in {"actor", "critic"} |-> 1]
KeepBoth == [r \in {"actor", "critic"} |-> IF r = "actor" THEN 2 ELSE 3]
ResumesAuto == {"auto"}

===============================================================================

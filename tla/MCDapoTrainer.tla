---------------------------- MODULE MCDapoTrainer -----------------------------
(* DapoTrainer on small instances: every constant is given by the cfg. *)
EXTENDS DapoTrainer

===============================================================================

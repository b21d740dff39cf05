----------------------------- MODULE MCIrtLoader ------------------------------
(* IrtLoader on a small data set in which a prompt occurs twice in a pass. *)
EXTENDS IrtLoader

Repeats == [i \in 0 .. PassRows - 1 |-> IF i = PassRows - 1 THEN 0 ELSE i]

===============================================================================

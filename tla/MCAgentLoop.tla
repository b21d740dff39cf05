----------------------------- MODULE MCAgentLoop ------------------------------
(* AgentLoop with a batch cut into equal chunks, as DataProto.chunk does.  *)
EXTENDS AgentLoop

InTurn == [r \in Requests |-> IF r % 2 = 0 THEN "w1" ELSE "w2"]

===============================================================================

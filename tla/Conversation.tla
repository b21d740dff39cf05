----------------------------- MODULE Conversation -----------------------------
(***************************************************************************)
(* What a multi-turn rollout promises to the trainer: after a prompt that  *)
(* nobody touches, model and environment speak in turn, nothing said is    *)
(* changed later, and the loss mask marks exactly the tokens of the model. *)
(* At the end the response is cut to its limit; before that only a header  *)
(* nobody spoke after, tokens of the environment, may be taken back.       *)
(* ToolAgentLoop and RolloutRequest both implement it.                     *)
(***************************************************************************)
EXTENDS Integers, Sequences

CONSTANTS Limit,  \* the most tokens of a response
          Room    \* the most tokens of one turn

VARIABLES text,   \* who wrote each token of the response: "model" or "env"
          mask,   \* the loss mask of each: 1 or 0
          open    \* whether the conversation is going on

vars == <<text, mask, open>>

Block(x, n) == [i \in 1 .. n |-> x]

Init == text = <<>> /\ mask = <<>> /\ open = TRUE

\* The environment speaks: the answers of tools, or a user.
Hear(n) ==
  /\ open
  /\ text' = text \o Block("env", n)
  /\ mask' = mask \o Block(0, n)
  /\ UNCHANGED open

\* The model speaks, perhaps after a header of h tokens.
Speak(h, n) ==
  /\ open
  /\ text' = text \o Block("env", h) \o Block("model", n)
  /\ mask' = mask \o Block(0, h) \o Block(1, n)
  /\ UNCHANGED open

\* What is dropped lies beyond the limit, or is a header at the end.
Close(k) ==
  /\ open
  /\ k = Limit \/ \A i \in k + 1 .. Len(text) : i <= Limit => text[i] = "env"
  /\ k <= Limit
  /\ text' = SubSeq(text, 1, k)
  /\ mask' = SubSeq(mask, 1, k)
  /\ open' = FALSE

Next ==
  \/ \E n \in 1 .. Room : Hear(n)
  \/ \E h \in 0 .. Room, n \in 1 .. Room : Speak(h, n)
  \/ \E k \in 0 .. Len(text) : Close(k)

Spec == Init /\ [][Next]_vars

===============================================================================

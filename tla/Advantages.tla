------------------------------ MODULE Advantages ------------------------------
(***************************************************************************)
(* The two estimators that walk a response backwards, token by token       *)
(* (core_algos.py: gae and reinforce_plus_plus), with the rewards they     *)
(* walk over: a score at the last token of the response, less a penalty at *)
(* the tokens the model wrote.  In a multi-turn response the model's       *)
(* tokens, whose mask is 1, and those of tools alternate.                  *)
(*                                                                         *)
(* Numbers are small integers, factors 0 or 1.  Whitening, which follows,  *)
(* is the same affine map for every token and left out.                    *)
(***************************************************************************)
EXTENDS Integers, Sequences, FiniteSets

CONSTANTS GenLen, \* tokens in a row of responses
          Numbers \* values of tokens and penalties

AdvantagesAssumption == GenLen \in Nat \ {0} /\ Numbers \subseteq Int /\ Numbers # {}

Tokens == 1 .. GenLen
Factor == {0, 1}
Score  == 1

VARIABLES estimator, gamma, lam,
          response,  \* token -> "model", "tool" or, behind the response, "pad"
          values,    \* what the critic says of each token
          kld,       \* the penalty of each token
          t,         \* the token the loop comes to next, 0 at its end
          next,      \* nextvalues
          last,      \* lastgaelam, or running_return
          advantages \* token -> what the loop has appended or returned for it

input == <<estimator, gamma, lam, response, values, kld>>
vars  == <<input, t, next, last, advantages>>

\* Rows of responses: the model begins, padding is at the end.
Responses ==
  {s \in [Tokens -> {"model", "tool", "pad"}] :
     s[1] = "model" /\ \A i \in 2 .. GenLen : s[i - 1] = "pad" => s[i] = "pad"}

Init ==
  /\ estimator \in {"gae", "reinforce_plus_plus"}
  /\ gamma \in Factor
  /\ response \in Responses /\ kld \in [Tokens -> Numbers]
  /\ IF estimator = "gae" THEN lam \in Factor /\ values \in [Tokens -> Numbers]
                          ELSE lam = 1 /\ values = [i \in Tokens |-> 0]
  /\ t = GenLen /\ next = 0 /\ last = 0
  /\ advantages = [i \in Tokens |-> 0]

Mask(i) == IF response[i] = "model" THEN 1 ELSE 0

ValidLength == Cardinality({i \in Tokens : response[i] # "pad"})

\* token_level_rewards: the score is at valid_response_length - 1, whoever
\* wrote that token; the divergence is masked.
Reward(i) == (IF i = ValidLength THEN Score ELSE 0) - kld[i] * Mask(i)

------------------------------------------------------------------------------
(* compute_gae_advantage_return.                                           *)

\* Mutant of Kept: a token of a tool counts like any other.
KeptAlways(new, old) == new

\* x * response_mask[:, t] + (1 - response_mask[:, t]) * y.
Kept(new, old) == new * Mask(t) + (1 - Mask(t)) * old

Gae ==
  /\ estimator = "gae" /\ t > 0
  /\ LET delta == Reward(t) + gamma * next - values[t]
         gae   == Kept(delta + gamma * lam * last, last)
     IN  last' = gae /\ advantages' = [advantages EXCEPT ![t] = gae]
  /\ next' = Kept(values[t], next)
  /\ t' = t - 1
  /\ UNCHANGED input

(* compute_reinforce_plus_plus_outcome_advantage.                          *)

ReinforcePlusPlus ==
  /\ estimator = "reinforce_plus_plus" /\ t > 0
  /\ LET return == Reward(t) + gamma * last
     IN  /\ advantages' = [advantages EXCEPT ![t] = return]
         /\ last' = return * Mask(t)
  /\ t' = t - 1
  /\ UNCHANGED <<input, next>>

Over == t = 0 /\ UNCHANGED vars

Next == Gae \/ ReinforcePlusPlus \/ Over

Spec == Init /\ [][Next]_vars

------------------------------------------------------------------------------
(* Properties.                                                             *)

Written == {i \in Tokens : response[i] = "model"}

\* The k-th token the model wrote.
Token(k) == CHOOSE i \in Written : Cardinality({j \in Written : j <= i}) = k

NumWritten == Cardinality(Written)

\* The textbook estimator, over the model's tokens alone: the sum of the later
\* errors of one step, each weighted by how far ahead it is.
Error(k) ==
  Reward(Token(k)) - values[Token(k)]
    + (IF k < NumWritten THEN gamma * values[Token(k + 1)] ELSE 0)

Textbook[k \in Nat] ==
  IF k > NumWritten THEN 0 ELSE Error(k) + gamma * lam * Textbook[k + 1]

\* "skip values and TD-error on observation tokens": what gae gives the model's
\* tokens is what it would give them had the tools said nothing.
ToolsDoNotCount ==
  t = 0 /\ estimator = "gae" =>
    \A k \in 1 .. NumWritten : advantages[Token(k)] = Textbook[k]

\* The rewards from a token on, discounted.
Sums[i \in Nat] == IF i > GenLen THEN 0 ELSE Reward(i) + gamma * Sums[i + 1]

\* The comment "Reset after EOS": the return is cut off behind the end of the
\* response and nowhere else, so that the score reaches what the model wrote
\* before it called a tool.  Responses of the tool agent loop end with the model.
ResetOnlyAfterEos ==
  t = 0 /\ estimator = "reinforce_plus_plus" /\ response[ValidLength] = "model" =>
    \A i \in 1 .. ValidLength : advantages[i] = Sums[i]

===============================================================================

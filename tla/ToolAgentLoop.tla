---------------------------- MODULE ToolAgentLoop -----------------------------
(***************************************************************************)
(* One run of ToolAgentLoop: the engine and the tools take turns on one    *)
(* growing list of token ids, until one of six conditions ends the loop;   *)
(* the list is then split into prompt and response and cut to length.      *)
(* The tool calls of a turn run concurrently, each with an instance of its *)
(* tool that is created, executed and released.                            *)
(*                                                                         *)
(* A token is who wrote it.  Requests share no state (which server each    *)
(* goes to is AgentLoop's matter), so one run is modelled.                 *)
(***************************************************************************)
EXTENDS Integers, Sequences

CONSTANTS PromptLen,         \* tokens of the prompt after the chat template
          PromptLength,      \* rollout.prompt_length
          ResponseLength,    \* rollout.response_length
          MaxAssistantTurns, \* multi_turn.max_assistant_turns; 0: no limit
          MaxUserTurns,      \* multi_turn.max_user_turns; 0: no limit
          MaxParallelCalls,  \* multi_turn.max_parallel_calls
          MaxCalls,          \* bound: tool calls in one turn of the model
          ToolLen            \* bound: tokens of the answers of the tools

ASSUME ToolAgentAssumption ==
  /\ PromptLen \in Nat /\ PromptLength \in Nat /\ PromptLen <= PromptLength
  /\ ResponseLength \in Nat \ {0}
  /\ MaxAssistantTurns \in Nat /\ MaxUserTurns \in Nat
  /\ MaxParallelCalls \in Nat \ {0} /\ MaxCalls \in Nat /\ ToolLen \in Nat

VARIABLES pc,             \* "generate", "tools", "finish", "done" or "raised"
          ids,            \* prompt_ids, to which every turn is appended
          mask,           \* response_mask
          assistantTurns, \* assistant_turns
          userTurns,      \* user_turns
          calls,          \* where each tool call of the turn is
          output          \* the AgentLoopOutput

vars == <<pc, ids, mask, assistantTurns, userTurns, calls, output>>
talk == <<ids, mask, assistantTurns, userTurns, output>>

Calls == 1 .. MaxParallelCalls

\* The context of the engine: prompt_length + response_length.
MaxModelLen == PromptLength + ResponseLength

Block(x, n) == [i \in 1 .. n |-> x]

NoOutput == [prompt |-> <<>>, response |-> <<>>, mask |-> <<>>]

Init ==
  /\ pc = "generate"
  /\ ids = Block("prompt", PromptLen)
  /\ mask = <<>>
  /\ assistantTurns = 0 /\ userTurns = 0
  /\ calls = [c \in Calls |-> "none"]
  /\ output = NoOutput

------------------------------------------------------------------------------
(* A turn of the model.                                                    *)

\* Mutant of TooLong: no length of the response is the end.
TooLongNever(n) == n < 0

TooLong(n) == n >= ResponseLength

OutOfTurns ==
  \/ MaxAssistantTurns > 0 /\ assistantTurns + 1 >= MaxAssistantTurns
  \/ MaxUserTurns > 0 /\ userTurns >= MaxUserTurns

\* The engine answers n tokens with k tool calls in them, of which the first
\* MaxParallelCalls are made.
Answer(n, k) ==
  /\ ids' = ids \o Block("model", n)
  /\ mask' = mask \o Block(1, n)
  /\ assistantTurns' = assistantTurns + 1
  /\ IF TooLong(Len(mask) + n) \/ OutOfTurns \/ k = 0
       THEN pc' = "finish" /\ UNCHANGED calls
       ELSE /\ pc' = "tools"
            /\ calls' = [c \in Calls |-> IF c <= k THEN "called" ELSE "none"]

\* The engine answers at least one token, and no more than fit its context.
Generate ==
  /\ pc = "generate"
  /\ \E n \in 1 .. MaxModelLen - Len(ids), k \in 0 .. MaxCalls : Answer(n, k)
  /\ UNCHANGED <<userTurns, output>>

EngineRaises ==
  /\ pc = "generate"
  /\ pc' = "raised"
  /\ UNCHANGED <<talk, calls>>

------------------------------------------------------------------------------
(* One tool call (_call_tool); it runs on when gather has given up.        *)

Holding == {"open", "answered", "failed"}

Goes(c, states) == \E s \in states : calls' = [calls EXCEPT ![c] = s]

\* Malformed arguments, an unknown tool and a create that raises leave no
\* instance behind.
Create(c) ==
  /\ calls[c] = "called"
  /\ Goes(c, {"open", "error"})
  /\ UNCHANGED <<pc, talk>>

Execute(c) ==
  /\ calls[c] = "open"
  /\ Goes(c, {"answered", "failed"})
  /\ UNCHANGED <<pc, talk>>

\* Mutant of Release: a call that gather no longer waits for is cancelled.
ReleaseAwaited(c) ==
  /\ pc = "tools"
  /\ calls[c] \in {"answered", "failed"}
  /\ Goes(c, {IF calls[c] = "answered" THEN "done" ELSE "error", "escaped"})
  /\ UNCHANGED <<pc, talk>>

\* The finally block.  An exception of execute is returned as a value, one of
\* release escapes.
Release(c) ==
  /\ calls[c] \in {"answered", "failed"}
  /\ Goes(c, {IF calls[c] = "answered" THEN "done" ELSE "error", "escaped"})
  /\ UNCHANGED <<pc, talk>>

GatherRaises ==
  /\ pc = "tools"
  /\ \E c \in Calls : calls[c] = "escaped"
  /\ pc' = "raised"
  /\ UNCHANGED <<talk, calls>>

Gathered == \A c \in Calls : calls[c] \in {"none", "done", "error"}

\* Mutants of AppendAnswers: the answers are appended although they fill the
\* response, or are marked as tokens of the model.
AppendAnyway(t) ==
  /\ pc' = "generate"
  /\ ids' = ids \o Block("tool", t)
  /\ mask' = mask \o Block(0, t)
  /\ userTurns' = userTurns + 1

AppendUnmasked(t) ==
  IF TooLong(Len(mask) + t)
    THEN pc' = "finish" /\ UNCHANGED <<ids, mask, userTurns>>
    ELSE /\ pc' = "generate"
         /\ ids' = ids \o Block("tool", t)
         /\ mask' = mask \o Block(1, t)
         /\ userTurns' = userTurns + 1

\* The answers of the tools, t tokens of them, go into the list unless they
\* would be the end of the response.
AppendAnswers(t) ==
  IF TooLong(Len(mask) + t)
    THEN pc' = "finish" /\ UNCHANGED <<ids, mask, userTurns>>
    ELSE /\ pc' = "generate"
         /\ ids' = ids \o Block("tool", t)
         /\ mask' = mask \o Block(0, t)
         /\ userTurns' = userTurns + 1

ToolsAnswer ==
  /\ pc = "tools"
  /\ Gathered
  /\ IF \E c \in Calls : calls[c] = "error"
       THEN pc' = "finish" /\ UNCHANGED <<ids, mask, userTurns>>
       ELSE \E t \in 1 .. ToolLen : AppendAnswers(t)
  /\ UNCHANGED <<assistantTurns, calls, output>>

------------------------------------------------------------------------------
(* The end.                                                                *)

\* s[-n:], which is all of s when n is 0.
Last(s, n) == IF n = 0 THEN s ELSE SubSeq(s, Len(s) - n + 1, Len(s))

Cut(s) == SubSeq(s, 1, IF Len(s) < ResponseLength THEN Len(s) ELSE ResponseLength)

Finish ==
  /\ pc = "finish"
  /\ output' = [prompt   |-> SubSeq(ids, 1, Len(ids) - Len(mask)),
                response |-> Cut(Last(ids, Len(mask))),
                mask     |-> Cut(mask)]
  /\ pc' = "done"
  /\ UNCHANGED <<ids, mask, assistantTurns, userTurns, calls>>

Over == pc \in {"done", "raised"} /\ UNCHANGED vars

Run == Generate \/ GatherRaises \/ ToolsAnswer \/ Finish

Call(c) == Create(c) \/ Execute(c) \/ Release(c)

Next == Run \/ EngineRaises \/ (\E c \in Calls : Call(c)) \/ Over

Spec == Init /\ [][Next]_vars

\* The engine and the tools answer, and coroutines are scheduled.
FairSpec == Spec /\ WF_vars(Run) /\ \A c \in Calls : WF_vars(Call(c))

------------------------------------------------------------------------------
(* Properties.                                                             *)

States == {"none", "called", "open", "answered", "failed", "done", "error",
           "escaped"}

TypeOK ==
  /\ pc \in {"generate", "tools", "finish", "done", "raised"}
  /\ ids \in Seq({"prompt", "model", "tool"})
  /\ mask \in Seq({0, 1})
  /\ assistantTurns \in Nat /\ userTurns \in Nat
  /\ calls \in [Calls -> States]
  /\ output \in [prompt   : Seq({"prompt", "model", "tool"}),
                 response : Seq({"prompt", "model", "tool"}),
                 mask     : Seq({0, 1})]

\* Ids and mask are extended, tested and cut in different statements: whatever
\* ended the loop, the prompt of the output is the prompt that came in, and the
\* mask has a 1 exactly at the tokens of the model.
Marks(m, tokens) ==
  /\ Len(m) = Len(tokens)
  /\ \A i \in 1 .. Len(m) : m[i] = (IF tokens[i] = "model" THEN 1 ELSE 0)

Aligned ==
  pc = "done" =>
    /\ output.prompt = Block("prompt", PromptLen)
    /\ Marks(output.mask, output.response)
    /\ Len(output.response) <= ResponseLength

\* "last turn should not be user turn, or the EOS token reward can't be
\* propagated to previous token in GAE", tool_agent_loop.py:117: the response
\* ends with a token of the model, also after it was cut.
EndsWithModel ==
  pc = "done" =>
    Len(output.response) > 0 /\ output.response[Len(output.response)] = "model"

\* The engine is only called with room for one more token in its context.
RoomToSpeak == pc = "generate" => Len(ids) < MaxModelLen

\* A run that returns has released every instance its calls created.
NothingHeld == pc = "done" => \A c \in Calls : calls[c] \notin Holding

\* Also when gather raises in between, every instance is released some time.
InstancesReleased ==
  \A c \in Calls : calls[c] = "open" ~> calls[c] \notin Holding

\* Without limits on turns the length of the response ends the run.
RunEnds == <>(pc \in {"done", "raised"})

\* The conversation a run holds.
Authors(tokens) ==
  [i \in 1 .. Len(tokens) |-> IF tokens[i] = "model" THEN "model" ELSE "env"]

Talk == INSTANCE Conversation WITH
  Limit <- ResponseLength,
  Room  <- MaxModelLen,
  text  <- IF pc = "done" THEN Authors(output.response)
                          ELSE Authors(SubSeq(ids, PromptLen + 1, Len(ids))),
  mask  <- IF pc = "done" THEN output.mask ELSE mask,
  open  <- pc # "done"

\* A run is a conversation as the trainer expects it.
ImplementsConversation == Talk!Spec

===============================================================================

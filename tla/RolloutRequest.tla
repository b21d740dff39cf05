---------------------------- MODULE RolloutRequest ----------------------------
(***************************************************************************)
(* One multi-turn request of the SGLang rollout: the loop of               *)
(* _async_rollout_a_request over the states of AsyncRolloutRequest, and    *)
(* the methods of the latter that extend, trim and cut its ids.  A header  *)
(* (the generation prompt of the chat template) precedes every turn of the *)
(* model: it is appended before a call of the engine unless it is there,   *)
(* and trimmed from the end before a tool answers and when all is over.    *)
(*                                                                         *)
(* A token is who wrote it.  attention_mask and position_ids are extended  *)
(* and cut by the same calls as input_ids and left out.                    *)
(***************************************************************************)
EXTENDS Integers, Sequences

CONSTANTS PromptLen,         \* tokens of the prompt, without the header
          HeaderLen,         \* tokens of the header
          PromptLength,      \* rollout.prompt_length
          ResponseLength,    \* rollout.response_length
          MaxModelLen,       \* rollout.max_model_len, at least their sum
          MaxAssistantTurns, \* multi_turn.max_assistant_turns
          MaxUserTurns,      \* multi_turn.max_user_turns
          Tools,             \* the keys of tools_kwargs
          Interactions,      \* whether an interaction is configured
          CreateTalks,       \* whether a tool answers to its creation
          EnvLen             \* bound: tokens a tool or a user adds

\* What the constants are.
RolloutRequestAssumption ==
  /\ PromptLen \in Nat \ {0} /\ HeaderLen \in Nat \ {0} /\ EnvLen \in Nat
  /\ PromptLength \in Nat /\ ResponseLength \in Nat \ {0}
  /\ MaxModelLen \in Nat /\ MaxModelLen >= PromptLength + ResponseLength
  /\ MaxAssistantTurns \in Nat \ {0} /\ MaxUserTurns \in Nat
  /\ Interactions \in BOOLEAN /\ CreateTalks \in BOOLEAN

VARIABLES pc,        \* "loop", "left" (the loop), "final", or how it raised
          state,     \* AsyncRolloutRequestStateEnum
          ids,       \* input_ids
          lossMask,  \* loss_mask
          turns,     \* current_turns
          userTurns, \* user_turns
          finish,    \* finish_reason_type
          instances, \* the tools that hold an instance for the request
          response   \* response_ids and response_loss_mask, when completed

vars == <<pc, state, ids, lossMask, turns, userTurns, finish, instances,
          response>>

Block(x, n) == [i \in 1 .. n |-> x]

Header == Block("header", HeaderLen)

\* prompt_ids keep the header whatever happens to input_ids.
PromptIds == Block("prompt", PromptLen) \o Header

NoResponse == [ids |-> <<>>, mask |-> <<>>]

Init ==
  /\ pc = "loop" /\ state = "pending"
  /\ ids = PromptIds
  /\ lossMask = Block(0, PromptLen + HeaderLen)
  /\ turns = 0 /\ userTurns = 0
  /\ finish = "none"
  /\ instances = {}
  /\ response = NoResponse

------------------------------------------------------------------------------
(* The methods of AsyncRolloutRequest.                                     *)

Smaller(a, b) == IF a < b THEN a ELSE b

First(s, n) == SubSeq(s, 1, Smaller(n, Len(s)))

HasHeader ==
  Len(ids) >= HeaderLen /\ SubSeq(ids, Len(ids) - HeaderLen + 1, Len(ids)) = Header

\* _remove_generation_prompt_ids_if_present, of ids or of its loss mask.
Trimmed(s) == IF HasHeader THEN SubSeq(s, 1, Len(s) - HeaderLen) ELSE s

\* Mutant of HeaderMask: a header counts as written by the model.
HeaderMaskLearnt == IF HasHeader THEN lossMask ELSE lossMask \o Block(1, HeaderLen)

\* get_generation_prompt_ids appends the header unless it is there.
WithHeader == IF HasHeader THEN ids ELSE ids \o Header
HeaderMask == IF HasHeader THEN lossMask ELSE lossMask \o Block(0, HeaderLen)

\* add_tool_response_messages: nothing for empty answers.
AddToolResponse(n) ==
  IF n = 0
    THEN UNCHANGED <<ids, lossMask>>
    ELSE /\ ids' = Trimmed(ids) \o Block("tool", n)
         /\ lossMask' = Trimmed(lossMask) \o Block(0, n)

AddUserMessage(n) ==
  /\ ids' = ids \o Block("user", n)
  /\ lossMask' = lossMask \o Block(0, n)

------------------------------------------------------------------------------
(* The iterations of the loop, by the state they find.                     *)

In(s) == pc = "loop" /\ turns < MaxAssistantTurns /\ state = s

Break(reason) == pc' = "left" /\ finish' = reason

Stay == UNCHANGED pc

\* _handle_pending_state: every tool of the request creates an instance.
Pending ==
  /\ In("pending")
  /\ instances' = Tools
  /\ \E n \in IF CreateTalks THEN 0 .. EnvLen ELSE {0} : AddToolResponse(n)
  /\ state' = "running"
  /\ Stay
  /\ UNCHANGED <<turns, userTurns, finish, response>>

OutOfRoom == Len(WithHeader) + 1 >= MaxModelLen

\* The context is full: the loop ends with the header at the end of the ids.
ContextFull ==
  /\ In("running")
  /\ OutOfRoom
  /\ ids' = WithHeader /\ lossMask' = HeaderMask
  /\ Break("length")
  /\ UNCHANGED <<state, turns, userTurns, instances, response>>

\* What follows an answer of the engine.
AfterStop ==
  \* tool calls that parse
  \/ /\ Tools # {}
     /\ state' = "tool_calling" /\ finish' = "tool_calls"
     /\ Stay
  \* tool calls of which none parses
  \/ /\ Tools # {}
     /\ state' = "completed"
     /\ Break("stop")
  \* no tool calls
  \/ IF Interactions /\ userTurns < MaxUserTurns /\ turns + 1 < MaxAssistantTurns
       THEN state' = "interacting" /\ finish' = "stop" /\ Stay
       ELSE Break("stop") /\ UNCHANGED state

AfterLength == Break("length") /\ UNCHANGED state

\* The engine writes up to max_new_tokens; the message is tokenized again and
\* closed with one more token.
Generate ==
  /\ In("running")
  /\ ~ OutOfRoom
  /\ \E n \in 1 .. Smaller(ResponseLength, MaxModelLen - Len(WithHeader) - 1) + 1 :
       /\ ids' = WithHeader \o Block("model", n)
       /\ lossMask' = HeaderMask \o Block(1, n)
  /\ turns' = turns + 1
  /\ AfterStop \/ AfterLength
  /\ UNCHANGED <<userTurns, instances, response>>

\* The length test after a tool's or a user's message is len() of a tensor of
\* shape (1, n): it counts one row, and never ends the loop.
BatchRows == 1

Continue ==
  IF BatchRows >= MaxModelLen
    THEN Break("stop") /\ UNCHANGED state
    ELSE state' = "running" /\ UNCHANGED <<pc, finish>>

ToolCalling ==
  /\ In("tool_calling")
  /\ \E n \in 0 .. EnvLen : AddToolResponse(n)
  /\ Continue
  /\ UNCHANGED <<turns, userTurns, instances, response>>

Interacting ==
  /\ In("interacting")
  /\ userTurns' = userTurns + 1
  /\ \/ /\ state' = "completed"
        /\ Break("stop")
        /\ UNCHANGED <<ids, lossMask>>
     \/ /\ \E n \in 1 .. EnvLen : AddUserMessage(n)
        /\ Continue
  /\ UNCHANGED <<turns, instances, response>>

\* A tool, the interaction or the engine raises, and so does the whole batch;
\* some of the tools may have created their instances by then.
Raises ==
  /\ pc = "loop" /\ turns < MaxAssistantTurns
  /\ pc' = "raised"
  /\ instances' \in IF state = "pending" THEN SUBSET Tools ELSE {instances}
  /\ UNCHANGED <<state, ids, lossMask, turns, userTurns, finish, response>>

------------------------------------------------------------------------------
(* After the loop.                                                         *)

\* The reason of the last turn, but for the limit of turns.
Reason == IF turns >= MaxAssistantTurns THEN "stop" ELSE finish

\* The max_model_len of a request, which may be below the engine's.
RequestLen == Smaller(MaxModelLen, PromptLength + ResponseLength)

\* truncate_output_ids; slices beyond the end are empty.
Behind(s) == First(SubSeq(First(s, RequestLen), Len(PromptIds) + 1,
                          Smaller(Len(s), RequestLen)), ResponseLength)

Ended == pc = "left" \/ (pc = "loop" /\ turns >= MaxAssistantTurns)

\* A tool raises when asked for its reward or to release, with any of the others
\* released; or all are, and the engine raises when asked for the log
\* probabilities, and what finalize made of the request is lost with the batch.
EndRaises ==
  /\ Ended
  /\ \E released \in SUBSET Tools : instances' = instances \ released
  /\ finish' = Reason
  /\ pc' = "raised"
  /\ UNCHANGED <<state, ids, lossMask, turns, userTurns, response>>

\* Rewards, release of the tools, and finalize, which raises for a reason that
\* is neither stop nor length.
Finalize ==
  /\ Ended
  /\ instances' = instances \ Tools
  /\ finish' = Reason
  /\ state' = "completed"
  /\ IF Reason \in {"stop", "length"}
       THEN /\ pc' = "final"
            /\ ids' = First(Trimmed(ids), RequestLen)
            /\ lossMask' = First(Trimmed(lossMask), RequestLen)
            /\ response' = [ids  |-> Behind(Trimmed(ids)),
                            mask |-> Behind(Trimmed(lossMask))]
       ELSE /\ pc' = "rejected"
            /\ ids' = Trimmed(ids) /\ lossMask' = Trimmed(lossMask)
            /\ UNCHANGED response
  /\ UNCHANGED <<turns, userTurns>>

Over == pc \in {"final", "raised", "rejected"} /\ UNCHANGED vars

Run == Pending \/ ContextFull \/ Generate \/ ToolCalling \/ Interacting \/ Finalize

Next == Run \/ Raises \/ EndRaises \/ Over

Spec == Init /\ [][Next]_vars

\* The engine, the tools and the interaction answer.
FairSpec == Spec /\ WF_vars(Run)

------------------------------------------------------------------------------
(* Properties.                                                             *)

Authors == {"prompt", "header", "model", "tool", "user"}

TypeOK ==
  /\ pc \in {"loop", "left", "final", "raised", "rejected"}
  /\ state \in {"pending", "running", "tool_calling", "interacting", "completed"}
  /\ ids \in Seq(Authors) /\ lossMask \in Seq({0, 1})
  /\ turns \in 0 .. MaxAssistantTurns /\ userTurns \in 0 .. MaxUserTurns
  /\ finish \in {"none", "stop", "length", "tool_calls"}
  /\ instances \subseteq Tools
  /\ response \in [ids : Seq(Authors), mask : Seq({0, 1})]

\* The request ends, although the length test after a message never holds, and
\* with a reason that finalize accepts: on every path the reason "tool_calls" of
\* a turn is overwritten before the loop is left.
RequestEnds == <>(pc \in {"final", "raised"})

\* The conversation a request holds: what follows the prompt.
Sides(s) == [i \in 1 .. Len(s) |-> IF s[i] = "model" THEN "model" ELSE "env"]

After(s) == SubSeq(s, Len(PromptIds) + 1, Len(s))

Talk == INSTANCE Conversation WITH
  Limit <- Smaller(ResponseLength,
             IF RequestLen > Len(PromptIds) THEN RequestLen - Len(PromptIds) ELSE 0),
  Room  <- MaxModelLen + HeaderLen + EnvLen,
  text  <- Sides(IF pc = "final" THEN response.ids ELSE After(ids)),
  mask  <- IF pc = "final" THEN response.mask ELSE After(lossMask),
  open  <- pc # "final"

ImplementsConversation == Talk!Spec

===============================================================================

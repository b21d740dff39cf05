--------------------------- MODULE ActivationOffload ---------------------------
(***************************************************************************)
(* Offloading of activations (activation_offload.py).  A layer's saved     *)
(* tensors are a group.  The host runs ahead of the device: it only puts   *)
(* operations on three streams, one that computes, one that copies to the  *)
(* CPU (d2h) and one that copies back (h2d), and the only order between    *)
(* streams is the one wait_stream asks for.  Memory whose last reference   *)
(* the host drops is handed out again to the stream it was allocated on,   *)
(* whoever still reads it on another.                                      *)
(*                                                                         *)
(* A group is one tensor.  Contents of memory are the pass that wrote them *)
(* (the micro-batch of gradient accumulation), or Junk.  Pinned memory is  *)
(* kept by torch until the copies that use it are over.                    *)
(***************************************************************************)
EXTENDS Integers, Sequences, FiniteSets

CONSTANTS NumLayers,  \* num_model_group: FSDP layers of the model, one group each
          NumOffload, \* num_offload_group
          Passes      \* bound: forward and backward passes

\* "must be <= actual number of groups"; enable_activation_offloading leaves
\* out the last layer, and does nothing for less than three.
ActivationOffloadAssumption ==
  NumLayers \in Nat /\ NumOffload \in 1 .. NumLayers /\ Passes \in Nat \ {0}

Groups  == 0 .. NumLayers - 1
Streams == {"compute", "d2h", "h2d"}
Places  == {"fwd", "cpu", "back"}
Junk    == 0

VARIABLES pc,        \* the next hook: "push", "commit", "uncommit", "pop" or "done"
          pass,
          current,   \* current_group
          offloaded, \* offloaded_group_count
          state,     \* tensor_tag_to_state: group -> "none", a tensor of the forward
                     \* pass ("fwd"), its key and shape ("cpu") or one copied back ("back")
          buf,       \* groups with a tensor in tensor_tag_to_buf
          mapping,   \* keys of group_offload_mapping
          log,       \* stream -> operations put on it, with the ones it has run
          ran,       \* stream -> how many of them it has run
          memory     \* place and group -> the pass whose values it holds

vars   == <<pc, pass, current, offloaded, state, buf, mapping, log, ran, memory>>
device == <<ran, memory>>

Init ==
  /\ pc = "push" /\ pass = 1 /\ current = 0 /\ offloaded = 0
  /\ state = [g \in Groups |-> "none"] /\ buf = {} /\ mapping = {}
  /\ log = [s \in Streams |-> <<>>] /\ ran = [s \in Streams |-> 0]
  /\ memory = [p \in Places |-> [g \in Groups |-> Junk]]

\* Mutant of WindowEnd: the remainder is not spread over the windows.
WindowEndPlain(i) == (NumLayers \div NumOffload) * (i + 1) - 1

\* layer_window_map: the commit after which group i has to have left.
WindowEnd(i) ==
  (NumLayers \div NumOffload) * (i + 1) - 1
    + (IF i < NumLayers % NumOffload THEN i + 1 ELSE NumLayers % NumOffload)

------------------------------------------------------------------------------
(* Operations on streams.                                                  *)

NoPlace == "none"

\* A kernel or copy that reads group g in one place and writes it in another,
\* and may be given any of the memory in `over` to write to.
Operation(from, to, g, over) ==
  [from |-> from, to |-> to, group |-> g, pass |-> pass, over |-> over]

Wait(on, upTo) == [on |-> on, upTo |-> upTo]

IsWait(op) == "on" \in DOMAIN op

\* Groups the host still refers to on the device.
Held(p) == IF p = "fwd" THEN {g \in Groups : state[g] = "fwd"} \cup buf
                        ELSE {g \in Groups : state[g] = "back"}

\* Memory that can be handed out to an operation that allocates there.
Reusable(p) == {p} \X (Groups \ Held(p))

\* first.wait_stream(second) and second.wait_stream(first), on log l.
WaitFor(l, first, second) == [l EXCEPT ![first] = Append(@, Wait(second, Len(l[second])))]

\* Mutant of BothWays: the copies back are not waited for.
OneWay(l, s) == WaitFor(l, s, "compute")

\* The stream of copies waits for the computation, which then waits for it.
BothWays(l, s) == WaitFor(WaitFor(l, s, "compute"), "compute", s)

------------------------------------------------------------------------------
(* The host: the forward pass.                                             *)

\* The layer runs inside the hooks; tensor_push takes what it saves.
TensorPush ==
  /\ pc = "push" /\ state[current] = "none"
  /\ log' = [log EXCEPT !["compute"] =
       Append(@, Operation(NoPlace, "fwd", current, Reusable("fwd")))]
  /\ state' = [state EXCEPT ![current] = "fwd"]
  /\ buf' = IF current < NumOffload THEN buf \cup {current} ELSE buf
  /\ pc' = "commit"
  /\ UNCHANGED <<pass, current, offloaded, mapping, device>>

\* bulk_offload_group on log l: a copy of group g, if it has tensors yet.
CopyOut(l, g) ==
  IF state[g] = "fwd" THEN [l EXCEPT !["d2h"] = Append(@, Operation("fwd", "cpu", g, {}))]
                      ELSE l

AtWindowEnd == WindowEnd(offloaded) = current

\* The groups a commit of the forward pass offloads: the first one after its
\* own layer, any other at the end of the window of the one before.
Leaving ==
  (IF current = 0 THEN {0} ELSE {})
    \cup (IF AtWindowEnd /\ offloaded < NumOffload - 1 THEN {offloaded + 1} ELSE {})

\* on_group_commit_forward.
CommitForward ==
  /\ pc = "commit" /\ offloaded < NumOffload
  /\ LET kicked == IF current = 0 THEN CopyOut(WaitFor(log, "d2h", "compute"), 0) ELSE log
         synced == IF AtWindowEnd THEN BothWays(kicked, "d2h") ELSE kicked
     IN  log' = IF AtWindowEnd /\ offloaded < NumOffload - 1
                  THEN CopyOut(synced, offloaded + 1) ELSE synced
  /\ state' = [g \in Groups |-> IF g \in Leaving /\ state[g] = "fwd" THEN "cpu" ELSE state[g]]
  /\ mapping' = mapping \cup Leaving
  /\ IF AtWindowEnd THEN buf' = buf \ {offloaded} /\ offloaded' = offloaded + 1
                    ELSE UNCHANGED <<buf, offloaded>>
  /\ current' = current + 1
  /\ pc' = IF current + 1 = NumLayers THEN "uncommit" ELSE "push"
  /\ UNCHANGED <<pass, device>>

------------------------------------------------------------------------------
(* The host: the backward pass.                                            *)

\* bulk_reload_group on log l.
CopyBack(l, g) ==
  IF state[g] = "cpu"
    THEN [l EXCEPT !["h2d"] = Append(@, Operation("cpu", "back", g, Reusable("back")))]
    ELSE l

\* on_group_commit_backward: the group that left last comes back at the commit
\* at which its window ended.
CommitBackward ==
  /\ pc = "uncommit" /\ offloaded > 0
  /\ LET layer    == current - 1
         group    == offloaded - 1
         returns  == WindowEnd(group) = layer
         reloaded == IF returns THEN CopyBack(BothWays(log, "h2d"), group) ELSE log
     IN  /\ current' = layer
         /\ returns => group \in mapping
         /\ mapping' = IF returns THEN mapping \ {group} ELSE mapping
         /\ state' = [g \in Groups |->
              IF returns /\ g = group /\ state[g] = "cpu" THEN "back" ELSE state[g]]
         /\ log' = IF layer = 0 THEN WaitFor(reloaded, "compute", "h2d") ELSE reloaded
         /\ offloaded' = IF layer = 0 THEN 0
                         ELSE IF returns /\ offloaded > 1 THEN group ELSE offloaded
  /\ pc' = "pop"
  /\ UNCHANGED <<pass, buf, device>>

\* The layer's backward asks for its tensors; tensor_pop hands them out.
TensorPop ==
  /\ pc = "pop" /\ state[current] \in {"fwd", "back"}
  /\ log' = [log EXCEPT !["compute"] =
       Append(@, Operation(state[current], NoPlace, current, Reusable("fwd")))]
  /\ state' = [state EXCEPT ![current] = "none"]
  /\ buf' = buf \ {current}
  /\ IF current > 0 THEN pc' = "uncommit" /\ UNCHANGED pass
     ELSE IF pass < Passes THEN pc' = "push" /\ pass' = pass + 1
     ELSE pc' = "done" /\ UNCHANGED pass
  /\ UNCHANGED <<current, offloaded, mapping, device>>

------------------------------------------------------------------------------
(* The device: a stream runs its operations in order.                      *)

Pending(s) == ran[s] < Len(log[s])
First(s)   == log[s][ran[s] + 1]

Written(op) == IF op.from = NoPlace THEN op.pass ELSE memory[op.from][op.group]

Run(s) ==
  /\ Pending(s)
  /\ LET op == First(s)
     IN  IF IsWait(op)
           THEN ran[op.on] >= op.upTo /\ UNCHANGED memory
           ELSE memory' = [p \in Places |-> [g \in Groups |->
                  IF p = op.to /\ g = op.group THEN Written(op)
                  ELSE IF <<p, g>> \in op.over THEN Junk ELSE memory[p][g]]]
  /\ ran' = [ran EXCEPT ![s] = @ + 1]
  /\ UNCHANGED <<pc, pass, current, offloaded, state, buf, mapping, log>>

Host == TensorPush \/ CommitForward \/ CommitBackward \/ TensorPop

AllRan == \A s \in Streams : ~ Pending(s)

Over == pc = "done" /\ AllRan /\ UNCHANGED vars

Next == Host \/ Over \/ \E s \in Streams : Run(s)

Spec == Init /\ [][Next]_vars

\* The host goes on, and so does every stream that need not wait.
Fairness == WF_vars(Host) /\ \A s \in Streams : WF_vars(Run(s))

FairSpec == Spec /\ Fairness

------------------------------------------------------------------------------
(* Properties.                                                             *)

\* Whatever a copy or a layer's backward reads is what this pass wrote there:
\* neither is it early, nor has the memory been given to somebody else since.
ActivationsIntact ==
  \A s \in Streams :
    Pending(s) /\ ~ IsWait(First(s)) /\ First(s).from # NoPlace =>
      memory[First(s).from][First(s).group] = First(s).pass

\* enable_activation_offloading: "there are at most two activation groups in
\* GPU memory", offloading all but the last layer as it does.
TwoGroupsInMemory ==
  NumOffload = NumLayers - 1 => Cardinality(Held("fwd") \cup Held("back")) <= 2

\* Whichever hook comes next finds what it looks up or asserts: a tag that is free,
\* a window for the next group, a group in the mapping, tensors on the device.
HooksFindTheirGroups ==
  /\ pc = "push" => state[current] = "none"
  /\ pc = "commit" => offloaded < NumOffload
  /\ pc = "uncommit" =>
       offloaded > 0 /\ (WindowEnd(offloaded - 1) = current - 1 => offloaded - 1 \in mapping)
  /\ pc = "pop" => state[current] \in {"fwd", "back"}

\* The waits of the streams for one another are never a circle.
SomeStreamRuns ==
  (\E s \in Streams : Pending(s)) =>
    \E s \in Streams :
      Pending(s) /\ (IsWait(First(s)) => ran[First(s).on] >= First(s).upTo)

NothingStuck == HooksFindTheirGroups /\ SomeStreamRuns

\* No stream waits for ever, and no assertion or lookup of the handler fails,
\* which would leave the host where it is.
PassesEnd == <>(pc = "done" /\ AllRan)

===============================================================================

------------------------------ MODULE AgentLoop -------------------------------
(***************************************************************************)
(* Asynchronous rollout: AgentLoopManager wakes the inference servers,     *)
(* which share their GPUs and the weights with the trainer, hands a batch  *)
(* to the agent loop workers, and puts the servers to sleep again.  A      *)
(* worker runs one agent loop (a coroutine) per request: generate at a     *)
(* server that AsyncLLMServerManager chooses, call tools, generate again.  *)
(*                                                                         *)
(* Weights are the number of updates they have seen.  A server stands for  *)
(* its engine and the ranks it drives; the ranks of all servers together   *)
(* hold the shards of the weights, so loading them is a collective.        *)
(***************************************************************************)
EXTENDS Integers, Sequences, SequencesExt, FiniteSets, FiniteSetsExt

CONSTANTS Servers,    \* async_llm_servers
          Workers,    \* agent_loop_workers
          Requests,   \* the rows of a batch
          WorkerOf,   \* the worker whose chunk a row is in
          FreeCache,  \* rollout.free_cache_engine
          CacheSize,  \* max_cache_size of request_id_to_server
          MaxTurns,   \* max_assistant_turns
          MaxRounds   \* bound: batches generated

Chunk(w) == {r \in Requests : WorkerOf[r] = w}

ASSUME AgentLoopAssumption ==
  /\ IsFiniteSet(Servers) /\ Servers # {} /\ "none" \notin Servers
  /\ IsFiniteSet(Requests) /\ Requests # {} /\ IsFiniteSet(Workers)
  /\ WorkerOf \in [Requests -> Workers]
  /\ FreeCache \in BOOLEAN
  /\ \A w \in Workers : Cardinality(Chunk(w)) <= CacheSize
  /\ CacheSize \in Nat \ {0} /\ MaxTurns \in Nat \ {0} /\ MaxRounds \in Nat \ {0}

VARIABLES manager,  \* "fit": the trainer runs; "waking", "generating",
                    \* "sleeping": inside generate_sequences; "raised"
          round,    \* batches generated so far
          version,  \* updates of the trainer's weights
          engine,   \* per server: "awake", "asleep" or "loading"
          weights,  \* per server: the updates its weights have seen
          prefix,   \* per server: the weights its prefix cache stems from
          load,     \* per worker: the counts of weighted_serveres
          recent,   \* per worker: request_id_to_server, oldest first
          loop,     \* per request: where its agent loop is
          turns,    \* per request: assistant_turns
          at,       \* per request: the server that has it, or had it last
          visited   \* per request: the servers its turns went to

servers  == <<engine, weights, prefix>>
sessions == <<load, recent>>
loops    == <<loop, turns, at, visited>>
vars     == <<manager, round, version, servers, sessions, loops>>

NoServer == "none"

\* After init_engine the engines hold the weights the trainer starts from;
\* __init__ ends with sleep(), which has no effect unless the cache is freed.
Init ==
  /\ manager = "fit" /\ round = 0 /\ version = 0
  /\ engine = [s \in Servers |-> IF FreeCache THEN "asleep" ELSE "awake"]
  /\ weights = [s \in Servers |-> 0]
  /\ prefix = [s \in Servers |-> {}]
  /\ load = [w \in Workers |-> [s \in Servers |-> 0]]
  /\ recent = [w \in Workers |-> <<>>]
  /\ loop = [r \in Requests |-> "idle"]
  /\ turns = [r \in Requests |-> 0]
  /\ at = [r \in Requests |-> NoServer]
  /\ visited = [r \in Requests |-> {}]

------------------------------------------------------------------------------
(* The trainer and the manager.                                            *)

\* update_actor; a batch may also pass without one (validation, warmup).
Train ==
  /\ manager = "fit"
  /\ version < round
  /\ version' = version + 1
  /\ UNCHANGED <<manager, round, servers, sessions, loops>>

GenerateSequences ==
  /\ manager = "fit"
  /\ round < MaxRounds
  /\ round' = round + 1
  /\ manager' = IF FreeCache THEN "waking" ELSE "generating"
  /\ loop' = [r \in Requests |-> "ready"]
  /\ turns' = [r \in Requests |-> 0]
  /\ at' = [r \in Requests |-> NoServer]
  /\ visited' = [r \in Requests |-> {}]
  /\ UNCHANGED <<version, servers, sessions>>

\* Mutant of WakeUp: a server is woken when the one before it is awake.
WakeUpInTurn(s) ==
  /\ manager = "waking"
  /\ engine[s] = "asleep"
  /\ \A t \in Servers : engine[t] # "loading"
  /\ engine' = [engine EXCEPT ![s] = "loading"]
  /\ UNCHANGED <<manager, round, version, weights, prefix, sessions, loops>>

\* wake_up is sent to all servers before any answer is awaited.
WakeUp(s) ==
  /\ manager = "waking"
  /\ engine[s] = "asleep"
  /\ engine' = [engine EXCEPT ![s] = "loading"]
  /\ UNCHANGED <<manager, round, version, weights, prefix, sessions, loops>>

\* The sharding manager gathers the weights from the ranks of all servers.
UpdateParams(s) ==
  /\ engine[s] = "loading"
  /\ \A t \in Servers : engine[t] # "asleep"
  /\ engine' = [engine EXCEPT ![s] = "awake"]
  /\ weights' = [weights EXCEPT ![s] = version]
  /\ UNCHANGED <<manager, round, version, prefix, sessions, loops>>

\* ray.get returns when every server is awake.
Awake ==
  /\ manager = "waking"
  /\ \A s \in Servers : engine[s] = "awake"
  /\ manager' = "generating"
  /\ UNCHANGED <<round, version, servers, sessions, loops>>

Collected == \A r \in Requests : loop[r] = "done"

\* Mutant of Collect: the servers are not put to sleep.
CollectAwake ==
  /\ manager = "generating"
  /\ Collected
  /\ manager' = "fit"
  /\ UNCHANGED <<round, version, servers, sessions, loops>>

Collect ==
  /\ manager = "generating"
  /\ Collected
  /\ manager' = IF FreeCache THEN "sleeping" ELSE "fit"
  /\ UNCHANGED <<round, version, servers, sessions, loops>>

\* Mutant of Sleep: the prefix cache outlives the weights it was made with.
SleepKeepsPrefix(s) ==
  /\ manager = "sleeping"
  /\ engine[s] = "awake"
  /\ engine' = [engine EXCEPT ![s] = "asleep"]
  /\ UNCHANGED <<manager, round, version, weights, prefix, sessions, loops>>

Sleep(s) ==
  /\ manager = "sleeping"
  /\ engine[s] = "awake"
  /\ prefix' = [prefix EXCEPT ![s] = {}]
  /\ engine' = [engine EXCEPT ![s] = "asleep"]
  /\ UNCHANGED <<manager, round, version, weights, sessions, loops>>

Asleep ==
  /\ manager = "sleeping"
  /\ \A s \in Servers : engine[s] = "asleep"
  /\ manager' = "fit"
  /\ UNCHANGED <<round, version, servers, sessions, loops>>

\* An agent loop that raised makes gather, and so the whole call, raise; the
\* servers stay awake.
Raise ==
  /\ manager = "generating"
  /\ \E r \in Requests : loop[r] = "failed"
  /\ manager' = "raised"
  /\ UNCHANGED <<round, version, servers, sessions, loops>>

------------------------------------------------------------------------------
(* One agent loop, and AsyncLLMServerManager._choose_server.               *)

\* Request ids are fresh in every batch.
Id(r) == <<round, r>>

Known(w, id) == {i \in 1 .. Len(recent[w]) : recent[w][i].id = id}

\* Mutant of Evicted: the cache is one entry too small.
EvictedEarly(s) == IF Len(s) >= CacheSize - 1 THEN Tail(s) ELSE s

\* Room for one more entry: the least recently used one goes.
Evicted(s) == IF Len(s) >= CacheSize THEN Tail(s) ELSE s

\* Mutant of Least: the root of the heap never changes.
LeastFixed(w) == {CHOOSE s \in Servers : TRUE}

\* The root of the heap; equal counts are ordered by an arbitrary hash.
Least(w) == {s \in Servers : \A t \in Servers : load[w][s] <= load[w][t]}

\* A known request goes where it went before, and is most recent again.
Revisit(r) ==
  LET w == WorkerOf[r]
  IN  \E i \in Known(w, Id(r)) :
        /\ recent' = [recent EXCEPT ![w] = Append(RemoveAt(@, i), @[i])]
        /\ at' = [at EXCEPT ![r] = recent[w][i].server]
        /\ UNCHANGED load

Assign(r) ==
  LET w == WorkerOf[r]
  IN  /\ Known(w, Id(r)) = {}
      /\ \E s \in Least(w) :
           /\ load' = [load EXCEPT ![w][s] = @ + 1]
           /\ recent' = [recent EXCEPT
                ![w] = Append(Evicted(@), [id |-> Id(r), server |-> s])]
           /\ at' = [at EXCEPT ![r] = s]

Generate(r) ==
  /\ manager \in {"generating", "raised"}
  /\ loop[r] = "ready"
  /\ Revisit(r) \/ Assign(r)
  /\ loop' = [loop EXCEPT ![r] = "generating"]
  /\ visited' = [visited EXCEPT ![r] = @ \cup {at'[r]}]
  /\ UNCHANGED <<manager, round, version, servers, turns>>

\* The server answers; the loop ends, or calls tools.
Answer(r) ==
  /\ loop[r] = "generating"
  /\ prefix' = [prefix EXCEPT ![at[r]] = @ \cup {weights[at[r]]}]
  /\ turns' = [turns EXCEPT ![r] = @ + 1]
  /\ \E next \in IF turns[r] + 1 < MaxTurns THEN {"tools", "done"} ELSE {"done"} :
       loop' = [loop EXCEPT ![r] = next]
  /\ UNCHANGED <<manager, round, version, engine, weights, sessions, at, visited>>

\* The tools answer; one that failed, or too long an answer, ends the loop.
ToolsAnswer(r) ==
  /\ loop[r] = "tools"
  /\ \E next \in {"ready", "done"} : loop' = [loop EXCEPT ![r] = next]
  /\ UNCHANGED <<manager, round, version, servers, sessions, turns, at, visited>>

\* The engine, or the release of a tool, raises.
LoopRaises(r) ==
  /\ loop[r] \in {"generating", "tools"}
  /\ loop' = [loop EXCEPT ![r] = "failed"]
  /\ UNCHANGED <<manager, round, version, servers, sessions, turns, at, visited>>

\* All batches are generated, or the trainer has died with its manager.
Over ==
  /\ manager = "raised" \/ (manager = "fit" /\ round = MaxRounds)
  /\ UNCHANGED vars

Rollout ==
  \/ \E s \in Servers : WakeUp(s) \/ UpdateParams(s) \/ Sleep(s)
  \/ Awake \/ Collect \/ Asleep \/ Raise
  \/ \E r \in Requests : Generate(r) \/ Answer(r) \/ ToolsAnswer(r)

Next ==
  \/ Train \/ GenerateSequences \/ Rollout \/ Over
  \/ \E r \in Requests : LoopRaises(r)

Spec == Init /\ [][Next]_vars

\* Calls in flight return, and coroutines are scheduled.
FairSpec == Spec /\ WF_vars(Rollout)

------------------------------------------------------------------------------
(* Properties.                                                             *)

TypeOK ==
  /\ manager \in {"fit", "waking", "generating", "sleeping", "raised"}
  /\ round \in 0 .. MaxRounds /\ version \in 0 .. MaxRounds
  /\ engine \in [Servers -> {"awake", "asleep", "loading"}]
  /\ weights \in [Servers -> 0 .. MaxRounds]
  /\ prefix \in [Servers -> SUBSET (0 .. MaxRounds)]
  /\ load \in [Workers -> [Servers -> Nat]]
  /\ recent \in [Workers -> Seq([id : (0 .. MaxRounds) \X Requests, server : Servers])]
  /\ \A w \in Workers : Len(recent[w]) <= CacheSize
  /\ loop \in [Requests -> {"idle", "ready", "generating", "tools", "done", "failed"}]
  /\ turns \in [Requests -> 0 .. MaxTurns]
  /\ \A r \in Requests :
       loop[r] \in {"ready", "generating", "tools"} => turns[r] < MaxTurns
  /\ at \in [Requests -> Servers \cup {NoServer}]
  /\ visited \in [Requests -> SUBSET Servers]

InFlight(r) == loop[r] = "generating"

\* Every token comes from the weights the trainer holds at that moment, and no
\* cached prefix from older ones: updates, wake-ups and the requests of many
\* coroutines never overlap in another order.
OnPolicy ==
  \A r \in Requests : InFlight(r) =>
    weights[at[r]] = version /\ prefix[at[r]] \subseteq {version}

\* Engines and trainer use the memory they share in turns: while the trainer
\* computes, no engine holds it, and no request is at an engine that does not.
MemoryInTurns ==
  /\ manager = "fit" => \A s \in Servers : engine[s] = "asleep"
  /\ \A r \in Requests : InFlight(r) => engine[at[r]] = "awake"

\* "Sticky session", agent_loop.py:47: all turns of a request go to one server,
\* as long as a chunk fits the cache, whatever earlier batches left in it.
Sticky == \A r \in Requests : Cardinality(visited[r]) <= 1

\* "Load balance", agent_loop.py:46: over all workers, and over any number of
\* batches, no server gets more than one session per worker more than another.
Sessions(s) == MapThenSumSet(LAMBDA w : load[w][s], Workers)

Balanced ==
  \A s, t \in Servers : Sessions(s) - Sessions(t) <= Cardinality(Workers)

\* Every call of generate_sequences returns or raises: no server waits for the
\* shards of one that is not being woken, and no request is forgotten.
CallEnds == manager = "waking" ~> manager \in {"fit", "raised"}

\* "Whether to free engine KVCache after generation",
\* verl/trainer/config/rollout/rollout.yaml:37: with the flag off the engines
\* keep their cache, and still generate with the trainer's weights.
LatestWeights == \A r \in Requests : InFlight(r) => weights[at[r]] = version

------------------------------------------------------------------------------
(* The inductive invariant behind OnPolicy and MemoryInTurns,              *)
(* for a rollout that frees its cache.                                     *)

\* Where the manager is fixes what the engines hold.
EngineOrder ==
  \A s \in Servers :
    /\ manager = "fit" => engine[s] = "asleep"
    /\ manager \in {"generating", "raised"} => engine[s] = "awake"
    /\ manager = "sleeping" => engine[s] # "loading"
    /\ engine[s] = "awake" /\ manager # "sleeping" => weights[s] = version

PrefixOrder ==
  \A s \in Servers :
    /\ prefix[s] \subseteq {version}
    /\ manager = "waking" \/ engine[s] = "asleep" => prefix[s] = {}

FlightOrder ==
  \A r \in Requests : InFlight(r) =>
    manager \in {"generating", "raised"} /\ at[r] \in Servers

AInv == EngineOrder /\ PrefixOrder /\ FlightOrder

------------------------------------------------------------------------------
(* The inductive invariants behind Sticky and Balanced, for any rollout.   *)

\* A cache of worker w in batch k: no id twice, only rows of its chunk, and the
\* entries of this batch behind those of the batches before.
InOrder(cache, w, k) ==
  /\ \A i, j \in 1 .. Len(cache) : cache[i].id = cache[j].id => i = j
  /\ \A i \in 1 .. Len(cache) :
       cache[i].id[1] <= k /\ WorkerOf[cache[i].id[2]] = w
  /\ \A i, j \in 1 .. Len(cache) : i < j /\ cache[i].id[1] = k => cache[j].id[1] = k

\* A request that went to a server is in the cache with that server.
Remembered(r) ==
  visited[r] # {} =>
    \E i \in Known(WorkerOf[r], Id(r)) : visited[r] = {recent[WorkerOf[r]][i].server}

SessionOrder ==
  /\ \A w \in Workers : InOrder(recent[w], w, round)
  /\ \A r \in Requests : Remembered(r)

\* A worker's counts differ by one at most.
LoadEven == \A w \in Workers : \A s, t \in Servers : load[w][s] <= load[w][t] + 1

===============================================================================

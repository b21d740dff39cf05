--------------------------- MODULE AgentLoopProofs ----------------------------
(***************************************************************************)
(* Theorems about AgentLoop for any number of servers, workers, requests   *)
(* and turns.                                                              *)
(***************************************************************************)
EXTENDS AgentLoop, Lemmas, FiniteSetTheorems, SequenceTheorems, TLAPS

USE AgentLoopAssumption

Entry == [id : (0 .. MaxRounds) \X Requests, server : Servers]

\* Making a known entry the most recent one keeps the cache a sequence of
\* entries of the same length.
LEMMA Touched ==
  ASSUME NEW s \in Seq(Entry), NEW i \in 1 .. Len(s)
  PROVE  /\ Append(RemoveAt(s, i), s[i]) \in Seq(Entry)
         /\ Len(Append(RemoveAt(s, i), s[i])) = Len(s)
<1> DEFINE a == SubSeq(s, 1, i - 1)
           b == SubSeq(s, i + 1, Len(s))
<1>1. a \in Seq(Entry) /\ Len(a) = i - 1
  OBVIOUS
<1>2. b \in Seq(Entry) /\ Len(b) = Len(s) - i
  OBVIOUS
<1>3. RemoveAt(s, i) = a \o b
  BY DEF RemoveAt
<1> HIDE DEF a, b
<1>4. a \o b \in Seq(Entry) /\ Len(a \o b) = Len(s) - 1
  <2>1. i \in Int /\ Len(s) \in Int
    OBVIOUS
  <2>2. a \o b \in Seq(Entry) /\ Len(a \o b) = Len(a) + Len(b)
    BY <1>1, <1>2, ConcatProperties
  <2>3. QED
    BY <1>1, <1>2, <2>1, <2>2
<1>5. s[i] \in Entry
  OBVIOUS
<1> DEFINE c == RemoveAt(s, i)
           x == s[i]
<1>6. c \in Seq(Entry) /\ Len(c) = Len(s) - 1 /\ x \in Entry /\ Len(s) \in Nat
  BY <1>3, <1>4, <1>5
<1> HIDE DEF c, x
<1>7. Append(c, x) \in Seq(Entry) /\ Len(Append(c, x)) = Len(s)
  BY <1>6
<1>8. QED
  BY <1>7 DEF c, x

\* A new entry never makes the cache exceed its size.
LEMMA Added ==
  ASSUME NEW s \in Seq(Entry), Len(s) <= CacheSize, NEW e \in Entry
  PROVE  /\ Append(Evicted(s), e) \in Seq(Entry)
         /\ Len(Append(Evicted(s), e)) <= CacheSize
<1>1. CASE Len(s) >= CacheSize
  <2>1. s # <<>>
    BY <1>1
  <2>2. Tail(s) \in Seq(Entry) /\ Len(Tail(s)) = Len(s) - 1
    BY <2>1
  <2>3. QED
    BY <1>1, <2>2 DEF Evicted
<1>2. CASE ~ (Len(s) >= CacheSize)
  BY <1>2 DEF Evicted
<1>3. QED
  BY <1>1, <1>2

\* _choose_server answers with one of the servers, and keeps its tables typed.
LEMMA Chosen ==
  ASSUME TypeOK, NEW r \in Requests, Generate(r)
  PROVE  /\ load' \in [Workers -> [Servers -> Nat]]
         /\ recent' \in [Workers -> Seq(Entry)]
         /\ \A w \in Workers : Len(recent'[w]) <= CacheSize
         /\ \E s \in Servers : at' = [at EXCEPT ![r] = s]
<1> DEFINE w == WorkerOf[r]
<1>1. /\ w \in Workers
      /\ recent \in [Workers -> Seq(Entry)]
      /\ load \in [Workers -> [Servers -> Nat]]
      /\ \A v \in Workers : Len(recent[v]) <= CacheSize
      /\ Id(r) \in (0 .. MaxRounds) \X Requests
  BY DEF TypeOK, Entry, Id
<1> HIDE DEF w
<1>2. CASE Revisit(r)
  <2>1. PICK i \in Known(w, Id(r)) :
          /\ recent' = [recent EXCEPT ![w] = Append(RemoveAt(@, i), @[i])]
          /\ at' = [at EXCEPT ![r] = recent[w][i].server]
    BY <1>2 DEF Revisit, w
  <2>2. i \in 1 .. Len(recent[w])
    BY DEF Known
  <2>3. recent[w][i] \in Entry
    BY <1>1, <2>2
  <2>4. recent[w][i].server \in Servers
    BY <2>3 DEF Entry
  <2> DEFINE t == Append(RemoveAt(recent[w], i), recent[w][i])
  <2>5. t \in Seq(Entry) /\ Len(t) = Len(recent[w])
    BY <1>1, <2>2, Touched
  <2>6. recent' = [recent EXCEPT ![w] = t]
    BY <2>1
  <2> HIDE DEF t
  <2>7. recent' \in [Workers -> Seq(Entry)]
    BY <1>1, <2>5, <2>6
  <2>8. \A v \in Workers : Len(recent'[v]) <= CacheSize
    BY <1>1, <2>5, <2>6
  <2>9. load' = load
    BY <1>2 DEF Revisit
  <2>10. QED
    BY <1>1, <2>1, <2>4, <2>7, <2>8, <2>9
<1>3. CASE Assign(r)
  <2>1. PICK s \in Least(w) :
          /\ load' = [load EXCEPT ![w][s] = @ + 1]
          /\ recent' = [recent EXCEPT
               ![w] = Append(Evicted(@), [id |-> Id(r), server |-> s])]
          /\ at' = [at EXCEPT ![r] = s]
    BY <1>3 DEF Assign, w
  <2>2. s \in Servers
    BY DEF Least
  <2> DEFINE e == [id |-> Id(r), server |-> s]
             t == Append(Evicted(recent[w]), e)
  <2>3. e \in Entry
    BY <1>1, <2>2 DEF Entry
  <2>4. t \in Seq(Entry) /\ Len(t) <= CacheSize
    BY <1>1, <2>3, Added
  <2>5. recent' = [recent EXCEPT ![w] = t]
    BY <2>1
  <2> HIDE DEF t
  <2>6. recent' \in [Workers -> Seq(Entry)]
    BY <1>1, <2>4, <2>5
  <2>7. \A v \in Workers : Len(recent'[v]) <= CacheSize
    BY <1>1, <2>4, <2>5
  <2>8. load' \in [Workers -> [Servers -> Nat]]
    <3>1. load[w] \in [Servers -> Nat] /\ load[w][s] + 1 \in Nat
      BY <1>1, <2>2, SMTT(30)
    <3>2. [load[w] EXCEPT ![s] = @ + 1] \in [Servers -> Nat]
      BY <2>2, <3>1
    <3>3. load' = [load EXCEPT ![w] = [load[w] EXCEPT ![s] = @ + 1]]
      BY <2>1
    <3>4. QED
      BY <1>1, <3>2, <3>3
  <2>9. QED
    BY <2>1, <2>2, <2>6, <2>7, <2>8
<1>4. QED
  BY <1>2, <1>3 DEF Generate

------------------------------------------------------------------------------
(* Typing.                                                                 *)

\* A step of the trainer, of the manager or of a server keeps the types.
LEMMA ManagerTyping ==
  ASSUME TypeOK,
         \/ Train \/ GenerateSequences \/ Awake \/ Collect \/ Asleep \/ Raise
         \/ Over
         \/ \E s \in Servers : WakeUp(s) \/ UpdateParams(s) \/ Sleep(s)
  PROVE  TypeOK'
<1> USE DEF TypeOK, servers, sessions, loops, vars
<1>1. CASE Train
  <2>1. version' \in 0 .. MaxRounds /\ round' \in 0 .. MaxRounds
    BY <1>1 DEF Train
  <2>2. QED
    BY <1>1, <2>1 DEF Train
<1>2. CASE GenerateSequences
  <2>1. version' \in 0 .. MaxRounds /\ round' \in 0 .. MaxRounds
    BY <1>2 DEF GenerateSequences
  <2>2. /\ loop' \in [Requests -> {"idle", "ready", "generating", "tools", "done", "failed"}]
        /\ turns' \in [Requests -> 0 .. MaxTurns]
        /\ at' \in [Requests -> Servers \cup {NoServer}]
        /\ visited' \in [Requests -> SUBSET Servers]
        /\ \A r \in Requests : turns'[r] < MaxTurns
    BY <1>2 DEF GenerateSequences
  <2>3. QED
    BY <1>2, <2>1, <2>2 DEF GenerateSequences
<1>3. CASE Awake
  BY <1>3 DEF Awake
<1>4. CASE Collect
  BY <1>4 DEF Collect
<1>5. CASE Asleep
  BY <1>5 DEF Asleep
<1>6. CASE Raise
  BY <1>6 DEF Raise
<1>7. CASE Over
  BY <1>7 DEF Over
<1>8. ASSUME NEW s \in Servers, WakeUp(s) PROVE TypeOK'
  BY <1>8 DEF WakeUp
<1>9. ASSUME NEW s \in Servers, UpdateParams(s) PROVE TypeOK'
  BY <1>9 DEF UpdateParams
<1>10. ASSUME NEW s \in Servers, Sleep(s) PROVE TypeOK'
  BY <1>10 DEF Sleep
<1>11. QED
  BY <1>1, <1>2, <1>3, <1>4, <1>5, <1>6, <1>7, <1>8, <1>9, <1>10

\* A step of an agent loop keeps the types.
LEMMA LoopTyping ==
  ASSUME TypeOK, NEW r \in Requests,
         Generate(r) \/ Answer(r) \/ ToolsAnswer(r) \/ LoopRaises(r)
  PROVE  TypeOK'
<1>1. CASE Generate(r)
  <2>1. PICK s \in Servers : at' = [at EXCEPT ![r] = s]
    BY <1>1, Chosen
  <2>2. at' \in [Requests -> Servers \cup {NoServer}] /\ at'[r] \in Servers
    BY <2>1 DEF TypeOK
  <2>3. visited' \in [Requests -> SUBSET Servers]
    BY <1>1, <2>2 DEF TypeOK, Generate
  <2>4. /\ load' \in [Workers -> [Servers -> Nat]]
        /\ recent' \in [Workers -> Seq(Entry)]
        /\ \A w \in Workers : Len(recent'[w]) <= CacheSize
    BY <1>1, Chosen
  <2>5. /\ loop' \in [Requests -> {"idle", "ready", "generating", "tools", "done", "failed"}]
        /\ \A q \in Requests :
             loop'[q] \in {"ready", "generating", "tools"} => turns'[q] < MaxTurns
    BY <1>1 DEF TypeOK, Generate
  <2>6. QED
    BY <1>1, <2>2, <2>3, <2>4, <2>5 DEF TypeOK, Generate, servers, Entry
<1>2. CASE Answer(r)
  <2>1. turns[r] < MaxTurns
    BY <1>2 DEF TypeOK, Answer
  <2>2. turns' \in [Requests -> 0 .. MaxTurns]
    BY <1>2, <2>1 DEF TypeOK, Answer
  <2>3. PICK next \in IF turns[r] + 1 < MaxTurns THEN {"tools", "done"} ELSE {"done"} :
          loop' = [loop EXCEPT ![r] = next]
    BY <1>2 DEF Answer
  <2> turns'[r] = turns[r] + 1 /\ \A q \in Requests \ {r} : turns'[q] = turns[q]
    BY <1>2 DEF TypeOK, Answer
  <2> next \in {"tools", "done"} /\ (next = "tools" => turns'[r] < MaxTurns)
    BY <2>1
  <2>4. loop' \in [Requests -> {"idle", "ready", "generating", "tools", "done", "failed"}]
    BY <2>3 DEF TypeOK
  <2>5. \A q \in Requests :
          loop'[q] \in {"ready", "generating", "tools"} => turns'[q] < MaxTurns
    <3> SUFFICES ASSUME NEW q \in Requests,
                        loop'[q] \in {"ready", "generating", "tools"}
                 PROVE  turns'[q] < MaxTurns
      OBVIOUS
    <3>1. CASE q = r
      BY <3>1, <2>3 DEF TypeOK
    <3>2. CASE q # r
      BY <3>2, <2>3 DEF TypeOK
    <3>3. QED
      BY <3>1, <3>2
  <2>6. prefix' \in [Servers -> SUBSET (0 .. MaxRounds)]
    <3>1. /\ prefix \in [Servers -> SUBSET (0 .. MaxRounds)]
          /\ weights \in [Servers -> 0 .. MaxRounds]
          /\ prefix' = [prefix EXCEPT ![at[r]] = @ \cup {weights[at[r]]}]
      BY <1>2 DEF TypeOK, Answer
    <3> DEFINE a == at[r]
               versions == 0 .. MaxRounds
    <3>2. \A s \in Servers : weights[s] \in versions /\ prefix[s] \in SUBSET versions
      BY <3>1
    <3> HIDE DEF a, versions
    <3>3. prefix' = [prefix EXCEPT ![a] = prefix[a] \cup {weights[a]}]
      BY <3>1 DEF a
    <3>4. DOMAIN prefix = Servers /\ prefix \in [Servers -> SUBSET versions]
      BY <3>1 DEF versions
    <3>5. prefix' \in [Servers -> SUBSET versions]
      BY <3>2, <3>3, <3>4
    <3>6. QED
      BY <3>5 DEF versions
  <2>7. QED
    BY <1>2, <2>2, <2>4, <2>5, <2>6 DEF TypeOK, Answer, sessions
<1>3. CASE ToolsAnswer(r)
  BY <1>3 DEF TypeOK, ToolsAnswer, servers, sessions
<1>4. CASE LoopRaises(r)
  BY <1>4 DEF TypeOK, LoopRaises, servers, sessions
<1>5. QED
  BY <1>1, <1>2, <1>3, <1>4

\* Every variable keeps its type, the cache of sessions its bound, and a loop
\* that may generate again has a turn left, whatever the coroutines interleave.
THEOREM Typing == Spec => []TypeOK
<1>1. Init => TypeOK
  BY DEF Init, TypeOK, NoServer
<1>2. TypeOK /\ [Next]_vars => TypeOK'
  <2> SUFFICES ASSUME TypeOK, [Next]_vars PROVE TypeOK'
    OBVIOUS
  <2>1. CASE UNCHANGED vars
    BY <2>1 DEF TypeOK, vars, servers, sessions, loops
  <2>2. CASE Next
    BY <2>2, ManagerTyping, LoopTyping DEF Next, Rollout
  <2>3. QED
    BY <2>1, <2>2
<1>3. QED
  BY <1>1, <1>2, PTL DEF Spec

------------------------------------------------------------------------------
(* A rollout that frees its cache.  Where the manager is fixes what the    *)
(* engines hold; a request is in flight only while all of them are awake.  *)

\* The invariant holds at the start.
LEMMA AgentInit == FreeCache /\ Init => AInv
BY DEF Init, AInv, EngineOrder, PrefixOrder, FlightOrder, InFlight

\* Every step of the trainer, the manager and the servers preserves it.
LEMMA ManagerKeeps ==
  ASSUME FreeCache, TypeOK, AInv,
         \/ Train \/ GenerateSequences \/ Awake \/ Collect \/ Asleep \/ Raise
         \/ Over
         \/ \E s \in Servers : WakeUp(s) \/ UpdateParams(s) \/ Sleep(s)
  PROVE  AInv'
<1> USE DEF TypeOK, servers, sessions, loops, vars
<1> USE DEF AInv, EngineOrder, PrefixOrder, FlightOrder, InFlight
<1>1. CASE Train
  BY <1>1 DEF Train
<1>2. CASE GenerateSequences
  BY <1>2 DEF GenerateSequences
<1>3. CASE Awake
  BY <1>3 DEF Awake
<1>4. CASE Collect
  BY <1>4 DEF Collect, Collected
<1>5. CASE Asleep
  BY <1>5 DEF Asleep
<1>6. CASE Raise
  BY <1>6 DEF Raise
<1>7. CASE Over
  BY <1>7 DEF Over
<1>8. ASSUME NEW s \in Servers, WakeUp(s) PROVE AInv'
  BY <1>8 DEF WakeUp
<1>9. ASSUME NEW s \in Servers, UpdateParams(s) PROVE AInv'
  BY <1>9 DEF UpdateParams
<1>10. ASSUME NEW s \in Servers, Sleep(s) PROVE AInv'
  BY <1>10 DEF Sleep
<1>11. QED
  BY <1>1, <1>2, <1>3, <1>4, <1>5, <1>6, <1>7, <1>8, <1>9, <1>10

\* So does every step of an agent loop.
LEMMA LoopKeeps ==
  ASSUME FreeCache, TypeOK, AInv, NEW r \in Requests,
         Generate(r) \/ Answer(r) \/ ToolsAnswer(r) \/ LoopRaises(r)
  PROVE  AInv'
<1> USE DEF TypeOK, servers, sessions, loops, vars
<1> USE DEF AInv, EngineOrder, PrefixOrder, FlightOrder, InFlight
<1>1. CASE Generate(r)
  <2>1. PICK s \in Servers : at' = [at EXCEPT ![r] = s]
    BY <1>1, Chosen
  <2>2. QED
    BY <1>1, <2>1 DEF Generate
<1>2. CASE Answer(r)
  <2>1. manager \in {"generating", "raised"} /\ at[r] \in Servers
    BY <1>2 DEF Answer
  <2>2. engine[at[r]] = "awake" /\ weights[at[r]] = version
    BY <2>1
  <2>3. EngineOrder' /\ FlightOrder'
    BY <1>2 DEF Answer
  <2>4. PrefixOrder'
    BY <1>2, <2>1, <2>2 DEF Answer
  <2>5. QED
    BY <2>3, <2>4
<1>3. CASE ToolsAnswer(r)
  BY <1>3 DEF ToolsAnswer
<1>4. CASE LoopRaises(r)
  BY <1>4 DEF LoopRaises
<1>5. QED
  BY <1>1, <1>2, <1>3, <1>4

\* The invariant holds in every reachable state.
LEMMA AgentInvariant == ASSUME FreeCache PROVE Spec => []AInv
<1>1. Init => AInv
  BY AgentInit
<1>2. TypeOK /\ AInv /\ [Next]_vars => AInv'
  <2> SUFFICES ASSUME TypeOK, AInv, [Next]_vars PROVE AInv'
    OBVIOUS
  <2>1. CASE UNCHANGED vars
    BY <2>1 DEF AInv, EngineOrder, PrefixOrder, FlightOrder, InFlight,
      vars, servers, sessions, loops
  <2>2. CASE Next
    BY <2>2, ManagerKeeps, LoopKeeps DEF Next, Rollout
  <2>3. QED
    BY <2>1, <2>2
<1>3. QED
  BY <1>1, <1>2, Typing, PTL DEF Spec

\* Every token is sampled from the weights the trainer holds at that moment,
\* and no cached prefix of a server that has a request is older.
THEOREM TokensOnPolicy == ASSUME FreeCache PROVE Spec => []OnPolicy
<1>1. AInv => OnPolicy
  BY DEF AInv, EngineOrder, PrefixOrder, FlightOrder, OnPolicy
<1>2. QED
  BY <1>1, AgentInvariant, PTL

\* The trainer computes only while every engine has given its memory back, and a
\* server that has a request is awake.
THEOREM MemoryIsExclusive == ASSUME FreeCache PROVE Spec => []MemoryInTurns
<1>1. AInv => MemoryInTurns
  BY DEF AInv, EngineOrder, FlightOrder, MemoryInTurns
<1>2. QED
  BY <1>1, AgentInvariant, PTL

------------------------------------------------------------------------------
(* Sticky sessions.                                                        *)

\* What a visit of a known request does to the cache, and a new one.
Touch(s, i) == Append(RemoveAt(s, i), s[i])
Add(s, e) == Append(Evicted(s), e)

\* Where the entries are after one was made the most recent: those behind it
\* move up by one.
LEMMA TouchedEntries ==
  ASSUME NEW s \in Seq(Entry), NEW i \in 1 .. Len(s)
  PROVE  /\ Touch(s, i) \in Seq(Entry) /\ Len(Touch(s, i)) = Len(s)
         /\ \A j \in 1 .. Len(s) :
              /\ j < i => Touch(s, i)[j] = s[j]
              /\ i <= j /\ j < Len(s) => Touch(s, i)[j] = s[j + 1]
         /\ Touch(s, i)[Len(s)] = s[i]
<1> DEFINE t == Touch(s, i)
           n == Len(s)
           a == SubSeq(s, 1, i - 1)
           b == SubSeq(s, i + 1, n)
           c == a \o b
<1>1. n \in Nat /\ i \in 1 .. n /\ \A j \in 1 .. n : s[j] \in Entry
  OBVIOUS
<1>2. t \in Seq(Entry) /\ Len(t) = n
  BY Touched DEF Touch
<1>3. t = Append(c, s[i])
  BY DEF RemoveAt, Touch
<1> HIDE DEF n, t
<1>4. a \in Seq(Entry) /\ Len(a) = i - 1 /\ \A j \in 1 .. i - 1 : a[j] = s[j]
  <2>1. 1 \in Int /\ i - 1 \in Int /\ \A j \in 1 .. i - 1 : s[j] \in Entry
    BY <1>1
  <2>2. /\ a \in Seq(Entry)
        /\ Len(a) = IF 1 <= i - 1 THEN (i - 1) - 1 + 1 ELSE 0
        /\ \A j \in 1 .. (i - 1) - 1 + 1 : a[j] = s[1 + j - 1]
    BY <2>1, SubSeqProperties
  <2>3. (i - 1) - 1 + 1 = i - 1 /\ \A j \in 1 .. i - 1 : 1 + j - 1 = j
    BY <1>1
  <2> HIDE DEF a, b, c
  <2>4. Len(a) = i - 1
    BY <1>1, <2>2
  <2>5. ASSUME NEW j \in 1 .. i - 1 PROVE a[j] = s[j]
    <3>1. j \in 1 .. (i - 1) - 1 + 1 /\ 1 + j - 1 = j
      BY <1>1
    <3>2. a[j] = s[1 + j - 1]
      BY <2>2, <3>1, Zenon
    <3>3. QED
      BY <3>1, <3>2
  <2>6. QED
    BY <2>2, <2>4, <2>5
<1>5. b \in Seq(Entry) /\ Len(b) = n - i /\ \A j \in 1 .. n - i : b[j] = s[i + j]
  <2>1. i + 1 \in Int /\ n \in Int /\ \A j \in i + 1 .. n : s[j] \in Entry
    BY <1>1
  <2>2. /\ b \in Seq(Entry)
        /\ Len(b) = IF i + 1 <= n THEN n - (i + 1) + 1 ELSE 0
        /\ \A j \in 1 .. n - (i + 1) + 1 : b[j] = s[i + 1 + j - 1]
    BY <2>1, SubSeqProperties
  <2>3. n - (i + 1) + 1 = n - i /\ \A j \in 1 .. n - i : i + 1 + j - 1 = i + j
    BY <1>1
  <2> HIDE DEF b
  <2>4. QED
    BY <1>1, <2>2, <2>3
<1> HIDE DEF a, b
<1>6. /\ c \in Seq(Entry) /\ Len(c) = n - 1
      /\ \A j \in 1 .. n - 1 : c[j] = IF j < i THEN s[j] ELSE s[j + 1]
  <2>1. /\ c \in Seq(Entry) /\ Len(c) = Len(a) + Len(b)
        /\ \A j \in 1 .. Len(a) + Len(b) :
             c[j] = IF j <= Len(a) THEN a[j] ELSE b[j - Len(a)]
    <3>1. a \in Seq(Entry) /\ b \in Seq(Entry)
      BY <1>4, <1>5
    <3>2. QED
      BY <3>1, ConcatProperties, Zenon
  <2>2. Len(a) + Len(b) = n - 1
    BY <1>1, <1>4, <1>5
  <2> HIDE DEF c
  <2>3. ASSUME NEW j \in 1 .. n - 1 PROVE c[j] = IF j < i THEN s[j] ELSE s[j + 1]
    <3>1. CASE j < i
      <4>1. j <= Len(a) /\ j \in 1 .. i - 1
        BY <1>1, <1>4, <3>1
      <4>2. QED
        BY <1>4, <2>1, <2>2, <3>1, <4>1
    <3>2. CASE ~ (j < i)
      <4> DEFINE k == j - (i - 1)
      <4>1. ~ (j <= i - 1) /\ k \in 1 .. n - i /\ i + k = j + 1
        BY <1>1, <3>2
      <4> HIDE DEF k
      <4>2. c[j] = b[k]
        BY <1>4, <2>1, <2>2, <4>1 DEF k
      <4>3. QED
        BY <1>5, <3>2, <4>1, <4>2
    <3>3. QED
      BY <3>1, <3>2
  <2>4. QED
    BY <2>1, <2>2, <2>3
<1> HIDE DEF c
<1>7. ASSUME NEW j \in 1 .. n
      PROVE  /\ j < i => t[j] = s[j]
             /\ i <= j /\ j < n => t[j] = s[j + 1]
             /\ j = n => t[j] = s[i]
  <2>1. CASE j < n
    <3>1. j \in 1 .. n - 1
      BY <1>1, <2>1
    <3>2. t[j] = c[j]
      BY <1>1, <1>3, <1>6, <3>1
    <3>3. QED
      BY <1>6, <2>1, <3>1, <3>2
  <2>2. CASE ~ (j < n)
    <3>1. j = n /\ ~ (j < i)
      BY <1>1, <2>2
    <3>2. t[n] = s[i]
      BY <1>1, <1>3, <1>6
    <3>3. QED
      BY <2>2, <3>1, <3>2
  <2>3. QED
    BY <2>1, <2>2
<1>8. t[n] = s[i]
  <2>1. n \in 1 .. n
    BY <1>1
  <2>2. QED
    BY <1>7, <2>1
<1>9. QED
  BY <1>2, <1>7, <1>8 DEF n, t

\* Making an entry of this batch the most recent keeps the order of the cache
\* and loses none.
LEMMA TouchedOrder ==
  ASSUME NEW s \in Seq(Entry), NEW w, NEW k \in Nat, InOrder(s, w, k),
         NEW i \in 1 .. Len(s), s[i].id[1] = k
  PROVE  /\ Touch(s, i) \in Seq(Entry) /\ InOrder(Touch(s, i), w, k)
         /\ \A l \in 1 .. Len(s) :
              \E j \in 1 .. Len(Touch(s, i)) : Touch(s, i)[j] = s[l]
<1> DEFINE t == Touch(s, i)
           n == Len(s)
           from == [j \in 1 .. n |-> IF j < i THEN j ELSE IF j < n THEN j + 1 ELSE i]
<1>1. n \in Nat /\ i \in 1 .. n
  OBVIOUS
<1>2. t \in Seq(Entry) /\ Len(t) = n /\ \A j \in 1 .. n : t[j] = s[from[j]]
  <2>1. /\ t \in Seq(Entry) /\ Len(t) = n
        /\ \A j \in 1 .. n : /\ j < i => t[j] = s[j]
                             /\ i <= j /\ j < n => t[j] = s[j + 1]
        /\ t[n] = s[i]
    BY TouchedEntries
  <2> HIDE DEF n, t
  <2>2. QED
    BY <1>1, <2>1
<1>3. /\ \A l, j \in 1 .. n : s[l].id = s[j].id => l = j
      /\ \A j \in 1 .. n : s[j].id[1] <= k /\ WorkerOf[s[j].id[2]] = w
      /\ \A l, j \in 1 .. n : l < j /\ s[l].id[1] = k => s[j].id[1] = k
  BY DEF InOrder
<1> HIDE DEF n, t
<1>4. /\ \A j \in 1 .. n : from[j] \in 1 .. n
      /\ \A l, j \in 1 .. n : from[l] = from[j] => l = j
      /\ \A l, j \in 1 .. n : l < j /\ j # n => from[l] < from[j]
      /\ from[n] = i
  BY <1>1
<1>5. \A l \in 1 .. n : \E j \in 1 .. n : from[j] = l
  <2> SUFFICES ASSUME NEW l \in 1 .. n PROVE \E j \in 1 .. n : from[j] = l
    OBVIOUS
  <2>1. CASE l < i
    <3>1. from[l] = l
      BY <2>1
    <3>2. QED
      BY <3>1
  <2>2. CASE l = i
    <3>1. n \in 1 .. n /\ from[n] = l
      BY <1>1, <1>4, <2>2
    <3>2. QED
      BY <3>1
  <2>3. CASE l > i
    <3>1. l - 1 \in 1 .. n /\ from[l - 1] = l
      BY <1>1, <2>3
    <3>2. QED
      BY <3>1
  <2>4. QED
    BY <1>1, <2>1, <2>2, <2>3
<1> HIDE DEF from
<1>6. ASSUME NEW l \in 1 .. n, NEW j \in 1 .. n, t[l].id = t[j].id
      PROVE  l = j
  <2>1. s[from[l]].id = s[from[j]].id /\ from[l] \in 1 .. n /\ from[j] \in 1 .. n
    BY <1>2, <1>4, <1>6
  <2>2. from[l] = from[j]
    BY <1>3, <2>1, Zenon
  <2>3. QED
    BY <1>4, <2>2
<1>7. ASSUME NEW j \in 1 .. n PROVE t[j].id[1] <= k /\ WorkerOf[t[j].id[2]] = w
  <2>1. t[j] = s[from[j]] /\ from[j] \in 1 .. n
    BY <1>2, <1>4
  <2>2. s[from[j]].id[1] <= k /\ WorkerOf[s[from[j]].id[2]] = w
    BY <1>3, <2>1, Zenon
  <2>3. QED
    BY <2>1, <2>2
<1>8. ASSUME NEW l \in 1 .. n, NEW j \in 1 .. n, l < j, t[l].id[1] = k
      PROVE  t[j].id[1] = k
  <2>1. CASE j = n
    BY <1>2, <1>4, <2>1
  <2>2. CASE j # n
    <3>1. /\ from[l] < from[j] /\ from[l] \in 1 .. n /\ from[j] \in 1 .. n
          /\ t[l] = s[from[l]] /\ t[j] = s[from[j]]
      BY <1>2, <1>4, <1>8, <2>2
    <3>2. s[from[l]].id[1] = k
      BY <1>8, <3>1
    <3>3. s[from[j]].id[1] = k
      BY <1>3, <3>1, <3>2, Zenon
    <3>4. QED
      BY <3>1, <3>3
  <2>3. QED
    BY <2>1, <2>2
<1>9. InOrder(t, w, k)
  BY <1>2, <1>6, <1>7, <1>8 DEF InOrder
<1>10. ASSUME NEW l \in 1 .. n PROVE \E j \in 1 .. n : t[j] = s[l]
  <2>1. PICK j \in 1 .. n : from[j] = l
    BY <1>5
  <2>2. QED
    BY <1>2, <2>1
<1>11. QED
  BY <1>2, <1>9, <1>10 DEF n, t

\* When there is no room for a new row of the chunk, the oldest entry is from an
\* earlier batch: the chunk alone fits the cache.
LEMMA OldestIsStale ==
  ASSUME NEW s \in Seq(Entry), NEW w \in Workers, NEW k \in Nat, InOrder(s, w, k),
         Len(s) >= CacheSize, NEW r \in Chunk(w),
         \A i \in 1 .. Len(s) : s[i].id # <<k, r>>
  PROVE  Len(s) # 0 /\ s[1].id[1] # k
<1> DEFINE n == Len(s)
           C == Chunk(w) \ {r}
           row == [i \in 1 .. n |-> s[i].id[2]]
<1>1. n \in Nat /\ n # 0 /\ n >= CacheSize
  OBVIOUS
<1>2. SUFFICES ASSUME s[1].id[1] = k PROVE FALSE
  BY <1>1
<1>3. /\ \A i, j \in 1 .. n : s[i].id = s[j].id => i = j
      /\ \A i \in 1 .. n : s[i].id[1] <= k /\ WorkerOf[s[i].id[2]] = w
      /\ \A i, j \in 1 .. n : i < j /\ s[i].id[1] = k => s[j].id[1] = k
      /\ \A i \in 1 .. n : s[i] \in Entry /\ s[i].id # <<k, r>>
  BY DEF InOrder
<1> HIDE DEF n
<1>4. \A i \in 1 .. n : s[i].id[1] = k
  <2>1. \A i \in 1 .. n : i = 1 \/ 1 < i
    BY <1>1
  <2>2. 1 \in 1 .. n
    BY <1>1
  <2>3. QED
    BY <1>2, <1>3, <2>1, <2>2
<1>5. \A i \in 1 .. n : s[i].id = <<k, row[i]>> /\ row[i] \in Requests
  BY <1>3, <1>4 DEF Entry
<1>6. \A i \in 1 .. n : row[i] \in C
  BY <1>3, <1>5 DEF Chunk
<1>7. \A i, j \in 1 .. n : row[i] = row[j] => i = j
  BY <1>3, <1>5, SMTT(60)
<1>8. row \in [1 .. n -> C]
  BY <1>6
<1> HIDE DEF row, C
<1>9. row \in Injection(1 .. n, C)
  BY <1>7, <1>8, Zenon DEF Injection, IsInjective
<1>10. IsFiniteSet(Chunk(w)) /\ Cardinality(Chunk(w)) <= CacheSize
  <2>1. Chunk(w) \subseteq Requests
    BY DEF Chunk
  <2>2. QED
    BY <2>1, FS_Subset
<1>11. /\ IsFiniteSet(C) /\ Cardinality(C) \in Nat /\ Cardinality(Chunk(w)) \in Nat
       /\ Cardinality(C) < Cardinality(Chunk(w))
  BY <1>10, SmallerSet DEF C
<1>12. Cardinality(1 .. n) <= Cardinality(C) /\ Cardinality(1 .. n) = n
  BY <1>1, <1>9, <1>11, FS_Injection, FirstNumbers
<1>13. QED
  BY <1>1, <1>10, <1>11, <1>12

\* A new entry keeps the order of the cache, and only an entry of an earlier
\* batch goes for it.
LEMMA AddedOrder ==
  ASSUME NEW s \in Seq(Entry), NEW w \in Workers, NEW k \in Nat, NEW r \in Chunk(w),
         NEW e \in Entry, e.id = <<k, r>>,
         InOrder(s, w, k), \A i \in 1 .. Len(s) : s[i].id # e.id
  PROVE  /\ Add(s, e) \in Seq(Entry) /\ InOrder(Add(s, e), w, k)
         /\ \A l \in 1 .. Len(s) :
              s[l].id[1] = k => \E j \in 1 .. Len(Add(s, e)) : Add(s, e)[j] = s[l]
         /\ \E j \in 1 .. Len(Add(s, e)) : Add(s, e)[j] = e
<1> DEFINE t == Add(s, e)
           n == Len(s)
           kept == Evicted(s)
           m == Len(kept)
           d == n - m
<1>1. n \in Nat
  OBVIOUS
<1>2. /\ kept \in Seq(Entry) /\ m \in Nat /\ d \in {0, 1}
      /\ \A j \in 1 .. m : kept[j] = s[j + d]
      /\ d = 1 => s[1].id[1] # k /\ n # 0
  <2>1. CASE Len(s) >= CacheSize
    <3>1. n # 0 /\ s[1].id[1] # k
      BY <2>1, OldestIsStale
    <3>2. kept = Tail(s) /\ s # <<>>
      BY <2>1, <3>1, EmptySeq DEF Evicted
    <3>3. /\ Tail(s) \in Seq(Entry) /\ Len(Tail(s)) = n - 1
          /\ \A j \in 1 .. Len(Tail(s)) : Tail(s)[j] = s[j + 1]
      BY <3>2, HeadTailProperties
    <3> HIDE DEF n
    <3>4. m = n - 1 /\ d = 1
      BY <1>1, <3>2, <3>3
    <3>5. QED
      BY <1>1, <3>1, <3>2, <3>3, <3>4
  <2>2. CASE ~ (Len(s) >= CacheSize)
    <3>1. kept = s
      BY <2>2 DEF Evicted
    <3>2. d = 0 /\ m = n
      BY <1>1, <3>1
    <3>3. \A j \in 1 .. m : j + d = j
      BY <1>1, <3>2
    <3>4. QED
      BY <1>1, <3>1, <3>2, <3>3
  <2>3. QED
    BY <2>1, <2>2
<1>3. t \in Seq(Entry) /\ Len(t) = m + 1 /\ t[m + 1] = e /\ \A j \in 1 .. m : t[j] = kept[j]
  <2> HIDE DEF kept
  <2>1. t = Append(kept, e)
    BY DEF kept, Add
  <2> HIDE DEF t
  <2>2. QED
    BY <1>2, <2>1
<1>4. /\ \A i, j \in 1 .. n : s[i].id = s[j].id => i = j
      /\ \A i \in 1 .. n : s[i].id[1] <= k /\ WorkerOf[s[i].id[2]] = w
      /\ \A i, j \in 1 .. n : i < j /\ s[i].id[1] = k => s[j].id[1] = k
      /\ \A i \in 1 .. n : s[i].id # <<k, r>>
  BY DEF InOrder
<1>5. m = n - d /\ \A j \in 1 .. m : j + d \in 1 .. n
  BY <1>1, <1>2
<1> HIDE DEF n, m, d, kept, t
<1>6. \A j \in 1 .. m : t[j] = s[j + d]
  BY <1>2, <1>3
<1>7. \A j \in 1 .. m + 1 : j \in 1 .. m \/ j = m + 1
  BY <1>2
<1>8. e.id[1] = k /\ WorkerOf[e.id[2]] = w
  BY DEF Chunk
<1>9. ASSUME NEW i \in 1 .. m + 1, NEW j \in 1 .. m + 1, t[i].id = t[j].id
      PROVE  i = j
  <2>1. CASE i \in 1 .. m /\ j \in 1 .. m
    <3>1. /\ s[i + d].id = s[j + d].id /\ i + d \in 1 .. n /\ j + d \in 1 .. n
      BY <1>5, <1>6, <1>9, <2>1
    <3>2. i + d = j + d
      BY <1>4, <3>1, Zenon
    <3>3. QED
      BY <1>2, <2>1, <3>2
  <2>2. CASE i \in 1 .. m /\ j = m + 1
    <3>1. s[i + d].id = <<k, r>> /\ i + d \in 1 .. n
      BY <1>3, <1>5, <1>6, <1>9, <2>2
    <3>2. QED
      BY <1>4, <3>1, Zenon
  <2>3. CASE i = m + 1 /\ j \in 1 .. m
    <3>1. s[j + d].id = <<k, r>> /\ j + d \in 1 .. n
      BY <1>3, <1>5, <1>6, <1>9, <2>3
    <3>2. QED
      BY <1>4, <3>1, Zenon
  <2>4. QED
    BY <1>7, <2>1, <2>2, <2>3
<1>10. \A j \in 1 .. m + 1 : t[j].id[1] <= k /\ WorkerOf[t[j].id[2]] = w
  BY <1>3, <1>4, <1>5, <1>6, <1>7, <1>8
<1>11. ASSUME NEW i \in 1 .. m + 1, NEW j \in 1 .. m + 1, i < j, t[i].id[1] = k
       PROVE  t[j].id[1] = k
  <2>1. CASE i \in 1 .. m /\ j \in 1 .. m
    <3>1. i + d < j + d
      BY <1>2, <1>11, <2>1
    <3>2. s[i + d].id[1] = k /\ i + d \in 1 .. n /\ j + d \in 1 .. n
      BY <1>5, <1>6, <1>11, <2>1
    <3>3. s[j + d].id[1] = k
      BY <1>4, <3>1, <3>2, Zenon
    <3>4. QED
      BY <1>6, <2>1, <3>3
  <2>2. CASE j = m + 1
    BY <1>3, <1>8, <2>2
  <2>3. CASE i = m + 1 /\ j \in 1 .. m
    BY <1>2, <1>11, <2>3
  <2>4. QED
    BY <1>7, <2>1, <2>2, <2>3
<1>12. InOrder(t, w, k)
  BY <1>3, <1>9, <1>10, <1>11 DEF InOrder
<1>13. ASSUME NEW l \in 1 .. n, s[l].id[1] = k
       PROVE  \E j \in 1 .. m + 1 : t[j] = s[l]
  <2>1. l - d \in 1 .. m /\ (l - d) + d = l
    <3>1. d = 1 => l # 1
      BY <1>2, <1>13
    <3>2. QED
      BY <1>1, <1>2, <1>5, <3>1
  <2>2. l - d \in 1 .. m + 1
    BY <1>2, <2>1
  <2>3. QED
    BY <1>6, <2>1, <2>2
<1>14. m + 1 \in 1 .. m + 1
  BY <1>2
<1>15. QED
  BY <1>3, <1>12, <1>13, <1>14 DEF n, t

\* A step of an agent loop that asks _choose_server keeps the caches in order
\* and remembers where every request of the batch went.
LEMMA ChoiceIsRemembered ==
  ASSUME TypeOK, SessionOrder, NEW r \in Requests, Generate(r)
  PROVE  SessionOrder'
<1> DEFINE w == WorkerOf[r]
           s == recent[w]
<1>1. /\ w \in Workers /\ r \in Chunk(w) /\ round \in Nat
      /\ recent \in [Workers -> Seq(Entry)]
      /\ visited \in [Requests -> SUBSET Servers]
      /\ at \in [Requests -> Servers \cup {NoServer}]
      /\ Id(r) \in (0 .. MaxRounds) \X Requests
      /\ Id(r) = <<round, r>>
      /\ \A q \in Requests : WorkerOf[q] \in Workers
  <2>1. w \in Workers /\ r \in Chunk(w) /\ \A q \in Requests : WorkerOf[q] \in Workers
    BY DEF Chunk
  <2>2. /\ round \in Nat /\ round \in 0 .. MaxRounds
        /\ visited \in [Requests -> SUBSET Servers]
        /\ at \in [Requests -> Servers \cup {NoServer}]
    BY DEF TypeOK
  <2>3. recent \in [Workers -> Seq(Entry)]
    BY DEF TypeOK, Entry
  <2>4. Id(r) \in (0 .. MaxRounds) \X Requests /\ Id(r) = <<round, r>>
    BY <2>2 DEF Id
  <2>5. QED
    BY <2>1, <2>2, <2>3, <2>4
<1>2. /\ round' = round
      /\ visited' = [visited EXCEPT ![r] = @ \cup {at'[r]}]
  BY DEF Generate
<1>3. /\ \A v \in Workers : InOrder(recent[v], v, round)
      /\ \A q \in Requests : Remembered(q)
  BY DEF SessionOrder
<1>4. s \in Seq(Entry) /\ InOrder(s, w, round)
  BY <1>1, <1>3
<1> HIDE DEF w
<1> DEFINE Shown(t) ==
             /\ t \in Seq(Entry) /\ InOrder(t, w, round)
             /\ \A l \in 1 .. Len(s) :
                  s[l].id[1] = round => \E j \in 1 .. Len(t) : t[j] = s[l]
             /\ recent' = [recent EXCEPT ![w] = t]
             /\ \E j \in 1 .. Len(t) : /\ t[j].id = Id(r) /\ t[j].server = at'[r]
                                       /\ visited[r] \subseteq {t[j].server}
<1>5. ASSUME NEW t, Shown(t) PROVE SessionOrder'
  <2>1. recent'[w] = t /\ \A v \in Workers : v # w => recent'[v] = recent[v]
    BY <1>1, <1>5
  <2>2. \A v \in Workers : InOrder(recent'[v], v, round')
    BY <1>2, <1>3, <1>5, <2>1
  <2>3. ASSUME NEW q \in Requests, visited'[q] # {}
        PROVE  \E i \in 1 .. Len(recent'[WorkerOf[q]]) :
                 /\ recent'[WorkerOf[q]][i].id = Id(q)'
                 /\ visited'[q] = {recent'[WorkerOf[q]][i].server}
    <3>1. Id(q)' = <<round, q>>
      BY <1>2 DEF Id
    <3>2. CASE q = r
      <4>1. visited'[r] = visited[r] \cup {at'[r]}
        BY <1>1, <1>2
      <4>2. PICK j \in 1 .. Len(t) : /\ t[j].id = Id(r) /\ t[j].server = at'[r]
                                     /\ visited[r] \subseteq {t[j].server}
        BY <1>5
      <4>3. visited'[r] = {t[j].server}
        BY <4>1, <4>2
      <4>4. QED
        BY <1>1, <2>1, <3>1, <3>2, <4>2, <4>3 DEF w
    <3>3. CASE q # r
      <4>1. visited'[q] = visited[q] /\ visited[q] # {}
        BY <1>1, <1>2, <2>3, <3>3
      <4> DEFINE v == WorkerOf[q]
      <4>2. PICK i \in 1 .. Len(recent[v]) :
              recent[v][i].id = <<round, q>> /\ visited[q] = {recent[v][i].server}
        BY <1>3, <4>1 DEF Remembered, Known, Id
      <4>3. v \in Workers
        BY <1>1
      <4> HIDE DEF v
      <4>4. CASE v = w
        <5>1. s[i].id[1] = round /\ i \in 1 .. Len(s)
          BY <4>2, <4>4
        <5>2. PICK j \in 1 .. Len(t) : t[j] = s[i]
          BY <1>5, <5>1
        <5>3. t[j].id = <<round, q>> /\ visited'[q] = {t[j].server}
          BY <4>1, <4>2, <4>4, <5>2
        <5>4. recent'[v] = t
          BY <2>1, <4>4
        <5>5. QED
          BY <3>1, <5>3, <5>4 DEF v
      <4>5. CASE v # w
        <5>1. recent'[v] = recent[v]
          BY <2>1, <4>3, <4>5
        <5>2. QED
          BY <3>1, <4>1, <4>2, <5>1 DEF v
      <4>6. QED
        BY <4>4, <4>5
    <3>4. QED
      BY <3>2, <3>3
  <2>4. \A q \in Requests : Remembered(q)'
    BY <2>3 DEF Remembered, Known
  <2>5. QED
    BY <2>2, <2>4 DEF SessionOrder
<1>6. CASE Revisit(r)
  <2>1. PICK i \in Known(w, Id(r)) :
          /\ recent' = [recent EXCEPT ![w] = Append(RemoveAt(@, i), @[i])]
          /\ at' = [at EXCEPT ![r] = recent[w][i].server]
    BY <1>6 DEF Revisit, w
  <2>2. i \in 1 .. Len(s) /\ s[i].id = Id(r)
    BY DEF Known
  <2> DEFINE t == Touch(s, i)
  <2>3. recent' = [recent EXCEPT ![w] = t]
    BY <2>1 DEF Touch
  <2>4. s[i].id[1] = round
    BY <1>1, <2>2
  <2>5. /\ t \in Seq(Entry) /\ InOrder(t, w, round)
        /\ \A l \in 1 .. Len(s) : \E j \in 1 .. Len(t) : t[j] = s[l]
    BY <1>1, <1>4, <2>2, <2>4, TouchedOrder
  <2>6. visited[r] \subseteq {s[i].server}
    <3>1. SUFFICES ASSUME visited[r] # {} PROVE visited[r] = {s[i].server}
      OBVIOUS
    <3>2. PICK k \in Known(w, Id(r)) : visited[r] = {s[k].server}
      BY <1>3, <3>1 DEF Remembered, w
    <3>3. k = i
      BY <1>4, <2>2, Zenon DEF Known, InOrder
    <3>4. QED
      BY <3>2, <3>3
  <2>7. at'[r] = s[i].server
    BY <1>1, <2>1
  <2>8. PICK j \in 1 .. Len(t) : t[j] = s[i]
    BY <2>2, <2>5
  <2> HIDE DEF t
  <2>9. t[j].id = Id(r) /\ t[j].server = at'[r] /\ visited[r] \subseteq {t[j].server}
    BY <2>2, <2>6, <2>7, <2>8
  <2>10. Shown(t)
    BY <2>3, <2>5, <2>9
  <2>11. QED
    BY <1>5, <2>10
<1>7. CASE Assign(r)
  <2>1. PICK x \in Least(w) :
          /\ recent' = [recent EXCEPT
               ![w] = Append(Evicted(@), [id |-> Id(r), server |-> x])]
          /\ at' = [at EXCEPT ![r] = x]
    BY <1>7 DEF Assign, w
  <2>2. x \in Servers /\ Known(w, Id(r)) = {}
    BY <1>7 DEF Least, Assign, w
  <2> DEFINE e == [id |-> Id(r), server |-> x]
             t == Add(s, e)
  <2>3. e \in Entry /\ e.id = <<round, r>> /\ e.server = x
    BY <1>1, <2>2 DEF Entry
  <2>4. \A i \in 1 .. Len(s) : s[i].id # <<round, r>>
    BY <1>1, <2>2 DEF Known
  <2>5. recent' = [recent EXCEPT ![w] = t]
    BY <2>1 DEF Add
  <2> HIDE DEF e
  <2>6. /\ t \in Seq(Entry) /\ InOrder(t, w, round)
        /\ \A l \in 1 .. Len(s) :
             s[l].id[1] = round => \E j \in 1 .. Len(t) : t[j] = s[l]
        /\ \E j \in 1 .. Len(t) : t[j] = e
    <3>1. w \in Workers /\ r \in Chunk(w) /\ round \in Nat
      BY <1>1
    <3> HIDE DEF s, Shown
    <3> HIDE DEF t
    <3>2. \A i \in 1 .. Len(s) : s[i].id # e.id
      BY <2>3, <2>4
    <3>3. QED
      BY <1>4, <2>3, <3>1, <3>2, AddedOrder, SMTT(30) DEF t
  <2> HIDE DEF t
  <2>7. visited[r] = {}
    BY <1>3, <2>2 DEF Remembered, w
  <2>8. at'[r] = x
    BY <1>1, <2>1
  <2>9. \E j \in 1 .. Len(t) : /\ t[j].id = Id(r) /\ t[j].server = at'[r]
                               /\ visited[r] \subseteq {t[j].server}
    BY <1>1, <2>3, <2>6, <2>7, <2>8
  <2>10. Shown(t)
    BY <2>5, <2>6, <2>9
  <2>11. QED
    BY <1>5, <2>10
<1>8. QED
  BY <1>6, <1>7 DEF Generate

\* A new batch starts with fresh ids: the entries of the batches before are all
\* older, and no request has gone anywhere yet.
LEMMA BatchStartsInOrder ==
  ASSUME TypeOK, SessionOrder, GenerateSequences
  PROVE  SessionOrder'
<1>1. /\ round' = round + 1 /\ recent' = recent /\ round \in Nat
      /\ visited' = [r \in Requests |-> {}]
  BY DEF GenerateSequences, TypeOK, sessions
<1>2. ASSUME NEW w \in Workers PROVE InOrder(recent[w], w, round + 1)
  <2> DEFINE s == recent[w]
  <2>1. s \in Seq(Entry)
    BY DEF TypeOK, Entry
  <2>2. /\ \A i, j \in 1 .. Len(s) : s[i].id = s[j].id => i = j
        /\ \A i \in 1 .. Len(s) : s[i].id[1] <= round /\ WorkerOf[s[i].id[2]] = w
    BY DEF SessionOrder, InOrder
  <2>3. \A i \in 1 .. Len(s) : s[i] \in Entry
    BY <2>1
  <2> HIDE DEF s
  <2>4. \A i \in 1 .. Len(s) : s[i].id[1] \in Nat
    BY <2>3 DEF Entry
  <2>5. \A i \in 1 .. Len(s) : s[i].id[1] <= round + 1 /\ s[i].id[1] # round + 1
    BY <1>1, <2>2, <2>4
  <2>6. InOrder(s, w, round + 1)
    BY <2>2, <2>5 DEF InOrder
  <2>7. QED
    BY <2>6 DEF s
<1>3. \A w \in Workers : InOrder(recent'[w], w, round')
  BY <1>1, <1>2
<1>4. \A r \in Requests : Remembered(r)'
  BY <1>1 DEF Remembered
<1>5. QED
  BY <1>3, <1>4 DEF SessionOrder

\* The caches are in order, and remember every request of the batch, in every
\* reachable state.
LEMMA SessionInvariant == Spec => []SessionOrder
<1>1. Init => SessionOrder
  <2> SUFFICES ASSUME Init PROVE SessionOrder
    OBVIOUS
  <2>1. \A w \in Workers : recent[w] = <<>>
    BY DEF Init
  <2>2. Len(<<>>) = 0 /\ 1 .. 0 = {}
    BY EmptySeq
  <2>3. \A w \in Workers : InOrder(recent[w], w, round)
    BY <2>1, <2>2 DEF InOrder
  <2>4. \A r \in Requests : Remembered(r)
    BY DEF Init, Remembered
  <2>5. QED
    BY <2>3, <2>4 DEF SessionOrder
<1>2. TypeOK /\ SessionOrder /\ [Next]_vars => SessionOrder'
  <2> SUFFICES ASSUME TypeOK, SessionOrder, [Next]_vars PROVE SessionOrder'
    OBVIOUS
  <2>1. ASSUME UNCHANGED <<round, recent, visited>> PROVE SessionOrder'
    <3>1. \A w \in Workers : InOrder(recent'[w], w, round')
      BY <2>1 DEF SessionOrder
    <3>2. \A r \in Requests : Remembered(r)'
      BY <2>1 DEF SessionOrder, Remembered, Known, Id
    <3>3. QED
      BY <3>1, <3>2 DEF SessionOrder
  <2>2. CASE UNCHANGED vars
    BY <2>1, <2>2 DEF vars, sessions, loops
  <2>3. CASE GenerateSequences
    BY <2>3, BatchStartsInOrder
  <2>4. CASE Train \/ Awake \/ Collect \/ Asleep \/ Raise \/ Over
    BY <2>1, <2>4 DEF Train, Awake, Collect, Asleep, Raise, Over, vars, sessions, loops
  <2>5. ASSUME NEW x \in Servers, WakeUp(x) \/ UpdateParams(x) \/ Sleep(x)
        PROVE  SessionOrder'
    BY <2>1, <2>5 DEF WakeUp, UpdateParams, Sleep, sessions, loops
  <2>6. ASSUME NEW r \in Requests, Generate(r) PROVE SessionOrder'
    BY <2>6, ChoiceIsRemembered
  <2>7. ASSUME NEW r \in Requests, Answer(r) \/ ToolsAnswer(r) \/ LoopRaises(r)
        PROVE  SessionOrder'
    BY <2>1, <2>7 DEF Answer, ToolsAnswer, LoopRaises, sessions
  <2>8. QED
    BY <2>2, <2>3, <2>4, <2>5, <2>6, <2>7 DEF Next, Rollout
<1>3. QED
  BY <1>1, <1>2, Typing, PTL DEF Spec

\* All turns of a request go to one server, whatever the other coroutines and the
\* batches before have done to the cache of sessions.
THEOREM SessionsStick == Spec => []Sticky
<1>1. TypeOK /\ SessionOrder => Sticky
  <2> SUFFICES ASSUME TypeOK, SessionOrder, NEW r \in Requests
               PROVE  Cardinality(visited[r]) <= 1
    BY DEF Sticky
  <2>1. CASE visited[r] = {}
    BY <2>1, FS_EmptySet
  <2>2. CASE visited[r] # {}
    <3>1. PICK i : visited[r] = {recent[WorkerOf[r]][i].server}
      BY <2>2 DEF SessionOrder, Remembered
    <3> DEFINE v == recent[WorkerOf[r]][i].server
    <3>2. Cardinality({v}) = 1
      BY FS_Singleton
    <3> HIDE DEF v
    <3>3. QED
      BY <3>1, <3>2 DEF v
  <2>3. QED
    BY <2>1, <2>2
<1>2. QED
  BY <1>1, Typing, SessionInvariant, PTL

------------------------------------------------------------------------------
(* Load balance.                                                           *)

\* The least loaded server gets the next session, so that the counts of a worker
\* stay even in every reachable state.
LEMMA LoadInvariant == Spec => []LoadEven
<1>1. Init => LoadEven
  BY DEF Init, LoadEven
<1>2. TypeOK /\ LoadEven /\ [Next]_vars => LoadEven'
  <2> SUFFICES ASSUME TypeOK, LoadEven, [Next]_vars PROVE LoadEven'
    OBVIOUS
  <2>1. ASSUME load' = load PROVE LoadEven'
    BY <2>1 DEF LoadEven
  <2>2. CASE UNCHANGED vars
    BY <2>1, <2>2 DEF vars, sessions
  <2>3. CASE Train \/ GenerateSequences \/ Awake \/ Collect \/ Asleep \/ Raise \/ Over
    BY <2>1, <2>3 DEF Train, GenerateSequences, Awake, Collect, Asleep, Raise, Over,
      vars, sessions
  <2>4. ASSUME NEW x \in Servers, WakeUp(x) \/ UpdateParams(x) \/ Sleep(x)
        PROVE  LoadEven'
    BY <2>1, <2>4 DEF WakeUp, UpdateParams, Sleep, sessions
  <2>5. ASSUME NEW r \in Requests, Generate(r) PROVE LoadEven'
    <3>1. CASE Revisit(r)
      BY <2>1, <3>1 DEF Revisit
    <3>2. CASE Assign(r)
      <4> DEFINE w == WorkerOf[r]
      <4>1. PICK x \in Least(w) : load' = [load EXCEPT ![w][x] = @ + 1]
        BY <3>2 DEF Assign
      <4>2. w \in Workers /\ load \in [Workers -> [Servers -> Nat]]
        BY DEF TypeOK
      <4> HIDE DEF w
      <4>3. x \in Servers /\ \A t \in Servers : load[w][x] <= load[w][t]
        BY <4>1 DEF Least
      <4>4. /\ \A v \in Workers : v # w => load'[v] = load[v]
            /\ \A s \in Servers :
                 load'[w][s] = IF s = x THEN load[w][x] + 1 ELSE load[w][s]
        BY <4>1, <4>2, <4>3
      <4>5. \A s \in Servers : load[w][s] \in Nat
        BY <4>2
      <4>6. \A s, t \in Servers : load'[w][s] <= load'[w][t] + 1
        BY <4>2, <4>3, <4>4, <4>5 DEF LoadEven
      <4>7. QED
        BY <4>4, <4>6 DEF LoadEven
    <3>3. QED
      BY <2>5, <3>1, <3>2 DEF Generate
  <2>6. ASSUME NEW r \in Requests, Answer(r) \/ ToolsAnswer(r) \/ LoopRaises(r)
        PROVE  LoadEven'
    BY <2>1, <2>6 DEF Answer, ToolsAnswer, LoopRaises, sessions
  <2>7. QED
    BY <2>2, <2>3, <2>4, <2>5, <2>6 DEF Next, Rollout
<1>3. QED
  BY <1>1, <1>2, Typing, PTL DEF Spec

\* What the workers count for a server.
Counts(s) == [w \in Workers |-> load[w][s]]

\* The sessions of a server are the sum of what the workers count for it.
LEMMA SessionsSum ==
  ASSUME NEW s \in Servers
  PROVE  \E F : SumsUp(F, Counts(s), SUBSET Workers) /\ Sessions(s) = F[Workers]
<1> DEFINE Body(F) == [T \in SUBSET Workers |->
                         IF T = {} THEN 0 ELSE load[One(T)][s] + F[T \ {One(T)}]]
           G == CHOOSE F : F = Body(F)
<1>1. \A T \in SUBSET Workers : T # {} => One(T) \in Workers
  BY DEF One
<1>2. Sessions(s) = G[Workers]
  BY DEF Sessions, MapThenSumSet, MapThenFoldSet, One
<1>3. \A F : F = Body(F) <=> SumsUp(F, Counts(s), SUBSET Workers)
  <2> SUFFICES ASSUME NEW F PROVE F = Body(F) <=> SumsUp(F, Counts(s), SUBSET Workers)
    OBVIOUS
  <2>1. \A T \in SUBSET Workers : T # {} => Counts(s)[One(T)] = load[One(T)][s]
    BY <1>1 DEF Counts
  <2>2. Body(F) = [T \in SUBSET Workers |->
                     IF T = {} THEN 0 ELSE Counts(s)[One(T)] + F[T \ {One(T)}]]
    BY <2>1
  <2>3. QED
    BY <2>2 DEF SumsUp
<1>4. PICK F : F = Body(F)
  BY <1>3, SumsExist
<1> HIDE DEF Body
<1>5. G = Body(G)
  BY <1>4
<1> HIDE DEF G
<1>6. QED
  BY <1>2, <1>3, <1>5

\* Over all workers and any number of batches no server gets more than one
\* session per worker more than another.
THEOREM LoadIsBalanced == Spec => []Balanced
<1>1. TypeOK /\ LoadEven => Balanced
  <2> SUFFICES ASSUME TypeOK, LoadEven, NEW s \in Servers, NEW t \in Servers
               PROVE  Sessions(s) - Sessions(t) <= Cardinality(Workers)
    BY DEF Balanced
  <2>1. PICK F : SumsUp(F, Counts(s), SUBSET Workers) /\ Sessions(s) = F[Workers]
    BY SessionsSum
  <2>2. PICK G : SumsUp(G, Counts(t), SUBSET Workers) /\ Sessions(t) = G[Workers]
    BY SessionsSum
  <2>3. Counts(s) \in [Workers -> Int] /\ Counts(t) \in [Workers -> Int]
    BY DEF TypeOK, Counts
  <2>4. \A w \in Workers : Counts(s)[w] <= Counts(t)[w] + 1
    BY DEF LoadEven, Counts
  <2>5. /\ F[Workers] \in Int /\ G[Workers] \in Int
        /\ F[Workers] <= G[Workers] + Cardinality(Workers)
    BY <2>1, <2>2, <2>3, <2>4, SumsClose
  <2>6. Cardinality(Workers) \in Nat
    BY FS_CardinalityType
  <2>7. QED
    BY <2>1, <2>2, <2>5, <2>6
<1>2. QED
  BY <1>1, Typing, LoadInvariant, PTL

------------------------------------------------------------------------------
(* Why a call of generate_sequences comes to an end.                       *)

\* What each server still has to do for the call, ...
ServersLeft ==
  [s \in Servers |->
     IF manager = "waking"
       THEN IF engine[s] = "asleep" THEN 6 ELSE IF engine[s] = "loading" THEN 5 ELSE 4
     ELSE IF manager = "generating" THEN 3
     ELSE IF manager = "sleeping" THEN IF engine[s] = "asleep" THEN 1 ELSE 2
     ELSE 0]

\* ... each agent loop, three steps a turn, ...
LoopsLeft ==
  [r \in Requests |->
     IF loop[r] = "ready" THEN 3 * (MaxTurns - turns[r])
     ELSE IF loop[r] = "generating" THEN 3 * (MaxTurns - turns[r]) - 1
     ELSE IF loop[r] = "tools" THEN 3 * (MaxTurns - turns[r]) + 1
     ELSE 0]

\* ... and all of them.
CallLeft == SumOf(ServersLeft, Servers) + SumOf(LoopsLeft, Requests)

CallSteps == Rollout \/ \E r \in Requests : LoopRaises(r)

\* Weights are loaded, and batches have no loops yet, only in their time.
InTurn ==
  /\ \A s \in Servers : engine[s] = "loading" => manager = "waking"
  /\ manager # "fit" => \A r \in Requests : loop[r] # "idle"

\* While a call is going on, somebody has a step to take.
CallGoesOn ==
  /\ manager = "waking" =>
       \/ \E s \in Servers : engine[s] = "asleep"
       \/ \E s \in Servers : engine[s] = "loading" /\ \A t \in Servers : engine[t] # "asleep"
       \/ \A s \in Servers : engine[s] = "awake"
  /\ manager = "generating" =>
       \/ Collected
       \/ \E r \in Requests : loop[r] \in {"generating", "tools", "failed"}
       \/ \E r \in Requests :
            /\ loop[r] = "ready"
            /\ Known(WorkerOf[r], Id(r)) # {} \/ Least(WorkerOf[r]) # {}
  /\ manager = "sleeping" =>
       \/ \E s \in Servers : engine[s] = "awake"
       \/ \A s \in Servers : engine[s] = "asleep"

\* What is left is a number of steps, for a server and for a loop.
LEMMA WhatIsLeft ==
  ASSUME TypeOK
  PROVE  /\ \A s \in Servers : ServersLeft[s] \in Nat
         /\ \A r \in Requests : LoopsLeft[r] \in Nat
<1>1. \A s \in Servers : ServersLeft[s] \in Nat
  BY DEF ServersLeft
<1>2. ASSUME NEW r \in Requests PROVE LoopsLeft[r] \in Nat
  <2>1. turns[r] \in 0 .. MaxTurns /\ MaxTurns \in Nat
    BY DEF TypeOK
  <2>2. loop[r] \in {"ready", "generating", "tools"} => turns[r] < MaxTurns
    BY DEF TypeOK
  <2>3. QED
    BY <2>1, <2>2 DEF LoopsLeft
<1>3. QED
  BY <1>1, <1>2

\* When nobody has more left than before and somebody has less, the call has.
LEMMA LessIsLeft ==
  ASSUME TypeOK, TypeOK',
         \A s \in Servers : ServersLeft'[s] <= ServersLeft[s],
         \A r \in Requests : LoopsLeft'[r] <= LoopsLeft[r],
         \/ \E s \in Servers : ServersLeft'[s] < ServersLeft[s]
         \/ \E r \in Requests : LoopsLeft'[r] < LoopsLeft[r]
  PROVE  CallLeft' < CallLeft
<1>1. /\ \A s \in Servers : ServersLeft[s] \in Nat /\ ServersLeft'[s] \in Nat
      /\ \A r \in Requests : LoopsLeft[r] \in Nat /\ LoopsLeft'[r] \in Nat
  <2>1. \A s \in Servers : ServersLeft'[s] \in Nat
    BY DEF ServersLeft
  <2>2. ASSUME NEW r \in Requests PROVE LoopsLeft'[r] \in Nat
    <3>1. turns'[r] \in 0 .. MaxTurns /\ MaxTurns \in Nat
      BY DEF TypeOK
    <3>2. loop'[r] \in {"ready", "generating", "tools"} => turns'[r] < MaxTurns
      BY DEF TypeOK
    <3>3. QED
      BY <3>1, <3>2 DEF LoopsLeft
  <2>3. QED
    BY <2>1, <2>2, WhatIsLeft
<1> DEFINE a == ServersLeft
           b == LoopsLeft
           c == ServersLeft'
           d == LoopsLeft'
<1>2. /\ \A s \in Servers : a[s] \in Int /\ c[s] \in Int /\ c[s] <= a[s]
      /\ \A r \in Requests : b[r] \in Int /\ d[r] \in Int /\ d[r] <= b[r]
      /\ (\E s \in Servers : c[s] < a[s]) \/ (\E r \in Requests : d[r] < b[r])
  BY <1>1
<1>3. CallLeft = SumOf(a, Servers) + SumOf(b, Requests)
  BY DEF CallLeft
<1>4. CallLeft' = SumOf(c, Servers) + SumOf(d, Requests)
  BY DEF CallLeft, SumOf, SumsUp
<1> HIDE DEF a, b, c, d
<1>5. /\ SumOf(c, Servers) \in Int /\ SumOf(a, Servers) \in Int
      /\ SumOf(c, Servers) <= SumOf(a, Servers)
      /\ (\E s \in Servers : c[s] < a[s]) => SumOf(c, Servers) < SumOf(a, Servers)
  BY <1>2, SumsOrdered
<1>6. /\ SumOf(d, Requests) \in Int /\ SumOf(b, Requests) \in Int
      /\ SumOf(d, Requests) <= SumOf(b, Requests)
      /\ (\E r \in Requests : d[r] < b[r]) => SumOf(d, Requests) < SumOf(b, Requests)
  BY <1>2, SumsOrdered
<1>7. QED
  BY <1>2, <1>3, <1>4, <1>5, <1>6

\* A step of the manager or of a server gets the call further.
LEMMA ManagerGetsOn ==
  ASSUME TypeOK, InTurn,
         \/ Awake \/ Collect \/ Asleep \/ Raise
         \/ \E s \in Servers : WakeUp(s) \/ UpdateParams(s) \/ Sleep(s)
  PROVE  /\ \A s \in Servers : ServersLeft'[s] <= ServersLeft[s]
         /\ \E s \in Servers : ServersLeft'[s] < ServersLeft[s]
         /\ \A r \in Requests : LoopsLeft'[r] <= LoopsLeft[r]
<1>1. LoopsLeft' = LoopsLeft
  BY DEF LoopsLeft, Awake, Collect, Asleep, Raise, WakeUp, UpdateParams, Sleep, loops
<1>2. \A r \in Requests : LoopsLeft'[r] <= LoopsLeft[r]
  BY <1>1, WhatIsLeft
<1>3. PICK x : x \in Servers
  OBVIOUS
<1>4. CASE Awake \/ Collect \/ Asleep \/ Raise
  <2>1. \A s \in Servers : ServersLeft'[s] < ServersLeft[s]
    BY <1>4 DEF ServersLeft, Awake, Collect, Asleep, Raise, servers
  <2>2. \A s \in Servers : ServersLeft'[s] <= ServersLeft[s]
    BY <1>4 DEF ServersLeft, Awake, Collect, Asleep, Raise, servers
  <2>3. QED
    BY <1>2, <1>3, <2>1, <2>2
<1>5. ASSUME NEW s \in Servers, WakeUp(s) \/ UpdateParams(s) \/ Sleep(s)
      PROVE  /\ \A t \in Servers : ServersLeft'[t] <= ServersLeft[t]
             /\ ServersLeft'[s] < ServersLeft[s]
  <2>1. /\ engine[s] = "loading" => manager = "waking"
        /\ manager' = manager
        /\ \A t \in Servers : t # s => engine'[t] = engine[t]
    BY <1>5 DEF InTurn, TypeOK, WakeUp, UpdateParams, Sleep
  <2>2. \/ manager = "waking" /\ engine[s] = "asleep" /\ engine'[s] = "loading"
        \/ manager = "waking" /\ engine[s] = "loading" /\ engine'[s] = "awake"
        \/ manager = "sleeping" /\ engine[s] = "awake" /\ engine'[s] = "asleep"
    BY <1>5, <2>1 DEF TypeOK, WakeUp, UpdateParams, Sleep
  <2>3. QED
    BY <2>1, <2>2 DEF ServersLeft
<1>6. QED
  BY <1>2, <1>4, <1>5

\* So does a step of an agent loop: a turn that begins again is one less.
LEMMA LoopGetsOn ==
  ASSUME TypeOK, TypeOK', NEW r \in Requests,
         Generate(r) \/ Answer(r) \/ ToolsAnswer(r) \/ LoopRaises(r)
  PROVE  /\ \A s \in Servers : ServersLeft'[s] <= ServersLeft[s]
         /\ \A q \in Requests : LoopsLeft'[q] <= LoopsLeft[q]
         /\ LoopsLeft'[r] < LoopsLeft[r]
<1>1. ServersLeft' = ServersLeft
  BY DEF ServersLeft, Generate, Answer, ToolsAnswer, LoopRaises, servers
<1>2. \A s \in Servers : ServersLeft'[s] <= ServersLeft[s]
  BY <1>1, WhatIsLeft
<1>3. /\ \A q \in Requests : q # r => loop'[q] = loop[q] /\ turns'[q] = turns[q]
      /\ \A q \in Requests : turns[q] \in Nat
      /\ MaxTurns \in Nat
  <2>1. CASE Generate(r)
    BY <2>1 DEF TypeOK, Generate
  <2>2. CASE Answer(r)
    BY <2>2 DEF TypeOK, Answer
  <2>3. CASE ToolsAnswer(r)
    BY <2>3 DEF TypeOK, ToolsAnswer
  <2>4. CASE LoopRaises(r)
    BY <2>4 DEF TypeOK, LoopRaises
  <2>5. QED
    BY <2>1, <2>2, <2>3, <2>4
<1>4. \A q \in Requests : q # r => LoopsLeft'[q] = LoopsLeft[q]
  BY <1>3 DEF LoopsLeft
<1>5. LoopsLeft'[r] < LoopsLeft[r] /\ LoopsLeft'[r] <= LoopsLeft[r]
  <2>1. /\ loop[r] \in {"ready", "generating", "tools"} => turns[r] < MaxTurns
        /\ turns[r] \in Nat /\ turns'[r] \in Nat
    BY DEF TypeOK
  <2>2. \/ loop[r] = "ready" /\ loop'[r] = "generating" /\ turns'[r] = turns[r]
        \/ loop[r] = "generating" /\ loop'[r] \in {"tools", "done"} /\ turns'[r] = turns[r] + 1
        \/ loop[r] = "tools" /\ loop'[r] \in {"ready", "done"} /\ turns'[r] = turns[r]
        \/ loop[r] \in {"generating", "tools"} /\ loop'[r] = "failed" /\ turns'[r] = turns[r]
    BY DEF TypeOK, Generate, Answer, ToolsAnswer, LoopRaises
  <2>3. QED
    BY <1>3, <2>1, <2>2 DEF LoopsLeft
<1>6. \A q \in Requests : LoopsLeft'[q] <= LoopsLeft[q]
  BY <1>4, <1>5, WhatIsLeft
<1>7. QED
  BY <1>2, <1>5, <1>6

\* Engines and loops are in turn in every reachable state.
LEMMA InTurnAlways == Spec => []InTurn
<1>1. Init => InTurn
  BY DEF Init, InTurn
<1>2. TypeOK /\ InTurn /\ [Next]_vars => InTurn'
  <2> SUFFICES ASSUME TypeOK, InTurn, [Next]_vars PROVE InTurn'
    OBVIOUS
  <2> USE DEF InTurn, servers, loops, sessions
  <2>1. CASE UNCHANGED vars
    BY <2>1 DEF vars
  <2>2. CASE Train \/ GenerateSequences \/ Awake \/ Collect \/ Asleep \/ Raise \/ Over
    BY <2>2 DEF Train, GenerateSequences, Awake, Collect, Asleep, Raise, Over, vars
  <2>3. ASSUME NEW s \in Servers, WakeUp(s) \/ UpdateParams(s) \/ Sleep(s)
        PROVE  InTurn'
    BY <2>3 DEF TypeOK, WakeUp, UpdateParams, Sleep
  <2>4. ASSUME NEW r \in Requests, Generate(r) \/ Answer(r) \/ ToolsAnswer(r) \/ LoopRaises(r)
        PROVE  InTurn'
    <3>1. engine' = engine /\ manager' = manager
      BY <2>4 DEF Generate, Answer, ToolsAnswer, LoopRaises
    <3>2. \A q \in Requests : loop'[q] = loop[q] \/ loop'[q] # "idle"
      BY <2>4 DEF TypeOK, Generate, Answer, ToolsAnswer, LoopRaises
    <3>3. QED
      BY <3>1, <3>2
  <2>5. QED
    BY <2>1, <2>2, <2>3, <2>4 DEF Next, Rollout
<1>3. QED
  BY <1>1, <1>2, Typing, PTL DEF Spec

\* There is always a least loaded server.
LEMMA SomeLeast == ASSUME TypeOK, NEW w \in Workers PROVE Least(w) # {}
<1> DEFINE N == {load[w][s] : s \in Servers}
<1>1. \A s \in Servers : load[w][s] \in Nat
  BY DEF TypeOK
<1>2. N \in SUBSET Nat /\ N # {}
  BY <1>1
<1> HIDE DEF N
<1>3. PICK n \in N : \A m \in N : n <= m
  BY <1>2, LeastNumber
<1>4. PICK s \in Servers : n = load[w][s]
  BY DEF N
<1>5. \A t \in Servers : load[w][t] \in N
  BY DEF N
<1>6. s \in Least(w)
  BY <1>3, <1>4, <1>5 DEF Least
<1>7. QED
  BY <1>6

\* A call of generate_sequences never comes to a halt before it returns or raises,
\* and every step that the manager, a server or an agent loop takes for it, in
\* whatever order, leaves less of it.
THEOREM CallMustEnd ==
  Spec => /\ [](CallLeft \in Nat /\ CallGoesOn)
          /\ [][CallSteps => CallLeft' < CallLeft]_vars
<1>1. TypeOK /\ InTurn => CallLeft \in Nat /\ CallGoesOn
  <2> SUFFICES ASSUME TypeOK, InTurn PROVE CallLeft \in Nat /\ CallGoesOn
    OBVIOUS
  <2>1. CallLeft \in Nat
    <3>1. SumOf(ServersLeft, Servers) \in Nat /\ SumOf(LoopsLeft, Requests) \in Nat
      <4>1. \A s \in Servers : ServersLeft[s] \in Nat /\ ServersLeft[s] <= ServersLeft[s]
        BY WhatIsLeft
      <4>2. \A r \in Requests : LoopsLeft[r] \in Nat /\ LoopsLeft[r] <= LoopsLeft[r]
        BY WhatIsLeft
      <4> DEFINE a == ServersLeft
                 b == LoopsLeft
      <4>3. /\ \A s \in Servers : a[s] \in Nat /\ a[s] \in Int /\ a[s] <= a[s]
            /\ \A r \in Requests : b[r] \in Nat /\ b[r] \in Int /\ b[r] <= b[r]
        BY <4>1, <4>2
      <4> HIDE DEF a, b
      <4>4. SumOf(a, Servers) \in Nat /\ SumOf(b, Requests) \in Nat
        BY <4>3, SumsOrdered
      <4>5. QED
        BY <4>4 DEF a, b
    <3>2. QED
      BY <3>1 DEF CallLeft
  <2>2. manager = "waking" =>
          \/ \E s \in Servers : engine[s] = "asleep"
          \/ \E s \in Servers : engine[s] = "loading" /\ \A t \in Servers : engine[t] # "asleep"
          \/ \A s \in Servers : engine[s] = "awake"
    BY DEF TypeOK
  <2>3. ASSUME manager = "generating", ~ Collected
        PROVE  \E r \in Requests :
                 \/ loop[r] \in {"generating", "tools", "failed"}
                 \/ loop[r] = "ready" /\ Least(WorkerOf[r]) # {}
    <3>1. PICK r \in Requests : loop[r] # "done"
      BY <2>3 DEF Collected
    <3>2. loop[r] \in {"ready", "generating", "tools", "failed"} /\ WorkerOf[r] \in Workers
      BY <2>3, <3>1 DEF TypeOK, InTurn
    <3>3. QED
      BY <3>2, SomeLeast
  <2>4. manager = "sleeping" =>
          \/ \E s \in Servers : engine[s] = "awake"
          \/ \A s \in Servers : engine[s] = "asleep"
    BY DEF TypeOK, InTurn
  <2>5. QED
    BY <2>1, <2>2, <2>3, <2>4 DEF CallGoesOn
<1>2. TypeOK /\ TypeOK' /\ InTurn => (CallSteps => CallLeft' < CallLeft)
  <2> SUFFICES ASSUME TypeOK, TypeOK', InTurn, CallSteps PROVE CallLeft' < CallLeft
    OBVIOUS
  <2>1. /\ \A s \in Servers : ServersLeft'[s] <= ServersLeft[s]
        /\ \A r \in Requests : LoopsLeft'[r] <= LoopsLeft[r]
        /\ \/ \E s \in Servers : ServersLeft'[s] < ServersLeft[s]
           \/ \E r \in Requests : LoopsLeft'[r] < LoopsLeft[r]
    <3>1. CASE \/ Awake \/ Collect \/ Asleep \/ Raise
               \/ \E s \in Servers : WakeUp(s) \/ UpdateParams(s) \/ Sleep(s)
      BY <3>1, ManagerGetsOn
    <3>2. ASSUME NEW r \in Requests,
                 Generate(r) \/ Answer(r) \/ ToolsAnswer(r) \/ LoopRaises(r)
          PROVE  /\ \A s \in Servers : ServersLeft'[s] <= ServersLeft[s]
                 /\ \A q \in Requests : LoopsLeft'[q] <= LoopsLeft[q]
                 /\ LoopsLeft'[r] < LoopsLeft[r]
      BY <3>2, LoopGetsOn
    <3>3. QED
      BY <3>1, <3>2 DEF CallSteps, Rollout
  <2>2. QED
    BY <2>1, LessIsLeft
<1>3. QED
  BY <1>1, <1>2, Typing, InTurnAlways, PTL

===============================================================================

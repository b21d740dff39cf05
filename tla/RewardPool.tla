------------------------------ MODULE RewardPool ------------------------------
(***************************************************************************)
(* The scoring of a batch by the prime reward manager (prime.py): every    *)
(* row is a task of a process pool, all of them with a timeout that starts *)
(* at once, however long the row waits for a process.  When all have been  *)
(* answered the processes are killed, whatever they are still doing.       *)
(*                                                                         *)
(* A row's work is the time it takes, or Raises, Loops for ever, or Dies   *)
(* and takes its process with it, which breaks a ProcessPoolExecutor.      *)
(***************************************************************************)
EXTENDS Integers, Sequences, FiniteSets, FiniteSetsExt

CONSTANTS NumRows,   \* rows of the batch
          Processes, \* num_processes
          Times,     \* the times a scorer can take
          Timeout    \* of every task

RewardPoolAssumption ==
  /\ NumRows \in Nat \ {0} /\ Processes # {} /\ IsFiniteSet(Processes)
  /\ Times \subseteq Nat \ {0} /\ Timeout \in Nat \ {0}

Rows   == 1 .. NumRows
Raises == -1
Loops  == -2
Dies   == -3
Idle   == 0

VARIABLES pc,      \* "gather", "terminate", "shutdown" or "scored"
          work,    \* row -> its work
          clock,   \* time since the tasks were made
          queue,   \* rows no process has taken
          running, \* living process -> the row it scores, or Idle
          left,    \* row that runs -> the time it still needs
          result,  \* row -> "pending", "score" or "None"
          scores   \* row -> the number that is returned for it

vars == <<pc, work, clock, queue, running, left, result, scores>>

Init ==
  /\ pc = "gather" /\ clock = 0
  /\ work \in [Rows -> Times \cup {Raises, Loops, Dies}]
  /\ queue = [i \in Rows |-> i]
  /\ running = [w \in Processes |-> Idle]
  /\ left = [r \in Rows |-> work[r]]
  /\ result = [r \in Rows |-> "pending"] /\ scores = <<>>

Living == DOMAIN running

IsHealthy(r) == work[r] \in Times

------------------------------------------------------------------------------
(* The pool.                                                               *)

Take(w) ==
  /\ running[w] = Idle /\ queue # <<>>
  /\ running' = [running EXCEPT ![w] = Head(queue)]
  /\ queue' = Tail(queue)
  /\ UNCHANGED <<pc, work, clock, left, result, scores>>

\* Mutant of Answered: gather raises for a row that raises, and verify gives
\* every row the same answer.
AnsweredForAll(r, answer) ==
  IF answer = "None" THEN [q \in Rows |-> "None"] ELSE [result EXCEPT ![r] = answer]

\* What single_compute_score makes of one row is about this row.
Answered(r, answer) ==
  IF result[r] = "pending" THEN [result EXCEPT ![r] = answer] ELSE result

Complete(w) ==
  /\ running[w] # Idle /\ left[running[w]] \in {0, Raises}
  /\ result' = Answered(running[w], IF left[running[w]] = 0 THEN "score" ELSE "None")
  /\ running' = [running EXCEPT ![w] = Idle]
  /\ UNCHANGED <<pc, work, clock, queue, left, scores>>

\* BrokenProcessPool, for every row that has no answer; all processes end.
Break(w) ==
  /\ running[w] # Idle /\ left[running[w]] = Dies
  /\ result' = [r \in Rows |-> IF result[r] = "pending" THEN "None" ELSE result[r]]
  /\ running' = <<>> /\ queue' = <<>>
  /\ UNCHANGED <<pc, work, clock, left, scores>>

\* Nobody waits for a process that is there, and every row that needs no more
\* time has been answered.
AllBusy ==
  \A w \in Living : IF running[w] = Idle THEN queue = <<>>
                    ELSE left[running[w]] > 0 \/ left[running[w]] = Loops

Pending == \E r \in Rows : result[r] = "pending"

Tick ==
  /\ pc = "gather" /\ Pending /\ clock < Timeout /\ AllBusy
  /\ clock' = clock + 1
  /\ left' = [r \in Rows |-> IF left[r] > 0 /\ \E w \in Living : running[w] = r
                               THEN left[r] - 1 ELSE left[r]]
  /\ UNCHANGED <<pc, work, queue, running, result, scores>>

------------------------------------------------------------------------------
(* parallel_compute_score_async.                                           *)

\* wait_for gives up on every task at the same time; those that have no process
\* yet are cancelled, the others go on.
TimeOut ==
  /\ pc = "gather" /\ Pending /\ clock = Timeout
  /\ result' = [r \in Rows |-> IF result[r] = "pending" THEN "None" ELSE result[r]]
  /\ queue' = <<>>
  /\ UNCHANGED <<pc, work, clock, running, left, scores>>

Gathered ==
  /\ pc = "gather" /\ ~ Pending
  /\ pc' = "terminate"
  /\ UNCHANGED <<work, clock, queue, running, left, result, scores>>

\* The finally: terminate, and kill what does not end in time.
Terminate ==
  /\ pc = "terminate"
  /\ IF Living = {} THEN pc' = "shutdown" /\ UNCHANGED running
     ELSE \E w \in Living :
            /\ running' = [v \in Living \ {w} |-> running[v]]
            /\ UNCHANGED pc
  /\ UNCHANGED <<work, clock, queue, left, result, scores>>

\* Leaving the with block joins the processes.
Shutdown ==
  /\ pc = "shutdown" /\ \A w \in Living : running[w] = Idle
  /\ scores' = [r \in Rows |-> IF result[r] = "None" THEN 0 ELSE 1]
  /\ pc' = "scored"
  /\ UNCHANGED <<work, clock, queue, running, left, result>>

Over == pc = "scored" /\ UNCHANGED vars

Pool == \E w \in Living : Take(w) \/ Complete(w) \/ Break(w)

Evaluate == Pool \/ Tick \/ TimeOut \/ Gathered \/ Terminate \/ Shutdown

Next == Evaluate \/ Over

Spec == Init /\ [][Next]_vars

\* Processes run, time passes, and the event loop goes on.
FairSpec == Spec /\ WF_vars(Evaluate)

------------------------------------------------------------------------------
(* Properties.                                                             *)

Healthy == {r \in Rows : IsHealthy(r)}

\* "to prevent very occasional starvation caused by some anomalous programs":
\* as long as they leave one process to the other rows, whose work fits in the
\* time, a row that loops or raises costs no other row its score.  A row that
\* takes its process with it may.
HealthyRowsScored ==
  /\ pc = "scored"
  /\ \A r \in Rows : work[r] # Dies
  /\ Cardinality({r \in Rows : work[r] = Loops}) < Cardinality(Processes)
  /\ MapThenSumSet(LAMBDA r : work[r], Healthy) < Timeout
  => \A r \in Rows : scores[r] = IF IsHealthy(r) THEN 1 ELSE 0

\* The evaluation ends, although a scorer may never.
EvaluationEnds == <>(pc = "scored")

===============================================================================

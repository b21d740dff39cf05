------------------------------ MODULE RateLimiter -----------------------------
(***************************************************************************)
(* The limiter of the search and sandbox tools.  The tools of every process*)
(* hand their calls to an actor with a few threads; all of these actors    *)
(* share one limiter, an actor named "rate-limiter" that holds a semaphore.*)
(* It acquires on one thread and releases on others, and is only told to   *)
(* release: nobody waits for that.                                         *)
(***************************************************************************)
EXTENDS Integers, Sequences, FiniteSets

CONSTANTS Pools,  \* the actors the calls are handed to
          Pool,   \* of each: its tool, if it is limited, its rate and workers
          PoolOf  \* call -> its pool

\* What the constants are.
RateLimiterAssumption ==
  /\ Pool \in [Pools -> [tool : {"search", "sandbox"}, limited : BOOLEAN,
                         rate : Nat \ {0}, workers : Nat \ {0}]]
  /\ PoolOf \in [DOMAIN PoolOf -> Pools]

VARIABLES where,   \* where each call is
          ready,   \* the pools that are initialized
          limit,   \* rate_limit of the limiter, 0 before there is one
          free,    \* its semaphore
          asked,   \* the calls whose acquire has not returned, in order
          releases \* releases sent and not yet executed

vars == <<where, ready, limit, free, asked, releases>>

Calls == DOMAIN PoolOf

Init ==
  /\ where = [c \in Calls |-> "new"]
  /\ ready = {}
  /\ limit = 0 /\ free = 0 /\ asked = <<>> /\ releases = 0

Goes(c, place) == where' = [where EXCEPT ![c] = place]

\* The actor of pool p comes up.  The first that is limited makes the limiter;
\* the rate_limit of the others is ignored.
InitPool(p) ==
  /\ p \notin ready
  /\ ready' = ready \cup {p}
  /\ IF Pool[p].limited /\ limit = 0
       THEN limit' = Pool[p].rate /\ free' = Pool[p].rate
       ELSE UNCHANGED <<limit, free>>
  /\ UNCHANGED <<where, asked, releases>>

HasThread(p) ==
  Cardinality({c \in Calls : PoolOf[c] = p /\ where[c] \in {"asking", "running"}})
    < Pool[p].workers

CanStart(c) == where[c] = "new" /\ PoolOf[c] \in ready /\ HasThread(PoolOf[c])

\* execute starts on a thread of its pool and asks the limiter.
Ask(c) ==
  /\ CanStart(c) /\ Pool[PoolOf[c]].limited
  /\ Goes(c, "asking")
  /\ asked' = Append(asked, c)
  /\ UNCHANGED <<ready, limit, free, releases>>

\* Without a limiter a search runs at once; the execute of the sandbox fails.
StartUnlimited(c) ==
  /\ CanStart(c) /\ ~ Pool[PoolOf[c]].limited
  /\ Goes(c, IF Pool[PoolOf[c]].tool = "search" THEN "running" ELSE "raised")
  /\ UNCHANGED <<ready, limit, free, asked, releases>>

\* Mutant of Acquire: the caller does not wait for its acquire to return.
AcquireUnawaited ==
  /\ asked # <<>>
  /\ free' = IF free > 0 THEN free - 1 ELSE free
  /\ asked' = Tail(asked)
  /\ Goes(Head(asked), "running")
  /\ UNCHANGED <<ready, limit, releases>>

\* The thread that acquires takes the calls in order and waits in the semaphore
\* for the first of them.
Acquire ==
  /\ asked # <<>> /\ free > 0
  /\ free' = free - 1
  /\ asked' = Tail(asked)
  /\ Goes(Head(asked), "running")
  /\ UNCHANGED <<ready, limit, releases>>

\* What the call runs returns, or raises and is logged; the exit stack sends
\* the release either way.
Return(c) ==
  /\ where[c] = "running"
  /\ Goes(c, "returned")
  /\ releases' = releases + (IF Pool[PoolOf[c]].limited THEN 1 ELSE 0)
  /\ UNCHANGED <<ready, limit, free, asked>>

Release ==
  /\ releases > 0
  /\ releases' = releases - 1
  /\ free' = free + 1
  /\ UNCHANGED <<where, ready, limit, asked>>

Ended(c) == where[c] \in {"returned", "raised"}

Over == (\A c \in Calls : Ended(c)) /\ releases = 0 /\ ready = Pools /\ UNCHANGED vars

Next ==
  \/ \E p \in Pools : InitPool(p)
  \/ \E c \in Calls : Ask(c) \/ StartUnlimited(c) \/ Return(c)
  \/ Acquire \/ Release \/ Over

Spec == Init /\ [][Next]_vars

\* As long as anything can happen something does: the number of calls is finite.
FairSpec == Spec /\ WF_vars(Next)

------------------------------------------------------------------------------
(* Properties.                                                             *)

\* However acquires, returns and releases overtake each other, no more limited
\* calls run at once than the limiter was made for, and none of its places is
\* lost or given twice.
LimitHolds ==
  LET running == {c \in Calls : where[c] = "running" /\ Pool[PoolOf[c]].limited}
  IN  Cardinality(running) + free + releases = limit

\* Every call comes to its end: the thread that waits in acquire does not keep
\* the releases from theirs, and waiting calls that hold all threads of their
\* pool do not keep those that would release.
CallsReturn == \A c \in Calls : <>Ended(c)

===============================================================================

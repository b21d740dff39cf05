------------------------------ MODULE TokenBucket -----------------------------
(***************************************************************************)
(* The limit on the calls of MCP tools in one process: a bucket that holds *)
(* tokens for a second, is filled by what the time since the last poll is  *)
(* worth whenever it is polled, and polled by every waiting call.          *)
(***************************************************************************)
EXTENDS Integers, Sequences

CONSTANTS Calls,  \* calls of MCP tools
          Rate,   \* rate_limit, per second
          Second  \* bound: ticks of the clock in a second

\* The code allows a rate below one; its bucket never has a token to give.
TokenBucketAssumption == Rate \in Nat \ {0} /\ Second \in Nat \ {0}

VARIABLES waiting,    \* the calls that poll
          tokens,     \* in the bucket, in parts of 1 / Second
          now,        \* the clock
          lastUpdate, \* last_update
          starts      \* when calls were let through

vars == <<waiting, tokens, now, lastUpdate, starts>>

Init ==
  /\ waiting = Calls
  /\ tokens = Rate * Second
  /\ now = 0 /\ lastUpdate = 0
  /\ starts = <<>>

\* Mutant of Filled: a bucket that nobody polls fills without end.
FilledWithoutEnd == tokens + (now - lastUpdate) * Rate

Filled ==
  LET t == tokens + (now - lastUpdate) * Rate
  IN  IF t < Rate * Second THEN t ELSE Rate * Second

\* A call goes through with a token, or sleeps and polls again.
Poll(c) ==
  /\ c \in waiting
  /\ lastUpdate' = now
  /\ IF Filled >= Second
       THEN /\ tokens' = Filled - Second
            /\ waiting' = waiting \ {c}
            /\ starts' = Append(starts, now)
       ELSE tokens' = Filled /\ UNCHANGED <<waiting, starts>>
  /\ UNCHANGED now

\* Bound: a bucket that nobody has polled for two seconds is full, and no later
\* tick changes that.
Tick ==
  /\ waiting # {}
  /\ now - lastUpdate < 2 * Second
  /\ now' = now + 1
  /\ UNCHANGED <<waiting, tokens, lastUpdate, starts>>

Over == waiting = {} /\ UNCHANGED vars

Next == (\E c \in Calls : Poll(c)) \/ Tick \/ Over

Spec == Init /\ [][Next]_vars

\* The clock goes on and calls poll; polls that change nothing do not count.
FairSpec == Spec /\ WF_vars(Next)

------------------------------------------------------------------------------
(* Properties.                                                             *)

\* In every stretch of time no more calls start than a full bucket and what has
\* flowed into it meanwhile allow, although it is only filled when polled.
RateHolds ==
  \A i, j \in DOMAIN starts :
    i <= j => (j - i + 1) * Second <= Rate * (Second + starts[j] - starts[i])

\* Every call gets a token.
CallsStart == <>(waiting = {})

===============================================================================

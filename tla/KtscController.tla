---------------------------- MODULE KtscController ----------------------------
(***************************************************************************)
(* The controller of the learning rate (KTSC): it measures the KL of every *)
(* update of the actor and moves a multiplier of the learning rate so that *)
(* the KL meets a target, after a warm-up, after a number of measurements  *)
(* that only fill its history, and never by more than a clamp.  Its state  *)
(* is a sidecar of the checkpoint (which Checkpoint shows to be there and  *)
(* fresh, or missing); a launch may bring another configuration.           *)
(*                                                                         *)
(* The multiplier is its logarithm in whole steps, 0 for 1.0, and so are   *)
(* its bounds and clamps.  KLs and targets are natural numbers; statistics *)
(* are doubled, which keeps the median of an even number of values whole;  *)
(* the fractions ema_beta and kl_floor_frac are in quarters.  The          *)
(* logarithm of the ratio of target and statistic is represented by their  *)
(* difference: decreasing in the statistic and 0 on the target, which is   *)
(* all the properties depend on.                                           *)
(***************************************************************************)
EXTENDS Integers, Sequences, FiniteSets

CONSTANTS Configs,     \* the configurations a launch may have
          KLs,         \* bound: the values actor/ppo_kl may have
          TotalSteps,  \* bound: steps of training
          MaxLaunches  \* bound: launches of the job

Quarters == 0 .. 4

\* What behaviour_key compares: neither ema_beta nor adv_aware is part of it.
KeyOf(c) == <<c.stat, c.window, c.klKey, c.target>>

KtscAssumption ==
  /\ \A c \in Configs :
       /\ c.stat \in {"median", "ema"} /\ c.window \in Nat \ {0}
       /\ c.target \in Nat \ {0} /\ c.advAware \in BOOLEAN
       /\ c.beta \in Quarters /\ c.floor \in Quarters
       /\ c.warmup \in Nat /\ c.seed \in Nat
       /\ c.clampLo \in Nat /\ c.clampHi \in Nat
       /\ c.min \in Int /\ c.max \in Int /\ c.min <= c.max
  /\ KLs \subseteq Int
  /\ TotalSteps \in Nat /\ MaxLaunches \in Nat

VARIABLES pc,        \* "update" the actor, "save" the step, "down" or "done"
          step,      \* global_steps
          launches,
          cfg,       \* the configuration of this launch
          mult,      \* lr_mult
          hist,      \* kl_hist
          ema,       \* kl_ema, doubled; NoValue before the first
          seen,      \* n_seen
          delta,     \* last["delta_eff"], the target of the last update
          ckpt,      \* the tracked checkpoint with its sidecar
          evidence   \* ghost: what the surviving training measured since the
                     \* controller last started its history, each measurement
                     \* with the ema_beta it was mixed in with

vars == <<pc, step, launches, cfg, mult, hist, ema, seen, delta, ckpt, evidence>>
controller == <<mult, hist, ema, seen, evidence>>

NoValue == -1
NoSidecar == [key |-> <<>>, mult |-> 0, hist |-> <<>>, ema |-> NoValue,
              seen |-> 0, evidence |-> <<>>]

Init ==
  /\ pc = "down" /\ step = 0 /\ launches = 0
  /\ cfg \in Configs
  /\ mult = 0 /\ hist = <<>> /\ ema = NoValue /\ seen = 0
  /\ delta = NoValue
  /\ ckpt = [step |-> 0, sidecar |-> NoSidecar]
  /\ evidence = <<>>

------------------------------------------------------------------------------
(* The statistic and the update.                                           *)

Bigger(a, b) == IF a > b THEN a ELSE b
Within(x, lo, hi) == IF x < lo THEN lo ELSE IF x > hi THEN hi ELSE x

LastOf(s, n) == IF Len(s) > n THEN SubSeq(s, Len(s) - n + 1, Len(s)) ELSE s

\* The k-th smallest of a history.
Kth(h, k) ==
  CHOOSE v \in {h[i] : i \in 1 .. Len(h)} :
    /\ Cardinality({i \in 1 .. Len(h) : h[i] < v}) < k
    /\ Cardinality({i \in 1 .. Len(h) : h[i] <= v}) >= k

\* Mutant of Median2: the largest value of the window.
Largest2(h) == 2 * Kth(h, Len(h))

\* statistics.median, doubled.
Median2(h) == Kth(h, (Len(h) + 1) \div 2) + Kth(h, Len(h) \div 2 + 1)

\* The moving average, rounded down.
Mixed(e, kl, beta) ==
  IF e = NoValue THEN 2 * kl ELSE (beta * e + (4 - beta) * 2 * kl) \div 4

Statistic(h, e) == IF cfg.stat = "median" THEN Median2(h) ELSE e

\* delta_effective: the target, or less of it for a batch whose largest
\* advantage is above adv_ref.
Targets == IF cfg.advAware THEN 1 .. cfg.target ELSE {cfg.target}

\* Mutant of Ratio: the ratio is not clamped.
RatioFree(stat, d) == 2 * d - Bigger(stat, (cfg.floor * d) \div 2)

\* The clamped logarithm of the ratio of the target d and the statistic.
Ratio(stat, d) ==
  Within(2 * d - Bigger(stat, (cfg.floor * d) \div 2), -cfg.clampLo, cfg.clampHi)

\* KtscController.update.
Measured(kl) ==
  LET x == Bigger(kl, 0)
      h == LastOf(Append(hist, x), cfg.window)
      e == Mixed(ema, x, cfg.beta)
  IN  /\ delta' \in Targets
      /\ IF step <= cfg.warmup
           THEN UNCHANGED controller
           ELSE /\ hist' = h /\ ema' = e /\ seen' = seen + 1
                /\ evidence' = Append(evidence, [kl |-> x, beta |-> cfg.beta])
                /\ mult' = IF seen + 1 <= cfg.seed
                             THEN mult
                             ELSE Within(mult + Ratio(Statistic(h, e), delta'),
                                         cfg.min, cfg.max)

\* _ktsc_update_actor: without the metric the controller is left alone.
UpdateActor ==
  /\ pc = "update"
  /\ (\E kl \in KLs : Measured(kl)) \/ UNCHANGED <<controller, delta>>
  /\ pc' = "save"
  /\ UNCHANGED <<step, launches, cfg, ckpt>>

------------------------------------------------------------------------------
(* Checkpoints and launches.                                               *)

Sidecar == [key |-> KeyOf(cfg), mult |-> mult, hist |-> hist, ema |-> ema,
            seen |-> seen, evidence |-> evidence]

NextStep ==
  IF step = TotalSteps THEN pc' = "done" /\ UNCHANGED step
                       ELSE pc' = "update" /\ step' = step + 1

\* The step ends with a checkpoint and its sidecar, or without one.
EndStep ==
  /\ pc = "save"
  /\ ckpt' \in {ckpt, [step |-> step, sidecar |-> Sidecar]}
  /\ NextStep
  /\ UNCHANGED <<launches, cfg, controller, delta>>

\* The job is killed at any point.
Crash ==
  /\ pc \in {"update", "save"}
  /\ pc' = "down"
  /\ UNCHANGED <<step, launches, cfg, ckpt, controller, delta>>

\* The job is killed after the tracker and before the sidecar was written.
CrashBeforeSidecar ==
  /\ pc = "save"
  /\ ckpt' = [step |-> step, sidecar |-> NoSidecar]
  /\ pc' = "down"
  /\ UNCHANGED <<step, launches, cfg, controller, delta>>

Fresh == mult' = 0 /\ hist' = <<>> /\ ema' = NoValue /\ seen' = 0 /\ evidence' = <<>>

\* Mutant of Load: n_seen survives a change of the configuration.
LoadSeen(s, c) ==
  /\ mult' = s.mult
  /\ seen' = s.seen
  /\ IF s.key = KeyOf(c)
       THEN /\ hist' = LastOf(s.hist, c.window) /\ ema' = s.ema
            /\ evidence' = s.evidence
       ELSE /\ hist' = <<>> /\ ema' = NoValue
            /\ evidence' = <<>>

\* load_state_dict: the multiplier is kept as it is, also outside the bounds of
\* the new configuration; the history only if it was measured for the same key.
Load(s, c) ==
  /\ mult' = s.mult
  /\ IF s.key = KeyOf(c)
       THEN /\ hist' = LastOf(s.hist, c.window) /\ ema' = s.ema
            /\ seen' = s.seen /\ evidence' = s.evidence
       ELSE /\ hist' = <<>> /\ ema' = NoValue
            /\ seen' = 0 /\ evidence' = <<>>

\* A process that starts without a checkpoint, or without its sidecar, has a
\* new controller.
Launch ==
  /\ pc = "down"
  /\ launches < MaxLaunches
  /\ launches' = launches + 1
  /\ \E c \in Configs :
       /\ cfg' = c
       /\ IF ckpt.sidecar = NoSidecar THEN Fresh ELSE Load(ckpt.sidecar, c)
  /\ IF ckpt.step >= TotalSteps
       THEN pc' = "done" /\ step' = ckpt.step
       ELSE pc' = "update" /\ step' = ckpt.step + 1
  /\ delta' = NoValue
  /\ UNCHANGED ckpt

Over == pc = "done" \/ (pc = "down" /\ launches = MaxLaunches)

Next ==
  \/ UpdateActor \/ EndStep \/ Crash \/ CrashBeforeSidecar \/ Launch
  \/ (Over /\ UNCHANGED vars)

Spec == Init /\ [][Next]_vars

------------------------------------------------------------------------------
(* Properties.                                                             *)

Measurements == [kl : Nat, beta : Quarters]

TypeOK ==
  /\ pc \in {"update", "save", "down", "done"}
  /\ step \in 0 .. TotalSteps /\ launches \in 0 .. MaxLaunches
  /\ cfg \in Configs
  /\ mult \in Int /\ hist \in Seq(Nat) /\ ema \in Nat \cup {NoValue} /\ seen \in Nat
  /\ delta \in Nat \cup {NoValue} /\ evidence \in Seq(Measurements)

\* The moving average of a sequence of measurements.
Average(s) ==
  LET avg[n \in 0 .. Len(s)] ==
        IF n = 0 THEN NoValue ELSE Mixed(avg[n - 1], s[n].kl, s[n].beta)
  IN  avg[Len(s)]

KLsOf(s) == [i \in 1 .. Len(s) |-> s[i].kl]

\* Crashes, missing sidecars and changed configurations never leave the
\* controller with anything but the measurements of the training that survived,
\* made under its present key.
SameMeasurements ==
  pc \in {"update", "save"} =>
    seen = Len(evidence) /\ hist = LastOf(KLsOf(evidence), cfg.window)

\* The same with the moving average: a resumed controller is the one that would
\* have run through, with the ema_beta of each launch for what it measured.
SameEvidence ==
  SameMeasurements /\ (pc \in {"update", "save"} => ema = Average(evidence))

\* Within a launch the multiplier only moves on more measurements than seed_steps
\* made under the present key, into the bounds of the configuration, and by no
\* more than the clamps unless it was loaded from outside the bounds.
AdaptsSafely ==
  [][mult' # mult /\ launches' = launches =>
       /\ Len(evidence') > cfg.seed
       /\ mult' \in cfg.min .. cfg.max
       /\ mult \in cfg.min .. cfg.max =>
            mult' - mult \in -cfg.clampLo .. cfg.clampHi]_vars

\* "median: spikes leave lr trajectory unchanged", test_ktsc.py:80: as long as
\* most of the window is on or above the target of the update no outlier raises the
\* multiplier, and none lowers it while most is on or below.
Most(S) == 2 * Cardinality(S) > Len(hist')
MajorityDecides ==
  [][cfg.stat = "median" /\ mult \in cfg.min .. cfg.max
       /\ evidence' # evidence /\ launches' = launches =>
       /\ Most({i \in 1 .. Len(hist') : hist'[i] >= delta'}) => mult' <= mult
       /\ Most({i \in 1 .. Len(hist') : hist'[i] <= delta'}) => mult' >= mult]_vars

===============================================================================

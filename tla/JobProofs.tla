------------------------------- MODULE JobProofs ------------------------------
(***************************************************************************)
(* Theorems about the jobs of MCJobs.  About DapoTrainer, for every batch  *)
(* size, every cap, every save_freq, every outcome of the filter and every *)
(* history of launches; about ModelCache, for every number of processes,   *)
(* files and crashes; and the theorems of IrtProofs and CheckpointProofs   *)
(* carried over to the runs of MCJobs, whatever job runs.                  *)
(***************************************************************************)
EXTENDS MCJobs, Lemmas, FiniteSetTheorems, SequenceTheorems, TLAPS

USE DapoAssumption

\* The counters of the loop.
Counters ==
  /\ pc \in AtRest \cup {"collect", "update", "save", "end"}
  /\ globalSteps \in Nat /\ genSteps \in Nat /\ startStep \in Nat
  /\ numPrompt \in Nat /\ numGen \in Nat /\ drawn \in Nat
  /\ ckpt.step \in Nat /\ ckpt.drawn \in Nat

\* A filter keeps at most a whole generation batch.
LEMMA KeptBound ==
  ASSUME drawn \in Nat, NEW kept \in PossiblyKept
  PROVE  Cardinality(kept) \in 0 .. GenBsz
<1> DEFINE a == drawn * GenBsz + 1
           b == (drawn + 1) * GenBsz
<1>1. a \in Int /\ b \in Int /\ b - a + 1 = GenBsz
  <2> DEFINE n == drawn * GenBsz
  <2>1. n \in Int /\ a = n + 1 /\ b = n + GenBsz
    BY SMTT(30)
  <2> HIDE DEF n, a, b
  <2>2. QED
    BY <2>1
<1> HIDE DEF a, b
<1>2. IsFiniteSet(a .. b) /\ Cardinality(a .. b) = GenBsz
  <2>1. /\ IsFiniteSet(a .. b)
        /\ Cardinality(a .. b) = IF a > b THEN 0 ELSE b - a + 1
    BY <1>1, FS_Interval, Zenon
  <2>2. ~ (a > b)
    BY <1>1
  <2>3. QED
    BY <1>1, <2>1, <2>2, Zenon
<1>3. kept \subseteq a .. b
  BY DEF PossiblyKept, NewPrompts, a, b
<1>4. IsFiniteSet(kept) /\ Cardinality(kept) <= GenBsz
  BY <1>2, <1>3, FS_Subset
<1>5. QED
  BY <1>4, FS_CardinalityType

\* The counters keep their types in every reachable state.
LEMMA CountersTyped == Spec => []Counters
<1>1. Init => Counters
  BY DEF Init, Counters, AtRest, NoCheckpoint
<1>2. Counters /\ [Next]_vars => Counters'
  <2> SUFFICES ASSUME Counters, [Next]_vars PROVE Counters'
    OBVIOUS
  <2> USE DEF Counters, AtRest, loader
  <2>1. CASE Launch
    BY <2>1 DEF Launch
  <2>2. ASSUME NEW kept \in PossiblyKept,
               KeepGenerating(kept) \/ GiveUp(kept) \/ Enough(kept)
        PROVE  Counters'
    <3>1. Cardinality(kept) \in Nat
      BY KeptBound
    <3>2. QED
      BY <2>2, <3>1 DEF KeepGenerating, GiveUp, Enough, Draw
  <2>3. CASE EndOfPass
    BY <2>3 DEF EndOfPass
  <2>4. CASE Update
    BY <2>4 DEF Update
  <2>5. CASE Save
    BY <2>5 DEF Save, Snapshot
  <2>6. CASE EndStep
    BY <2>6 DEF EndStep
  <2>7. CASE Crash
    BY <2>7 DEF Crash
  <2>8. CASE Over \/ UNCHANGED vars
    BY <2>8 DEF Over, vars
  <2>9. QED
    BY <2>1, <2>2, <2>3, <2>4, <2>5, <2>6, <2>7, <2>8 DEF Next, Fit
<1>3. QED
  BY <1>1, <1>2, PTL DEF Spec

------------------------------------------------------------------------------
(* The cap on a launch.                                                    *)

\* gen_steps starts at one with the first step of a launch and grows at least
\* as fast as global_steps, which is why the cap on it caps the updates.
GenAhead ==
  /\ pc \notin AtRest => globalSteps - startStep + 1 <= genSteps
  /\ LaunchCap

\* One launch never makes more than total_training_steps updates, whatever the
\* filter discards and however the launches before it ended.
THEOREM LaunchIsCapped == Spec => []LaunchCap
<1>1. Init => GenAhead
  BY DEF Init, GenAhead, LaunchCap, AtRest
<1>2. Counters /\ GenAhead /\ [Next]_vars => GenAhead'
  <2> SUFFICES ASSUME Counters, GenAhead, [Next]_vars PROVE GenAhead'
    OBVIOUS
  <2> USE DEF Counters, GenAhead, LaunchCap, AtRest, loader
  <2>1. CASE Launch
    BY <2>1 DEF Launch
  <2>2. ASSUME NEW kept \in PossiblyKept,
               KeepGenerating(kept) \/ GiveUp(kept) \/ Enough(kept)
        PROVE  GenAhead'
    BY <2>2 DEF KeepGenerating, GiveUp, Enough, Draw
  <2>3. CASE EndOfPass
    BY <2>3 DEF EndOfPass
  <2>4. CASE Update \/ Save
    BY <2>4 DEF Update, Save
  <2>5. CASE EndStep
    BY <2>5 DEF EndStep, IsLastStep
  <2>6. CASE Crash
    BY <2>6 DEF Crash
  <2>7. CASE Over \/ UNCHANGED vars
    BY <2>7 DEF Over, vars
  <2>8. QED
    BY <2>1, <2>2, <2>3, <2>4, <2>5, <2>6, <2>7 DEF Next, Fit
<1>3. GenAhead => LaunchCap
  BY DEF GenAhead
<1>4. QED
  BY <1>1, <1>2, <1>3, CountersTyped, PTL DEF Spec

------------------------------------------------------------------------------
(* What a launch has saved when it ends.                                   *)

Milestone(m) == m \in Nat /\ m % SaveFreq = 0

\* No multiple of save_freq lies between the checkpoint and the current step,
\* and the last step is over only when it is saved.
SavedSoFar ==
  /\ pc \in {"collect", "update", "save", "exhausted", "raised"} =>
       \A m \in Nat : Milestone(m) /\ ckpt.step < m => globalSteps <= m
  /\ pc = "end" =>
       \A m \in Nat : Milestone(m) /\ ckpt.step < m => globalSteps < m
  /\ pc \in {"end", "done"} /\ IsLastStep => ckpt.step = globalSteps
  /\ pc = "done" => IsLastStep

\* Saving keeps up with the steps in every reachable state.
LEMMA SavedSoFarInvariant == Spec => []SavedSoFar
<1>1. Init => SavedSoFar
  BY DEF Init, SavedSoFar
<1>2. Counters /\ SavedSoFar /\ [Next]_vars => SavedSoFar'
  <2> SUFFICES ASSUME Counters, SavedSoFar, [Next]_vars PROVE SavedSoFar'
    OBVIOUS
  <2> USE DEF Counters, SavedSoFar, AtRest, loader, IsLastStep, Milestone
  <2>1. CASE Launch
    BY <2>1 DEF Launch
  <2>2. ASSUME NEW kept \in PossiblyKept,
               KeepGenerating(kept) \/ GiveUp(kept) \/ Enough(kept)
        PROVE  SavedSoFar'
    BY <2>2 DEF KeepGenerating, GiveUp, Enough, Draw
  <2>3. CASE EndOfPass
    BY <2>3 DEF EndOfPass
  <2>4. CASE Update
    BY <2>4 DEF Update
  <2>5. CASE Save
    BY <2>5, SMTT(30) DEF Save, SaveDue, Snapshot
  <2>6. CASE EndStep
    BY <2>6 DEF EndStep
  <2>7. CASE Crash
    BY <2>7 DEF Crash
  <2>8. CASE Over \/ UNCHANGED vars
    BY <2>8 DEF Over, vars
  <2>9. QED
    BY <2>1, <2>2, <2>3, <2>4, <2>5, <2>6, <2>7, <2>8 DEF Next, Fit
<1>3. QED
  BY <1>1, <1>2, CountersTyped, PTL DEF Spec

\* A launch that ends by its cap has saved its last step, although save_freq
\* counts global_steps and the cap counts gen_steps.
THEOREM LastStepIsSaved == Spec => []SavedAtTheEnd
<1>1. SavedSoFar => SavedAtTheEnd
  BY DEF SavedSoFar, SavedAtTheEnd
<1>2. QED
  BY <1>1, SavedSoFarInvariant, PTL

\* The end of a launch costs nothing if it is its cap, and fewer than save_freq
\* finished updates if the data ends or sampling gives up.
THEOREM EndCostsLittle == Spec => []LossBounded
<1>1. Counters /\ SavedSoFar => LossBounded
  <2> SUFFICES ASSUME Counters, SavedSoFar, pc \in {"exhausted", "raised"}
               PROVE  globalSteps - 1 - ckpt.step < SaveFreq
    BY DEF LossBounded, SavedAtTheEnd, SavedSoFar
  <2> DEFINE n == ckpt.step
  <2>1. n \in Nat /\ SaveFreq \in Nat \ {0} /\ globalSteps \in Nat
    BY DEF Counters
  <2>2. \A m \in Nat : m % SaveFreq = 0 /\ n < m => globalSteps <= m
    BY DEF SavedSoFar, Milestone
  <2> HIDE DEF n
  <2> n \in Nat /\ SaveFreq \in Nat \ {0}
    BY <2>1
  <2>3. PICK m \in n + 1 .. n + SaveFreq : m % SaveFreq = 0
    BY MilestoneAhead, ZenonT(20)
  <2>4. globalSteps <= m
    BY <2>1, <2>2, <2>3
  <2>5. globalSteps - 1 - n < SaveFreq
    BY <2>1, <2>3, <2>4
  <2>6. QED
    BY <2>5 DEF n
<1>2. QED
  BY <1>1, SavedSoFarInvariant, CountersTyped, PTL

------------------------------------------------------------------------------
(* Why a launch comes to an end.                                           *)

\* What the data still has in this launch, the ends of its passes included, ...
PassesLeft ==
  LET passes == TotalEpochs - 1 - epoch
  IN  passes * (LoaderLen + 1) + LoaderLen - yielded

\* ... and the steps of the loop, of which an update takes three more.
FitLeft ==
  IF pc = "collect" THEN 4 * PassesLeft + 1
  ELSE IF pc = "update" THEN 4 * PassesLeft + 4
  ELSE IF pc = "save" THEN 4 * PassesLeft + 3
  ELSE IF pc = "end" THEN 4 * PassesLeft + 2
  ELSE 0

\* Also a resumed loader is somewhere in its data.
InPass ==
  /\ pc \in AtRest \cup {"collect", "update", "save", "end"}
  /\ epoch \in 0 .. TotalEpochs - 1
  /\ yielded \in 0 .. LoaderLen /\ ckpt.yielded \in 0 .. LoaderLen

\* It is, in every reachable state.
LEMMA InPassAlways == Spec => []InPass
<1>1. Init => InPass
  BY DEF Init, InPass, AtRest, NoCheckpoint
<1>2. InPass /\ [Next]_vars => InPass'
  <2> SUFFICES ASSUME InPass, [Next]_vars PROVE InPass'
    OBVIOUS
  <2> USE DEF InPass, AtRest, loader
  <2>1. CASE Launch
    BY <2>1 DEF Launch
  <2>2. ASSUME NEW kept \in PossiblyKept,
               KeepGenerating(kept) \/ GiveUp(kept) \/ Enough(kept)
        PROVE  InPass'
    BY <2>2 DEF KeepGenerating, GiveUp, Enough, Draw
  <2>3. CASE EndOfPass
    BY <2>3 DEF EndOfPass
  <2>4. CASE Update
    BY <2>4 DEF Update
  <2>5. CASE Save
    BY <2>5 DEF Save, Snapshot
  <2>6. CASE EndStep
    BY <2>6 DEF EndStep
  <2>7. CASE Crash
    BY <2>7 DEF Crash
  <2>8. CASE Over \/ UNCHANGED vars
    BY <2>8 DEF Over, vars
  <2>9. QED
    BY <2>1, <2>2, <2>3, <2>4, <2>5, <2>6, <2>7, <2>8 DEF Next, Fit
<1>3. QED
  BY <1>1, <1>2, PTL DEF Spec

\* What is left of the passes is a number; a pass less is one length of the data
\* and one end less.
LEMMA PassesShrink ==
  ASSUME NEW k \in Nat, NEW n \in Nat
  PROVE  /\ k * n \in Nat
         /\ k # 0 => (k - 1) * n = k * n - n
BY SMTT(30)

\* Each step of a launch, a draw that the filter throws away like an update, leaves
\* less of it, until it is over: however many batches are discarded, the epochs
\* end.
THEOREM LaunchMustEnd ==
  Spec => /\ [](FitLeft \in Nat /\ (FitLeft = 0 <=> pc \in AtRest))
          /\ [][Fit => FitLeft' < FitLeft]_vars
<1>1. ASSUME InPass
      PROVE  PassesLeft \in Nat /\ FitLeft \in Nat /\ (FitLeft = 0 <=> pc \in AtRest)
  <2> DEFINE k == TotalEpochs - 1 - epoch
             n == LoaderLen + 1
             a == k * n
  <2>1. k \in Nat /\ n \in Nat /\ yielded \in 0 .. LoaderLen
    BY <1>1 DEF InPass
  <2>2. PassesLeft = a + LoaderLen - yielded
    BY DEF PassesLeft
  <2> HIDE DEF k, n
  <2>3. a \in Nat
    BY <2>1, PassesShrink
  <2> HIDE DEF a
  <2>4. PassesLeft \in Nat
    BY <2>1, <2>2, <2>3
  <2> HIDE DEF PassesLeft
  <2>5. QED
    BY <1>1, <2>4 DEF FitLeft, InPass, AtRest
<1>2. ASSUME InPass, Draw PROVE PassesLeft' = PassesLeft - 1
  <2> DEFINE a == (TotalEpochs - 1 - epoch) * (LoaderLen + 1)
  <2>1. PassesLeft = a + LoaderLen - yielded
    BY DEF PassesLeft
  <2>2. PassesLeft' = a + LoaderLen - yielded'
    BY <1>2 DEF PassesLeft, Draw
  <2>3. a \in Nat
    <3> DEFINE k == TotalEpochs - 1 - epoch
               n == LoaderLen + 1
    <3>1. k \in Nat /\ n \in Nat /\ a = k * n
      BY <1>2 DEF InPass
    <3> HIDE DEF k, n, a
    <3>2. QED
      BY <3>1, PassesShrink
  <2>4. yielded' = yielded + 1 /\ yielded \in 0 .. LoaderLen
    BY <1>2 DEF Draw, InPass
  <2> HIDE DEF a
  <2>5. QED
    BY <2>1, <2>2, <2>3, <2>4
<1>3. ASSUME InPass, EndOfPass, epoch + 1 < TotalEpochs PROVE PassesLeft' = PassesLeft - 1
  <2> DEFINE k == TotalEpochs - 1 - epoch
             n == LoaderLen + 1
             a == k * n
             b == (k - 1) * n
  <2>1. k \in Nat /\ n \in Nat /\ k # 0 /\ TotalEpochs - 1 - epoch' = k - 1
    BY <1>3 DEF InPass, EndOfPass
  <2>2. PassesLeft = a + LoaderLen - yielded /\ PassesLeft' = b + LoaderLen - yielded'
    BY <2>1 DEF PassesLeft
  <2>3. yielded = LoaderLen /\ yielded' = 0 /\ n = LoaderLen + 1
    BY <1>3 DEF EndOfPass
  <2> HIDE DEF k, n
  <2>4. a \in Nat /\ b = a - n
    BY <2>1, PassesShrink
  <2> HIDE DEF a, b
  <2>5. QED
    BY <2>1, <2>2, <2>3, <2>4
<1>4. InPass /\ Fit => FitLeft' < FitLeft
  <2> SUFFICES ASSUME InPass, Fit PROVE FitLeft' < FitLeft
    OBVIOUS
  <2>1. PassesLeft \in Nat
    BY <1>1
  <2>2. ASSUME NEW kept \in PossiblyKept,
               KeepGenerating(kept) \/ GiveUp(kept) \/ Enough(kept)
        PROVE  FitLeft' < FitLeft
    <3>1. PassesLeft' = PassesLeft - 1
      BY <1>2, <2>2 DEF KeepGenerating, GiveUp, Enough
    <3>2. pc = "collect" /\ pc' \in {"collect", "raised", "update"}
      BY <2>2 DEF KeepGenerating, GiveUp, Enough, Draw
    <3> HIDE DEF PassesLeft
    <3>3. QED
      BY <2>1, <3>1, <3>2 DEF FitLeft
  <2>3. CASE EndOfPass
    <3>1. /\ pc = "collect"
          /\ \/ pc' = "collect" /\ epoch + 1 < TotalEpochs
             \/ pc' = "exhausted"
      BY <2>3 DEF EndOfPass
    <3>2. pc' = "collect" => PassesLeft' = PassesLeft - 1
      BY <1>3, <2>3, <3>1
    <3> HIDE DEF PassesLeft
    <3>3. QED
      BY <2>1, <3>1, <3>2 DEF FitLeft
  <2>4. CASE Update \/ Save \/ EndStep
    <3>1. PassesLeft' = PassesLeft
      BY <2>4 DEF PassesLeft, Update, Save, EndStep, loader
    <3>2. \/ pc = "update" /\ pc' = "save"
          \/ pc = "save" /\ pc' = "end"
          \/ pc = "end" /\ pc' \in {"collect", "done"}
      BY <2>4 DEF Update, Save, EndStep
    <3> HIDE DEF PassesLeft
    <3>3. QED
      BY <2>1, <3>1, <3>2 DEF FitLeft
  <2>5. QED
    BY <2>2, <2>3, <2>4 DEF Fit
<1>5. InPass => FitLeft \in Nat /\ (FitLeft = 0 <=> pc \in AtRest)
  BY <1>1
<1>6. QED
  BY <1>4, <1>5, InPassAlways, PTL

------------------------------------------------------------------------------
(* The refinement of ResumableRun.                                         *)

\* The step that is being made is not saved yet.
Unsaved ==
  /\ pc \in {"collect", "update", "save"} => ckpt.step < globalSteps
  /\ pc = "end" => ckpt.step <= globalSteps

\* A launch is always ahead of the checkpoint it began with.
LEMMA UnsavedInvariant == Spec => []Unsaved
<1>1. Init => Unsaved
  BY DEF Init, Unsaved
<1>2. Counters /\ Unsaved /\ [Next]_vars => Unsaved'
  <2> SUFFICES ASSUME Counters, Unsaved, [Next]_vars PROVE Unsaved'
    OBVIOUS
  <2> USE DEF Counters, Unsaved, AtRest, loader
  <2>1. CASE Launch
    BY <2>1 DEF Launch
  <2>2. ASSUME NEW kept \in PossiblyKept,
               KeepGenerating(kept) \/ GiveUp(kept) \/ Enough(kept)
        PROVE  Unsaved'
    BY <2>2 DEF KeepGenerating, GiveUp, Enough, Draw
  <2>3. CASE EndOfPass
    BY <2>3 DEF EndOfPass
  <2>4. CASE Update \/ Save
    BY <2>4 DEF Update, Save, Snapshot
  <2>5. CASE EndStep
    BY <2>5 DEF EndStep
  <2>6. CASE Crash
    BY <2>6 DEF Crash
  <2>7. CASE Over \/ UNCHANGED vars
    BY <2>7 DEF Over, vars
  <2>8. QED
    BY <2>1, <2>2, <2>3, <2>4, <2>5, <2>6, <2>7 DEF Next, Fit
<1>3. QED
  BY <1>1, <1>2, CountersTyped, PTL DEF Spec

\* The end of a step is Advance, or Finish once the last step is saved.
LEMMA EndStepAdvances ==
  ASSUME Counters, SavedSoFar, EndStep
  PROVE  Resumable!Advance \/ Resumable!Finish
<1>1. /\ pc = "end" /\ Status = "up" /\ UNCHANGED ckpt
      /\ globalSteps \in Nat /\ ckpt.step \in Nat
  BY DEF EndStep, Counters, Status, AtRest
<1>2. CASE IsLastStep
  <2>1. ckpt.step = globalSteps
    BY <1>1, <1>2 DEF SavedSoFar
  <2>2. pc' = "done" /\ globalSteps' = globalSteps
    BY <1>2 DEF EndStep
  <2>3. QED
    BY <1>1, <2>1, <2>2 DEF Resumable!Finish, Status, AtRest
<1>3. CASE ~ IsLastStep
  <2> DEFINE n == ckpt.step
  <2>1. \A m \in Nat : m % SaveFreq = 0 /\ n < m => globalSteps < m
    BY <1>1 DEF SavedSoFar, Milestone
  <2>2. globalSteps < n + SaveFreq
    <3> n \in Nat /\ SaveFreq \in Nat \ {0}
      BY <1>1
    <3> HIDE DEF n
    <3>1. PICK m \in n + 1 .. n + SaveFreq : m % SaveFreq = 0
      BY MilestoneAhead, ZenonT(20)
    <3>2. globalSteps < m
      BY <2>1, <3>1
    <3>3. QED
      BY <1>1, <3>1, <3>2
  <2>3. pc' = "collect" /\ globalSteps' = globalSteps + 1
    BY <1>3 DEF EndStep
  <2>4. QED
    BY <1>1, <2>2, <2>3 DEF Resumable!Advance, Resumable!Nothing, Status, AtRest
<1>4. QED
  BY <1>2, <1>3

\* Every step of the loop is a step of ResumableRun or changes nothing it can see.
LEMMA LoopMaps ==
  ASSUME Counters, Unsaved, SavedSoFar, [Next]_vars
  PROVE  [Resumable!Next]_(Resumable!vars)
<1> USE DEF Counters, Status, AtRest, loader, Resumable!vars
<1>1. CASE Launch
  <2>1. Resumable!Start
    BY <1>1 DEF Launch, Resumable!Start, Resumable!Nothing
  <2>2. QED
    BY <2>1 DEF Resumable!Next
<1>2. ASSUME NEW kept \in PossiblyKept, KeepGenerating(kept) \/ Enough(kept)
      PROVE  UNCHANGED Resumable!vars
  BY <1>2 DEF KeepGenerating, Enough, Draw
<1>3. ASSUME NEW kept \in PossiblyKept, GiveUp(kept)
      PROVE  Resumable!Die
  BY <1>3 DEF GiveUp, Draw, Resumable!Die
<1>4. CASE EndOfPass
  BY <1>4 DEF EndOfPass, Resumable!Die, Resumable!Next
<1>5. CASE Update
  BY <1>5 DEF Update
<1>6. CASE Save
  BY <1>6 DEF Save, Snapshot, Unsaved, Resumable!Persist, Resumable!Next
<1>7. CASE EndStep
  BY <1>7, EndStepAdvances DEF Resumable!Next
<1>8. CASE Crash
  BY <1>8 DEF Crash, Resumable!Die, Resumable!Next
<1>9. CASE Over \/ UNCHANGED vars
  BY <1>9 DEF Over, vars
<1>10. QED
  BY <1>1, <1>2, <1>3, <1>4, <1>5, <1>6, <1>7, <1>8, <1>9
  DEF Next, Fit, Resumable!Next

\* Whatever the filter keeps and however its launches end, DAPO's loop is a
\* counter and one durable cell: it continues right after the saved step, never
\* has more than save_freq steps to lose, and is over only when its last step is
\* saved.
THEOREM DapoImplementsResumableRun == Spec => ImplementsResumableRun
<1>1. Init => Resumable!Init
  BY DEF Init, NoCheckpoint, Resumable!Init, Status, AtRest
<1>2. Counters /\ Unsaved /\ SavedSoFar /\ [Next]_vars
        => [Resumable!Next]_(Resumable!vars)
  BY LoopMaps
<1>3. Spec => Resumable!Spec
  BY <1>1, <1>2, CountersTyped, UnsavedInvariant, SavedSoFarInvariant, PTL
  DEF Spec, Resumable!Spec
<1>4. QED
  BY <1>3 DEF ImplementsResumableRun

------------------------------------------------------------------------------
(* Generation.                                                             *)

\* Between two draws the counters leave room for one more generation batch.
RoomToGenerate ==
  /\ FilterGroups /\ MaxGenBatches > 0 /\ pc = "collect" => numGen < MaxGenBatches
  /\ GenBudget
  /\ pc = "collect" => numPrompt < TrainBsz
  /\ SurplusBounded

\* Before every draw there is room for one more generation batch.
LEMMA RoomInvariant == Spec => []RoomToGenerate
<1>1. Init => RoomToGenerate
  BY DEF Init, RoomToGenerate, GenBudget, SurplusBounded
<1>2. Counters /\ RoomToGenerate /\ [Next]_vars => RoomToGenerate'
  <2> SUFFICES ASSUME Counters, RoomToGenerate, [Next]_vars PROVE RoomToGenerate'
    OBVIOUS
  <2> USE DEF Counters, RoomToGenerate, GenBudget, SurplusBounded, AtRest, loader
  <2>1. CASE Launch
    BY <2>1 DEF Launch
  <2>2. ASSUME NEW kept \in PossiblyKept,
               KeepGenerating(kept) \/ GiveUp(kept) \/ Enough(kept)
        PROVE  RoomToGenerate'
    <3>1. Cardinality(kept) \in 0 .. GenBsz
      BY KeptBound
    <3>2. QED
      BY <2>2, <3>1 DEF KeepGenerating, GiveUp, Enough, Draw, Budget
  <2>3. CASE EndOfPass
    BY <2>3 DEF EndOfPass
  <2>4. CASE Update \/ Save
    BY <2>4 DEF Update, Save
  <2>5. CASE EndStep
    BY <2>5 DEF EndStep
  <2>6. CASE Crash
    BY <2>6 DEF Crash
  <2>7. CASE Over \/ UNCHANGED vars
    BY <2>7 DEF Over, vars
  <2>8. QED
    BY <2>1, <2>2, <2>3, <2>4, <2>5, <2>6, <2>7 DEF Next, Fit
<1>3. QED
  BY <1>1, <1>2, CountersTyped, PTL DEF Spec

\* No update takes more generation batches than max_num_gen_batches, over the
\* end of a pass and over a relaunch.
THEOREM GenerationIsBudgeted == Spec => []GenBudget
<1>1. RoomToGenerate => GenBudget
  BY DEF RoomToGenerate
<1>2. QED
  BY <1>1, RoomInvariant, PTL

\* Cutting a batch throws away less than one generation batch of prompts.
THEOREM SurplusIsBounded == Spec => []SurplusBounded
<1>1. RoomToGenerate => SurplusBounded
  BY DEF RoomToGenerate
<1>2. QED
  BY <1>1, RoomInvariant, PTL

------------------------------------------------------------------------------
(* Groups: the rows of a prompt are a block of their own.                  *)

Block(i) == (i - 1) \div RolloutN

\* The rows of n prompts, RolloutN of each, one prompt after the other.
GroupsOf(rows, n) ==
  /\ rows \in Seq(Nat) /\ Len(rows) = n * RolloutN
  /\ \A i, j \in 1 .. Len(rows) : rows[i] = rows[j] <=> Block(i) = Block(j)

\* A generation batch after the filter consists of whole groups.
LEMMA RowsAreGroups ==
  ASSUME NEW kept \in SUBSET Nat, IsFiniteSet(kept)
  PROVE  /\ GroupsOf(Rows(kept), Cardinality(kept))
         /\ Prompts(Rows(kept)) \subseteq kept
<1> DEFINE c == Cardinality(kept)
           L == c * RolloutN
           rows == Rows(kept)
           Rank(p) == Cardinality({q \in kept : q < p})
<1>1. c \in Nat /\ L \in Nat
  <2>1. c \in Nat
    BY FS_CardinalityType
  <2> HIDE DEF c
  <2>2. QED
    BY <2>1, SMTT(30)
<1>2. rows = [i \in 1 .. L |-> CHOOSE p \in kept : Rank(p) = Block(i)]
  BY DEF Rows, Block
<1>3. \A i \in 1 .. L : Block(i) \in 0 .. c - 1
  <2> SUFFICES ASSUME NEW i \in 1 .. L PROVE Block(i) \in 0 .. c - 1
    OBVIOUS
  <2> DEFINE k == i - 1
  <2>1. k \in Nat /\ k < L
    BY <1>1
  <2> HIDE DEF k, c
  <2>2. k \div RolloutN \in Nat /\ k \div RolloutN < c
    BY <1>1, <2>1, BlockOf, BlockBelow
  <2>3. k \div RolloutN \in 0 .. c - 1
    BY <1>1, <2>2
  <2>4. QED
    BY <2>3 DEF Block, k
<1>4. \A i \in 1 .. L : rows[i] \in kept /\ Rank(rows[i]) = Block(i)
  <2> SUFFICES ASSUME NEW i \in 1 .. L
               PROVE  rows[i] \in kept /\ Rank(rows[i]) = Block(i)
    OBVIOUS
  <2>1. Block(i) \in 0 .. Cardinality(kept) - 1
    BY <1>3
  <2>2. \E p \in kept : Rank(p) = Block(i)
    BY <2>1, RankOfNumber
  <2> HIDE DEF L, rows, Rank
  <2>3. rows[i] = CHOOSE p \in kept : Rank(p) = Block(i)
    BY <1>2
  <2>4. QED
    BY <2>2, <2>3
<1>5. \A i, j \in 1 .. L : Block(i) = Block(j) => rows[i] = rows[j]
  <2> HIDE DEF L, rows, Rank
  <2>1. QED
    BY <1>2
<1>6. rows \in Seq(Nat) /\ Len(rows) = L /\ rows \in [1 .. L -> kept]
  <2> HIDE DEF L, Rank
  <2>1. rows \in [1 .. L -> kept]
    BY <1>2, <1>4
  <2> HIDE DEF rows
  <2>2. rows \in [1 .. L -> Nat]
    BY <2>1
  <2>3. QED
    BY <1>1, <2>1, <2>2, AsSequence
<1>7. GroupsOf(rows, c)
  <2> HIDE DEF rows, Rank
  <2>1. QED
    BY <1>4, <1>5, <1>6, Zenon DEF GroupsOf, L
<1>8. Prompts(rows) \subseteq kept
  <2> HIDE DEF rows, L
  <2>1. QED
    BY <1>4, <1>6 DEF Prompts
<1>9. QED
  BY <1>7, <1>8

\* Appending the groups of other prompts gives groups.
LEMMA GroupsJoined ==
  ASSUME NEW a, NEW b, NEW n \in Nat, NEW m \in Nat,
         GroupsOf(a, n), GroupsOf(b, m), Prompts(a) \cap Prompts(b) = {}
  PROVE  /\ GroupsOf(a \o b, n + m)
         /\ Prompts(a \o b) = Prompts(a) \cup Prompts(b)
<1> DEFINE x == n * RolloutN
           y == m * RolloutN
           ab == a \o b
<1>1. /\ a \in Seq(Nat) /\ b \in Seq(Nat) /\ Len(a) = x /\ Len(b) = y
      /\ \A i, j \in 1 .. x : a[i] = a[j] <=> Block(i) = Block(j)
      /\ \A i, j \in 1 .. y : b[i] = b[j] <=> Block(i) = Block(j)
  BY Zenon DEF GroupsOf
<1>2. x \in Nat /\ y \in Nat /\ (n + m) * RolloutN = x + y
  BY SMTT(30)
<1>3. /\ ab \in Seq(Nat) /\ Len(ab) = x + y
      /\ \A i \in 1 .. x + y : ab[i] = IF i <= x THEN a[i] ELSE b[i - x]
  <2> HIDE DEF x, y
  <2>0. a \in Seq(Nat) /\ b \in Seq(Nat)
    BY <1>1
  <2>1. /\ ab \in Seq(Nat) /\ Len(ab) = Len(a) + Len(b)
        /\ \A i \in 1 .. Len(a) + Len(b) :
             ab[i] = IF i <= Len(a) THEN a[i] ELSE b[i - Len(a)]
    BY <2>0, ConcatProperties, Zenon
  <2>2. Len(a) = x /\ Len(b) = y
    BY <1>1
  <2> HIDE DEF ab
  <2>3. QED
    BY <2>1, <2>2
<1> HIDE DEF ab
<1>4. \A i \in 1 .. x : Block(i) < n /\ Block(i) \in Nat
  <2> SUFFICES ASSUME NEW i \in 1 .. x PROVE Block(i) < n /\ Block(i) \in Nat
    OBVIOUS
  <2> DEFINE k == i - 1
  <2>1. k \in Nat /\ k < x
    BY <1>2
  <2> HIDE DEF k
  <2>2. QED
    <3>1. k \div RolloutN \in Nat /\ k \div RolloutN < n
      BY <2>1, BlockOf, BlockBelow
    <3>2. QED
      BY <3>1 DEF Block, k
<1>5. \A i \in 1 .. y : Block(i) \in Nat /\ Block(x + i) = n + Block(i)
  <2> SUFFICES ASSUME NEW i \in 1 .. y
               PROVE  Block(i) \in Nat /\ Block(x + i) = n + Block(i)
    OBVIOUS
  <2> DEFINE k == i - 1
  <2>1. k \in Nat /\ x + i - 1 = x + k
    BY <1>2
  <2> HIDE DEF k
  <2>2. k \div RolloutN \in Nat /\ (x + k) \div RolloutN = n + k \div RolloutN
    BY <2>1, BlockOf, BlockShift
  <2>3. QED
    BY <2>1, <2>2 DEF Block, k
<1> HIDE DEF x, y
<1>6. /\ \A i \in 1 .. x : ab[i] = a[i]
      /\ \A i \in 1 .. y : ab[x + i] = b[i]
  <2>1. \A i \in 1 .. x : ab[i] = a[i]
    BY <1>2, <1>3
  <2>2. ASSUME NEW i \in 1 .. y PROVE ab[x + i] = b[i]
    <3> DEFINE j == x + i
    <3>1. j \in 1 .. x + y /\ ~ (j <= x) /\ j - x = i
      BY <1>2
    <3> HIDE DEF j
    <3>2. ab[j] = b[j - x]
      BY <1>3, <3>1
    <3>3. QED
      BY <3>1, <3>2 DEF j
  <2>3. QED
    BY <2>1, <2>2
<1>7. \A i \in 1 .. x + y : i \in 1 .. x \/ \E k \in 1 .. y : i = x + k
  <2> SUFFICES ASSUME NEW i \in 1 .. x + y, i \notin 1 .. x
               PROVE  \E k \in 1 .. y : i = x + k
    OBVIOUS
  <2>1. i - x \in 1 .. y /\ i = x + (i - x)
    BY <1>2
  <2>2. QED
    BY <2>1
<1>8. \A i \in 1 .. x, k \in 1 .. y : a[i] # b[k] /\ Block(i) # Block(x + k)
  <2> SUFFICES ASSUME NEW i \in 1 .. x, NEW k \in 1 .. y
               PROVE  a[i] # b[k] /\ Block(i) # Block(x + k)
    OBVIOUS
  <2>1. a[i] \in Prompts(a) /\ b[k] \in Prompts(b)
    BY <1>1 DEF Prompts
  <2>2. Block(i) \in Nat /\ Block(i) < n /\ Block(k) \in Nat /\ Block(x + k) = n + Block(k)
    BY <1>4, <1>5
  <2>3. QED
    BY <2>1, <2>2
<1>9. \A i, k \in 1 .. y : Block(x + i) = Block(x + k) <=> Block(i) = Block(k)
  BY <1>5
<1>10. ASSUME NEW i \in 1 .. x + y, NEW j \in 1 .. x + y
       PROVE  ab[i] = ab[j] <=> Block(i) = Block(j)
  <2>1. CASE i \in 1 .. x /\ j \in 1 .. x
    BY <2>1, <1>1, <1>6
  <2>2. ASSUME i \in 1 .. x, NEW k \in 1 .. y, j = x + k
        PROVE  ab[i] = ab[j] <=> Block(i) = Block(j)
    BY <2>2, <1>6, <1>8
  <2>3. ASSUME j \in 1 .. x, NEW k \in 1 .. y, i = x + k
        PROVE  ab[i] = ab[j] <=> Block(i) = Block(j)
    BY <2>3, <1>6, <1>8
  <2>4. ASSUME NEW k \in 1 .. y, i = x + k, NEW l \in 1 .. y, j = x + l
        PROVE  ab[i] = ab[j] <=> Block(i) = Block(j)
    BY <2>4, <1>1, <1>6, <1>9, SMTT(60)
  <2>5. QED
    BY <2>1, <2>2, <2>3, <2>4, <1>7
<1>11. GroupsOf(ab, n + m)
  BY <1>2, <1>3, <1>10, Zenon DEF GroupsOf
<1>12. Prompts(ab) = Prompts(a) \cup Prompts(b)
  <2>1. ASSUME NEW p \in Prompts(ab) PROVE p \in Prompts(a) \cup Prompts(b)
    <3>1. PICK i \in 1 .. x + y : p = ab[i]
      BY <1>3, <2>1 DEF Prompts
    <3>2. CASE i \in 1 .. x
      BY <1>1, <1>6, <3>1, <3>2 DEF Prompts
    <3>3. ASSUME NEW k \in 1 .. y, i = x + k PROVE p \in Prompts(b)
      BY <1>1, <1>6, <3>1, <3>3 DEF Prompts
    <3>4. QED
      BY <1>7, <3>2, <3>3
  <2>2. ASSUME NEW p \in Prompts(a) PROVE p \in Prompts(ab)
    <3>1. \A i \in 1 .. x : i \in 1 .. x + y
      BY <1>2
    <3>2. QED
      BY <1>1, <1>3, <1>6, <3>1 DEF Prompts
  <2>3. ASSUME NEW p \in Prompts(b) PROVE p \in Prompts(ab)
    <3>1. \A i \in 1 .. y : x + i \in 1 .. x + y
      BY <1>2
    <3>2. QED
      BY <1>1, <1>3, <1>6, <3>1 DEF Prompts
  <2>4. QED
    BY <2>1, <2>2, <2>3
<1>13. QED
  BY <1>11, <1>12 DEF ab

\* Cutting behind whole groups leaves whole groups.
LEMMA GroupsCut ==
  ASSUME NEW rows, NEW n \in Nat, GroupsOf(rows, n), n >= TrainBsz
  PROVE  LET cut == IF Len(rows) > TrainBsz * RolloutN
                      THEN SubSeq(rows, 1, TrainBsz * RolloutN) ELSE rows
         IN  GroupsOf(cut, TrainBsz) /\ Prompts(cut) \subseteq Prompts(rows)
<1> DEFINE x == TrainBsz * RolloutN
           y == n * RolloutN
           cut == SubSeq(rows, 1, x)
<1>1. /\ rows \in Seq(Nat) /\ Len(rows) = y
      /\ \A i, j \in 1 .. y : rows[i] = rows[j] <=> Block(i) = Block(j)
  BY Zenon DEF GroupsOf
<1>2. x \in Nat /\ y \in Nat
  BY SMTT(30)
<1>3. n > TrainBsz => x + RolloutN <= y
  BY BlocksApart
<1>4. x <= y /\ (~ (y > x) => n = TrainBsz)
  <2>1. n = TrainBsz => x = y
    OBVIOUS
  <2> HIDE DEF x, y
  <2>2. QED
    BY <1>2, <1>3, <2>1
<1>5. CASE Len(rows) > x
  <2> HIDE DEF x, y
  <2>1. \A i \in 1 .. x : rows[i] \in Nat
    BY <1>1, <1>2, <1>4
  <2>2. /\ cut \in Seq(Nat) /\ Len(cut) = x
        /\ \A i \in 1 .. x : cut[i] = rows[i]
    <3>1. 1 \in Int /\ x \in Int
      BY <1>2
    <3>2. /\ cut \in Seq(Nat) /\ Len(cut) = IF 1 <= x THEN x - 1 + 1 ELSE 0
          /\ \A i \in 1 .. x - 1 + 1 : cut[i] = rows[1 + i - 1]
      BY <2>1, <3>1, SubSeqProperties
    <3>3. x - 1 + 1 = x /\ \A i \in 1 .. x : 1 + i - 1 = i
      BY <1>2
    <3> HIDE DEF cut
    <3>4. QED
      BY <1>2, <3>2, <3>3
  <2> HIDE DEF cut
  <2>3. \A i, j \in 1 .. x : cut[i] = cut[j] <=> Block(i) = Block(j)
    BY <1>1, <1>2, <1>4, <2>2
  <2>4. GroupsOf(cut, TrainBsz)
    BY <2>2, <2>3, Zenon DEF GroupsOf, x
  <2>5. Prompts(cut) \subseteq Prompts(rows)
    BY <1>1, <1>2, <1>4, <2>2 DEF Prompts
  <2>6. QED
    BY <1>5, <2>4, <2>5 DEF x, cut
<1>6. CASE ~ (Len(rows) > x)
  <2>1. n = TrainBsz
    BY <1>1, <1>4, <1>6
  <2>2. GroupsOf(rows, TrainBsz)
    BY <2>1
  <2>3. QED
    BY <1>6, <2>2
<1>7. QED
  BY <1>5, <1>6

\* In groups every prompt has RolloutN rows, and there are as many prompts as
\* groups.
LEMMA GroupsCounted ==
  ASSUME NEW rows, NEW n \in Nat, GroupsOf(rows, n)
  PROVE  /\ Cardinality(Prompts(rows)) = n
         /\ \A p \in Prompts(rows) :
              Cardinality({i \in 1 .. Len(rows) : rows[i] = p}) = RolloutN
<1> DEFINE y == n * RolloutN
           First(k) == (k - 1) * RolloutN + 1
           g == [k \in 1 .. n |-> rows[First(k)]]
           P == Prompts(rows)
<1>1. /\ rows \in Seq(Nat) /\ Len(rows) = y
      /\ \A i, j \in 1 .. y : rows[i] = rows[j] <=> Block(i) = Block(j)
  BY Zenon DEF GroupsOf
<1>2. y \in Nat
  BY SMTT(30)
<1> HIDE DEF y
<1>3. \A i \in 1 .. y : Block(i) \in 0 .. n - 1
  <2> SUFFICES ASSUME NEW i \in 1 .. y PROVE Block(i) \in 0 .. n - 1
    OBVIOUS
  <2> DEFINE k == i - 1
  <2>1. k \in Nat /\ k < y
    BY <1>2
  <2> HIDE DEF k
  <2>2. k \div RolloutN \in Nat /\ k \div RolloutN < n
    BY <2>1, BlockOf, BlockBelow DEF y
  <2>3. k \div RolloutN \in 0 .. n - 1
    BY <2>2
  <2>4. QED
    BY <2>3 DEF Block, k
<1>4. \A k \in 0 .. n - 1 : \A i \in Nat :
        i \in 1 .. y /\ Block(i) = k <=> i \in k * RolloutN + 1 .. k * RolloutN + RolloutN
  <2> SUFFICES ASSUME NEW k \in 0 .. n - 1, NEW i \in Nat
               PROVE  i \in 1 .. y /\ Block(i) = k
                        <=> i \in k * RolloutN + 1 .. k * RolloutN + RolloutN
    OBVIOUS
  <2> DEFINE a == k * RolloutN
             j == i - 1
  <2>1. a \in Nat /\ k \in Nat /\ k < n
    BY SMTT(30)
  <2>2. a + RolloutN <= y
    BY <2>1, BlocksApart DEF y
  <2>3. ASSUME i \in 1 .. y, Block(i) = k
        PROVE  i \in a + 1 .. a + RolloutN
    <3>1. j \in Nat /\ j \div RolloutN = k
      BY <2>3, <1>2 DEF Block
    <3> HIDE DEF j
    <3>2. (j \div RolloutN) * RolloutN <= j /\ j < (j \div RolloutN) * RolloutN + RolloutN
      BY <3>1, BlockOf
    <3>3. a <= j /\ j < a + RolloutN
      BY <3>1, <3>2
    <3> HIDE DEF a
    <3>4. QED
      BY <2>1, <3>1, <3>3 DEF j
  <2>4. ASSUME i \in a + 1 .. a + RolloutN
        PROVE  i \in 1 .. y /\ Block(i) = k
    <3>1. j \in Nat /\ a <= j /\ j < a + RolloutN /\ i \in 1 .. y
      <4> HIDE DEF a
      <4>1. QED
        BY <1>2, <2>1, <2>2, <2>4
    <3> HIDE DEF j
    <3>2. j \div RolloutN = k
      BY <2>1, <3>1, BlockOf
    <3>3. QED
      BY <3>1, <3>2 DEF Block, j
  <2>5. QED
    BY <2>3, <2>4
<1>5. \A k \in 1 .. n : First(k) \in 1 .. y /\ Block(First(k)) = k - 1
  <2> SUFFICES ASSUME NEW k \in 1 .. n
               PROVE  First(k) \in 1 .. y /\ Block(First(k)) = k - 1
    OBVIOUS
  <2> DEFINE a == (k - 1) * RolloutN
  <2>1. a \in Nat /\ k - 1 \in 0 .. n - 1
    BY SMTT(30)
  <2>2. First(k) \in Nat /\ First(k) \in a + 1 .. a + RolloutN
    <3>1. First(k) = a + 1
      OBVIOUS
    <3> HIDE DEF a, First
    <3>2. QED
      BY <2>1, <3>1
  <2> HIDE DEF First
  <2>3. QED
    BY <1>4, <2>1, <2>2
<1> HIDE DEF First
<1>6. g \in [1 .. n -> P]
  BY <1>1, <1>5 DEF Prompts
<1>7. \A k, l \in 1 .. n : g[k] = g[l] => k = l
  BY <1>1, <1>5
<1>8. \A p \in P : \E k \in 1 .. n : g[k] = p
  <2> SUFFICES ASSUME NEW p \in P PROVE \E k \in 1 .. n : g[k] = p
    OBVIOUS
  <2>1. PICK i \in 1 .. y : rows[i] = p
    BY <1>1 DEF Prompts
  <2> DEFINE k == Block(i) + 1
  <2>2. k \in 1 .. n /\ k - 1 = Block(i)
    BY <1>3
  <2> HIDE DEF k
  <2>3. rows[First(k)] = rows[i]
    BY <1>1, <1>5, <2>2
  <2>4. QED
    BY <2>1, <2>2, <2>3
<1>9. Cardinality(P) = n
  <2> HIDE DEF g, P
  <2>1. g \in Surjection(1 .. n, P) /\ g \in Injection(1 .. n, P)
    BY <1>6, <1>7, <1>8, ZenonT(60) DEF Surjection, Injection, IsInjective
  <2>2. IsFiniteSet(1 .. n) /\ Cardinality(1 .. n) = n
    BY FirstNumbers
  <2>3. Cardinality(P) = Cardinality(1 .. n)
    BY <2>1, <2>2, FS_Surjection
  <2>4. QED
    BY <2>2, <2>3
<1>10. ASSUME NEW p \in P
       PROVE  Cardinality({i \in 1 .. Len(rows) : rows[i] = p}) = RolloutN
  <2>1. PICK i0 \in 1 .. y : rows[i0] = p
    BY <1>1, <1>10 DEF Prompts
  <2> DEFINE k == Block(i0)
             a == k * RolloutN
  <2>2. k \in 0 .. n - 1
    BY <1>3
  <2> HIDE DEF k
  <2>3. a + 1 \in Int /\ a + RolloutN \in Int /\ a \in Nat
    BY <2>2, SMTT(30)
  <2>4. \A i \in 1 .. y : rows[i] = p <=> Block(i) = k
    BY <1>1, <2>1 DEF k
  <2>5. {i \in 1 .. Len(rows) : rows[i] = p} = {i \in 1 .. y : Block(i) = k}
    BY <1>1, <2>4
  <2>6. {i \in 1 .. y : Block(i) = k} = a + 1 .. a + RolloutN
    <3>1. \A i \in 1 .. y : i \in Nat
      BY <1>2
    <3>2. \A i \in a + 1 .. a + RolloutN : i \in Nat
      <4> HIDE DEF a
      <4>1. QED
        BY <2>3
    <3>3. QED
      BY <1>4, <2>2, <3>1, <3>2
  <2> HIDE DEF a
  <2>7. Cardinality(a + 1 .. a + RolloutN) = RolloutN
    <3>1. Cardinality(a + 1 .. a + RolloutN)
            = IF a + 1 > a + RolloutN THEN 0 ELSE (a + RolloutN) - (a + 1) + 1
      BY <2>3, FS_Interval
    <3>2. ~ (a + 1 > a + RolloutN) /\ (a + RolloutN) - (a + 1) + 1 = RolloutN
      BY <2>3
    <3>3. QED
      BY <3>1, <3>2
  <2>8. QED
    BY <2>5, <2>6, <2>7
<1>11. QED
  BY <1>9, <1>10

\* The prompts a filter keeps are a finite set of new ones.
LEMMA KeptPrompts ==
  ASSUME drawn \in Nat, NEW kept \in PossiblyKept
  PROVE  /\ IsFiniteSet(kept) /\ kept \in SUBSET Nat
         /\ \A p \in kept : drawn * GenBsz < p /\ p <= (drawn + 1) * GenBsz
         /\ drawn * GenBsz <= (drawn + 1) * GenBsz
<1> DEFINE a == drawn * GenBsz
           b == (drawn + 1) * GenBsz
<1>1. a \in Nat /\ b \in Nat /\ a <= b
  BY SMTT(30)
<1>2. kept \subseteq a + 1 .. b
  BY DEF PossiblyKept, NewPrompts
<1> HIDE DEF a, b
<1>3. IsFiniteSet(a + 1 .. b)
  BY <1>1, FS_Interval
<1>4. IsFiniteSet(kept)
  BY <1>2, <1>3, FS_Subset
<1>5. \A p \in kept : p \in Nat /\ a < p /\ p <= b
  BY <1>1, <1>2
<1>6. QED
  BY <1>1, <1>4, <1>5 DEF a, b

\* The rows of the batch, what was trained and what the checkpoint holds stem
\* from draws the loader has made; before an update the rows are whole groups of
\* prompts that were never trained on.
Drawn ==
  /\ batch \in Seq(Nat) /\ trained \in SUBSET Nat /\ ckpt.trained \in SUBSET Nat
  /\ \A p \in Prompts(batch) : p <= drawn * GenBsz
  /\ \A p \in trained : p <= drawn * GenBsz
  /\ \A p \in ckpt.trained : p <= ckpt.drawn * GenBsz

Whole ==
  /\ pc \in {"collect", "update"} => Prompts(batch) \cap trained = {}
  /\ pc = "collect" /\ FilterGroups => GroupsOf(batch, numPrompt)
  /\ pc = "update" /\ FilterGroups => GroupsOf(batch, TrainBsz)

\* An empty batch holds no groups.
LEMMA NoGroups == <<>> \in Seq(Nat) /\ Prompts(<<>>) = {} /\ GroupsOf(<<>>, 0)
<1>1. <<>> \in Seq(Nat) /\ Len(<<>>) = 0 /\ 0 * RolloutN = 0 /\ 1 .. 0 = {}
  BY EmptySeq, SMTT(30)
<1>2. QED
  BY <1>1 DEF GroupsOf, Prompts

\* What one generation batch does to the rows.
LEMMA Draws ==
  ASSUME Counters, Drawn, Whole, pc = "collect", NEW kept \in PossiblyKept
  PROVE  /\ Accumulated(kept) \in Seq(Nat)
         /\ \A p \in Prompts(Accumulated(kept)) : p <= (drawn + 1) * GenBsz
         /\ Prompts(Accumulated(kept)) \cap trained = {}
         /\ \A p \in trained : p <= (drawn + 1) * GenBsz
         /\ FilterGroups => GroupsOf(Accumulated(kept), numPrompt + Cardinality(kept))
<1> DEFINE new == Rows(kept)
           c == Cardinality(kept)
           a == drawn * GenBsz
           b == (drawn + 1) * GenBsz
<1>1. drawn \in Nat /\ numPrompt \in Nat
  BY DEF Counters
<1>2. /\ IsFiniteSet(kept) /\ kept \in SUBSET Nat
      /\ \A p \in kept : a < p /\ p <= b
      /\ a <= b /\ a \in Nat /\ b \in Nat
  BY <1>1, KeptPrompts, SMTT(30)
<1>3. c \in Nat
  BY <1>2, FS_CardinalityType
<1>4. GroupsOf(new, c) /\ Prompts(new) \subseteq kept
  BY <1>2, RowsAreGroups
<1>5. /\ batch \in Seq(Nat) /\ trained \in SUBSET Nat /\ Prompts(batch) \cap trained = {}
      /\ \A p \in Prompts(batch) : p <= a
      /\ \A p \in trained : p <= a
  BY DEF Drawn, Whole
<1>6. Prompts(batch) \in SUBSET Nat
  BY <1>5 DEF Prompts
<1> HIDE DEF a, b, new, c
<1>7. Prompts(new) \cap trained = {} /\ Prompts(batch) \cap Prompts(new) = {}
  <2>1. \A p \in kept : p \in Nat /\ ~ (p <= a)
    BY <1>2
  <2>2. QED
    BY <1>4, <1>5, <2>1
<1>8. \A p \in trained \cup Prompts(batch) \cup Prompts(new) : p <= b
  <2>1. \A p \in Nat : p <= a => p <= b
    BY <1>2
  <2>2. QED
    BY <1>2, <1>4, <1>5, <1>6, <2>1
<1>9. CASE FilterGroups
  <2>1. GroupsOf(batch, numPrompt)
    BY <1>9 DEF Whole
  <2>2. /\ GroupsOf(batch \o new, numPrompt + c)
        /\ Prompts(batch \o new) = Prompts(batch) \cup Prompts(new)
    BY <1>1, <1>3, <1>4, <1>7, <2>1, GroupsJoined
  <2>3. Accumulated(kept) = batch \o new
    BY <1>9 DEF Accumulated, new
  <2>4. QED
    BY <1>5, <1>7, <1>8, <2>2, <2>3 DEF GroupsOf, b, c
<1>10. CASE ~ FilterGroups
  <2>1. Accumulated(kept) = new
    BY <1>10 DEF Accumulated, new
  <2>2. QED
    BY <1>4, <1>7, <1>8, <1>10, <2>1 DEF GroupsOf, b
<1>11. QED
  BY <1>9, <1>10

\* Rows stem from draws and are whole groups in every reachable state.
LEMMA GroupsInvariant == Spec => [](Drawn /\ Whole)
<1>1. Init => Drawn /\ Whole
  BY NoGroups DEF Init, Drawn, Whole, NoCheckpoint
<1>2. Counters /\ Drawn /\ Whole /\ [Next]_vars => (Drawn /\ Whole)'
  <2> SUFFICES ASSUME Counters, Drawn, Whole, [Next]_vars PROVE Drawn' /\ Whole'
    OBVIOUS
  <2>1. CASE Launch
    <3>1. /\ batch' = <<>> /\ numPrompt' = 0 /\ trained' = ckpt.trained
          /\ drawn' = ckpt.drawn /\ ckpt' = ckpt /\ pc' = "collect"
      BY <2>1 DEF Launch
    <3>2. Prompts(batch)' = Prompts(<<>>)
      BY <3>1 DEF Prompts
    <3>3. GroupsOf(batch', numPrompt')
      BY <3>1, NoGroups
    <3>4. QED
      BY <3>1, <3>2, <3>3, NoGroups DEF Drawn, Whole
  <2>2. ASSUME NEW kept \in PossiblyKept,
               KeepGenerating(kept) \/ GiveUp(kept) \/ Enough(kept)
        PROVE  Drawn' /\ Whole'
    <3> DEFINE acc == Accumulated(kept)
               n == numPrompt + Cardinality(kept)
    <3>1. /\ pc = "collect" /\ drawn' = drawn + 1
          /\ trained' = trained /\ ckpt' = ckpt
      BY <2>2 DEF KeepGenerating, GiveUp, Enough, Draw
    <3>2. /\ acc \in Seq(Nat)
          /\ \A p \in Prompts(acc) : p <= drawn' * GenBsz
          /\ Prompts(acc) \cap trained = {}
          /\ \A p \in trained : p <= drawn' * GenBsz
          /\ FilterGroups => GroupsOf(acc, n)
      BY <3>1, Draws
    <3>3. n \in Nat
      <4>1. Cardinality(kept) \in 0 .. GenBsz /\ numPrompt \in Nat
        BY KeptBound DEF Counters
      <4>2. QED
        BY <4>1
    <3> HIDE DEF acc, n
    <3>4. ASSUME batch' \in Seq(Nat), Prompts(batch') \subseteq Prompts(acc)
          PROVE  Drawn' /\ Prompts(batch') \cap trained' = {}
      <4>1. \A p \in Prompts(batch') : p <= drawn' * GenBsz
        BY <3>2, <3>4
      <4>2. Prompts(batch)' = Prompts(batch')
        BY DEF Prompts
      <4>3. QED
        BY <3>1, <3>2, <3>4, <4>1, <4>2 DEF Drawn
    <3>5. CASE KeepGenerating(kept) \/ GiveUp(kept)
      <4>1. /\ batch' = acc /\ numPrompt' = n /\ FilterGroups
            /\ pc' \in {"collect", "raised"}
        BY <3>1, <3>5 DEF KeepGenerating, GiveUp, acc, n
      <4>2. Prompts(batch)' = Prompts(batch') /\ GroupsOf(batch, numPrompt)' = GroupsOf(acc, n)
        BY <4>1 DEF Prompts, GroupsOf, Block
      <4>3. QED
        BY <3>2, <3>4, <4>1, <4>2 DEF Whole
    <3>6. CASE Enough(kept)
      <4>1. /\ batch' = Truncated(acc) /\ pc' = "update"
            /\ FilterGroups => n >= TrainBsz
        BY <3>6 DEF Enough, acc, n
      <4>2. CASE FilterGroups
        <5> DEFINE cut == IF Len(acc) > TrainBsz * RolloutN
                            THEN SubSeq(acc, 1, TrainBsz * RolloutN) ELSE acc
        <5>1. GroupsOf(cut, TrainBsz) /\ Prompts(cut) \subseteq Prompts(acc)
          BY <3>2, <3>3, <4>1, <4>2, GroupsCut
        <5>2. batch' = cut
          BY <4>1, <4>2 DEF Truncated
        <5> HIDE DEF cut
        <5>3. GroupsOf(batch', TrainBsz) /\ Prompts(batch') \subseteq Prompts(acc)
          BY <5>1, <5>2
        <5>4. batch' \in Seq(Nat)
          BY <5>3 DEF GroupsOf
        <5>5. Prompts(batch)' = Prompts(batch')
          BY DEF Prompts
        <5>6. QED
          BY <3>4, <4>1, <5>3, <5>4, <5>5 DEF Whole
      <4>3. CASE ~ FilterGroups
        <5>1. batch' = acc
          BY <4>1, <4>3 DEF Truncated
        <5>2. Prompts(batch)' = Prompts(batch')
          BY DEF Prompts
        <5>3. QED
          BY <3>2, <3>4, <4>1, <4>3, <5>1, <5>2 DEF Whole
      <4>4. QED
        BY <4>2, <4>3
    <3>7. QED
      BY <2>2, <3>5, <3>6
  <2>3. CASE EndOfPass
    <3>1. /\ UNCHANGED <<drawn, batch, numPrompt, trained, ckpt>>
          /\ pc = "collect" /\ pc' \in {"collect", "exhausted"}
      BY <2>3 DEF EndOfPass
    <3>2. QED
      BY <3>1 DEF Drawn, Whole, Prompts, GroupsOf, Block
  <2>4. CASE Update
    <3>1. /\ UNCHANGED <<drawn, batch, numPrompt, ckpt>>
          /\ pc' = "save" /\ trained' = trained \cup Prompts(batch)
      BY <2>4 DEF Update, loader
    <3>2. Prompts(batch) \in SUBSET Nat
      BY DEF Drawn, Prompts
    <3>3. Prompts(batch)' = Prompts(batch)
      BY <3>1 DEF Prompts
    <3>4. QED
      BY <3>1, <3>2, <3>3 DEF Drawn, Whole
  <2>5. CASE Save
    <3>1. UNCHANGED <<drawn, batch, numPrompt, trained>> /\ pc' = "end"
      BY <2>5 DEF Save, loader
    <3>2. \/ ckpt' = ckpt
          \/ ckpt'.trained = trained /\ ckpt'.drawn = drawn
      BY <2>5 DEF Save, Snapshot
    <3>3. Prompts(batch)' = Prompts(batch)
      BY <3>1 DEF Prompts
    <3>4. QED
      BY <3>1, <3>2, <3>3 DEF Drawn, Whole
  <2>6. CASE EndStep
    <3>1. /\ batch' = <<>> /\ numPrompt' = 0 /\ trained' = trained
          /\ drawn' = drawn /\ ckpt' = ckpt /\ pc' \in {"done", "collect"}
      BY <2>6 DEF EndStep, loader
    <3>2. Prompts(batch)' = Prompts(<<>>)
      BY <3>1 DEF Prompts
    <3>3. GroupsOf(batch', numPrompt')
      BY <3>1, NoGroups
    <3>4. QED
      BY <3>1, <3>2, <3>3, NoGroups DEF Drawn, Whole
  <2>7. CASE Crash \/ Over \/ UNCHANGED vars
    <3>1. /\ UNCHANGED <<drawn, batch, numPrompt, trained, ckpt>>
          /\ pc' = pc \/ pc' = "down"
      BY <2>7 DEF Crash, Over, vars, loader
    <3>2. QED
      BY <3>1 DEF Drawn, Whole, Prompts, GroupsOf, Block
  <2>8. QED
    BY <2>1, <2>2, <2>3, <2>4, <2>5, <2>6, <2>7 DEF Next, Fit
<1>3. QED
  BY <1>1, <1>2, CountersTyped, PTL DEF Spec

\* An update sees exactly train_batch_size prompts with all of their rollouts,
\* however the generation batches were filtered, concatenated and cut.
THEOREM BatchesAreExact == Spec => []ExactBatch
<1>1. Whole => ExactBatch
  BY GroupsCounted DEF Whole, ExactBatch
<1>2. QED
  BY <1>1, GroupsInvariant, PTL

\* The counter of prompts agrees with the rows accumulated, over the ends of
\* passes, discarded batches and relaunches.
THEOREM CounterMatchesRows == Spec => []CountMatches
<1>1. Whole /\ RoomToGenerate => CountMatches
  BY DEF Whole, RoomToGenerate, CountMatches, GroupsOf
<1>2. QED
  BY <1>1, GroupsInvariant, RoomInvariant, PTL

\* No draw of a prompt is trained on twice by the training that survives, across
\* any number of crashes and resumes.
THEOREM DrawsTrainOnce == Spec => []TrainedOnce
<1>1. Whole => TrainedOnce
  BY DEF Whole, TrainedOnce
<1>2. QED
  BY <1>1, GroupsInvariant, PTL

------------------------------------------------------------------------------
(* The loader of IRT.  A step of MCJobs is a step of IrtLoader or leaves   *)
(* its variables alone, so what IrtProofs shows of IrtLoader holds there.  *)

Selecting == INSTANCE IrtProofs WITH
  LoaderLen <- IrtLoaderLen, TotalEpochs <- IrtEpochs, MaxLaunches <- IrtLaunches,
  pc <- iPc, epoch <- iEpoch, yielded <- iYielded, drawn <- iDrawn,
  exhausted <- iExhausted, pool <- iPool, current <- iCurrent, served <- iServed,
  ckpt <- iCkpt, launches <- iLaunches

\* The variables of IrtLoader behave as IrtLoader says in every run of MCJobs.
LEMMA RunsSelect == MCSpec => Selecting!Spec /\ Selecting!IrtAssumption
<1>1. MCInit => Selecting!Init
  BY DEF MCInit, Irt!Init, Selecting!Init
<1>2. Irt!Next => Selecting!Next
  <2>1. Irt!Select => Selecting!Select
    <3>1. \A score : Irt!Top(score) = Selecting!Top(score)
      BY Zenon DEF Irt!Top, Selecting!Top, Irt!Cardinality, Selecting!Cardinality,
         Irt!IsFiniteSet, Selecting!IsFiniteSet,
         Irt!Indices, Selecting!Indices, Irt!Prompt, Selecting!Prompt,
         Irt!PassRows, Selecting!PassRows, Irt!Precedes, Selecting!Precedes
    <3>2. \A top : Irt!Explored(top) = Selecting!Explored(top)
      BY Zenon DEF Irt!Explored, Selecting!Explored, Irt!Cardinality, Selecting!Cardinality,
         Irt!IsFiniteSet, Selecting!IsFiniteSet,
         Irt!Indices, Selecting!Indices, Irt!PromptsOf, Selecting!PromptsOf,
         Irt!Prompt, Selecting!Prompt, Irt!PassRows, Selecting!PassRows
    <3>3. \A picked : Irt!Filled(picked) = Selecting!Filled(picked)
      BY Zenon DEF Irt!Filled, Selecting!Filled, Irt!Cardinality, Selecting!Cardinality,
         Irt!IsFiniteSet, Selecting!IsFiniteSet,
         Irt!Indices, Selecting!Indices
    <3>4. \A score, rest : Irt!Trimmed(score, rest) = Selecting!Trimmed(score, rest)
      BY Zenon DEF Irt!Trimmed, Selecting!Trimmed, Irt!Cardinality, Selecting!Cardinality,
         Irt!IsFiniteSet, Selecting!IsFiniteSet,
         Irt!PoolMax, Selecting!PoolMax, Irt!PoolTarget, Selecting!PoolTarget,
         Irt!Precedes, Selecting!Precedes, Irt!Prompt, Selecting!Prompt,
         Irt!PassRows, Selecting!PassRows
    <3>5. \A picked : Irt!Remaining(picked) = Selecting!Remaining(picked)
      BY Zenon DEF Irt!Remaining, Selecting!Remaining, Irt!Cardinality, Selecting!Cardinality,
         Irt!IsFiniteSet, Selecting!IsFiniteSet,
         Irt!ElementsAt, Selecting!ElementsAt, Irt!Indices, Selecting!Indices
    <3>6. Irt!Prompts = Selecting!Prompts /\ (Irt!Filling <=> Selecting!Filling)
      BY Zenon DEF Irt!Prompts, Selecting!Prompts, Irt!PassRows, Selecting!PassRows,
         Irt!Filling, Selecting!Filling, Irt!PoolTarget, Selecting!PoolTarget
    <3>7. QED
      BY <3>1, <3>2, <3>3, <3>4, <3>5, <3>6, Zenon DEF Irt!Select, Selecting!Select
  <2>2. Irt!Launch => Selecting!Launch
    BY DEF Irt!Launch, Selecting!Launch
  <2>3. Irt!Ingest => Selecting!Ingest
    BY DEF Irt!Ingest, Selecting!Ingest,
           Irt!Filling, Selecting!Filling,
           Irt!PoolTarget, Selecting!PoolTarget
  <2>4. Irt!StopIteration => Selecting!StopIteration
    BY DEF Irt!StopIteration, Selecting!StopIteration,
           Irt!Filling, Selecting!Filling,
           Irt!PoolTarget, Selecting!PoolTarget
  <2>5. Irt!EndOfPass => Selecting!EndOfPass
    BY DEF Irt!EndOfPass, Selecting!EndOfPass,
           Irt!Filling, Selecting!Filling,
           Irt!PoolTarget, Selecting!PoolTarget
  <2>6. /\ Irt!Train => Selecting!Train
        /\ Irt!Crash => Selecting!Crash
        /\ Irt!Over => Selecting!Over
    BY DEF Irt!Train, Selecting!Train,
           Irt!Crash, Selecting!Crash,
           Irt!Over, Selecting!Over,
           Irt!vars, Selecting!vars
  <2>7. QED
    BY <2>1, <2>2, <2>3, <2>4, <2>5, <2>6 DEF Irt!Next, Selecting!Next
<1>3. [MCNext]_MCVars => [Selecting!Next]_(Selecting!vars)
  BY <1>2 DEF MCNext, MCVars, Dapo, Selection, Operated, OnNode, iVars, Selecting!vars
<1>4. Selecting!IrtAssumption
  BY JobsAssumption
  DEF Irt!IrtAssumption, Irt!PassRows, Selecting!IrtAssumption, Selecting!PassRows
<1>5. QED
  BY <1>1, <1>3, <1>4, PTL DEF MCSpec, Selecting!Spec

\* Every batch that is trained on is full, however many duplicates the pool
\* holds (recipe/irt/test_irt.py, B2), whatever job runs.
THEOREM RunsServeFullBatches == MCSpec => []FullBatches
<1>1. Selecting!IrtAssumption => (Selecting!Spec => []Selecting!FullBatches)
  BY Selecting!BatchesAreFull
<1>2. Selecting!FullBatches => FullBatches
  BY DEF FullBatches,
         Irt!FullBatches, Irt!Cardinality, Irt!IsFiniteSet,
         Selecting!FullBatches, Selecting!Cardinality, Selecting!IsFiniteSet
<1>3. QED
  BY <1>1, <1>2, RunsSelect, PTL

\* No row is pooled, being served and served in two places at once, also after
\* a relaunch from a checkpoint the pool is no part of.
THEOREM RunsServeRowsOnce == MCSpec => []RowsOnce
<1>1. Selecting!IrtAssumption => (Selecting!Spec => []Selecting!RowsOnce)
  BY Selecting!RowsAreOnce
<1>2. Selecting!RowsOnce => RowsOnce
  BY DEF RowsOnce,
         Irt!RowsOnce, Irt!Contents, Irt!Cardinality, Irt!IsFiniteSet,
         Selecting!RowsOnce, Selecting!Contents, Selecting!Cardinality,
         Selecting!IsFiniteSet
<1>3. QED
  BY <1>1, <1>2, RunsSelect, PTL

\* Rows that were drawn are missing only because a relaunch forgets the pool,
\* and each forgets at most one pool (irt_selector.py, state_dict).
THEOREM RunsBoundSkips == MCSpec => []SkippedBounded
<1>1. Selecting!IrtAssumption => (Selecting!Spec => []Selecting!SkippedBounded)
  BY Selecting!SkipsAreBounded
<1>2. Selecting!SkippedBounded => SkippedBounded
  BY DEF SkippedBounded,
         Irt!SkippedBounded, Irt!Missing, Irt!DrawnRows, Irt!Contents,
         Irt!PoolTarget, Irt!Cardinality, Irt!IsFiniteSet,
         Selecting!SkippedBounded, Selecting!Missing, Selecting!DrawnRows,
         Selecting!Contents, Selecting!PoolTarget, Selecting!Cardinality,
         Selecting!IsFiniteSet
<1>3. QED
  BY <1>1, <1>2, RunsSelect, PTL

\* A job that is over has served everything it drew but for less than a batch.
THEOREM RunsLeaveNothing == MCSpec => []EverythingServed
<1>1. Selecting!IrtAssumption => (Selecting!Spec => []Selecting!EverythingServed)
  BY Selecting!NothingIsLeft
<1>2. Selecting!EverythingServed => EverythingServed
  BY DEF EverythingServed, Irt!EverythingServed, Selecting!EverythingServed
<1>3. QED
  BY <1>1, <1>2, RunsSelect, PTL

------------------------------------------------------------------------------
(* The operator's job.  A step of MCJobs is a step of its Checkpoint or    *)
(* leaves its variables alone, so what CheckpointProofs shows for every    *)
(* resume mode holds there.                                                *)

Operating == INSTANCE CheckpointProofs WITH
  SaveFreq <- OpSaveFreq, TotalSteps <- OpTotalSteps, MaxLaunches <- OpLaunches,
  ResumeModes <- {"auto", "disable", "resume_path"},
  pc <- oPc, globalSteps <- oSteps, era <- oEra, rpc <- oRpc, saved <- oSaved,
  shard <- oShard, data <- oData, sidecar <- oSidecar, tracker <- oTracker

\* The variables of the operator's job behave as Checkpoint says in every run of
\* MCJobs.
LEMMA RunsOperate == MCSpec => Operating!Spec /\ Operating!CheckpointAssumption
<1>1. MCInit => Operating!Init
  BY DEF MCInit, Operator!Init, Operating!Init,
     Operator!Ranks, Operating!Ranks, Operator!Roles, Operating!Roles,
     Operator!Steps, Operating!Steps, Operator!NoFile, Operating!NoFile
<1>2. Operator!Launch => Operating!Launch
  BY Zenon DEF Operator!Launch, Operating!Launch,
     Operator!AtRest, Operating!AtRest, Operator!Ranks, Operating!Ranks,
     Operator!Roles, Operating!Roles, Operator!disk, Operating!disk,
     Operator!FreshStart, Operating!FreshStart, Operator!ScratchIn, Operating!ScratchIn,
     Operator!ResumeFrom, Operating!ResumeFrom, Operator!ResumeFails, Operating!ResumeFails,
     Operator!Folders, Operating!Folders, Operator!Loadable, Operating!Loadable,
     Operator!Steps, Operating!Steps, Operator!NoFile, Operating!NoFile,
     Operator!Torn, Operating!Torn
<1>3. Operator!Run => Operating!Run
  BY Zenon DEF Operator!Run, Operating!Run,
     Operator!TrainStep, Operating!TrainStep, Operator!EndStep, Operating!EndStep,
     Operator!SaveDue, Operating!SaveDue, Operator!IsLastStep, Operating!IsLastStep,
     Operator!RemoveOld, Operating!RemoveOld, Operator!Doomed, Operating!Doomed,
     Operator!Excess, Operating!Excess, Operator!GroupSaved, Operating!GroupSaved,
     Operator!ArriveAtBarrier, Operating!ArriveAtBarrier,
     Operator!OpenShard, Operating!OpenShard, Operator!DumpShard, Operating!DumpShard,
     Operator!ReturnFromSave, Operating!ReturnFromSave,
     Operator!OpenData, Operating!OpenData, Operator!WriteData, Operating!WriteData,
     Operator!OpenTracker, Operating!OpenTracker,
     Operator!WriteTracker, Operating!WriteTracker,
     Operator!OpenSidecar, Operating!OpenSidecar,
     Operator!WriteSidecar, Operating!WriteSidecar,
     Operator!Ranks, Operating!Ranks, Operator!Roles, Operating!Roles,
     Operator!disk, Operating!disk, Operator!memory, Operating!memory,
     Operator!Torn, Operating!Torn
<1>4. Operator!Crash => Operating!Crash
  BY DEF Operator!Crash, Operating!Crash, Operator!AtRest, Operating!AtRest,
     Operator!Ranks, Operating!Ranks, Operator!Roles, Operating!Roles,
     Operator!disk, Operating!disk
<1>5. Operator!Over => Operating!Over
  BY DEF Operator!Over, Operating!Over, Operator!vars, Operating!vars
<1>6. [MCNext]_MCVars => [Operating!Next]_(Operating!vars)
  <2>1. Operator!Next => Operating!Next
    BY <1>2, <1>3, <1>4, <1>5 DEF Operator!Next, Operating!Next
  <2>2. QED
    BY <2>1 DEF MCNext, MCVars, Dapo, Selection, Operated, OnNode, oVars, Operating!vars
<1>7. Operating!CheckpointAssumption
  BY JobsAssumption DEF Operator!CheckpointAssumption, Operating!CheckpointAssumption
<1>8. QED
  BY <1>1, <1>6, <1>7, PTL DEF MCSpec, Operating!Spec

\* Whatever modes its launches have, and whatever earlier launches have left in
\* the directories it writes to, no launch keeps more directories of its own than
\* max_ckpt_to_keep (fsdp_checkpoint_manager.py, save_checkpoint).
THEOREM RotatesInAnyMode == MCSpec => []RotationInAnyMode
<1>1. Operating!CheckpointAssumption => (Operating!Spec => []Operating!RotationBound)
  BY Operating!RotationIsBounded
<1>2. Operating!RotationBound => RotationInAnyMode
  BY Zenon DEF RotationInAnyMode, Operator!RotationBound, Operating!RotationBound,
     Operator!OwnDirs, Operating!OwnDirs, Operator!Roles, Operating!Roles,
     Operator!Ranks, Operating!Ranks, Operator!Steps, Operating!Steps,
     Operator!Cardinality, Operating!Cardinality,
     Operator!IsFiniteSet, Operating!IsFiniteSet
<1>3. QED
  BY <1>1, <1>2, RunsOperate, PTL

------------------------------------------------------------------------------
(* The processes of a node that fetch the model (ModelCache).  As long as  *)
(* no copy has failed their disk is in one of three phases, and only one   *)
(* process shares the memory, as is assumed here, or shm_shared is what    *)
(* happens.                                                                *)

OneSharer == \A u, v \in ShmUsers : u = v

Stages == Node!UnderLock \cup Node!Outside \cup Files

NodeTyped ==
  /\ nPc \in [Users -> Stages]
  /\ \A u \in Users : nPc[u] \in Node!UnderLock <=> nLock = u
  /\ nCached \in (SUBSET Files) \cup {Node!Missing}
  /\ nRecord \in (SUBSET Files) \cup {Node!Missing}
  /\ nShm \in [Files -> {Node!Absent, "torn", "whole"}]
  /\ nTodo \in [Users -> SUBSET Files]
  /\ nCrashes \in Nat

Unshared == \A f \in Files : nShm[f] = Node!Absent

\* No complete record has been written yet.
Building ==
  /\ Unshared
  /\ nRecord \in {Node!Missing, {}}
  /\ nCached = Node!Missing => nRecord = Node!Missing
  /\ \A u \in Users :
       /\ nPc[u] \in Node!UnderLock \cup {"start"} /\ nPc[u] # "unlock"
       /\ nPc[u] = "remove" => nCached # Node!Missing
       /\ nPc[u] \in {"get", "get again"} => nRecord = Node!Missing
       /\ nPc[u] = "record" => nCached = Files /\ nRecord = Node!Missing
       /\ nPc[u] = "walk" => nCached = Files /\ nRecord = {}
  /\ nRecord = {} => nCrashes >= 1 \/ \E u \in Users : nPc[u] = "walk"
  /\ nRecord = {} /\ nCached = {} => \E u \in Users : nPc[u] = "remove"

\* Whatever the process that shares the memory has no longer to copy is whole.
Copied(place, rest) ==
  /\ place = "load" => \A f \in Files : nShm[f] = "whole"
  /\ place = "ship" => \A f \in Files \ rest : nShm[f] = "whole"
  /\ place \in Files => \A f \in Files \ rest : f # place => nShm[f] = "whole"

\* The model and its record are complete, and stay so.
Complete ==
  /\ nCached = Files /\ nRecord = Files
  /\ \A u \in Users :
       /\ nPc[u] \in Node!UnderLock => nPc[u] \in {"look", "unlock"}
       /\ nPc[u] \in {"ship"} \cup Files => u \in ShmUsers
  /\ \A u \in ShmUsers : Copied(nPc[u], nTodo[u])

\* Two crashes have left an empty directory with an empty record, which passes.
Hollow ==
  /\ nCached = {} /\ nRecord = {} /\ nCrashes >= 2 /\ Unshared
  /\ \A u \in Users : nPc[u] \in {"look"} \cup (Node!Outside \ {"ship"})

Fetching == NodeTyped /\ (Building \/ Complete \/ Hollow)

NodeInv == nFails \in Nat /\ (nFails = 0 => Fetching)

\* The names of the places a process can be at are different.
LEMMA Labels ==
  /\ Node!UnderLock \cap Node!Outside = {}
  /\ Files \cap Node!UnderLock = {} /\ Files \cap Node!Outside = {}
  /\ Files # {} /\ Node!Missing \notin SUBSET Files /\ Node!Missing # {}
  /\ Node!NoOne \notin Users /\ ShmUsers \subseteq Users
<1>1. /\ Files # {} /\ Files \cap (Node!UnderLock \cup Node!Outside \cup {Node!Absent}) = {}
      /\ Node!NoOne \notin Users /\ ShmUsers \subseteq Users
  BY JobsAssumption DEF Node!ModelCacheAssumption
<1>2. Node!UnderLock \cap Node!Outside = {}
  BY DEF Node!UnderLock, Node!Outside
<1>3. Node!Missing \notin SUBSET Files /\ Node!Missing # {}
  BY <1>1 DEF Node!Missing
<1>4. QED
  BY <1>1, <1>2, <1>3

\* At first nothing is copied and nobody has the lock.
LEMMA NodeInit == Node!Init => Fetching
<1>1. SUFFICES ASSUME Node!Init PROVE Fetching
  OBVIOUS
<1>2. NodeTyped
  BY <1>1, Labels DEF Node!Init, NodeTyped, Stages, Node!UnderLock, Node!Outside
<1>3. Building
  BY <1>1, Labels DEF Node!Init, Building, Unshared, Node!UnderLock
<1>4. QED
  BY <1>2, <1>3 DEF Fetching

\* A process goes from one place to another, and may take or leave the lock.
LEMMA Goes ==
  ASSUME NodeTyped, NEW u \in Users, NEW p \in Stages, Node!Goto(u, p),
         \/ nLock' = nLock /\ (p \in Node!UnderLock <=> nPc[u] \in Node!UnderLock)
         \/ nLock = Node!NoOne /\ nLock' = u /\ p \in Node!UnderLock
         \/ nLock = u /\ nLock' = Node!NoOne /\ p \notin Node!UnderLock
  PROVE  /\ nPc' \in [Users -> Stages] /\ nPc'[u] = p
         /\ \A v \in Users : v # u => nPc'[v] = nPc[v]
         /\ \A v \in Users : nPc'[v] \in Node!UnderLock <=> nLock' = v
<1>1. nPc \in [Users -> Stages] /\ nPc' = [nPc EXCEPT ![u] = p]
  BY DEF NodeTyped, Node!Goto
<1>2. \A v \in Users : nPc[v] \in Node!UnderLock <=> nLock = v
  BY DEF NodeTyped
<1>3. Node!NoOne \notin Users
  BY Labels
<1>4. QED
  BY <1>1, <1>2, <1>3

\* Only the holder of the lock is at a place under the lock.
LEMMA OneHolder ==
  ASSUME NodeTyped, NEW u \in Users, nPc[u] \in Node!UnderLock
  PROVE  \A v \in Users : v # u => nPc[v] \notin Node!UnderLock
BY DEF NodeTyped

\* A process that is not at, before or behind a copy has copied nothing.
LEMMA CopiedKept ==
  ASSUME Complete, UNCHANGED <<nShm, nTodo, nCached, nRecord>>, NEW u \in Users,
         nPc'[u] \in (Node!UnderLock \cup Node!Outside) \ {"load", "ship"},
         \A v \in Users : v # u => nPc'[v] = nPc[v],
         nPc'[u] \in Node!UnderLock => nPc'[u] \in {"look", "unlock"}
  PROVE  Complete'
<1>1. ASSUME NEW v \in ShmUsers PROVE Copied(nPc[v], nTodo[v])'
  <2>1. v \in Users
    BY Labels
  <2>2. CASE v = u
    <3>1. nPc'[v] \notin Files /\ nPc'[v] # "load" /\ nPc'[v] # "ship"
      BY <2>2, Labels
    <3>2. QED
      BY <3>1 DEF Copied
  <2>3. CASE v # u
    <3>1. nPc'[v] = nPc[v] /\ Copied(nPc[v], nTodo[v])
      BY <2>1, <2>3 DEF Complete
    <3>2. QED
      BY <3>1 DEF Copied
  <2>4. QED
    BY <2>2, <2>3
<1>2. \A v \in Users :
        /\ nPc'[v] \in Node!UnderLock => nPc'[v] \in {"look", "unlock"}
        /\ nPc'[v] \in {"ship"} \cup Files => v \in ShmUsers
  BY Labels DEF Complete
<1>3. QED
  BY <1>1, <1>2 DEF Complete

\* A process takes the lock.
LEMMA NodeLock ==
  ASSUME Fetching, NEW u \in Users, Node!Lock(u)
  PROVE  Fetching'
<1>1. /\ nPc[u] = "start" /\ nLock = Node!NoOne /\ nLock' = u /\ Node!Goto(u, "look")
      /\ UNCHANGED <<nCached, nRecord, nShm, nTodo, nCrashes>>
  BY DEF Node!Lock, Node!disk
<1>2. /\ nPc' \in [Users -> Stages] /\ nPc'[u] = "look"
      /\ \A v \in Users : v # u => nPc'[v] = nPc[v]
      /\ \A v \in Users : nPc'[v] \in Node!UnderLock <=> nLock' = v
  BY <1>1, Goes DEF Fetching, Stages, Node!UnderLock
<1>3. NodeTyped'
  BY <1>1, <1>2 DEF Fetching, NodeTyped
<1>4. \A v \in Users : nPc[v] \notin Node!UnderLock
  BY <1>1, Labels DEF Fetching, NodeTyped
<1>5. CASE Building
  <2>1. \A v \in Users : nPc[v] # "walk" /\ nPc[v] # "remove"
    BY <1>4 DEF Node!UnderLock
  <2>2. Building'
    BY <1>1, <1>2, <1>5, <2>1 DEF Building, Unshared, Node!UnderLock
  <2>3. QED
    BY <1>3, <2>2 DEF Fetching
<1>6. CASE Complete
  <2>1. Complete'
    BY <1>1, <1>2, <1>6, CopiedKept DEF Node!UnderLock
  <2>2. QED
    BY <1>3, <2>1 DEF Fetching
<1>7. CASE Hollow
  <2>1. Hollow'
    BY <1>1, <1>2, <1>7 DEF Hollow, Unshared
  <2>2. QED
    BY <1>3, <2>1 DEF Fetching
<1>8. QED
  BY <1>3, <1>5, <1>6, <1>7 DEF Fetching

\* It finds no directory, one that is as recorded, or one that is not.
LEMMA NodeLook ==
  ASSUME Fetching, NEW u \in Users, Node!Look(u)
  PROVE  Fetching'
<1>1. /\ nPc[u] = "look" /\ UNCHANGED <<nCached, nRecord, nShm, nTodo, nCrashes>>
      /\ \/ nCached = Node!Missing /\ Node!Goto(u, "get") /\ nLock' = nLock
         \/ nCached # Node!Missing /\ nRecord = nCached
              /\ Node!Goto(u, "copied") /\ nLock' = Node!NoOne
         \/ nCached # Node!Missing /\ (nRecord = Node!Missing \/ nRecord # nCached)
              /\ Node!Goto(u, "remove") /\ nLock' = nLock
  BY DEF Node!Look, Node!disk, Node!AsRecorded, Node!Unlock
<1>2. nPc[u] \in Node!UnderLock /\ nLock = u
  BY <1>1 DEF Fetching, NodeTyped, Node!UnderLock
<1>3. \A v \in Users : v # u => nPc[v] \notin Node!UnderLock
  BY <1>2, OneHolder DEF Fetching
<1>4. PICK p \in {"get", "copied", "remove"} :
        /\ Node!Goto(u, p)
        /\ p = "get" => nCached = Node!Missing
        /\ p = "copied" => nRecord = nCached /\ nCached # Node!Missing
        /\ p = "remove" => nCached # Node!Missing /\ nRecord # nCached
        /\ nLock' = IF p = "copied" THEN Node!NoOne ELSE nLock
  BY <1>1
<1>5. /\ nPc' \in [Users -> Stages] /\ nPc'[u] = p
      /\ \A v \in Users : v # u => nPc'[v] = nPc[v]
      /\ \A v \in Users : nPc'[v] \in Node!UnderLock <=> nLock' = v
  BY <1>2, <1>4, Goes DEF Fetching, Stages, Node!UnderLock, Node!Outside
<1>6. NodeTyped'
  BY <1>1, <1>5 DEF Fetching, NodeTyped
<1>7. CASE Building
  <2>1. p # "copied"
    BY <1>1, <1>3, <1>4, <1>7, Labels DEF Building, Node!UnderLock
  <2>2. \A v \in Users : nPc[v] # "walk" /\ nPc[v] # "remove"
    BY <1>1, <1>3 DEF Node!UnderLock
  <2>3. Building'
    BY <1>1, <1>3, <1>4, <1>5, <1>7, <2>1, <2>2 DEF Building, Unshared, Node!UnderLock
  <2>4. QED
    BY <1>6, <2>3 DEF Fetching
<1>8. CASE Complete
  <2>1. p = "copied"
    BY <1>4, <1>8, Labels DEF Complete
  <2>2. Complete'
    BY <1>1, <1>5, <1>8, <2>1, CopiedKept DEF Node!UnderLock, Node!Outside
  <2>3. QED
    BY <1>6, <2>2 DEF Fetching
<1>9. CASE Hollow
  <2>1. p = "copied"
    BY <1>4, <1>9, Labels DEF Hollow
  <2>2. Hollow'
    BY <1>1, <1>5, <1>9, <2>1 DEF Hollow, Unshared, Node!Outside
  <2>3. QED
    BY <1>6, <2>2 DEF Fetching
<1>10. QED
  BY <1>7, <1>8, <1>9 DEF Fetching

\* An entry of a directory that is not as recorded goes, the record among them.
LEMMA NodeRemove ==
  ASSUME Fetching, NEW u \in Users, Node!Remove(u)
  PROVE  Fetching'
<1>1. nPc[u] = "remove" /\ UNCHANGED <<nLock, nShm, nTodo, nCrashes>>
  BY DEF Node!Remove
<1>2. nPc[u] \in Node!UnderLock /\ nLock = u
  BY <1>1 DEF Fetching, NodeTyped, Node!UnderLock
<1>3. \A v \in Users : v # u => nPc[v] \notin Node!UnderLock
  BY <1>2, OneHolder DEF Fetching
<1>4. Building /\ NodeTyped
  BY <1>1, <1>2, Labels DEF Fetching, Complete, Hollow
<1>5. nCached \in SUBSET Files /\ nRecord \in {Node!Missing, {}}
  BY <1>1, <1>4, Labels DEF Building, NodeTyped
<1>6. CASE UNCHANGED nPc /\ nCached' \in SUBSET Files /\ nRecord' \in {nRecord, Node!Missing}
  <2>1. NodeTyped'
    BY <1>1, <1>4, <1>6 DEF NodeTyped
  <2>2. \A v \in Users : nPc[v] \in Node!UnderLock => nPc[v] = "remove"
    BY <1>1, <1>3
  <2>3. nRecord = {} => nCrashes >= 1
    BY <1>4, <2>2 DEF Building, Node!UnderLock
  <2>4. Building'
    BY <1>1, <1>4, <1>5, <1>6, <2>2, <2>3, Labels DEF Building, Unshared, Node!UnderLock
  <2>5. QED
    BY <2>1, <2>4 DEF Fetching
<1>7. CASE /\ nCached' = Node!Missing /\ UNCHANGED nRecord /\ nRecord = Node!Missing
           /\ Node!Goto(u, "get again")
  <2>1. /\ nPc' \in [Users -> Stages] /\ nPc'[u] = "get again"
        /\ \A v \in Users : v # u => nPc'[v] = nPc[v]
        /\ \A v \in Users : nPc'[v] \in Node!UnderLock <=> nLock' = v
    BY <1>1, <1>2, <1>4, <1>7, Goes DEF Stages, Node!UnderLock
  <2>2. NodeTyped'
    BY <1>1, <1>4, <1>7, <2>1 DEF NodeTyped
  <2>3. Building'
    BY <1>1, <1>3, <1>4, <1>7, <2>1, Labels DEF Building, Unshared, Node!UnderLock
  <2>4. QED
    BY <2>2, <2>3 DEF Fetching
<1>8. QED
  BY <1>5, <1>6, <1>7 DEF Node!Remove

\* A copy from HDFS that has not failed.
LEMMA NodeGet ==
  ASSUME Fetching, NEW u \in Users, Node!Get(u), nFails' = nFails, nFails \in Nat
  PROVE  Fetching'
<1>1. /\ nPc[u] \in {"get", "get again"} /\ UNCHANGED <<nRecord, nShm, nTodo, nCrashes>>
      /\ nLock' = IF nPc'[u] = "error" THEN Node!NoOne ELSE nLock
      /\ \/ nCached = Node!Missing /\ nCached' = {} /\ UNCHANGED nPc
         \/ /\ nCached # Node!Missing /\ UNCHANGED nPc
            /\ \E f \in Files \ nCached : nCached' = nCached \cup {f}
         \/ nCached = Files /\ Node!Goto(u, "record") /\ UNCHANGED nCached
  <2>1. nFails + 1 # nFails
    OBVIOUS
  <2>2. QED
    BY <2>1 DEF Node!Get
<1>2. nPc[u] \in Node!UnderLock /\ nLock = u
  BY <1>1 DEF Fetching, NodeTyped, Node!UnderLock
<1>3. \A v \in Users : v # u => nPc[v] \notin Node!UnderLock
  BY <1>2, OneHolder DEF Fetching
<1>4. Building /\ NodeTyped
  BY <1>1, <1>2, Labels DEF Fetching, Complete, Hollow, Node!Outside
<1>5. nRecord = Node!Missing
  BY <1>1, <1>4 DEF Building
<1>6. CASE UNCHANGED nPc /\ nCached' \in SUBSET Files
  <2>1. nLock' = nLock
    BY <1>1, <1>6
  <2>2. NodeTyped'
    BY <1>1, <1>4, <1>6, <2>1 DEF NodeTyped
  <2>3. \A v \in Users : nPc[v] \in Node!UnderLock => nPc[v] \in {"get", "get again"}
    BY <1>1, <1>3
  <2>4. Building'
    BY <1>1, <1>4, <1>5, <1>6, <2>3, Labels DEF Building, Unshared, Node!UnderLock
  <2>5. QED
    BY <2>2, <2>4 DEF Fetching
<1>7. CASE nCached = Files /\ Node!Goto(u, "record") /\ UNCHANGED nCached
  <2>1. nPc' = [nPc EXCEPT ![u] = "record"] /\ nPc'[u] = "record"
    BY <1>4, <1>7 DEF NodeTyped, Node!Goto
  <2>2. nLock' = nLock
    BY <1>1, <2>1
  <2>3. /\ nPc' \in [Users -> Stages] /\ nPc'[u] = "record"
        /\ \A v \in Users : v # u => nPc'[v] = nPc[v]
        /\ \A v \in Users : nPc'[v] \in Node!UnderLock <=> nLock' = v
    BY <1>2, <1>4, <1>7, <2>2, Goes DEF Stages, Node!UnderLock
  <2>4. NodeTyped'
    BY <1>1, <1>4, <1>7, <2>3 DEF NodeTyped
  <2>5. Building'
    BY <1>1, <1>3, <1>4, <1>5, <1>7, <2>3, Labels DEF Building, Unshared, Node!UnderLock
  <2>6. QED
    BY <2>4, <2>5 DEF Fetching
<1>8. nCached = Node!Missing \/ nCached \in SUBSET Files
  BY <1>4 DEF NodeTyped
<1>9. {} \in SUBSET Files /\ \A f \in Files \ nCached :
        nCached \in SUBSET Files => nCached \cup {f} \in SUBSET Files
  OBVIOUS
<1>10. QED
  BY <1>1, <1>6, <1>7, <1>8, <1>9

\* The record is opened when every file is there.
LEMMA NodeOpenRecord ==
  ASSUME Fetching, NEW u \in Users, Node!OpenRecord(u)
  PROVE  Fetching'
<1>1. /\ nPc[u] = "record" /\ nRecord' = {} /\ Node!Goto(u, "walk")
      /\ UNCHANGED <<nLock, nCached, nShm, nTodo, nCrashes>>
  BY DEF Node!OpenRecord
<1>2. nPc[u] \in Node!UnderLock /\ nLock = u
  BY <1>1 DEF Fetching, NodeTyped, Node!UnderLock
<1>3. \A v \in Users : v # u => nPc[v] \notin Node!UnderLock
  BY <1>2, OneHolder DEF Fetching
<1>4. Building /\ NodeTyped
  BY <1>1, <1>2, Labels DEF Fetching, Complete, Hollow
<1>5. nCached = Files
  BY <1>1, <1>4 DEF Building
<1>6. /\ nPc' \in [Users -> Stages] /\ nPc'[u] = "walk"
      /\ \A v \in Users : v # u => nPc'[v] = nPc[v]
      /\ \A v \in Users : nPc'[v] \in Node!UnderLock <=> nLock' = v
  BY <1>1, <1>2, <1>4, Goes DEF Stages, Node!UnderLock
<1>7. NodeTyped'
  BY <1>1, <1>4, <1>6 DEF NodeTyped
<1>8. Building'
  BY <1>1, <1>3, <1>4, <1>5, <1>6, Labels DEF Building, Unshared, Node!UnderLock
<1>9. QED
  BY <1>7, <1>8 DEF Fetching

\* With the record written the model is complete, and nobody shares it yet.
LEMMA NodeWriteRecord ==
  ASSUME Fetching, NEW u \in Users, Node!WriteRecord(u)
  PROVE  Fetching'
<1>1. /\ nPc[u] = "walk" /\ nRecord' = nCached /\ Node!Goto(u, "unlock")
      /\ UNCHANGED <<nLock, nCached, nShm, nTodo, nCrashes>>
  BY DEF Node!WriteRecord
<1>2. nPc[u] \in Node!UnderLock /\ nLock = u
  BY <1>1 DEF Fetching, NodeTyped, Node!UnderLock
<1>3. \A v \in Users : v # u => nPc[v] \notin Node!UnderLock
  BY <1>2, OneHolder DEF Fetching
<1>4. Building /\ NodeTyped
  BY <1>1, <1>2, Labels DEF Fetching, Complete, Hollow
<1>5. nCached = Files
  BY <1>1, <1>4 DEF Building
<1>6. /\ nPc' \in [Users -> Stages] /\ nPc'[u] = "unlock"
      /\ \A v \in Users : v # u => nPc'[v] = nPc[v]
      /\ \A v \in Users : nPc'[v] \in Node!UnderLock <=> nLock' = v
  BY <1>1, <1>2, <1>4, Goes DEF Stages, Node!UnderLock
<1>7. NodeTyped'
  BY <1>1, <1>4, <1>5, <1>6 DEF NodeTyped
<1>8. \A v \in Users : v # u => nPc'[v] = "start"
  BY <1>3, <1>4, <1>6 DEF Building
<1>9. ASSUME NEW v \in ShmUsers PROVE Copied(nPc[v], nTodo[v])'
  <2>1. nPc'[v] \in {"start", "unlock"}
    BY <1>6, <1>8, Labels
  <2>2. nPc'[v] \notin Files
    BY <2>1, Labels DEF Node!UnderLock, Node!Outside
  <2>3. QED
    BY <2>1, <2>2 DEF Copied
<1>10. \A v \in Users : /\ nPc'[v] \in Node!UnderLock => nPc'[v] = "unlock"
                        /\ nPc'[v] \notin {"ship"} \cup Files
  BY <1>6, <1>8, Labels DEF Node!UnderLock, Node!Outside
<1>11. Complete'
  <2>1. nCached' = Files /\ nRecord' = Files
    BY <1>1, <1>5
  <2>2. \A v \in Users : /\ nPc'[v] \in Node!UnderLock => nPc'[v] \in {"look", "unlock"}
                         /\ nPc'[v] \in {"ship"} \cup Files => v \in ShmUsers
    BY <1>10
  <2>3. QED
    BY <2>1, <2>2, <1>9 DEF Complete
<1>12. QED
  BY <1>7, <1>11 DEF Fetching

\* Whoever leaves the lock leaves a complete model behind.
LEMMA NodeLeaveLock ==
  ASSUME Fetching, NEW u \in Users, Node!LeaveLock(u)
  PROVE  Fetching'
<1>1. /\ nPc[u] = "unlock" /\ nLock' = Node!NoOne /\ Node!Goto(u, "copied")
      /\ UNCHANGED <<nCached, nRecord, nShm, nTodo, nCrashes>>
  BY DEF Node!LeaveLock, Node!Unlock, Node!disk
<1>2. nPc[u] \in Node!UnderLock /\ nLock = u
  BY <1>1 DEF Fetching, NodeTyped, Node!UnderLock
<1>3. Complete /\ NodeTyped
  BY <1>1, <1>2, Labels DEF Fetching, Building, Hollow
<1>4. /\ nPc' \in [Users -> Stages] /\ nPc'[u] = "copied"
      /\ \A v \in Users : v # u => nPc'[v] = nPc[v]
      /\ \A v \in Users : nPc'[v] \in Node!UnderLock <=> nLock' = v
  BY <1>1, <1>2, <1>3, Goes DEF Stages, Node!UnderLock, Node!Outside
<1>5. NodeTyped'
  BY <1>1, <1>3, <1>4 DEF NodeTyped
<1>6. Complete'
  BY <1>1, <1>3, <1>4, CopiedKept DEF Node!UnderLock, Node!Outside
<1>7. QED
  BY <1>5, <1>6 DEF Fetching

\* A step of a process that does not hold the lock.
LEMMA GoesOutside ==
  ASSUME NodeTyped, NEW u \in Users, NEW p \in Node!Outside \cup Files, Node!Goto(u, p),
         nPc[u] \in Node!Outside \cup Files, nLock' = nLock
  PROVE  /\ nPc' \in [Users -> Stages] /\ nPc'[u] = p
         /\ \A v \in Users : v # u => nPc'[v] = nPc[v]
         /\ \A v \in Users : nPc'[v] \in Node!UnderLock <=> nLock' = v
<1>1. p \in Stages /\ p \notin Node!UnderLock /\ nPc[u] \notin Node!UnderLock
  BY Labels DEF Stages
<1>2. QED
  BY <1>1, Goes

\* When the model is complete, or an empty directory has passed, a process goes
\* on without a change of the disk.
LEMMA CompleteGoesOn ==
  ASSUME OneSharer, Complete, NEW u \in Users,
         UNCHANGED <<nCached, nRecord>>,
         \A v \in Users : v # u => nPc'[v] = nPc[v],
         nPc'[u] \notin Node!UnderLock,
         nPc'[u] \in {"ship"} \cup Files => u \in ShmUsers,
         \/ u \in ShmUsers /\ Copied(nPc[u], nTodo[u])'
         \/ u \notin ShmUsers /\ UNCHANGED <<nShm, nTodo>>
  PROVE  Complete'
<1>1. /\ \A v \in Users : nPc'[v] \in Node!UnderLock => nPc'[v] \in {"look", "unlock"}
      /\ \A v \in Users : nPc'[v] \in {"ship"} \cup Files => v \in ShmUsers
  BY DEF Complete
<1>2. ASSUME NEW v \in ShmUsers PROVE Copied(nPc[v], nTodo[v])'
  <2>1. CASE u \in ShmUsers
    BY <2>1 DEF OneSharer
  <2>2. CASE u \notin ShmUsers
    <3>1. v \in Users /\ v # u
      BY <2>2, Labels
    <3>2. nPc'[v] = nPc[v] /\ Copied(nPc[v], nTodo[v])
      BY <3>1 DEF Complete
    <3>3. QED
      BY <2>2, <3>2 DEF Copied
  <2>3. QED
    BY <2>1, <2>2
<1>3. QED
  BY <1>1, <1>2 DEF Complete

\* The one process that shares looks for what is missing in shared memory.
LEMMA NodeUseShm ==
  ASSUME OneSharer, Fetching, NEW u \in Users, Node!UseShm(u)
  PROVE  Fetching'
<1>1. nPc[u] = "copied" /\ UNCHANGED <<nLock, nCached, nRecord, nShm, nCrashes>>
  BY DEF Node!UseShm, Node!disk
<1>2. /\ NodeTyped /\ (Complete \/ Hollow)
      /\ nPc[u] \in Node!Outside
  BY <1>1, Labels DEF Fetching, Building, Node!UnderLock, Node!Outside
<1>3. nCached # Node!Missing
  BY <1>2, Labels DEF Complete, Hollow
<1>4. CASE Node!Goto(u, "load") /\ UNCHANGED nTodo
            /\ (u \in ShmUsers => Node!Verified \/ nCached = {})
  <2>1. /\ nPc' \in [Users -> Stages] /\ nPc'[u] = "load"
        /\ \A v \in Users : v # u => nPc'[v] = nPc[v]
        /\ \A v \in Users : nPc'[v] \in Node!UnderLock <=> nLock' = v
    BY <1>1, <1>2, <1>4, GoesOutside DEF Node!Outside
  <2>2. NodeTyped'
    BY <1>1, <1>2, <1>4, <2>1 DEF NodeTyped
  <2>3. "load" \notin Node!UnderLock /\ "load" \notin Files
    BY Labels DEF Node!Outside
  <2>4. CASE Complete
    <3>1. u \in ShmUsers => \A f \in Files : nShm[f] = "whole"
      <4>1. nCached = Files /\ nCached # {}
        BY <2>4, Labels DEF Complete
      <4>2. QED
        BY <1>3, <1>4, <4>1 DEF Node!Verified, Node!Entries
    <3>2. u \in ShmUsers => Copied(nPc[u], nTodo[u])'
      BY <1>1, <2>1, <2>3, <3>1 DEF Copied
    <3>3. Complete'
      BY <1>1, <1>4, <2>1, <2>3, <2>4, <3>2, CompleteGoesOn
    <3>4. QED
      BY <2>2, <3>3 DEF Fetching
  <2>5. CASE Hollow
    <3>1. Hollow'
      BY <1>1, <2>1, <2>5 DEF Hollow, Unshared, Node!Outside
    <3>2. QED
      BY <2>2, <3>1 DEF Fetching
  <2>6. QED
    BY <1>2, <2>4, <2>5
<1>5. CASE /\ u \in ShmUsers /\ nCached # {} /\ Node!Goto(u, "ship")
           /\ nTodo' = [nTodo EXCEPT ![u] = nCached]
  <2>1. Complete
    BY <1>2, <1>5 DEF Hollow
  <2>2. nCached = Files
    BY <2>1 DEF Complete
  <2>3. /\ nPc' \in [Users -> Stages] /\ nPc'[u] = "ship"
        /\ \A v \in Users : v # u => nPc'[v] = nPc[v]
        /\ \A v \in Users : nPc'[v] \in Node!UnderLock <=> nLock' = v
    BY <1>1, <1>2, <1>5, GoesOutside DEF Node!Outside
  <2>4. nTodo' \in [Users -> SUBSET Files] /\ nTodo'[u] = Files
    BY <1>2, <1>5, <2>2 DEF NodeTyped
  <2>5. NodeTyped'
    BY <1>1, <1>2, <2>3, <2>4 DEF NodeTyped
  <2>6. "ship" \notin Node!UnderLock /\ "ship" \notin Files
    BY Labels DEF Node!Outside
  <2>7. Copied(nPc[u], nTodo[u])'
    BY <2>3, <2>4, <2>6 DEF Copied
  <2>8. Complete'
    BY <1>1, <1>5, <2>1, <2>3, <2>6, <2>7, CompleteGoesOn
  <2>9. QED
    BY <2>5, <2>8 DEF Fetching
<1>6. QED
  BY <1>3, <1>4, <1>5 DEF Node!UseShm

\* It truncates a file it still has to copy, and is then at that file.
LEMMA NodeOpenCopy ==
  ASSUME OneSharer, Fetching, NEW u \in Users, Node!OpenCopy(u)
  PROVE  Fetching'
<1>1. nPc[u] = "ship" /\ UNCHANGED <<nLock, nCached, nRecord, nCrashes>>
  BY DEF Node!OpenCopy, Node!disk
<1>2. PICK f \in nTodo[u] : /\ nShm' = [nShm EXCEPT ![f] = "torn"] /\ Node!Goto(u, f)
                            /\ nTodo' = [nTodo EXCEPT ![u] = @ \ {f}]
  BY DEF Node!OpenCopy
<1>3. NodeTyped /\ Complete /\ nPc[u] \in Node!Outside
  BY <1>1, Labels DEF Fetching, Building, Hollow, Node!UnderLock, Node!Outside
<1>4. f \in Files /\ u \in ShmUsers
  BY <1>1, <1>3 DEF NodeTyped, Complete
<1>5. /\ nPc' \in [Users -> Stages] /\ nPc'[u] = f
      /\ \A v \in Users : v # u => nPc'[v] = nPc[v]
      /\ \A v \in Users : nPc'[v] \in Node!UnderLock <=> nLock' = v
  BY <1>1, <1>2, <1>3, <1>4, GoesOutside
<1>6. /\ nShm' \in [Files -> {Node!Absent, "torn", "whole"}]
      /\ \A g \in Files : g # f => nShm'[g] = nShm[g]
      /\ nTodo' \in [Users -> SUBSET Files] /\ nTodo'[u] = nTodo[u] \ {f}
  BY <1>2, <1>3, <1>4 DEF NodeTyped
<1>7. NodeTyped'
  BY <1>1, <1>3, <1>5, <1>6 DEF NodeTyped
<1>8. \A g \in Files \ nTodo[u] : nShm[g] = "whole"
  BY <1>1, <1>3, <1>4 DEF Complete, Copied
<1>9. f \notin Node!UnderLock /\ f # "load" /\ f # "ship"
  BY <1>4, Labels DEF Node!Outside
<1>10. Copied(nPc[u], nTodo[u])'
  BY <1>5, <1>6, <1>8, <1>9 DEF Copied
<1>11. Complete'
  BY <1>1, <1>3, <1>4, <1>5, <1>9, <1>10, CompleteGoesOn
<1>12. QED
  BY <1>7, <1>11 DEF Fetching

\* It fills the file it is at, and ships the next one or is ready to load.
LEMMA NodeFillCopy ==
  ASSUME OneSharer, Fetching, NEW u \in Users, Node!FillCopy(u)
  PROVE  Fetching'
<1> DEFINE f == nPc[u]
           p == IF nTodo[u] = {} THEN "load" ELSE "ship"
<1>1. /\ f \in Files /\ nShm' = [nShm EXCEPT ![f] = "whole"] /\ Node!Goto(u, p)
      /\ UNCHANGED <<nLock, nCached, nRecord, nTodo, nCrashes>>
  BY DEF Node!FillCopy, Node!disk
<1>2. f \notin Node!UnderLock /\ f \notin Node!Outside
  BY <1>1, Labels
<1>3. NodeTyped /\ Complete
  BY <1>2 DEF Fetching, Building, Hollow, Node!UnderLock, Node!Outside
<1>4. u \in ShmUsers
  BY <1>1, <1>3 DEF Complete
<1>5. p \in {"load", "ship"} /\ p \in Node!Outside
  BY DEF Node!Outside
<1>6. p \notin Node!UnderLock /\ p \notin Files
  BY <1>5, Labels
<1> HIDE DEF p
<1>7. /\ nPc' \in [Users -> Stages] /\ nPc'[u] = p
      /\ \A v \in Users : v # u => nPc'[v] = nPc[v]
      /\ \A v \in Users : nPc'[v] \in Node!UnderLock <=> nLock' = v
  BY <1>1, <1>3, <1>5, GoesOutside
<1>8. /\ nShm' \in [Files -> {Node!Absent, "torn", "whole"}] /\ nShm'[f] = "whole"
      /\ \A g \in Files : g # f => nShm'[g] = nShm[g]
  BY <1>1, <1>3 DEF NodeTyped
<1>9. NodeTyped'
  BY <1>1, <1>3, <1>7, <1>8 DEF NodeTyped
<1>10. \A g \in Files \ nTodo[u] : g # f => nShm[g] = "whole"
  BY <1>1, <1>3, <1>4 DEF Complete, Copied
<1>11. Copied(nPc[u], nTodo[u])'
  <2>1. p = "load" => nTodo[u] = {}
    BY DEF p
  <2>2. \A g \in Files \ nTodo[u] : nShm'[g] = "whole"
    BY <1>8, <1>10
  <2>3. QED
    BY <1>1, <1>6, <1>7, <2>1, <2>2 DEF Copied
<1>12. Complete'
  BY <1>1, <1>3, <1>4, <1>6, <1>7, <1>11, CompleteGoesOn
<1>13. QED
  BY <1>9, <1>12 DEF Fetching

\* Loading changes nothing on the disk.
LEMMA NodeLoad ==
  ASSUME OneSharer, Fetching, NEW u \in Users, Node!Load(u)
  PROVE  Fetching'
<1> DEFINE p == IF Node!Readable(u) = Files THEN "done" ELSE "error"
<1>1. /\ nPc[u] = "load" /\ Node!Goto(u, p)
      /\ UNCHANGED <<nLock, nCached, nRecord, nShm, nTodo, nCrashes>>
  BY DEF Node!Load, Node!disk
<1>2. /\ p \in {"done", "error"} /\ p \in Node!Outside /\ nPc[u] \in Node!Outside
  BY <1>1 DEF Node!Outside
<1>3. p \notin Node!UnderLock /\ p \notin Files
  BY <1>2, Labels
<1> HIDE DEF p
<1>4. NodeTyped /\ (Complete \/ Hollow)
  BY <1>1, Labels DEF Fetching, Building, Node!UnderLock, Node!Outside
<1>5. /\ nPc' \in [Users -> Stages] /\ nPc'[u] = p
      /\ \A v \in Users : v # u => nPc'[v] = nPc[v]
      /\ \A v \in Users : nPc'[v] \in Node!UnderLock <=> nLock' = v
  BY <1>1, <1>2, <1>4, GoesOutside
<1>6. NodeTyped'
  BY <1>1, <1>4, <1>5 DEF NodeTyped
<1>7. CASE Complete
  <2>1. Copied(nPc[u], nTodo[u])'
    BY <1>2, <1>3, <1>5 DEF Copied
  <2>2. Complete'
    BY <1>1, <1>2, <1>3, <1>5, <1>7, <2>1, CompleteGoesOn
  <2>3. QED
    BY <1>6, <2>2 DEF Fetching
<1>8. CASE Hollow
  <2>1. Hollow'
    BY <1>1, <1>2, <1>5, <1>8 DEF Hollow, Unshared, Node!Outside
  <2>2. QED
    BY <1>6, <2>1 DEF Fetching
<1>9. QED
  BY <1>4, <1>7, <1>8

\* A crash while the model is fetched leaves no complete record, or a complete
\* model; what it can make of an emptied directory takes a second one.
LEMMA NodeCrash == ASSUME Fetching, Node!Crash PROVE Fetching'
<1>1. /\ nPc' = [u \in Users |-> "start"] /\ nLock' = Node!NoOne
      /\ nTodo' = [u \in Users |-> {}] /\ nCrashes' = nCrashes + 1
      /\ UNCHANGED <<nCached, nRecord, nShm>>
  BY DEF Node!Crash, Node!disk
<1>2. NodeTyped
  BY DEF Fetching
<1>3. "start" \in Node!Outside /\ "start" \notin Node!UnderLock /\ "start" \notin Files
  BY Labels DEF Node!Outside
<1>4. NodeTyped'
  BY <1>1, <1>2, <1>3, Labels DEF NodeTyped, Stages
<1>5. CASE Building
  <2>1. CASE nRecord = {} /\ nCached = {}
    <3>1. \A u \in Users : nPc[u] # "walk"
      BY <1>5, <2>1, Labels DEF Building
    <3>2. nCrashes >= 1
      BY <1>5, <2>1, <3>1 DEF Building
    <3>3. nCrashes' >= 2
      BY <1>1, <1>2, <3>2 DEF NodeTyped
    <3>4. \A u \in Users : nPc'[u] = "start"
      BY <1>1
    <3>5. Unshared'
      BY <1>1, <1>5 DEF Building, Unshared
    <3>6. Hollow'
      BY <1>1, <2>1, <3>3, <3>4, <3>5 DEF Hollow, Node!Outside
    <3>7. QED
      BY <1>4, <3>6 DEF Fetching
  <2>2. CASE ~ (nRecord = {} /\ nCached = {})
    <3>1. nCrashes' >= 1
      BY <1>1, <1>2 DEF NodeTyped
    <3>2. \A u \in Users : nPc'[u] = "start"
      BY <1>1
    <3>3. Unshared'
      BY <1>1, <1>5 DEF Building, Unshared
    <3>4. /\ nRecord' \in {Node!Missing, {}} /\ ~ (nRecord' = {} /\ nCached' = {})
          /\ nCached' = Node!Missing => nRecord' = Node!Missing
      BY <1>1, <1>5, <2>2 DEF Building
    <3>5. Building'
      BY <3>1, <3>2, <3>3, <3>4 DEF Building
    <3>6. QED
      BY <1>4, <3>5 DEF Fetching
  <2>3. QED
    BY <2>1, <2>2
<1>6. CASE Complete
  <2>1. \A v \in ShmUsers : Copied(nPc[v], nTodo[v])'
    BY <1>1, <1>3, Labels DEF Copied
  <2>2. Complete'
    BY <1>1, <1>3, <1>6, <2>1 DEF Complete
  <2>3. QED
    BY <1>4, <2>2 DEF Fetching
<1>7. CASE Hollow
  <2>1. Hollow'
    BY <1>1, <1>2, <1>7 DEF Hollow, Unshared, NodeTyped, Node!Outside
  <2>2. QED
    BY <1>4, <2>1 DEF Fetching
<1>8. QED
  BY <1>5, <1>6, <1>7 DEF Fetching

\* Every step of a node preserves the invariant while no copy has failed.
LEMMA NodeNext == OneSharer /\ NodeInv /\ [Node!Next]_nVars => NodeInv'
<1>1. SUFFICES ASSUME OneSharer, NodeInv, [Node!Next]_nVars PROVE NodeInv'
  OBVIOUS
<1>2. nFails \in Nat /\ (nFails = 0 => Fetching)
  BY <1>1 DEF NodeInv
<1>3. ASSUME NEW u \in Users, Node!User(u) PROVE NodeInv'
  <2>1. CASE Node!Get(u)
    <3>1. CASE nFails' = nFails
      BY <1>2, <2>1, <3>1, NodeGet DEF NodeInv
    <3>2. CASE nFails' # nFails
      <4>1. nFails' = nFails + 1
        BY <2>1, <3>2 DEF Node!Get
      <4>2. QED
        BY <1>2, <4>1 DEF NodeInv
    <3>3. QED
      BY <3>1, <3>2
  <2>2. CASE ~ Node!Get(u)
    <3>1. nFails' = nFails
      BY <1>3, <2>2
      DEF Node!User, Node!Lock, Node!Look, Node!Remove, Node!OpenRecord, Node!WriteRecord,
          Node!LeaveLock, Node!UseShm, Node!OpenCopy, Node!FillCopy, Node!Load
    <3>2. Fetching => Fetching'
      BY <1>1, <1>3, <2>2, NodeLock, NodeLook, NodeRemove, NodeOpenRecord,
         NodeWriteRecord, NodeLeaveLock, NodeUseShm, NodeOpenCopy, NodeFillCopy, NodeLoad
      DEF Node!User
    <3>3. QED
      BY <1>2, <3>1, <3>2 DEF NodeInv
  <2>3. QED
    BY <2>1, <2>2
<1>4. CASE Node!Crash
  <2>1. nFails' = nFails
    BY <1>4 DEF Node!Crash
  <2>2. QED
    BY <1>2, <1>4, <2>1, NodeCrash DEF NodeInv
<1>5. CASE UNCHANGED nVars
  BY <1>2, <1>5
  DEF NodeInv, Fetching, NodeTyped, Building, Complete, Hollow, Unshared, Copied, nVars
<1>6. QED
  BY <1>1, <1>3, <1>4, <1>5
  DEF Node!Next, Node!Fetch, Node!Over, Node!vars, nVars

\* For any number of processes, files, crashes and failures: where one process
\* at most shares the memory, what a process loads before any copy has failed is
\* the whole model, or after two crashes nothing, but never a part of it
\* (fs.py, copy_to_local).
THEOREM ModelsLoadWhole == ASSUME OneSharer PROVE MCSpec => []LoadsWholeModel
<1>1. MCInit => NodeInv
  BY NodeInit DEF MCInit, NodeInv, Node!Init
<1>2. [MCNext]_MCVars => [Node!Next]_nVars
  BY DEF MCNext, MCVars, Dapo, Selection, Operated, OnNode, vars, iVars, oVars
<1>3. NodeInv /\ [MCNext]_MCVars => NodeInv'
  BY <1>2, NodeNext
<1>4. NodeInv => LoadsWholeModel
  <2>1. SUFFICES ASSUME NodeInv, nFails = 0, NEW u \in Users, nPc[u] = "load"
                 PROVE  \/ Node!Readable(u) = Files
                        \/ nCrashes >= 2 /\ Node!Readable(u) = {}
    BY DEF LoadsWholeModel, Node!LoadsWholeModel
  <2>2. Complete \/ Hollow
    BY <2>1, Labels DEF NodeInv, Fetching, Building, Node!UnderLock, Node!Outside
  <2>3. CASE Complete
    BY <2>1, <2>3, Labels DEF Complete, Copied, Node!Readable, Node!Entries
  <2>4. CASE Hollow
    BY <2>4, Labels DEF Hollow, Unshared, Node!Readable, Node!Entries, Node!Absent
  <2>5. QED
    BY <2>2, <2>3, <2>4
<1>5. QED
  BY <1>1, <1>3, <1>4, PTL DEF MCSpec

===============================================================================

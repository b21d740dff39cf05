--------------------------- MODULE CheckpointProofs ---------------------------
(***************************************************************************)
(* Theorems about Checkpoint for every number of ranks, every save_freq,   *)
(* every rotation bound but one and every number of launches.              *)
(***************************************************************************)
EXTENDS Checkpoint, Lemmas, SequenceTheorems, FiniteSetTheorems, TLAPS

USE CheckpointAssumption

\* Rotation drops a prefix of the remembered paths: it never runs past the end,
\* it keeps the order, and with max_ckpt_to_keep # 1 it spares the newest path.
LEMMA ExcessBound ==
  ASSUME TypeOK, NEW r \in Roles
  PROVE  /\ Excess(r) \in 0 .. Len(saved[r])
         /\ Keep[r] # 1 /\ Excess(r) > 0 => Excess(r) < Len(saved[r])
<1>1. saved[r] \in Seq(Steps) /\ Len(saved[r]) \in Nat
  BY DEF TypeOK
<1>2. Keep[r] \in Nat
  BY DEF Roles
<1>3. QED
  BY <1>1, <1>2 DEF Excess

\* The paths stay ordered when a prefix is dropped and when a later step is
\* appended.
LEMMA IncreasingSuffix ==
  ASSUME NEW s \in Seq(Int), Increasing(s), NEW e \in 0 .. Len(s),
         NEW t \in Seq(Int), Len(t) = Len(s) - e,
         \A i \in 1 .. Len(t) : t[i] = s[i + e]
  PROVE  Increasing(t)
<1> SUFFICES ASSUME NEW i \in 1 .. Len(t), NEW j \in 1 .. Len(t), i < j
             PROVE  t[i] < t[j]
  BY DEF Increasing
<1>1. i + e \in 1 .. Len(s) /\ j + e \in 1 .. Len(s) /\ i + e < j + e
  BY SMTT(60)
<1>2. s[i + e] < s[j + e]
  BY <1>1 DEF Increasing
<1>3. QED
  BY <1>2

\* A path later than all remembered ones keeps them in order.
LEMMA IncreasingAppend ==
  ASSUME NEW s \in Seq(Int), Increasing(s), NEW x \in Int,
         \A i \in 1 .. Len(s) : s[i] < x
  PROVE  /\ Increasing(Append(s, x))
         /\ \A i \in 1 .. Len(Append(s, x)) : Append(s, x)[i] <= x
<1> DEFINE t == Append(s, x)
<1>1. /\ Len(t) = Len(s) + 1
      /\ Len(s) \in Nat
      /\ t[Len(s) + 1] = x
      /\ \A i \in 1 .. Len(s) : t[i] = s[i]
  OBVIOUS
<1> HIDE DEF t
<1>2. \A i \in 1 .. Len(t) : i \in 1 .. Len(s) \/ i = Len(s) + 1
  BY <1>1
<1>3. Increasing(t)
  <2> SUFFICES ASSUME NEW i \in 1 .. Len(t), NEW j \in 1 .. Len(t), i < j
               PROVE  t[i] < t[j]
    BY DEF Increasing
  <2>1. i \in 1 .. Len(s)
    BY <1>1
  <2>2. CASE j \in 1 .. Len(s)
    BY <1>1, <2>1, <2>2 DEF Increasing
  <2>3. CASE j = Len(s) + 1
    BY <1>1, <2>1, <2>3
  <2>4. QED
    BY <1>2, <2>2, <2>3
<1>4. \A i \in 1 .. Len(t) : t[i] <= x
  <2> SUFFICES ASSUME NEW i \in 1 .. Len(t)
               PROVE  t[i] <= x
    OBVIOUS
  <2>1. CASE i \in 1 .. Len(s)
    <3>1. t[i] \in Int /\ t[i] < x
      BY <1>1, <2>1
    <3>2. QED
      BY <3>1
  <2>2. CASE i = Len(s) + 1
    BY <1>1, <2>2
  <2>3. QED
    BY <1>2, <2>1, <2>2
<1>5. QED
  BY <1>3, <1>4 DEF t

\* What rotation leaves is the remembered sequence without its first paths.
LEMMA Rotated ==
  ASSUME TypeOK, NEW r \in Roles,
         NEW t, t = SubSeq(saved[r], Excess(r) + 1, Len(saved[r]))
  PROVE  /\ t \in Seq(Steps)
         /\ Len(t) = Len(saved[r]) - Excess(r)
         /\ \A i \in 1 .. Len(t) : t[i] = saved[r][i + Excess(r)]
<1>1. saved[r] \in Seq(Steps) /\ Len(saved[r]) \in Nat
  BY DEF TypeOK
<1>2. Excess(r) \in 0 .. Len(saved[r])
  BY ExcessBound
<1> DEFINE m == Excess(r) + 1
           n == Len(saved[r])
<1>3. m \in Int /\ n \in Int /\ m >= 1 /\ m <= n + 1
  BY <1>1, <1>2
<1>4. \A i \in m .. n : saved[r][i] \in Steps
  BY <1>1, <1>3
<1> HIDE DEF m, n
<1>5. /\ t \in Seq(Steps)
      /\ Len(t) = IF m <= n THEN n - m + 1 ELSE 0
      /\ \A i \in 1 .. n - m + 1 : t[i] = saved[r][m + i - 1]
  BY <1>3, <1>4, SubSeqProperties DEF m, n
<1>6. Len(t) = Len(saved[r]) - Excess(r)
  BY <1>1, <1>2, <1>3, <1>5 DEF m, n
<1>7. \A i \in 1 .. Len(t) : t[i] = saved[r][i + Excess(r)]
  <2> SUFFICES ASSUME NEW i \in 1 .. Len(t)
               PROVE  t[i] = saved[r][i + Excess(r)]
    OBVIOUS
  <2>1. i \in 1 .. n - m + 1 /\ m + i - 1 = i + Excess(r)
    BY <1>1, <1>2, <1>6, SMTT(30) DEF m, n
  <2>2. QED
    BY <1>5, <2>1
<1>8. QED
  BY <1>5, <1>6, <1>7

\* What rotation removes are steps.
LEMMA DoomedType ==
  ASSUME TypeOK, NEW r \in Roles
  PROVE  Doomed(r) \subseteq Steps
<1>1. saved[r] \in Seq(Steps) /\ Len(saved[r]) \in Nat
  BY DEF TypeOK
<1>2. \A i \in 1 .. Len(saved[r]) : saved[r][i] \in Steps
  BY <1>1
<1>3. 1 .. Excess(r) \subseteq 1 .. Len(saved[r])
  BY <1>1, ExcessBound
<1>4. QED
  BY <1>2, <1>3 DEF Doomed

\* Every value the launches and the save protocol produce has its type, in
\* every resume mode.
THEOREM Typing == Spec => []TypeOK
<1>1. Init => TypeOK
  BY DEF Init, TypeOK, AtRest, Ranks, Roles, Steps, File, NoFile, Torn
<1>2. TypeOK /\ [Next]_vars => TypeOK'
  <2> SUFFICES ASSUME TypeOK, [Next]_vars PROVE TypeOK'
    OBVIOUS
  <2> USE DEF TypeOK, AtRest, Saving, disk, memory
  <2>1. CASE Launch
    BY <2>1 DEF Launch, FreshStart, ResumeFrom, ResumeFails, Folders, Steps
  <2>2. CASE TrainStep
    BY <2>2 DEF TrainStep
  <2>3. CASE EndStep
    BY <2>3 DEF EndStep, IsLastStep, Steps
  <2>4. CASE RemoveOld
    <3>1. PICK s \in Doomed(pc), p \in Ranks :
            shard' = [shard EXCEPT ![pc][s][p] = 0]
      BY <2>4 DEF RemoveOld
    <3>2. s \in Steps /\ pc \in Roles
      BY <2>4, DoomedType DEF RemoveOld
    <3>3. 0 \in File
      BY DEF File
    <3>4. shard' \in [Roles -> [Steps -> [Ranks -> File]]]
      BY <3>1, <3>2, <3>3
    <3>5. QED
      BY <2>4, <3>4 DEF RemoveOld
  <2>5. CASE GroupSaved
    <3>1. pc' \in {"critic", "data"} /\ pc \in {"actor", "critic"}
      BY <2>5 DEF GroupSaved, Roles
    <3>2. rpc' \in [Ranks -> {"enter", "ready", "dumping", "dumped", "returned"}]
      BY <2>5 DEF GroupSaved
    <3>3. QED
      BY <2>5, <3>1, <3>2 DEF GroupSaved
  <2>6. ASSUME NEW q \in Ranks, ArriveAtBarrier(q) PROVE TypeOK'
    <3>1. pc \in Roles /\ saved[pc] \in Seq(Steps)
      BY <2>6 DEF ArriveAtBarrier
    <3>2. SubSeq(saved[pc], Excess(pc) + 1, Len(saved[pc])) \in Seq(Steps)
      BY <3>1, Rotated
    <3>3. saved' \in [Roles -> Seq(Steps)]
      BY <2>6, <3>1, <3>2 DEF ArriveAtBarrier
    <3>4. QED
      BY <2>6, <3>3 DEF ArriveAtBarrier
  <2>7. ASSUME NEW q \in Ranks, OpenShard(q) PROVE TypeOK'
    <3>1. pc \in Roles /\ globalSteps \in Steps /\ -era \in File
      BY <2>7 DEF OpenShard, Roles, File
    <3>2. shard' \in [Roles -> [Steps -> [Ranks -> File]]]
      BY <2>7, <3>1 DEF OpenShard
    <3>3. QED
      BY <2>7, <3>2 DEF OpenShard
  <2>8. ASSUME NEW q \in Ranks, DumpShard(q) PROVE TypeOK'
    <3>1. pc \in Roles /\ globalSteps \in Steps /\ era \in File
      BY <2>8 DEF DumpShard, Roles, File
    <3>2. shard' \in [Roles -> [Steps -> [Ranks -> File]]]
      BY <2>8, <3>1 DEF DumpShard
    <3>3. QED
      BY <2>8, <3>2 DEF DumpShard
  <2>9. ASSUME NEW q \in Ranks, ReturnFromSave(q) PROVE TypeOK'
    BY <2>9 DEF ReturnFromSave, Roles, Steps
  <2>10. CASE OpenData
    BY <2>10 DEF OpenData, File
  <2>11. CASE WriteData
    BY <2>11 DEF WriteData, File
  <2>12. CASE OpenTracker
    BY <2>12 DEF OpenTracker
  <2>13. CASE WriteTracker
    BY <2>13 DEF WriteTracker
  <2>14. CASE OpenSidecar
    BY <2>14 DEF OpenSidecar, File
  <2>15. CASE WriteSidecar
    BY <2>15 DEF WriteSidecar, File
  <2>16. CASE Crash
    BY <2>16 DEF Crash
  <2>17. CASE Over \/ UNCHANGED vars
    BY <2>17 DEF Over, vars
  <2>18. QED
    BY <2>1, <2>2, <2>3, <2>4, <2>5, <2>6, <2>7, <2>8, <2>9, <2>10, <2>11,
       <2>12, <2>13, <2>14, <2>15, <2>16, <2>17 DEF Next, Run
<1>3. QED
  BY <1>1, <1>2, PTL DEF Spec

------------------------------------------------------------------------------
(* The checkpoint the tracker names is complete: one lemma per conjunct of *)
(* IInv, then the induction.                                               *)

\* Every step keeps the order of the tracked and the current step.
LEMMA TrackerOrderStep ==
  ASSUME AutoOnly, TypeOK, TrackerOrder, [Next]_vars
  PROVE  TrackerOrder'
<1> USE DEF TrackerOrder, TypeOK, AtRest, Saving, disk, memory,
            NoFile, Torn
<1>1. CASE Launch
  BY <1>1 DEF Launch, FreshStart, ScratchIn, ResumeFrom, ResumeFails, Folders,
              AutoOnly, Steps, Eras
<1>2. CASE TrainStep
  BY <1>2 DEF TrainStep
<1>3. CASE EndStep
  BY <1>3 DEF EndStep, IsLastStep, Steps
<1>4. CASE RemoveOld
  BY <1>4 DEF RemoveOld, Roles
<1>5. CASE GroupSaved
  BY <1>5 DEF GroupSaved, Roles
<1>6. ASSUME NEW q \in Ranks,
             ArriveAtBarrier(q) \/ OpenShard(q) \/ DumpShard(q) \/ ReturnFromSave(q)
      PROVE  TrackerOrder'
  BY <1>6 DEF ArriveAtBarrier, OpenShard, DumpShard, ReturnFromSave
<1>7. CASE OpenData \/ OpenSidecar
  BY <1>7 DEF OpenData, OpenSidecar
<1>8. CASE WriteData
  BY <1>8 DEF WriteData
<1>9. CASE OpenTracker
  BY <1>9 DEF OpenTracker
<1>10. CASE WriteTracker
  BY <1>10 DEF WriteTracker, Steps
<1>11. CASE WriteSidecar
  BY <1>11 DEF WriteSidecar, Steps
<1>12. CASE Crash
  BY <1>12 DEF Crash
<1>13. CASE Over \/ UNCHANGED vars
  BY <1>13 DEF Over, vars
<1>14. QED
  BY <1>1, <1>2, <1>3, <1>4, <1>5, <1>6, <1>7, <1>8, <1>9, <1>10, <1>11,
     <1>12, <1>13 DEF Next, Run

\* Rotation removes only steps before the tracked one: with max_ckpt_to_keep # 1
\* the newest remembered path, itself at most the tracked step, is spared.
LEMMA DoomedIsOlder ==
  ASSUME KeepNotOne, TypeOK, IInv, pc \in Roles, rpc[0] = "enter",
         NEW s \in Doomed(pc)
  PROVE  s \in Steps /\ s < tracker /\ s # tracker /\ s # globalSteps
<1>1. s \in Steps
  BY DoomedType
<1>2. PICK i \in 1 .. Excess(pc) : s = saved[pc][i]
  BY DEF Doomed
<1> DEFINE n == Len(saved[pc])
<1>3. n \in Nat /\ i \in 1 .. n /\ n \in 1 .. n /\ i < n
  <2>1. n \in Nat
    BY DEF TypeOK
  <2>2. /\ Excess(pc) \in 0 .. n
        /\ Keep[pc] # 1 /\ Excess(pc) > 0 => Excess(pc) < n
    BY ExcessBound
  <2>3. QED
    BY <2>1, <2>2 DEF KeepNotOne
<1>4. saved[pc][n] \in Steps
  BY <1>3 DEF TypeOK
<1>5. ~ Appended(pc)
  BY DEF Appended, Behind, Saving
<1>6. saved[pc][i] < saved[pc][n] /\ saved[pc][n] <= tracker
  <2>1. pc \notin AtRest
    BY DEF AtRest, Roles
  <2>2. QED
    BY <1>3, <1>5, <2>1 DEF IInv, SavedOrder, Increasing
<1>7. tracker < globalSteps /\ tracker \in Int
  BY DEF IInv, TrackerOrder, TypeOK, Roles, NoFile, Torn, Steps
<1>8. QED
  BY <1>1, <1>2, <1>4, <1>6, <1>7 DEF Steps

\* Every step keeps what is dumped of the current step this launch's work.
LEMMA DumpedSoFarStep ==
  ASSUME KeepNotOne, TypeOK, IInv, [Next]_vars
  PROVE  DumpedSoFar'
<1> USE DEF IInv, DumpedSoFar, TrackerOrder, TypeOK, Behind, AtRest, Saving,
            disk, memory
<1>1. CASE Launch
  BY <1>1 DEF Launch, FreshStart, ResumeFrom, ResumeFails, Roles
<1>2. CASE TrainStep
  BY <1>2 DEF TrainStep, Roles
<1>3. CASE EndStep
  BY <1>3 DEF EndStep, Roles
<1>4. CASE RemoveOld
  <2>1. PICK s \in Doomed(pc), p \in Ranks :
          shard' = [shard EXCEPT ![pc][s][p] = 0]
    BY <1>4 DEF RemoveOld
  <2>2. s # globalSteps /\ s \in Steps /\ globalSteps \in Steps
    <3>1. pc \in Roles /\ rpc[0] = "enter" /\ pc \notin AtRest
      BY <1>4 DEF RemoveOld, Roles
    <3>2. QED
      BY <3>1, DoomedIsOlder
  <2>3. \A r \in Roles, q \in Ranks :
          shard'[r][globalSteps][q] = shard[r][globalSteps][q]
    BY <1>4, <2>1, <2>2 DEF RemoveOld
  <2>4. QED
    BY <1>4, <2>3 DEF RemoveOld, Roles
<1>5. CASE GroupSaved
  BY <1>5 DEF GroupSaved, Roles
<1>6. ASSUME NEW q \in Ranks, ArriveAtBarrier(q)
      PROVE  DumpedSoFar'
  BY <1>6 DEF ArriveAtBarrier, Roles
<1>7. ASSUME NEW q \in Ranks, OpenShard(q)
      PROVE  DumpedSoFar'
  BY <1>7 DEF OpenShard, Roles
<1>8. ASSUME NEW q \in Ranks, DumpShard(q)
      PROVE  DumpedSoFar'
  BY <1>8 DEF DumpShard, Roles
<1>9. ASSUME NEW q \in Ranks, ReturnFromSave(q)
      PROVE  DumpedSoFar'
  BY <1>9 DEF ReturnFromSave, Roles
<1>10. CASE OpenData
  BY <1>10 DEF OpenData, Roles
<1>11. CASE WriteData
  BY <1>11 DEF WriteData, Roles
<1>12. CASE OpenTracker
  BY <1>12 DEF OpenTracker, Roles
<1>13. CASE WriteTracker
  BY <1>13 DEF WriteTracker, Roles
<1>14. CASE OpenSidecar \/ WriteSidecar
  BY <1>14 DEF OpenSidecar, WriteSidecar, Roles
<1>15. CASE Crash
  BY <1>15 DEF Crash, Roles
<1>16. CASE Over \/ UNCHANGED vars
  BY <1>16 DEF Over, vars
<1>17. QED
  BY <1>1, <1>2, <1>3, <1>4, <1>5, <1>6, <1>7, <1>8, <1>9, <1>10, <1>11,
     <1>12, <1>13, <1>14, <1>15, <1>16 DEF Next, Run

\* Every step keeps the remembered paths in order and behind the tracker.
LEMMA SavedOrderStep ==
  ASSUME AutoOnly, TypeOK, IInv, [Next]_vars
  PROVE  SavedOrder'
<1> USE DEF IInv, SavedOrder, DumpedSoFar, TrackerOrder, TypeOK, Appended,
            Behind, AtRest, Saving, disk, memory
<1>1. CASE Launch
  BY <1>1 DEF Launch, Increasing
<1>2. CASE TrainStep
  BY <1>2 DEF TrainStep, Roles, Ranks
<1>3. CASE EndStep
  BY <1>3 DEF EndStep, Roles
<1>4. CASE RemoveOld
  BY <1>4 DEF RemoveOld, Roles
<1>5. CASE GroupSaved
  BY <1>5 DEF GroupSaved, Roles, Ranks
<1>6. ASSUME NEW q \in Ranks, ArriveAtBarrier(q)
      PROVE  SavedOrder'
  <2>1. CASE q # 0
    BY <1>6, <2>1 DEF ArriveAtBarrier, Roles, Ranks
  <2>2. CASE q = 0
    <3> DEFINE t == SubSeq(saved[pc], Excess(pc) + 1, Len(saved[pc]))
               e == Excess(pc)
               n == Len(saved[pc])
    <3>0. pc \in Roles /\ pc \notin AtRest /\ ~ Appended(pc)
      BY <1>6, <2>2 DEF ArriveAtBarrier, Roles
    <3>1. /\ t \in Seq(Steps)
          /\ Len(t) = n - e
          /\ \A i \in 1 .. Len(t) : t[i] = saved[pc][i + e]
      BY <3>0, Rotated
    <3>2. e \in 0 .. n /\ n \in Nat
      BY <3>0, ExcessBound
    <3>3. Increasing(saved[pc]) /\ \A i \in 1 .. n : saved[pc][i] <= tracker
      BY <3>0
    <3> HIDE DEF t, e
    <3>4. Increasing(t)
      <4>1. saved[pc] \in Seq(Int) /\ t \in Seq(Int)
        BY <3>0, <3>1 DEF Steps
      <4>2. e \in 0 .. Len(saved[pc]) /\ Len(t) = Len(saved[pc]) - e
        BY <3>1, <3>2
      <4>3. Increasing(saved[pc]) /\ \A i \in 1 .. Len(t) : t[i] = saved[pc][i + e]
        BY <3>1, <3>3
      <4>4. QED
        BY ONLY <4>1, <4>2, <4>3, IncreasingSuffix
    <3> HIDE DEF n
    <3>5. \A i \in 1 .. Len(t) : t[i] <= tracker
      <4> SUFFICES ASSUME NEW i \in 1 .. Len(t)
                   PROVE  t[i] <= tracker
        OBVIOUS
      <4>1. i + e \in 1 .. n
        BY <3>1, <3>2
      <4>2. QED
        BY <3>1, <3>3, <4>1
    <3>6. saved' = [saved EXCEPT ![pc] = t]
      BY <1>6, <2>2 DEF ArriveAtBarrier, t
    <3>7. saved'[pc] = t /\ \A r \in Roles \ {pc} : saved'[r] = saved[r]
      BY <1>6, <3>6 DEF ArriveAtBarrier
    <3>8. QED
      BY <1>6, <2>2, <3>4, <3>5, <3>7 DEF ArriveAtBarrier, Roles
  <2>3. QED
    BY <2>1, <2>2
<1>7. ASSUME NEW q \in Ranks, OpenShard(q) \/ DumpShard(q)
      PROVE  SavedOrder'
  <2>1. /\ UNCHANGED <<pc, globalSteps, saved, tracker>>
        /\ rpc'[0] = "returned" <=> rpc[0] = "returned"
    BY <1>7 DEF OpenShard, DumpShard, Ranks
  <2>2. QED
    BY <2>1
<1>8. ASSUME NEW q \in Ranks, ReturnFromSave(q)
      PROVE  SavedOrder'
  <2>0. pc \in Roles /\ pc \notin AtRest /\ globalSteps \in Steps
    BY <1>8 DEF ReturnFromSave, Roles
  <2>1. CASE q # 0
    <3>1. /\ UNCHANGED <<pc, globalSteps, saved, tracker>>
          /\ rpc'[0] = "returned" <=> rpc[0] = "returned"
      BY <1>8, <2>1 DEF ReturnFromSave, Ranks
    <3>2. QED
      BY <3>1
  <2>2. CASE q = 0
    <3> DEFINE s == saved[pc]
               t == Append(s, globalSteps)
    <3>1. s \in Seq(Steps) /\ Len(s) \in Nat
      BY <2>0
    <3>2. \A i \in 1 .. Len(s) : s[i] \in Steps
      BY <3>1
    <3>3. Increasing(s) /\ \A i \in 1 .. Len(s) : s[i] < globalSteps
      <4>1. ~ Appended(pc) /\ tracker < globalSteps /\ tracker \in Int
        BY <1>8, <2>0, <2>2 DEF ReturnFromSave, Roles, NoFile, Torn, Steps
      <4>2. QED
        BY <2>0, <3>2, <4>1 DEF Steps
    <3>4. saved' = [saved EXCEPT ![pc] = t]
      BY <1>8, <2>2 DEF ReturnFromSave
    <3>5. s \in Seq(Int) /\ globalSteps \in Int
      BY <2>0, <3>1 DEF Steps
    <3> HIDE DEF s
    <3>6. Increasing(t) /\ \A i \in 1 .. Len(t) : t[i] <= globalSteps
      BY <3>3, <3>5, IncreasingAppend
    <3> HIDE DEF t
    <3>7. saved'[pc] = t /\ \A r \in Roles \ {pc} : saved'[r] = saved[r]
      BY <2>0, <3>4
    <3>8. /\ UNCHANGED <<pc, globalSteps, tracker>>
          /\ Appended(pc)'
          /\ \A r \in Roles \ {pc} : Appended(r)' <=> Appended(r)
      BY <1>8, <2>0, <2>2 DEF ReturnFromSave, Roles, Ranks
    <3>9. QED
      BY <2>0, <3>6, <3>7, <3>8
  <2>3. QED
    BY <2>1, <2>2
<1>9. CASE OpenData \/ WriteData
  BY <1>9 DEF OpenData, WriteData, Roles
<1>10. CASE OpenTracker
  BY <1>10 DEF OpenTracker, Roles
<1>11. CASE WriteTracker
  BY <1>11 DEF WriteTracker, Roles
<1>12. CASE OpenSidecar \/ WriteSidecar
  BY <1>12 DEF OpenSidecar, WriteSidecar, Roles
<1>13. CASE Crash
  BY <1>13 DEF Crash, Increasing
<1>14. CASE Over \/ UNCHANGED vars
  BY <1>14 DEF Over, vars
<1>15. QED
  BY <1>1, <1>2, <1>3, <1>4, <1>5, <1>6, <1>7, <1>8, <1>9, <1>10, <1>11,
     <1>12, <1>13, <1>14 DEF Next, Run

\* No step touches the checkpoint the tracker names, or names an incomplete one.
LEMMA TrackedCompleteStep ==
  ASSUME KeepNotOne, TypeOK, IInv, [Next]_vars
  PROVE  TrackedComplete'
<1> USE DEF IInv, TrackedComplete, CompleteBy, DumpedSoFar, TrackerOrder,
            TypeOK, AtRest, Saving, disk, memory
<1>1. CASE Launch
  BY <1>1 DEF Launch
<1>2. CASE TrainStep \/ EndStep \/ GroupSaved
  <2>1. UNCHANGED <<era, tracker, shard, data>>
    BY <1>2 DEF TrainStep, EndStep, GroupSaved
  <2>2. QED
    BY <2>1
<1>3. CASE RemoveOld
  <2>1. PICK s \in Doomed(pc), p \in Ranks :
          shard' = [shard EXCEPT ![pc][s][p] = 0]
    BY <1>3 DEF RemoveOld
  <2>2. s # tracker /\ s \in Steps
    <3>1. pc \in Roles /\ rpc[0] = "enter"
      BY <1>3 DEF RemoveOld
    <3>2. QED
      BY <3>1, DoomedIsOlder
  <2>3. tracker \in Steps => \A r \in Roles, q \in Ranks :
          shard'[r][tracker][q] = shard[r][tracker][q]
    BY <1>3, <2>1, <2>2 DEF RemoveOld
  <2>4. QED
    BY <1>3, <2>3 DEF RemoveOld
<1>4. ASSUME NEW q \in Ranks,
             ArriveAtBarrier(q) \/ OpenShard(q) \/ DumpShard(q) \/ ReturnFromSave(q)
      PROVE  TrackedComplete'
  <2>1. pc \in Roles /\ tracker # globalSteps
    BY <1>4 DEF ArriveAtBarrier, OpenShard, DumpShard, ReturnFromSave, Roles,
                NoFile, Torn, Steps
  <2>2. tracker \in Steps => \A r \in Roles, p \in Ranks :
          shard'[r][tracker][p] = shard[r][tracker][p]
    BY <1>4, <2>1 DEF ArriveAtBarrier, OpenShard, DumpShard, ReturnFromSave
  <2>3. UNCHANGED <<era, tracker, data>>
    BY <1>4 DEF ArriveAtBarrier, OpenShard, DumpShard, ReturnFromSave
  <2>4. SUFFICES ASSUME tracker \in Steps
                 PROVE  \E e \in 1 .. era : CompleteBy(tracker, e)'
    BY <2>3
  <2>5. PICK e \in 1 .. era : CompleteBy(tracker, e)
    BY <2>4
  <2>6. CompleteBy(tracker, e)'
    BY <2>2, <2>3, <2>4, <2>5
  <2>7. QED
    BY <2>6
<1>5. CASE OpenData \/ WriteData
  <2>1. tracker # globalSteps
    BY <1>5 DEF OpenData, WriteData, NoFile, Torn, Steps
  <2>2. tracker \in Steps => data'[tracker] = data[tracker]
    BY <1>5, <2>1 DEF OpenData, WriteData
  <2>3. QED
    BY <1>5, <2>2 DEF OpenData, WriteData
<1>6. CASE OpenTracker
  BY <1>6 DEF OpenTracker, Torn, Steps
<1>7. CASE WriteTracker
  <2>1. era \in 1 .. era
    BY <1>7 DEF WriteTracker, Eras
  <2>2. CompleteBy(globalSteps, era)
    BY <1>7 DEF WriteTracker, Behind, Roles
  <2>3. QED
    BY <1>7, <2>1, <2>2 DEF WriteTracker
<1>8. CASE OpenSidecar \/ WriteSidecar
  BY <1>8 DEF OpenSidecar, WriteSidecar
<1>9. CASE Crash
  BY <1>9 DEF Crash
<1>10. CASE Over \/ UNCHANGED vars
  BY <1>10 DEF Over, vars
<1>11. QED
  BY <1>1, <1>2, <1>3, <1>4, <1>5, <1>6, <1>7, <1>8, <1>9, <1>10
  DEF Next, Run

\* The invariant of the driver alone: it needs no assumption on rotation.
LEMMA TrackerOrderInvariant == ASSUME AutoOnly PROVE Spec => []TrackerOrder
<1>1. Init => TrackerOrder
  BY DEF Init, TrackerOrder, AtRest, NoFile
<1>2. TypeOK /\ TrackerOrder /\ [Next]_vars => TrackerOrder'
  BY TrackerOrderStep
<1>3. QED
  BY <1>1, <1>2, Typing, PTL DEF Spec

\* The invariant behind TrackedComplete holds in every reachable state.
LEMMA CheckpointInvariant ==
  ASSUME AutoOnly, KeepNotOne
  PROVE  Spec => []IInv
<1>1. Init => IInv
  <2> SUFFICES ASSUME Init PROVE IInv
    OBVIOUS
  <2> USE DEF Init, AtRest, Saving, NoFile
  <2>1. TrackerOrder /\ DumpedSoFar /\ TrackedComplete
    BY DEF TrackerOrder, DumpedSoFar, Behind, Roles, TrackedComplete, Steps
  <2>2. SavedOrder
    BY DEF SavedOrder, Increasing
  <2>3. QED
    BY <2>1, <2>2 DEF IInv
<1>2. TypeOK /\ IInv /\ [Next]_vars => IInv'
  BY TrackerOrderStep, DumpedSoFarStep, SavedOrderStep, TrackedCompleteStep
  DEF IInv
<1>3. QED
  BY <1>1, <1>2, Typing, PTL DEF Spec

\* In resume mode auto, with max_ckpt_to_keep # 1, whatever the tracker names
\* was written completely, by one launch, at every moment of every history of
\* launches and crashes: the job can be killed anywhere and the checkpoint a
\* readable tracker names is there.
THEOREM TrackedIsComplete ==
  ASSUME AutoOnly, KeepNotOne
  PROVE  Spec => []TrackedComplete
<1>1. IInv => TrackedComplete
  BY DEF IInv
<1>2. QED
  BY <1>1, CheckpointInvariant, PTL

\* In resume mode auto the tracker is only ever truncated to name a later step.
THEOREM TrackerOnlyForward == ASSUME AutoOnly PROVE Spec => TrackerMovesForward
<1> DEFINE Forward == tracker' = Torn /\ tracker # Torn => globalSteps > tracker
<1>1. TypeOK /\ TrackerOrder /\ [Next]_vars => [Forward]_vars
  <2> SUFFICES ASSUME TypeOK, TrackerOrder, Next, tracker' = Torn, tracker # Torn
               PROVE  globalSteps > tracker
    OBVIOUS
  <2>1. ~ (pc = "number") /\ (pc = "number" => globalSteps # Torn)
    BY DEF TrackerOrder, TypeOK, AtRest, Steps, Torn
  <2>2. OpenTracker
    BY <2>1 DEF Next, Run, Launch, TrainStep, EndStep, RemoveOld, GroupSaved,
      ArriveAtBarrier, OpenShard, DumpShard, ReturnFromSave, OpenData, WriteData,
      WriteTracker, OpenSidecar, WriteSidecar, Crash, Over, vars, disk, memory
  <2>3. QED
    BY <2>2 DEF OpenTracker, TrackerOrder, TypeOK, NoFile, Torn, Steps, AtRest
<1>2. Spec => [][Forward]_vars
  BY <1>1, TrackerOrderInvariant, Typing, PTL DEF Spec
<1>3. QED
  BY <1>2 DEF TrackerMovesForward

------------------------------------------------------------------------------
(* A crash loses at most save_freq steps: no multiple of save_freq is      *)
(* passed without a save.                                                  *)

\* No step passes a milestone without saving it.
LEMMA NoMilestoneSkippedStep ==
  ASSUME AutoOnly, TypeOK, TrackerOrder, NoMilestoneSkipped, [Next]_vars
  PROVE  NoMilestoneSkipped'
<1> USE DEF NoMilestoneSkipped, TrackerOrder, TypeOK, AtRest, Saving, disk,
            memory, NoFile, Torn, IsLastStep
<1>0. \A m \in Milestones : m \in Nat \ {0} /\ m % SaveFreq = 0
  BY DEF Milestones
<1>1. CASE Launch
  BY <1>0, <1>1 DEF Launch, FreshStart, ScratchIn, ResumeFrom, ResumeFails,
                    Folders, AutoOnly, Steps, Eras
<1>2. CASE TrainStep
  BY <1>0, <1>2 DEF TrainStep, SaveDue, Steps
<1>3. CASE EndStep
  BY <1>0, <1>3 DEF EndStep, Steps
<1>4. CASE RemoveOld
  BY <1>4 DEF RemoveOld, Roles
<1>5. CASE GroupSaved
  BY <1>5 DEF GroupSaved, Roles
<1>6. ASSUME NEW q \in Ranks,
             ArriveAtBarrier(q) \/ OpenShard(q) \/ DumpShard(q) \/ ReturnFromSave(q)
      PROVE  NoMilestoneSkipped'
  BY <1>6 DEF ArriveAtBarrier, OpenShard, DumpShard, ReturnFromSave, Roles
<1>7. CASE OpenData \/ OpenSidecar
  BY <1>7 DEF OpenData, OpenSidecar
<1>8. CASE WriteData
  BY <1>8 DEF WriteData
<1>9. CASE OpenTracker
  BY <1>9 DEF OpenTracker
<1>10. CASE WriteTracker
  BY <1>0, <1>10 DEF WriteTracker, Steps
<1>11. CASE WriteSidecar
  BY <1>0, <1>11 DEF WriteSidecar, Steps
<1>12. CASE Crash
  BY <1>12 DEF Crash
<1>13. CASE Over \/ UNCHANGED vars
  BY <1>13 DEF Over, vars
<1>14. QED
  BY <1>1, <1>2, <1>3, <1>4, <1>5, <1>6, <1>7, <1>8, <1>9, <1>10, <1>11,
     <1>12, <1>13 DEF Next, Run

\* The milestones are kept in every reachable state.
LEMMA MilestoneInvariant == ASSUME AutoOnly PROVE Spec => []NoMilestoneSkipped
<1>1. Init => NoMilestoneSkipped
  BY DEF Init, NoMilestoneSkipped, AtRest
<1>2. TypeOK /\ TrackerOrder /\ NoMilestoneSkipped /\ [Next]_vars
        => NoMilestoneSkipped'
  BY NoMilestoneSkippedStep
<1>3. QED
  BY <1>1, <1>2, TrackerOrderInvariant, Typing, PTL DEF Spec

\* The step being trained is at most save_freq ahead of the tracked one.
LEMMA LossFromMilestones ==
  ASSUME TypeOK, NoMilestoneSkipped, pc \notin AtRest, tracker # Torn
  PROVE  globalSteps - tracker <= SaveFreq
<1>1. tracker \in 0 .. StepBound /\ globalSteps \in Nat
  BY DEF TypeOK, NoFile, Steps
<1> tracker \in Nat /\ SaveFreq \in Nat \ {0}
  BY <1>1
<1>2. PICK m \in tracker + 1 .. tracker + SaveFreq : m % SaveFreq = 0
  BY MilestoneAhead, ZenonT(20)
<1>3. m \in Milestones /\ tracker < m
  BY <1>1, <1>2 DEF Milestones
<1>4. globalSteps <= m
  BY <1>3 DEF NoMilestoneSkipped
<1>5. QED
  BY <1>1, <1>2, <1>4

\* In resume mode auto a crash costs at most save_freq steps: the step being
\* trained is never further ahead of the one a relaunch would resume from.
THEOREM CrashCostsLittle == ASSUME AutoOnly PROVE Spec => []BoundedLoss
<1>1. TypeOK /\ NoMilestoneSkipped => BoundedLoss
  BY LossFromMilestones DEF BoundedLoss
<1>2. QED
  BY <1>1, MilestoneInvariant, Typing, PTL

------------------------------------------------------------------------------
(* Rotation: what one launch has on disk is what rank 0 remembers.         *)

\* A sequence has at most as many elements as places.
LEMMA RangeBound ==
  ASSUME NEW T, NEW s \in Seq(T)
  PROVE  LET R == {s[i] : i \in 1 .. Len(s)}
         IN  IsFiniteSet(R) /\ Cardinality(R) <= Len(s)
<1> DEFINE R == {s[i] : i \in 1 .. Len(s)}
           f == [i \in 1 .. Len(s) |-> s[i]]
<1>1. Len(s) \in Nat
  OBVIOUS
<1>2. IsFiniteSet(1 .. Len(s)) /\ Cardinality(1 .. Len(s)) = Len(s)
  <2>1. \A n \in Nat : IsFiniteSet(1 .. n) /\ Cardinality(1 .. n) = n
    <3> TAKE n \in Nat
    <3>1. 1 \in Int /\ n \in Int
      OBVIOUS
    <3>2. /\ IsFiniteSet(1 .. n)
          /\ Cardinality(1 .. n) = IF 1 > n THEN 0 ELSE n - 1 + 1
      BY <3>1, FS_Interval, Zenon
    <3>3. QED
      BY <3>2
  <2>2. QED
    BY <1>1, <2>1
<1>3. f \in Surjection(1 .. Len(s), R)
  BY DEF Surjection
<1> HIDE DEF f, R
<1>4. IsFiniteSet(R) /\ Cardinality(R) <= Cardinality(1 .. Len(s))
  BY <1>2, <1>3, FS_Surjection
<1>5. QED
  BY <1>2, <1>4 DEF R

\* A launch owns at most the directories rank 0 remembers, and one more.
LEMMA OwnDirsBound ==
  ASSUME TypeOK, OwnOrder, pc \notin AtRest
  PROVE  RotationBound
<1> SUFFICES ASSUME NEW r \in Roles, Keep[r] > 0
             PROVE  Cardinality(OwnDirs(r)) <= Keep[r]
  BY DEF RotationBound
<1> DEFINE R == Remembered(r)
<1>0. Owned(r)
  BY DEF OwnOrder
<1>1. saved[r] \in Seq(Steps) /\ Len(saved[r]) \in Nat /\ Keep[r] \in Nat
  BY DEF TypeOK, Roles
<1>2. IsFiniteSet(R) /\ Cardinality(R) <= Len(saved[r]) /\ Cardinality(R) \in Nat
  <2>1. IsFiniteSet(R) /\ Cardinality(R) <= Len(saved[r])
    BY <1>1, RangeBound, Zenon DEF Remembered
  <2>2. QED
    BY <2>1, FS_CardinalityType
<1>3. CASE Rotating(r)
  <2>1. OwnDirs(r) \subseteq R \cup {globalSteps} /\ Len(saved[r]) <= Keep[r] - 1
    BY <1>0, <1>3 DEF Owned
  <2>2. /\ IsFiniteSet(R \cup {globalSteps})
        /\ Cardinality(R \cup {globalSteps}) \in {Cardinality(R), Cardinality(R) + 1}
    BY <1>2, FS_AddElement
  <2>3. /\ Cardinality(OwnDirs(r)) <= Cardinality(R \cup {globalSteps})
        /\ Cardinality(OwnDirs(r)) \in Nat
    BY <2>1, <2>2, FS_Subset, FS_CardinalityType
  <2>4. QED
    BY <1>1, <1>2, <2>1, <2>2, <2>3
<1>4. CASE ~ Rotating(r)
  <2>1. OwnDirs(r) \subseteq R /\ Len(saved[r]) <= Keep[r]
    BY <1>0, <1>4 DEF Owned
  <2>2. Cardinality(OwnDirs(r)) <= Cardinality(R) /\ Cardinality(OwnDirs(r)) \in Nat
    BY <1>2, <2>1, FS_Subset, FS_CardinalityType
  <2>3. QED
    BY <1>1, <1>2, <2>1, <2>2
<1>5. QED
  BY <1>3, <1>4

\* Every step keeps the ranks together with rank 0.
LEMMA BarrierOrderStep ==
  ASSUME TypeOK, BarrierOrder, [Next]_vars
  PROVE  BarrierOrder'
<1> USE DEF BarrierOrder, TypeOK, AtRest, Saving, disk, memory, Roles, Ranks
<1>1. CASE Launch \/ Crash
  BY <1>1 DEF Launch, Crash
<1>2. CASE TrainStep \/ EndStep
  <2>1. pc \notin Roles /\ UNCHANGED rpc
    BY <1>2 DEF TrainStep, EndStep
  <2>2. QED
    BY <2>1
<1>10. CASE RemoveOld \/ GroupSaved
  BY <1>10 DEF RemoveOld, GroupSaved
<1>3. ASSUME NEW q \in Ranks, ArriveAtBarrier(q) PROVE BarrierOrder'
  BY <1>3 DEF ArriveAtBarrier
<1>4. ASSUME NEW q \in Ranks, OpenShard(q) PROVE BarrierOrder'
  BY <1>4 DEF OpenShard
<1>5. ASSUME NEW q \in Ranks, DumpShard(q) PROVE BarrierOrder'
  BY <1>5 DEF DumpShard
<1>6. ASSUME NEW q \in Ranks, ReturnFromSave(q) PROVE BarrierOrder'
  BY <1>6 DEF ReturnFromSave
<1>7. CASE OpenData \/ WriteData \/ OpenTracker \/ WriteTracker
  BY <1>7 DEF OpenData, WriteData, OpenTracker, WriteTracker
<1>8. CASE OpenSidecar \/ WriteSidecar \/ Over \/ UNCHANGED vars
  BY <1>8 DEF OpenSidecar, WriteSidecar, Over, vars
<1>9. QED
  BY <1>1, <1>2, <1>3, <1>4, <1>5, <1>6, <1>7, <1>8, <1>10 DEF Next, Run

\* A role that the step does not concern keeps what it owns.
LEMMA OwnedKept ==
  ASSUME NEW r \in Roles, Owned(r), OwnDirs(r)' \subseteq OwnDirs(r),
         saved'[r] = saved[r], Rotating(r)' <=> Rotating(r),
         Rotating(r) => globalSteps' = globalSteps
  PROVE  Owned(r)'
BY DEF Owned, Remembered

\* Every step keeps what the launch owns to what rank 0 remembers.
LEMMA OwnOrderStep ==
  ASSUME TypeOK, BarrierOrder, OwnOrder, [Next]_vars
  PROVE  OwnOrder'
<1> USE DEF OwnOrder, TypeOK, AtRest, Saving, disk, memory
<1>0. \A r \in Roles : saved[r] \in Seq(Steps) /\ Keep[r] \in Nat /\ Len(saved[r]) \in Nat
  BY DEF Roles
<1>1. CASE Launch
  <2>1. era' = era + 1 /\ era \in Nat /\ shard' = shard
    BY <1>1 DEF Launch
  <2>2. \A r \in Roles, s \in Steps, q \in Ranks : shard'[r][s][q] \in -era .. era
    BY <2>1
  <2>3. \A r \in Roles, s \in Steps, q \in Ranks : shard'[r][s][q] \in -era' .. era'
    BY <2>1, <2>2
  <2>4. \A r \in Roles : OwnDirs(r)' = {}
    BY <2>1, <2>2 DEF OwnDirs
  <2>5. \A r \in Roles : saved'[r] = <<>> /\ rpc'[0] = "enter"
    BY <1>1 DEF Launch, Ranks
  <2>6. \A r \in Roles : Owned(r)'
    BY <1>0, <2>4, <2>5 DEF Owned, Rotating
  <2>7. QED
    BY <2>3, <2>6
<1>2. CASE TrainStep \/ EndStep
  <2>1. pc \notin Roles /\ pc \notin AtRest /\ UNCHANGED <<rpc, saved, shard, era>>
    BY <1>2 DEF TrainStep, EndStep, Roles
  <2>2. rpc[0] = "enter"
    BY <2>1 DEF BarrierOrder, Ranks
  <2>3. \A r \in Roles : ~ Rotating(r) /\ ~ Rotating(r)' /\ OwnDirs(r)' = OwnDirs(r)
    BY <2>1, <2>2 DEF Rotating, OwnDirs
  <2>4. \A r \in Roles : Owned(r)'
    BY <2>1, <2>3 DEF Owned, Remembered
  <2>5. QED
    BY <2>1, <2>4
<1>3. CASE RemoveOld
  <2>1. PICK s \in Doomed(pc), p \in Ranks :
          shard' = [shard EXCEPT ![pc][s][p] = 0]
    BY <1>3 DEF RemoveOld
  <2>2. s \in Steps /\ pc \in Roles /\ pc \notin AtRest /\ era \in Nat
    BY <1>3, DoomedType DEF RemoveOld, Roles
  <2>3. \A r \in Roles, t \in Steps, q \in Ranks :
          shard'[r][t][q] = shard[r][t][q] \/ shard'[r][t][q] = 0
    BY <2>1, <2>2
  <2>4. UNCHANGED <<pc, rpc, saved, globalSteps, era>>
    BY <1>3 DEF RemoveOld
  <2>5. \A r \in Roles : OwnDirs(r)' \subseteq OwnDirs(r) /\ (Rotating(r)' <=> Rotating(r))
    BY <2>3, <2>4 DEF OwnDirs, Rotating
  <2>6. \A r \in Roles : Owned(r)'
    BY <2>2, <2>4, <2>5 DEF Owned, Remembered
  <2>7. \A r \in Roles, t \in Steps, q \in Ranks : shard'[r][t][q] \in -era .. era
    <3>1. SUFFICES ASSUME NEW r \in Roles, NEW t \in Steps, NEW q \in Ranks
          PROVE  shard'[r][t][q] \in -era .. era
      OBVIOUS
    <3>2. shard'[r][t][q] = shard[r][t][q] \/ shard'[r][t][q] = 0
      BY <2>3, <3>1
    <3>3. shard[r][t][q] \in -era .. era
      BY <3>1
    <3>4. 0 \in -era .. era
      BY <2>2
    <3>5. QED
      BY <3>2, <3>3, <3>4
  <2>8. QED
    BY <2>4, <2>6, <2>7
<1>4. CASE GroupSaved
  <2>1. rpc[0] = "returned" /\ rpc'[0] = "enter" /\ pc \notin AtRest
    BY <1>4 DEF GroupSaved, Ranks, Roles
  <2>2. UNCHANGED <<saved, shard, era>>
    BY <1>4 DEF GroupSaved
  <2>3. \A r \in Roles : ~ Rotating(r) /\ ~ Rotating(r)' /\ OwnDirs(r)' = OwnDirs(r)
    BY <2>1, <2>2 DEF Rotating, OwnDirs
  <2>4. \A r \in Roles : Owned(r)'
    BY <2>1, <2>2, <2>3 DEF Owned, Remembered
  <2>5. QED
    BY <2>2, <2>4
<1>5. ASSUME NEW q \in Ranks, ArriveAtBarrier(q)
      PROVE  OwnOrder'
  <2>0. UNCHANGED <<pc, globalSteps, shard, era>> /\ pc \in Roles /\ pc \notin AtRest
    BY <1>5 DEF ArriveAtBarrier, Roles
  <2>1. CASE q # 0
    <3>1. saved' = saved /\ rpc'[0] = rpc[0]
      BY <1>5, <2>1 DEF ArriveAtBarrier, Ranks
    <3>2. \A r \in Roles : (Rotating(r)' <=> Rotating(r)) /\ OwnDirs(r)' = OwnDirs(r)
      BY <2>0, <3>1 DEF Rotating, OwnDirs
    <3>3. \A r \in Roles : Owned(r)'
      BY <2>0, <3>1, <3>2, SMTT(30) DEF Owned, Remembered
    <3>4. QED
      BY <2>0, <3>3
  <2>2. CASE q = 0
    <3> DEFINE s == saved[pc]
               t == SubSeq(saved[pc], Excess(pc) + 1, Len(saved[pc]))
               e == Excess(pc)
    <3>1. /\ t \in Seq(Steps)
          /\ Len(t) = Len(s) - e
          /\ \A i \in 1 .. Len(t) : t[i] = s[i + e]
      BY <2>0, Rotated
    <3>2. e \in 0 .. Len(s) /\ Len(s) \in Nat
      BY <1>0, <2>0, ExcessBound
    <3>3. saved' = [saved EXCEPT ![pc] = t] /\ rpc[0] = "enter" /\ rpc'[0] = "ready"
      BY <1>5, <2>2 DEF ArriveAtBarrier, Ranks
    <3>4. /\ saved'[pc] = t
          /\ \A r \in Roles \ {pc} : saved'[r] = saved[r] /\ ~ Rotating(r)'
          /\ Rotating(pc)'
          /\ \A r \in Roles : ~ Rotating(r) /\ OwnDirs(r)' = OwnDirs(r)
      BY <2>0, <3>3 DEF Rotating, OwnDirs
    <3>0. Owned(pc) /\ ~ Rotating(pc) /\ Keep[pc] \in Nat
      BY <1>0, <2>0, <3>4
    <3>5. Keep[pc] > 0 => Len(t) <= Keep[pc] - 1
      <4>1. Keep[pc] > 0 => Len(s) <= Keep[pc]
        BY <3>0 DEF Owned
      <4>2. Keep[pc] > 0 /\ Len(s) >= Keep[pc] => e = Len(s) - Keep[pc] + 1
        BY DEF Excess
      <4> HIDE DEF s, t, e
      <4>3. QED
        BY <3>0, <3>1, <3>2, <4>1, <4>2
    <3>6. OwnDirs(pc) \subseteq {t[i] : i \in 1 .. Len(t)} \cup {globalSteps}
      <4> SUFFICES ASSUME NEW x \in OwnDirs(pc)
                   PROVE  x \in {t[i] : i \in 1 .. Len(t)}
        OBVIOUS
      <4>1. x \in Steps /\ \E p \in Ranks : shard[pc][x][p] # 0
        BY DEF OwnDirs
      <4>2. PICK i \in 1 .. Len(s) : x = s[i]
        BY <3>0 DEF Owned, Remembered
      <4>3. x \notin Doomed(pc)
        BY <1>5, <2>2, <4>1 DEF ArriveAtBarrier
      <4>4. ~ (i \in 1 .. e)
        BY <4>2, <4>3 DEF Doomed
      <4> HIDE DEF s, t, e
      <4>5. i - e \in 1 .. Len(t) /\ t[i - e] = s[i]
        <5>1. i - e \in 1 .. Len(t) /\ (i - e) + e = i
          BY <3>1, <3>2, <4>2, <4>4
        <5>2. QED
          BY <3>1, <5>1
      <4>6. QED
        BY <4>2, <4>5
    <3> HIDE DEF s, t, e
    <3>7. Owned(pc)'
      BY <2>0, <3>4, <3>5, <3>6 DEF Owned, Remembered
    <3>8. \A r \in Roles \ {pc} : Owned(r)'
      BY <2>0, <3>4, OwnedKept
    <3>9. QED
      BY <2>0, <3>7, <3>8
  <2>3. QED
    BY <2>1, <2>2
<1>6. ASSUME NEW q \in Ranks, OpenShard(q) \/ DumpShard(q)
      PROVE  OwnOrder'
  <2>1. PICK v \in {-era, era} :
          shard' = [shard EXCEPT ![pc][globalSteps][q] = v]
    BY <1>6 DEF OpenShard, DumpShard
  <2>2. /\ pc \in Roles /\ pc \notin AtRest /\ globalSteps \in Steps /\ era \in Nat
        /\ UNCHANGED <<pc, saved, globalSteps, era>>
    BY <1>6 DEF OpenShard, DumpShard, Roles
  <2>3. rpc[0] \in {"ready", "dumping", "dumped"} /\ rpc'[0] \in {"ready", "dumping", "dumped"}
    BY <1>6, SMTT(30) DEF OpenShard, DumpShard, BarrierOrder, Ranks
  <2>4. \A r \in Roles, s \in Steps, p \in Ranks :
          /\ shard'[r][s][p] \in -era .. era
          /\ shard'[r][s][p] = shard[r][s][p] \/ (r = pc /\ s = globalSteps)
    BY <2>1, <2>2, SMTT(30)
  <2>5. \A r \in Roles : Rotating(r)' <=> Rotating(r)
    BY <2>2, <2>3 DEF Rotating
  <2>6. \A r \in Roles : OwnDirs(r)' \subseteq
          OwnDirs(r) \cup (IF r = pc THEN {globalSteps} ELSE {})
    <3> SUFFICES ASSUME NEW r \in Roles, NEW s \in OwnDirs(r)',
                        ~ (r = pc /\ s = globalSteps)
                 PROVE  s \in OwnDirs(r)
      OBVIOUS
    <3>1. s \in Steps /\ \E p \in Ranks : shard'[r][s][p] \in {era, -era} \ {0}
      BY <2>2 DEF OwnDirs
    <3>2. \A p \in Ranks : shard'[r][s][p] = shard[r][s][p]
      BY <2>4, <3>1
    <3>3. QED
      BY <3>1, <3>2 DEF OwnDirs
  <2>7. Rotating(pc)
    BY <2>3 DEF Rotating
  <2>8. \A r \in Roles : Owned(r)'
    BY <2>2, <2>5, <2>6, <2>7 DEF Owned, Remembered
  <2>9. QED
    BY <2>2, <2>4, <2>8
<1>7. ASSUME NEW q \in Ranks, ReturnFromSave(q)
      PROVE  OwnOrder'
  <2>0. /\ pc \in Roles /\ pc \notin AtRest /\ globalSteps \in Steps
        /\ UNCHANGED <<pc, globalSteps, shard, era>>
    BY <1>7 DEF ReturnFromSave, Roles
  <2>1. \A r \in Roles : OwnDirs(r)' = OwnDirs(r)
    BY <2>0 DEF OwnDirs
  <2>2. CASE q # 0
    <3>1. saved' = saved /\ rpc'[0] = rpc[0]
      BY <1>7, <2>2 DEF ReturnFromSave, Ranks
    <3>2. \A r \in Roles : Owned(r)'
      BY <2>0, <2>1, <3>1 DEF Rotating, Owned, Remembered
    <3>3. QED
      BY <2>0, <3>2
  <2>3. CASE q = 0
    <3> DEFINE s == saved[pc]
               t == Append(s, globalSteps)
    <3>1. /\ saved'[pc] = t
          /\ \A r \in Roles \ {pc} : saved'[r] = saved[r]
          /\ rpc[0] = "dumped" /\ rpc'[0] = "returned"
      BY <1>7, <2>0, <2>3 DEF ReturnFromSave, Ranks
    <3>2. Rotating(pc) /\ \A r \in Roles : ~ Rotating(r)' /\ (r # pc => ~ Rotating(r))
      BY <2>0, <3>1 DEF Rotating
    <3>3. /\ Len(t) = Len(s) + 1 /\ Len(s) \in Nat
          /\ t[Len(s) + 1] = globalSteps
          /\ \A i \in 1 .. Len(s) : t[i] = s[i]
      BY <1>0, <2>0
    <3>4. {s[i] : i \in 1 .. Len(s)} \cup {globalSteps} \subseteq {t[i] : i \in 1 .. Len(t)}
      <4> HIDE DEF s, t
      <4>1. \A i \in 1 .. Len(s) : i \in 1 .. Len(t) /\ Len(s) + 1 \in 1 .. Len(t)
        BY <3>3
      <4>2. Len(s) + 1 \in 1 .. Len(t)
        BY <3>3
      <4>3. QED
        BY <3>3, <4>1, <4>2
    <3>5. OwnDirs(pc) \subseteq {t[i] : i \in 1 .. Len(t)}
      BY <2>0, <3>2, <3>4 DEF Owned, Remembered
    <3>6. Keep[pc] > 0 => Len(t) <= Keep[pc]
      BY <1>0, <2>0, <3>2, <3>3 DEF Owned
    <3> HIDE DEF s, t
    <3>7. Owned(pc)'
      BY <2>0, <2>1, <3>1, <3>2, <3>5, <3>6 DEF Owned, Remembered
    <3>8. \A r \in Roles \ {pc} : Owned(r)'
      BY <2>0, <2>1, <3>1, <3>2, OwnedKept
    <3>9. QED
      BY <2>0, <3>7, <3>8
  <2>4. QED
    BY <2>2, <2>3
<1>8. CASE OpenData \/ WriteData \/ OpenTracker \/ WriteTracker \/ OpenSidecar \/ WriteSidecar
  <2>1. pc \notin Roles /\ pc \notin AtRest /\ UNCHANGED <<rpc, saved, shard, era>>
    BY <1>8 DEF OpenData, WriteData, OpenTracker, WriteTracker, OpenSidecar,
                WriteSidecar, Roles
  <2>2. pc' \notin Roles
    BY <1>8 DEF OpenData, WriteData, OpenTracker, WriteTracker, OpenSidecar,
                WriteSidecar, Roles
  <2>3. \A r \in Roles : ~ Rotating(r) /\ ~ Rotating(r)' /\ OwnDirs(r)' = OwnDirs(r)
    BY <2>1, <2>2 DEF Rotating, OwnDirs
  <2>4. \A r \in Roles : Owned(r)'
    BY <2>1, <2>3 DEF Owned, Remembered
  <2>5. QED
    BY <2>1, <2>4
<1>9. CASE Crash
  BY <1>9 DEF Crash
<1>10. CASE Over \/ UNCHANGED vars
  <2>1. UNCHANGED <<pc, rpc, saved, shard, era, globalSteps>>
    BY <1>10 DEF Over, vars
  <2>2. \A r \in Roles : OwnDirs(r)' = OwnDirs(r) /\ (Rotating(r)' <=> Rotating(r))
    BY <2>1 DEF OwnDirs, Rotating
  <2>3. pc \notin AtRest => \A r \in Roles : Owned(r)'
    BY <2>1, <2>2, OwnedKept
  <2>4. QED
    BY <2>1, <2>3
<1>11. QED
  BY <1>1, <1>2, <1>3, <1>4, <1>5, <1>6, <1>7, <1>8, <1>9, <1>10 DEF Next, Run

\* A launch that ends leaves the directories it had.
LEMMA RestBoundStep ==
  ASSUME TypeOK, OwnOrder, pc \in AtRest => RotationBound, [Next]_vars,
         pc' \in AtRest
  PROVE  RotationBound'
<1>1. RotationBound
  BY OwnDirsBound
<1>2. CASE Launch
  <2>1. era' = era + 1 /\ era \in Nat /\ shard' = shard
    BY <1>2 DEF Launch, TypeOK, disk
  <2>2. \A r \in Roles : OwnDirs(r)' = {}
    BY <2>1 DEF OwnDirs, OwnOrder
  <2>3. Cardinality({}) = 0 /\ \A r \in Roles : Keep[r] \in Nat
    BY FS_EmptySet DEF Roles
  <2>4. QED
    BY <2>2, <2>3 DEF RotationBound
<1>3. CASE ~ Launch
  <2>1. UNCHANGED <<shard, era>>
    BY <1>3 DEF Next, Run, TrainStep, EndStep, RemoveOld, GroupSaved,
      ArriveAtBarrier, OpenShard, DumpShard, ReturnFromSave, OpenData, WriteData,
      OpenTracker, WriteTracker, OpenSidecar, WriteSidecar, Crash, Over, vars,
      memory, disk, AtRest, Roles
  <2>2. QED
    BY <1>1, <2>1 DEF RotationBound, OwnDirs
<1>4. QED
  BY <1>2, <1>3

\* In every resume mode, the directories a launch has written and not removed
\* again never exceed max_ckpt_to_keep, also while the next one is written.
THEOREM RotationIsBounded == Spec => []RotationBound
<1>1. Init => RInv
  <2> SUFFICES ASSUME Init PROVE RInv
    OBVIOUS
  <2>1. BarrierOrder /\ OwnOrder
    BY DEF Init, BarrierOrder, OwnOrder, AtRest, Ranks, Roles
  <2>2. \A r \in Roles : OwnDirs(r) = {}
    BY DEF Init, OwnDirs
  <2>5. Cardinality({}) = 0 /\ \A r \in Roles : Keep[r] \in Nat
    BY FS_EmptySet DEF Roles
  <2>3. RotationBound
    <3> SUFFICES ASSUME NEW r \in Roles, Keep[r] > 0
                 PROVE  Cardinality(OwnDirs(r)) <= Keep[r]
      BY DEF RotationBound
    <3>1. Cardinality(OwnDirs(r)) = 0
      BY <2>2, <2>5
    <3>2. QED
      BY <2>5, <3>1
  <2>4. QED
    BY <2>1, <2>3 DEF RInv
<1>2. TypeOK /\ RInv /\ [Next]_vars => RInv'
  BY BarrierOrderStep, OwnOrderStep, RestBoundStep DEF RInv
<1>3. TypeOK /\ RInv => RotationBound
  BY OwnDirsBound DEF RInv
<1>4. QED
  BY <1>1, <1>2, <1>3, Typing, PTL DEF Spec

------------------------------------------------------------------------------
(* The recipe's sidecar: it is written after the tracker, in place.        *)

\* Every step keeps sidecars to steps the tracker has named, torn ones to the
\* step it names now.
LEMMA SidecarOrderStep ==
  ASSUME AutoOnly, TypeOK, TrackerOrder, SidecarOrder, [Next]_vars
  PROVE  SidecarOrder'
<1> USE DEF SidecarOrder, TrackerOrder, TypeOK, AtRest, Saving, disk, memory,
            NoFile, Torn
<1>1. CASE Launch
  <2>1. PICK mode \in ResumeModes :
          FreshStart(mode) \/ ResumeFrom(mode) \/ ResumeFails(mode)
    BY <1>1 DEF Launch
  <2>2. mode = "auto" /\ UNCHANGED <<data, sidecar, tracker>> /\ pc \in AtRest
    BY <1>1 DEF Launch, AutoOnly
  <2>3. CASE FreshStart(mode)
    BY <2>2, <2>3 DEF FreshStart, ScratchIn, Steps
  <2>4. CASE ResumeFrom(mode)
    <3>1. tracker \in Steps /\ Loadable(tracker) /\ pc' = "train"
      BY <2>2, <2>4 DEF ResumeFrom, Folders
    <3>2. \A s \in Steps : sidecar[s] \in Int /\ ~ (sidecar[s] < 0)
      BY <3>1 DEF Loadable, File
    <3>3. QED
      BY <2>2, <3>1, <3>2
  <2>5. CASE ResumeFails(mode)
    BY <2>2, <2>5 DEF ResumeFails
  <2>6. QED
    BY <2>1, <2>3, <2>4, <2>5
<1>2. CASE TrainStep \/ EndStep
  <2>1. UNCHANGED <<data, sidecar, tracker>> /\ pc \in {"train", "end"}
    BY <1>2 DEF TrainStep, EndStep
  <2>2. pc' \in {"train", "actor", "end", "done"}
    BY <1>2 DEF TrainStep, EndStep
  <2>3. QED
    BY <2>1, <2>2
<1>3. CASE RemoveOld \/ GroupSaved
  BY <1>3 DEF RemoveOld, GroupSaved, Roles
<1>4. ASSUME NEW q \in Ranks,
             ArriveAtBarrier(q) \/ OpenShard(q) \/ DumpShard(q) \/ ReturnFromSave(q)
      PROVE  SidecarOrder'
  BY <1>4 DEF ArriveAtBarrier, OpenShard, DumpShard, ReturnFromSave
<1>5. CASE OpenData \/ WriteData
  BY <1>5 DEF OpenData, WriteData
<1>6. CASE OpenTracker
  BY <1>6 DEF OpenTracker, Steps
<1>7. CASE WriteTracker
  BY <1>7 DEF WriteTracker, Steps
<1>8. CASE OpenSidecar
  BY <1>8 DEF OpenSidecar, Steps, Eras
<1>9. CASE WriteSidecar
  BY <1>9 DEF WriteSidecar, Steps, Eras
<1>10. CASE Crash
  BY <1>10 DEF Crash
<1>11. CASE Over \/ UNCHANGED vars
  BY <1>11 DEF Over, vars
<1>12. QED
  BY <1>1, <1>2, <1>3, <1>4, <1>5, <1>6, <1>7, <1>8, <1>9, <1>10, <1>11
  DEF Next, Run

\* No step pairs the tracked weights with another launch's controller state.
LEMMA SidecarNeverStaleStep ==
  ASSUME AutoOnly, TypeOK, TrackerOrder, SidecarOrder, SidecarNeverStale,
         [Next]_vars
  PROVE  SidecarNeverStale'
<1> USE DEF SidecarNeverStale, SidecarOrder, TrackerOrder, TypeOK, AtRest,
            Saving, disk, memory, NoFile, Torn
<1>1. CASE Launch
  BY <1>1 DEF Launch
<1>2. CASE TrainStep \/ EndStep \/ RemoveOld \/ GroupSaved
  BY <1>2 DEF TrainStep, EndStep, RemoveOld, GroupSaved
<1>3. ASSUME NEW q \in Ranks,
             ArriveAtBarrier(q) \/ OpenShard(q) \/ DumpShard(q) \/ ReturnFromSave(q)
      PROVE  SidecarNeverStale'
  BY <1>3 DEF ArriveAtBarrier, OpenShard, DumpShard, ReturnFromSave
<1>4. CASE OpenData \/ WriteData
  BY <1>4 DEF OpenData, WriteData, Steps
<1>5. CASE OpenTracker
  BY <1>5 DEF OpenTracker, Steps
<1>6. CASE WriteTracker
  BY <1>6 DEF WriteTracker, Steps
<1>7. CASE OpenSidecar
  BY <1>7 DEF OpenSidecar, Steps, Eras
<1>8. CASE WriteSidecar
  BY <1>8 DEF WriteSidecar, Steps
<1>9. CASE Crash \/ Over \/ UNCHANGED vars
  BY <1>9 DEF Crash, Over, vars
<1>10. QED
  BY <1>1, <1>2, <1>3, <1>4, <1>5, <1>6, <1>7, <1>8, <1>9 DEF Next, Run

\* The order of sidecars and tracker holds in every reachable state.
LEMMA SidecarInvariant == ASSUME AutoOnly PROVE Spec => []SidecarOrder
<1>1. Init => SidecarOrder
  BY DEF Init, SidecarOrder
<1>2. TypeOK /\ TrackerOrder /\ SidecarOrder /\ [Next]_vars => SidecarOrder'
  BY SidecarOrderStep
<1>3. QED
  BY <1>1, <1>2, TrackerOrderInvariant, Typing, PTL DEF Spec

\* In resume mode auto a resume never pairs the weights of one launch with the
\* controller state of another, wherever earlier launches were killed.
THEOREM SidecarIsFresh == ASSUME AutoOnly PROVE Spec => []SidecarNeverStale
<1>1. Init => SidecarNeverStale
  BY DEF Init, SidecarNeverStale, NoFile, Steps
<1>2. TypeOK /\ TrackerOrder /\ SidecarOrder /\ SidecarNeverStale /\ [Next]_vars
        => SidecarNeverStale'
  BY SidecarNeverStaleStep
<1>3. QED
  BY <1>1, <1>2, SidecarInvariant, TrackerOrderInvariant, Typing, PTL DEF Spec

------------------------------------------------------------------------------
(* The refinement of ResumableRun.                                         *)

\* A launch in mode auto is Start: it fails only when the tracker, or the
\* sidecar of the step it names, is torn.
LEMMA LaunchStarts ==
  ASSUME AutoOnly, TypeOK, IInv, SidecarOrder, Launch
  PROVE  Resumable!Start
<1>1. PICK mode \in ResumeModes :
        FreshStart(mode) \/ ResumeFrom(mode) \/ ResumeFails(mode)
  BY DEF Launch
<1>2. mode = "auto"
  BY DEF AutoOnly
<1>3. Status # "up" /\ UNCHANGED Durable
  BY DEF Launch, Status, AtRest, disk, Durable
<1>4. CASE FreshStart(mode)
  <2>1. Durable = 0
    BY <1>2, <1>4 DEF FreshStart, ScratchIn, Durable, NoFile, Steps
  <2>2. QED
    BY <1>3, <1>4, <2>1 DEF FreshStart, Resumable!Start, Resumable!Nothing,
       Status, AtRest
<1>5. CASE ResumeFrom(mode)
  <2>1. tracker \in Steps /\ sidecar[tracker] >= 0
    BY <1>2, <1>5 DEF ResumeFrom, Folders, Loadable, SidecarOrder, TypeOK, File
  <2>2. Durable = tracker /\ tracker # Resumable!Nothing
    BY <2>1 DEF Durable, Resumable!Nothing, Steps, TypeOK, File
  <2>3. QED
    BY <1>2, <1>3, <1>5, <2>2 DEF ResumeFrom, Folders, Resumable!Start, Status, AtRest
<1>6. CASE ResumeFails(mode)
  <2>1. ASSUME NEW s \in Folders(mode), ~ Loadable(s)
        PROVE  tracker \in Steps /\ sidecar[tracker] < 0
    <3>1. s = tracker /\ tracker \in Steps
      BY <1>2, <2>1 DEF Folders
    <3>2. PICK e \in 1 .. era : CompleteBy(tracker, e)
      BY <3>1 DEF IInv, TrackedComplete
    <3>3. data[s] >= 0 /\ \A r \in Roles : \A q \in Ranks : shard[r][s][q] > 0
      BY <3>1, <3>2 DEF CompleteBy, TypeOK
    <3>4. QED
      BY <2>1, <3>1, <3>3 DEF Loadable, TypeOK, File
  <2>2. Durable = Torn
    BY <1>6, <2>1 DEF ResumeFails, Durable
  <2>3. QED
    BY <1>3, <1>6, <2>2 DEF ResumeFails, Resumable!Start, Resumable!Nothing,
       Status, AtRest, Torn
<1>7. QED
  BY <1>1, <1>4, <1>5, <1>6

\* The end of a step is Advance, or Finish once the last step is tracked.
LEMMA EndStepAdvances ==
  ASSUME TypeOK, TrackerOrder, SidecarOrder, NoMilestoneSkipped, EndStep
  PROVE  Resumable!Advance \/ Resumable!Finish
<1>1. pc = "end" /\ tracker # Torn /\ tracker <= globalSteps /\ tracker' = tracker
  BY DEF EndStep, TrackerOrder, disk
<1>0. Durable = tracker /\ Durable' = tracker
  <2>1. \A s \in Steps : ~ (sidecar[s] < 0)
    BY <1>1 DEF SidecarOrder
  <2>2. sidecar' = sidecar
    BY DEF EndStep, disk
  <2>3. QED
    BY <1>1, <2>1, <2>2 DEF Durable
<1>2. CASE IsLastStep
  BY <1>0, <1>1, <1>2 DEF EndStep, NoMilestoneSkipped, Resumable!Finish, Status, AtRest
<1>3. CASE ~ IsLastStep
  <2>1. tracker \in Nat /\ globalSteps \in Nat
    BY <1>1 DEF TypeOK, NoFile, Steps
  <2> tracker \in Nat /\ SaveFreq \in Nat \ {0}
    BY <2>1
  <2>2. PICK m \in tracker + 1 .. tracker + SaveFreq : m % SaveFreq = 0
    BY MilestoneAhead, ZenonT(20)
  <2>3. m \in Milestones /\ tracker < m
    BY <1>1, <2>1, <2>2 DEF Milestones, TypeOK, NoFile, Steps
  <2>4. globalSteps < m
    BY <1>1, <2>3 DEF NoMilestoneSkipped
  <2>5. globalSteps < tracker + SaveFreq
    BY <2>1, <2>2, <2>4
  <2>6. QED
    BY <1>0, <1>1, <1>3, <2>5 DEF EndStep, Resumable!Advance, Resumable!Nothing,
       Status, AtRest, Torn
<1>4. QED
  BY <1>2, <1>3

\* Every step is a step of ResumableRun or changes nothing it can see.
LEMMA StepMaps ==
  ASSUME AutoOnly, TypeOK, IInv, SidecarOrder, NoMilestoneSkipped, [Next]_vars
  PROVE  [Resumable!Next]_(Resumable!vars)
<1> USE DEF Status, AtRest, Saving, memory, disk, Durable, Resumable!vars
<1>0. TrackerOrder
  BY DEF IInv
<1>1. CASE Launch
  BY <1>1, LaunchStarts DEF Resumable!Next
<1>2. CASE TrainStep
  BY <1>2 DEF TrainStep
<1>3. CASE EndStep
  BY <1>0, <1>3, EndStepAdvances DEF Resumable!Next
<1>4. CASE RemoveOld
  BY <1>4 DEF RemoveOld
<1>5. CASE GroupSaved
  BY <1>5 DEF GroupSaved, Roles
<1>6. ASSUME NEW q \in Ranks,
             ArriveAtBarrier(q) \/ OpenShard(q) \/ DumpShard(q) \/ ReturnFromSave(q)
      PROVE  UNCHANGED Resumable!vars
  BY <1>6 DEF ArriveAtBarrier, OpenShard, DumpShard, ReturnFromSave
<1>7. CASE OpenData \/ WriteData
  BY <1>7 DEF OpenData, WriteData
<1>8. CASE OpenTracker
  <2>1. Durable = tracker /\ Durable' = Torn /\ tracker < globalSteps
    BY <1>0, <1>8 DEF OpenTracker, TrackerOrder, SidecarOrder, Steps, Torn
  <2>2. QED
    BY <1>0, <1>8, <2>1 DEF OpenTracker, TrackerOrder, TypeOK, Steps, NoFile, Torn,
       Resumable!Erase, Resumable!Nothing, Resumable!Next
<1>9. CASE WriteTracker
  <2>1. globalSteps \in Steps /\ sidecar'[globalSteps] = 0
    BY <1>0, <1>9 DEF WriteTracker, TrackerOrder, SidecarOrder, Steps
  <2>2. Durable = Torn /\ Durable' = globalSteps
    BY <1>0, <1>9, <2>1 DEF WriteTracker, TrackerOrder, Torn, Steps
  <2>3. Resumable!Persist
    <3>1. Durable < globalSteps
      BY <2>1, <2>2 DEF Torn, Steps
    <3>2. QED
      BY <1>9, <2>2, <3>1 DEF WriteTracker, Resumable!Persist
  <2>4. QED
    BY <2>3 DEF Resumable!Next
<1>10. CASE OpenSidecar
  <2>1. globalSteps \in Steps /\ tracker = globalSteps /\ era > 0
    BY <1>0, <1>10 DEF OpenSidecar, TrackerOrder, Eras
  <2>2. sidecar'[globalSteps] = -era
    BY <1>10, <2>1 DEF OpenSidecar, TypeOK
  <2>3. Durable' = Torn /\ Durable \in {Torn, globalSteps}
    BY <1>10, <2>1, <2>2 DEF OpenSidecar, TypeOK
  <2>4. QED
    BY <1>10, <2>1, <2>3 DEF OpenSidecar, Torn, Steps, Resumable!Erase,
       Resumable!Nothing, Resumable!Next
<1>11. CASE WriteSidecar
  <2>1. globalSteps \in Steps /\ tracker = globalSteps /\ era > 0
    BY <1>0, <1>11 DEF WriteSidecar, TrackerOrder, Eras
  <2>2. sidecar[globalSteps] = -era /\ sidecar'[globalSteps] = era
    BY <1>11, <2>1 DEF WriteSidecar, TypeOK
  <2>3. Durable = Torn /\ Durable' = globalSteps
    BY <1>11, <2>1, <2>2 DEF WriteSidecar, TypeOK
  <2>4. Resumable!Persist
    <3>1. Durable < globalSteps
      BY <2>1, <2>3 DEF Torn, Steps
    <3>2. QED
      BY <1>11, <2>3, <3>1 DEF WriteSidecar, Resumable!Persist
  <2>5. QED
    BY <2>4 DEF Resumable!Next
<1>12. CASE Crash
  BY <1>12 DEF Crash, Resumable!Die, Resumable!Next
<1>13. CASE Over \/ UNCHANGED vars
  BY <1>13 DEF Over, vars
<1>14. QED
  BY <1>1, <1>2, <1>3, <1>4, <1>5, <1>6, <1>7, <1>8, <1>9, <1>10, <1>11,
     <1>12, <1>13 DEF Next, Run

\* In resume mode auto, with max_ckpt_to_keep # 1, checkpointing implements a
\* counter and one durable cell: shards, ranks, barriers, rotation, the sidecar
\* and partial files cannot be seen from outside.
THEOREM Implementation ==
  ASSUME AutoOnly, KeepNotOne
  PROVE  Spec => ImplementsResumableRun
<1>1. Init => Resumable!Init
  BY DEF Init, Resumable!Init, Status, AtRest, Durable, NoFile, Steps
<1>2. TypeOK /\ IInv /\ SidecarOrder /\ NoMilestoneSkipped /\ [Next]_vars
        => [Resumable!Next]_(Resumable!vars)
  BY StepMaps
<1>3. Spec => Resumable!Spec
  BY <1>1, <1>2, Typing, CheckpointInvariant, SidecarInvariant,
     MilestoneInvariant, PTL
  DEF Spec, Resumable!Spec
<1>4. QED
  BY <1>3 DEF ImplementsResumableRun

===============================================================================

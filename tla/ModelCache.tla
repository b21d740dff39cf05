------------------------------ MODULE ModelCache ------------------------------
(***************************************************************************)
(* How the processes of a node come by a model (fs.py): copy_to_local      *)
(* copies its directory from HDFS under a file lock, next to a record of   *)
(* the entries it should have, and then, if asked to, into shared memory,  *)
(* without a lock.  The disk and the shared memory outlive a job.          *)
(*                                                                         *)
(* A directory is the set of its entries, all of them whole: hdfs -get     *)
(* writes a file under another name first.  shutil.copy2, which copies     *)
(* into shared memory, opens the file itself, truncated, and fills it.     *)
(***************************************************************************)
EXTENDS Integers, FiniteSets

CONSTANTS Users,      \* processes of the node that load the model
          ShmUsers,   \* those whose configuration has use_shm
          Files,      \* the files of the model
          MaxCrashes, \* bound: how often the job is killed
          MaxFails    \* bound: how often hdfs -get fails

NoOne   == "nobody"
Absent  == "absent"
Missing == {Absent} \* no directory, or no record

\* Where a process is while it holds the lock, and where else; while it copies a
\* file into shared memory it is at that file.
UnderLock == {"look", "remove", "get", "get again", "record", "walk", "unlock"}
Outside   == {"start", "copied", "ship", "load", "done", "error"}

\* Files and processes have names of their own.
ModelCacheAssumption ==
  /\ ShmUsers \subseteq Users /\ NoOne \notin Users
  /\ Files # {} /\ Files \cap (UnderLock \cup Outside \cup {Absent}) = {}
  /\ MaxCrashes \in Nat /\ MaxFails \in Nat

VARIABLES pc,      \* where a process is in copy_to_local
          lock,    \* the holder of the FileLock, or NoOne
          cached,  \* the entries of local_path, or Missing
          record,  \* the entries in .directory_record.txt, or Missing
          shm,     \* file -> Absent, "torn" or "whole" in /dev/shm
          todo,    \* process -> files copytree has still to copy
          crashes, \* how often the job was killed
          fails    \* how often hdfs -get has failed

vars == <<pc, lock, cached, record, shm, todo, crashes, fails>>
disk == <<cached, record>>

Init ==
  /\ pc = [u \in Users |-> "start"] /\ lock = NoOne
  /\ cached = Missing /\ record = Missing
  /\ shm = [f \in Files |-> Absent] /\ todo = [u \in Users |-> {}]
  /\ crashes = 0 /\ fails = 0

Goto(u, p) == pc' = [pc EXCEPT ![u] = p]

------------------------------------------------------------------------------
(* copy_local_path_from_hdfs, under the lock.                              *)

Lock(u) ==
  /\ pc[u] = "start" /\ lock = NoOne
  /\ lock' = u /\ Goto(u, "look")
  /\ UNCHANGED <<disk, shm, todo, crashes, fails>>

\* Mutant of AsRecorded: a directory without a record passes.
AsRecordedIfAtAll == record \in {Missing, cached}

\* _check_directory_structure.
AsRecorded == record # Missing /\ record = cached

Unlock(u) == lock' = NoOne /\ Goto(u, "copied")

Look(u) ==
  /\ pc[u] = "look"
  /\ \/ cached = Missing /\ Goto(u, "get") /\ UNCHANGED lock
     \/ cached # Missing /\ AsRecorded /\ Unlock(u)
     \/ cached # Missing /\ ~ AsRecorded /\ Goto(u, "remove") /\ UNCHANGED lock
  /\ UNCHANGED <<disk, shm, todo, crashes, fails>>

\* shutil.rmtree, entry by entry in the order of the file system; the record is
\* one of the entries.
Remove(u) ==
  /\ pc[u] = "remove"
  /\ \/ \E f \in cached : cached' = cached \ {f} /\ UNCHANGED <<pc, record>>
     \/ record # Missing /\ record' = Missing /\ UNCHANGED <<pc, cached>>
     \/ cached = {} /\ record = Missing
          /\ cached' = Missing /\ Goto(u, "get again") /\ UNCHANGED record
  /\ UNCHANGED <<lock, shm, todo, crashes, fails>>

\* hdfs dfs -get, whose return code nobody looks at.
Get(u) ==
  /\ pc[u] \in {"get", "get again"}
  /\ \/ cached = Missing /\ cached' = {} /\ UNCHANGED <<pc, fails>>
     \/ cached # Missing /\ \E f \in Files \ cached :
          cached' = cached \cup {f} /\ UNCHANGED <<pc, fails>>
     \/ cached = Files /\ Goto(u, "record") /\ UNCHANGED <<cached, fails>>
     \/ /\ fails < MaxFails /\ fails' = fails + 1
        /\ Goto(u, IF cached # Missing THEN "record"
                   ELSE IF pc[u] = "get" THEN "unlock" ELSE "error")
        /\ UNCHANGED cached
  /\ lock' = IF pc'[u] = "error" THEN NoOne ELSE lock
  /\ UNCHANGED <<record, shm, todo, crashes>>

\* _record_directory_structure opens the record, truncated, and walks.
OpenRecord(u) ==
  /\ pc[u] = "record"
  /\ record' = {} /\ Goto(u, "walk")
  /\ UNCHANGED <<lock, cached, shm, todo, crashes, fails>>

WriteRecord(u) ==
  /\ pc[u] = "walk"
  /\ record' = cached /\ Goto(u, "unlock")
  /\ UNCHANGED <<lock, cached, shm, todo, crashes, fails>>

LeaveLock(u) ==
  /\ pc[u] = "unlock" /\ Unlock(u)
  /\ UNCHANGED <<disk, shm, todo, crashes, fails>>

------------------------------------------------------------------------------
(* copy_to_shm, and the use of the path that was returned.                 *)

Entries == IF cached = Missing THEN {} ELSE cached

\* verify_copy: the same entries of the same sizes.
Verified == \A f \in Files : shm[f] = (IF f \in Entries THEN "whole" ELSE Absent)

UseShm(u) ==
  /\ pc[u] = "copied"
  /\ \/ u \notin ShmUsers /\ Goto(u, "load") /\ UNCHANGED todo
     \/ u \in ShmUsers /\ cached = Missing /\ Goto(u, "error") /\ UNCHANGED todo
     \/ /\ u \in ShmUsers /\ cached # Missing /\ (Verified \/ cached = {})
        /\ Goto(u, "load") /\ UNCHANGED todo
     \/ /\ u \in ShmUsers /\ cached \notin {Missing, {}} /\ ~ Verified
        /\ Goto(u, "ship") /\ todo' = [todo EXCEPT ![u] = cached]
  /\ UNCHANGED <<lock, disk, shm, crashes, fails>>

\* copytree with dirs_exist_ok: every file anew, one after the other.
OpenCopy(u) ==
  /\ pc[u] = "ship"
  /\ \E f \in todo[u] : shm' = [shm EXCEPT ![f] = "torn"]
                         /\ todo' = [todo EXCEPT ![u] = @ \ {f}] /\ Goto(u, f)
  /\ UNCHANGED <<lock, disk, crashes, fails>>

FillCopy(u) ==
  /\ pc[u] \in Files
  /\ shm' = [shm EXCEPT ![pc[u]] = "whole"]
  /\ Goto(u, IF todo[u] = {} THEN "load" ELSE "ship")
  /\ UNCHANGED <<lock, disk, todo, crashes, fails>>

\* What is under the path a process got.
Readable(u) == IF u \in ShmUsers THEN {f \in Files : shm[f] = "whole"} ELSE Entries

\* from_pretrained reads the path, and raises when something is missing.
Load(u) ==
  /\ pc[u] = "load"
  /\ Goto(u, IF Readable(u) = Files THEN "done" ELSE "error")
  /\ UNCHANGED <<lock, disk, shm, todo, crashes, fails>>

\* The job is killed and started again: locks go, disk and shared memory stay.
Crash ==
  /\ crashes < MaxCrashes /\ \E u \in Users : pc[u] # "done"
  /\ pc' = [u \in Users |-> "start"] /\ lock' = NoOne
  /\ todo' = [u \in Users |-> {}]
  /\ crashes' = crashes + 1
  /\ UNCHANGED <<disk, shm, fails>>

User(u) ==
  \/ Lock(u) \/ Look(u) \/ Remove(u) \/ Get(u) \/ OpenRecord(u) \/ WriteRecord(u)
  \/ LeaveLock(u) \/ UseShm(u) \/ OpenCopy(u) \/ FillCopy(u) \/ Load(u)

Ended == \A u \in Users : pc[u] \in {"done", "error"}

Over == Ended /\ UNCHANGED vars

Fetch == \E u \in Users : User(u)

Next == Fetch \/ Crash \/ Over

Spec == Init /\ [][Next]_vars

\* The processes go on; how often a job is killed is bounded.
FairSpec == Spec /\ WF_vars(Fetch)

------------------------------------------------------------------------------
(* Properties.                                                             *)

\* While no copy from HDFS has failed, whatever a process is about to load is
\* all there: neither a crash in the middle of a copy nor another process that
\* still copies shows in the path it was given.  Only two crashes, one before
\* the record is written and one when rmtree has left nothing but that record,
\* let a directory pass its check that is not the model; it is empty then, and
\* never holds a part of the model.
LoadsWholeModel ==
  fails = 0 => \A u \in Users : pc[u] = "load" =>
    \/ Readable(u) = Files
    \/ crashes >= 2 /\ Readable(u) = {}

\* copy_to_local returns a "local filesystem path to copied resource": what
\* shared memory holds under it is what was copied from HDFS.
PathHoldsResource ==
  \A u \in ShmUsers : pc[u] = "load" => Readable(u) = Entries

\* Every process gets its model, or an error that tells it did not; nobody is
\* left waiting for the lock.
EveryoneLoads == <>Ended

===============================================================================

------------------------ MODULE PackageDownloadProofs ------------------------
(***************************************************************************)
(* Proofs about PackageDownload, for every number of processes, packages,  *)
(* rounds, publications, runs, threads and crashes.                        *)
(*                                                                         *)
(* IInv is inductive.  Mutual exclusion needs LockOwner (who has the lock  *)
(* file is who is in the critical section), LockOwner needs ThreadsInPool  *)
(* (else a new run or round would forget a task that holds a lock file),   *)
(* and StampBeforeSources needs mutual exclusion.                          *)
(*                                                                         *)
(* What the sources of a package hold is the matter of the second half,    *)
(* for one process: SoloInv.                                               *)
(***************************************************************************)
EXTENDS PackageDownload, TLAPS

USE DownloadAssumption

-----------------------------------------------------------------------------
(* A storage directory and processes that have done nothing are well typed.*)
LEMMA TypeInit == Init => TypeOK
BY DEF Init, TypeOK, Hash, HashOrNone, NoFiles, Stages, RunStages, ConfigKinds,
       TaskStages

(* Each step of a run, a thread or the server, and a crash, leaves every   *)
(* variable with a value the other steps expect.                           *)
LEMMA TypeStep == TypeOK /\ [Next]_vars => TypeOK'
<1> SUFFICES ASSUME TypeOK, [Next]_vars PROVE TypeOK'
  OBVIOUS
<1> USE DEF TypeOK
<1>types. /\ {"none", "queued", "stamp", "exists", "try_lock", "wait", "download",
              "clean", "remove", "write_stamp", "unpack", "add_config", "insert",
              "insert_default", "ok", "mismatch", "error"} \subseteq TaskStages
          /\ {"idle", "resolve", "pool", "read", "post", "index", "done", "failed"}
                  \subseteq Stages
          /\ {"none", "created", "created_default", "read"} \subseteq ConfigKinds
          /\ 0 \in HashOrNone
          /\ Hash \subseteq HashOrNone
  BY DEF TaskStages, Running, Owning, Returned, Stages, RunStages, ConfigKinds,
         HashOrNone, Hash
<1>0. NoFiles \in [Files -> HashOrNone] /\ NoFiles \in [Files -> 0..2]
  BY <1>types DEF NoFiles
<1>1. ASSUME NEW p \in Procs, StartRun(p) PROVE TypeOK'
  BY <1>1, <1>types DEF StartRun, Forget, NewResolver, diskVars, serverVars
<1>2. ASSUME NEW p \in Procs, Crash(p) PROVE TypeOK'
  BY <1>2, <1>types DEF Crash, Forget, serverVars
<1>3. ASSUME NEW p \in Procs, RunStep(p) PROVE TypeOK'
  <2>1. ASSUME NEW hashes \in [Pkgs -> Hash], Enqueue(p, hashes),
               queryLocalDb' \in [Procs -> BOOLEAN]
        PROVE TypeOK'
    BY <2>1, <1>types DEF Enqueue, storeVars, boundVars, diskVars, serverVars
  <2>2. CASE ResolveLocal(p)
    BY <2>1, <2>2 DEF ResolveLocal
  <2>3. CASE ResolveRemote(p)
    BY <2>1, <2>3 DEF ResolveRemote
  <2>4. CASE ResolveFails(p)
    BY <2>4, <1>types DEF ResolveFails, storeVars, boundVars, diskVars, serverVars, taskVars
  <2>5. CASE JoinOk(p)
    BY <2>5, <1>types DEF JoinOk, Batch, diskVars, serverVars, taskVars, boundVars
  <2>6. CASE JoinRetry(p)
    BY <2>6, <1>types DEF JoinRetry, storeVars, diskVars, serverVars, taskVars, boundVars
  <2>7. CASE JoinFails(p)
    BY <2>7, <1>types DEF JoinFails, storeVars, diskVars, serverVars, taskVars, boundVars
  <2>8. ASSUME NEW k \in Pkgs, ReadConfig(p, k) PROVE TypeOK'
    <3>1. RemoveDir(k) => /\ dir' \in [Pkgs -> [Files -> HashOrNone]]
                          /\ patched' \in [Pkgs -> [Files -> 0..2]]
      BY <1>0 DEF RemoveDir
    <3>2. CASE pending' = [pending EXCEPT ![p] = @ \ {k}]
                 /\ UNCHANGED <<dir, patched, config, stage>>
      BY <2>8, <3>2 DEF ReadConfig, serverVars, taskVars, boundVars
    <3>3. CASE pending' = [pending EXCEPT ![p] = @ \ {k}]
                 /\ config' = [config EXCEPT ![p][k] = "read"]
                 /\ UNCHANGED <<dir, patched, stage>>
      BY <2>8, <3>3, <1>types DEF ReadConfig, serverVars, taskVars, boundVars
    <3>4. CASE RemoveDir(k)
                 /\ stage' = [stage EXCEPT ![p] = "failed"]
                 /\ UNCHANGED <<pending, config>>
      BY <2>8, <3>4, <3>1, <1>types DEF ReadConfig, serverVars, taskVars, boundVars
    <3> QED
      BY <2>8, <3>2, <3>3, <3>4 DEF ReadConfig
  <2>9. CASE ReadDone(p)
    BY <2>9, <1>types DEF ReadDone, diskVars, serverVars, taskVars, boundVars
  <2>10. ASSUME NEW k \in Pkgs, PostDownload(p, k) PROVE TypeOK'
    <3>1. ASSUME PatchSources(k) PROVE patched' \in [Pkgs -> [Files -> 0..2]]
      BY <3>1 DEF PatchSources
    <3>2. CASE UNCHANGED <<patched, stage>> /\ pending' = [pending EXCEPT ![p] = @ \ {k}]
      BY <2>10, <3>2 DEF PostDownload, serverVars, taskVars, boundVars
    <3>3. CASE /\ PatchSources(k)
               /\ UNCHANGED stage
               /\ pending' = [pending EXCEPT ![p] = @ \ {k}]
      BY <2>10, <3>1, <3>3 DEF PostDownload, serverVars, taskVars, boundVars
    <3>4. CASE UNCHANGED <<patched, pending>> /\ stage' = [stage EXCEPT ![p] = "failed"]
      BY <2>10, <3>4, <1>types DEF PostDownload, serverVars, taskVars, boundVars
    <3> QED
      BY <2>10, <3>2, <3>3, <3>4 DEF PostDownload
  <2>11. CASE PostDone(p)
    BY <2>11, <1>types DEF PostDone, storeVars, diskVars, serverVars, taskVars, boundVars
  <2>12. CASE WriteIndex(p)
    <3>1. NewResolver(p) => /\ stage' \in [Procs -> Stages]
                            /\ queryLocalDb' \in [Procs -> BOOLEAN]
      BY <1>types DEF NewResolver
    <3>2. CASE /\ round[p] < Len(Rounds)
               /\ round' = [round EXCEPT ![p] = @ + 1]
               /\ NewResolver(p)
      <4>1. round' \in [Procs -> 1..Len(Rounds)]
        BY <3>2
      <4> QED
        BY <2>12, <3>1, <3>2, <4>1
        DEF WriteIndex, storeVars, serverVars, taskVars, boundVars
    <3>3. CASE stage' = [stage EXCEPT ![p] = "done"] /\ UNCHANGED <<round, queryLocalDb>>
      BY <2>12, <3>3, <1>types DEF WriteIndex, storeVars, serverVars, taskVars, boundVars
    <3> QED
      BY <2>12, <3>2, <3>3 DEF WriteIndex
  <2> QED
    BY <1>3, <2>2, <2>3, <2>4, <2>5, <2>6, <2>7, <2>8, <2>9, <2>10, <2>11, <2>12
    DEF RunStep
<1>4. ASSUME NEW p \in Procs, NEW k \in Pkgs, TaskStep(p, k) PROVE TypeOK'
  <2>task. \A s \in TaskStages : Goto(p, k, s) => task' \in [Procs -> [Pkgs -> TaskStages]]
    BY DEF Goto
  <2>acquire. Acquire(p, k) => lock' \in [Pkgs -> SUBSET Procs]
    BY DEF Acquire
  <2>release. Release(k) => lock' \in [Pkgs -> SUBSET Procs]
    BY DEF Release
  <2>dir. RemoveDir(k) => /\ dir' \in [Pkgs -> [Files -> HashOrNone]]
                          /\ patched' \in [Pkgs -> [Files -> 0..2]]
    BY <1>0 DEF RemoveDir
  <2> USE <1>types, <2>task, <2>acquire, <2>release
      DEF diskVars, serverVars, runVars, storeVars, boundVars
  <2>1. CASE PickTask(p, k)
    BY <2>1 DEF PickTask
  <2>2. CASE ReadStamp(p, k)
    BY <2>2 DEF ReadStamp
  <2>3. CASE CheckDir(p, k)
    BY <2>3 DEF CheckDir
  <2>4. CASE TryLock(p, k)
    BY <2>4 DEF TryLock
  <2>5. CASE WaitLock(p, k)
    BY <2>5 DEF WaitLock
  <2>6. CASE DownloadOk(p, k)
    BY <2>6 DEF DownloadOk
  <2>7. CASE DownloadMismatch(p, k)
    BY <2>7 DEF DownloadMismatch
  <2>8. CASE DownloadUnchecked(p, k)
    BY <2>8 DEF DownloadUnchecked
  <2>9. CASE CleanOld(p, k)
    <3>1. CASE cleaned' = [cleaned EXCEPT ![p] = @ \cup {k}] /\ Goto(p, k, "remove")
      BY <2>9, <3>1 DEF CleanOld
    <3>2. CASE UNCHANGED cleaned /\ Goto(p, k, "write_stamp")
      BY <2>9, <3>2 DEF CleanOld
    <3> QED
      BY <2>9, <3>1, <3>2 DEF CleanOld
  <2>10. CASE RemoveFile(p, k)
    BY <2>10 DEF RemoveFile, taskVars, Present
  <2>11. CASE RemoveDone(p, k)
    BY <2>11 DEF RemoveDone
  <2>12. CASE WriteStamp(p, k)
    BY <2>12, SMTT(30) DEF WriteStamp, HashOrNone, Hash
  <2>13. CASE UnpackFile(p, k)
    BY <2>13 DEF UnpackFile
  <2>14. CASE UnpackDone(p, k)
    BY <2>14 DEF UnpackDone
  <2>15. CASE UnpackFails(p, k)
    BY <2>15, <2>dir DEF UnpackFails
  <2>16. CASE LoadConfig(p, k)
    BY <2>16 DEF LoadConfig
  <2>17. CASE InsertConfig(p, k)
    <3>1. config' \in [Procs -> [Pkgs -> ConfigKinds]]
      <4>1. CASE UNCHANGED config
        BY <4>1
      <4>2. CASE config' = [config EXCEPT ![p][k] = IF task[p][k] = "insert"
                                                    THEN "created"
                                                    ELSE "created_default"]
        BY <4>2
      <4> QED
        BY <2>17, <4>1, <4>2 DEF InsertConfig
    <3> QED
      BY <2>17, <3>1 DEF InsertConfig
  <2>18. CASE VerifyFails(p, k)
    BY <2>18 DEF VerifyFails
  <2> QED
    BY <1>4, <2>1, <2>2, <2>3, <2>4, <2>5, <2>6, <2>7, <2>8, <2>9, <2>10, <2>11,
       <2>12, <2>13, <2>14, <2>15, <2>16, <2>17, <2>18 DEF TaskStep
<1>5. ASSUME NEW k \in Pkgs, Publish(k) \/ UpdateIndex(k) PROVE TypeOK'
  <2>1. CASE Publish(k)
    <3>1. published' \in [Pkgs -> Hash]
      BY <2>1 DEF Publish, Hash
    <3> QED
      BY <2>1, <3>1 DEF Publish, diskVars, runVars, storeVars, taskVars, boundVars
  <2>2. CASE UpdateIndex(k)
    BY <2>2 DEF UpdateIndex, diskVars, runVars, storeVars, taskVars, boundVars
  <2> QED
    BY <1>5, <2>1, <2>2
<1>6. CASE UNCHANGED vars
  BY <1>6 DEF vars, diskVars, serverVars, runVars, storeVars, taskVars, boundVars
<1> QED
  BY <1>1, <1>2, <1>3, <1>4, <1>5, <1>6 DEF Next

(* Every variable keeps its type.                                          *)
THEOREM TypeCorrect == Spec => []TypeOK
<1> QED
  BY TypeInit, TypeStep, PTL DEF Spec

-----------------------------------------------------------------------------
(* What a step of the thread of p for k may do to the lock file of k: keep *)
(* it as it is, take it while it is free, or give it back.                 *)
Keeps(p, k, s) == lock' = lock /\ (task[p][k] \in Owning <=> s \in Owning)
Takes(p, k, s) == Free(k) /\ Acquire(p, k) /\ ~Holds(p, k) /\ s \in Owning
Gives(p, k, s) == Release(k) /\ Holds(p, k) /\ s \notin Owning

(* The stamp is written by the lock holder, on the way to the unpacking.   *)
StampStep(p, k, s) ==
    \/ stamp' = stamp /\ (s = "unpack" => task[p][k] = "unpack")
    \/ stamp' = [stamp EXCEPT ![k] = want[p][k]] /\ Holds(p, k)

ThreadStep(p, k, s) ==
    /\ task[p][k] \in Running \cup {"queued"}
    /\ task' = [task EXCEPT ![p][k] = s]
    /\ Keeps(p, k, s) \/ Takes(p, k, s) \/ Gives(p, k, s)
    /\ StampStep(p, k, s)
    /\ UNCHANGED <<stage, round, want>>

(* Every action of a download thread is such a step.                       *)
LEMMA TaskStepIsThreadStep ==
    ASSUME TypeOK, NEW p \in Procs, NEW k \in Pkgs, TaskStep(p, k)
    PROVE  \E s \in TaskStages : ThreadStep(p, k, s)
<1> USE DEF ThreadStep, StampStep, Keeps, Holds, Goto, diskVars, runVars, Owning,
            Running
<1>types. {"none", "queued", "stamp", "exists", "try_lock", "wait", "download",
           "clean", "remove", "write_stamp", "unpack", "add_config", "insert",
           "insert_default", "ok", "mismatch", "error"} \subseteq TaskStages
  BY DEF TaskStages, Returned
<1>1. CASE PickTask(p, k)
  <2>1. ThreadStep(p, k, "stamp")
    BY <1>1 DEF PickTask
  <2> QED BY <2>1, <1>types
<1>2. CASE ReadStamp(p, k)
  <2>1. ThreadStep(p, k, "exists") \/ ThreadStep(p, k, "try_lock")
    BY <1>2 DEF ReadStamp
  <2> QED BY <2>1, <1>types
<1>3. CASE CheckDir(p, k)
  <2>1. ThreadStep(p, k, "ok") \/ ThreadStep(p, k, "try_lock")
    BY <1>3 DEF CheckDir
  <2> QED BY <2>1, <1>types
<1>4. CASE TryLock(p, k)
  <2>1. ThreadStep(p, k, "download") \/ ThreadStep(p, k, "wait")
    BY <1>4 DEF TryLock, Takes
  <2> QED BY <2>1, <1>types
<1>5. CASE WaitLock(p, k)
  <2>1. ThreadStep(p, k, "add_config")
    BY <1>5 DEF WaitLock, Takes
  <2> QED BY <2>1, <1>types
<1>6. CASE DownloadOk(p, k) \/ DownloadUnchecked(p, k)
  <2>1. ThreadStep(p, k, "clean")
    BY <1>6 DEF DownloadOk, DownloadUnchecked
  <2> QED BY <2>1, <1>types
<1>7. CASE DownloadMismatch(p, k)
  <2>1. ThreadStep(p, k, "mismatch")
    BY <1>7 DEF DownloadMismatch, Gives
  <2> QED BY <2>1, <1>types
<1>8. CASE CleanOld(p, k)
  <2>1. ThreadStep(p, k, "remove") \/ ThreadStep(p, k, "write_stamp")
    BY <1>8 DEF CleanOld
  <2> QED BY <2>1, <1>types
<1>9. CASE RemoveFile(p, k) \/ UnpackFile(p, k)
  <2>1. task' = [task EXCEPT ![p][k] = task[p][k]]
    BY <1>9 DEF RemoveFile, UnpackFile, taskVars, TypeOK
  <2>2. ThreadStep(p, k, task[p][k])
    BY <1>9, <2>1 DEF RemoveFile, UnpackFile, taskVars
  <2>3. task[p][k] \in TaskStages
    BY DEF TypeOK
  <2> HIDE DEF ThreadStep
  <2> QED BY <2>2, <2>3
<1>10. CASE RemoveDone(p, k)
  <2>1. ThreadStep(p, k, "write_stamp")
    BY <1>10 DEF RemoveDone
  <2> QED BY <2>1, <1>types
<1>11. CASE WriteStamp(p, k)
  <2>1. ThreadStep(p, k, "unpack")
    BY <1>11 DEF WriteStamp
  <2> QED BY <2>1, <1>types
<1>12. CASE UnpackDone(p, k)
  <2>1. ThreadStep(p, k, "add_config")
    BY <1>12 DEF UnpackDone
  <2> QED BY <2>1, <1>types
<1>13. CASE UnpackFails(p, k)
  <2>1. ThreadStep(p, k, "error")
    BY <1>13 DEF UnpackFails, Gives
  <2> QED BY <2>1, <1>types
<1>14. CASE LoadConfig(p, k)
  <2>1. \/ ThreadStep(p, k, "insert")
        \/ ThreadStep(p, k, "insert_default")
        \/ ThreadStep(p, k, "error")
    BY <1>14 DEF LoadConfig, Gives
  <2> QED BY <2>1, <1>types
<1>15. CASE InsertConfig(p, k)
  <2>1. ThreadStep(p, k, "ok")
    BY <1>15 DEF InsertConfig, Inserting, Gives
  <2> QED BY <2>1, <1>types
<1>16. CASE VerifyFails(p, k)
  <2>1. ThreadStep(p, k, "error")
    BY <1>16 DEF VerifyFails, Gives
  <2> QED BY <2>1, <1>types
<1> QED
  BY <1>1, <1>2, <1>3, <1>4, <1>5, <1>6, <1>7, <1>8, <1>9, <1>10, <1>11, <1>12,
     <1>13, <1>14, <1>15, <1>16 DEF TaskStep

(* Such a step keeps the lock discipline.                                  *)
LEMMA ThreadStepKeepsInv ==
    ASSUME IInv, TypeOK', NEW p \in Procs, NEW k \in Pkgs, NEW s \in TaskStages,
           ThreadStep(p, k, s)
    PROVE  IInv'
<1> USE DEF IInv
<1>others. /\ \A q \in Procs, j \in Pkgs :
                  <<q, j>> # <<p, k>> => task'[q][j] = task[q][j]
           /\ task'[p][k] = s
  BY DEF ThreadStep, TypeOK
<1>stable. UNCHANGED <<stage, round, want>>
  BY DEF ThreadStep
<1>1. ThreadsInPool'
  BY <1>others, <1>stable DEF ThreadsInPool, ThreadStep, Batch
<1>2. /\ LockOwner'
      /\ OneDownloader'
  <2>1. CASE Keeps(p, k, s)
    <3>1. \A q \in Procs, j \in Pkgs : Holds(q, j)' <=> Holds(q, j)
      BY <1>others, <2>1 DEF Keeps, Holds
    <3> QED
      BY <3>1, <2>1 DEF LockOwner, OneDownloader, Keeps
  <2>2. CASE Takes(p, k, s)
    <3>1. \A q \in Procs : ~Holds(q, k)
      BY <2>2 DEF Takes, Free, LockOwner
    <3>2. \A q \in Procs, j \in Pkgs :
             Holds(q, j)' <=> (Holds(q, j) \/ (q = p /\ j = k))
      BY <1>others, <2>2, <3>1 DEF Takes, Holds
    <3>3. \A j \in Pkgs : lock'[j] = IF j = k THEN {p} ELSE lock[j]
      BY <2>2 DEF Takes, Acquire, TypeOK
    <3> QED
      BY <3>1, <3>2, <3>3 DEF LockOwner, OneDownloader
  <2>3. CASE Gives(p, k, s)
    <3>1. \A q \in Procs : Holds(q, k) <=> q = p
      BY <2>3 DEF Gives, OneDownloader
    <3>2. \A q \in Procs, j \in Pkgs : Holds(q, j)' <=> (Holds(q, j) /\ j # k)
      BY <1>others, <2>3, <3>1 DEF Gives, Holds
    <3>3. \A j \in Pkgs : lock'[j] = IF j = k THEN {} ELSE lock[j]
      BY <2>3 DEF Gives, Release, TypeOK
    <3> QED
      BY <3>1, <3>2, <3>3 DEF LockOwner, OneDownloader
  <2> QED
    BY <2>1, <2>2, <2>3 DEF ThreadStep
<1>3. StampBeforeSources'
  <2> SUFFICES ASSUME NEW q \in Procs, NEW j \in Pkgs, task'[q][j] = "unpack"
               PROVE  stamp'[j] = want[q][j]
    BY <1>stable DEF StampBeforeSources
  <2>1. CASE stamp' = stamp /\ (s = "unpack" => task[p][k] = "unpack")
    BY <2>1, <1>others DEF StampBeforeSources
  <2>2. CASE stamp' = [stamp EXCEPT ![k] = want[p][k]] /\ Holds(p, k)
    <3>1. CASE q = p /\ j = k
      BY <2>2, <3>1 DEF TypeOK
    <3>2. CASE q # p /\ j = k
      <4>1. Holds(q, k)
        BY <3>2, <1>others DEF Holds, Owning
      <4> QED
        BY <4>1, <2>2, <3>2 DEF OneDownloader
    <3>3. CASE j # k
      BY <2>2, <3>3, <1>others DEF StampBeforeSources, TypeOK
    <3> QED
      BY <3>1, <3>2, <3>3
  <2> QED
    BY <2>1, <2>2 DEF ThreadStep, StampStep
<1> QED
  BY <1>1, <1>2, <1>3

(* A step of a run that is not waiting for its threads has none, and the   *)
(* step that ends the waiting finds them returned.                         *)
RunEffect(p) ==
    /\ UNCHANGED <<lock, stamp>>
    /\ \A q \in Procs \ {p} : /\ task'[q] = task[q]
                              /\ want'[q] = want[q]
                              /\ stage'[q] = stage[q]
                              /\ round'[q] = round[q]
    /\ \A k \in Pkgs : task[p][k] \notin Running \cup {"queued"}
    /\ \A k \in Pkgs :
          \/ task'[p][k] \notin Running \cup {"queued"}
          \/ /\ task'[p][k] = "queued"
             /\ stage'[p] = "pool"
             /\ k \in Rounds[round'[p]]

(* Every action of a run outside its threads is such an effect on stages,  *)
(* tasks and attempts.                                                     *)
LEMMA RunStepEffect ==
    ASSUME TypeOK, ThreadsInPool, NEW p \in Procs, RunStep(p)
    PROVE  RunEffect(p)
<1> USE DEF TypeOK
<1>idle. ASSUME stage[p] # "pool"
         PROVE  \A k \in Pkgs : task[p][k] \notin Running \cup {"queued"}
  BY <1>idle DEF ThreadsInPool
<1>join. ASSUME \A k \in Batch(p) : task[p][k] \in Returned
         PROVE  \A k \in Pkgs : task[p][k] \notin Running \cup {"queued"}
  BY <1>join DEF ThreadsInPool, Returned, Running, Owning
<1>same. ASSUME UNCHANGED <<lock, stamp, taskVars>>,
                \A q \in Procs \ {p} : stage'[q] = stage[q] /\ round'[q] = round[q],
                \A k \in Pkgs : task[p][k] \notin Running \cup {"queued"}
         PROVE  RunEffect(p)
  BY <1>same DEF RunEffect, taskVars
<1>1. ASSUME stage[p] = "resolve", NEW hashes \in [Pkgs -> Hash], Enqueue(p, hashes)
      PROVE  RunEffect(p)
  <2>1. \A k \in Pkgs : task[p][k] \notin Running \cup {"queued"}
    BY <1>1, <1>idle
  <2>2. \A k \in Pkgs : task'[p][k] = IF k \in Batch(p) THEN "queued" ELSE task[p][k]
    BY <1>1 DEF Enqueue
  <2>3. /\ stage'[p] = "pool"
        /\ UNCHANGED <<round, lock, stamp>>
    BY <1>1 DEF Enqueue, diskVars
  <2>4. \A q \in Procs \ {p} : /\ task'[q] = task[q]
                              /\ want'[q] = want[q]
                              /\ stage'[q] = stage[q]
    BY <1>1 DEF Enqueue
  <2> QED
    BY <2>1, <2>2, <2>3, <2>4 DEF RunEffect, Batch
<1>2. CASE ResolveLocal(p)
  BY <1>2, <1>1 DEF ResolveLocal
<1>3. CASE ResolveRemote(p)
  BY <1>3, <1>1 DEF ResolveRemote
<1>4. CASE ResolveFails(p)
  BY <1>4, <1>idle, <1>same DEF ResolveFails, diskVars
<1>5. CASE JoinOk(p)
  BY <1>5, <1>join, <1>same DEF JoinOk, diskVars, Returned
<1>6. CASE JoinRetry(p) \/ JoinFails(p)
  BY <1>6, <1>join, <1>same DEF JoinRetry, JoinFails, Finished, diskVars
<1>7. ASSUME NEW k \in Pkgs, ReadConfig(p, k) PROVE RunEffect(p)
  BY <1>7, <1>idle, <1>same DEF ReadConfig
<1>8. ASSUME NEW k \in Pkgs, PostDownload(p, k) PROVE RunEffect(p)
  BY <1>8, <1>idle, <1>same DEF PostDownload
<1>9. CASE ReadDone(p) \/ PostDone(p)
  BY <1>9, <1>idle, <1>same DEF ReadDone, PostDone, diskVars
<1>10. CASE WriteIndex(p)
  BY <1>10, <1>idle, <1>same DEF WriteIndex, NewResolver
<1> QED
  BY <1>2, <1>3, <1>4, <1>5, <1>6, <1>7, <1>8, <1>9, <1>10 DEF RunStep

(* Such an effect keeps the lock discipline.                               *)
LEMMA RunEffectKeepsInv ==
    ASSUME IInv, TypeOK', NEW p \in Procs, RunEffect(p)
    PROVE  IInv'
<1> USE DEF IInv
<1>1. \A q \in Procs, k \in Pkgs :
         Holds(q, k)' <=> Holds(q, k)
  BY DEF RunEffect, Holds, Running, Owning
<1>2. ThreadsInPool'
  BY DEF RunEffect, ThreadsInPool, Batch, TypeOK
<1>3. LockOwner' /\ OneDownloader'
  BY <1>1 DEF RunEffect, LockOwner, OneDownloader
<1>4. StampBeforeSources'
  BY DEF RunEffect, StampBeforeSources, Running, Owning
<1> QED
  BY <1>2, <1>3, <1>4

(* In a fresh storage no lock is held and no thread runs.                  *)
LEMMA InvInit == Init => IInv
BY TypeInit DEF Init, IInv, ThreadsInPool, LockOwner, OneDownloader,
                StampBeforeSources, Holds, Running, Owning

(* Threads, runs, the server and a crash keep the lock discipline.         *)
LEMMA InvStep == IInv /\ [Next]_vars => IInv'
<1> SUFFICES ASSUME IInv, [Next]_vars PROVE IInv'
  OBVIOUS
<1>type. TypeOK /\ TypeOK'
  BY TypeStep DEF IInv
<1>1. ASSUME NEW p \in Procs, StartRun(p) PROVE IInv'
  <2>1. stage[p] # "pool"
    BY <1>1 DEF StartRun, RunStages
  <2>2. \A k \in Pkgs : task[p][k] \notin Running \cup {"queued"}
    BY <2>1 DEF IInv, ThreadsInPool
  <2>3. RunEffect(p)
    BY <1>1, <1>type, <2>2
    DEF RunEffect, StartRun, Forget, NewResolver, diskVars, TypeOK, Running, Owning
  <2> QED
    BY <2>3, <1>type, RunEffectKeepsInv
<1>2. ASSUME NEW p \in Procs, Crash(p) PROVE IInv'
  <2> USE <1>type
  <2>1. /\ \A k \in Pkgs : task'[p][k] = "none"
        /\ \A q \in Procs \ {p} : /\ task'[q] = task[q]
                                 /\ want'[q] = want[q]
                                 /\ stage'[q] = stage[q]
                                 /\ round'[q] = round[q]
        /\ UNCHANGED stamp
        /\ \A k \in Pkgs : lock'[k] = lock[k] \ {p}
    BY <1>2 DEF Crash, Forget, TypeOK
  <2>2. \A q \in Procs, k \in Pkgs : Holds(q, k)' <=> Holds(q, k) /\ q # p
    BY <2>1 DEF Holds, Owning
  <2>3. LockOwner' /\ OneDownloader'
    BY <2>1, <2>2 DEF IInv, LockOwner, OneDownloader
  <2>4. ThreadsInPool'
    BY <2>1 DEF IInv, ThreadsInPool, Batch, Running, Owning
  <2>5. StampBeforeSources'
    BY <2>1 DEF IInv, StampBeforeSources
  <2> QED
    BY <2>3, <2>4, <2>5 DEF IInv
<1>3. ASSUME NEW p \in Procs, RunStep(p) PROVE IInv'
  BY <1>3, <1>type, RunStepEffect, RunEffectKeepsInv DEF IInv
<1>4. ASSUME NEW p \in Procs, NEW k \in Pkgs, TaskStep(p, k) PROVE IInv'
  BY <1>4, <1>type, TaskStepIsThreadStep, ThreadStepKeepsInv
<1>5. CASE \/ \E k \in Pkgs : Publish(k) \/ UpdateIndex(k)
           \/ UNCHANGED vars
  <2>1. UNCHANGED <<diskVars, runVars, taskVars>>
    BY <1>5 DEF Publish, UpdateIndex, vars
  <2> QED
    BY <2>1, <1>type DEF IInv, ThreadsInPool, LockOwner, OneDownloader,
       StampBeforeSources, Holds, Batch, diskVars, runVars, taskVars
<1> QED
  BY <1>1, <1>2, <1>3, <1>4, <1>5 DEF Next

(* The strengthened invariant holds in every reachable state.              *)
THEOREM Inductive == Spec => []IInv
<1> QED
  BY InvInit, InvStep, PTL DEF Spec

(* Whatever fails, crashes or is published, only one process at a time     *)
(* downloads, cleans, stamps or unpacks a package.                         *)
THEOREM DownloadsExclusive == Spec => []OneDownloader
<1>1. IInv => OneDownloader
  BY DEF IInv
<1> QED
  BY <1>1, Inductive, PTL

(* A lock file is held exactly while a task is in its critical section, so *)
(* no failure and no crash leaves a package locked for good.               *)
THEOREM LocksAccounted == Spec => []LockOwner
<1>1. IInv => LockOwner
  BY DEF IInv
<1> QED
  BY <1>1, Inductive, PTL

(* No thread outlives the attempt of the Resolver that started it.         *)
THEOREM ThreadsJoined == Spec => []ThreadsInPool
<1>1. IInv => ThreadsInPool
  BY DEF IInv
<1> QED
  BY <1>1, Inductive, PTL

(* No process unpacks under another process's stamp.                       *)
THEOREM StampPrecedesSources == Spec => []StampBeforeSources
<1>1. IInv => StampBeforeSources
  BY DEF IInv
<1> QED
  BY <1>1, Inductive, PTL

(* No step but that of a lock holder past its download, or of a run that   *)
(* gives up because it cannot load it, touches the sources of a package    *)
(* that has its specification.                                             *)
THEOREM DownloadFailureKeepsSources == Spec => OldSourcesKept
<1> DEFINE Kept(k) ==
        \/ dir'[k] = dir[k]
        \/ Spec_yml \notin Present(k)
        \/ \E p \in Procs : \/ lock[k] = {p} /\ task[p][k] \in {"remove", "unpack"}
                            \/ GivesUp(p, k)
<1>1. ASSUME IInv, [Next]_vars PROVE \A k \in Pkgs : Kept(k)
  <2> USE <1>1
  <2> SUFFICES ASSUME NEW k \in Pkgs PROVE Kept(k)
    OBVIOUS
  <2>1. ASSUME NEW p \in Procs, NEW j \in Pkgs, TaskStep(p, j) PROVE Kept(k)
    <3>1. CASE RemoveFile(p, j) \/ UnpackFile(p, j) \/ UnpackFails(p, j)
      <4>1. /\ task[p][j] \in {"remove", "unpack"}
            /\ j # k => dir'[k] = dir[k]
        BY <3>1 DEF RemoveFile, UnpackFile, UnpackFails, RemoveDir, IInv, TypeOK
      <4>2. lock[j] = {p}
        BY <4>1 DEF IInv, LockOwner, OneDownloader, Holds, Owning
      <4> QED
        BY <4>1, <4>2
    <3>2. CASE ~(RemoveFile(p, j) \/ UnpackFile(p, j) \/ UnpackFails(p, j))
      <4>1. UNCHANGED dir
        BY <2>1, <3>2 DEF TaskStep, PickTask, ReadStamp, CheckDir, TryLock, WaitLock,
           DownloadOk, DownloadMismatch, DownloadUnchecked, VerifyFails, CleanOld,
           RemoveDone, WriteStamp, UnpackDone, LoadConfig, InsertConfig, diskVars
      <4> QED
        BY <4>1
    <3> QED
      BY <3>1, <3>2
  <2>2. ASSUME NEW p \in Procs, RunStep(p) PROVE Kept(k)
    <3>1. ASSUME NEW j \in Pkgs, ReadConfig(p, j) PROVE Kept(k)
      <4>1. ASSUME dir' # dir PROVE RemoveDir(j) /\ stage'[p] = "failed" /\ j \in pending[p]
                                    /\ stage[p] = "read" /\ config[p][j] = "none"
        BY <3>1, <4>1 DEF ReadConfig, IInv, TypeOK
      <4>2. ASSUME RemoveDir(j) PROVE dir'[j] = NoFiles /\ (j # k => dir'[k] = dir[k])
        BY <4>2 DEF RemoveDir, IInv, TypeOK
      <4> QED
        BY <4>1, <4>2 DEF GivesUp
    <3>2. CASE ~\E j \in Pkgs : ReadConfig(p, j)
      <4>1. UNCHANGED dir
        BY <2>2, <3>2 DEF RunStep, ResolveLocal, ResolveRemote, Enqueue, ResolveFails,
           JoinOk, JoinRetry, JoinFails, ReadDone, PostDownload, PostDone, WriteIndex,
           diskVars
      <4> QED
        BY <4>1
    <3> QED
      BY <3>1, <3>2
  <2>3. CASE \/ \E p \in Procs : StartRun(p) \/ Crash(p)
             \/ \E j \in Pkgs : Publish(j) \/ UpdateIndex(j)
             \/ UNCHANGED vars
    <3>1. UNCHANGED dir
      BY <2>3 DEF StartRun, Crash, Publish, UpdateIndex, diskVars, vars
    <3> QED
      BY <3>1
  <2> QED
    BY <1>1, <2>1, <2>2, <2>3 DEF Next
<1>2. IInv /\ [Next]_vars => [\A k \in Pkgs : Kept(k)]_vars
  BY <1>1
<1> QED
  BY <1>2, Inductive, PTL DEF OldSourcesKept, Spec

-----------------------------------------------------------------------------
(* One process at a time.  What the runs of one process leave in the       *)
(* storage directory needs more than the lock discipline: the invariant    *)
(* below says, for each stage of a task, what its package looks like.      *)

OneProcess == \E p : Procs = {p}

(* Until the run fails or is killed the results of its tasks count.        *)
Live == RunStages \cup {"done"}

(* A task that holds the package open: from the downloaded archive to the  *)
(* last file of it; and while the files change.                            *)
Replacing == {"clean", "remove", "write_stamp", "unpack"}
Rewriting == {"remove", "unpack"}

(* No lock file is found taken, so no config comes from a directory that   *)
(* somebody else is working on.                                            *)
NeverWaits(p, k) ==
    /\ task[p][k] \notin {"wait", "insert_default"}
    /\ config[p][k] # "created_default"

(* Nothing is of a later archive than the last one published, and a file   *)
(* is of an archive that has it.                                           *)
Dated(p, k) ==
    /\ indexed[k] <= published[k]
    /\ stamp[k] <= published[k]
    /\ want[p][k] <= published[k]
    /\ got[p][k] <= published[k]
    /\ \A f \in Files : /\ dir[k][f] <= published[k]
                        /\ dir[k][f] # 0 => f \in Archive[dir[k][f]]
                        /\ dir[k][f] = 0 => patched[k][f] = 0

(* The archive being unpacked is not older than the files it replaces, and *)
(* what has been unpacked is as it was packed.                             *)
Unpacking(p, k) ==
    /\ task[p][k] = "unpack" /\ got[p][k] = 0 => todo[p][k] = {}
    /\ task[p][k] = "unpack" /\ got[p][k] # 0 =>
          /\ todo[p][k] \subseteq Archive[got[p][k]]
          /\ \A f \in Archive[got[p][k]] \ todo[p][k] :
                dir[k][f] = got[p][k] /\ patched[k][f] = 0
    /\ task[p][k] \in Replacing /\ got[p][k] # 0 =>
          \A f \in Files : dir[k][f] <= got[p][k]

(* The files of the archive that brought the specification are the newest, *)
(* and no replace rule has run on them.                                    *)
Fresh(k) ==
    \A f \in Files : /\ dir[k][f] <= dir[k][Spec_yml]
                     /\ dir[k][f] = dir[k][Spec_yml] => patched[k][f] = 0

(* add_config reads the directory that was just unpacked.                  *)
Loading(p, k) ==
    task[p][k] \in {"add_config", "insert"} =>
        Spec_yml \in Present(k) /\ stamp[k] = want[p][k] /\ Fresh(k)

(* A task that ends well has found or made what was wanted.                *)
UpToDate(p, k) ==
    /\ task[p][k] = "exists" => stamp[k] = want[p][k]
    /\ task[p][k] = "ok" /\ stage[p] \in Live => stamp[k] = want[p][k] /\ DirExists(k)

(* The package of a config has its specification, if it is there at all.   *)
Known(p, k) ==
    config[p][k] # "none" /\ DirExists(k) /\ task[p][k] \notin Rewriting =>
        Spec_yml \in Present(k)

(* Without a crash the first archive is there as a whole or not at all.    *)
Whole(p, k) ==
    (/\ crashes = 0
     /\ published[k] = 1
     /\ DirExists(k)
     /\ task[p][k] \notin Rewriting) => Archive[1] \subseteq Present(k)

(* The config of k has still to be given to post_download.                 *)
Unpatched(p, k) ==
    /\ Len(Rounds) = 1
    /\ config[p][k] = "created"
    /\ \/ stage[p] \in {"resolve", "pool", "read"}
       \/ stage[p] = "post" /\ k \in pending[p]

ToPatch(p, k) == Unpatched(p, k) /\ task[p][k] \notin Rewriting => Fresh(k)

(* Only a file that an earlier archive left behind is patched twice.       *)
LeftBehind(p, k) ==
    Len(Rounds) = 1 => \A f \in Files : patched[k][f] = 2 =>
        /\ dir[k][f] # dir[k][Spec_yml]
        /\ dir[k][f] # 0
        /\ dir[k][f] < published[k]
        /\ task[p][k] \in Replacing /\ got[p][k] # 0 => dir[k][f] < got[p][k]

Sound(p, k) ==
    /\ NeverWaits(p, k)
    /\ Dated(p, k)
    /\ Unpacking(p, k)
    /\ Loading(p, k)
    /\ UpToDate(p, k)
    /\ Known(p, k)
    /\ Whole(p, k)
    /\ ToPatch(p, k)
    /\ LeftBehind(p, k)

(* What a Resolver has when it goes from one loop to the next, and what    *)
(* the Resolvers before it have left.                                      *)
BatchDone(p) ==
    /\ stage[p] \in {"read", "post", "index", "done"} =>
          \A k \in Batch(p) : task[p][k] = "ok"
    /\ stage[p] = "read" =>
          /\ pending[p] \subseteq Batch(p)
          /\ \A k \in Batch(p) \ pending[p] : config[p][k] # "none"
    /\ stage[p] \in {"post", "index", "done"} =>
          \A k \in Batch(p) : config[p][k] # "none"

RoundsDone(p) ==
    /\ stage[p] \in Live =>
          \A r \in DOMAIN Rounds : \A k \in Rounds[r] : r < round[p] =>
              /\ config[p][k] # "none"
              /\ task[p][k] = "ok" \/ (k \in Batch(p) /\ stage[p] \in {"resolve", "pool"})
    /\ stage[p] = "done" => round[p] = Len(Rounds)

SoloInv ==
    /\ IInv
    /\ \A p \in Procs : /\ BatchDone(p)
                        /\ RoundsDone(p)
                        /\ \A k \in Pkgs : Sound(p, k)

(* A step that leaves a package and its task alone, and asks no more of    *)
(* them, keeps what is known of them.                                      *)
Undisturbed(p, k) ==
    /\ task'[p][k] = task[p][k]
    /\ want'[p][k] = want[p][k]
    /\ got'[p][k] = got[p][k]
    /\ todo'[p][k] = todo[p][k]
    /\ config'[p][k] = config[p][k]
    /\ stamp'[k] = stamp[k]
    /\ dir'[k] = dir[k]
    /\ patched'[k] = patched[k]
    /\ published[k] <= published'[k]
    /\ indexed'[k] <= published'[k]
    /\ crashes' = 0 => crashes = 0
    /\ stage'[p] \in Live => stage[p] \in Live
    /\ Unpatched(p, k)' => Unpatched(p, k)

(* Such a step keeps it sound.                                             *)
LEMMA UndisturbedSound ==
    ASSUME TypeOK, TypeOK', NEW p \in Procs, NEW k \in Pkgs, Sound(p, k),
           Undisturbed(p, k)
    PROVE  Sound(p, k)'
<1> USE DEF Sound, Undisturbed
<1>type. /\ published[k] \in Nat /\ published'[k] \in Nat
         /\ published[k] > 0
         /\ \A f \in Files : dir[k][f] \in Nat
         /\ stamp[k] \in Nat /\ want[p][k] \in Nat /\ got[p][k] \in Nat
  BY DEF TypeOK, Hash, HashOrNone
<1>present. Present(k)' = Present(k)
  BY DEF Present
<1>1. NeverWaits(p, k)'
  BY DEF NeverWaits
<1>2. Dated(p, k)'
  BY <1>type DEF Dated
<1>3. Unpacking(p, k)'
  BY DEF Unpacking
<1>4. Loading(p, k)'
  BY <1>present DEF Loading, Fresh
<1>5. UpToDate(p, k)'
  BY <1>present DEF UpToDate, DirExists
<1>6. Known(p, k)'
  BY <1>present DEF Known, DirExists
<1>7. Whole(p, k)'
  BY <1>present, <1>type DEF Whole, DirExists
<1>8. ToPatch(p, k)'
  BY DEF ToPatch, Fresh
<1>9. LeftBehind(p, k)'
  BY <1>type DEF LeftBehind
<1> QED
  BY <1>1, <1>2, <1>3, <1>4, <1>5, <1>6, <1>7, <1>8, <1>9

(* A thread disturbs the package of its task only.                         *)
LEMMA ThreadElsewhere ==
    ASSUME TypeOK, NEW p \in Procs, NEW k \in Pkgs, NEW j \in Pkgs, j # k,
           Dated(p, j), TaskStep(p, k)
    PROVE  Undisturbed(p, j)
<1> USE DEF TypeOK
<1>goto. ASSUME NEW s, Goto(p, k, s) PROVE task'[p][j] = task[p][j]
  BY <1>goto DEF Goto
<1>dir. ASSUME RemoveDir(k) PROVE dir'[j] = dir[j] /\ patched'[j] = patched[j]
  BY <1>dir DEF RemoveDir
<1>same. ASSUME UNCHANGED <<published, indexed, stage, crashes>>,
                pending'[p] = pending[p],
                config'[p][j] = config[p][j],
                task'[p][j] = task[p][j],
                want'[p][j] = want[p][j],
                got'[p][j] = got[p][j],
                todo'[p][j] = todo[p][j],
                stamp'[j] = stamp[j],
                dir'[j] = dir[j],
                patched'[j] = patched[j]
         PROVE  Undisturbed(p, j)
  BY <1>same DEF Undisturbed, Unpatched, Dated, Hash
<1>ready. ASSUME UNCHANGED <<published, indexed, stage, crashes, pending, config, want>>,
                 \/ UNCHANGED task
                 \/ \E s : Goto(p, k, s),
                 \/ UNCHANGED <<dir, patched>>
                 \/ RemoveDir(k),
                 \/ UNCHANGED got
                 \/ \E a : got' = [got EXCEPT ![p][k] = a],
                 \/ UNCHANGED todo
                 \/ \E a : todo' = [todo EXCEPT ![p][k] = a],
                 \/ UNCHANGED stamp
                 \/ stamp' = [stamp EXCEPT ![k] = want[p][k]]
          PROVE  Undisturbed(p, j)
  <2>1. task'[p][j] = task[p][j]
    BY <1>ready, <1>goto
  <2>2. dir'[j] = dir[j] /\ patched'[j] = patched[j]
    BY <1>ready, <1>dir
  <2>3. got'[p][j] = got[p][j] /\ todo'[p][j] = todo[p][j] /\ stamp'[j] = stamp[j]
    BY <1>ready
  <2> QED
    BY <1>ready, <2>1, <2>2, <2>3, <1>same
<1> USE DEF diskVars, serverVars, runVars, storeVars, boundVars, taskVars
<1>1. CASE PickTask(p, k) \/ ReadStamp(p, k) \/ CheckDir(p, k)
  BY <1>1, <1>ready DEF PickTask, ReadStamp, CheckDir
<1>2. CASE TryLock(p, k) \/ WaitLock(p, k) \/ DownloadMismatch(p, k) \/ VerifyFails(p, k)
  BY <1>2, <1>ready DEF TryLock, WaitLock, DownloadMismatch, VerifyFails
<1>3. CASE DownloadOk(p, k) \/ DownloadUnchecked(p, k)
  BY <1>3, <1>ready DEF DownloadOk, DownloadUnchecked
<1>4. CASE CleanOld(p, k) \/ RemoveDone(p, k)
  BY <1>4, <1>ready DEF CleanOld, RemoveDone
<1>5. CASE RemoveFile(p, k)
  <2>1. dir'[j] = dir[j] /\ patched'[j] = patched[j]
    BY <1>5 DEF RemoveFile, Present
  <2> QED
    BY <1>5, <2>1, <1>same DEF RemoveFile
<1>6. CASE WriteStamp(p, k)
  BY <1>6, <1>ready DEF WriteStamp
<1>7. CASE UnpackFile(p, k)
  <2>1. PICK f \in todo[p][k] :
          /\ dir' = [dir EXCEPT ![k][f] = got[p][k]]
          /\ patched' = [patched EXCEPT ![k][f] = 0]
          /\ todo' = [todo EXCEPT ![p][k] = @ \ {f}]
    BY <1>7 DEF UnpackFile
  <2>2. f \in Files
    OBVIOUS
  <2>3. dir'[j] = dir[j] /\ patched'[j] = patched[j] /\ todo'[p][j] = todo[p][j]
    BY <2>1, <2>2
  <2> QED
    BY <1>7, <2>3, <1>same DEF UnpackFile
<1>8. CASE UnpackDone(p, k) \/ UnpackFails(p, k) \/ LoadConfig(p, k)
  BY <1>8, <1>ready DEF UnpackDone, UnpackFails, LoadConfig
<1>9. CASE InsertConfig(p, k)
  <2>1. config'[p][j] = config[p][j]
    BY <1>9 DEF InsertConfig
  <2>2. task'[p][j] = task[p][j]
    BY <1>9, <1>goto DEF InsertConfig
  <2> QED
    BY <1>9, <2>1, <2>2, <1>same DEF InsertConfig
<1> QED
  BY <1>1, <1>2, <1>3, <1>4, <1>5, <1>6, <1>7, <1>8, <1>9, TaskStep(p, k) DEF TaskStep

(* What a thread may assume of its own package, in numbers.                *)
LEMMA SoundTypes ==
    ASSUME TypeOK, NEW p \in Procs, NEW k \in Pkgs
    PROVE  /\ published[k] \in Nat \ {0}
           /\ stamp[k] \in Nat /\ indexed[k] \in Nat
           /\ want[p][k] \in Nat /\ got[p][k] \in Nat
           /\ got[p][k] # 0 => /\ got[p][k] \in Hash
                               /\ Archive[got[p][k]] \subseteq Files
                               /\ Spec_yml \in Archive[got[p][k]]
           /\ \A f \in Files : dir[k][f] \in Nat /\ patched[k][f] \in 0..2
           /\ Spec_yml \in Files
<1>1. /\ published[k] \in Hash /\ indexed[k] \in Hash
      /\ stamp[k] \in HashOrNone /\ want[p][k] \in HashOrNone
      /\ got[p][k] \in HashOrNone
  BY DEF TypeOK
<1>2. \A f \in Files : dir[k][f] \in HashOrNone /\ patched[k][f] \in 0..2
  BY DEF TypeOK
<1>3. got[p][k] # 0 => got[p][k] \in Hash
  BY <1>1 DEF Hash, HashOrNone
<1>4. \A h \in Hash : Archive[h] \subseteq Files /\ Spec_yml \in Archive[h]
  OBVIOUS
<1>5. Hash \subseteq Nat \ {0} /\ HashOrNone \subseteq Nat
  BY DEF Hash, HashOrNone
<1> QED
  BY <1>1, <1>2, <1>3, <1>4, <1>5

(* A step of a thread keeps what is known of its own package.              *)
LEMMA ThreadAtHome ==
    ASSUME IInv, TypeOK', OneProcess, NEW p \in Procs, NEW k \in Pkgs, Sound(p, k),
           TaskStep(p, k)
    PROVE  Sound(p, k)'
<1> USE DEF Sound
<1>type. /\ published[k] \in Nat \ {0}
         /\ stamp[k] \in Nat /\ indexed[k] \in Nat
         /\ want[p][k] \in Nat /\ got[p][k] \in Nat
         /\ got[p][k] # 0 => /\ got[p][k] \in Hash
                             /\ Archive[got[p][k]] \subseteq Files
                             /\ Spec_yml \in Archive[got[p][k]]
         /\ \A f \in Files : dir[k][f] \in Nat /\ patched[k][f] \in 0..2
         /\ Spec_yml \in Files
  BY SoundTypes DEF IInv
<1>goto. \A s : Goto(p, k, s) => task'[p][k] = s
  BY DEF Goto, IInv, TypeOK
<1>pool. stage[p] = "pool"
  BY TaskStepIsThreadStep DEF IInv, ThreadsInPool, ThreadStep
<1>free. task[p][k] \notin Owning => Free(k)
  BY DEF IInv, LockOwner, OneProcess, Holds, Free
<1> USE <1>type, <1>goto, <1>pool
    DEF diskVars, serverVars, runVars, storeVars, boundVars, taskVars,
        NeverWaits, Dated, Unpacking, Loading, UpToDate, Known, Whole, Unpatched,
        ToPatch, LeftBehind, Fresh, Replacing, Rewriting, Present, DirExists
<1>1. CASE PickTask(p, k)
  BY <1>1 DEF PickTask
<1>2. CASE ReadStamp(p, k)
  BY <1>2 DEF ReadStamp
<1>3. CASE CheckDir(p, k)
  BY <1>3 DEF CheckDir
<1>4. CASE TryLock(p, k)
  BY <1>4, <1>free DEF TryLock, Owning
<1>5. CASE WaitLock(p, k)
  BY <1>5 DEF WaitLock
<1>6. CASE DownloadOk(p, k)
  BY <1>6 DEF DownloadOk, IInv, TypeOK
<1>7. CASE DownloadMismatch(p, k)
  BY <1>7 DEF DownloadMismatch
<1>8. CASE DownloadUnchecked(p, k)
  BY <1>8 DEF DownloadUnchecked, IInv, TypeOK
<1>9. CASE CleanOld(p, k)
  BY <1>9 DEF CleanOld
<1>10. CASE RemoveFile(p, k)
  BY <1>10 DEF RemoveFile, IInv, TypeOK
<1>11. CASE RemoveDone(p, k)
  BY <1>11 DEF RemoveDone
<1>12. CASE WriteStamp(p, k)
  BY <1>12 DEF WriteStamp, IInv, TypeOK
<1>13. CASE UnpackFile(p, k)
  <2>1. PICK f \in todo[p][k] :
          /\ dir' = [dir EXCEPT ![k][f] = got[p][k]]
          /\ patched' = [patched EXCEPT ![k][f] = 0]
          /\ todo' = [todo EXCEPT ![p][k] = @ \ {f}]
    BY <1>13 DEF UnpackFile
  <2>2. f \in Archive[got[p][k]] /\ got[p][k] # 0
    BY <1>13, <2>1 DEF UnpackFile
  <2>3. \A g \in Files : /\ dir'[k][g] = IF g = f THEN got[p][k] ELSE dir[k][g]
                         /\ patched'[k][g] = IF g = f THEN 0 ELSE patched[k][g]
    BY <2>1 DEF IInv, TypeOK
  <2>4. todo'[p][k] = todo[p][k] \ {f}
    BY <2>1 DEF IInv, TypeOK
  <2>5. UNCHANGED <<task, want, got, config, stamp, indexed, published, stage, pending,
                 crashes>>
    BY <1>13 DEF UnpackFile
  <2> QED
    BY <1>13, <2>2, <2>3, <2>4, <2>5, SMTT(30) DEF UnpackFile
<1>14. CASE UnpackDone(p, k)
  <2>1. \A f \in Files : dir[k][f] = got[p][k] <=> f \in Archive[got[p][k]]
    BY <1>14 DEF UnpackDone
  <2>2. Fresh(k) /\ dir[k][Spec_yml] = got[p][k]
    BY <1>14, <2>1 DEF UnpackDone
  <2>3. stamp[k] = want[p][k]
    BY <1>14 DEF UnpackDone, IInv, StampBeforeSources
  <2>4. /\ task'[p][k] = "add_config"
        /\ UNCHANGED <<want, got, todo, dir, patched, stamp, config, indexed, published,
                       stage, pending, crashes>>
    BY <1>14 DEF UnpackDone
  <2> QED
    BY <1>14, <2>1, <2>2, <2>3, <2>4 DEF UnpackDone
<1>15. CASE UnpackFails(p, k)
  BY <1>15 DEF UnpackFails, RemoveDir, NoFiles, IInv, TypeOK
<1>16. CASE LoadConfig(p, k)
  BY <1>16 DEF LoadConfig
<1>17. CASE InsertConfig(p, k)
  BY <1>17 DEF InsertConfig, Inserting, IInv, TypeOK
<1>18. CASE VerifyFails(p, k)
  BY <1>18 DEF VerifyFails
<1> QED
  BY <1>1, <1>2, <1>3, <1>4, <1>5, <1>6, <1>7, <1>8, <1>9, <1>10, <1>11, <1>12,
     <1>13, <1>14, <1>15, <1>16, <1>17, <1>18, TaskStep(p, k) DEF TaskStep

(* A step of a run outside its threads, and what the other processes would *)
(* see of it, keeps what is known of every package.                        *)
LEMMA RunSound ==
    ASSUME IInv, TypeOK', OneProcess, NEW p \in Procs,
           \A k \in Pkgs : Sound(p, k), BatchDone(p), RunStep(p)
    PROVE  \A k \in Pkgs : Sound(p, k)'
<1> SUFFICES ASSUME NEW j \in Pkgs PROVE Sound(p, j)'
  OBVIOUS
<1>type. TypeOK
  BY DEF IInv
<1>dated. indexed[j] <= published[j] /\ published[j] \in Nat /\ indexed[j] \in Nat
  BY SoundTypes, <1>type DEF Sound, Dated
<1>same. ASSUME UNCHANGED <<published, indexed, crashes, taskVars>>,
                config'[p][j] = config[p][j],
                stamp'[j] = stamp[j], dir'[j] = dir[j], patched'[j] = patched[j],
                stage'[p] \in Live => stage[p] \in Live,
                Unpatched(p, j)' => Unpatched(p, j)
         PROVE  Sound(p, j)'
  <2>1. Undisturbed(p, j)
    BY <1>same, <1>dated DEF Undisturbed, taskVars
  <2> QED
    BY <2>1, <1>type, UndisturbedSound
<1> USE DEF diskVars, serverVars, boundVars, storeVars
<1>1. ASSUME stage[p] = "resolve", NEW hashes, hashes \in {indexed, published},
             Enqueue(p, hashes)
      PROVE  Sound(p, j)'
  <2>type. hashes \in [Pkgs -> Hash]
    BY <1>1, <1>type DEF TypeOK
  <2>1. /\ stage'[p] = "pool"
        /\ UNCHANGED <<config, pending, crashes, stamp, dir, patched, indexed, published>>
    BY <1>1, <1>type DEF Enqueue, TypeOK
  <2>2. CASE j \in Batch(p)
    <3>1. /\ task'[p][j] = "queued"
          /\ want'[p][j] = hashes[j]
          /\ got'[p][j] = 0
          /\ todo'[p][j] = {}
      BY <1>1, <2>2, <1>type DEF Enqueue, TypeOK
    <3>2. hashes[j] <= published[j]
      BY <1>1, <1>dated
    <3> QED
      BY <1>1, <2>1, <3>1, <3>2, SoundTypes, <1>type
      DEF Sound, NeverWaits, Dated, Unpacking, Loading, UpToDate, Known, Whole,
          Unpatched, ToPatch, LeftBehind, Fresh, Replacing, Rewriting, Present,
          DirExists, IInv, ThreadsInPool, Running, Owning
  <2>3. CASE j \notin Batch(p)
    <3>1. /\ task'[p][j] = task[p][j]
          /\ want'[p][j] = want[p][j]
          /\ got'[p][j] = got[p][j]
          /\ todo'[p][j] = todo[p][j]
      BY <1>1, <2>3, <1>type DEF Enqueue, TypeOK
    <3>2. Undisturbed(p, j)
      BY <1>1, <2>1, <3>1, <1>dated DEF Undisturbed, Unpatched, Live, RunStages
    <3> QED
      BY <3>2, <1>type, UndisturbedSound
  <2> QED
    BY <2>2, <2>3
<1>2. CASE ResolveLocal(p) \/ ResolveRemote(p)
  BY <1>2, <1>1 DEF ResolveLocal, ResolveRemote
<1>3. CASE ResolveFails(p)
  BY <1>3, <1>same, <1>type DEF ResolveFails, Live, RunStages, Unpatched, TypeOK
<1>4. CASE JoinOk(p) \/ JoinRetry(p) \/ JoinFails(p)
  BY <1>4, <1>same, <1>type
  DEF JoinOk, JoinRetry, JoinFails, Live, RunStages, Unpatched, TypeOK
<1>5. ASSUME NEW k \in Pkgs, ReadConfig(p, k) PROVE Sound(p, j)'
  <2>ok. task[p][k] \notin Running \cup {"queued"}
    BY <1>5 DEF ReadConfig, IInv, ThreadsInPool
  <2>1. ASSUME pending' = [pending EXCEPT ![p] = @ \ {k}],
               UNCHANGED <<dir, patched, config, stage>>
        PROVE  Sound(p, j)'
    BY <2>1, <1>5, <1>same, <1>type DEF ReadConfig, Unpatched, TypeOK
  <2>2. ASSUME DirExists(k), config[p][k] = "none", Spec_yml \in Present(k),
               config' = [config EXCEPT ![p][k] = "read"],
               UNCHANGED <<dir, patched, stage>>
        PROVE  Sound(p, j)'
    <3>1. CASE j = k
      <4>1. config'[p][k] = "read"
        BY <2>2, <1>type DEF TypeOK
      <4> QED
        BY <4>1, <3>1, <2>2, <1>5, <2>ok
        DEF ReadConfig, taskVars, Sound, NeverWaits, Dated, Unpacking, Loading,
            UpToDate, Known, Whole, Unpatched, ToPatch, LeftBehind, Fresh, Replacing,
            Rewriting, Present, DirExists
    <3>2. CASE j # k
      <4>1. config'[p][j] = config[p][j]
        BY <2>2, <3>2, <1>type DEF TypeOK
      <4>2. Unpatched(p, j)' => Unpatched(p, j)
        BY <4>1, <1>5, <2>2 DEF ReadConfig, Unpatched
      <4> QED
        BY <4>1, <4>2, <2>2, <1>5, <1>same DEF ReadConfig
    <3> QED
      BY <3>1, <3>2
  <2>3. ASSUME RemoveDir(k), stage' = [stage EXCEPT ![p] = "failed"],
               UNCHANGED <<pending, config>>
        PROVE  Sound(p, j)'
    <3>0. stage'[p] = "failed"
      BY <2>3, <1>type DEF TypeOK
    <3>1. CASE j = k
      <4>1. \A f \in Files : dir'[k][f] = 0 /\ patched'[k][f] = 0
        BY <2>3, <1>type DEF RemoveDir, NoFiles, TypeOK
      <4>2. task[p][k] \notin Replacing \cup {"add_config", "insert", "exists"}
        BY <2>ok DEF Replacing, Running, Owning
      <4>3. ~DirExists(k)' /\ ~Unpatched(p, k)'
        BY <4>1, <3>0 DEF DirExists, Present, Unpatched
      <4>4. /\ UNCHANGED <<task, want, got, todo, config, stamp, published, indexed>>
            /\ stage'[p] \notin Live
        BY <3>0, <2>3, <1>5 DEF ReadConfig, taskVars, Live, RunStages
      <4> QED
        BY <4>1, <4>2, <4>3, <4>4, <3>1, SoundTypes, <1>type
        DEF Sound, NeverWaits, Dated, Unpacking, Loading, UpToDate, Known, Whole,
            ToPatch, LeftBehind, Replacing
    <3>2. CASE j # k
      <4>1. dir'[j] = dir[j] /\ patched'[j] = patched[j]
        BY <2>3, <3>2, <1>type DEF RemoveDir, TypeOK
      <4> QED
        BY <4>1, <3>0, <2>3, <1>5, <1>same DEF ReadConfig, Unpatched, Live, RunStages
    <3> QED
      BY <3>1, <3>2
  <2> QED
    BY <1>5, <2>1, <2>2, <2>3 DEF ReadConfig
<1>6. CASE ReadDone(p)
  BY <1>6, <1>same, <1>type DEF ReadDone, Live, RunStages, Unpatched, TypeOK
<1>7. ASSUME NEW k \in Pkgs, PostDownload(p, k) PROVE Sound(p, j)'
  <2>ok. task[p][k] \notin Running \cup {"queued"}
    BY <1>7 DEF PostDownload, IInv, ThreadsInPool
  <2>1. ASSUME UNCHANGED <<patched, stage>>, pending' = [pending EXCEPT ![p] = @ \ {k}]
        PROVE  Sound(p, j)'
    BY <2>1, <1>7, <1>same, <1>type DEF PostDownload, Unpatched, TypeOK
  <2>2. ASSUME config[p][k] = "created", DirExists(k), PatchSources(k), UNCHANGED stage,
               pending' = [pending EXCEPT ![p] = @ \ {k}]
        PROVE  Sound(p, j)'
    <3>0. Unpatched(p, j)' => Unpatched(p, j) /\ j # k
      BY <1>7, <2>2, <1>type DEF PostDownload, Unpatched, TypeOK
    <3>1. CASE j = k
      <4>1. \A f \in Files : patched'[k][f] = IF /\ f \in Present(k) \ {Spec_yml}
                                                 /\ patched[k][f] < 2
                                              THEN patched[k][f] + 1 ELSE patched[k][f]
        BY <2>2, <1>type DEF PatchSources, TypeOK
      <4>2. Len(Rounds) = 1 => Fresh(k)
        BY <1>7, <2>2, <2>ok, <3>1
        DEF PostDownload, Sound, ToPatch, Unpatched, Rewriting, Running, Owning
      <4>3. LeftBehind(p, k)'
        BY <4>1, <4>2, <3>1, <2>2, <1>7, <2>ok, SoundTypes, <1>type
        DEF PostDownload, taskVars, Sound, Dated, LeftBehind, Fresh, Replacing,
            Present, Running, Owning
      <4> QED
        BY <4>1, <4>3, <3>0, <3>1, <2>2, <1>7, <2>ok, SoundTypes, <1>type, SMTT(60)
        DEF PostDownload, taskVars, Sound, NeverWaits, Dated, Unpacking, Loading,
            UpToDate, Known, Whole, ToPatch, Fresh, Replacing,
            Rewriting, Present, DirExists, Live, RunStages, Running, Owning
    <3>2. CASE j # k
      <4>1. patched'[j] = patched[j]
        BY <2>2, <3>2, <1>type DEF PatchSources, TypeOK
      <4> QED
        BY <4>1, <3>0, <2>2, <1>7, <1>same DEF PostDownload
    <3> QED
      BY <3>1, <3>2
  <2>3. ASSUME stage' = [stage EXCEPT ![p] = "failed"], UNCHANGED <<patched, pending>>
        PROVE  Sound(p, j)'
    BY <2>3, <1>7, <1>same, <1>type
    DEF PostDownload, Live, RunStages, Unpatched, TypeOK
  <2> QED
    BY <1>7, <2>1, <2>2, <2>3 DEF PostDownload
<1>8. CASE PostDone(p)
  BY <1>8, <1>same, <1>type DEF PostDone, Live, RunStages, Unpatched, TypeOK
<1>9. CASE WriteIndex(p)
  <2>1. round[p] \in 1..Len(Rounds)
    BY <1>type DEF TypeOK
  <2>2. Unpatched(p, j)' => Unpatched(p, j)
    BY <1>9, <2>1, <1>type DEF WriteIndex, NewResolver, Unpatched, TypeOK
  <2> QED
    BY <1>9, <2>2, <1>same DEF WriteIndex, Live, RunStages
<1> QED
  BY <1>2, <1>3, <1>4, <1>5, <1>6, <1>7, <1>8, <1>9 DEF RunStep

(* Neither a thread nor a run loses what the loops before it have done.    *)
LEMMA LoopsThread ==
    ASSUME IInv, TypeOK', NEW p \in Procs, NEW k \in Pkgs,
           BatchDone(p), RoundsDone(p), TaskStep(p, k)
    PROVE  BatchDone(p)' /\ RoundsDone(p)'
<1>type. TypeOK
  BY DEF IInv
<1>1. PICK s \in TaskStages : ThreadStep(p, k, s)
  BY <1>type, TaskStepIsThreadStep
<1>2. stage[p] = "pool" /\ k \in Batch(p)
  BY <1>1 DEF ThreadStep, IInv, ThreadsInPool
<1>3. \A j \in Pkgs : config[p][j] # "none" => config'[p][j] # "none"
  BY <1>type DEF TypeOK, TaskStep, PickTask, ReadStamp, CheckDir, TryLock, WaitLock,
     DownloadOk, DownloadMismatch, DownloadUnchecked, VerifyFails, CleanOld, RemoveFile,
     RemoveDone, WriteStamp, UnpackFile, UnpackDone, UnpackFails, LoadConfig, InsertConfig, storeVars
<1>4. \A j \in Pkgs \ {k} : task'[p][j] = task[p][j]
  BY <1>1, <1>type DEF ThreadStep, TypeOK
<1>5. UNCHANGED <<stage, round>>
  BY <1>1 DEF ThreadStep
<1>6. \A r \in DOMAIN Rounds : Rounds[r] \subseteq Pkgs
  OBVIOUS
<1> QED
  BY <1>2, <1>3, <1>4, <1>5, <1>6 DEF BatchDone, RoundsDone, Batch

(* No action of a run outside its threads loses it either.                 *)
LEMMA LoopsRun ==
    ASSUME IInv, TypeOK', NEW p \in Procs, \A k \in Pkgs : Sound(p, k),
           BatchDone(p), RoundsDone(p), RunStep(p)
    PROVE  BatchDone(p)' /\ RoundsDone(p)'
<1> USE DEF BatchDone, RoundsDone, Batch, Live, RunStages
<1>type. TypeOK
  BY DEF IInv
<1>rounds. /\ \A r \in DOMAIN Rounds : Rounds[r] \subseteq Pkgs
           /\ DOMAIN Rounds = 1..Len(Rounds)
           /\ Len(Rounds) \in Nat
           /\ round[p] \in 1..Len(Rounds)
  BY <1>type DEF TypeOK
<1> USE <1>type, <1>rounds
    DEF diskVars, serverVars, boundVars, storeVars, taskVars
<1>1. ASSUME stage[p] = "resolve", NEW hashes, Enqueue(p, hashes)
      PROVE  BatchDone(p)' /\ RoundsDone(p)'
  <2>1. /\ stage'[p] = "pool"
        /\ UNCHANGED <<round, config, pending>>
        /\ \A j \in Pkgs : task'[p][j] = IF j \in Batch(p) THEN "queued" ELSE task[p][j]
    BY <1>1 DEF Enqueue, TypeOK
  <2> QED
    BY <1>1, <2>1
<1>2. CASE ResolveLocal(p) \/ ResolveRemote(p)
  BY <1>2, <1>1 DEF ResolveLocal, ResolveRemote
<1>3. CASE ResolveFails(p) \/ JoinFails(p)
  BY <1>3 DEF ResolveFails, JoinFails, TypeOK
<1>4. CASE JoinOk(p)
  BY <1>4 DEF JoinOk, TypeOK
<1>5. CASE JoinRetry(p)
  BY <1>5 DEF JoinRetry, TypeOK
<1>6. ASSUME NEW k \in Pkgs, ReadConfig(p, k) PROVE BatchDone(p)' /\ RoundsDone(p)'
  <2>1. DirExists(k)
    BY <1>6 DEF ReadConfig, Sound, UpToDate
  <2>2. ASSUME config[p][k] # "none", pending' = [pending EXCEPT ![p] = @ \ {k}],
               UNCHANGED <<config, stage, round, task>>
        PROVE  BatchDone(p)' /\ RoundsDone(p)'
    BY <2>2, <1>6 DEF ReadConfig, TypeOK
  <2>3. ASSUME config' = [config EXCEPT ![p][k] = "read"],
               pending' = [pending EXCEPT ![p] = @ \ {k}],
               UNCHANGED <<stage, round, task>>
        PROVE  BatchDone(p)' /\ RoundsDone(p)'
    BY <2>3, <1>6 DEF ReadConfig, TypeOK
  <2>4. ASSUME stage' = [stage EXCEPT ![p] = "failed"]
        PROVE  BatchDone(p)' /\ RoundsDone(p)'
    BY <2>4 DEF TypeOK
  <2> QED
    BY <1>6, <2>1, <2>2, <2>3, <2>4 DEF ReadConfig
<1>7. CASE ReadDone(p)
  BY <1>7 DEF ReadDone, TypeOK
<1>8. ASSUME NEW k \in Pkgs, PostDownload(p, k) PROVE BatchDone(p)' /\ RoundsDone(p)'
  BY <1>8 DEF PostDownload, TypeOK
<1>9. CASE PostDone(p)
  BY <1>9 DEF PostDone, TypeOK
<1>10. CASE WriteIndex(p)
  <2>1. ASSUME round[p] < Len(Rounds), round' = [round EXCEPT ![p] = @ + 1],
               stage' = [stage EXCEPT ![p] = "resolve"]
        PROVE  BatchDone(p)' /\ RoundsDone(p)'
    <3>1. round'[p] = round[p] + 1 /\ stage'[p] = "resolve"
      BY <2>1 DEF TypeOK
    <3>2. \A r \in DOMAIN Rounds : r < round'[p] => r < round[p] \/ r = round[p]
      BY <3>1
    <3> QED
      BY <1>10, <3>1, <3>2 DEF WriteIndex
  <2>2. ASSUME round[p] = Len(Rounds), stage' = [stage EXCEPT ![p] = "done"],
               UNCHANGED round
        PROVE  BatchDone(p)' /\ RoundsDone(p)'
    BY <1>10, <2>2 DEF WriteIndex, TypeOK
  <2> QED
    BY <1>10, <2>1, <2>2 DEF WriteIndex, NewResolver
<1> QED
  BY <1>2, <1>3, <1>4, <1>5, <1>6, <1>7, <1>8, <1>9, <1>10 DEF RunStep

(* A new process knows nothing, and expects nothing of the directory but   *)
(* what a crash leaves there.                                              *)
LEMMA FreshProcess ==
    ASSUME IInv, TypeOK', NEW p \in Procs, \A k \in Pkgs : Sound(p, k),
           Forget(p), stage'[p] \in {"resolve", "idle"}, crashes' = 0 => crashes = 0,
           UNCHANGED <<stamp, dir, patched, published, indexed>>,
           \A k \in Pkgs : task[p][k] \in Rewriting => crashes' # 0
    PROVE  /\ \A k \in Pkgs : Sound(p, k)'
           /\ BatchDone(p)' /\ RoundsDone(p)'
<1>type. TypeOK
  BY DEF IInv
<1>1. /\ round'[p] = 1
      /\ \A k \in Pkgs : /\ task'[p][k] = "none"
                         /\ config'[p][k] = "none"
                         /\ want'[p][k] = 0
                         /\ got'[p][k] = 0
                         /\ todo'[p][k] = {}
  BY <1>type DEF Forget, TypeOK
<1>2. ASSUME NEW k \in Pkgs PROVE Sound(p, k)'
  BY <1>1, <1>type, SoundTypes
  DEF Sound, NeverWaits, Dated, Unpacking, Loading, UpToDate, Known, Whole,
      Unpatched, ToPatch, LeftBehind, Fresh, Replacing, Rewriting, Present, DirExists
<1>3. BatchDone(p)' /\ RoundsDone(p)'
  BY <1>1 DEF BatchDone, RoundsDone
<1> QED
  BY <1>2, <1>3

(* A fresh storage directory is sound.                                     *)
LEMMA SoloInit == Init => SoloInv
<1> SUFFICES ASSUME Init PROVE SoloInv
  OBVIOUS
<1>1. IInv
  BY InvInit
<1>2. ASSUME NEW p \in Procs, NEW k \in Pkgs PROVE Sound(p, k)
  BY DEF Init, Sound, NeverWaits, Dated, Unpacking, Loading, UpToDate, Known, Whole,
         Unpatched, ToPatch, LeftBehind, Fresh, Replacing, Rewriting, Present,
         DirExists, NoFiles
<1>3. ASSUME NEW p \in Procs PROVE BatchDone(p) /\ RoundsDone(p)
  BY DEF Init, BatchDone, RoundsDone, Live, RunStages
<1> QED
  BY <1>1, <1>2, <1>3 DEF SoloInv

(* One process keeps it sound, whatever fails, crashes or is published.    *)
LEMMA SoloStep == ASSUME OneProcess PROVE SoloInv /\ [Next]_vars => SoloInv'
<1> SUFFICES ASSUME SoloInv, [Next]_vars PROVE SoloInv'
  OBVIOUS
<1>type. /\ IInv /\ IInv'
         /\ TypeOK /\ TypeOK'
  BY InvStep DEF SoloInv, IInv
<1>known. \A p \in Procs : /\ BatchDone(p) /\ RoundsDone(p)
                           /\ \A k \in Pkgs : Sound(p, k)
  BY DEF SoloInv
<1>one. ASSUME NEW p \in Procs, \A k \in Pkgs : Sound(p, k)',
               BatchDone(p)' /\ RoundsDone(p)'
        PROVE  SoloInv'
  <2>1. \A q \in Procs : q = p
    BY DEF OneProcess
  <2> QED
    BY <2>1, <1>one, <1>type DEF SoloInv
<1>1. ASSUME NEW p \in Procs, StartRun(p) PROVE SoloInv'
  <2>1. \A k \in Pkgs : task[p][k] \notin Rewriting
    BY <1>1, <1>type DEF StartRun, RunStages, IInv, ThreadsInPool, Rewriting, Running, Owning
  <2>2. /\ Forget(p) /\ stage'[p] = "resolve"
        /\ UNCHANGED <<stamp, dir, patched, published, indexed, crashes>>
    BY <1>1, <1>type DEF StartRun, NewResolver, diskVars, serverVars, TypeOK
  <2> QED
    BY <2>1, <2>2, <1>type, <1>known, <1>one, FreshProcess
<1>2. ASSUME NEW p \in Procs, Crash(p) PROVE SoloInv'
  <2>1. crashes' # 0
    BY <1>2, <1>type DEF Crash, TypeOK
  <2>2. /\ Forget(p) /\ stage'[p] = "idle"
        /\ UNCHANGED <<stamp, dir, patched, published, indexed>>
    BY <1>2, <1>type DEF Crash, serverVars, TypeOK
  <2> QED
    BY <2>1, <2>2, <1>type, <1>known, <1>one, FreshProcess
<1>3. ASSUME NEW p \in Procs, RunStep(p) PROVE SoloInv'
  BY <1>3, <1>type, <1>known, <1>one, RunSound, LoopsRun
<1>4. ASSUME NEW p \in Procs, NEW k \in Pkgs, TaskStep(p, k) PROVE SoloInv'
  <2>1. Sound(p, k)'
    BY <1>4, <1>type, <1>known, ThreadAtHome
  <2>2. ASSUME NEW j \in Pkgs, j # k PROVE Sound(p, j)'
    <3>1. Sound(p, j) /\ Dated(p, j)
      BY <1>known DEF Sound
    <3> QED
      BY <3>1, <2>2, <1>4, <1>type, ThreadElsewhere, UndisturbedSound
  <2>3. BatchDone(p)' /\ RoundsDone(p)'
    BY <1>4, <1>type, <1>known, LoopsThread
  <2> QED
    BY <2>1, <2>2, <2>3, <1>one
<1>5. ASSUME \/ \E k \in Pkgs : Publish(k) \/ UpdateIndex(k)
             \/ UNCHANGED vars
      PROVE  SoloInv'
  <2>1. UNCHANGED <<diskVars, runVars, storeVars, taskVars, boundVars>>
    BY <1>5 DEF Publish, UpdateIndex, vars
  <2>2. \A k \in Pkgs : published[k] <= published'[k]
    <3>1. \A k \in Pkgs : published[k] \in Nat
      BY <1>type DEF TypeOK, Hash
    <3>2. ASSUME NEW k \in Pkgs, Publish(k) PROVE \A j \in Pkgs : published[j] <= published'[j]
      BY <3>1, <3>2, <1>type DEF Publish, TypeOK
    <3>3. CASE UNCHANGED published
      BY <3>1, <3>3
    <3> QED
      BY <1>5, <3>2, <3>3 DEF UpdateIndex, vars, serverVars
  <2>3. \A p \in Procs, k \in Pkgs : indexed'[k] <= published'[k]
    <3>1. \A p \in Procs, k \in Pkgs : indexed[k] <= published[k]
      BY <1>known DEF Sound, Dated
    <3>2. \A k \in Pkgs : /\ published[k] \in Nat /\ published'[k] \in Nat
                          /\ indexed[k] \in Nat
      BY <1>type DEF TypeOK, Hash
    <3>3. ASSUME NEW k \in Pkgs, UpdateIndex(k)
          PROVE  \A j \in Pkgs : indexed'[j] = published[j] \/ indexed'[j] = indexed[j]
      BY <3>3, <1>type DEF UpdateIndex, TypeOK
    <3>4. CASE UNCHANGED indexed
      BY <3>1, <3>2, <3>4, <2>2
    <3>5. ASSUME NEW k \in Pkgs, UpdateIndex(k)
          PROVE  \A p \in Procs, j \in Pkgs : indexed'[j] <= published'[j]
      BY <3>1, <3>2, <3>3, <3>5 DEF UpdateIndex
    <3> QED
      BY <1>5, <3>4, <3>5 DEF Publish, vars, serverVars
  <2>4. ASSUME NEW p \in Procs, NEW k \in Pkgs PROVE Sound(p, k)'
    <3>1. Undisturbed(p, k)
      BY <2>1, <2>2, <2>3
      DEF Undisturbed, Unpatched, diskVars, runVars, storeVars, taskVars, boundVars
    <3> QED
      BY <3>1, <1>type, <1>known, UndisturbedSound
  <2>5. ASSUME NEW p \in Procs PROVE BatchDone(p)' /\ RoundsDone(p)'
    BY <2>1, <1>known DEF BatchDone, RoundsDone, Batch, runVars, storeVars, taskVars
  <2> QED
    BY <2>4, <2>5, <1>type DEF SoloInv
<1> QED
  BY <1>1, <1>2, <1>3, <1>4, <1>5 DEF Next

(* What is known of a package at each stage of its task holds in every     *)
(* reachable state of one process.                                         *)
THEOREM SoloInductive == ASSUME OneProcess PROVE Spec => []SoloInv
<1> QED
  BY SoloInit, SoloStep, PTL DEF Spec

(* With one process a run that succeeds leaves every package with its      *)
(* specification, its config and the stamp of the wanted hash.             *)
THEOREM RunsComplete == ASSUME OneProcess PROVE Spec => []SuccessComplete
<1>1. SoloInv => SuccessComplete
  <2> SUFFICES ASSUME SoloInv, NEW p \in Procs, stage[p] = "done",
                      NEW r \in DOMAIN Rounds, NEW k \in Rounds[r]
               PROVE  /\ Spec_yml \in Present(k)
                      /\ config[p][k] \in {"created", "read"}
                      /\ stamp[k] = want[p][k]
    BY DEF SuccessComplete
  <2>1. k \in Pkgs
    OBVIOUS
  <2>2. TypeOK /\ BatchDone(p) /\ RoundsDone(p) /\ Sound(p, k)
    BY <2>1 DEF SoloInv, IInv
  <2>3. r < round[p] \/ r = round[p]
    BY <2>2 DEF RoundsDone
  <2>4. config[p][k] # "none" /\ task[p][k] = "ok"
    BY <2>2, <2>3 DEF RoundsDone, BatchDone, Batch, Live
  <2>5. config[p][k] \in ConfigKinds
    BY <2>1, <2>2 DEF TypeOK
  <2> QED
    BY <2>2, <2>4, <2>5
    DEF Sound, NeverWaits, UpToDate, Known, Live, Rewriting, ConfigKinds
<1> QED
  BY <1>1, SoloInductive, PTL

(* What the next run of that process takes for up to date is the whole     *)
(* archive, if it was never replaced and no run was killed.                *)
THEOREM UpToDateTrusted == ASSUME OneProcess PROVE Spec => []UpToDateIsIntact
<1>1. ASSUME SoloInv PROVE UpToDateIsIntact
  <2> SUFFICES ASSUME NEW k \in Pkgs, Free(k), stamp[k] # 0, DirExists(k),
                      published[k] = 1, crashes = 0
               PROVE  Intact(k)
    BY DEF UpToDateIsIntact
  <2>1. PICK p \in Procs : TRUE
    BY DEF OneProcess
  <2>2. TypeOK /\ LockOwner /\ Sound(p, k)
    BY <1>1 DEF SoloInv, IInv
  <2>3. task[p][k] \notin Rewriting
    BY <2>2 DEF Free, LockOwner, Holds, Owning, Rewriting
  <2>4. Archive[1] \subseteq Present(k)
    BY <2>2, <2>3 DEF Sound, Whole
  <2>5. stamp[k] = 1
    BY <2>2, SoundTypes DEF Sound, Dated
  <2>6. ASSUME NEW f \in Files PROVE dir[k][f] = IF f \in Archive[1] THEN 1 ELSE 0
    <3>1. dir[k][f] \in {0, 1}
      BY <2>2, SoundTypes DEF Sound, Dated
    <3>2. dir[k][f] # 0 => f \in Archive[1]
      BY <2>2, <3>1 DEF Sound, Dated
    <3> QED
      BY <3>1, <3>2, <2>4 DEF Present
  <2> QED
    BY <2>5, <2>6 DEF Intact
<1> QED
  BY <1>1, SoloInductive, PTL

(* In runs of one Resolver the replace rules run at most once over a file  *)
(* of the archive that was unpacked last, even after crashes and retries.  *)
THEOREM PatchedOnce ==
    ASSUME OneProcess, Len(Rounds) = 1 PROVE Spec => []PatchedAtMostOnce
<1>1. ASSUME SoloInv PROVE PatchedAtMostOnce
  <2> SUFFICES ASSUME NEW k \in Pkgs, NEW f \in Files, dir[k][f] = dir[k][Spec_yml]
               PROVE  patched[k][f] <= 1
    BY DEF PatchedAtMostOnce
  <2>1. PICK p \in Procs : TRUE
    BY DEF OneProcess
  <2>2. LeftBehind(p, k) /\ TypeOK
    BY <1>1 DEF SoloInv, IInv, Sound
  <2>3. patched[k][f] # 2
    BY <2>2 DEF LeftBehind
  <2> QED
    BY <2>2, <2>3, SoundTypes
<1> QED
  BY <1>1, SoloInductive, PTL
=============================================================================

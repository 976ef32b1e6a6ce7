--------------------------- MODULE DatabasesProofs ---------------------------
(***************************************************************************)
(* Proofs about the start of cppan processes: the types, the startup       *)
(* actions and the packages database, for any number of processes, any     *)
(* startup actions and tables, any bounds.                                 *)
(*                                                                         *)
(* Base, the types with the stages a process can be at, carries the rest.  *)
(* PackagesRight needs Updates and Whole; ActionsRight needs Counted,      *)
(* Cleaning, Stamped and Covered.                                          *)
(***************************************************************************)
EXTENDS Databases, TLAPS, SequenceTheorems

-----------------------------------------------------------------------------
(* The inductive invariants.                                               *)

(* Where a process can be while it opens which database.                   *)
Acting == {"actions", "record", "effects"}
StageFits(stage, db, i, done) ==
    /\ stage \in {"init", "stamp", "clear_stamps"} \cup Acting => db = "service"
    /\ stage \in Refreshing \cup {"ready", "no_packages"} => db = "packages"
    /\ stage \in {"record", "effects"} => i \in Ids
    /\ stage \in Starting \ Acting => i = 1 /\ done = {}
Stages ==
    \A p \in Procs : StageFits(pc[p], opening[p], at[p], actions_performed[p])

(* An action is counted only while its record exists.                      *)
Counted == \A i \in Ids : executed[i] <= 1 /\ (i \notin performed => executed[i] = 0)

(* An older client's data in r is about to be cleared.                     *)
Clears(p, r) == pc[p] = "effects" /\ r \in Cleared(effects[p])
Clearing(r) == \E q \in Procs : Clears(q, r)

OldRegions == {r \in Regions \ {"file_stamps"} : region[r] = "old"}

(* What is old will be cleared, by an action without a record or by a      *)
(* process that has recorded it.  What a process has done is not old; what *)
(* it does not find to be done any more, others have done or are doing.    *)
Recorded == \A r \in OldRegions : Clearing(r) \/ Outstanding(r)
DoneBy(p) ==
    \A a \in actions_performed[p] : \A r \in Cleared(a) \ {"file_stamps"} :
        region[r] = "old" => Clears(p, r)
Ahead(p) ==
    \A r \in OldRegions :
        \/ Clearing(r)
        \/ \E i \in Ids \ performed : i >= at[p] /\ r \in Cleared(StartupActions[i])

Cleaning ==
    \/ lost
    \/ /\ Recorded
       /\ \A p \in Procs : DoneBy(p)
       /\ \A p \in Procs : pc[p] \in Acting => Ahead(p)
       /\ \A p \in Procs :
             pc[p] = "effects" => StartupActions[at[p]] \in actions_performed[p]

(* While somebody has left the startup, or will leave it at the record of  *)
(* another, somebody is at the actions or nothing is left to do.           *)
Blocked(p) == pc[p] = "record" /\ at[p] \in performed
Covered ==
    (/\ ~lost /\ crashes = 0
     /\ \E p \in Procs : Blocked(p) \/ opening[p] = "packages")
    => OldRegions = {} \/ \E q \in Procs : pc[q] \in Acting /\ ~Blocked(q)

(* File stamps are cleared with the client's stamp.                        *)
Stamped ==
    /\ \A p \in Procs :
          pc[p] \in Acting \cup {"clear_stamps"} \/ opening[p] = "packages"
          => clientStamp
    /\ clientStamp /\ ~lost /\ region["file_stamps"] = "old"
          => \E p \in Procs : pc[p] = "clear_stamps"

(* Who updates an existing database holds the lock.                        *)
Updates ==
    /\ \A p, q \in updlock : p = q
    /\ \A p \in Procs : pc[p] \in Updating /\ ~created[p] => p \in updlock

(* Unless updates overlapped, one process at most has files half copied or *)
(* half read, and it knows what they are.                                  *)
Working == {"copy", "load", "commit"}
WholeFiles(p) ==
    /\ pc[p] = "copy" => \A f \in RepoFiles \ copying[p] : csv[f] = fetched[p]
    /\ pc[p] \in {"load", "commit"} => \A f, g \in RepoFiles : csv[f] = csv[g]
    /\ pc[p] = "commit" => \A t \in DataTables : rows[p][t] \in {0, csv[t]}
Whole ==
    \/ overlap
    \/ /\ \A p, q \in Procs : pc[p] \in Working /\ pc[q] \in Working => p = q
       /\ \A p \in Procs : WholeFiles(p)
       /\ \A t, u \in DataTables : loaded[t] = loaded[u]

-----------------------------------------------------------------------------
(* Types.                                                                  *)
USE DatabasesAssumption

(* A step of one process.                                                  *)
Moves(p) == StartRun(p) \/ ProcStep(p) \/ Crash(p)

(* TypeOK in groups, so that a step is given what it needs.                *)
FilesTyped ==
    /\ file \in [DbNames -> {"absent", "empty", "tables"}]
    /\ dblock \in [DbNames -> SUBSET Procs]
RecordsTyped == performed \in SUBSET Ids /\ executed \in [Ids -> Nat]
ServiceTyped ==
    /\ RecordsTyped /\ hashed \in SUBSET Tables
    /\ oldShape \in BOOLEAN /\ clientStamp \in BOOLEAN
    /\ region \in [Regions -> {"old", "new"}]
PackagesTyped ==
    /\ csv \in [RepoFiles -> Version] /\ loaded \in [DataTables -> Version]
    /\ fresh \in BOOLEAN /\ updlock \in SUBSET Procs /\ remote \in 1..MaxVersion
CountsTyped ==
    /\ runs \in [Procs -> Nat] /\ failures \in Nat /\ crashes \in Nat
    /\ lost \in BOOLEAN /\ overlap \in BOOLEAN
StartupTyped ==
    /\ opening \in [Procs -> DbNames]
    /\ at \in [Procs -> 1..(Len(StartupActions) + 1)]
    /\ actions_performed \in [Procs -> SUBSET {StartupActions[i] : i \in Ids}]
    /\ effects \in [Procs -> Seq(Regions)]
RefreshTyped ==
    /\ handle \in [Procs -> {"closed", "file", "unlinked"}]
    /\ created \in [Procs -> BOOLEAN]
    /\ copying \in [Procs -> SUBSET RepoFiles]
    /\ fetched \in [Procs -> Version]
    /\ rows \in [Procs -> [DataTables -> Version]]
StagesTyped == pc \in [Procs -> Starting \cup Refreshing \cup Ended]

LEMMA TypeParts ==
    TypeOK <=> /\ FilesTyped /\ ServiceTyped /\ PackagesTyped /\ CountsTyped
               /\ StartupTyped /\ RefreshTyped /\ StagesTyped
BY DEF TypeOK, FilesTyped, RecordsTyped, ServiceTyped, PackagesTyped, CountsTyped,
   StartupTyped, RefreshTyped, StagesTyped

LEMMA TypePartsAfter ==
    /\ FilesTyped' /\ ServiceTyped' /\ PackagesTyped' /\ CountsTyped'
    /\ StartupTyped' /\ RefreshTyped' /\ StagesTyped'
    => TypeOK'
BY DEF TypeOK, FilesTyped, RecordsTyped, ServiceTyped, PackagesTyped, CountsTyped,
   StartupTyped, RefreshTyped, StagesTyped

(* A startup action is a sequence of regions.                              *)
LEMMA ActionsTyped ==
    /\ Len(StartupActions) \in Nat /\ Ids = 1..Len(StartupActions)
    /\ \A i \in Ids : StartupActions[i] \in Seq(Regions)
<1>1. Len(StartupActions) \in Nat /\ Ids = 1..Len(StartupActions)
  BY LenProperties DEF Ids
<1> QED
  BY <1>1, ElementOfSeq

(* What is left to clear after the first thing of it.                      *)
LEMMA SequenceParts ==
    ASSUME NEW s \in Seq(Regions)
    PROVE  /\ Cleared(s) \subseteq Regions
           /\ s = <<>> => Cleared(s) = {}
           /\ s # <<>> => /\ Head(s) \in Regions /\ Tail(s) \in Seq(Regions)
                          /\ Cleared(s) = {Head(s)} \cup Cleared(Tail(s))
<1>1. /\ Len(s) \in Nat /\ DOMAIN s = 1..Len(s) /\ \A i \in 1..Len(s) : s[i] \in Regions
  BY LenProperties, ElementOfSeq
<1>2. CASE s = <<>>
  BY <1>2 DEF Cleared
<1>3. CASE s # <<>>
  <2>1. /\ Head(s) = s[1] /\ Tail(s) \in Seq(Regions) /\ Len(Tail(s)) = Len(s) - 1
        /\ \A i \in 1..Len(Tail(s)) : Tail(s)[i] = s[i + 1]
    BY <1>3, HeadTailProperties
  <2>2. Len(s) # 0 /\ DOMAIN Tail(s) = 1..Len(s) - 1
    BY <1>1, <1>3, <2>1, EmptySeq, LenProperties
  <2>3. Cleared(Tail(s)) = {s[i + 1] : i \in 1..Len(s) - 1}
    BY <1>1, <2>1, <2>2 DEF Cleared
  <2>4. \A j \in 1..Len(s) : j = 1 \/ (j - 1 \in 1..Len(s) - 1 /\ j = (j - 1) + 1)
    BY <1>1
  <2>5. \A j \in 1..Len(s) - 1 : j + 1 \in 1..Len(s)
    BY <1>1
  <2>6. Cleared(s) = {s[j] : j \in 1..Len(s)}
    BY <1>1 DEF Cleared
  <2>7. 1 \in 1..Len(s)
    BY <1>1, <2>2
  <2>8. Cleared(s) = {s[1]} \cup {s[i + 1] : i \in 1..Len(s) - 1}
    <3>1. \A r \in Cleared(s) : r \in {s[1]} \cup {s[i + 1] : i \in 1..Len(s) - 1}
      BY <2>4, <2>6
    <3>2. {s[1]} \cup {s[i + 1] : i \in 1..Len(s) - 1} \subseteq Cleared(s)
      BY <2>5, <2>6, <2>7
    <3> QED
      BY <3>1, <3>2
  <2>9. Cleared(s) \subseteq Regions
    BY <1>1, <2>6
  <2> QED
    BY <1>1, <1>3, <2>1, <2>3, <2>7, <2>8, <2>9
<1> QED
  BY <1>1, <1>2, <1>3 DEF Cleared

(* The groups one by one: the actions that change a group, then the rest.  *)
LEMMA FilesStep ==
    ASSUME TypeOK, Stages, NEW p \in Procs, Moves(p)
    PROVE  FilesTyped'
<1> USE TypeParts DEF serviceVars, packageVars, procVars, countVars,
         ghostVars, localVars, updateVars
<1>1. CASE LockDatabase(p)
  BY <1>1 DEF LockDatabase, AfterOpen, OpenHandle, FilesTyped, DbNames
<1>2. CASE CreateDatabase(p)
  <2>1. /\ dblock' = [dblock EXCEPT ![opening[p]] = {}]
        /\ file' = file \/ file' = [file EXCEPT ![opening[p]] = "tables"]
    BY <1>2 DEF CreateDatabase
  <2> QED
    BY <2>1 DEF FilesTyped
<1>3. CASE InitTables(p)
  BY <1>3 DEF InitTables, Throw, FilesTyped, DbNames
<1>4. CASE DoEffect(p)
  BY <1>4 DEF DoEffect, NextAction, RemovePackages, CheckSchema, EmptyActionsTable,
     FilesTyped, DbNames
<1>5. CASE Reopen(p)
  BY <1>5 DEF Reopen, OpenHandle, FilesTyped, DbNames
<1>6. CASE Crash(p)
  BY <1>6 DEF Crash, FilesTyped, DbNames
<1>7. CASE \/ StartRun(p) \/ OpenDatabase(p) \/ CheckStamp(p) \/ ClearFileStamps(p)
           \/ CheckAction(p) \/ RecordAction(p) \/ EffectFails(p) \/ InitPackages(p)
           \/ QueryVersion(p) \/ TryUpdate(p) \/ WaitUpdate(p) \/ Download(p)
           \/ CopyFile(p) \/ DownloadDone(p) \/ UpdateFails(p) \/ Load(p)
           \/ LoadTable(p) \/ Commit(p)
  <2>1. UNCHANGED <<file, dblock>>
    BY <1>7 DEF StartRun, OpenDatabase, AfterOpen, OpenHandle, CheckStamp,
       ClearFileStamps, CheckAction, NextAction, OpenPackages, EmptyActionsTable,
       RecordAction, EffectFails, InitPackages, QueryVersion, TryUpdate, WaitUpdate,
       Download, CopyFile, DownloadDone, UpdateFails, Throw, Load, LoadTable,
       Commit, Unlock
  <2> QED
    BY <2>1 DEF FilesTyped
<1> QED
  BY <1>1, <1>2, <1>3, <1>4, <1>5, <1>6, <1>7 DEF Moves, ProcStep

LEMMA ServiceStep ==
    ASSUME TypeOK, Stages, NEW p \in Procs, Moves(p)
    PROVE  ServiceTyped'
<1> USE TypeParts DEF serviceVars, packageVars, procVars, countVars,
         ghostVars, localVars, updateVars
<1>1. CASE CreateDatabase(p)
  BY <1>1 DEF CreateDatabase, AfterOpen, Throw, ServiceTyped, RecordsTyped
<1>2. CASE InitTables(p)
  BY <1>2 DEF InitTables, Throw, ServiceTyped, RecordsTyped
<1>3. CASE CheckStamp(p)
  BY <1>3 DEF CheckStamp, ServiceTyped, RecordsTyped
<1>4. CASE ClearFileStamps(p)
  BY <1>4 DEF ClearFileStamps, ServiceTyped, RecordsTyped
<1>empty. ASSUME performed' = {}, executed' = [i \in Ids |-> 0] PROVE RecordsTyped'
  BY <1>empty DEF RecordsTyped
<1>same. ASSUME UNCHANGED <<performed, executed>>, ServiceTyped PROVE RecordsTyped'
  BY <1>same DEF ServiceTyped, RecordsTyped
<1>5. CASE CheckAction(p)
  <2>1. /\ UNCHANGED <<hashed, clientStamp, region>>
        /\ oldShape' = oldShape \/ oldShape' = FALSE
    BY <1>5 DEF CheckAction
  <2>2. RecordsTyped'
    BY <1>5, <1>empty, <1>same DEF CheckAction, EmptyActionsTable
  <2> QED
    BY <2>1, <2>2 DEF ServiceTyped
<1>6. CASE RecordAction(p)
  <2>1. /\ UNCHANGED <<hashed, clientStamp, region, oldShape>> /\ at[p] \in Ids
        /\ performed' = performed \/ performed' = performed \cup {at[p]}
        /\ executed' = executed \/ executed' = [executed EXCEPT ![at[p]] = @ + 1]
    BY <1>6 DEF RecordAction, Stages, StageFits
  <2>2. RecordsTyped'
    BY <2>1 DEF ServiceTyped, RecordsTyped
  <2> QED
    BY <2>1, <2>2 DEF ServiceTyped
<1>7. CASE DoEffect(p)
  <2>1. /\ clientStamp' = clientStamp /\ hashed' \in {hashed, Tables}
        /\ oldShape' = oldShape \/ oldShape' = FALSE
        /\ \/ region' = region
           \/ effects[p] # <<>> /\ region' = [region EXCEPT ![Head(effects[p])] = "new"]
    BY <1>7 DEF DoEffect, CheckSchema, EmptyActionsTable
  <2>2. effects[p] # <<>> => Head(effects[p]) \in Regions
    BY SequenceParts DEF StartupTyped
  <2>3. RecordsTyped'
    BY <1>7, <1>empty, <1>same DEF DoEffect, CheckSchema, EmptyActionsTable
  <2>4. region' \in [Regions -> {"old", "new"}]
    BY <2>1, <2>2 DEF ServiceTyped
  <2> QED
    BY <2>1, <2>3, <2>4 DEF ServiceTyped
<1>8. CASE \/ StartRun(p) \/ Crash(p) \/ OpenDatabase(p) \/ LockDatabase(p)
           \/ EffectFails(p) \/ InitPackages(p) \/ QueryVersion(p) \/ TryUpdate(p)
           \/ WaitUpdate(p) \/ Download(p) \/ CopyFile(p) \/ DownloadDone(p)
           \/ UpdateFails(p) \/ Load(p) \/ LoadTable(p) \/ Commit(p) \/ Reopen(p)
  <2>1. UNCHANGED <<performed, oldShape, hashed, clientStamp, executed, region>>
    BY <1>8 DEF StartRun, Crash, OpenDatabase, AfterOpen, OpenHandle, LockDatabase,
       EffectFails, OpenPackages, InitPackages, QueryVersion, TryUpdate, WaitUpdate,
       Download, CopyFile, DownloadDone, UpdateFails, Throw, Load, LoadTable,
       Commit, Unlock, Reopen
  <2> QED
    BY <2>1 DEF ServiceTyped, RecordsTyped
<1> QED
  BY <1>1, <1>2, <1>3, <1>4, <1>5, <1>6, <1>7, <1>8 DEF Moves, ProcStep

LEMMA PackagesStep ==
    ASSUME TypeOK, Stages, NEW p \in Procs, Moves(p)
    PROVE  PackagesTyped'
<1> USE TypeParts DEF serviceVars, packageVars, procVars, countVars,
         ghostVars, localVars, updateVars
<1>1. CASE Crash(p)
  BY <1>1 DEF Crash, PackagesTyped, Version, NoRows
<1>2. CASE CreateDatabase(p)
  BY <1>2 DEF CreateDatabase, AfterOpen, Throw, PackagesTyped, Version, NoRows
<1>3. CASE InitTables(p)
  BY <1>3 DEF InitTables, Throw, PackagesTyped, Version, NoRows
<1>4. CASE DoEffect(p)
  BY <1>4 DEF DoEffect, NextAction, RemovePackages, CheckSchema, EmptyActionsTable,
     PackagesTyped, Version, NoRows
<1>5. CASE TryUpdate(p)
  BY <1>5 DEF TryUpdate, PackagesTyped, Version, NoRows
<1>6. CASE Download(p)
  BY <1>6 DEF Download, PackagesTyped, Version, NoRows
<1>7. CASE CopyFile(p)
  BY <1>7 DEF CopyFile, PackagesTyped, RefreshTyped, Version, NoRows
<1>8. CASE DownloadDone(p)
  BY <1>8 DEF DownloadDone, PackagesTyped, Version, NoRows
<1>9. CASE UpdateFails(p)
  BY <1>9 DEF UpdateFails, Throw, PackagesTyped, Version, NoRows
<1>10. CASE LoadTable(p)
  BY <1>10 DEF LoadTable, Throw, PackagesTyped, Version, NoRows
<1>11. CASE Commit(p)
  BY <1>11 DEF Commit, Unlock, PackagesTyped, RefreshTyped, Version, NoRows
<1>12. CASE \/ StartRun(p) \/ OpenDatabase(p) \/ LockDatabase(p) \/ CheckStamp(p)
            \/ ClearFileStamps(p) \/ CheckAction(p) \/ RecordAction(p)
            \/ EffectFails(p) \/ InitPackages(p) \/ QueryVersion(p) \/ WaitUpdate(p)
            \/ Load(p) \/ Reopen(p)
  <2>1. UNCHANGED <<csv, loaded, fresh, updlock, remote>>
    BY <1>12 DEF StartRun, OpenDatabase, AfterOpen, OpenHandle, LockDatabase,
       CheckStamp, ClearFileStamps, CheckAction, NextAction, OpenPackages,
       EmptyActionsTable, RecordAction, EffectFails, InitPackages, QueryVersion,
       WaitUpdate, Load, Reopen
  <2> QED
    BY <2>1 DEF PackagesTyped
<1> QED
  BY <1>1, <1>2, <1>3, <1>4, <1>5, <1>6, <1>7, <1>8, <1>9, <1>10, <1>11, <1>12 DEF
     Moves, ProcStep

LEMMA CountsStep ==
    ASSUME TypeOK, Stages, NEW p \in Procs, Moves(p)
    PROVE  CountsTyped'
<1> USE TypeParts DEF serviceVars, packageVars, procVars, countVars,
         ghostVars, localVars, updateVars
<1>1. CASE StartRun(p)
  BY <1>1 DEF StartRun, CountsTyped
<1>2. CASE Crash(p)
  BY <1>2 DEF Crash, CountsTyped
<1>3. CASE EffectFails(p)
  BY <1>3 DEF EffectFails, OpenPackages, CountsTyped
<1>4. CASE Download(p)
  BY <1>4 DEF Download, CountsTyped
<1>5. CASE UpdateFails(p)
  BY <1>5 DEF UpdateFails, Throw, CountsTyped
<1>6. CASE \/ OpenDatabase(p) \/ LockDatabase(p) \/ CreateDatabase(p)
           \/ InitTables(p) \/ CheckStamp(p) \/ ClearFileStamps(p) \/ CheckAction(p)
           \/ RecordAction(p) \/ DoEffect(p) \/ InitPackages(p) \/ QueryVersion(p)
           \/ TryUpdate(p) \/ WaitUpdate(p) \/ CopyFile(p) \/ DownloadDone(p)
           \/ Load(p) \/ LoadTable(p) \/ Commit(p) \/ Reopen(p)
  <2>1. UNCHANGED <<runs, failures, crashes, lost, overlap>>
    BY <1>6 DEF OpenDatabase, AfterOpen, OpenHandle, LockDatabase, CreateDatabase,
       Throw, InitTables, CheckStamp, ClearFileStamps, CheckAction, NextAction,
       OpenPackages, EmptyActionsTable, RecordAction, DoEffect, RemovePackages,
       CheckSchema, InitPackages, QueryVersion, TryUpdate, WaitUpdate, CopyFile,
       DownloadDone, Load, LoadTable, Commit, Unlock, Reopen
  <2> QED
    BY <2>1 DEF CountsTyped
<1> QED
  BY <1>1, <1>2, <1>3, <1>4, <1>5, <1>6 DEF Moves, ProcStep

(* A step sets where its own process is in the startup, and no other's.    *)
StartupTo(p, d, i, a, e) ==
    /\ opening' = [opening EXCEPT ![p] = d] /\ at' = [at EXCEPT ![p] = i]
    /\ actions_performed' = [actions_performed EXCEPT ![p] = a]
    /\ effects' = [effects EXCEPT ![p] = e]
StartupGoes(p) ==
    \E d \in DbNames, i \in 1..Len(StartupActions) + 1,
       a \in SUBSET {StartupActions[j] : j \in Ids}, e \in Seq(Regions) :
        StartupTo(p, d, i, a, e)

LEMMA StartupStep ==
    ASSUME TypeOK, Stages, NEW p \in Procs, Moves(p)
    PROVE  StartupGoes(p)
<1> USE TypeParts, ActionsTyped, SequenceParts DEF serviceVars, packageVars,
     procVars, countVars, ghostVars, localVars, updateVars
<1>0. /\ 1 \in 1..Len(StartupActions) + 1 /\ <<>> \in Seq(Regions)
      /\ {} \in SUBSET {StartupActions[i] : i \in Ids}
      /\ \A i \in Ids : i + 1 \in 1..Len(StartupActions) + 1
  BY ActionsTyped
<1>typed. /\ opening[p] \in DbNames /\ at[p] \in 1..Len(StartupActions) + 1
          /\ actions_performed[p] \in SUBSET {StartupActions[i] : i \in Ids}
          /\ effects[p] \in Seq(Regions)
          /\ opening = [opening EXCEPT ![p] = opening[p]] /\ at = [at EXCEPT ![p] = at[p]]
          /\ actions_performed = [actions_performed EXCEPT ![p] = actions_performed[p]]
          /\ effects = [effects EXCEPT ![p] = effects[p]]
  BY DEF StartupTyped
<1>first. ASSUME at' = [at EXCEPT ![p] = 1], effects' = [effects EXCEPT ![p] = <<>>],
                 actions_performed' = [actions_performed EXCEPT ![p] = {}],
                 NEW d \in DbNames, opening' = [opening EXCEPT ![p] = d]
          PROVE  StartupGoes(p)
  <2>1. StartupTo(p, d, 1, {}, <<>>)
    BY <1>first DEF StartupTo
  <2> QED
    BY <1>0, <2>1 DEF StartupGoes
<1>next. ASSUME at[p] \in Ids, NextAction(p),
                UNCHANGED <<opening, actions_performed, effects>>
         PROVE  StartupGoes(p)
  <2>1. StartupTo(p, opening[p], at[p] + 1, actions_performed[p], effects[p])
    BY <1>typed, <1>next DEF StartupTo, NextAction
  <2> QED
    BY <1>0, <1>typed, <1>next, <2>1 DEF StartupGoes
<1>same. ASSUME UNCHANGED <<opening, at, actions_performed, effects>>
         PROVE  StartupGoes(p)
  <2>1. StartupTo(p, opening[p], at[p], actions_performed[p], effects[p])
    BY <1>typed, <1>same DEF StartupTo
  <2> QED
    BY <1>typed, <2>1 DEF StartupGoes
<1>1. CASE StartRun(p)
  BY <1>1, <1>first DEF StartRun, DbNames
<1>2. CASE CheckAction(p)
  BY <1>2, <1>first, <1>next, <1>same
  DEF CheckAction, OpenPackages, ServiceTyped,
      RecordsTyped, DbNames
<1>3. CASE RecordAction(p)
  <2>1. at[p] \in Ids
    BY <1>3 DEF RecordAction, Stages, StageFits
  <2>2. CASE /\ UNCHANGED <<opening, at>>
             /\ actions_performed' =
                   [actions_performed EXCEPT ![p] = @ \cup {StartupActions[at[p]]}]
             /\ effects' = [effects EXCEPT ![p] = StartupActions[at[p]]]
    <3>1. StartupActions[at[p]] \in Seq(Regions)
          /\ actions_performed[p] \cup {StartupActions[at[p]]}
                \in SUBSET {StartupActions[i] : i \in Ids}
      BY <1>typed, <2>1, ActionsTyped
    <3>2. StartupTo(p, opening[p], at[p],
                    actions_performed[p] \cup {StartupActions[at[p]]},
                    StartupActions[at[p]])
      BY <1>typed, <2>2 DEF StartupTo
    <3> QED
      BY <1>typed, <3>1, <3>2 DEF StartupGoes
  <2> QED
    BY <1>3, <1>first, <1>next, <2>1, <2>2 DEF RecordAction, OpenPackages, DbNames
<1>4. CASE DoEffect(p)
  <2>1. at[p] \in Ids
    BY <1>4 DEF DoEffect, Stages, StageFits
  <2>2. CASE UNCHANGED <<opening, actions_performed, effects>> /\ NextAction(p)
    BY <1>next, <2>1, <2>2
  <2>3. CASE /\ UNCHANGED <<opening, at, actions_performed>> /\ effects[p] # <<>>
             /\ effects' = [effects EXCEPT ![p] = Tail(effects[p])]
    <3>1. Tail(effects[p]) \in Seq(Regions)
      BY <1>typed, <2>3, SequenceParts
    <3>2. StartupTo(p, opening[p], at[p], actions_performed[p], Tail(effects[p]))
      BY <1>typed, <2>3 DEF StartupTo
    <3> QED
      BY <1>typed, <3>1, <3>2 DEF StartupGoes
  <2> QED
    BY <1>4, <2>2, <2>3 DEF DoEffect
<1>5. CASE EffectFails(p)
  BY <1>5, <1>first DEF EffectFails, OpenPackages, DbNames
<1>6. CASE \/ Crash(p) \/ OpenDatabase(p) \/ LockDatabase(p) \/ CreateDatabase(p)
           \/ InitTables(p) \/ CheckStamp(p) \/ ClearFileStamps(p)
           \/ InitPackages(p) \/ QueryVersion(p) \/ TryUpdate(p) \/ WaitUpdate(p)
           \/ Download(p) \/ CopyFile(p) \/ DownloadDone(p) \/ UpdateFails(p)
           \/ Load(p) \/ LoadTable(p) \/ Commit(p) \/ Reopen(p)
  <2>1. UNCHANGED <<opening, at, actions_performed, effects>>
    BY <1>6 DEF Crash, OpenDatabase, AfterOpen, OpenHandle, LockDatabase,
       CreateDatabase, Throw, InitTables, CheckStamp, ClearFileStamps, InitPackages,
       QueryVersion, TryUpdate, WaitUpdate, Download, CopyFile, DownloadDone,
       UpdateFails, Load, LoadTable, Commit, Unlock, Reopen
  <2> QED
    BY <1>same, <2>1
<1> QED
  BY <1>1, <1>2, <1>3, <1>4, <1>5, <1>6 DEF Moves, ProcStep

LEMMA RefreshStep ==
    ASSUME TypeOK, Stages, NEW p \in Procs, Moves(p)
    PROVE  RefreshTyped'
<1> USE TypeParts DEF serviceVars, packageVars, procVars, countVars,
         ghostVars, localVars, updateVars
<1>1. CASE StartRun(p)
  BY <1>1 DEF StartRun, RefreshTyped, Version, NoRows, DbNames
<1>2. CASE OpenDatabase(p)
  BY <1>2 DEF OpenDatabase, AfterOpen, OpenHandle, RefreshTyped, Version, NoRows,
     DbNames
<1>3. CASE LockDatabase(p)
  BY <1>3 DEF LockDatabase, AfterOpen, OpenHandle, RefreshTyped, Version, NoRows,
     DbNames
<1>4. CASE CreateDatabase(p)
  BY <1>4 DEF CreateDatabase, AfterOpen, Throw, RefreshTyped, Version, NoRows,
     DbNames
<1>5. CASE DoEffect(p)
  BY <1>5 DEF DoEffect, NextAction, RemovePackages, CheckSchema, EmptyActionsTable,
     RefreshTyped, Version, NoRows, DbNames
<1>6. CASE Download(p)
  BY <1>6 DEF Download, RefreshTyped, PackagesTyped, Version, NoRows, DbNames
<1>7. CASE CopyFile(p)
  BY <1>7 DEF CopyFile, RefreshTyped, Version, NoRows, DbNames
<1>8. CASE DownloadDone(p)
  BY <1>8 DEF DownloadDone, RefreshTyped, Version, NoRows, DbNames
<1>9. CASE Load(p)
  BY <1>9 DEF Load, RefreshTyped, Version, NoRows, DbNames
<1>10. CASE LoadTable(p)
  <2>1. PICK t \in DataTables : rows' = rows \/ rows' = [rows EXCEPT ![p][t] = csv[t]]
    BY <1>10 DEF LoadTable
  <2>2. csv[t] \in Version
    BY DEF PackagesTyped, RepoFiles
  <2>3. rows' \in [Procs -> [DataTables -> Version]]
    BY <2>1, <2>2 DEF RefreshTyped
  <2> QED
    BY <1>10, <2>3 DEF LoadTable, RefreshTyped
<1>11. CASE Commit(p)
  BY <1>11 DEF Commit, Unlock, RefreshTyped, Version, NoRows, DbNames
<1>12. CASE Reopen(p)
  BY <1>12 DEF Reopen, OpenHandle, RefreshTyped, Version, NoRows, DbNames
<1>13. CASE \/ Crash(p) \/ InitTables(p) \/ CheckStamp(p) \/ ClearFileStamps(p)
            \/ CheckAction(p) \/ RecordAction(p) \/ EffectFails(p)
            \/ InitPackages(p) \/ QueryVersion(p) \/ TryUpdate(p) \/ WaitUpdate(p)
            \/ UpdateFails(p)
  <2>1. UNCHANGED <<handle, created, copying, fetched, rows>>
    BY <1>13 DEF Crash, InitTables, Throw, CheckStamp, ClearFileStamps, CheckAction,
       NextAction, OpenPackages, EmptyActionsTable, RecordAction, EffectFails,
       InitPackages, QueryVersion, TryUpdate, WaitUpdate, UpdateFails
  <2> QED
    BY <2>1 DEF RefreshTyped
<1> QED
  BY <1>1, <1>2, <1>3, <1>4, <1>5, <1>6, <1>7, <1>8, <1>9, <1>10, <1>11, <1>12,
     <1>13 DEF Moves, ProcStep

-----------------------------------------------------------------------------
(* The stages a process goes through.                                      *)
From(p, S) == pc[p] \in S
To(p, S) == \E s \in S : pc' = [pc EXCEPT ![p] = s]
Opened(p) == IF opening[p] = "service" THEN "init" ELSE "packages_init"
Thrown(p) == IF opening[p] = "service" THEN "failed" ELSE "no_packages"

(* Where every action leads.                                               *)
LEMMA Paths ==
    ASSUME StagesTyped, NEW p \in Procs
    PROVE  /\ StartRun(p) => ~Running(p) /\ To(p, {"open"})
           /\ Crash(p) => Running(p) /\ To(p, {"failed"})
           /\ OpenDatabase(p) => From(p, {"open"}) /\ To(p, {"lock_db", Opened(p)})
           /\ LockDatabase(p) => From(p, {"lock_db"}) /\ To(p, {"tables", Opened(p)})
           /\ CreateDatabase(p) => From(p, {"tables"}) /\ To(p, {Opened(p), Thrown(p)})
           /\ InitTables(p) => From(p, {"init"}) /\ To(p, {"stamp", Thrown(p)})
           /\ CheckStamp(p) => From(p, {"stamp"}) /\ To(p, {"clear_stamps", "actions"})
           /\ ClearFileStamps(p) => From(p, {"clear_stamps"}) /\ To(p, {"actions"})
           /\ CheckAction(p) =>
                 From(p, {"actions"}) /\ To(p, {"open", "actions", "record"})
           /\ RecordAction(p) =>
                 From(p, {"record"}) /\ To(p, {"open", "actions", "effects"})
           /\ DoEffect(p) => From(p, {"effects"}) /\ To(p, {"effects", "actions"})
           /\ EffectFails(p) => From(p, {"effects"}) /\ To(p, {"open"})
           /\ InitPackages(p) =>
                 From(p, {"packages_init"}) /\ To(p, {"download", "reopen", "version"})
           /\ QueryVersion(p) => From(p, {"version"}) /\ To(p, {"try_update", "reopen"})
           /\ TryUpdate(p) => From(p, {"try_update"}) /\ To(p, {"download", "wait_update"})
           /\ WaitUpdate(p) => From(p, {"wait_update"}) /\ To(p, {"reopen"})
           /\ Download(p) => From(p, {"download"}) /\ To(p, {"copy"})
           /\ CopyFile(p) => From(p, {"copy"}) /\ To(p, {"copy"})
           /\ DownloadDone(p) => From(p, {"copy"}) /\ To(p, {"load"})
           /\ UpdateFails(p) => From(p, {"copy", "load"}) /\ To(p, {Thrown(p)})
           /\ Load(p) => From(p, {"load"}) /\ To(p, {"commit"})
           /\ LoadTable(p) => From(p, {"commit"}) /\ To(p, {"commit", Thrown(p)})
           /\ Commit(p) => From(p, {"commit"}) /\ To(p, {"reopen", "no_packages"})
           /\ Reopen(p) => From(p, {"reopen"}) /\ To(p, {"ready"})
<1> USE DEF From, To, Opened, Thrown, Goto, AfterOpen, Throw, NextAction,
     OpenPackages, procVars, localVars
<1>0. pc = [pc EXCEPT ![p] = pc[p]]
  BY DEF StagesTyped
<1>1. ASSUME StartRun(p) PROVE ~Running(p) /\ To(p, {"open"})
  BY <1>1, <1>0 DEF StartRun
<1>2. ASSUME Crash(p) PROVE Running(p) /\ To(p, {"failed"})
  BY <1>2, <1>0 DEF Crash
<1>3. ASSUME OpenDatabase(p) PROVE From(p, {"open"}) /\ To(p, {"lock_db", Opened(p)})
  BY <1>3, <1>0 DEF OpenDatabase
<1>4. ASSUME LockDatabase(p) PROVE From(p, {"lock_db"}) /\ To(p, {"tables", Opened(p)})
  BY <1>4, <1>0 DEF LockDatabase
<1>5. ASSUME CreateDatabase(p)
      PROVE  From(p, {"tables"}) /\ To(p, {Opened(p), Thrown(p)})
  BY <1>5, <1>0 DEF CreateDatabase
<1>6. ASSUME InitTables(p) PROVE From(p, {"init"}) /\ To(p, {"stamp", Thrown(p)})
  BY <1>6, <1>0 DEF InitTables
<1>7. ASSUME CheckStamp(p)
      PROVE  From(p, {"stamp"}) /\ To(p, {"clear_stamps", "actions"})
  BY <1>7, <1>0 DEF CheckStamp
<1>8. ASSUME ClearFileStamps(p) PROVE From(p, {"clear_stamps"}) /\ To(p, {"actions"})
  BY <1>8, <1>0 DEF ClearFileStamps
<1>9. ASSUME CheckAction(p)
      PROVE  From(p, {"actions"}) /\ To(p, {"open", "actions", "record"})
  BY <1>9, <1>0 DEF CheckAction
<1>10. ASSUME RecordAction(p)
       PROVE  From(p, {"record"}) /\ To(p, {"open", "actions", "effects"})
  BY <1>10, <1>0 DEF RecordAction
<1>11. ASSUME DoEffect(p) PROVE From(p, {"effects"}) /\ To(p, {"effects", "actions"})
  BY <1>11, <1>0 DEF DoEffect
<1>12. ASSUME EffectFails(p) PROVE From(p, {"effects"}) /\ To(p, {"open"})
  BY <1>12, <1>0 DEF EffectFails
<1>13. ASSUME InitPackages(p)
       PROVE  From(p, {"packages_init"}) /\ To(p, {"download", "reopen", "version"})
  BY <1>13, <1>0 DEF InitPackages
<1>14. ASSUME QueryVersion(p)
       PROVE  From(p, {"version"}) /\ To(p, {"try_update", "reopen"})
  BY <1>14, <1>0 DEF QueryVersion
<1>15. ASSUME TryUpdate(p)
       PROVE  From(p, {"try_update"}) /\ To(p, {"download", "wait_update"})
  BY <1>15, <1>0 DEF TryUpdate
<1>16. ASSUME WaitUpdate(p) PROVE From(p, {"wait_update"}) /\ To(p, {"reopen"})
  BY <1>16, <1>0 DEF WaitUpdate
<1>17. ASSUME Download(p) PROVE From(p, {"download"}) /\ To(p, {"copy"})
  BY <1>17, <1>0 DEF Download
<1>18. ASSUME CopyFile(p) PROVE From(p, {"copy"}) /\ To(p, {"copy"})
  BY <1>18, <1>0 DEF CopyFile
<1>19. ASSUME DownloadDone(p) PROVE From(p, {"copy"}) /\ To(p, {"load"})
  BY <1>19, <1>0 DEF DownloadDone
<1>20. ASSUME UpdateFails(p) PROVE From(p, {"copy", "load"}) /\ To(p, {Thrown(p)})
  BY <1>20, <1>0 DEF UpdateFails
<1>21. ASSUME Load(p) PROVE From(p, {"load"}) /\ To(p, {"commit"})
  BY <1>21, <1>0 DEF Load
<1>22. ASSUME LoadTable(p) PROVE From(p, {"commit"}) /\ To(p, {"commit", Thrown(p)})
  BY <1>22, <1>0 DEF LoadTable
<1>23. ASSUME Commit(p) PROVE From(p, {"commit"}) /\ To(p, {"reopen", "no_packages"})
  BY <1>23, <1>0 DEF Commit
<1>24. ASSUME Reopen(p) PROVE From(p, {"reopen"}) /\ To(p, {"ready"})
  BY <1>24, <1>0 DEF Reopen
<1> QED
  BY <1>1, <1>2, <1>3, <1>4, <1>5, <1>6, <1>7, <1>8, <1>9, <1>10, <1>11, <1>12,
     <1>13, <1>14, <1>15, <1>16, <1>17, <1>18, <1>19, <1>20, <1>21, <1>22, <1>23,
     <1>24

(* A step changes nothing of the other processes but their open handles.   *)
LEMMA OthersStay ==
    ASSUME TypeOK, Stages, NEW p \in Procs, Moves(p)
    PROVE  \A q \in Procs : q # p =>
               /\ pc'[q] = pc[q] /\ opening'[q] = opening[q] /\ at'[q] = at[q]
               /\ actions_performed'[q] = actions_performed[q] /\ effects'[q] = effects[q]
               /\ created'[q] = created[q] /\ copying'[q] = copying[q]
               /\ fetched'[q] = fetched[q] /\ rows'[q] = rows[q]
<1>1. StartupTyped /\ RefreshTyped /\ StagesTyped
  BY TypeParts
<1>2. \E s : pc' = [pc EXCEPT ![p] = s]
  BY <1>1, Paths, ZenonT(60) DEF Moves, ProcStep, To
<1>3. ASSUME NEW q \in Procs, q # p
      PROVE  /\ opening'[q] = opening[q] /\ at'[q] = at[q]
             /\ actions_performed'[q] = actions_performed[q] /\ effects'[q] = effects[q]
  BY <1>1, <1>3, StartupStep DEF StartupGoes, StartupTo, StartupTyped
<1>4. /\ created' = created \/ \E v : created' = [created EXCEPT ![p] = v]
      /\ copying' = copying \/ \E v : copying' = [copying EXCEPT ![p] = v]
      /\ fetched' = fetched \/ \E v : fetched' = [fetched EXCEPT ![p] = v]
  BY DEF Moves, StartRun, Crash, ProcStep, OpenDatabase, LockDatabase,
     CreateDatabase, InitTables, CheckStamp, ClearFileStamps, CheckAction,
     RecordAction, DoEffect, EffectFails, InitPackages, QueryVersion, TryUpdate,
     WaitUpdate, Download, CopyFile, DownloadDone, UpdateFails, Load, LoadTable,
     Commit, Reopen, procVars, localVars, updateVars
<1>5. \/ rows' = rows
      \/ \E v : rows' = [rows EXCEPT ![p] = v]
      \/ \E t, v : rows' = [rows EXCEPT ![p][t] = v]
  BY DEF Moves, StartRun, Crash, ProcStep, OpenDatabase, LockDatabase,
     CreateDatabase, InitTables, CheckStamp, ClearFileStamps, CheckAction,
     RecordAction, DoEffect, EffectFails, InitPackages, QueryVersion, TryUpdate,
     WaitUpdate, Download, CopyFile, DownloadDone, UpdateFails, Load, LoadTable,
     Commit, Reopen, procVars, localVars, updateVars
<1> QED
  BY <1>1, <1>2, <1>3, <1>4, <1>5 DEF StagesTyped, RefreshTyped

Base == TypeOK /\ Stages

(* A process that is at an action is in the service database, and a new    *)
(* start begins at the first action.                                       *)
LEMMA StagesStep ==
    ASSUME Base, NEW p \in Procs, Moves(p)
    PROVE  StagesTyped' /\ Stages'
<1>0. StagesTyped /\ StartupTyped /\ ServiceTyped /\ TypeOK /\ Stages
  BY TypeParts DEF Base
<1>1. /\ pc[p] \in Starting \cup Refreshing \cup Ended /\ opening[p] \in DbNames
      /\ StageFits(pc[p], opening[p], at[p], actions_performed[p])
  BY <1>0 DEF StagesTyped, StartupTyped, Stages
<1>2. \E s \in Starting \cup Refreshing \cup Ended : pc' = [pc EXCEPT ![p] = s]
  BY <1>0, Paths DEF Moves, ProcStep, To, Opened, Thrown, Starting, Refreshing,
     Updating, Ended
<1>3. StagesTyped'
  BY <1>0, <1>2 DEF StagesTyped
<1>to. ASSUME NEW S, To(p, S) PROVE pc'[p] \in S
  BY <1>0, <1>to DEF To, StagesTyped
<1> DEFINE Fits == StageFits(pc'[p], opening'[p], at'[p], actions_performed'[p])
<1> USE DEF StageFits, Acting, Starting, Refreshing, Updating, Ended, From
<1>first. ASSUME pc'[p] = "open", at' = [at EXCEPT ![p] = 1],
                 actions_performed' = [actions_performed EXCEPT ![p] = {}]
          PROVE  Fits
  BY <1>0, <1>first DEF StartupTyped
<1>next. ASSUME pc'[p] = "actions", pc[p] \in Acting, UNCHANGED opening
         PROVE  Fits
  BY <1>1, <1>next
<1>4. ASSUME StartRun(p) PROVE Fits
  BY <1>0, <1>4, <1>to, <1>first, Paths DEF StartRun
<1>5. ASSUME CheckAction(p) PROVE Fits
  <2>1. CASE OpenPackages(p)
    BY <1>0, <2>1, <1>first DEF OpenPackages, Goto, StagesTyped
  <2>2. CASE NextAction(p) /\ UNCHANGED opening
    BY <1>0, <1>5, <2>2, <1>next DEF CheckAction, NextAction, Goto, StagesTyped
  <2>3. CASE Goto(p, "record") /\ at[p] \in Ids /\ UNCHANGED <<opening, at>>
    BY <1>0, <1>1, <1>5, <2>3 DEF CheckAction, Goto, StagesTyped
  <2> QED
    BY <1>5, <2>1, <2>2, <2>3 DEF CheckAction
<1>6. ASSUME RecordAction(p) PROVE Fits
  <2>1. CASE OpenPackages(p)
    BY <1>0, <2>1, <1>first DEF OpenPackages, Goto, StagesTyped
  <2>2. CASE NextAction(p) /\ UNCHANGED opening
    BY <1>0, <1>6, <2>2, <1>next DEF RecordAction, NextAction, Goto, StagesTyped
  <2>3. CASE Goto(p, "effects") /\ UNCHANGED <<opening, at>>
    BY <1>0, <1>1, <1>6, <2>3 DEF RecordAction, Goto, StagesTyped
  <2> QED
    BY <1>6, <2>1, <2>2, <2>3 DEF RecordAction
<1>7. ASSUME DoEffect(p) PROVE Fits
  <2>1. CASE NextAction(p)
    BY <1>0, <1>7, <2>1, <1>next DEF DoEffect, NextAction, Goto, StagesTyped
  <2>2. CASE UNCHANGED <<pc, opening, at, actions_performed>>
    BY <1>1, <2>2
  <2> QED
    BY <1>7, <2>1, <2>2 DEF DoEffect
<1>8. ASSUME EffectFails(p) PROVE Fits
  BY <1>0, <1>8, <1>to, <1>first, Paths DEF EffectFails, OpenPackages
<1>9. ASSUME \/ Crash(p) \/ OpenDatabase(p) \/ LockDatabase(p) \/ CreateDatabase(p)
           \/ InitTables(p) \/ CheckStamp(p) \/ ClearFileStamps(p) \/ InitPackages(p)
           \/ QueryVersion(p) \/ TryUpdate(p) \/ WaitUpdate(p) \/ Download(p)
           \/ CopyFile(p) \/ DownloadDone(p) \/ UpdateFails(p) \/ Load(p)
           \/ LoadTable(p) \/ Commit(p) \/ Reopen(p)
      PROVE  Fits
  <2>1. UNCHANGED <<opening, at, actions_performed>>
    BY <1>9 DEF Crash, OpenDatabase, LockDatabase, CreateDatabase, InitTables,
       CheckStamp, ClearFileStamps, InitPackages, QueryVersion, TryUpdate,
       WaitUpdate, Download, CopyFile, DownloadDone, UpdateFails, Load, LoadTable,
       Commit, Reopen, localVars
  <2> QED
    BY <1>0, <1>1, <1>9, <1>to, <2>1, Paths DEF Opened, Thrown, DbNames
<1>10. Fits
  BY <1>4, <1>5, <1>6, <1>7, <1>8, <1>9 DEF Moves, ProcStep
<1> QED
  BY <1>0, <1>3, <1>10, OthersStay DEF Stages

(* The time, the server and a stuttering step change nothing else.         *)
Elsewhere == Tick \/ PublishVersion \/ UNCHANGED vars
LEMMA ElsewhereStays ==
    ASSUME Elsewhere
    PROVE  UNCHANGED <<file, dblock, performed, oldShape, hashed, clientStamp, executed,
                       region, csv, loaded, updlock, pc, opening, at, actions_performed,
                       effects, handle, created, copying, fetched, rows, runs, failures,
                       crashes, lost, overlap>>
BY DEF Elsewhere, Tick, PublishVersion, vars, serviceVars, packageVars, procVars,
   countVars, ghostVars

LEMMA NextMoves == [Next]_vars => Elsewhere \/ \E p \in Procs : Moves(p)
BY DEF Next, Elsewhere, Moves

LEMMA BaseInit == Init => Base
<1>1. SUFFICES ASSUME Init PROVE Base
  OBVIOUS
<1> USE DEF Init, DbNames
<1>2. /\ 0 \in Version /\ 1 \in Version /\ 1 \in 1..MaxVersion
      /\ NoRows \in [DataTables -> Version]
  BY DEF Version, NoRows
<1>3. FilesTyped
  BY <1>1 DEF FilesTyped
<1>4. ServiceTyped
  <2>1. Len(StartupActions) \in Nat /\ \A k \in 0..Len(StartupActions) : 1..k \subseteq Ids
    BY ActionsTyped
  <2>2. performed \in SUBSET Ids /\ executed \in [Ids -> Nat]
    BY <1>1, <2>1
  <2>3. hashed \in SUBSET Tables /\ region \in [Regions -> {"old", "new"}]
    BY <1>1
  <2>4. oldShape \in BOOLEAN /\ clientStamp \in BOOLEAN
    BY <1>1, Zenon
  <2> QED
    BY <2>2, <2>3, <2>4 DEF ServiceTyped, RecordsTyped
<1>5. PackagesTyped
  BY <1>1, <1>2 DEF PackagesTyped
<1>6. CountsTyped
  BY <1>1 DEF CountsTyped
<1>7. StartupTyped
  BY <1>1, ActionsTyped DEF StartupTyped
<1>8. RefreshTyped
  BY <1>1, <1>2 DEF RefreshTyped
<1>9. StagesTyped /\ Stages
  BY <1>1 DEF StagesTyped, Stages, StageFits, Starting, Refreshing, Updating, Ended,
     Acting
<1> QED
  BY <1>3, <1>4, <1>5, <1>6, <1>7, <1>8, <1>9, TypeParts DEF Base

LEMMA BaseStep == Base /\ [Next]_vars => Base'
<1>0. SUFFICES ASSUME Base, [Next]_vars PROVE Base'
  OBVIOUS
<1>1. ASSUME NEW p \in Procs, Moves(p) PROVE Base'
  <2>0. TypeOK /\ Stages /\ StartupTyped
    BY <1>0, TypeParts DEF Base
  <2>1. StartupTyped'
    <3>1. PICK d \in DbNames, i \in 1..Len(StartupActions) + 1,
               a \in SUBSET {StartupActions[j] : j \in Ids}, e \in Seq(Regions) :
                  StartupTo(p, d, i, a, e)
      BY <1>1, <2>0, StartupStep DEF StartupGoes
    <3>2. opening' \in [Procs -> DbNames] /\ at' \in [Procs -> 1..Len(StartupActions) + 1]
      BY <2>0, <3>1 DEF StartupTo, StartupTyped
    <3>3. /\ actions_performed' \in [Procs -> SUBSET {StartupActions[j] : j \in Ids}]
          /\ effects' \in [Procs -> Seq(Regions)]
      BY <2>0, <3>1 DEF StartupTo, StartupTyped
    <3> QED
      BY <3>2, <3>3 DEF StartupTyped
  <2>2. FilesTyped' /\ ServiceTyped' /\ PackagesTyped' /\ CountsTyped' /\ RefreshTyped'
    BY <1>1, <2>0, FilesStep, ServiceStep, PackagesStep, CountsStep, RefreshStep
  <2>3. StagesTyped' /\ Stages'
    BY <1>0, <1>1, StagesStep
  <2> QED
    BY <2>1, <2>2, <2>3, TypePartsAfter DEF Base
<1>2. ASSUME Elsewhere PROVE Base'
  <2>1. (fresh' = fresh \/ fresh' = FALSE)
        /\ (remote' = remote \/ (remote < MaxVersion /\ remote' = remote + 1))
    BY <1>2 DEF Elsewhere, Tick, PublishVersion, vars, packageVars
  <2>2. PackagesTyped'
    <3>1. UNCHANGED <<csv, loaded, updlock>> /\ PackagesTyped
      BY <1>0, <1>2, ElsewhereStays, TypeParts DEF Base
    <3>2. remote' \in 1..MaxVersion
      BY <2>1, <3>1 DEF PackagesTyped
    <3>3. fresh' \in BOOLEAN
      BY <2>1, <3>1, Zenon DEF PackagesTyped
    <3> QED
      BY <3>1, <3>2, <3>3 DEF PackagesTyped
  <2>3. UNCHANGED <<file, dblock, performed, oldShape, hashed, clientStamp, executed,
                    region, pc, opening, at, actions_performed, effects, handle, created,
                    copying, fetched, rows, runs, failures, crashes, lost, overlap>>
    BY <1>2, ElsewhereStays
  <2>4. /\ FilesTyped' /\ ServiceTyped' /\ CountsTyped' /\ StartupTyped' /\ RefreshTyped'
        /\ StagesTyped' /\ Stages'
    BY <1>0, <2>3, TypeParts DEF Base, FilesTyped, ServiceTyped, RecordsTyped,
       CountsTyped, StartupTyped, RefreshTyped, StagesTyped, Stages
  <2> QED
    BY <2>2, <2>4, TypePartsAfter DEF Base
<1> QED
  BY <1>0, <1>1, <1>2, NextMoves

(* Every variable keeps its type, a process at an action among them.       *)
THEOREM TypeCorrect == Spec => []TypeOK
<1>1. Base => TypeOK
  BY DEF Base
<1> QED
  BY <1>1, BaseInit, BaseStep, PTL DEF Spec

-----------------------------------------------------------------------------
(* Startup actions are done once while their record exists.                *)

(* How the table of records changes: it is emptied, or an action without a *)
(* record gets one by the process at it.                                   *)
Recording(p) ==
    /\ pc[p] = "record" /\ at[p] \in Ids \ performed
    /\ performed' = performed \cup {at[p]}
    /\ executed' = executed \/ executed' = [executed EXCEPT ![at[p]] = @ + 1]

LEMMA RecordsStep ==
    ASSUME Base, NEW p \in Procs, Moves(p)
    PROVE  UNCHANGED <<performed, executed>> \/ EmptyActionsTable \/ Recording(p)
<1> USE DEF serviceVars, packageVars, procVars, countVars, ghostVars, localVars,
     updateVars
<1>1. CASE RecordAction(p)
  <2>1. pc[p] = "record" /\ at[p] \in Ids
    BY <1>1 DEF RecordAction, Base, Stages, StageFits
  <2> QED
    BY <1>1, <2>1 DEF RecordAction, Recording
<1>2. CASE CheckAction(p) \/ DoEffect(p)
  BY <1>2 DEF CheckAction, DoEffect, CheckSchema
<1>3. CASE \/ StartRun(p) \/ Crash(p) \/ OpenDatabase(p) \/ LockDatabase(p)
           \/ CreateDatabase(p) \/ InitTables(p) \/ CheckStamp(p) \/ ClearFileStamps(p)
           \/ EffectFails(p) \/ InitPackages(p) \/ QueryVersion(p) \/ TryUpdate(p)
           \/ WaitUpdate(p) \/ Download(p) \/ CopyFile(p) \/ DownloadDone(p)
           \/ UpdateFails(p) \/ Load(p) \/ LoadTable(p) \/ Commit(p) \/ Reopen(p)
  BY <1>3 DEF StartRun, Crash, OpenDatabase, LockDatabase, CreateDatabase,
     InitTables, CheckStamp, ClearFileStamps, EffectFails, InitPackages,
     QueryVersion, TryUpdate, WaitUpdate, Download, CopyFile, DownloadDone,
     UpdateFails, Load, LoadTable, Commit, Reopen
<1> QED
  BY <1>1, <1>2, <1>3 DEF Moves, ProcStep

LEMMA CountedStep == Base /\ Counted /\ [Next]_vars => Counted'
<1>1. SUFFICES ASSUME Base, Counted, [Next]_vars PROVE Counted'
  OBVIOUS
<1>2. performed \in SUBSET Ids /\ executed \in [Ids -> Nat]
  BY <1>1, TypeParts DEF Base, ServiceTyped, RecordsTyped
<1>3. CASE UNCHANGED <<performed, executed>>
  BY <1>1, <1>3 DEF Counted
<1>4. CASE EmptyActionsTable
  BY <1>4 DEF EmptyActionsTable, Counted
<1>5. ASSUME NEW p \in Procs, Recording(p) PROVE Counted'
  <2>1. executed[at[p]] = 0 /\ at[p] \in Ids
    BY <1>1, <1>5 DEF Counted, Recording
  <2>2. ASSUME NEW i \in Ids
        PROVE  executed'[i] <= 1 /\ (i \notin performed' => executed'[i] = 0)
    BY <1>1, <1>2, <1>5, <2>1, <2>2 DEF Counted, Recording
  <2> QED
    BY <2>2 DEF Counted
<1> QED
  BY <1>1, <1>3, <1>4, <1>5, NextMoves, ElsewhereStays, RecordsStep

-----------------------------------------------------------------------------
(* Updates exclude each other as far as they take the lock.                *)

(* Only a process that takes the free lock becomes its holder.             *)
LEMMA LockStep ==
    ASSUME Base, NEW p \in Procs, Moves(p)
    PROVE  \/ updlock' = updlock
           \/ updlock' = updlock \ {p}
           \/ updlock = {} /\ updlock' = {p}
BY DEF Moves, StartRun, Crash, ProcStep, OpenDatabase, LockDatabase, CreateDatabase,
   InitTables, CheckStamp, ClearFileStamps, CheckAction, RecordAction, DoEffect,
   EffectFails, InitPackages, QueryVersion, TryUpdate, WaitUpdate, Download,
   CopyFile, DownloadDone, UpdateFails, Load, LoadTable, Commit, Reopen, Throw,
   Unlock, serviceVars, packageVars

LEMMA UpdatesStep == Base /\ Updates /\ [Next]_vars => Updates'
<1>1. SUFFICES ASSUME Base, Updates, [Next]_vars PROVE Updates'
  OBVIOUS
<1>2. CASE Elsewhere
  BY <1>1, <1>2, ElsewhereStays DEF Updates
<1>3. ASSUME NEW p \in Procs, Moves(p) PROVE Updates'
  <2>1. StagesTyped /\ RefreshTyped /\ TypeOK /\ Stages
    BY <1>1, TypeParts DEF Base
  <2>to. ASSUME NEW S, To(p, S) PROVE pc'[p] \in S
    BY <2>1, <2>to DEF To, StagesTyped
  <2>2. \A q \in Procs : q # p => pc'[q] = pc[q] /\ created'[q] = created[q]
    BY <1>3, <2>1, OthersStay
  <2>3. \A a, b \in updlock' : a = b
    BY <1>1, <1>3, LockStep DEF Updates
  <2>4. ASSUME NEW q \in Procs, pc'[q] \in Updating, ~created'[q], q # p
        PROVE  q \in updlock'
    <3>1. q \in updlock
      BY <1>1, <2>2, <2>4 DEF Updates
    <3> QED
      BY <1>3, <1>1, <2>4, <3>1, LockStep
  <2>5. ASSUME pc'[p] \in Updating, ~created'[p] PROVE p \in updlock'
    <3>1. \/ TryUpdate(p) \/ InitPackages(p)
          \/ Download(p) \/ CopyFile(p) \/ DownloadDone(p) \/ Load(p) \/ LoadTable(p)
      BY <1>3, <2>1, <2>5, <2>to, Paths DEF Moves, ProcStep, Updating, Opened, Thrown
    <3>2. CASE TryUpdate(p)
      BY <2>1, <2>5, <3>2 DEF TryUpdate, Goto, StagesTyped, Updating
    <3>3. CASE InitPackages(p)
      BY <2>1, <2>5, <3>3 DEF InitPackages, Goto, StagesTyped, Updating, localVars
    <3>4. CASE Download(p) \/ CopyFile(p) \/ DownloadDone(p) \/ Load(p) \/ LoadTable(p)
      <4>1. pc[p] \in Updating /\ UNCHANGED created
        BY <3>4 DEF Download, CopyFile, DownloadDone, Load, LoadTable, Updating
      <4>2. p \in updlock
        BY <1>1, <2>5, <4>1 DEF Updates
      <4>3. CASE UNCHANGED updlock
        BY <4>2, <4>3
      <4>4. CASE LoadTable(p) /\ Throw(p)
        BY <2>1, <2>5, <4>4 DEF Throw, Goto, StagesTyped, Updating
      <4> QED
        BY <3>4, <4>3, <4>4 DEF Download, CopyFile, DownloadDone, Load, LoadTable,
           packageVars
    <3> QED
      BY <3>1, <3>2, <3>3, <3>4
  <2> QED
    BY <2>3, <2>4, <2>5 DEF Updates
<1> QED
  BY <1>1, <1>2, <1>3, NextMoves

LEMMA UpdatesExclude == Updates => UpdatesExclusive
BY DEF Updates, UpdatesExclusive

-----------------------------------------------------------------------------
(* The tables of the packages database fit together.                       *)

(* The work with the csv files, and what every other step leaves of it.    *)
Work(p) == Download(p) \/ CopyFile(p) \/ DownloadDone(p) \/ Load(p) \/ LoadTable(p)
LEMMA WorkStep ==
    ASSUME Base, NEW p \in Procs, Moves(p), ~Work(p)
    PROVE  /\ pc'[p] \notin Working /\ UNCHANGED <<csv, overlap>>
           /\ loaded' = loaded \/ loaded' = NoRows \/ (Commit(p) /\ loaded' = rows[p])
<1>1. StagesTyped /\ \A S : To(p, S) => pc'[p] \in S
  BY TypeParts DEF Base, To, StagesTyped
<1>2. pc'[p] \notin Working
  BY <1>1, Paths DEF Moves, ProcStep, Work, Working, Opened, Thrown
<1> USE DEF serviceVars, packageVars, procVars, countVars, ghostVars, localVars,
     updateVars
<1>3. UNCHANGED <<csv, overlap>>
  BY DEF Work, Moves, ProcStep, StartRun, Crash, OpenDatabase, LockDatabase,
     CreateDatabase, InitTables, CheckStamp, ClearFileStamps, CheckAction,
     RecordAction, DoEffect, EffectFails, InitPackages, QueryVersion, TryUpdate,
     WaitUpdate, UpdateFails, Commit, Reopen
<1>4. loaded' = loaded \/ loaded' = NoRows \/ (Commit(p) /\ loaded' = rows[p])
  BY DEF Work, Moves, ProcStep, StartRun, Crash, OpenDatabase, LockDatabase,
     CreateDatabase, InitTables, CheckStamp, ClearFileStamps, CheckAction,
     RecordAction, DoEffect, RemovePackages, EffectFails, InitPackages,
     QueryVersion, TryUpdate, WaitUpdate, UpdateFails, Commit, Reopen
<1> QED
  BY <1>2, <1>3, <1>4

Alone == \A p, q \in Procs : pc[p] \in Working /\ pc[q] \in Working => p = q
Uniform == \A t, u \in DataTables : loaded[t] = loaded[u]

LEMMA WholeStep == Base /\ Whole /\ [Next]_vars => Whole'
<1>1. SUFFICES ASSUME Base, Whole, [Next]_vars, ~overlap' PROVE Whole'
  BY DEF Whole
<1>2. CASE Elsewhere
  BY <1>1, <1>2, ElsewhereStays DEF Whole, WholeFiles
<1>3. ASSUME NEW p \in Procs, Moves(p) PROVE Whole'
  <2>1. TypeOK /\ Stages /\ PackagesTyped /\ RefreshTyped /\ StagesTyped
    BY <1>1, TypeParts DEF Base
  <2>2. /\ \A q \in Procs : q # p => /\ pc'[q] = pc[q] /\ copying'[q] = copying[q]
                                     /\ fetched'[q] = fetched[q] /\ rows'[q] = rows[q]
    BY <1>3, <2>1, OthersStay
  <2>3. ~overlap
    BY <1>1, <1>3, WorkStep DEF Work, Download, CopyFile, DownloadDone, Load,
       LoadTable, ghostVars
  <2>4. Alone /\ Uniform /\ \A q \in Procs : WholeFiles(q)
    BY <1>1, <2>3 DEF Whole, Alone, Uniform
  <2>to. ASSUME NEW S, To(p, S) PROVE pc'[p] \in S
    BY <2>1, <2>to DEF To, StagesTyped
  <2>5. \A q \in Procs : pc[p] \in Working \/ Download(p)
                         => q = p \/ pc[q] \notin Working
    <3>1. ASSUME Download(p), NEW q \in Procs, q # p PROVE pc[q] \notin Working
      BY <1>1, <3>1 DEF Download, Updating, Working
    <3> QED
      BY <2>4, <3>1 DEF Alone
  <2>6. Alone'
    <3>1. pc'[p] \in Working => pc[p] \in Working \/ Download(p)
      BY <1>1, <1>3, <2>1, WorkStep, Paths DEF Work, From, Working
    <3>2. \A q, r \in Procs : pc'[q] \in Working /\ pc'[r] \in Working => q = r
      BY <2>2, <2>4, <2>5, <3>1 DEF Alone
    <3> QED
      BY <3>2 DEF Alone
  <2>7. Uniform'
    <3>1. CASE loaded' = loaded
      BY <2>4, <3>1 DEF Uniform
    <3>2. CASE loaded' = NoRows
      BY <3>2 DEF Uniform, NoRows
    <3>3. CASE Commit(p) /\ loaded' = rows[p]
      <4>1. pc[p] = "commit" /\ \A t \in DataTables : rows[p][t] # 0
        BY <3>3 DEF Commit
      <4>2. \A t, u \in DataTables : rows[p][t] = csv[t] /\ csv[t] = csv[u]
        BY <2>4, <4>1 DEF WholeFiles, RepoFiles
      <4>3. \A t, u \in DataTables : loaded'[t] = loaded'[u]
        BY <3>3, <4>2
      <4> QED
        BY <4>3 DEF Uniform
    <3> QED
      BY <1>1, <1>3, <3>1, <3>2, <3>3, WorkStep DEF Work, Download, CopyFile,
         DownloadDone, Load, LoadTable, packageVars
  <2>8. ASSUME NEW q \in Procs, q # p PROVE WholeFiles(q)'
    <3>1. csv' = csv \/ pc[q] \notin Working
      BY <1>1, <1>3, <2>5, <2>8, WorkStep
      DEF Work, Download, CopyFile, DownloadDone, Load, LoadTable, packageVars,
         Working
    <3> QED
      BY <2>2, <2>4, <2>8, <3>1 DEF WholeFiles, Working
  <2>9. WholeFiles(p)'
    <3>1. CASE ~Work(p)
      BY <1>1, <1>3, <3>1, WorkStep DEF WholeFiles, Working
    <3>2. CASE Download(p)
      <4>1. pc'[p] = "copy" /\ copying'[p] = RepoFiles
        BY <2>1, <2>to, <3>2, Paths DEF Download, RefreshTyped
      <4> QED
        BY <4>1 DEF WholeFiles
    <3>3. CASE CopyFile(p)
      <4>1. pc[p] = "copy" /\ pc'[p] = "copy" /\ fetched' = fetched
        BY <3>3 DEF CopyFile
      <4>2. PICK f \in copying[p] : /\ csv' = [csv EXCEPT ![f] = fetched[p]]
                                    /\ copying' = [copying EXCEPT ![p] = @ \ {f}]
        BY <3>3 DEF CopyFile
      <4>3. copying'[p] = copying[p] \ {f} /\ csv \in [RepoFiles -> Version]
        BY <2>1, <4>2 DEF RefreshTyped, PackagesTyped
      <4>4. \A g \in RepoFiles \ copying[p] : csv[g] = fetched[p]
        BY <2>4, <4>1 DEF WholeFiles
      <4>5. \A g \in RepoFiles \ copying'[p] : csv'[g] = fetched'[p]
        BY <4>1, <4>2, <4>3, <4>4
      <4> QED
        BY <4>1, <4>5 DEF WholeFiles
    <3>4. CASE DownloadDone(p)
      <4>1. pc[p] = "copy" /\ pc'[p] = "load" /\ copying[p] = {} /\ csv' = csv
        BY <2>1, <2>to, <3>4, Paths DEF DownloadDone
      <4>2. \A f, g \in RepoFiles : csv'[f] = csv'[g]
        BY <2>4, <4>1 DEF WholeFiles
      <4> QED
        BY <4>1, <4>2 DEF WholeFiles
    <3>5. CASE Load(p)
      <4>1. pc[p] = "load" /\ pc'[p] = "commit" /\ csv' = csv /\ rows'[p] = NoRows
        BY <2>1, <2>to, <3>5, Paths DEF Load, RefreshTyped, packageVars
      <4>2. \A t \in DataTables : rows'[p][t] = 0
        BY <4>1 DEF NoRows
      <4>3. \A f, g \in RepoFiles : csv'[f] = csv'[g]
        BY <2>4, <4>1 DEF WholeFiles
      <4> QED
        BY <4>1, <4>2, <4>3 DEF WholeFiles
    <3>6. CASE LoadTable(p)
      <4>1. pc[p] = "commit" /\ csv' = csv /\ pc'[p] # "copy" /\ pc'[p] # "load"
        BY <2>1, <2>to, <3>6, Paths DEF LoadTable, Thrown
      <4>2. PICK t \in DataTables : rows' = rows \/ rows' = [rows EXCEPT ![p][t] = csv[t]]
        BY <3>6 DEF LoadTable
      <4>3. \A f, g \in RepoFiles : csv'[f] = csv'[g]
        BY <2>4, <4>1 DEF WholeFiles
      <4>4. \A u \in DataTables : rows[p][u] \in {0, csv[u]}
        BY <2>4, <4>1 DEF WholeFiles
      <4>5. \A u \in DataTables : rows'[p][u] \in {0, csv'[u]}
        BY <2>1, <4>1, <4>2, <4>4 DEF RefreshTyped
      <4> QED
        BY <4>1, <4>3, <4>5 DEF WholeFiles
    <3> QED
      BY <3>1, <3>2, <3>3, <3>4, <3>5, <3>6 DEF Work
  <2> QED
    BY <2>6, <2>7, <2>8, <2>9 DEF Alone, Uniform, Whole
<1> QED
  BY <1>1, <1>2, <1>3, NextMoves

(* Updates that take the lock exclude each other, and no update leaves     *)
(* tables of two versions unless updates overlapped (database.cpp:905).    *)
THEOREM PackagesCorrect == Spec => []PackagesRight
<1> DEFINE Inv == Base /\ Updates /\ Whole
<1>1. Init => Updates /\ Whole
  <2>1. ASSUME Init PROVE Updates /\ Whole
    BY <2>1 DEF Init, Updates, Whole, WholeFiles, Updating, Working, NoRows
  <2> QED
    BY <2>1
<1>2. Inv /\ [Next]_vars => Inv'
  BY BaseStep, UpdatesStep, WholeStep
<1>3. Inv => PackagesRight
  BY UpdatesExclude DEF PackagesRight, PackagesConsistent, Whole
<1> QED
  BY <1>1, <1>2, <1>3, BaseInit, PTL DEF Spec

-----------------------------------------------------------------------------
(* What an older client left is cleared.                                   *)

(* The actions that can be taken at a startup action, and after it.        *)
LEMMA AtActions ==
    ASSUME Base, NEW p \in Procs, Moves(p)
    PROVE  /\ pc[p] = "actions" => CheckAction(p) \/ Crash(p)
           /\ pc[p] = "record" => RecordAction(p) \/ Crash(p)
           /\ pc[p] = "effects" => DoEffect(p) \/ EffectFails(p) \/ Crash(p)
           /\ pc[p] = "clear_stamps" => ClearFileStamps(p) \/ Crash(p)
           /\ pc[p] = "stamp" => CheckStamp(p) \/ Crash(p)
BY TypeParts, Paths DEF Base, Moves, ProcStep, From, Running, Ended

(* What is lost stays lost, and a process that was killed is counted.      *)
LEMMA LostStays ==
    ASSUME NEW p \in Procs, Moves(p), crashes \in Nat
    PROVE  /\ ~lost' => ~lost
           /\ crashes' = 0 => crashes = 0 /\ ~Crash(p)
<1>1. ~Crash(p) => (lost' = lost \/ lost' = TRUE) /\ crashes' = crashes
  BY DEF Moves, StartRun, ProcStep, OpenDatabase, LockDatabase, CreateDatabase,
     InitTables, CheckStamp, ClearFileStamps, CheckAction, RecordAction, DoEffect,
     EffectFails, InitPackages, QueryVersion, TryUpdate, WaitUpdate, Download,
     CopyFile, DownloadDone, UpdateFails, Load, LoadTable, Commit, Reopen,
     ghostVars, countVars
<1>2. Crash(p) => (lost => lost') /\ crashes' = crashes + 1
  BY DEF Crash
<1>3. ~lost' => ~lost
  BY <1>1, <1>2
<1>4. crashes' = 0 => crashes = 0 /\ ~Crash(p)
  BY <1>1, <1>2
<1> QED
  BY <1>3, <1>4

(* What is old stays what it is or becomes new.                            *)
LEMMA RegionsStep ==
    ASSUME Base, NEW p \in Procs, Moves(p)
    PROVE  /\ region' = region \/ \E x \in Regions : region' = [region EXCEPT ![x] = "new"]
           /\ \A r \in Regions : region'[r] = "old" => region[r] = "old"
           /\ OldRegions' \subseteq OldRegions
<1>1. ServiceTyped /\ StartupTyped
  BY TypeParts DEF Base
<1>2. region' = region \/ \E x \in Regions : region' = [region EXCEPT ![x] = "new"]
  <2>1. CASE DoEffect(p)
    <3>1. effects[p] # <<>> => Head(effects[p]) \in Regions
      BY <1>1, SequenceParts DEF StartupTyped
    <3> QED
      BY <2>1, <3>1 DEF DoEffect
  <2>2. CASE ClearFileStamps(p)
    <3>1. "file_stamps" \in Regions
      BY Zenon DEF Regions
    <3> QED
      BY <2>2, <3>1 DEF ClearFileStamps
  <2>3. CASE ~DoEffect(p) /\ ~ClearFileStamps(p)
    BY <2>3 DEF Moves, ProcStep, StartRun, Crash, OpenDatabase, LockDatabase,
       CreateDatabase, InitTables, CheckStamp, CheckAction, RecordAction,
       EffectFails, InitPackages, QueryVersion, TryUpdate, WaitUpdate, Download,
       CopyFile, DownloadDone, UpdateFails, Load, LoadTable, Commit, Reopen
  <2> QED
    BY <2>1, <2>2, <2>3
<1>3. \A r \in Regions : region'[r] = "old" => region[r] = "old"
  BY <1>1, <1>2 DEF ServiceTyped
<1> QED
  BY <1>2, <1>3 DEF OldRegions

(* Who clears something goes on until it is clear, or an action is lost.   *)
LEMMA ClearsStep ==
    ASSUME Base, NEW p \in Procs, Moves(p), ~lost', NEW q \in Procs, NEW r \in OldRegions',
           Clears(q, r)
    PROVE  Clears(q, r)'
<1>1. TypeOK /\ Stages /\ ServiceTyped /\ StartupTyped /\ r \in OldRegions
  BY TypeParts, RegionsStep DEF Base
<1>2. CASE q # p
  BY <1>1, <1>2, OthersStay DEF Clears
<1>3. CASE q = p
  <2>1. DoEffect(p)
    BY <1>3, AtActions DEF Clears, EffectFails, Crash
  <2>2. effects[p] # <<>> /\ effects[p] \in Seq(Regions)
    BY <1>1, <1>3, SequenceParts DEF Clears, StartupTyped
  <2>3. /\ region' = [region EXCEPT ![Head(effects[p])] = "new"] /\ pc' = pc
        /\ effects'[p] = Tail(effects[p])
    BY <1>1, <2>1, <2>2 DEF DoEffect, StartupTyped
  <2>4. r # Head(effects[p])
    BY <1>1, <2>2, <2>3, SequenceParts DEF OldRegions, ServiceTyped
  <2>5. r \in Cleared(Tail(effects[p]))
    BY <1>3, <2>2, <2>4, SequenceParts DEF Clears
  <2> QED
    BY <1>3, <2>3, <2>5 DEF Clears
<1> QED
  BY <1>2, <1>3

(* An action gets its record from a process that clears what is old, or    *)
(* that has done an equal one.                                             *)
LEMMA OutstandingStep ==
    ASSUME Base, NEW p \in Procs, Moves(p), ~lost', DoneBy(p), NEW r \in OldRegions',
           NEW i \in Ids \ performed, r \in Cleared(StartupActions[i])
    PROVE  i \notin performed' \/ Clearing(r)'
<1>1. r \in OldRegions /\ StartupTyped /\ StagesTyped
  BY TypeParts, RegionsStep DEF Base
<1>2. CASE UNCHANGED performed \/ EmptyActionsTable
  BY <1>2 DEF EmptyActionsTable
<1>3. CASE Recording(p) /\ i = at[p]
  <2>1. RecordAction(p) /\ pc[p] = "record" /\ at[p] \notin performed
    BY <1>3, AtActions DEF Recording, Crash, serviceVars
  <2>2. StartupActions[i] \notin actions_performed[p]
    BY <1>1, <1>3, <2>1 DEF DoneBy, OldRegions, Clears
  <2>3. pc'[p] = "effects" /\ effects'[p] = StartupActions[i]
    BY <1>1, <1>3, <2>1, <2>2 DEF RecordAction, Goto, StagesTyped, StartupTyped
  <2> QED
    BY <2>3 DEF Clearing, Clears
<1>4. CASE Recording(p) /\ i # at[p]
  BY <1>4 DEF Recording
<1> QED
  BY <1>2, <1>3, <1>4, RecordsStep

(* A process passes an action that has a record, or that it has done.      *)
Passing(p) ==
    /\ pc[p] \in Acting /\ at[p] \in Ids /\ at' = [at EXCEPT ![p] = @ + 1]
    /\ at[p] \in performed' \/ (pc[p] = "effects" /\ effects[p] = <<>>)

LEMMA ActingStep ==
    ASSUME Base, NEW p \in Procs, Moves(p), pc'[p] \in Acting
    PROVE  \/ pc[p] \notin Acting /\ at'[p] = 1 /\ actions_performed'[p] = {}
           \/ pc[p] \in Acting /\ at' = at
           \/ Passing(p)
<1>1. TypeOK /\ Stages /\ StartupTyped /\ StagesTyped
  BY TypeParts DEF Base
<1>to. ASSUME NEW S, To(p, S) PROVE pc'[p] \in S
  BY <1>1, <1>to DEF To, StagesTyped
<1>2. CheckStamp(p) \/ ClearFileStamps(p) \/ CheckAction(p) \/ RecordAction(p) \/ DoEffect(p)
  BY <1>1, <1>to, Paths DEF Moves, ProcStep, Acting, Opened, Thrown
<1>3. CASE CheckStamp(p) \/ ClearFileStamps(p)
  <2>1. pc[p] \in Starting \ Acting /\ UNCHANGED <<at, actions_performed>>
    BY <1>3 DEF CheckStamp, ClearFileStamps, Starting, Acting, localVars
  <2> QED
    BY <1>1, <2>1 DEF Stages, StageFits
<1>4. ~OpenPackages(p)
  BY <1>1 DEF OpenPackages, Goto, StagesTyped, Acting
<1>5. CASE CheckAction(p)
  <2>1. performed \subseteq Ids
    BY TypeParts DEF Base, ServiceTyped, RecordsTyped
  <2> QED
    BY <1>4, <1>5, <2>1 DEF CheckAction, NextAction, Passing, Acting
<1>6. CASE RecordAction(p)
  <2>1. at[p] \in Ids
    BY <1>1, <1>6 DEF RecordAction, Stages, StageFits
  <2> QED
    BY <1>4, <1>6, <2>1 DEF RecordAction, NextAction, Passing, Acting
<1>7. CASE DoEffect(p)
  <2>1. at[p] \in Ids
    BY <1>1, <1>7 DEF DoEffect, Stages, StageFits
  <2> QED
    BY <1>7, <2>1 DEF DoEffect, NextAction, Passing, Acting
<1> QED
  BY <1>2, <1>3, <1>5, <1>6, <1>7

(* What is old stays in sight of somebody's actions: nobody passes an      *)
(* action that clears it without having done it.                           *)
LEMMA CleaningStep == Base /\ Cleaning /\ [Next]_vars => Cleaning'
<1>1. SUFFICES ASSUME Base, Cleaning, [Next]_vars, ~lost' PROVE Cleaning'
  BY DEF Cleaning
<1>2. CASE Elsewhere
  BY <1>1, <1>2, ElsewhereStays
  DEF Cleaning, Recorded, DoneBy, Ahead, OldRegions, Clearing, Clears, Outstanding
<1>3. ASSUME NEW p \in Procs, Moves(p) PROVE Cleaning'
  <2>1. TypeOK /\ Stages /\ StartupTyped /\ StagesTyped /\ ServiceTyped
    BY <1>1, TypeParts DEF Base
  <2>2. \A q \in Procs : q # p =>
            /\ pc'[q] = pc[q] /\ at'[q] = at[q]
            /\ actions_performed'[q] = actions_performed[q]
    BY <1>3, <2>1, OthersStay
  <2>3. ~lost
    BY <1>1, <1>3, <2>1, LostStays, TypeParts DEF CountsTyped
  <2>4. /\ Recorded /\ \A q \in Procs : DoneBy(q)
        /\ \A q \in Procs : pc[q] \in Acting => Ahead(q)
        /\ \A q \in Procs :
              pc[q] = "effects" => StartupActions[at[q]] \in actions_performed[q]
    BY <1>1, <2>3 DEF Cleaning
  <2>clearing. ASSUME NEW r \in OldRegions', Clearing(r) PROVE Clearing(r)'
    BY <1>1, <1>3, <2>clearing, ClearsStep DEF Clearing
  <2>outstanding. ASSUME NEW r \in OldRegions', NEW i \in Ids \ performed,
                         r \in Cleared(StartupActions[i])
                  PROVE  Clearing(r)' \/ i \in Ids \ performed'
    BY <1>1, <1>3, <2>4, <2>outstanding, OutstandingStep
  <2>old. /\ OldRegions' \subseteq OldRegions
          /\ \A r \in Regions : region'[r] = "old" => region[r] = "old"
    BY <1>1, <1>3, RegionsStep
  <2>5. Recorded'
    <3>1. ASSUME NEW r \in OldRegions'
          PROVE  Clearing(r)' \/ \E i \in Ids \ performed' : r \in Cleared(StartupActions[i])
      BY <2>4, <2>clearing, <2>outstanding, <2>old DEF Recorded, Outstanding
    <3> QED
      BY <3>1 DEF Recorded, Outstanding
  <2>6. ASSUME NEW q \in Procs PROVE DoneBy(q)'
    <3>1. ASSUME NEW a \in actions_performed[q], NEW r \in Cleared(a) \ {"file_stamps"},
                 region'[r] = "old"
          PROVE  Clears(q, r)'
      <4>1. r \in Regions
        <5>1. PICK i \in Ids : a = StartupActions[i]
          <6>1. actions_performed[q] \subseteq {StartupActions[i] : i \in Ids}
            BY <2>1 DEF StartupTyped
          <6> QED
            BY <6>1
        <5>2. a \in Seq(Regions)
          BY <5>1, ActionsTyped
        <5> QED
          BY <5>2, SequenceParts
      <4>2. Clears(q, r) /\ r \in OldRegions'
        BY <2>4, <2>old, <3>1, <4>1 DEF DoneBy, OldRegions
      <4> QED
        BY <1>1, <1>3, <4>2, ClearsStep
    <3>2. ASSUME NEW a \in actions_performed'[q], a \notin actions_performed[q],
                 NEW r \in Cleared(a)
          PROVE  Clears(q, r)'
      <4>1. q = p
        BY <2>2, <3>2
      <4>2. /\ pc'[p] = "effects" /\ effects'[p] = a
        <5>1. RecordAction(p) /\ ~OpenPackages(p) /\ pc[p] = "record"
          BY <1>3, <2>1, <3>2, <4>1
          DEF Moves, StartRun, Crash, ProcStep, OpenDatabase, LockDatabase,
             CreateDatabase, InitTables, CheckStamp, ClearFileStamps, CheckAction,
             RecordAction, DoEffect, EffectFails, InitPackages, QueryVersion,
             TryUpdate, WaitUpdate, Download, CopyFile, DownloadDone, UpdateFails,
             Load, LoadTable, Commit, Reopen, localVars, procVars, OpenPackages,
             StartupTyped
        <5> QED
          BY <2>1, <3>2, <4>1, <5>1 DEF RecordAction, Goto, StartupTyped, StagesTyped
      <4> QED
        BY <3>2, <4>1, <4>2 DEF Clears
    <3> QED
      BY <3>1, <3>2 DEF DoneBy
  <2>7. ASSUME NEW q \in Procs, pc'[q] \in Acting PROVE Ahead(q)'
    <3>1. ASSUME NEW r \in OldRegions', ~Clearing(r)'
          PROVE  \E i \in Ids \ performed' : i >= at'[q] /\ r \in Cleared(StartupActions[i])
      <4>1. r \in OldRegions /\ ~Clearing(r)
        BY <2>old, <2>clearing, <3>1
      <4>2. CASE pc[q] \in Acting /\ at'[q] = at[q]
        BY <2>4, <2>outstanding, <3>1, <4>1, <4>2 DEF Ahead
      <4>3. CASE q = p /\ pc[p] \notin Acting /\ at'[p] = 1
        BY <2>5, <3>1, <4>3, ActionsTyped DEF Recorded, Outstanding
      <4>4. CASE q = p /\ Passing(p)
        <5>1. PICK i \in Ids \ performed : i >= at[p] /\ r \in Cleared(StartupActions[i])
          BY <2>4, <4>1, <4>4 DEF Ahead, Passing
        <5>2. i \in Ids \ performed'
          BY <2>outstanding, <3>1, <5>1
        <5>3. i # at[p]
          <6>1. CASE at[p] \in performed'
            BY <5>2, <6>1
          <6>2. ASSUME pc[p] = "effects", effects[p] = <<>>, i = at[p] PROVE FALSE
            <7>1. StartupActions[i] \in actions_performed[p] /\ ~Clears(p, r)
              BY <2>4, <4>1, <6>2 DEF Clearing
            <7> QED
              BY <2>4, <4>1, <5>1, <7>1 DEF DoneBy, OldRegions
          <6> QED
            BY <4>4, <6>1, <6>2 DEF Passing
        <5>4. at'[p] = at[p] + 1 /\ at[p] \in Nat /\ i \in Nat
          BY <2>1, <4>4, <5>1, ActionsTyped DEF Passing, StartupTyped
        <5>5. i >= at'[p]
          BY <5>1, <5>3, <5>4
        <5> QED
          BY <4>4, <5>1, <5>2, <5>5
      <4> QED
        BY <1>1, <1>3, <2>2, <2>7, <4>2, <4>3, <4>4, ActingStep
    <3> QED
      BY <3>1 DEF Ahead
  <2>8. ASSUME NEW q \in Procs, pc'[q] = "effects"
        PROVE  StartupActions[at'[q]] \in actions_performed'[q]
    <3>1. CASE q # p
      BY <2>2, <2>4, <2>8, <3>1
    <3>2. CASE q = p
      <4>to. ASSUME NEW S, To(p, S) PROVE pc'[p] \in S
        BY <2>1, <4>to DEF To, StagesTyped
      <4>1. RecordAction(p) \/ DoEffect(p)
        BY <1>3, <2>1, <2>8, <3>2, <4>to, Paths DEF Moves, ProcStep, Opened, Thrown
      <4>2. CASE RecordAction(p)
        BY <2>1, <2>8, <3>2, <4>2
        DEF RecordAction, NextAction, OpenPackages, Goto, StagesTyped, StartupTyped
      <4>3. CASE DoEffect(p)
        BY <2>1, <2>4, <2>8, <3>2, <4>3 DEF DoEffect, NextAction, Goto, StagesTyped
      <4> QED
        BY <4>1, <4>2, <4>3
    <3> QED
      BY <3>1, <3>2
  <2> QED
    BY <2>5, <2>6, <2>7, <2>8 DEF Cleaning
<1> QED
  BY <1>1, <1>2, <1>3, NextMoves

LEMMA CleaningDone == TypeOK /\ Cleaning => ActionsDone
BY TypeParts DEF ServiceTyped, Cleaning, Recorded, OldRegions, Clearing, Clears,
   ActionsDone

(* The client's stamp, and who is past it.                                 *)
LEMMA StampStep ==
    ASSUME Base, NEW p \in Procs, Moves(p)
    PROVE  /\ clientStamp' = clientStamp \/ CheckStamp(p)
           /\ opening'[p] = "packages" => opening[p] = "packages" \/ pc[p] \in Acting
<1>1. TypeOK /\ Stages /\ StartupTyped
  BY TypeParts DEF Base
<1> USE DEF serviceVars, packageVars, procVars, countVars, ghostVars, localVars,
     updateVars
<1>2. clientStamp' = clientStamp \/ CheckStamp(p)
  BY DEF Moves, StartRun, Crash, ProcStep, OpenDatabase, LockDatabase,
     CreateDatabase, InitTables, ClearFileStamps, CheckAction, RecordAction,
     DoEffect, EffectFails, InitPackages, QueryVersion, TryUpdate, WaitUpdate,
     Download, CopyFile, DownloadDone, UpdateFails, Load, LoadTable, Commit, Reopen
<1>3. CASE CheckAction(p) \/ RecordAction(p) \/ EffectFails(p)
  BY <1>2, <1>3 DEF CheckAction, RecordAction, EffectFails, Acting
<1>4. CASE StartRun(p)
  BY <1>1, <1>2, <1>4 DEF StartRun, StartupTyped
<1>5. ASSUME \/ Crash(p) \/ OpenDatabase(p) \/ LockDatabase(p) \/ CreateDatabase(p)
             \/ InitTables(p) \/ CheckStamp(p) \/ ClearFileStamps(p) \/ DoEffect(p)
             \/ InitPackages(p) \/ QueryVersion(p) \/ TryUpdate(p) \/ WaitUpdate(p)
             \/ Download(p) \/ CopyFile(p) \/ DownloadDone(p) \/ UpdateFails(p) \/ Load(p)
             \/ LoadTable(p) \/ Commit(p) \/ Reopen(p)
      PROVE  UNCHANGED opening
  BY <1>5 DEF Crash, OpenDatabase, LockDatabase, CreateDatabase, InitTables,
     CheckStamp, ClearFileStamps, DoEffect, InitPackages, QueryVersion, TryUpdate,
     WaitUpdate, Download, CopyFile, DownloadDone, UpdateFails, Load, LoadTable,
     Commit, Reopen
<1> QED
  BY <1>2, <1>3, <1>4, <1>5 DEF Moves, ProcStep

(* The first process with a new stamp clears the file stamps.              *)
LEMMA StampedStep == Base /\ Stamped /\ [Next]_vars => Stamped'
<1>1. SUFFICES ASSUME Base, Stamped, [Next]_vars PROVE Stamped'
  OBVIOUS
<1>2. CASE Elsewhere
  BY <1>1, <1>2, ElsewhereStays DEF Stamped
<1>3. ASSUME NEW p \in Procs, Moves(p) PROVE Stamped'
  <2>1. TypeOK /\ Stages /\ StagesTyped /\ ServiceTyped
    BY <1>1, TypeParts DEF Base
  <2>2. \A q \in Procs : q # p => pc'[q] = pc[q] /\ opening'[q] = opening[q]
    BY <1>3, <2>1, OthersStay
  <2>to. ASSUME NEW S, To(p, S) PROVE pc'[p] \in S
    BY <2>1, <2>to DEF To, StagesTyped
  <2>3. CheckStamp(p) => /\ clientStamp' = TRUE
                         /\ ~clientStamp => pc'[p] = "clear_stamps"
    BY <2>1 DEF CheckStamp, Goto, StagesTyped
  <2>4. clientStamp => clientStamp'
    BY <1>1, <1>3, <2>3, StampStep
  <2>5. ASSUME NEW q \in Procs,
               pc'[q] \in Acting \cup {"clear_stamps"} \/ opening'[q] = "packages"
        PROVE  clientStamp'
    <3>1. CASE pc[q] \in Acting \cup {"clear_stamps"} \/ opening[q] = "packages"
      BY <1>1, <2>4, <3>1 DEF Stamped
    <3>2. CASE ~(pc[q] \in Acting \cup {"clear_stamps"} \/ opening[q] = "packages")
      <4>1. q = p /\ opening'[p] # "packages"
        BY <1>1, <1>3, <2>2, <2>5, <3>2, StampStep
      <4>2. CheckStamp(p)
        BY <1>3, <2>1, <2>to, <2>5, <3>2, <4>1, Paths
        DEF Moves, ProcStep, Acting, From, Opened, Thrown
      <4> QED
        BY <2>3, <4>2
    <3> QED
      BY <3>1, <3>2
  <2>6. ASSUME clientStamp', ~lost', region'["file_stamps"] = "old"
        PROVE  \E q \in Procs : pc'[q] = "clear_stamps"
    <3>1. region["file_stamps"] = "old" /\ ~lost
      <4>1. "file_stamps" \in Regions
        BY Zenon DEF Regions
      <4> QED
        BY <1>1, <1>3, <2>1, <2>6, <4>1, LostStays, RegionsStep, TypeParts DEF CountsTyped
    <3>2. CASE ~clientStamp
      BY <1>1, <1>3, <2>3, <2>6, <3>2, StampStep
    <3>3. CASE clientStamp
      <4>1. PICK q \in Procs : pc[q] = "clear_stamps"
        BY <1>1, <3>1, <3>3 DEF Stamped
      <4>2. ASSUME q = p PROVE FALSE
        <5>1. ~Crash(p)
          BY <2>6, <4>1, <4>2 DEF Crash
        <5>2. ClearFileStamps(p)
          BY <1>1, <1>3, <4>1, <4>2, <5>1, AtActions
        <5>3. "file_stamps" \in Regions
          BY Zenon DEF Regions
        <5> QED
          BY <2>1, <2>6, <5>2, <5>3 DEF ClearFileStamps, ServiceTyped
      <4> QED
        BY <2>2, <4>1, <4>2
    <3> QED
      BY <3>2, <3>3
  <2> QED
    BY <2>5, <2>6 DEF Stamped
<1> QED
  BY <1>1, <1>2, <1>3, NextMoves

(* Somebody is at the actions and will get on, or nothing is left to do.   *)
Handled == OldRegions = {} \/ \E q \in Procs : pc[q] \in Acting /\ ~Blocked(q)

LEMMA CoveredStep == Base /\ Cleaning /\ Covered /\ [Next]_vars => Covered'
<1>1. SUFFICES ASSUME Base, Cleaning, Covered, [Next]_vars, ~lost', crashes' = 0,
                      NEW o \in Procs, (Blocked(o) \/ opening[o] = "packages")'
               PROVE  Handled'
  BY DEF Covered, Handled
<1>2. CASE Elsewhere
  BY <1>1, <1>2, ElsewhereStays DEF Covered, Handled, OldRegions, Blocked
<1>3. ASSUME NEW p \in Procs, Moves(p) PROVE Handled'
  <2>1. TypeOK /\ Stages /\ StagesTyped /\ StartupTyped /\ ServiceTyped /\ CountsTyped
    BY <1>1, TypeParts DEF Base
  <2>2. \A q \in Procs : q # p =>
            pc'[q] = pc[q] /\ at'[q] = at[q] /\ opening'[q] = opening[q]
    BY <1>3, <2>1, OthersStay
  <2>3. ~lost /\ crashes = 0 /\ ~Crash(p) /\ OldRegions' \subseteq OldRegions
    BY <1>1, <1>3, <2>1, LostStays, RegionsStep DEF CountsTyped
  <2>4. (\E q \in Procs : Blocked(q) \/ opening[q] = "packages") => Handled
    BY <1>1, <2>3 DEF Covered, Handled
  <2>others. ASSUME Handled, ~(pc[p] \in Acting /\ ~Blocked(p)), performed' = performed
             PROVE  Handled'
    <3>1. CASE OldRegions = {}
      BY <2>3, <3>1 DEF Handled
    <3>2. CASE \E q \in Procs : pc[q] \in Acting /\ ~Blocked(q)
      <4>1. PICK q \in Procs : pc[q] \in Acting /\ ~Blocked(q)
        BY <3>2
      <4>2. pc'[q] \in Acting /\ ~Blocked(q)'
        BY <2>2, <2>others, <4>1 DEF Blocked
      <4> QED
        BY <4>2 DEF Handled
    <3> QED
      BY <2>others, <3>1, <3>2 DEF Handled
  <2>stays. ASSUME pc'[p] \in Acting, ~(pc'[p] = "record" /\ at'[p] \in performed')
            PROVE  Handled'
    BY <2>stays DEF Handled, Blocked
  <2>5. CASE pc[p] \notin Acting
    <3>1. performed' = performed
      BY <1>1, <1>3, <2>1, <2>5, Paths, RecordsStep
      DEF Recording, Acting, Moves, ProcStep, From, StartRun, Crash, OpenDatabase,
          LockDatabase, CreateDatabase, InitTables, CheckStamp, ClearFileStamps,
          InitPackages, QueryVersion, TryUpdate, WaitUpdate, Download, CopyFile,
          DownloadDone, UpdateFails, Load, LoadTable, Commit, Reopen, serviceVars
    <3>to. ASSUME NEW S, To(p, S) PROVE pc'[p] \in S
      BY <2>1, <3>to DEF To, StagesTyped
    <3>2. pc'[p] # "record"
      BY <1>3, <2>1, <2>5, <3>to, Paths DEF Moves, ProcStep, From, Acting, Opened,
         Thrown
    <3>3. Blocked(o) \/ opening[o] = "packages"
      BY <1>1, <1>3, <2>2, <2>5, <3>1, <3>2, StampStep DEF Blocked
    <3> QED
      BY <2>4, <2>5, <2>others, <3>1, <3>3, SMTT(30)
  <2>6. CASE pc[p] = "actions"
    <3>1. CheckAction(p) /\ Ahead(p)
      BY <1>1, <1>3, <2>3, <2>6, AtActions DEF Cleaning, Acting
    <3>2. CASE at[p] > Len(StartupActions) /\ performed' = performed
      <4>1. ASSUME NEW r \in OldRegions
            PROVE  \E q \in Procs : pc[q] = "effects"
        <5>1. \A i \in Ids : ~(i >= at[p])
          BY <2>1, <3>2, ActionsTyped DEF StartupTyped
        <5> QED
          BY <3>1, <5>1 DEF Ahead, Clearing, Clears
      <4>2. OldRegions = {} \/ \E q \in Procs : pc[q] = "effects"
        BY <4>1
      <4>3. ASSUME NEW q \in Procs, pc[q] = "effects" PROVE Handled'
        BY <2>2, <2>6, <4>3 DEF Handled, Blocked, Acting
      <4> QED
        BY <2>3, <4>2, <4>3 DEF Handled
    <3>3. CASE Goto(p, "record") /\ performed' = {}
      BY <2>1, <2>stays, <3>3 DEF Goto, StagesTyped, Acting
    <3>4. CASE NextAction(p)
      BY <2>1, <2>stays, <3>4 DEF NextAction, Goto, StagesTyped, Acting
    <3>5. CASE /\ Goto(p, "record") /\ at' = at
               /\ at[p] \notin performed /\ performed' = performed
      BY <2>1, <2>stays, <3>5 DEF Goto, StagesTyped, Acting
    <3> QED
      BY <3>1, <3>2, <3>3, <3>4, <3>5 DEF CheckAction, EmptyActionsTable
  <2>7. CASE pc[p] = "record"
    <3>1. RecordAction(p)
      BY <1>1, <1>3, <2>3, <2>7, AtActions
    <3>2. CASE at[p] \in performed /\ performed' = performed
      BY <2>4, <2>7, <2>others, <3>2 DEF Blocked
    <3>3. CASE NextAction(p)
      BY <2>1, <2>stays, <3>3 DEF NextAction, Goto, StagesTyped, Acting
    <3>4. CASE Goto(p, "effects")
      BY <2>1, <2>stays, <3>4 DEF Goto, StagesTyped, Acting
    <3> QED
      BY <3>1, <3>2, <3>3, <3>4 DEF RecordAction
  <2>8. CASE pc[p] = "effects"
    <3>1. DoEffect(p)
      BY <1>1, <1>3, <2>3, <2>8, AtActions DEF EffectFails
    <3>2. pc'[p] \in {"actions", "effects"}
      BY <2>1, <2>8, <3>1 DEF DoEffect, NextAction, Goto, StagesTyped
    <3> QED
      BY <2>stays, <3>2 DEF Acting
  <2> QED
    BY <2>5, <2>6, <2>7, <2>8 DEF Acting
<1> QED
  BY <1>1, <1>2, <1>3, NextMoves

LEMMA MigratedLast == Base /\ Covered /\ Stamped => StorageMigrated
<1>1. SUFFICES ASSUME Base, Covered, Stamped, ~lost, crashes = 0,
                      \A p \in Procs : ~InStartup(p),
                      NEW o \in Procs, opening[o] = "packages", NEW r \in Regions
               PROVE  region[r] = "new"
  BY DEF StorageMigrated
<1>2. Stages /\ ServiceTyped
  BY <1>1, TypeParts DEF Base
<1>3. \A q \in Procs : pc[q] \notin Acting \cup {"clear_stamps"}
  BY <1>1, <1>2 DEF Stages, StageFits, InStartup, Acting, Starting
<1>4. OldRegions = {}
  BY <1>1, <1>3 DEF Covered
<1>5. region["file_stamps"] # "old"
  BY <1>1, <1>3 DEF Stamped
<1> QED
  BY <1>2, <1>4, <1>5 DEF OldRegions, ServiceTyped

(* No startup action is done twice, none that was recorded is lost, and    *)
(* when the startup is over nothing of an older client is left             *)
(* (database.cpp:440-505).                                                 *)
THEOREM ActionsCorrect == Spec => []ActionsRight
<1> DEFINE Inv == Base /\ Counted /\ Cleaning /\ Stamped /\ Covered
<1>1. Init => Counted /\ Cleaning /\ Stamped /\ Covered
  <2>1. SUFFICES ASSUME Init PROVE Counted /\ Cleaning /\ Stamped /\ Covered
    OBVIOUS
  <2>2. Counted /\ Stamped
    <3>1. Counted
      BY <2>1 DEF Init, Counted
    <3>2. Stamped
      BY <2>1 DEF Init, Stamped, Acting
    <3> QED
      BY <3>1, <3>2
  <2>3. Recorded
    <3>1. ASSUME NEW r \in OldRegions PROVE Outstanding(r)
      <4>1. PICK known \in 0..Len(StartupActions) :
               /\ performed = 1..known
               /\ \E i \in Ids : i > known /\ r \in Cleared(StartupActions[i])
        BY <2>1, <3>1 DEF Init, OldRegions
      <4> QED
        BY <4>1, ActionsTyped DEF Outstanding
    <3> QED
      BY <3>1 DEF Recorded
  <2>4. Cleaning
    BY <2>1, <2>3 DEF Init, Cleaning, DoneBy, Acting
  <2>5. Covered
    BY <2>1 DEF Init, Covered, Blocked
  <2> QED
    BY <2>2, <2>4, <2>5
<1>2. Inv /\ [Next]_vars => Inv'
  BY BaseStep, CountedStep, CleaningStep, StampedStep, CoveredStep
<1>3. Inv => ActionsRight
  BY CleaningDone, MigratedLast DEF ActionsRight, ActionsOnce, Counted, Base
<1> QED
  BY <1>1, <1>2, <1>3, BaseInit, PTL DEF Spec
=============================================================================

------------------------------- MODULE Databases -------------------------------
(***************************************************************************)
(* A cppan process starts: it opens the two databases of the storage       *)
(* directory, performs the startup actions its version brings, and         *)
(* refreshes the packages database from the server.                        *)
(*                                                                         *)
(* Modelled: Database::Database and open, ServiceDatabase::init with       *)
(* createTables, checkStamp and performStartupActions, and                 *)
(* PackagesDatabase::PackagesDatabase, init, download and load.            *)
(*                                                                         *)
(* A startup action is the sequence of the things it clears, which is      *)
(* empty for ClearCache: its flag is 0, so that "action & ClearCache" is   *)
(* never true.  Two actions with the same flags are equal.                 *)
(* A row of a data table is only known by the version of the server's      *)
(* repository its csv file came from.                                      *)
(***************************************************************************)
EXTENDS Naturals, Sequences, FiniteSets

CONSTANTS
    Procs,          \* cppan processes of one storage directory
    StartupActions, \* startup_actions of this client, in order
    Tables,         \* service tables that hold data worth keeping
    DataTables,     \* tables of the packages database
    MaxVersion,     \* bound: versions of the server's repository
    MaxRuns,        \* bound: runs of one process
    MaxFaults       \* bound: processes killed, and removals, downloads and
                    \* loads that throw

Cleared(a) == {a[i] : i \in DOMAIN a}
Ids == DOMAIN StartupActions
Regions == {"file_stamps"} \cup UNION {Cleared(StartupActions[i]) : i \in Ids}
Version_file == "db.version"
RepoFiles == DataTables \cup {Version_file}
Version == 0..MaxVersion
DbNames == {"service", "packages"}

ASSUME DatabasesAssumption ==
    /\ StartupActions \in Seq(Seq(Regions))
    /\ "StartupActions" \in Tables
    /\ Version_file \notin DataTables
    /\ DataTables # {}
    /\ MaxVersion \in Nat \ {0}
    /\ {MaxRuns, MaxFaults} \subseteq Nat

VARIABLES
    (* storage/etc/database *)
    file,       \* file[n]: "absent", "empty" (no tables yet) or "tables"
    dblock,     \* dblock[n]: holder of the lock file of the database
    performed,  \* ids in the table StartupActions
    oldShape,   \* StartupActions has columns of an older client
    hashed,     \* tables whose hash in TableHashes is the current one
    clientStamp, \* ClientStamp is that of this client
    region,     \* region[r]: "old" if an older client's data is in it
    csv,        \* csv[f]: version of file f in the repository directory
    loaded,     \* loaded[t]: version of the rows of t in packages.db
    fresh,      \* packages.time is younger than 15 minutes
    updlock,    \* holder of the lock "db_update"
    remote,     \* version of the server's repository
    (* Processes *)
    pc, opening, at, actions_performed, effects, handle, created,
    copying, fetched, rows,
    (* Bounds and history *)
    runs, failures, crashes,
    executed,   \* executed[i]: times action i was done
    lost,       \* a process left an action it had recorded
    overlap     \* two processes downloaded or loaded at once

serviceVars == <<performed, oldShape, hashed, clientStamp, executed>>
packageVars == <<csv, loaded, fresh, updlock>>
procVars == <<pc, opening, at, actions_performed, effects, handle, created, copying, fetched, rows>>
countVars == <<runs, failures, crashes>>
ghostVars == <<lost, overlap>>
vars == <<file, dblock, serviceVars, region, packageVars, remote, procVars,
          countVars, ghostVars>>

-----------------------------------------------------------------------------
(* Stages, in the order of the code.                                       *)
Starting == {"open", "lock_db", "tables", "init", "stamp", "clear_stamps",
             "actions", "record", "effects"}
Updating == {"download", "copy", "load", "commit"}
Refreshing == Updating \cup {"packages_init", "version", "try_update",
                             "wait_update", "reopen"}
Ended == {"idle", "ready", "no_packages", "failed"}
Running(p) == pc[p] \notin Ended
InStartup(p) == pc[p] \in Starting /\ opening[p] = "service"

NoRows == [t \in DataTables |-> 0]

TypeOK ==
    /\ file \in [DbNames -> {"absent", "empty", "tables"}]
    /\ dblock \in [DbNames -> SUBSET Procs]
    /\ performed \in SUBSET Ids
    /\ oldShape \in BOOLEAN
    /\ hashed \in SUBSET Tables
    /\ clientStamp \in BOOLEAN
    /\ region \in [Regions -> {"old", "new"}]
    /\ csv \in [RepoFiles -> Version]
    /\ loaded \in [DataTables -> Version]
    /\ fresh \in BOOLEAN
    /\ updlock \in SUBSET Procs
    /\ remote \in 1..MaxVersion
    /\ pc \in [Procs -> Starting \cup Refreshing \cup Ended]
    /\ opening \in [Procs -> DbNames]
    /\ at \in [Procs -> 1..(Len(StartupActions) + 1)]
    /\ actions_performed \in [Procs -> SUBSET {StartupActions[i] : i \in Ids}]
    /\ effects \in [Procs -> Seq(Regions)]
    /\ handle \in [Procs -> {"closed", "file", "unlinked"}]
    /\ created \in [Procs -> BOOLEAN]
    /\ copying \in [Procs -> SUBSET RepoFiles]
    /\ fetched \in [Procs -> Version]
    /\ rows \in [Procs -> [DataTables -> Version]]
    /\ runs \in [Procs -> Nat] /\ {failures, crashes} \subseteq Nat
    /\ executed \in [Ids -> Nat]
    /\ {lost, overlap} \subseteq BOOLEAN

(* A new storage directory, or one an older client left that knew the      *)
(* first "known" actions: a region holds old data if a later action clears *)
(* it.                                                                     *)
Init ==
    /\ \/ /\ file = [n \in DbNames |-> "absent"]
          /\ region = [r \in Regions |-> "new"]
          /\ performed = {}
          /\ clientStamp = FALSE
          /\ hashed = {}
          /\ oldShape = FALSE
          /\ csv = [f \in RepoFiles |-> 0]
          /\ loaded = NoRows
       \/ /\ file = [n \in DbNames |-> "tables"]
          /\ \E known \in 0..Len(StartupActions) :
                /\ performed = 1..known
                /\ region = [r \in Regions |->
                      IF r = "file_stamps" \/ \E i \in Ids : i > known
                                         /\ r \in Cleared(StartupActions[i])
                      THEN "old" ELSE "new"]
          /\ clientStamp = FALSE
          /\ \E h \in {{}, Tables} : hashed = h
          /\ oldShape \in {FALSE, hashed = {}}
          /\ csv = [f \in RepoFiles |-> 1]
          /\ loaded = [t \in DataTables |-> 1]
    /\ fresh = FALSE
    /\ dblock = [n \in DbNames |-> {}]
    /\ updlock = {}
    /\ remote = 1
    /\ pc = [p \in Procs |-> "idle"]
    /\ opening = [p \in Procs |-> "service"]
    /\ at = [p \in Procs |-> 1]
    /\ actions_performed = [p \in Procs |-> {}]
    /\ effects = [p \in Procs |-> <<>>]
    /\ handle = [p \in Procs |-> "closed"]
    /\ created = [p \in Procs |-> FALSE]
    /\ copying = [p \in Procs |-> {}]
    /\ fetched = [p \in Procs |-> 0]
    /\ rows = [p \in Procs |-> NoRows]
    /\ runs = [p \in Procs |-> 0]
    /\ failures = 0
    /\ crashes = 0
    /\ executed = [i \in Ids |-> 0]
    /\ lost = FALSE
    /\ overlap = FALSE

-----------------------------------------------------------------------------
Goto(p, s) == pc' = [pc EXCEPT ![p] = s]

(* Variables of a process other than its stage.                            *)
localVars == <<opening, at, actions_performed, effects, handle, created,
               copying, fetched, rows>>
updateVars == <<handle, created, copying, fetched, rows>>

(* The exception ends the process, or only the use of the local packages   *)
(* database: a Resolver then asks the server.                              *)
Throw(p) ==
    /\ Goto(p, IF opening[p] = "service" THEN "failed" ELSE "no_packages")
    /\ updlock' = updlock \ {p}

StartRun(p) ==
    /\ ~Running(p)
    /\ runs[p] < MaxRuns
    /\ runs' = [runs EXCEPT ![p] = @ + 1]
    /\ Goto(p, "open")
    /\ opening' = [opening EXCEPT ![p] = "service"]
    /\ at' = [at EXCEPT ![p] = 1]
    /\ actions_performed' = [actions_performed EXCEPT ![p] = {}]
    /\ effects' = [effects EXCEPT ![p] = <<>>]
    /\ handle' = [handle EXCEPT ![p] = "closed"]
    /\ created' = [created EXCEPT ![p] = FALSE]
    /\ copying' = [copying EXCEPT ![p] = {}]
    /\ rows' = [rows EXCEPT ![p] = NoRows]
    /\ fetched' = [fetched EXCEPT ![p] = 0]
    /\ UNCHANGED <<failures, crashes, file, dblock, serviceVars, region,
                   packageVars, remote, ghostVars>>

Crash(p) ==
    /\ Running(p)
    /\ failures + crashes < MaxFaults
    /\ crashes' = crashes + 1
    /\ Goto(p, "failed")
    /\ dblock' = [n \in DbNames |-> dblock[n] \ {p}]
    /\ updlock' = updlock \ {p}
    /\ lost' = (lost \/ pc[p] \in {"clear_stamps", "effects"})
    /\ UNCHANGED <<runs, failures, file, serviceVars, region, csv, loaded, fresh,
                   remote, localVars, overlap>>

(* Time passes, and the server's repository grows.                         *)
Tick ==
    /\ fresh
    /\ fresh' = FALSE
    /\ UNCHANGED <<file, dblock, serviceVars, region, csv, loaded, updlock,
                   remote, procVars, countVars, ghostVars>>

PublishVersion ==
    /\ remote < MaxVersion
    /\ remote' = remote + 1
    /\ UNCHANGED <<file, dblock, serviceVars, region, packageVars, procVars,
                   countVars, ghostVars>>

-----------------------------------------------------------------------------
(* Database::Database, for either database.                                *)
AfterOpen(p) ==
    Goto(p, IF opening[p] = "service" THEN "init" ELSE "packages_init")

(* open(): an absent file is created without tables.                       *)
OpenHandle(p) == handle' = [handle EXCEPT ![p] = "file"]

OpenDatabase(p) ==
    /\ pc[p] = "open"
    /\ \/ /\ file[opening[p]] = "absent"
          /\ Goto(p, "lock_db")
          /\ UNCHANGED handle
       \/ /\ file[opening[p]] # "absent"
          /\ AfterOpen(p)
          /\ OpenHandle(p)
    /\ UNCHANGED <<file, dblock, serviceVars, region, packageVars, remote,
                   opening, at, actions_performed, effects, created,
                   copying, fetched, rows, countVars, ghostVars>>

(* Under the lock the file is looked for again.                            *)
LockDatabase(p) ==
    /\ pc[p] = "lock_db"
    /\ dblock[opening[p]] = {}
    /\ OpenHandle(p)
    /\ \/ /\ file[opening[p]] = "absent"
          /\ file' = [file EXCEPT ![opening[p]] = "empty"]
          /\ dblock' = [dblock EXCEPT ![opening[p]] = {p}]
          /\ Goto(p, "tables")
       \/ /\ file[opening[p]] # "absent"
          /\ AfterOpen(p)
          /\ UNCHANGED <<file, dblock>>
    /\ UNCHANGED <<serviceVars, region, packageVars, remote, opening, at,
                   actions_performed, effects, created, copying,
                   fetched, rows, countVars, ghostVars>>

(* The creator's queries fail if another process was faster; they go to a  *)
(* file without a name if the packages database was removed meanwhile.     *)
CreateDatabase(p) ==
    /\ pc[p] = "tables"
    /\ dblock' = [dblock EXCEPT ![opening[p]] = {}]
    /\ \/ /\ handle[p] = "file"
          /\ file[opening[p]] = "tables"
          /\ Throw(p)
          /\ UNCHANGED <<file, created, hashed>>
       \/ /\ handle[p] = "unlinked" \/ file[opening[p]] = "empty"
          /\ file' = IF handle[p] = "unlinked" THEN file
                     ELSE [file EXCEPT ![opening[p]] = "tables"]
          /\ created' = [created EXCEPT ![p] = opening[p] = "packages"]
          /\ hashed' = IF opening[p] = "service" THEN Tables ELSE hashed
          /\ AfterOpen(p)
          /\ UNCHANGED updlock
    /\ UNCHANGED <<performed, oldShape, clientStamp, executed, region, csv,
                   loaded, fresh, remote, opening, at, actions_performed,
                   effects, handle, copying, fetched, rows, countVars,
                   ghostVars>>

-----------------------------------------------------------------------------
(* ServiceDatabase::init.                                                  *)

(* createTables: missing tables are created; next to a creator at work     *)
(* this may fail.                                                          *)
InitTables(p) ==
    /\ pc[p] = "init"
    /\ \/ /\ file["service"] = "tables"
          /\ Goto(p, "stamp")
          /\ UNCHANGED <<file, hashed, updlock>>
       \/ /\ file["service"] = "empty"
          /\ file' = [file EXCEPT !["service"] = "tables"]
          /\ hashed' = Tables
          /\ Goto(p, "stamp")
          /\ UNCHANGED updlock
       \/ /\ file["service"] = "empty"
          /\ dblock["service"] # {}
          /\ Throw(p)
          /\ UNCHANGED <<file, hashed>>
    /\ UNCHANGED <<dblock, performed, oldShape, clientStamp, executed, region,
                   csv, loaded, fresh, remote, localVars, countVars, ghostVars>>

CheckStamp(p) ==
    /\ pc[p] = "stamp"
    /\ clientStamp' = TRUE
    /\ Goto(p, IF clientStamp THEN "actions" ELSE "clear_stamps")
    /\ UNCHANGED <<file, dblock, performed, oldShape, hashed, executed, region,
                   packageVars, remote, localVars, countVars, ghostVars>>

ClearFileStamps(p) ==
    /\ pc[p] = "clear_stamps"
    /\ region' = [region EXCEPT !["file_stamps"] = "new"]
    /\ Goto(p, "actions")
    /\ UNCHANGED <<file, dblock, serviceVars, packageVars, remote, localVars,
                   countVars, ghostVars>>

(* performStartupActions.                                                  *)
NextAction(p) ==
    /\ at' = [at EXCEPT ![p] = @ + 1]
    /\ Goto(p, "actions")

(* The startup is over, by its end or by an exception that is only logged. *)
OpenPackages(p) ==
    /\ Goto(p, "open")
    /\ opening' = [opening EXCEPT ![p] = "packages"]
    /\ at' = [at EXCEPT ![p] = 1]
    /\ actions_performed' = [actions_performed EXCEPT ![p] = {}]
    /\ effects' = [effects EXCEPT ![p] = <<>>]

(* recreateTable("StartupActions"): every record is gone.                  *)
EmptyActionsTable ==
    /\ performed' = {}
    /\ executed' = [i \in Ids |-> 0]

(* Mutant: the loop has no end.                                            *)
CheckActionPast(p) ==
    /\ pc[p] = "actions"
    /\ IF at[p] \in Ids \ performed
       THEN Goto(p, "record") /\ UNCHANGED at
       ELSE NextAction(p)
    /\ UNCHANGED <<opening, actions_performed, effects, file, dblock, serviceVars,
                   region, packageVars, remote, updateVars, countVars, ghostVars>>

(* Mutant: the last action is not looked at.                               *)
CheckActionShort(p) ==
    /\ pc[p] = "actions"
    /\ \/ /\ at[p] >= Len(StartupActions)
          /\ OpenPackages(p)
       \/ /\ at[p] \in performed
          /\ at[p] < Len(StartupActions)
          /\ NextAction(p)
          /\ UNCHANGED <<opening, actions_performed, effects>>
       \/ /\ at[p] \notin performed
          /\ at[p] < Len(StartupActions)
          /\ Goto(p, "record")
          /\ UNCHANGED <<opening, at, actions_performed, effects>>
    /\ UNCHANGED <<file, dblock, serviceVars, region, packageVars, remote,
                   updateVars, countVars, ghostVars>>

(* isActionPerformed.                                                      *)
CheckAction(p) ==
    /\ pc[p] = "actions"
    /\ \/ /\ at[p] > Len(StartupActions)
          /\ OpenPackages(p)
          /\ UNCHANGED <<performed, executed, oldShape>>
       \/ /\ at[p] \in Ids
          /\ oldShape
          /\ oldShape' = FALSE
          /\ EmptyActionsTable
          /\ Goto(p, "record")
          /\ UNCHANGED <<at, opening, actions_performed, effects>>
       \/ /\ at[p] \in performed
          /\ ~oldShape
          /\ NextAction(p)
          /\ UNCHANGED <<opening, actions_performed, effects, performed, executed,
                         oldShape>>
       \/ /\ at[p] \in Ids \ performed
          /\ ~oldShape
          /\ Goto(p, "record")
          /\ UNCHANGED <<at, opening, actions_performed, effects, performed,
                         executed, oldShape>>
    /\ UNCHANGED <<file, dblock, hashed, clientStamp, region, packageVars, remote,
                   updateVars, countVars, ghostVars>>

(* setActionPerformed before the action is done; the insertion throws when *)
(* another process was faster, and the catch ends the startup.             *)
RecordAction(p) ==
    LET a == StartupActions[at[p]] IN
    /\ pc[p] = "record"
    /\ \/ /\ at[p] \in performed
          /\ OpenPackages(p)
          /\ UNCHANGED <<performed, executed>>
       \/ /\ at[p] \notin performed
          /\ a \in actions_performed[p]
          /\ performed' = performed \cup {at[p]}
          /\ NextAction(p)
          /\ UNCHANGED <<opening, executed, actions_performed, effects>>
       \/ /\ at[p] \notin performed
          /\ a \notin actions_performed[p]
          /\ performed' = performed \cup {at[p]}
          /\ executed' = [executed EXCEPT ![at[p]] = @ + 1]
          /\ actions_performed' = [actions_performed EXCEPT ![p] = @ \cup {a}]
          /\ effects' = [effects EXCEPT ![p] = a]
          /\ Goto(p, "effects")
          /\ UNCHANGED <<opening, at>>
    /\ UNCHANGED <<file, dblock, oldShape, hashed, clientStamp, region,
                   packageVars, remote, updateVars, countVars, ghostVars>>

(* CheckSchema: a table whose hash is not the current one is dropped and   *)
(* created anew.                                                           *)
CheckSchema ==
    /\ hashed' = Tables
    /\ IF "StartupActions" \in hashed
       THEN UNCHANGED <<performed, executed, oldShape>>
       ELSE EmptyActionsTable /\ oldShape' = FALSE

(* ClearPackagesDatabase: the file goes, open handles keep what they see.  *)
RemovePackages ==
    /\ file' = [file EXCEPT !["packages"] = "absent"]
    /\ loaded' = NoRows
    /\ handle' = [p \in Procs |-> IF handle[p] = "file" /\ opening[p] = "packages"
                                  THEN "unlinked" ELSE handle[p]]

DoEffect(p) ==
    /\ pc[p] = "effects"
    /\ \/ /\ effects[p] = <<>>
          /\ NextAction(p)
          /\ UNCHANGED <<effects, region, file, loaded, handle, hashed, performed,
                         executed, oldShape>>
       \/ /\ effects[p] # <<>>
          /\ region' = [region EXCEPT ![Head(effects[p])] = "new"]
          /\ effects' = [effects EXCEPT ![p] = Tail(@)]
          /\ IF Head(effects[p]) = "packages_db"
             THEN RemovePackages ELSE UNCHANGED <<file, loaded, handle>>
          /\ IF Head(effects[p]) = "schema"
             THEN CheckSchema
             ELSE UNCHANGED <<hashed, performed, executed, oldShape>>
          /\ UNCHANGED <<pc, at>>
    /\ UNCHANGED <<dblock, clientStamp, csv, fresh, updlock, remote, opening,
                   actions_performed, created, copying, fetched, rows,
                   countVars, ghostVars>>

(* A directory cannot be removed: the exception ends the startup.          *)
EffectFails(p) ==
    /\ pc[p] = "effects"
    /\ effects[p] # <<>>
    /\ failures + crashes < MaxFaults
    /\ failures' = failures + 1
    /\ lost' = TRUE
    /\ OpenPackages(p)
    /\ UNCHANGED <<file, dblock, serviceVars, region, packageVars, remote,
                   updateVars, runs, crashes, overlap>>

-----------------------------------------------------------------------------
(* PackagesDatabase::init.                                                 *)
Unlock(p) == updlock' = updlock \ {p}

InitPackages(p) ==
    /\ pc[p] = "packages_init"
    /\ Goto(p, IF created[p] THEN "download"
               ELSE IF fresh THEN "reopen" ELSE "version")
    /\ UNCHANGED <<file, dblock, serviceVars, region, packageVars, remote,
                   localVars, countVars, ghostVars>>

(* The version file of the server, 0 if it cannot be downloaded.           *)
QueryVersion(p) ==
    /\ pc[p] = "version"
    /\ \E v \in {0, remote} :
          Goto(p, IF v > csv[Version_file] THEN "try_update" ELSE "reopen")
    /\ UNCHANGED <<file, dblock, serviceVars, region, packageVars, remote,
                   localVars, countVars, ghostVars>>

(* single_process_job: who gets the lock does the job, the others wait.    *)
TryUpdate(p) ==
    /\ pc[p] = "try_update"
    /\ \/ updlock = {} /\ updlock' = {p} /\ Goto(p, "download")
       \/ updlock # {} /\ UNCHANGED updlock /\ Goto(p, "wait_update")
    /\ UNCHANGED <<file, dblock, serviceVars, region, csv, loaded, fresh,
                   remote, localVars, countVars, ghostVars>>

WaitUpdate(p) ==
    /\ pc[p] = "wait_update"
    /\ updlock = {}
    /\ Goto(p, "reopen")
    /\ UNCHANGED <<file, dblock, serviceVars, region, packageVars, remote,
                   localVars, countVars, ghostVars>>

(* download(): over what is there, or after the directory was removed.     *)
Download(p) ==
    /\ pc[p] = "download"
    /\ fetched' = [fetched EXCEPT ![p] = remote]
    /\ copying' = [copying EXCEPT ![p] = RepoFiles]
    /\ \/ csv' = [f \in RepoFiles |-> 0]
       \/ UNCHANGED csv
    /\ overlap' = (overlap \/ \E q \in Procs \ {p} : pc[q] \in Updating)
    /\ Goto(p, "copy")
    /\ UNCHANGED <<file, dblock, serviceVars, region, loaded, fresh, updlock,
                   remote, opening, at, actions_performed, effects, handle,
                   created, rows, countVars, lost>>

CopyFile(p) ==
    /\ pc[p] = "copy"
    /\ \E f \in copying[p] :
          /\ csv' = [csv EXCEPT ![f] = fetched[p]]
          /\ copying' = [copying EXCEPT ![p] = @ \ {f}]
    /\ UNCHANGED <<pc, file, dblock, serviceVars, region, loaded, fresh, updlock,
                   remote, opening, at, actions_performed, effects, handle,
                   created, fetched, rows, countVars, ghostVars>>

(* Mutant: the load does not wait for the files.                           *)
DownloadDonePartly(p) ==
    /\ pc[p] = "copy"
    /\ Cardinality(copying[p]) < 2
    /\ fresh' = TRUE
    /\ Goto(p, "load")
    /\ UNCHANGED <<file, dblock, serviceVars, region, csv, loaded, updlock,
                   remote, localVars, countVars, ghostVars>>

(* writeDownloadTime.                                                      *)
DownloadDone(p) ==
    /\ pc[p] = "copy"
    /\ copying[p] = {}
    /\ fresh' = TRUE
    /\ fetched' = [fetched EXCEPT ![p] = 0]
    /\ Goto(p, "load")
    /\ UNCHANGED <<file, dblock, serviceVars, region, csv, loaded, updlock,
                   remote, opening, at, actions_performed, effects, handle,
                   created, copying, rows, countVars, ghostVars>>

(* No answer, or a schema version this client does not know.               *)
UpdateFails(p) ==
    /\ pc[p] \in {"copy", "load"}
    /\ failures + crashes < MaxFaults
    /\ failures' = failures + 1
    /\ Throw(p)
    /\ UNCHANGED <<file, dblock, serviceVars, region, csv, loaded, fresh,
                   remote, localVars, runs, crashes, ghostVars>>

(* load(): the csv files are read one by one in a transaction; SQLite lets *)
(* one process write at a time.  recreate() (line 1015) is for a recorded  *)
(* schema version below that of the files.  The files have version 1 at    *)
(* most, or UpdateFails; and 1 is what every table of the version is       *)
(* created with (line 145): no state of the model comes to it.             *)
Load(p) ==
    /\ pc[p] = "load"
    /\ \A q \in Procs : pc[q] # "commit"
    /\ rows' = [rows EXCEPT ![p] = NoRows]
    /\ Goto(p, "commit")
    /\ UNCHANGED <<file, dblock, serviceVars, region, packageVars, remote,
                   opening, at, actions_performed, effects, handle, created, copying, fetched, countVars, ghostVars>>

LoadTable(p) ==
    /\ pc[p] = "commit"
    /\ \E t \in DataTables :
          /\ rows[p][t] = 0
          /\ IF csv[t] = 0
             THEN Throw(p) /\ UNCHANGED rows
             ELSE /\ rows' = [rows EXCEPT ![p][t] = csv[t]]
                  /\ UNCHANGED <<pc, updlock>>
    /\ UNCHANGED <<file, dblock, serviceVars, region, csv, loaded, fresh, remote,
                   opening, at, actions_performed, effects, handle, created, copying, fetched, countVars, ghostVars>>

(* The rows of a created database are added to what is there, those of an  *)
(* update replace it; keys are unique.                                     *)
Commit(p) ==
    /\ pc[p] = "commit"
    /\ \A t \in DataTables : rows[p][t] # 0
    /\ rows' = [rows EXCEPT ![p] = NoRows]
    /\ Unlock(p)
    /\ \/ /\ handle[p] = "unlinked"
          /\ Goto(p, "reopen")
          /\ UNCHANGED loaded
       \/ /\ handle[p] = "file"
          /\ file["packages"] = "tables"
          /\ created[p] => loaded = NoRows
          /\ loaded' = rows[p]
          /\ Goto(p, "reopen")
       \/ /\ handle[p] = "file"
          /\ file["packages"] # "tables" \/ (created[p] /\ loaded # NoRows)
          /\ Goto(p, "no_packages")
          /\ UNCHANGED loaded
    /\ UNCHANGED <<file, dblock, serviceVars, region, csv, fresh, remote,
                   opening, at, actions_performed, effects, handle,
                   created, copying, fetched, countVars, ghostVars>>

(* open(true): a removed file comes back without tables.                   *)
Reopen(p) ==
    /\ pc[p] = "reopen"
    /\ OpenHandle(p)
    /\ file' = [file EXCEPT !["packages"] = IF @ = "absent" THEN "empty" ELSE @]
    /\ Goto(p, "ready")
    /\ UNCHANGED <<dblock, serviceVars, region, packageVars, remote, opening, at,
                   actions_performed, effects, created, copying, fetched,
                   rows, countVars, ghostVars>>

ProcStep(p) ==
    \/ OpenDatabase(p)
    \/ LockDatabase(p)
    \/ CreateDatabase(p)
    \/ InitTables(p)
    \/ CheckStamp(p)
    \/ ClearFileStamps(p)
    \/ CheckAction(p)
    \/ RecordAction(p)
    \/ DoEffect(p)
    \/ EffectFails(p)
    \/ InitPackages(p)
    \/ QueryVersion(p)
    \/ TryUpdate(p)
    \/ WaitUpdate(p)
    \/ Download(p)
    \/ CopyFile(p)
    \/ DownloadDone(p)
    \/ UpdateFails(p)
    \/ Load(p)
    \/ LoadTable(p)
    \/ Commit(p)
    \/ Reopen(p)

Next ==
    \/ \E p \in Procs : StartRun(p) \/ ProcStep(p) \/ Crash(p)
    \/ Tick
    \/ PublishVersion

Spec == Init /\ [][Next]_vars

-----------------------------------------------------------------------------
(* Properties.                                                             *)

(* "prevent multiple execution of the same actions" (database.cpp:451):    *)
(* several processes look and then insert without a transaction, some of   *)
(* them fail, yet no startup action is done twice while its record exists. *)
ActionsOnce == \A i \in Ids : executed[i] <= 1

(* An action is recorded before it is done (database.cpp:468): a region    *)
(* whose clearing is recorded, with no action left that clears it, is      *)
(* clear, or a process is about to clear it; also when an action is only   *)
(* recorded because an equal one was done, and with processes that race.   *)
Outstanding(r) == \E i \in Ids \ performed : r \in Cleared(StartupActions[i])

ActionsDone ==
    lost \/ \A r \in Regions \ {"file_stamps"} :
        \/ region[r] = "new"
        \/ Outstanding(r)
        \/ \E p \in Procs : pc[p] = "effects" /\ r \in Cleared(effects[p])

(* Once a process has left the startup and none is in it, nothing of an    *)
(* older client is left, whichever of the processes did which action; in a *)
(* storage where no process was killed and no removal failed.              *)
StorageMigrated ==
    (/\ ~lost
     /\ crashes = 0
     /\ \A p \in Procs : ~InStartup(p)
     /\ \E p \in Procs : opening[p] = "packages")
    => \A r \in Regions : region[r] = "new"

(* The startup actions, whichever processes ran them and wherever one of   *)
(* them failed: none was done twice, none that was recorded was lost, and  *)
(* nothing of an older client is left (database.cpp:440-505).              *)
ActionsRight == ActionsOnce /\ ActionsDone /\ StorageMigrated

(* Two processes that find an old packages database do not download or     *)
(* load at the same time (database.cpp:927).                               *)
UpdatesExclusive ==
    \A p, q \in Procs : p # q /\ {pc[p], pc[q]} \subseteq Updating
                        => created[p] \/ created[q]

(* load() turns the foreign keys off (database.cpp:1019): the tables fit   *)
(* together because their rows come from one version of the repository,    *)
(* whatever fails or crashes, as long as updates do not overlap.           *)
PackagesConsistent ==
    overlap \/ \A t, u \in DataTables : loaded[t] = loaded[u]

(* Updates exclude each other as far as they take the lock, and leave      *)
(* tables that fit together (database.cpp:905-1080).                       *)
PackagesRight == UpdatesExclusive /\ PackagesConsistent

(* "multiprocess aware" (database.cpp:927): at most one process downloads  *)
(* or loads the packages database.                                         *)
OneUpdater == ~overlap
=============================================================================

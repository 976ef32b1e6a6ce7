--------------------------- MODULE PackageDownload ---------------------------
(***************************************************************************)
(* Several cppan processes download packages into one storage directory.   *)
(*                                                                         *)
(* Modelled: Resolver::resolve, Resolver::download_and_unpack with its     *)
(* download threads, Remote::downloadPackage, PackageStore::add_config,    *)
(* Resolver::read_configs and post_download, the part of cleanPackages     *)
(* that removes sources, Patch::patchSources, PackageStore::write_index,   *)
(* and the loops of PackageStore that give each local config with          *)
(* unresolved dependencies a Resolver of its own: a round of the run.      *)
(*                                                                         *)
(* The storage directory outlives a process: stamp files, version          *)
(* directories, the InstalledPackages table of the service database and    *)
(* the lock files, which the operating system releases with the process.   *)
(* Everything in "rd" (the PackageStore) dies with the process.            *)
(*                                                                         *)
(* An archive is the number of its publication: the hash of the n-th       *)
(* archive published for a package is n, and Archive[n] is the set of      *)
(* files in it.  0 is "no hash" or "no archive".                           *)
(***************************************************************************)
EXTENDS Naturals, FiniteSets, Sequences

CONSTANTS
    Procs,          \* cppan processes that share the storage directory
    Pkgs,           \* packages each of them depends on
    Rounds,         \* the packages that each Resolver of a run resolves
    Files,          \* names of the files in the archives
    Spec_yml,       \* CPPAN_FILENAME, the specification file of a package
    Archive,        \* Archive[n]: the files of the n-th publication
    MaxPublish,     \* bound: publications of one package
    MaxRuns,        \* bound: runs of one process
    MaxThreads,     \* max_download_threads of the local settings
    MaxCrashes,     \* bound: processes killed
    QueryModes,     \* values of !force_server_query
    VerifyAll       \* verify_all of the local settings

Hash == 1..MaxPublish
HashOrNone == 0..MaxPublish

ASSUME DownloadAssumption ==
    /\ Rounds \in Seq(SUBSET Pkgs)
    /\ Len(Rounds) > 0
    /\ MaxPublish \in Nat \ {0}
    /\ MaxRuns \in Nat
    /\ MaxThreads \in Nat \ {0}
    /\ MaxCrashes \in Nat
    /\ Spec_yml \in Files
    /\ Archive \in [Hash -> SUBSET Files]
    /\ \A h \in Hash : Spec_yml \in Archive[h]
    /\ QueryModes \subseteq BOOLEAN
    /\ VerifyAll \in BOOLEAN

VARIABLES
    (* The storage directory *)
    stamp,      \* stamp[k]: hash in the stamp file of package k, 0 if absent
    dir,        \* dir[k][f]: archive that file f of k's version dir is from
    patched,    \* patched[k][f]: times the replace rules ran on f, up to 2
    lock,       \* lock[k]: processes holding the lock file of k
    installed,  \* packages in the InstalledPackages table
    (* The server and the packages database *)
    published,  \* published[k]: archive the sources serve now
    indexed,    \* indexed[k]: hash in the local packages database
    (* A process: where its run is, and its Resolver *)
    stage,      \* stage[p]: what the run of p is doing
    round,      \* round[p]: index in Rounds of the Resolver that runs
    queryLocalDb, \* Resolver::query_local_db
    (* Its PackageStore and cleaned_packages *)
    config,     \* config[p][k]: the Config of k in rd.packages
    cleaned,    \* packages whose sources cleanPackage has removed
    downloads,  \* rd.has_downloads()
    pending,    \* packages left in the loop of read_configs or post_download
    (* Its download threads: one task per package *)
    task,       \* task[p][k]: where the task is
    want,       \* want[p][k]: d.hash of the download dependency
    got,        \* got[p][k]: archive that was downloaded
    todo,       \* todo[p][k]: files still to be unpacked
    (* Bounds *)
    runs,       \* runs[p]: runs p has started
    crashes     \* processes killed so far

diskVars == <<stamp, dir, patched, lock, installed>>
serverVars == <<published, indexed>>
runVars == <<stage, round, queryLocalDb>>
storeVars == <<config, cleaned, downloads, pending>>
taskVars == <<task, want, got, todo>>
boundVars == <<runs, crashes>>
vars == <<diskVars, serverVars, runVars, storeVars, taskVars, boundVars>>

-----------------------------------------------------------------------------
(* Stages of a run: resolve() picks the hashes, pool runs the download     *)
(* threads, then read_configs(), post_download(), write_index().           *)
RunStages == {"resolve", "pool", "read", "post", "index"}
Stages == RunStages \cup {"idle", "done", "failed"}

(* Stages of a download task.  In the Owning ones it holds the lock file.  *)
Owning == {"download", "clean", "remove", "write_stamp", "unpack",
           "add_config", "insert", "insert_default"}
Running == Owning \cup {"stamp", "exists", "try_lock", "wait"}
Returned == {"ok", "mismatch", "error"}
TaskStages == Running \cup Returned \cup {"none", "queued"}

(* A Config in rd.packages: absent; made by add_config (created = true),   *)
(* from the specification or by default; or made by read_config.           *)
ConfigKinds == {"none", "created", "created_default", "read"}

NoFiles == [f \in Files |-> 0]
Present(k) == {f \in Files : dir[k][f] # 0}
DirExists(k) == Present(k) # {}
Holds(p, k) == task[p][k] \in Owning
Free(k) == lock[k] = {}
Batch(p) == Rounds[round[p]]
Finished(p) == \A k \in Batch(p) : task[p][k] \in Returned

TypeOK ==
    /\ stamp \in [Pkgs -> HashOrNone]
    /\ dir \in [Pkgs -> [Files -> HashOrNone]]
    /\ patched \in [Pkgs -> [Files -> 0..2]]
    /\ lock \in [Pkgs -> SUBSET Procs]
    /\ installed \in SUBSET Pkgs
    /\ published \in [Pkgs -> Hash]
    /\ indexed \in [Pkgs -> Hash]
    /\ stage \in [Procs -> Stages]
    /\ round \in [Procs -> 1..Len(Rounds)]
    /\ queryLocalDb \in [Procs -> BOOLEAN]
    /\ config \in [Procs -> [Pkgs -> ConfigKinds]]
    /\ cleaned \in [Procs -> SUBSET Pkgs]
    /\ downloads \in [Procs -> BOOLEAN]
    /\ pending \in [Procs -> SUBSET Pkgs]
    /\ task \in [Procs -> [Pkgs -> TaskStages]]
    /\ want \in [Procs -> [Pkgs -> HashOrNone]]
    /\ got \in [Procs -> [Pkgs -> HashOrNone]]
    /\ todo \in [Procs -> [Pkgs -> SUBSET Files]]
    /\ runs \in [Procs -> Nat]
    /\ crashes \in Nat

Init ==
    /\ stamp = [k \in Pkgs |-> 0]
    /\ dir = [k \in Pkgs |-> NoFiles]
    /\ patched = [k \in Pkgs |-> NoFiles]
    /\ lock = [k \in Pkgs |-> {}]
    /\ installed = {}
    /\ published = [k \in Pkgs |-> 1]
    /\ indexed = [k \in Pkgs |-> 1]
    /\ stage = [p \in Procs |-> "idle"]
    /\ round = [p \in Procs |-> 1]
    /\ queryLocalDb = [p \in Procs |-> FALSE]
    /\ config = [p \in Procs |-> [k \in Pkgs |-> "none"]]
    /\ cleaned = [p \in Procs |-> {}]
    /\ downloads = [p \in Procs |-> FALSE]
    /\ pending = [p \in Procs |-> {}]
    /\ task = [p \in Procs |-> [k \in Pkgs |-> "none"]]
    /\ want = [p \in Procs |-> [k \in Pkgs |-> 0]]
    /\ got = [p \in Procs |-> [k \in Pkgs |-> 0]]
    /\ todo = [p \in Procs |-> [k \in Pkgs |-> {}]]
    /\ runs = [p \in Procs |-> 0]
    /\ crashes = 0

-----------------------------------------------------------------------------
(* The server: a package is published again under the same version, which  *)
(* a branch version allows; the local database learns of it later.         *)
Publish(k) ==
    /\ published[k] < MaxPublish
    /\ published' = [published EXCEPT ![k] = @ + 1]
    /\ UNCHANGED <<indexed, diskVars, runVars, storeVars, taskVars, boundVars>>

UpdateIndex(k) ==
    /\ indexed[k] # published[k]
    /\ indexed' = [indexed EXCEPT ![k] = published[k]]
    /\ UNCHANGED <<published, diskVars, runVars, storeVars, taskVars, boundVars>>

-----------------------------------------------------------------------------
(* Nothing that lives in memory survives from one process to the next.     *)
Forget(p) ==
    /\ round' = [round EXCEPT ![p] = 1]
    /\ config' = [config EXCEPT ![p] = [k \in Pkgs |-> "none"]]
    /\ cleaned' = [cleaned EXCEPT ![p] = {}]
    /\ downloads' = [downloads EXCEPT ![p] = FALSE]
    /\ pending' = [pending EXCEPT ![p] = {}]
    /\ task' = [task EXCEPT ![p] = [k \in Pkgs |-> "none"]]
    /\ want' = [want EXCEPT ![p] = [k \in Pkgs |-> 0]]
    /\ got' = [got EXCEPT ![p] = [k \in Pkgs |-> 0]]
    /\ todo' = [todo EXCEPT ![p] = [k \in Pkgs |-> {}]]

(* A Resolver starts with query_local_db = !force_server_query.            *)
NewResolver(p) ==
    /\ stage' = [stage EXCEPT ![p] = "resolve"]
    /\ \E q \in QueryModes : queryLocalDb' = [queryLocalDb EXCEPT ![p] = q]

StartRun(p) ==
    /\ stage[p] \notin RunStages
    /\ runs[p] < MaxRuns
    /\ runs' = [runs EXCEPT ![p] = @ + 1]
    /\ Forget(p)
    /\ NewResolver(p)
    /\ UNCHANGED <<crashes, diskVars, serverVars>>

(* The process is killed: its threads stop where they are and the system   *)
(* releases its file locks.                                                *)
Crash(p) ==
    /\ stage[p] \in RunStages
    /\ crashes < MaxCrashes
    /\ crashes' = crashes + 1
    /\ Forget(p)
    /\ stage' = [stage EXCEPT ![p] = "idle"]
    /\ lock' = [k \in Pkgs |-> lock[k] \ {p}]
    /\ UNCHANGED <<stamp, dir, patched, installed, queryLocalDb, runs, serverVars>>

-----------------------------------------------------------------------------
(* resolve(): download_dependencies_ is filled and every entry becomes a   *)
(* task of the executor.                                                   *)
Enqueue(p, hashes) ==
    LET Fill(old, new) == [k \in Pkgs |-> IF k \in Batch(p) THEN new ELSE old[k]]
    IN  /\ want' = [want EXCEPT ![p] = [k \in Pkgs |-> IF k \in Batch(p)
                                                     THEN hashes[k] ELSE @[k]]]
        /\ task' = [task EXCEPT ![p] = Fill(@, "queued")]
        /\ got' = [got EXCEPT ![p] = Fill(@, 0)]
        /\ todo' = [todo EXCEPT ![p] = Fill(@, {})]
        /\ stage' = [stage EXCEPT ![p] = "pool"]
        /\ UNCHANGED <<round, storeVars, boundVars, diskVars, serverVars>>

(* getDependenciesFromDb: the hashes come from the local database.         *)
ResolveLocal(p) ==
    /\ stage[p] = "resolve"
    /\ queryLocalDb[p]
    /\ Enqueue(p, indexed)
    /\ UNCHANGED queryLocalDb

(* getDependenciesFromRemote, either at once or because the local database *)
(* could not answer; query_local_db is false from here on.                 *)
ResolveRemote(p) ==
    /\ stage[p] = "resolve"
    /\ Enqueue(p, published)
    /\ queryLocalDb' = [queryLocalDb EXCEPT ![p] = FALSE]

(* No remote answers: DependencyNotResolved ends the run.                  *)
ResolveFails(p) ==
    /\ stage[p] = "resolve"
    /\ queryLocalDb' = [queryLocalDb EXCEPT ![p] = FALSE]
    /\ stage' = [stage EXCEPT ![p] = "failed"]
    /\ UNCHANGED <<round, storeVars, boundVars, diskVars, serverVars, taskVars>>

-----------------------------------------------------------------------------
(* Download tasks.  Goto moves the task of p for k.                        *)
Goto(p, k, s) == task' = [task EXCEPT ![p][k] = s]
Acquire(p, k) == lock' = [lock EXCEPT ![k] = {p}]
Release(k) == lock' = [lock EXCEPT ![k] = {}]

(* remove_all where only its outcome matters.                              *)
RemoveDir(k) ==
    /\ dir' = [dir EXCEPT ![k] = NoFiles]
    /\ patched' = [patched EXCEPT ![k] = NoFiles]

(* A thread of the pool takes the task.                                    *)
PickTask(p, k) ==
    /\ task[p][k] = "queued"
    /\ Cardinality({j \in Pkgs : task[p][j] \in Running}) < MaxThreads
    /\ Goto(p, k, "stamp")
    /\ UNCHANGED <<want, got, todo, diskVars, serverVars, runVars, storeVars,
                   boundVars>>

(* must_download: the stamp file holds another hash than the wanted one.   *)
ReadStamp(p, k) ==
    /\ task[p][k] = "stamp"
    /\ Goto(p, k, IF stamp[k] = want[p][k] THEN "exists" ELSE "try_lock")
    /\ UNCHANGED <<want, got, todo, diskVars, serverVars, runVars, storeVars,
                   boundVars>>

(* Up to date if the version directory is there; no lock is held here.     *)
CheckDir(p, k) ==
    /\ task[p][k] = "exists"
    /\ Goto(p, k, IF DirExists(k) THEN "ok" ELSE "try_lock")
    /\ UNCHANGED <<want, got, todo, diskVars, serverVars, runVars, storeVars,
                   boundVars>>

(* Mutant: the result of try_lock is ignored.                              *)
TryLockIgnored(p, k) ==
    /\ task[p][k] = "try_lock"
    /\ Acquire(p, k)
    /\ Goto(p, k, "download")
    /\ UNCHANGED <<stamp, dir, patched, installed, want, got, todo, serverVars,
                   runVars, storeVars, boundVars>>

(* Mutant: the old version is cleaned before the new one is downloaded.    *)
TryLockAndClean(p, k) ==
    /\ task[p][k] = "try_lock"
    /\ \/ /\ Free(k)
          /\ Acquire(p, k)
          /\ Goto(p, k, "download")
          /\ RemoveDir(k)
       \/ /\ ~Free(k)
          /\ Goto(p, k, "wait")
          /\ UNCHANGED <<lock, dir, patched>>
    /\ UNCHANGED <<stamp, installed, want, got, todo, serverVars, runVars,
                   storeVars, boundVars>>

TryLock(p, k) ==
    /\ task[p][k] = "try_lock"
    /\ \/ /\ Free(k)
          /\ Acquire(p, k)
          /\ Goto(p, k, "download")
       \/ /\ ~Free(k)
          /\ Goto(p, k, "wait")
          /\ UNCHANGED lock
    /\ UNCHANGED <<stamp, dir, patched, installed, want, got, todo, serverVars,
                   runVars, storeVars, boundVars>>

(* Another process downloads: wait for its lock, then register the config. *)
WaitLock(p, k) ==
    /\ task[p][k] = "wait"
    /\ Free(k)
    /\ Acquire(p, k)
    /\ Goto(p, k, "add_config")
    /\ UNCHANGED <<stamp, dir, patched, installed, want, got, todo, serverVars,
                   runVars, storeVars, boundVars>>

(* downloadPackage succeeds: the archive served has the wanted hash.       *)
DownloadOk(p, k) ==
    /\ task[p][k] = "download"
    /\ published[k] = want[p][k]
    /\ got' = [got EXCEPT ![p][k] = published[k]]
    /\ Goto(p, k, "clean")
    /\ UNCHANGED <<want, todo, diskVars, serverVars, runVars, storeVars,
                   boundVars>>

(* With try_only_first the first source fails or its hash differs: the     *)
(* task throws LocalDbHashException and the lock goes out of scope.        *)
DownloadMismatch(p, k) ==
    /\ task[p][k] = "download"
    /\ queryLocalDb[p]
    /\ Goto(p, k, "mismatch")
    /\ Release(k)
    /\ UNCHANGED <<stamp, dir, patched, installed, want, got, todo, serverVars,
                   runVars, storeVars, boundVars>>

(* Without it every source is tried and downloadPackage returns true when  *)
(* all have failed: the file is what was served last, or is unusable (0).  *)
DownloadUnchecked(p, k) ==
    /\ task[p][k] = "download"
    /\ ~queryLocalDb[p]
    /\ \E a \in {0, published[k]} : got' = [got EXCEPT ![p][k] = a]
    /\ Goto(p, k, "clean")
    /\ UNCHANGED <<want, todo, diskVars, serverVars, runVars, storeVars,
                   boundVars>>

(* verify(d, fn): the archive differs from what its source gives, or that  *)
(* cannot be downloaded; the exception leaves the task before anything is  *)
(* cleaned.                                                                *)
VerifyFails(p, k) ==
    /\ task[p][k] = "clean"
    /\ VerifyAll
    /\ Goto(p, k, "error")
    /\ Release(k)
    /\ UNCHANGED <<stamp, dir, patched, installed, want, got, todo, serverVars,
                   runVars, storeVars, boundVars>>

(* cleanPackages(d.target_name): only an installed package is cleaned, and *)
(* its sources only once by a process.                                     *)
CleanOld(p, k) ==
    /\ task[p][k] = "clean"
    /\ \/ /\ k \in installed
          /\ k \notin cleaned[p]
          /\ cleaned' = [cleaned EXCEPT ![p] = @ \cup {k}]
          /\ Goto(p, k, "remove")
       \/ /\ k \notin installed \/ k \in cleaned[p]
          /\ Goto(p, k, "write_stamp")
          /\ UNCHANGED cleaned
    /\ UNCHANGED <<config, downloads, pending, want, got, todo, diskVars,
                   serverVars, runVars, boundVars>>

(* remove_all(pkg.getDirSrc()) removes one file after the other.           *)
RemoveFile(p, k) ==
    /\ task[p][k] = "remove"
    /\ \E f \in Present(k) :
          /\ dir' = [dir EXCEPT ![k][f] = 0]
          /\ patched' = [patched EXCEPT ![k][f] = 0]
    /\ UNCHANGED <<stamp, lock, installed, taskVars, serverVars, runVars,
                   storeVars, boundVars>>

(* removeInstalledPackage, once the sources are gone.                      *)
RemoveDone(p, k) ==
    /\ task[p][k] = "remove"
    /\ ~DirExists(k)
    /\ installed' = installed \ {k}
    /\ Goto(p, k, "write_stamp")
    /\ UNCHANGED <<stamp, dir, patched, lock, want, got, todo, serverVars,
                   runVars, storeVars, boundVars>>

(* Mutant: the stamp is left for later.                                    *)
WriteStampLater(p, k) ==
    /\ task[p][k] = "write_stamp"
    /\ downloads' = [downloads EXCEPT ![p] = TRUE]
    /\ todo' = [todo EXCEPT ![p][k] = IF got[p][k] = 0 THEN {}
                                      ELSE Archive[got[p][k]]]
    /\ Goto(p, k, "unpack")
    /\ UNCHANGED <<diskVars, config, cleaned, pending, want, got, serverVars,
                   runVars, boundVars>>

(* rd.downloads++ and write_file(hash_file, d.hash), before the unpacking. *)
WriteStamp(p, k) ==
    /\ task[p][k] = "write_stamp"
    /\ downloads' = [downloads EXCEPT ![p] = TRUE]
    /\ stamp' = [stamp EXCEPT ![k] = want[p][k]]
    /\ todo' = [todo EXCEPT ![p][k] = IF got[p][k] = 0 THEN {}
                                      ELSE Archive[got[p][k]]]
    /\ Goto(p, k, "unpack")
    /\ UNCHANGED <<dir, patched, lock, installed, config, cleaned, pending,
                   want, got, serverVars, runVars, boundVars>>

(* unpack_file writes the files of the archive one after the other.        *)
UnpackFile(p, k) ==
    /\ task[p][k] = "unpack"
    /\ \E f \in todo[p][k] :
          /\ dir' = [dir EXCEPT ![k][f] = got[p][k]]
          /\ patched' = [patched EXCEPT ![k][f] = 0]
          /\ todo' = [todo EXCEPT ![p][k] = @ \ {f}]
    /\ UNCHANGED <<stamp, lock, installed, task, want, got, serverVars, runVars,
                   storeVars, boundVars>>

(* Mutant: the task goes on before the archive is unpacked.                *)
UnpackDoneEarly(p, k) ==
    /\ task[p][k] = "unpack"
    /\ got[p][k] # 0
    /\ Goto(p, k, "add_config")
    /\ UNCHANGED <<want, got, todo, diskVars, serverVars, runVars, storeVars,
                   boundVars>>

UnpackDone(p, k) ==
    /\ task[p][k] = "unpack"
    /\ got[p][k] # 0
    /\ todo[p][k] = {}
    /\ Goto(p, k, "add_config")
    /\ UNCHANGED <<want, got, todo, diskVars, serverVars, runVars, storeVars,
                   boundVars>>

(* Mutant: the exception leaves the lock file locked.                      *)
UnpackFailsLocked(p, k) ==
    /\ task[p][k] = "unpack"
    /\ got[p][k] = 0
    /\ RemoveDir(k)
    /\ Goto(p, k, "error")
    /\ UNCHANGED <<stamp, lock, installed, want, got, todo, serverVars, runVars,
                   storeVars, boundVars>>

(* The archive is unusable: the version directory is removed, not the      *)
(* stamp, and the exception leaves the task.                               *)
UnpackFails(p, k) ==
    /\ task[p][k] = "unpack"
    /\ got[p][k] = 0
    /\ RemoveDir(k)
    /\ Release(k)
    /\ Goto(p, k, "error")
    /\ UNCHANGED <<stamp, installed, want, got, todo, serverVars, runVars,
                   storeVars, boundVars>>

(* add_config reads the version directory: without the specification file  *)
(* it builds a default project, without the directory it throws, and so it *)
(* does if the file cannot be loaded: the directory stays.                 *)
LoadConfig(p, k) ==
    /\ task[p][k] = "add_config"
    /\ \/ /\ DirExists(k)
          /\ Goto(p, k, IF Spec_yml \in Present(k) THEN "insert"
                                                   ELSE "insert_default")
          /\ UNCHANGED lock
       \/ /\ ~DirExists(k) \/ Spec_yml \in Present(k)
          /\ Goto(p, k, "error")
          /\ Release(k)
    /\ UNCHANGED <<stamp, dir, patched, installed, want, got, todo, serverVars,
                   runVars, storeVars, boundVars>>

(* The insertion into rd.packages is not synchronised: when two threads of *)
(* a process insert at once, an insertion may be lost.                     *)
Inserting(p, k) == task[p][k] \in {"insert", "insert_default"}

InsertConfig(p, k) ==
    /\ Inserting(p, k)
    /\ \/ config' = [config EXCEPT ![p][k] = IF task[p][k] = "insert"
                                             THEN "created"
                                             ELSE "created_default"]
       \/ /\ \E j \in Pkgs \ {k} : Inserting(p, j)
          /\ UNCHANGED config
    /\ Release(k)
    /\ Goto(p, k, "ok")
    /\ UNCHANGED <<stamp, dir, patched, installed, cleaned, downloads, pending,
                   want, got, todo, serverVars, runVars, boundVars>>

TaskStep(p, k) ==
    \/ PickTask(p, k)
    \/ ReadStamp(p, k)
    \/ CheckDir(p, k)
    \/ TryLock(p, k)
    \/ WaitLock(p, k)
    \/ DownloadOk(p, k)
    \/ DownloadMismatch(p, k)
    \/ DownloadUnchecked(p, k)
    \/ VerifyFails(p, k)
    \/ CleanOld(p, k)
    \/ RemoveFile(p, k)
    \/ RemoveDone(p, k)
    \/ WriteStamp(p, k)
    \/ UnpackFile(p, k)
    \/ UnpackDone(p, k)
    \/ UnpackFails(p, k)
    \/ LoadConfig(p, k)
    \/ InsertConfig(p, k)

-----------------------------------------------------------------------------
(* All futures are waited for, then get() rethrows one of the exceptions.  *)
JoinOk(p) ==
    /\ stage[p] = "pool"
    /\ \A k \in Batch(p) : task[p][k] = "ok"
    /\ stage' = [stage EXCEPT ![p] = "read"]
    /\ pending' = [pending EXCEPT ![p] = Batch(p)]
    /\ UNCHANGED <<round, queryLocalDb, config, cleaned, downloads, diskVars,
                   serverVars, taskVars, boundVars>>

(* LocalDbHashException: the second attempt asks the remote.               *)
JoinRetry(p) ==
    /\ stage[p] = "pool"
    /\ Finished(p)
    /\ \E k \in Batch(p) : task[p][k] = "mismatch"
    /\ stage' = [stage EXCEPT ![p] = "resolve"]
    /\ queryLocalDb' = [queryLocalDb EXCEPT ![p] = FALSE]
    /\ UNCHANGED <<round, storeVars, diskVars, serverVars, taskVars, boundVars>>

(* Any other exception leaves the run.                                     *)
JoinFails(p) ==
    /\ stage[p] = "pool"
    /\ Finished(p)
    /\ \E k \in Batch(p) : task[p][k] = "error"
    /\ stage' = [stage EXCEPT ![p] = "failed"]
    /\ UNCHANGED <<round, queryLocalDb, storeVars, diskVars, serverVars,
                   taskVars, boundVars>>

(* Mutant: the specification file is not looked for.                       *)
ReadConfigAnyway(p, k) ==
    /\ stage[p] = "read"
    /\ k \in pending[p]
    /\ pending' = [pending EXCEPT ![p] = @ \ {k}]
    /\ config' = [config EXCEPT
                    ![p][k] = IF @ = "none" /\ DirExists(k) THEN "read" ELSE @]
    /\ UNCHANGED <<cleaned, downloads, diskVars, serverVars, runVars, taskVars,
                   boundVars>>

(* Mutant: "ptr->created = created" comes back as true.                    *)
ReadConfigCreated(p, k) ==
    /\ stage[p] = "read"
    /\ k \in pending[p]
    /\ Spec_yml \in Present(k)
    /\ pending' = [pending EXCEPT ![p] = @ \ {k}]
    /\ config' = [config EXCEPT ![p][k] = IF @ = "none" THEN "created" ELSE @]
    /\ UNCHANGED <<cleaned, downloads, diskVars, serverVars, runVars, taskVars,
                   boundVars>>

(* read_config: a missing directory or a known package is skipped; without *)
(* the specification file, or when it cannot be loaded (another process    *)
(* may be writing it), the directory is removed, under no lock, and the    *)
(* run fails.                                                              *)
ReadConfig(p, k) ==
    /\ stage[p] = "read"
    /\ k \in pending[p]
    /\ \/ /\ ~DirExists(k) \/ config[p][k] # "none"
          /\ pending' = [pending EXCEPT ![p] = @ \ {k}]
          /\ UNCHANGED <<dir, patched, config, stage>>
       \/ /\ DirExists(k)
          /\ config[p][k] = "none"
          /\ Spec_yml \in Present(k)
          /\ pending' = [pending EXCEPT ![p] = @ \ {k}]
          /\ config' = [config EXCEPT ![p][k] = "read"]
          /\ UNCHANGED <<dir, patched, stage>>
       \/ /\ DirExists(k)
          /\ config[p][k] = "none"
          /\ RemoveDir(k)
          /\ stage' = [stage EXCEPT ![p] = "failed"]
          /\ UNCHANGED <<pending, config>>
    /\ UNCHANGED <<stamp, lock, installed, round, queryLocalDb, cleaned,
                   downloads, serverVars, taskVars, boundVars>>

ReadDone(p) ==
    /\ stage[p] = "read"
    /\ pending[p] = {}
    /\ stage' = [stage EXCEPT ![p] = "post"]
    /\ pending' = [pending EXCEPT ![p] = {k \in Pkgs : config[p][k] # "none"}]
    /\ UNCHANGED <<round, queryLocalDb, config, cleaned, downloads, diskVars,
                   serverVars, taskVars, boundVars>>

(* The replace rules run on every source file of the package.              *)
PatchSources(k) ==
    patched' = [patched EXCEPT ![k] =
        [f \in Files |-> IF f \in Present(k) \ {Spec_yml} /\ @[f] < 2
                         THEN @[f] + 1 ELSE @[f]]]

(* Config::post_download of every package in rd: only a created config     *)
(* patches its sources, which throws when the directory is gone.  A        *)
(* default project has no rules.                                           *)
PostDownload(p, k) ==
    /\ stage[p] = "post"
    /\ k \in pending[p]
    /\ \/ /\ \/ config[p][k] = "read"
             \/ config[p][k] = "created_default" /\ DirExists(k)
          /\ pending' = [pending EXCEPT ![p] = @ \ {k}]
          /\ UNCHANGED <<patched, stage>>
       \/ /\ config[p][k] = "created"
          /\ DirExists(k)
          /\ pending' = [pending EXCEPT ![p] = @ \ {k}]
          /\ PatchSources(k)
          /\ UNCHANGED stage
       \/ /\ config[p][k] # "read"
          /\ ~DirExists(k)
          /\ stage' = [stage EXCEPT ![p] = "failed"]
          /\ UNCHANGED <<patched, pending>>
    /\ UNCHANGED <<stamp, dir, lock, installed, round, queryLocalDb, config,
                   cleaned, downloads, serverVars, taskVars, boundVars>>

PostDone(p) ==
    /\ stage[p] = "post"
    /\ pending[p] = {}
    /\ stage' = [stage EXCEPT ![p] = "index"]
    /\ UNCHANGED <<round, queryLocalDb, storeVars, diskVars, serverVars,
                   taskVars, boundVars>>

(* Mutant: one Resolver too many.                                          *)
WriteIndexAgain(p) ==
    /\ stage[p] = "index"
    /\ installed' = installed \cup {k \in Pkgs : config[p][k] # "none"}
    /\ round' = [round EXCEPT ![p] = @ + 1]
    /\ NewResolver(p)
    /\ UNCHANGED <<stamp, dir, patched, lock, storeVars, serverVars, taskVars,
                   boundVars>>

(* write_index: every package of rd is recorded as installed; then the     *)
(* next config with unresolved dependencies gets its Resolver.             *)
WriteIndex(p) ==
    /\ stage[p] = "index"
    /\ installed' = installed \cup {k \in Pkgs : config[p][k] # "none"}
    /\ \/ /\ round[p] < Len(Rounds)
          /\ round' = [round EXCEPT ![p] = @ + 1]
          /\ NewResolver(p)
       \/ /\ round[p] = Len(Rounds)
          /\ stage' = [stage EXCEPT ![p] = "done"]
          /\ UNCHANGED <<round, queryLocalDb>>
    /\ UNCHANGED <<stamp, dir, patched, lock, storeVars, serverVars, taskVars,
                   boundVars>>

RunStep(p) ==
    \/ ResolveLocal(p)
    \/ ResolveRemote(p)
    \/ ResolveFails(p)
    \/ JoinOk(p)
    \/ JoinRetry(p)
    \/ JoinFails(p)
    \/ \E k \in Pkgs : ReadConfig(p, k)
    \/ ReadDone(p)
    \/ \E k \in Pkgs : PostDownload(p, k)
    \/ PostDone(p)
    \/ WriteIndex(p)

-----------------------------------------------------------------------------
Next ==
    \/ \E p \in Procs : StartRun(p) \/ RunStep(p) \/ Crash(p)
    \/ \E p \in Procs, k \in Pkgs : TaskStep(p, k)
    \/ \E k \in Pkgs : Publish(k) \/ UpdateIndex(k)

(* A run and each of its threads are scheduled by the operating system; a  *)
(* user need not start a run, nor a maintainer publish.                    *)
Fairness ==
    /\ \A p \in Procs : WF_vars(RunStep(p))
    /\ \A p \in Procs, k \in Pkgs : WF_vars(TaskStep(p, k))

Spec == Init /\ [][Next]_vars
FairSpec == Spec /\ Fairness

-----------------------------------------------------------------------------
(* Properties.                                                             *)

(* "lock, so only one cppan process at the time could download the         *)
(* project" (resolver.cpp:232): between taking the lock file and releasing *)
(* it, on every path out of download_dependency, no other process is       *)
(* downloading, cleaning, stamping, unpacking or reading that package      *)
(* under the lock.                                                         *)
OneDownloader ==
    \A k \in Pkgs : \A p, q \in Procs : Holds(p, k) /\ Holds(q, k) => p = q

(* A lock file is never left held by a task that has returned or a process *)
(* that is gone, and never missing from a task in its critical section.    *)
LockOwner == \A k \in Pkgs : lock[k] = {p \in Procs : Holds(p, k)}

(* Every future is waited for before one of them is asked for its result   *)
(* (resolver.cpp:317), so no thread outlives the attempt that started it:  *)
(* not when its sibling throws, and not when the next attempt or round     *)
(* starts its own tasks.                                                   *)
ThreadsInPool ==
    \A p \in Procs, k \in Pkgs :
        task[p][k] \in Running \cup {"queued"} => stage[p] = "pool" /\ k \in Batch(p)

(* While a process replaces the sources of a package, the stamp already    *)
(* names the hash it wanted, whatever other processes and publications do: *)
(* write_file(hash_file, d.hash) precedes unpack_file (resolver.cpp:259).  *)
StampBeforeSources ==
    \A p \in Procs, k \in Pkgs : task[p][k] = "unpack" => stamp[k] = want[p][k]

(* What makes the lock file work, together: who holds it, who outlives     *)
(* whom and what the stamp says.  It is inductive.                         *)
IInv ==
    /\ TypeOK
    /\ ThreadsInPool
    /\ LockOwner
    /\ OneDownloader
    /\ StampBeforeSources

(* "Do this before we clean previous package version! ... so we won't lost *)
(* existing package" (resolver.cpp:242): the sources of a package that has *)
(* its specification change only by a process that holds the lock and is   *)
(* past its download and verification, or by one whose run fails because   *)
(* it could not load the specification: that one removes all of them, and  *)
(* the lock does not keep it from it (resolver.cpp:488).                   *)
GivesUp(p, k) ==
    /\ stage[p] = "read" /\ k \in pending[p] /\ config[p][k] = "none"
    /\ stage'[p] = "failed"
    /\ dir'[k] = NoFiles

OldSourcesKept ==
    [][\A k \in Pkgs :
          \/ dir'[k] = dir[k]
          \/ Spec_yml \notin Present(k)
          \/ \E p \in Procs :
                \/ lock[k] = {p} /\ task[p][k] \in {"remove", "unpack"}
                \/ GivesUp(p, k)]_vars

(* With one process, a run that succeeds leaves every package with its     *)
(* specification, a config read from it and the stamp of the hash that was *)
(* wanted, whatever failed, crashed or was published before: the next      *)
(* steps (printing, building) use all three.                               *)
SuccessComplete ==
    \A p \in Procs : stage[p] = "done" =>
        \A r \in DOMAIN Rounds : \A k \in Rounds[r] :
            /\ Spec_yml \in Present(k)
            /\ config[p][k] \in {"created", "read"}
            /\ stamp[k] = want[p][k]

(* A config is "created" when "we create this project for the first time"  *)
(* (config.h:79), and only a created one patches: the replace rules, which *)
(* are not idempotent, run at most once over an unpacked file of a run     *)
(* with one Resolver, as long as no other process waits for the download:  *)
(* a waiter registers the config as created, too (resolver.cpp:238), and   *)
(* patches the same files again, and so does the next Resolver of a run    *)
(* (README).  A file that an earlier archive left behind is not counted.   *)
PatchedAtMostOnce ==
    \A k \in Pkgs : \A f \in Files :
        dir[k][f] = dir[k][Spec_yml] => patched[k][f] <= 1

(* "Config::created is needed for patching sources" (resolver.cpp:471): a  *)
(* run that succeeds leaves no source file unpatched.                      *)
SourcesPatched ==
    \A p \in Procs : stage[p] = "done" =>
        \A k \in Pkgs : \A f \in Present(k) \ {Spec_yml} : patched[k][f] > 0

(* What download_dependency takes for up to date without looking further   *)
(* (a version directory, and the stamp of the wanted hash) is the whole    *)
(* archive of that hash, for an archive that was never replaced and while  *)
(* no process was killed: every failure of a download, an unpacking or a   *)
(* sibling task leaves a directory the next run can trust.                 *)
Intact(k) ==
    \A f \in Files : dir[k][f] = IF f \in Archive[stamp[k]] THEN stamp[k] ELSE 0

UpToDateIsIntact ==
    \A k \in Pkgs :
        (/\ Free(k)
         /\ stamp[k] # 0
         /\ DirExists(k)
         /\ published[k] = 1
         /\ crashes = 0) => Intact(k)

(* "download is in progress, wait and register config" (resolver.cpp:236): *)
(* a run that succeeds has whole sources, also when another process was    *)
(* downloading them.                                                       *)
SuccessIsIntact ==
    \A p \in Procs : stage[p] = "done" => \A k \in Pkgs : Intact(k)

(* "hashsum checks are performed on client side" (doc/website.md): what is *)
(* unpacked has the hash that was asked for.                               *)
OnlyCheckedUnpacked ==
    \A p \in Procs, k \in Pkgs :
        task[p][k] = "unpack" => got[p][k] = want[p][k]

(* Every run ends, though its tasks wait for other processes' locks while  *)
(* they occupy the threads of the pool, and though a lock holder may fail. *)
RunsEnd ==
    \A p \in Procs : stage[p] \in RunStages ~> stage[p] \notin RunStages
=============================================================================

------------------------------ MODULE Generation ------------------------------
(***************************************************************************)
(* What a run of cppan does between resolution and CMake                   *)
(* (PackageStore::process): for every local config it resolves             *)
(* dependencies, records the packages as installed, compares the hash of   *)
(* the dependencies of every package with the recorded one and, where they *)
(* differ, removes what was built of the package and of its dependents;    *)
(* at the end it prints the CMake files of all packages.                   *)
(*                                                                         *)
(* Runs follow each other; the tasks that clean run in parallel.  The      *)
(* service database, the generated files and the build directories survive *)
(* a run that stops anywhere, everything else is lost with it.             *)
(***************************************************************************)
EXTENDS Integers, Sequences, FiniteSets, Functions

CONSTANTS
    Pkgs,       \* packages
    Worlds,     \* what resolution gives, as the server publishes releases:
                \*   a sequence of functions package -> direct dependencies
    Dependents, \* package -> packages with a requirement it satisfies
    Projects,   \* the user's projects: for each local config, what it asks for
    Threads,    \* size of the executor
    Buckets,    \* packages an unordered_set holds before it is rehashed
    BuildAfter, \* outcomes of a run after which the user can build
    MaxRuns,    \* bound on the number of runs
    MaxFaults   \* bound on stops, failing tasks and failing removals

ASSUME GenerationAssumption ==
    /\ IsFiniteSet(Pkgs)
    /\ Worlds \in Seq([Pkgs -> SUBSET Pkgs]) /\ Worlds # <<>>
    /\ Dependents \in [Pkgs -> SUBSET Pkgs]
    /\ \A w \in DOMAIN Worlds, p \in Pkgs : \A d \in Worlds[w][p] : p \in Dependents[d]
    /\ Projects \subseteq Seq((SUBSET Pkgs) \ {{}}) \ {<<>>}
    /\ BuildAfter \subseteq {"done", "failed"}
    /\ Threads \in Nat \ {0} /\ Buckets \in Nat \ {0}
    /\ MaxRuns \in Nat /\ MaxFaults \in Nat

VARIABLES
    installed,  \* InstalledPackages
    hash,       \* PackageDependenciesHashes: package -> dependencies hashed
    files,      \* package -> dependencies named in its CMake files
    built,      \* package -> the files its build directory, exports included,
                \*   was made from: its own and those of all it depends on
    world,      \* the published releases
    run,        \* [stage, project, round, deps_changed] of the present run
    status,     \* how the last run ended
    store,      \* packages
    resolved,   \* resolved_packages
    unprinted,  \* packages the loop of printers has not come to yet
    task,       \* package -> [state, left, removing, found, pass]
    cleaned,    \* cleaned_packages
    retrieved,  \* packages whose dependents the process has retrieved
    runs, faults,
    checked,    \* history: packages whose hash this run has compared
    settled,    \* history: packages checked by runs that have succeeded since
                \*   the last publication
    torn,       \* history: a run has been killed, or has failed, while it cleaned
    kept        \* history: packages with something built that was to be removed
                \*   and could not be

disk == <<installed, hash, files, built>>
memory == <<run, store, resolved, unprinted, task, cleaned, retrieved>>
history == <<checked, settled, torn, kept>>
vars == <<disk, memory, world, status, runs, faults, history>>

Idle == [stage |-> "idle", project |-> <<>>, round |-> 0, deps_changed |-> FALSE]
NoTask == [state |-> "none", left |-> {}, removing |-> {}, found |-> {}, pass |-> {}]
Active == {"package", "search", "dependents"}

deps == Worlds[world]

(* S and everything it depends on, over the dependencies f: the least set  *)
(* that is closed.                                                         *)
Closed(f, T) == \A p \in T \cap DOMAIN f : f[p] \subseteq T
Closure(f, S) ==
    {q \in Pkgs : \A T \in SUBSET Pkgs : S \subseteq T /\ Closed(f, T) => q \in T}

Made(f, p) == Restrict(f, Closure(f, {p}))

(* S and everything that depends on it, as far as requirements tell.       *)
AllDependents(S) == Closure(Dependents, S)

(* The types; and tasks, which refer to local variables of                 *)
(* check_deps_changed, exist only while it waits for them.                 *)
TypeOK ==
    /\ installed \subseteq Pkgs
    /\ DOMAIN hash \subseteq Pkgs /\ Range(hash) \subseteq SUBSET Pkgs
    /\ DOMAIN files \subseteq Pkgs /\ Range(files) \subseteq SUBSET Pkgs
    /\ DOMAIN built \subseteq Pkgs
    /\ \A p \in DOMAIN built : p \in DOMAIN built[p] /\ DOMAIN built[p] \subseteq Pkgs
    /\ world \in DOMAIN Worlds
    /\ run.stage \in {"idle", "resolve", "index", "check", "clean", "print"}
    /\ run.deps_changed \in BOOLEAN
    /\ run.project \in Projects \cup {<<>>} /\ run.round \in 0 .. Len(run.project) + 1
    /\ status \in {"none", "done", "failed"}
    /\ store \subseteq Pkgs /\ resolved \subseteq store /\ unprinted \subseteq store
    /\ \A p \in Pkgs :
          /\ task[p].state \in Active \cup {"none", "queued", "done", "failed"}
          /\ task[p].left \cup task[p].removing \cup task[p].found \subseteq Pkgs
          /\ task[p].pass \subseteq task[p].found
          /\ task[p].state # "none" => run.stage = "clean" /\ p \in store
    /\ Cardinality({p \in Pkgs : task[p].state \in Active}) <= Threads
    /\ cleaned \subseteq installed /\ retrieved \subseteq Pkgs
    /\ checked \subseteq store /\ settled \subseteq Pkgs /\ torn \in BOOLEAN
    /\ kept \subseteq DOMAIN built

Init ==
    /\ installed = {} /\ hash = <<>> /\ files = <<>> /\ built = <<>>
    /\ world = 1 /\ run = Idle /\ status = "none"
    /\ store = {} /\ resolved = {} /\ unprinted = {}
    /\ task = [p \in Pkgs |-> NoTask] /\ cleaned = {} /\ retrieved = {}
    /\ runs = 0 /\ faults = 0 /\ checked = {} /\ settled = {} /\ torn = FALSE /\ kept = {}

-----------------------------------------------------------------------------
(* The run: PackageStore::process.                                         *)

Start(project) ==
    /\ run.stage = "idle" /\ runs < MaxRuns
    /\ runs' = runs + 1
    /\ run' = [Idle EXCEPT !.stage = "resolve", !.project = project, !.round = 1]
    /\ store' = {} /\ checked' = {}
    /\ UNCHANGED <<disk, world, status, resolved, unprinted, task, cleaned, retrieved,
                   faults, settled, torn, kept>>

(* The next local config, or the printers after the last one.              *)
NextRound ==
    IF run.round < Len(run.project)
    THEN /\ run' = [run EXCEPT !.stage = "resolve", !.round = @ + 1]
         /\ unprinted' = unprinted
    ELSE /\ run' = [run EXCEPT !.stage = "print"]
         /\ unprinted' = store

Wanted == run.project[run.round]

(* The dependencies of the config are resolved (Resolution) and downloaded *)
(* (PackageDownload), and go to the store with all that they need.         *)
ResolveDependencies ==
    /\ run.stage = "resolve" /\ ~ Wanted \subseteq resolved
    /\ resolved' = resolved \cup Wanted
    /\ store' = store \cup Closure(deps, Wanted)
    /\ run' = [run EXCEPT !.stage = "index"]
    /\ UNCHANGED <<disk, world, status, unprinted, task, cleaned, retrieved, runs, faults, history>>

NothingToResolve ==
    /\ run.stage = "resolve" /\ Wanted \subseteq resolved
    /\ NextRound
    /\ UNCHANGED <<disk, world, status, store, resolved, task, cleaned, retrieved, runs, faults, history>>

WriteIndex ==
    /\ run.stage = "index"
    /\ installed' = installed \cup store
    /\ run' = [run EXCEPT !.stage = "check"]
    /\ UNCHANGED <<hash, files, built, world, status, store, resolved, unprinted, task,
                   cleaned, retrieved, runs, faults, history>>

HasHash(p) == p \in DOMAIN hash /\ hash[p] = deps[p]

(* clear_export and a task for every package whose dependencies are not    *)
(* the recorded ones; once in a run.  Errors of the removal are ignored.   *)
Compare(pkgs) ==
    LET clean_pkgs == {p \in pkgs : ~ HasHash(p)}
    IN  /\ run.stage = "check" /\ ~ run.deps_changed
        /\ \E left \in SUBSET (clean_pkgs \cap DOMAIN built) :
              /\ left # {} => faults < MaxFaults
              /\ faults' = IF left = {} THEN faults ELSE faults + 1
              /\ built' = Restrict(built, DOMAIN built \ (clean_pkgs \ left))
        /\ kept' = kept \cap DOMAIN built'
        /\ task' = [p \in Pkgs |->
              IF p \in clean_pkgs THEN [NoTask EXCEPT !.state = "queued"] ELSE NoTask]
        /\ run' = [run EXCEPT !.stage = "clean", !.deps_changed = clean_pkgs # {}]
        /\ checked' = pkgs
        /\ UNCHANGED <<installed, hash, files, world, status, store, resolved, unprinted,
                       cleaned, retrieved, runs, settled, torn>>

(* Mutants: all installed packages are compared; only those the config     *)
(* asks for.                                                               *)
CheckInstalled == Compare(installed)
CheckWanted == Compare(Wanted)

CheckDepsChanged == Compare(store)

AlreadyExecuted ==
    /\ run.stage = "check" /\ run.deps_changed
    /\ NextRound
    /\ UNCHANGED <<disk, world, status, store, resolved, task, cleaned, retrieved, runs, faults, history>>

(* f.wait() for all, before f.get() for any.                               *)
Waited == \A p \in Pkgs : task[p].state \in {"none", "done", "failed"}

Joined ==
    /\ run.stage = "clean" /\ Waited
    /\ \A p \in Pkgs : task[p].state # "failed"
    /\ task' = [p \in Pkgs |-> NoTask]
    /\ NextRound
    /\ UNCHANGED <<disk, world, status, store, resolved, cleaned, retrieved, runs, faults, history>>

(* print() and print_meta() of one package.                                *)
PrintPackage(p) ==
    /\ run.stage = "print" /\ p \in unprinted
    /\ files' = [q \in (DOMAIN files) \cup {p} |-> IF q = p THEN deps[p] ELSE files[q]]
    /\ unprinted' = unprinted \ {p}
    /\ UNCHANGED <<installed, hash, built, world, run, status, store, resolved, task, cleaned,
                   retrieved, runs, faults, history>>

(* The process and what it remembers end; the store is kept here to tell   *)
(* which project is built next.                                            *)
Exit(outcome) ==
    /\ status' = outcome
    /\ run' = Idle
    /\ resolved' = {} /\ unprinted' = {} /\ cleaned' = {} /\ retrieved' = {}
    /\ UNCHANGED store

Done ==
    /\ run.stage = "print" /\ unprinted = {}
    /\ Exit("done")
    /\ settled' = settled \cup checked
    /\ UNCHANGED <<disk, world, task, runs, faults, checked, torn, kept>>

JoinFails ==
    /\ run.stage = "clean" /\ Waited
    /\ \E p \in Pkgs : task[p].state = "failed"
    /\ Exit("failed")
    /\ task' = [p \in Pkgs |-> NoTask]
    /\ torn' = TRUE
    /\ UNCHANGED <<disk, world, runs, faults, checked, settled, kept>>

(* Killed, or an exception of the main thread that ends the process.       *)
Stop ==
    /\ run.stage # "idle" /\ faults < MaxFaults
    /\ faults' = faults + 1
    /\ Exit("failed")
    /\ task' = [p \in Pkgs |-> NoTask]
    /\ torn' = (torn \/ run.stage = "clean")
    /\ UNCHANGED <<disk, world, runs, checked, settled, kept>>

-----------------------------------------------------------------------------
(* A task: cleanPackages(p), then setPackageDependenciesHash(p).           *)

Change(p, change) == task' = [task EXCEPT ![p] = change]

OnlyTask ==
    UNCHANGED <<world, run, status, store, resolved, unprinted, runs, checked, settled, torn>>

Begin(p) ==
    /\ task[p].state = "queued"
    /\ Cardinality({q \in Pkgs : task[q].state \in Active}) < Threads
    /\ Change(p, [task[p] EXCEPT !.state = "package", !.left = {p}])
    /\ UNCHANGED <<disk, cleaned, retrieved, faults, kept>> /\ OnlyTask

Cleaning(p) == task[p].state \in {"package", "dependents"} /\ task[p].removing = {}

(* cleanPackage returns when another call, of any task, has taken the      *)
(* package, whether or not that call has removed anything yet.             *)
NothingLeft(p) == Cleaning(p) /\ task[p].left \subseteq cleaned

SaveCleaned(p, q) ==
    /\ Cleaning(p) /\ q \in task[p].left
    /\ q \notin cleaned
    /\ cleaned' = cleaned \cup {q}
    /\ Change(p, [task[p] EXCEPT !.removing = {q}])
    /\ UNCHANGED <<disk, retrieved, faults, kept>> /\ OnlyTask

Remove(p) ==
    /\ task[p].removing # {}
    /\ built' = Restrict(built, DOMAIN built \ task[p].removing)
    /\ kept' = kept \ task[p].removing
    /\ Change(p, [task[p] EXCEPT !.removing = {}])
    /\ UNCHANGED <<installed, hash, files, cleaned, retrieved, faults>> /\ OnlyTask

(* rm and rm_recursive ignore errors: what was built stays, and the task   *)
(* goes on as if it were gone.                                             *)
RemoveIgnored(p) ==
    /\ task[p].removing # {} /\ faults < MaxFaults
    /\ faults' = faults + 1
    /\ kept' = kept \cup (task[p].removing \cap DOMAIN built)
    /\ Change(p, [task[p] EXCEPT !.removing = {}])
    /\ UNCHANGED <<disk, cleaned, retrieved>> /\ OnlyTask

Recorded(p) == [q \in (DOMAIN hash) \cup {p} |-> IF q = p THEN deps[p] ELSE hash[q]]

(* write_index has made sure that p is installed.                          *)
FindDependents(p) ==
    /\ task[p].state = "package" /\ NothingLeft(p)
    /\ Change(p, [task[p] EXCEPT !.state = "search", !.found = {p}, !.pass = {p}])
    /\ UNCHANGED <<disk, cleaned, retrieved, faults, kept>> /\ OnlyTask

(* The loop goes on over the set it inserts into: it may come to a new     *)
(* element or not, and after a rehash to any element or not.               *)
VisitRetrieved(p, q) ==
    LET new == Dependents[q] \ task[p].found
        found == task[p].found \cup new
    IN  /\ task[p].state = "search" /\ q \in task[p].pass
        /\ q \in retrieved
        /\ \E more \in SUBSET (IF Cardinality(found) > Buckets /\ new # {} THEN found ELSE new) :
              Change(p, [task[p] EXCEPT
                  !.found = found,
                  !.pass = IF Cardinality(found) > Buckets /\ new # {} THEN more
                           ELSE (@ \ {q}) \cup more])
        /\ UNCHANGED <<disk, cleaned, retrieved, faults, kept>> /\ OnlyTask

(* Mutant: what was retrieved is not saved.                                *)
RetrieveAgain(p, q) ==
    /\ task[p].state = "search" /\ q \in task[p].pass
    /\ q \notin retrieved
    /\ LET found == task[p].found \cup Dependents[q]
       IN  Change(p, [task[p] EXCEPT !.found = found, !.pass = found])
    /\ UNCHANGED <<disk, cleaned, retrieved, faults, kept>> /\ OnlyTask

(* Mutant: the loop does not start again.                                  *)
RetrieveOnce(p, q) ==
    /\ task[p].state = "search" /\ q \in task[p].pass
    /\ q \notin retrieved
    /\ retrieved' = retrieved \cup {q}
    /\ Change(p, [task[p] EXCEPT !.found = @ \cup Dependents[q], !.pass = {}])
    /\ UNCHANGED <<disk, cleaned, faults, kept>> /\ OnlyTask

(* getDependentPackages; the loop starts again.                            *)
Retrieve(p, q) ==
    /\ task[p].state = "search" /\ q \in task[p].pass
    /\ q \notin retrieved
    /\ retrieved' = retrieved \cup {q}
    /\ LET found == task[p].found \cup Dependents[q]
       IN  Change(p, [task[p] EXCEPT !.found = found, !.pass = found])
    /\ UNCHANGED <<disk, cleaned, faults, kept>> /\ OnlyTask

(* The search is over: the installed ones among the dependents are next.   *)
Found(p) ==
    /\ task[p].state = "search" /\ task[p].pass = {}
    /\ Change(p, [NoTask EXCEPT !.state = "dependents",
                                !.left = (task[p].found \ {p}) \cap installed])
    /\ UNCHANGED <<disk, cleaned, retrieved, faults, kept>> /\ OnlyTask

(* Mutant: the hash is not stored.                                         *)
HashNotSet(p) ==
    /\ task[p].state = "dependents" /\ NothingLeft(p)
    /\ Change(p, [NoTask EXCEPT !.state = "done"])
    /\ UNCHANGED <<disk, cleaned, retrieved, faults, kept>> /\ OnlyTask

(* Set dep hash only after clean.                                          *)
SetHash(p) ==
    /\ task[p].state = "dependents" /\ NothingLeft(p)
    /\ hash' = Recorded(p)
    /\ Change(p, [NoTask EXCEPT !.state = "done"])
    /\ UNCHANGED <<installed, files, built, cleaned, retrieved, faults, kept>> /\ OnlyTask

(* An error of sqlite, which is kept in the future of the task.            *)
TaskFails(p) ==
    /\ task[p].state \in Active /\ faults < MaxFaults
    /\ faults' = faults + 1
    /\ Change(p, [NoTask EXCEPT !.state = "failed"])
    /\ UNCHANGED <<disk, cleaned, retrieved, kept>> /\ OnlyTask

-----------------------------------------------------------------------------
(* The environment: CMake builds a target of the project with what it      *)
(* depends on, except what is there already; the server publishes.         *)

Build(p) ==
    /\ run.stage = "idle" /\ status \in BuildAfter
    /\ p \in store /\ Closure(files, {p}) \subseteq DOMAIN files
    /\ built' = [q \in (DOMAIN built) \cup Closure(files, {p}) |->
                    IF q \in DOMAIN built THEN built[q] ELSE Made(files, q)]
    /\ built' # built
    /\ UNCHANGED <<installed, hash, files, memory, world, status, runs, faults, history>>

Publish ==
    /\ run.stage = "idle" /\ world < Len(Worlds)
    /\ world' = world + 1
    /\ settled' = {}
    /\ UNCHANGED <<disk, memory, status, runs, faults, checked, torn, kept>>

RunStep ==
    \/ ResolveDependencies \/ NothingToResolve \/ WriteIndex
    \/ CheckDepsChanged \/ AlreadyExecuted \/ Joined \/ JoinFails
    \/ (\E p \in Pkgs : PrintPackage(p)) \/ Done

TaskStep(p) ==
    \/ Begin(p) \/ Remove(p) \/ FindDependents(p) \/ Found(p) \/ SetHash(p)
    \/ \E q \in Pkgs :
          SaveCleaned(p, q) \/ VisitRetrieved(p, q) \/ Retrieve(p, q)

Next ==
    \/ \E project \in Projects : Start(project)
    \/ RunStep \/ Stop
    \/ \E p \in Pkgs : TaskStep(p) \/ RemoveIgnored(p) \/ TaskFails(p) \/ Build(p)
    \/ Publish

Spec == Init /\ [][Next]_vars
FairSpec == Spec /\ WF_vars(RunStep \/ \E p \in Pkgs : TaskStep(p))

-----------------------------------------------------------------------------
(* What the next two properties ask of the constants; README says what     *)
(* happens without it.  The search goes over the set it inserts into, and  *)
(* loses what it has not come to when the set grows out of its table       *)
(* (database.cpp:1541); and the hash of a package that check_deps_changed  *)
(* does not come to in a run (package_store.cpp:236) may come true again.  *)
Fits == Cardinality(Pkgs) <= Buckets
NeverBack ==
    \A p \in Pkgs : \A u, v, w \in DOMAIN Worlds :
        u <= v /\ v <= w /\ Worlds[u][p] = Worlds[w][p] => Worlds[v][p] = Worlds[u][p]

(* When a run has waited for its tasks and none has failed, nothing is     *)
(* left of what was built of the packages with new dependencies and of all *)
(* their installed dependents, except what somebody has tried to remove    *)
(* and could not (package.cpp:273, 284: the error is ignored, the hash is  *)
(* recorded all the same).  A task alone may miss some of them: the        *)
(* loop of getTransitiveDependentPackages may end before it has come to a  *)
(* dependent that another task has retrieved, and cleanPackage skips what  *)
(* another task is still removing (package.cpp:237, database.cpp:1536).    *)
DependentsCleaned ==
    run.stage = "clean" /\ Waited /\ (\A p \in Pkgs : task[p].state # "failed") =>
        LET changed == {p \in Pkgs : task[p].state = "done"}
        IN  AllDependents(changed) \cap installed \cap DOMAIN built \subseteq kept

(* After a run that succeeds, whatever earlier runs have left that failed  *)
(* or were killed, but not while they cleaned, what is built of a package  *)
(* this run has checked was made from the files that are there now, its    *)
(* own and those of all it depends on: the hash set after the cleaning     *)
(* vouches for dependents too (package_store.cpp:274).  A run killed while *)
(* it cleaned is left out because the hash vouches for dependents another  *)
(* task had still to clean; what could not be removed is left out because  *)
(* the hash vouches for it as well.                                        *)
BuiltFromFiles ==
    ~ torn /\ run.stage = "idle" /\ status = "done" =>
        \A p \in (checked \cap DOMAIN built) \ kept : built[p] = Made(files, p)

(* A package that a successful run has checked is not cleaned for its own  *)
(* sake again before something is published: otherwise every run would     *)
(* rebuild it and all that depends on it (package_store.cpp:256).          *)
SettledStays == [][\A p \in settled : task'[p].state = "queued" => task[p].state = "queued"]_vars

(* A run ends: the search for dependents, a loop without a bound that      *)
(* starts again whenever it has retrieved something, ends in every task,   *)
(* also when packages depend on each other (database.cpp:1525).            *)
RunsEnd == run.stage # "idle" ~> run.stage = "idle"
=============================================================================

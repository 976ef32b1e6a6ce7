--------------------------- MODULE GenerationProofs ---------------------------
(***************************************************************************)
(* Proofs about Generation, for every set of packages, every history of    *)
(* releases, any projects, threads, runs and faults.                       *)
(***************************************************************************)
EXTENDS Generation, FiniteSetTheorems, TLAPS

USE GenerationAssumption

-----------------------------------------------------------------------------
(* Closures.                                                               *)

(* Closure(f, S) is the least set with S that f does not lead out of.      *)
LEMMA ClosureLeast ==
    ASSUME NEW f, \A p \in DOMAIN f : f[p] \subseteq Pkgs,
           NEW S \in SUBSET Pkgs
    PROVE  /\ Closure(f, S) \in SUBSET Pkgs
           /\ S \subseteq Closure(f, S)
           /\ Closed(f, Closure(f, S))
           /\ \A T \in SUBSET Pkgs :
                 S \subseteq T /\ Closed(f, T) => Closure(f, S) \subseteq T
<1>1. /\ Closure(f, S) \in SUBSET Pkgs
      /\ S \subseteq Closure(f, S)
      /\ \A T \in SUBSET Pkgs : S \subseteq T /\ Closed(f, T) => Closure(f, S) \subseteq T
  BY DEF Closure
<1>2. ASSUME NEW p \in Closure(f, S) \cap DOMAIN f, NEW x \in f[p]
      PROVE  x \in Closure(f, S)
  <2>1. x \in Pkgs
    OBVIOUS
  <2>2. ASSUME NEW T \in SUBSET Pkgs, S \subseteq T, Closed(f, T) PROVE x \in T
    BY <1>1, <2>2 DEF Closed
  <2> QED
    BY <2>1, <2>2 DEF Closure
<1> QED
  BY <1>1, <1>2 DEF Closed

(* A closure is of packages.                                               *)
LEMMA ClosureInPkgs == \A f, S : Closure(f, S) \subseteq Pkgs
BY DEF Closure

(* Closures within closures.                                               *)
LEMMA ClosureWithin ==
    ASSUME NEW f, \A p \in DOMAIN f : f[p] \subseteq Pkgs,
           NEW S \in SUBSET Pkgs, NEW T \in SUBSET Closure(f, S)
    PROVE  Closure(f, T) \subseteq Closure(f, S)
<1>1. Closure(f, S) \in SUBSET Pkgs /\ Closed(f, Closure(f, S))
  BY ClosureLeast
<1>2. T \in SUBSET Pkgs
  BY <1>1
<1>3. \A U \in SUBSET Pkgs : T \subseteq U /\ Closed(f, U) => Closure(f, T) \subseteq U
  BY <1>2, ClosureLeast
<1> QED
  BY <1>1, <1>3

(* What is made from files that are all there has the closure it was made  *)
(* from.                                                                   *)
LEMMA MadeClosure ==
    ASSUME NEW f, \A p \in DOMAIN f : f[p] \subseteq Pkgs,
           NEW q \in Pkgs, Closure(f, {q}) \subseteq DOMAIN f
    PROVE  /\ DOMAIN Made(f, q) = Closure(f, {q})
           /\ Closure(Made(f, q), {q}) = Closure(f, {q})
           /\ \A x \in DOMAIN Made(f, q) : Made(f, q)[x] = f[x]
           /\ q \in DOMAIN Made(f, q)
<1> DEFINE C == Closure(f, {q})
           m == Made(f, q)
<1>1. C \in SUBSET Pkgs /\ q \in C /\ Closed(f, C)
  BY ClosureLeast
<1>2. DOMAIN m = C /\ \A x \in C : m[x] = f[x]
  BY DEF Made, Restrict
<1>3. \A x \in DOMAIN m : m[x] \subseteq Pkgs
  BY <1>2
<1>4. Closed(m, C)
  BY <1>1, <1>2 DEF Closed
<1>5. /\ Closure(m, {q}) \in SUBSET Pkgs
      /\ q \in Closure(m, {q})
      /\ Closed(m, Closure(m, {q}))
      /\ Closure(m, {q}) \subseteq C
  <2>1. {q} \in SUBSET Pkgs /\ {q} \subseteq C
    BY <1>1
  <2>2. /\ Closure(m, {q}) \in SUBSET Pkgs
        /\ {q} \subseteq Closure(m, {q})
        /\ Closed(m, Closure(m, {q}))
        /\ \A T \in SUBSET Pkgs : {q} \subseteq T /\ Closed(m, T) => Closure(m, {q}) \subseteq T
    <3> HIDE DEF m
    <3> QED
      BY <1>3, <2>1, ClosureLeast
  <2> QED
    BY <1>1, <1>4, <2>1, <2>2
<1>6. Closed(f, Closure(m, {q}))
  BY <1>2, <1>5 DEF Closed
<1>7. C \subseteq Closure(m, {q})
  <2>1. \A T \in SUBSET Pkgs : {q} \subseteq T /\ Closed(f, T) => C \subseteq T
    <3>1. {q} \in SUBSET Pkgs
      OBVIOUS
    <3> QED
      BY <3>1, ClosureLeast
  <2> QED
    BY <1>5, <1>6, <2>1
<1> QED
  BY <1>1, <1>2, <1>5, <1>7

-----------------------------------------------------------------------------
(* The invariant.                                                          *)

States == Active \cup {"none", "queued", "done", "failed"}
Tasks == [state : States, left : SUBSET Pkgs, removing : SUBSET Pkgs,
          found : SUBSET Pkgs, pass : SUBSET Pkgs]
Runs == [stage : {"idle", "resolve", "index", "check", "clean", "print"},
         project : Projects \cup {<<>>}, round : Nat, deps_changed : BOOLEAN]

(* What the server has published of p until now.                           *)
Published(p, d) == \E w \in DOMAIN Worlds : w <= world /\ d = Worlds[w][p]

Typed ==
    /\ installed \in SUBSET Pkgs
    /\ DOMAIN hash \in SUBSET Pkgs
    /\ DOMAIN files \in SUBSET Pkgs
    /\ DOMAIN built \in SUBSET Pkgs
    /\ world \in DOMAIN Worlds
    /\ run \in Runs
    /\ status \in {"none", "done", "failed"}
    /\ store \in SUBSET Pkgs
    /\ resolved \in SUBSET store
    /\ unprinted \in SUBSET store
    /\ task \in [Pkgs -> Tasks]
    /\ cleaned \in SUBSET installed
    /\ retrieved \in SUBSET Pkgs
    /\ checked \in SUBSET store
    /\ settled \in SUBSET Pkgs
    /\ torn \in BOOLEAN
    /\ kept \in SUBSET DOMAIN built

InRound ==
    /\ run.stage = "idle" => run = Idle /\ resolved = {} /\ unprinted = {}
    /\ run.stage # "idle" => run.project \in Projects /\ run.round \in DOMAIN run.project

(* Hashes, files and builds are of what was published.                     *)
Recollected ==
    /\ \A p \in DOMAIN hash : Published(p, hash[p])
    /\ \A p \in DOMAIN files : Published(p, files[p])
    /\ \A p \in DOMAIN built : \A q \in DOMAIN built[p] : Published(q, built[p][q])

(* The store has all that its packages need, and is installed.             *)
StoreRight ==
    /\ run.stage # "idle" => Closed(deps, store) /\ Closed(deps, checked)
    /\ run.stage \notin {"idle", "index"} => store \subseteq installed
    /\ DOMAIN files \subseteq installed
    /\ run.stage = "print" =>
          \A p \in store \ unprinted : p \in DOMAIN files /\ files[p] = deps[p]

(* There are tasks only in the one cleaning of a run.                      *)
CleansOnce ==
    /\ run.stage # "clean" => \A p \in Pkgs : task[p] = NoTask
    /\ ~ run.deps_changed =>
          cleaned = {} /\ retrieved = {} /\ \A p \in Pkgs : task[p] = NoTask

(* What a task has in each of its states.                                  *)
TaskRight(p) ==
    /\ task[p].state # "none" => p \in store
    /\ task[p].state = "package" => task[p].left = {p}
    /\ task[p].state = "dependents" => task[p].left \subseteq installed
    /\ task[p].removing # {} => task[p].state \in {"package", "dependents"}
    /\ task[p].state = "search" => task[p].pass \subseteq task[p].found
    /\ task[p].state # "search" => task[p].pass = {} /\ task[p].found = {}
    /\ task[p].state \in {"search", "dependents", "done"} => p \in cleaned
    /\ task[p].state = "search" => p \in retrieved \/ task[p].pass = {p}
    /\ task[p].state \in {"dependents", "done"} => p \in retrieved

Sane ==
    /\ Typed /\ InRound /\ Recollected /\ StoreRight /\ CleansOnce
    /\ \A p \in Pkgs : TaskRight(p)

(* A fresh storage is sane.                                                *)
LEMMA SaneInit == Init => Sane
<1> SUFFICES ASSUME Init PROVE Sane
  OBVIOUS
<1> USE DEF Init
<1>1. 1 \in DOMAIN Worlds
  OBVIOUS
<1>2. NoTask \in Tasks
  BY DEF NoTask, Tasks, States
<1>3. Idle \in Runs
  BY DEF Idle, Runs
<1>4. DOMAIN <<>> = {}
  OBVIOUS
<1>5. Typed
  BY <1>1, <1>2, <1>3, <1>4 DEF Typed
<1>6. InRound /\ Recollected /\ StoreRight /\ CleansOnce
  BY <1>4 DEF InRound, Recollected, StoreRight, CleansOnce, Idle
<1>7. \A p \in Pkgs : TaskRight(p)
  BY DEF TaskRight, NoTask
<1> QED
  BY <1>5, <1>6, <1>7 DEF Sane

(* What a step of a task leaves alone.                                     *)
TaskFrame(p) ==
    /\ OnlyTask
    /\ UNCHANGED <<installed, files>>
    /\ \E c : Change(p, c)
    /\ \A q \in Pkgs \ {p} : task'[q] = task[q]
    /\ task[p].state \in Active \cup {"queued"}
    /\ task'[p].state \notin {"none", "queued"}
    /\ run.stage = "clean" /\ run.deps_changed

(* Every step of a task is the step of one task of a run that cleans.      *)
LEMMA TaskStepFrame ==
    ASSUME Sane, NEW p \in Pkgs, TaskStep(p) \/ RemoveIgnored(p) \/ TaskFails(p)
    PROVE  TaskFrame(p)
<1>type. task \in [Pkgs -> Tasks] /\ run \in Runs
  BY DEF Sane, Typed
<1>change. ASSUME NEW c, Change(p, c)
           PROVE  task'[p] = c /\ \A q \in Pkgs \ {p} : task'[q] = task[q]
  BY <1>change, <1>type DEF Change
<1>stage. ASSUME task[p].state # "none" PROVE run.stage = "clean" /\ run.deps_changed
  BY <1>stage, <1>type DEF Sane, CleansOnce, NoTask, Runs
<1>1. ASSUME NEW c, Change(p, c), OnlyTask, UNCHANGED <<installed, files>>,
             task[p].state \in Active \cup {"queued"},
             c.state \notin {"none", "queued"}
      PROVE  TaskFrame(p)
  BY <1>1, <1>change, <1>stage DEF TaskFrame, Active
<1>tasks. \A q \in Pkgs : task[q] \in Tasks
  BY <1>type
<1> USE <1>tasks DEF disk, Active, Tasks, NoTask
<1>2. CASE Begin(p)
  <2> DEFINE c == [task[p] EXCEPT !.state = "package", !.left = {p}]
  <2>1. c.state = "package"
    OBVIOUS
  <2> HIDE DEF c
  <2> QED
    BY <1>2, <1>1, <2>1 DEF Begin, c
<1>3. CASE Remove(p)
  BY <1>3, <1>1 DEF Remove, Sane, TaskRight
<1>11. CASE RemoveIgnored(p)
  BY <1>11, <1>1 DEF RemoveIgnored, Sane, TaskRight
<1>4. CASE FindDependents(p)
  <2> DEFINE c == [task[p] EXCEPT !.state = "search", !.found = {p}, !.pass = {p}]
  <2>1. c.state = "search"
    OBVIOUS
  <2> HIDE DEF c
  <2> QED
    BY <1>4, <1>1, <2>1 DEF FindDependents, c
<1>5. CASE Found(p)
  BY <1>5, <1>1 DEF Found
<1>6. CASE SetHash(p)
  BY <1>6, <1>1 DEF SetHash
<1>7. CASE TaskFails(p)
  BY <1>7, <1>1 DEF TaskFails
<1>8. ASSUME NEW q \in Pkgs, SaveCleaned(p, q) PROVE TaskFrame(p)
  <2> DEFINE c == [task[p] EXCEPT !.removing = {q}]
  <2>1. c.state = task[p].state
    OBVIOUS
  <2> HIDE DEF c
  <2> QED
    BY <1>8, <1>1, <2>1 DEF SaveCleaned, Cleaning, c
<1>9. ASSUME NEW q \in Pkgs, VisitRetrieved(p, q) PROVE TaskFrame(p)
  <2>1. PICK found, pass : Change(p, [task[p] EXCEPT !.found = found, !.pass = pass])
    BY <1>9 DEF VisitRetrieved
  <2> DEFINE c == [task[p] EXCEPT !.found = found, !.pass = pass]
  <2>2. c.state = task[p].state
    OBVIOUS
  <2> HIDE DEF c
  <2> QED
    BY <1>9, <1>1, <2>1, <2>2 DEF VisitRetrieved, c
<1>10. ASSUME NEW q \in Pkgs, Retrieve(p, q) PROVE TaskFrame(p)
  <2> DEFINE found == task[p].found \cup Dependents[q]
             c == [task[p] EXCEPT !.found = found, !.pass = found]
  <2>1. c.state = task[p].state
    OBVIOUS
  <2>2. Change(p, c)
    BY <1>10 DEF Retrieve
  <2> HIDE DEF c
  <2> QED
    BY <1>10, <1>1, <2>1, <2>2 DEF Retrieve
<1> QED
  BY <1>2, <1>3, <1>4, <1>5, <1>6, <1>7, <1>8, <1>9, <1>10, <1>11 DEF TaskStep

(* What the constants are.                                                 *)
LEMMA Constants ==
    /\ \A w \in DOMAIN Worlds : Worlds[w] \in [Pkgs -> SUBSET Pkgs]
    /\ \A project \in Projects : \A i \in DOMAIN project : project[i] \in SUBSET Pkgs
    /\ \A project \in Projects : DOMAIN project = 1 .. Len(project) /\ Len(project) \in Nat \ {0}
    /\ DOMAIN Worlds = 1 .. Len(Worlds)
    /\ NoTask \in Tasks /\ Idle \in Runs
<1>1. NoTask \in Tasks /\ Idle \in Runs
  BY DEF NoTask, Tasks, States, Idle, Runs
<1>2. ASSUME NEW project \in Projects
      PROVE  /\ DOMAIN project = 1 .. Len(project) /\ Len(project) \in Nat \ {0}
             /\ \A i \in DOMAIN project : project[i] \in SUBSET Pkgs
  <2>1. project \in Seq((SUBSET Pkgs) \ {{}}) /\ project # <<>>
    OBVIOUS
  <2> QED
    BY <2>1
<1> QED
  BY <1>1, <1>2

(* The next local config, or the printers.                                 *)
LEMMA NextRoundRight ==
    ASSUME Sane, run.stage # "idle", NextRound
    PROVE  /\ run' \in Runs
           /\ run'.stage \in {"resolve", "print"}
           /\ run'.project = run.project /\ run'.deps_changed = run.deps_changed
           /\ run'.project \in Projects /\ run'.round \in DOMAIN run'.project
           /\ unprinted' \in SUBSET store
           /\ run'.stage = "print" => unprinted' = store
<1> USE Constants DEF Sane, Typed, Runs
<1>1. run.project \in Projects /\ run.round \in 1 .. Len(run.project)
  BY DEF InRound
<1>2. CASE run.round < Len(run.project)
  <2>1. run' = [run EXCEPT !.stage = "resolve", !.round = @ + 1] /\ unprinted' = unprinted
    BY <1>2 DEF NextRound
  <2>2. run.round + 1 \in Nat /\ run.round + 1 \in 1 .. Len(run.project)
    BY <1>1, <1>2
  <2>3. /\ run'.stage = "resolve" /\ run'.round = run.round + 1
        /\ run'.project = run.project /\ run'.deps_changed = run.deps_changed
        /\ run' \in Runs
    BY <2>1, <2>2
  <2>4. unprinted \in SUBSET store
    OBVIOUS
  <2> QED
    BY <1>1, <2>1, <2>2, <2>3, <2>4
<1>3. CASE ~ run.round < Len(run.project)
  BY <1>1, <1>3 DEF NextRound
<1> QED
  BY <1>2, <1>3

(* What is built is built from files that are there.                       *)
LEMMA BuildsFromFiles ==
    ASSUME Sane, NEW p \in Pkgs, Build(p)
    PROVE  /\ Closure(files, {p}) \in SUBSET Pkgs
           /\ \A q \in Closure(files, {p}) :
                 /\ DOMAIN Made(files, q) = Closure(files, {q})
                 /\ Closure(files, {q}) \subseteq Closure(files, {p})
                 /\ Closure(Made(files, q), {q}) = Closure(files, {q})
                 /\ \A x \in DOMAIN Made(files, q) : Made(files, q)[x] = files[x] /\ x \in DOMAIN files
<1>1. \A q \in DOMAIN files : files[q] \subseteq Pkgs
  BY Constants DEF Sane, Typed, Recollected, Published
<1>2. Closure(files, {p}) \in SUBSET Pkgs /\ Closure(files, {p}) \subseteq DOMAIN files
  <2>1. {p} \in SUBSET Pkgs
    OBVIOUS
  <2> QED
    BY <1>1, <2>1, ClosureLeast DEF Build
<1>3. ASSUME NEW q \in Closure(files, {p})
      PROVE  q \in Pkgs /\ Closure(files, {q}) \subseteq Closure(files, {p})
  <2>1. {p} \in SUBSET Pkgs /\ {q} \in SUBSET Closure(files, {p}) /\ q \in Pkgs
    BY <1>2
  <2> QED
    BY <1>1, <2>1, ClosureWithin
<1>4. ASSUME NEW q \in Closure(files, {p})
      PROVE  /\ DOMAIN Made(files, q) = Closure(files, {q})
             /\ Closure(Made(files, q), {q}) = Closure(files, {q})
             /\ \A x \in DOMAIN Made(files, q) : Made(files, q)[x] = files[x]
  <2>1. q \in Pkgs /\ Closure(files, {q}) \subseteq DOMAIN files
    BY <1>2, <1>3
  <2> QED
    BY <1>1, <2>1, MadeClosure
<1> QED
  BY <1>2, <1>3, <1>4

(* A step that is not a step of a task keeps the state sane.               *)
LEMMA SaneRun ==
    ASSUME Sane
    PROVE  \/ (\E project \in Projects : Start(project)) \/ RunStep \/ Stop
           \/ (\E p \in Pkgs : Build(p)) \/ Publish
           => Sane'
<1> USE Constants DEF disk, memory, history
<1>1. ASSUME NEW project \in Projects, Start(project) PROVE Sane'
  <2> USE <1>1 DEF Start
  <2>1. /\ run' = [stage |-> "resolve", project |-> project, round |-> 1, deps_changed |-> FALSE]
        /\ run' \in Runs
        /\ \A p \in Pkgs : task[p] = NoTask
    BY DEF Runs, Sane, Idle, CleansOnce
  <2>2. Typed'
    BY <2>1 DEF Sane, Typed, Runs, InRound, Idle
  <2>3. InRound'
    BY <2>1 DEF Sane, InRound, Typed, Runs, Idle
  <2>4. Recollected'
    BY <2>1 DEF Sane, Recollected, Typed, Published
  <2>5. StoreRight'
    BY <2>1 DEF Sane, StoreRight, Typed, deps, Closed, Runs
  <2>6. CleansOnce'
    BY <2>1 DEF Sane, CleansOnce, InRound, Typed, Runs, Idle
  <2>7. \A x \in Pkgs : TaskRight(x)'
    BY <2>1 DEF Sane, Typed, InRound, TaskRight, CleansOnce, NoTask
  <2> QED
    BY <2>2, <2>3, <2>4, <2>5, <2>6, <2>7 DEF Sane
<1>2. ASSUME ResolveDependencies PROVE Sane'
  <2> USE <1>2 DEF ResolveDependencies
  <2>1. deps \in [Pkgs -> SUBSET Pkgs] /\ Wanted \in SUBSET Pkgs
    BY DEF Sane, Typed, InRound, deps, Wanted
  <2>2. /\ Closure(deps, Wanted) \in SUBSET Pkgs /\ Wanted \subseteq Closure(deps, Wanted)
        /\ Closed(deps, Closure(deps, Wanted))
    BY <2>1, ClosureLeast
  <2>3. run' = [run EXCEPT !.stage = "index"] /\ run' \in Runs
    BY DEF Sane, Typed, Runs
  <2>4. Typed'
    BY <2>1, <2>2, <2>3 DEF Sane, Typed, Runs, InRound
  <2>5. InRound'
    BY DEF Sane, InRound, Typed, Runs
  <2>6. Recollected'
    BY DEF Sane, Recollected, Typed, Published
  <2>7. StoreRight'
    BY <2>1, <2>2, <2>3 DEF Sane, StoreRight, Typed, deps, Closed, Runs
  <2>8. CleansOnce'
    BY DEF Sane, CleansOnce, InRound, Typed, Runs
  <2>9. \A x \in Pkgs : TaskRight(x)'
    BY DEF Sane, Typed, InRound, TaskRight, CleansOnce, NoTask
  <2> QED
    BY <2>4, <2>5, <2>6, <2>7, <2>8, <2>9 DEF Sane
<1>3. ASSUME NothingToResolve PROVE Sane'
  <2> USE <1>3 DEF NothingToResolve
  <2>1. /\ run' \in Runs
        /\ run'.stage \in {"resolve", "print"}
        /\ run'.deps_changed = run.deps_changed
        /\ run'.project \in Projects /\ run'.round \in DOMAIN run'.project
        /\ unprinted' \in SUBSET store
        /\ run'.stage = "print" => unprinted' = store
    BY NextRoundRight
  <2>2. Typed'
    BY <2>1 DEF Sane, Typed, Runs, InRound
  <2>3. InRound'
    BY <2>1 DEF Sane, InRound, Typed, Runs
  <2>4. Recollected'
    BY DEF Sane, Recollected, Typed, Published
  <2>5. StoreRight'
    BY <2>1 DEF Sane, StoreRight, Typed, deps, Closed, Runs
  <2>6. CleansOnce'
    BY <2>1 DEF Sane, CleansOnce, InRound, Typed, Runs
  <2>7. \A x \in Pkgs : TaskRight(x)'
    BY DEF Sane, Typed, InRound, TaskRight, CleansOnce, NoTask
  <2> QED
    BY <2>2, <2>3, <2>4, <2>5, <2>6, <2>7 DEF Sane
<1>4. ASSUME WriteIndex PROVE Sane'
  <2> USE <1>4 DEF WriteIndex
  <2>1. Typed'
    BY DEF Sane, Typed, Runs, InRound
  <2>2. InRound'
    BY DEF Sane, InRound, Typed, Runs
  <2>3. Recollected'
    BY DEF Sane, Recollected, Typed, Published
  <2>4. StoreRight'
    BY DEF Sane, StoreRight, Typed, deps, Closed, Runs
  <2>5. CleansOnce'
    BY DEF Sane, CleansOnce, InRound, Typed, Runs
  <2>6. \A x \in Pkgs : TaskRight(x)'
    BY DEF Sane, Typed, InRound, TaskRight, CleansOnce, NoTask
  <2> QED
    BY <2>1, <2>2, <2>3, <2>4, <2>5, <2>6 DEF Sane
<1>5. ASSUME CheckDepsChanged PROVE Sane'
  <2> USE <1>5 DEF CheckDepsChanged, Compare, Restrict
  <2>1. /\ task' \in [Pkgs -> Tasks]
        /\ \A p \in Pkgs : task'[p] = NoTask \/ task'[p] = [NoTask EXCEPT !.state = "queued"]
    BY DEF NoTask, Tasks, States
  <2>2. run' \in Runs
    BY DEF Sane, Typed, Runs
  <2>3. Typed'
    BY <2>1, <2>2 DEF Sane, Typed, Runs, InRound
  <2>4. InRound'
    BY DEF Sane, InRound, Typed, Runs
  <2>5. Recollected'
    BY DEF Sane, Recollected, Typed, Published
  <2>6. StoreRight'
    BY DEF Sane, StoreRight, Typed, deps, Closed, Runs
  <2>7. CleansOnce'
    BY DEF Sane, CleansOnce, InRound, Typed, Runs
  <2>8. \A x \in Pkgs : TaskRight(x)'
    BY DEF Sane, Typed, InRound, TaskRight, CleansOnce, NoTask
  <2> QED
    BY <2>3, <2>4, <2>5, <2>6, <2>7, <2>8 DEF Sane
<1>6. ASSUME AlreadyExecuted PROVE Sane'
  <2> USE <1>6 DEF AlreadyExecuted
  <2>1. /\ run' \in Runs
        /\ run'.stage \in {"resolve", "print"}
        /\ run'.deps_changed = run.deps_changed
        /\ run'.project \in Projects /\ run'.round \in DOMAIN run'.project
        /\ unprinted' \in SUBSET store
        /\ run'.stage = "print" => unprinted' = store
    BY NextRoundRight
  <2>2. Typed'
    BY <2>1 DEF Sane, Typed, Runs, InRound
  <2>3. InRound'
    BY <2>1 DEF Sane, InRound, Typed, Runs
  <2>4. Recollected'
    BY DEF Sane, Recollected, Typed, Published
  <2>5. StoreRight'
    BY <2>1 DEF Sane, StoreRight, Typed, deps, Closed, Runs
  <2>6. CleansOnce'
    BY <2>1 DEF Sane, CleansOnce, InRound, Typed, Runs
  <2>7. \A x \in Pkgs : TaskRight(x)'
    BY DEF Sane, Typed, InRound, TaskRight, CleansOnce, NoTask
  <2> QED
    BY <2>2, <2>3, <2>4, <2>5, <2>6, <2>7 DEF Sane
<1>7. ASSUME Joined PROVE Sane'
  <2> USE <1>7 DEF Joined
  <2>1. /\ run' \in Runs
        /\ run'.stage \in {"resolve", "print"}
        /\ run'.deps_changed = run.deps_changed
        /\ run'.project \in Projects /\ run'.round \in DOMAIN run'.project
        /\ unprinted' \in SUBSET store
        /\ run'.stage = "print" => unprinted' = store
    BY NextRoundRight
  <2>2. Typed'
    BY <2>1 DEF Sane, Typed, Runs, InRound
  <2>3. InRound'
    BY <2>1 DEF Sane, InRound, Typed, Runs
  <2>4. Recollected'
    BY DEF Sane, Recollected, Typed, Published
  <2>5. StoreRight'
    BY <2>1 DEF Sane, StoreRight, Typed, deps, Closed, Runs
  <2>6. CleansOnce'
    BY <2>1 DEF Sane, CleansOnce, InRound, Typed, Runs
  <2>7. \A x \in Pkgs : TaskRight(x)'
    BY DEF Sane, Typed, InRound, TaskRight, CleansOnce, NoTask
  <2> QED
    BY <2>2, <2>3, <2>4, <2>5, <2>6, <2>7 DEF Sane
<1>8. ASSUME JoinFails PROVE Sane'
  <2> USE <1>8 DEF JoinFails, Exit, Idle
  <2>1. Typed'
    BY DEF Sane, Typed, Runs, InRound
  <2>2. InRound'
    BY DEF Sane, InRound, Typed, Runs
  <2>3. Recollected'
    BY DEF Sane, Recollected, Typed, Published
  <2>4. StoreRight'
    BY DEF Sane, StoreRight, Typed, deps, Closed, Runs
  <2>5. CleansOnce'
    BY DEF Sane, CleansOnce, InRound, Typed, Runs
  <2>6. \A x \in Pkgs : TaskRight(x)'
    BY DEF Sane, Typed, InRound, TaskRight, CleansOnce, NoTask
  <2> QED
    BY <2>1, <2>2, <2>3, <2>4, <2>5, <2>6 DEF Sane
<1>9. ASSUME NEW p \in Pkgs, PrintPackage(p) PROVE Sane'
  <2> USE <1>9 DEF PrintPackage
  <2>1. /\ \A q \in DOMAIN files' : files'[q] = IF q = p THEN deps[p] ELSE files[q]
        /\ DOMAIN files' = (DOMAIN files) \cup {p} /\ UNCHANGED <<hash, built, world>>
    OBVIOUS
  <2>2. Published(p, deps[p])
    BY DEF Sane, Typed, Published, deps
  <2>3. Typed'
    BY DEF Sane, Typed, Runs, InRound
  <2>4. InRound'
    BY DEF Sane, InRound, Typed, Runs
  <2>5. Recollected'
    BY <2>1, <2>2 DEF Sane, Recollected, Typed, Published
  <2>6. StoreRight'
    BY DEF Sane, StoreRight, Typed, deps, Closed, Runs
  <2>7. CleansOnce'
    BY DEF Sane, CleansOnce, InRound, Typed, Runs
  <2>8. \A x \in Pkgs : TaskRight(x)'
    BY DEF Sane, Typed, InRound, TaskRight, CleansOnce, NoTask
  <2> QED
    BY <2>3, <2>4, <2>5, <2>6, <2>7, <2>8 DEF Sane
<1>10. ASSUME Done PROVE Sane'
  <2> USE <1>10 DEF Done, Exit, Idle
  <2>1. Typed'
    BY DEF Sane, Typed, Runs, InRound
  <2>2. InRound'
    BY DEF Sane, InRound, Typed, Runs
  <2>3. Recollected'
    BY DEF Sane, Recollected, Typed, Published
  <2>4. StoreRight'
    BY DEF Sane, StoreRight, Typed, deps, Closed, Runs
  <2>5. CleansOnce'
    BY DEF Sane, CleansOnce, InRound, Typed, Runs
  <2>6. \A x \in Pkgs : TaskRight(x)'
    BY DEF Sane, Typed, InRound, TaskRight, CleansOnce, NoTask
  <2> QED
    BY <2>1, <2>2, <2>3, <2>4, <2>5, <2>6 DEF Sane
<1>11. ASSUME Stop PROVE Sane'
  <2> USE <1>11 DEF Stop, Exit, Idle
  <2>1. Typed'
    BY DEF Sane, Typed, Runs, InRound
  <2>2. InRound'
    BY DEF Sane, InRound, Typed, Runs
  <2>3. Recollected'
    BY DEF Sane, Recollected, Typed, Published
  <2>4. StoreRight'
    BY DEF Sane, StoreRight, Typed, deps, Closed, Runs
  <2>5. CleansOnce'
    BY DEF Sane, CleansOnce, InRound, Typed, Runs
  <2>6. \A x \in Pkgs : TaskRight(x)'
    BY DEF Sane, Typed, InRound, TaskRight, CleansOnce, NoTask
  <2> QED
    BY <2>1, <2>2, <2>3, <2>4, <2>5, <2>6 DEF Sane
<1>12. ASSUME NEW p \in Pkgs, Build(p) PROVE Sane'
  <2> USE <1>12 DEF Build
  <2>1. /\ DOMAIN built' = (DOMAIN built) \cup Closure(files, {p})
        /\ \A q \in DOMAIN built' : built'[q] = IF q \in DOMAIN built THEN built[q] ELSE Made(files, q)
        /\ UNCHANGED <<hash, files, world>>
    OBVIOUS
  <2>2. \A q \in Closure(files, {p}) : \A x \in DOMAIN Made(files, q) :
           Made(files, q)[x] = files[x] /\ x \in DOMAIN files
    BY BuildsFromFiles
  <2>3. Typed'
    BY DEF Sane, Typed, Runs, InRound
  <2>4. InRound'
    BY DEF Sane, InRound, Typed, Runs
  <2>5. Recollected'
    <3>1. \A q \in DOMAIN built' : \A x \in DOMAIN built'[q] : Published(x, built'[q][x])
      BY <2>1, <2>2 DEF Sane, Recollected
    <3>2. \A x, d : Published(x, d) => Published(x, d)'
      BY <2>1 DEF Published
    <3> HIDE <1>12
    <3> QED
      BY <2>1, <3>1, <3>2 DEF Sane, Recollected
  <2>6. StoreRight'
    BY DEF Sane, StoreRight, Typed, deps, Closed, Runs
  <2>7. CleansOnce'
    BY DEF Sane, CleansOnce, InRound, Typed, Runs
  <2>8. \A x \in Pkgs : TaskRight(x)'
    BY DEF Sane, Typed, InRound, TaskRight, CleansOnce, NoTask
  <2> QED
    BY <2>3, <2>4, <2>5, <2>6, <2>7, <2>8 DEF Sane
<1>13. ASSUME Publish PROVE Sane'
  <2> USE <1>13 DEF Publish
  <2>1. Typed'
    BY DEF Sane, Typed, Runs, InRound
  <2>2. InRound'
    BY DEF Sane, InRound, Typed, Runs
  <2>3. Recollected'
    BY DEF Sane, Recollected, Typed, Published
  <2>4. StoreRight'
    BY DEF Sane, StoreRight, Typed, deps, Closed, Runs
  <2>5. CleansOnce'
    BY DEF Sane, CleansOnce, InRound, Typed, Runs
  <2>6. \A x \in Pkgs : TaskRight(x)'
    BY DEF Sane, Typed, InRound, TaskRight, CleansOnce, NoTask
  <2> QED
    BY <2>1, <2>2, <2>3, <2>4, <2>5, <2>6 DEF Sane
<1> QED
  BY <1>1, <1>2, <1>3, <1>4, <1>5, <1>6, <1>7, <1>8, <1>9, <1>10, <1>11, <1>12, <1>13 DEF RunStep
(* A task by its fields.                                                   *)
Is(t, state, left, removing, found, pass) ==
    /\ t \in Tasks
    /\ t.state = state /\ t.left = left /\ t.removing = removing
    /\ t.found = found /\ t.pass = pass

(* What becomes of a task in a step.                                       *)
LEMMA TaskMoves ==
    ASSUME Sane, NEW p \in Pkgs
    PROVE  LET t == task[p] IN
           /\ Begin(p) => Is(task'[p], "package", {p}, t.removing, t.found, t.pass)
           /\ Remove(p) \/ RemoveIgnored(p) =>
                 Is(task'[p], t.state, t.left, {}, t.found, t.pass)
           /\ FindDependents(p) => Is(task'[p], "search", t.left, t.removing, {p}, {p})
           /\ Found(p) =>
                 Is(task'[p], "dependents", (t.found \ {p}) \cap installed, {}, {}, {})
           /\ SetHash(p) => Is(task'[p], "done", {}, {}, {}, {})
           /\ TaskFails(p) => Is(task'[p], "failed", {}, {}, {}, {})
           /\ \A q \in Pkgs :
                 /\ SaveCleaned(p, q) => Is(task'[p], t.state, t.left, {q}, t.found, t.pass)
                 /\ Retrieve(p, q) =>
                       Is(task'[p], t.state, t.left, t.removing,
                                       t.found \cup Dependents[q], t.found \cup Dependents[q])
                 /\ VisitRetrieved(p, q) =>
                       \E more \in SUBSET (t.found \cup Dependents[q]) :
                          /\ Is(task'[p], t.state, t.left, t.removing,
                                             t.found \cup Dependents[q], more)
                          /\ Fits => (t.pass \ {q}) \subseteq more
<1>1. task[p] \in Tasks /\ task \in [Pkgs -> Tasks]
  BY DEF Sane, Typed
<1>2. ASSUME NEW c, Change(p, c) PROVE task'[p] = c
  BY <1>1, <1>2 DEF Change
<1> USE DEF Tasks, States, Active, NoTask
<1>3. ASSUME Begin(p)
      PROVE  Is(task'[p], "package", {p}, task[p].removing, task[p].found, task[p].pass)
  <2>1. task'[p] = [task[p] EXCEPT !.state = "package", !.left = {p}]
    BY <1>3, <1>2 DEF Begin
  <2>2. Is([task[p] EXCEPT !.state = "package", !.left = {p}],
           "package", {p}, task[p].removing, task[p].found, task[p].pass)
    BY <1>1 DEF Is
  <2> QED
    BY <2>1, <2>2
<1>4. ASSUME Remove(p) \/ RemoveIgnored(p)
      PROVE  Is(task'[p], task[p].state, task[p].left, {}, task[p].found, task[p].pass)
  <2>1. task'[p] = [task[p] EXCEPT !.removing = {}]
    BY <1>4, <1>2 DEF Remove, RemoveIgnored
  <2>2. Is([task[p] EXCEPT !.removing = {}],
           task[p].state, task[p].left, {}, task[p].found, task[p].pass)
    BY <1>1 DEF Is
  <2> QED
    BY <2>1, <2>2
<1>5. ASSUME FindDependents(p)
      PROVE  Is(task'[p], "search", task[p].left, task[p].removing, {p}, {p})
  <2>1. task'[p] = [task[p] EXCEPT !.state = "search", !.found = {p}, !.pass = {p}]
    BY <1>5, <1>2 DEF FindDependents
  <2>2. Is([task[p] EXCEPT !.state = "search", !.found = {p}, !.pass = {p}],
           "search", task[p].left, task[p].removing, {p}, {p})
    BY <1>1 DEF Is
  <2> QED
    BY <2>1, <2>2
<1>6. ASSUME Found(p)
      PROVE  Is(task'[p], "dependents", (task[p].found \ {p}) \cap installed, {}, {}, {})
  <2>1. task'[p] = [NoTask EXCEPT !.state = "dependents",
                                 !.left = (task[p].found \ {p}) \cap installed]
    BY <1>6, <1>2 DEF Found
  <2>2. Is([NoTask EXCEPT !.state = "dependents",
                                 !.left = (task[p].found \ {p}) \cap installed],
           "dependents", (task[p].found \ {p}) \cap installed, {}, {}, {})
    BY <1>1 DEF Is
  <2> QED
    BY <2>1, <2>2
<1>7. ASSUME SetHash(p)
      PROVE  Is(task'[p], "done", {}, {}, {}, {})
  <2>1. task'[p] = [NoTask EXCEPT !.state = "done"]
    BY <1>7, <1>2 DEF SetHash
  <2>2. Is([NoTask EXCEPT !.state = "done"], "done", {}, {}, {}, {})
    BY <1>1 DEF Is
  <2> QED
    BY <2>1, <2>2
<1>8. ASSUME TaskFails(p)
      PROVE  Is(task'[p], "failed", {}, {}, {}, {})
  <2>1. task'[p] = [NoTask EXCEPT !.state = "failed"]
    BY <1>8, <1>2 DEF TaskFails
  <2>2. Is([NoTask EXCEPT !.state = "failed"], "failed", {}, {}, {}, {})
    BY <1>1 DEF Is
  <2> QED
    BY <2>1, <2>2
<1>9. ASSUME NEW q \in Pkgs, SaveCleaned(p, q)
      PROVE  Is(task'[p], task[p].state, task[p].left, {q}, task[p].found, task[p].pass)
  <2>1. task'[p] = [task[p] EXCEPT !.removing = {q}]
    BY <1>9, <1>2 DEF SaveCleaned
  <2>2. Is([task[p] EXCEPT !.removing = {q}],
           task[p].state, task[p].left, {q}, task[p].found, task[p].pass)
    BY <1>1 DEF Is
  <2> QED
    BY <2>1, <2>2
<1>10. ASSUME NEW x \in SUBSET Pkgs, NEW y \in SUBSET Pkgs
       PROVE  Is([task[p] EXCEPT !.found = x, !.pass = y],
                 task[p].state, task[p].left, task[p].removing, x, y)
  BY <1>1 DEF Is
<1>11. ASSUME NEW q \in Pkgs, Retrieve(p, q)
       PROVE  Is(task'[p], task[p].state, task[p].left, task[p].removing,
                 task[p].found \cup Dependents[q], task[p].found \cup Dependents[q])
  <2> DEFINE found == task[p].found \cup Dependents[q]
  <2>1. task'[p] = [task[p] EXCEPT !.found = found, !.pass = found]
    BY <1>11, <1>2 DEF Retrieve
  <2>2. found \in SUBSET Pkgs
    BY <1>1
  <2> HIDE DEF found
  <2>3. Is([task[p] EXCEPT !.found = found, !.pass = found],
           task[p].state, task[p].left, task[p].removing, found, found)
    BY <1>10, <2>2
  <2> QED
    BY <2>1, <2>3 DEF found
<1>12. ASSUME NEW q \in Pkgs, VisitRetrieved(p, q)
      PROVE  \E more \in SUBSET (task[p].found \cup Dependents[q]) :
                /\ Is(task'[p], task[p].state, task[p].left, task[p].removing,
                                   task[p].found \cup Dependents[q], more)
                /\ Fits => (task[p].pass \ {q}) \subseteq more
  <2> DEFINE new == Dependents[q] \ task[p].found
             found == task[p].found \cup new
             pass(more) == IF Cardinality(found) > Buckets /\ new # {} THEN more
                           ELSE (task[p].pass \ {q}) \cup more
  <2>1. PICK more \in SUBSET (IF Cardinality(found) > Buckets /\ new # {} THEN found ELSE new) :
           Change(p, [task[p] EXCEPT !.found = found,
                                     !.pass = IF Cardinality(found) > Buckets /\ new # {} THEN more
                                              ELSE (@ \ {q}) \cup more])
    BY <1>12 DEF VisitRetrieved
  <2>2. found = task[p].found \cup Dependents[q] /\ found \in SUBSET Pkgs
    BY <1>1
  <2>3. Fits => ~ Cardinality(found) > Buckets
    BY <2>2, FS_Subset, FS_CardinalityType DEF Fits
  <2>4. task'[p] = [task[p] EXCEPT !.found = found, !.pass = pass(more)]
    BY <1>2, <2>1
  <2>5. task[p].pass \subseteq task[p].found
    BY <1>12 DEF VisitRetrieved, Sane, TaskRight
  <2>6. pass(more) \in SUBSET found /\ (Fits => (task[p].pass \ {q}) \subseteq pass(more))
    BY <2>1, <2>3, <2>5
  <2>7. found \in SUBSET Pkgs /\ pass(more) \in SUBSET Pkgs
    BY <2>2, <2>6
  <2> HIDE DEF found, pass
  <2>8. Is([task[p] EXCEPT !.found = found, !.pass = pass(more)],
           task[p].state, task[p].left, task[p].removing, found, pass(more))
    BY <1>10, <2>7
  <2>9. Is(task'[p], task[p].state, task[p].left, task[p].removing, found, pass(more))
    BY <2>4, <2>8
  <2> QED
    BY <2>2, <2>6, <2>9
<1> QED
  BY <1>3, <1>4, <1>5, <1>6, <1>7, <1>8, <1>9, <1>11, <1>12

(* What a task changes besides itself.                                     *)
TaskEffect(p) ==
    /\ task'[p] \in Tasks /\ TaskRight(p)'
    /\ DOMAIN hash' \in SUBSET Pkgs
    /\ \A q \in DOMAIN hash' : (q \in DOMAIN hash /\ hash'[q] = hash[q]) \/ hash'[q] = deps[q]
    /\ DOMAIN built' \in SUBSET DOMAIN built
    /\ \A q \in DOMAIN built' : built'[q] = built[q]
    /\ kept' \subseteq DOMAIN built' /\ kept \cap DOMAIN built' \subseteq kept'
    /\ cleaned \subseteq cleaned' /\ cleaned' \subseteq installed
    /\ retrieved \subseteq retrieved' /\ retrieved' \subseteq Pkgs

(* A step of a task has no other effect than that.                         *)
LEMMA TaskStepEffect ==
    ASSUME Sane, NEW p \in Pkgs
    PROVE  TaskStep(p) \/ RemoveIgnored(p) \/ TaskFails(p) => TaskEffect(p)
<1>type. /\ task[p] \in Tasks /\ TaskRight(p)
         /\ DOMAIN hash \in SUBSET Pkgs /\ DOMAIN built \in SUBSET Pkgs
         /\ cleaned \in SUBSET installed /\ retrieved \in SUBSET Pkgs
         /\ installed \in SUBSET Pkgs /\ kept \in SUBSET DOMAIN built
  BY DEF Sane, Typed
<1>store. task[p].state # "none" => store \subseteq installed /\ p \in store
  BY DEF Sane, CleansOnce, StoreRight, TaskRight, NoTask
<1>visit. ASSUME NEW q \in Pkgs, VisitRetrieved(p, q)
          PROVE  \E more \in SUBSET (task[p].found \cup Dependents[q]) :
                    Is(task'[p], task[p].state, task[p].left, task[p].removing,
                       task[p].found \cup Dependents[q], more)
  BY <1>visit, TaskMoves
<1> USE <1>type DEF Tasks, Is, TaskRight, TaskEffect, Active, disk, OnlyTask, Cleaning
<1>1. ASSUME Begin(p) PROVE TaskEffect(p)
  <2>1. Is(task'[p], "package", {p}, task[p].removing, task[p].found, task[p].pass)
    BY <1>1, TaskMoves
  <2> QED
    BY <1>1, <2>1 DEF Begin
<1>2. ASSUME Remove(p) PROVE TaskEffect(p)
  <2>1. Is(task'[p], task[p].state, task[p].left, {}, task[p].found, task[p].pass)
    BY <1>2, TaskMoves
  <2> QED
    BY <1>2, <2>1 DEF Remove, Restrict
<1>10. ASSUME RemoveIgnored(p) PROVE TaskEffect(p)
  <2>1. Is(task'[p], task[p].state, task[p].left, {}, task[p].found, task[p].pass)
    BY <1>10, TaskMoves
  <2> QED
    BY <1>10, <2>1 DEF RemoveIgnored
<1>3. ASSUME FindDependents(p) PROVE TaskEffect(p)
  <2>1. Is(task'[p], "search", task[p].left, task[p].removing, {p}, {p})
    BY <1>3, TaskMoves
  <2> QED
    BY <1>3, <2>1 DEF FindDependents, NothingLeft
<1>4. ASSUME Found(p) PROVE TaskEffect(p)
  <2>1. Is(task'[p], "dependents", (task[p].found \ {p}) \cap installed, {}, {}, {})
    BY <1>4, TaskMoves
  <2> QED
    BY <1>4, <2>1 DEF Found
<1>5. ASSUME SetHash(p) PROVE TaskEffect(p)
  <2>1. Is(task'[p], "done", {}, {}, {}, {})
    BY <1>5, TaskMoves
  <2> QED
    BY <1>5, <2>1 DEF SetHash, Recorded
<1>6. ASSUME TaskFails(p) PROVE TaskEffect(p)
  <2>1. Is(task'[p], "failed", {}, {}, {}, {})
    BY <1>6, TaskMoves
  <2> QED
    BY <1>6, <2>1 DEF TaskFails
<1>7. ASSUME NEW q \in Pkgs, SaveCleaned(p, q) PROVE TaskEffect(p)
  <2>1. Is(task'[p], task[p].state, task[p].left, {q}, task[p].found, task[p].pass)
    BY <1>7, TaskMoves
  <2> QED
    BY <1>7, <2>1, <1>store DEF SaveCleaned
<1>8. ASSUME NEW q \in Pkgs, VisitRetrieved(p, q) PROVE TaskEffect(p)
  <2>1. PICK more \in SUBSET (task[p].found \cup Dependents[q]) :
           Is(task'[p], task[p].state, task[p].left, task[p].removing,
              task[p].found \cup Dependents[q], more)
    BY <1>8, <1>visit
  <2>2. p \in retrieved
    BY <1>8, <2>1 DEF VisitRetrieved
  <2> QED
    BY <1>8, <2>1, <2>2 DEF VisitRetrieved
<1>9. ASSUME NEW q \in Pkgs, Retrieve(p, q) PROVE TaskEffect(p)
  <2>1. Is(task'[p], task[p].state, task[p].left, task[p].removing,
                  task[p].found \cup Dependents[q], task[p].found \cup Dependents[q])
    BY <1>9, TaskMoves
  <2> QED
    BY <1>9, <2>1 DEF Retrieve
<1> QED
  BY <1>1, <1>2, <1>3, <1>4, <1>5, <1>6, <1>7, <1>8, <1>9, <1>10 DEF TaskStep

(* A step of a task keeps the state sane.                                  *)
LEMMA SaneTask ==
    ASSUME Sane, NEW p \in Pkgs, TaskStep(p) \/ RemoveIgnored(p) \/ TaskFails(p)
    PROVE  Sane'
<1>1. TaskFrame(p) /\ TaskEffect(p)
  BY TaskStepFrame, TaskStepEffect
<1> USE DEF TaskFrame, TaskEffect, OnlyTask, history
<1>2. task' \in [Pkgs -> Tasks]
  BY <1>1 DEF Sane, Typed, Change
<1>3. Typed'
  BY <1>1, <1>2 DEF Sane, Typed
<1>4. InRound' /\ StoreRight' /\ CleansOnce'
  BY <1>1 DEF Sane, InRound, StoreRight, CleansOnce, deps
<1>5. Recollected'
  BY <1>1 DEF Sane, Typed, Recollected, Published, deps
<1>6. ASSUME NEW q \in Pkgs PROVE TaskRight(q)'
  BY <1>1 DEF Sane, TaskRight
<1> QED
  BY <1>3, <1>4, <1>5, <1>6 DEF Sane

(* Every step keeps the state sane.                                        *)
LEMMA SaneStep == Sane /\ [Next]_vars => Sane'
<1> SUFFICES ASSUME Sane, [Next]_vars PROVE Sane'
  OBVIOUS
<1>1. CASE UNCHANGED vars
  BY <1>1 DEF vars, disk, memory, history, Sane, Typed, InRound, Recollected, Published, StoreRight,
              deps, CleansOnce, TaskRight
<1> QED
  BY <1>1, SaneRun, SaneTask DEF Next

(* The state is sane in every reachable state.                             *)
LEMMA SaneAlways == Spec => []Sane
BY SaneInit, SaneStep, PTL DEF Spec

-----------------------------------------------------------------------------
(* The types.                                                              *)

(* No more tasks run than there are threads.                               *)
FewActive == Cardinality({p \in Pkgs : task[p].state \in Active}) <= Threads

(* A task begins only where a thread is free.                              *)
LEMMA FewActiveStep ==
    ASSUME Sane, FewActive, [Next]_vars PROVE FewActive'
<1> DEFINE A == {p \in Pkgs : task[p].state \in Active}
<1>1. IsFiniteSet(A) /\ Cardinality(A) \in Nat
  BY FS_Subset, FS_CardinalityType
<1>2. ASSUME A' \subseteq A PROVE FewActive'
  BY <1>1, <1>2, FS_Subset, FS_CardinalityType DEF FewActive
<1>3. ASSUME NEW p \in Pkgs, TaskStep(p) \/ RemoveIgnored(p) \/ TaskFails(p) PROVE FewActive'
  <2>1. TaskFrame(p)
    BY <1>3, TaskStepFrame
  <2>2. CASE Begin(p)
    <3>1. Cardinality(A) < Threads
      BY <2>2 DEF Begin
    <3>2. IsFiniteSet(A \cup {p}) /\ Cardinality(A \cup {p}) <= Threads
      <4> HIDE DEF A
      <4>1. /\ IsFiniteSet(A \cup {p})
            /\ Cardinality(A \cup {p}) \in {Cardinality(A), Cardinality(A) + 1}
        BY <1>1, FS_AddElement
      <4> QED
        BY <1>1, <3>1, <4>1
    <3>3. A' \subseteq A \cup {p}
      BY <2>1 DEF TaskFrame
    <3> QED
      BY <3>2, <3>3, FS_Subset, FS_CardinalityType DEF FewActive
  <2>3. CASE ~ Begin(p)
    <3>1. task[p].state \in Active
      BY <1>3, <2>3 DEF TaskStep, Remove, RemoveIgnored, FindDependents, Found, SetHash, TaskFails, SaveCleaned,
                        VisitRetrieved, Retrieve, Active, Cleaning, Sane, TaskRight
    <3> QED
      BY <1>2, <2>1, <3>1 DEF TaskFrame
  <2> QED
    BY <2>2, <2>3
<1>4. ASSUME \A p \in Pkgs : task'[p].state \notin Active \/ task'[p] = task[p]
      PROVE  FewActive'
  BY <1>2, <1>4
<1> USE DEF disk, memory, history
<1>5. ASSUME UNCHANGED task PROVE FewActive'
  BY <1>4, <1>5
<1>6. ASSUME \/ CheckDepsChanged \/ Joined \/ JoinFails \/ Stop PROVE FewActive'
  <2>1. \A p \in Pkgs : task'[p] \in {NoTask, [NoTask EXCEPT !.state = "queued"]}
    BY <1>6 DEF CheckDepsChanged, Compare, Joined, JoinFails, Stop
  <2>2. NoTask.state = "none" /\ [NoTask EXCEPT !.state = "queued"].state = "queued"
    BY DEF NoTask
  <2> QED
    BY <1>4, <2>1, <2>2 DEF Active
<1> QED
  BY <1>3, <1>5, <1>6 DEF Next, RunStep, vars, Start, ResolveDependencies, NothingToResolve, WriteIndex,
     AlreadyExecuted, PrintPackage, Done, Build, Publish

(* What is built is installed, and of all that it was made from there are  *)
(* the files and nothing else.                                             *)
IsFunction(f) == f = [x \in DOMAIN f |-> f[x]]
BuiltRight ==
    \A p \in DOMAIN built :
        /\ p \in installed
        /\ DOMAIN built[p] = Closure(built[p], {p})
        /\ IsFunction(built[p])

(* Building and removing keep it so.                                       *)
LEMMA BuiltRightStep ==
    ASSUME Sane, BuiltRight, [Next]_vars PROVE BuiltRight'
<1> USE DEF disk, memory, history
<1>1. ASSUME NEW p \in Pkgs, Build(p) PROVE BuiltRight'
  <2>1. /\ DOMAIN built' = (DOMAIN built) \cup Closure(files, {p})
        /\ \A q \in DOMAIN built' : built'[q] = IF q \in DOMAIN built THEN built[q] ELSE Made(files, q)
        /\ installed' = installed
        /\ Closure(files, {p}) \subseteq DOMAIN files
    BY <1>1 DEF Build
  <2>2. \A q \in Closure(files, {p}) : q \in installed
    BY <2>1 DEF Sane, StoreRight
  <2>3. \A q \in Closure(files, {p}) : DOMAIN Made(files, q) = Closure(Made(files, q), {q})
    BY <1>1, BuildsFromFiles
  <2>4. \A q : IsFunction(Made(files, q))
    BY DEF Made, Restrict, IsFunction
  <2> QED
    <3> SUFFICES ASSUME NEW q \in DOMAIN built'
                 PROVE  /\ q \in installed'
                        /\ DOMAIN built'[q] = Closure(built'[q], {q})
                        /\ IsFunction(built'[q])
      BY DEF BuiltRight, IsFunction, Closure, Closed
    <3>1. CASE q \in DOMAIN built
      BY <2>1, <3>1 DEF BuiltRight
    <3>2. CASE q \notin DOMAIN built
      <4>1. built'[q] = Made(files, q) /\ q \in Closure(files, {p})
        BY <2>1, <3>2
      <4> QED
        BY <2>1, <2>2, <2>3, <2>4, <4>1
    <3> QED
      BY <3>1, <3>2
<1>2. ASSUME DOMAIN built' \subseteq DOMAIN built, \A q \in DOMAIN built' : built'[q] = built[q],
             installed \subseteq installed'
      PROVE  BuiltRight'
  BY <1>2 DEF BuiltRight
<1>3. ASSUME NEW p \in Pkgs, TaskStep(p) \/ RemoveIgnored(p) \/ TaskFails(p) PROVE BuiltRight'
  BY <1>2, <1>3, TaskStepFrame, TaskStepEffect DEF TaskFrame, TaskEffect
<1>4. ASSUME CheckDepsChanged PROVE BuiltRight'
  BY <1>2, <1>4 DEF CheckDepsChanged, Compare, Restrict
<1>5. ASSUME UNCHANGED built, installed \subseteq installed' PROVE BuiltRight'
  BY <1>5 DEF BuiltRight
<1> QED
  BY <1>1, <1>3, <1>4, <1>5 DEF Next, RunStep, vars, Start, ResolveDependencies, NothingToResolve, WriteIndex,
     AlreadyExecuted, Joined, JoinFails, PrintPackage, Done, Stop, Exit, Publish

(* TypeOK holds in every reachable state.                                  *)
THEOREM TypeCorrect == Spec => []TypeOK
<1>1. Init => FewActive /\ BuiltRight
  <2> SUFFICES ASSUME Init PROVE FewActive /\ BuiltRight
    OBVIOUS
  <2>1. {p \in Pkgs : task[p].state \in Active} = {}
    BY DEF Init, NoTask, Active
  <2>2. FewActive
    <3> DEFINE A == {p \in Pkgs : task[p].state \in Active}
    <3>1. A = {} /\ Cardinality(A) = 0
      BY <2>1, FS_EmptySet
    <3>2. 0 <= Threads
      OBVIOUS
    <3> QED
      BY <3>1, <3>2 DEF FewActive
  <2>3. BuiltRight
    BY DEF Init, BuiltRight
  <2> QED
    BY <2>2, <2>3
<1>2. Sane /\ FewActive /\ BuiltRight /\ [Next]_vars => FewActive' /\ BuiltRight'
  BY FewActiveStep, BuiltRightStep
<1>3. Sane /\ FewActive /\ BuiltRight => TypeOK
  <2> SUFFICES ASSUME Sane, FewActive, BuiltRight PROVE TypeOK
    OBVIOUS
  <2>1. \A p \in DOMAIN built : p \in DOMAIN built[p] /\ DOMAIN built[p] \subseteq Pkgs
    <3> SUFFICES ASSUME NEW p \in DOMAIN built
                 PROVE  p \in DOMAIN built[p] /\ DOMAIN built[p] \subseteq Pkgs
      OBVIOUS
    <3>1. {p} \in SUBSET Pkgs /\ \A q \in DOMAIN built[p] : built[p][q] \subseteq Pkgs
      <4>1. DOMAIN built[p] \subseteq Pkgs
        BY ClosureInPkgs DEF BuiltRight
      <4>2. \A q \in DOMAIN built[p] : \E w \in DOMAIN Worlds : built[p][q] = Worlds[w][q]
        BY DEF Sane, Recollected, Published
      <4> QED
        BY <4>1, <4>2, Constants DEF Sane, Typed
    <3>2. Closure(built[p], {p}) \in SUBSET Pkgs /\ {p} \subseteq Closure(built[p], {p})
      BY <3>1, ClosureLeast
    <3> QED
      BY <3>2 DEF BuiltRight
  <2>2. /\ Range(hash) \subseteq SUBSET Pkgs /\ Range(files) \subseteq SUBSET Pkgs
    BY Constants DEF Sane, Typed, Recollected, Published, Range
  <2>3. /\ run.stage \in {"idle", "resolve", "index", "check", "clean", "print"}
        /\ run.deps_changed \in BOOLEAN
        /\ run.project \in Projects \cup {<<>>} /\ run.round \in 0 .. Len(run.project) + 1
    BY Constants DEF Sane, Typed, Runs, InRound, Idle
  <2>4. \A p \in Pkgs :
           /\ task[p].state \in Active \cup {"none", "queued", "done", "failed"}
           /\ task[p].left \cup task[p].removing \cup task[p].found \subseteq Pkgs
           /\ task[p].pass \subseteq task[p].found
           /\ task[p].state # "none" => run.stage = "clean" /\ p \in store
    <3> SUFFICES ASSUME NEW p \in Pkgs
                 PROVE  /\ task[p].state \in Active \cup {"none", "queued", "done", "failed"}
                        /\ task[p].left \cup task[p].removing \cup task[p].found \subseteq Pkgs
                        /\ task[p].pass \subseteq task[p].found
                        /\ task[p].state # "none" => run.stage = "clean" /\ p \in store
      OBVIOUS
    <3>1. task[p] \in Tasks /\ TaskRight(p)
      BY DEF Sane, Typed
    <3>2. run.stage # "clean" => task[p].state = "none"
      BY DEF Sane, CleansOnce, NoTask
    <3> QED
      BY <3>1, <3>2 DEF Tasks, States, TaskRight
  <2> QED
    BY <2>1, <2>2, <2>3, <2>4 DEF TypeOK, Sane, Typed, FewActive
<1> QED
  BY <1>1, <1>2, <1>3, SaneAlways, PTL DEF Spec

-----------------------------------------------------------------------------
(* Cleaning: what the tasks have together still to do, as long as none has *)
(* failed.                                                                 *)

NoneFailed == \A p \in Pkgs : task[p].state # "failed"

(* A dependent of what the process has retrieved is retrieved as well, or  *)
(* a search still comes to it.                                             *)
Coming(p, x) == task[p].state = "search" /\ x \in task[p].pass
SearchGoesOn ==
    \A q \in retrieved : \A x \in Dependents[q] : x \in retrieved \/ \E p \in Pkgs : Coming(p, x)

(* What is retrieved is taken to be removed, or some task has it to take.  *)
Held(p, x) ==
    \/ task[p].state = "search" /\ x \in task[p].found
    \/ task[p].state = "dependents" /\ x \in task[p].left
CleaningGoesOn ==
    \A x \in retrieved \cap installed : x \in cleaned \/ \E p \in Pkgs : Held(p, x)

(* What is taken to be removed is gone, or could not be removed, or a task *)
(* is removing it.                                                         *)
RemovalGoesOn ==
    \A x \in cleaned \cap DOMAIN built : x \in kept \/ \E p \in Pkgs : x \in task[p].removing

GoesOn ==
    run.stage = "clean" /\ NoneFailed => SearchGoesOn /\ CleaningGoesOn /\ RemovalGoesOn

(* No step of a task but a failure loses what is still to do.              *)
LEMMA GoesOnTask ==
    ASSUME Sane, Fits, GoesOn, NEW p \in Pkgs, TaskStep(p) \/ RemoveIgnored(p) \/ TaskFails(p)
    PROVE  GoesOn'
<1> SUFFICES ASSUME NoneFailed'
             PROVE  SearchGoesOn' /\ CleaningGoesOn' /\ RemovalGoesOn'
  BY DEF GoesOn
<1>frame. /\ \A q \in Pkgs \ {p} : task'[q] = task[q]
          /\ run.stage = "clean" /\ NoneFailed
          /\ installed' = installed
  BY TaskStepFrame DEF TaskFrame, NoneFailed, Active
<1>on. SearchGoesOn /\ CleaningGoesOn /\ RemovalGoesOn
  BY <1>frame DEF GoesOn
<1>right. TaskRight(p)
  BY DEF Sane
<1>visit. ASSUME NEW q \in Pkgs, VisitRetrieved(p, q)
          PROVE  \E more \in SUBSET (task[p].found \cup Dependents[q]) :
                    /\ Is(task'[p], task[p].state, task[p].left, task[p].removing,
                          task[p].found \cup Dependents[q], more)
                    /\ (task[p].pass \ {q}) \subseteq more
  BY <1>visit, TaskMoves
<1>9. ASSUME TaskFails(p) PROVE FALSE
  BY <1>9, TaskMoves DEF NoneFailed, Is
<1>effect. cleaned \subseteq cleaned' /\ retrieved \subseteq retrieved'
  BY TaskStepEffect DEF TaskEffect
<1>search. ASSUME \A x : Coming(p, x) => x \in retrieved' \/ Coming(p, x)',
                  \A q \in retrieved' \ retrieved : \A x \in Dependents[q] : Coming(p, x)'
           PROVE  SearchGoesOn'
  <2> SUFFICES ASSUME NEW q \in retrieved', NEW x \in Dependents[q], x \notin retrieved'
               PROVE  \E r \in Pkgs : Coming(r, x)'
    BY DEF SearchGoesOn
  <2>1. CASE q \notin retrieved
    BY <1>search, <2>1
  <2>2. CASE q \in retrieved
    <3>1. PICK r \in Pkgs : Coming(r, x)
      BY <1>on, <1>effect, <2>2 DEF SearchGoesOn
    <3>2. Coming(r, x)'
      BY <1>search, <1>frame, <3>1 DEF Coming
    <3> QED
      BY <3>2
  <2> QED
    BY <2>1, <2>2
<1>clean. ASSUME \A x \in installed : Held(p, x) => x \in cleaned' \/ Held(p, x)',
                 \A x \in retrieved' \ retrieved : Held(p, x)'
          PROVE  CleaningGoesOn'
  <2> SUFFICES ASSUME NEW x \in retrieved' \cap installed, x \notin cleaned'
               PROVE  \E r \in Pkgs : Held(r, x)'
    BY <1>frame DEF CleaningGoesOn
  <2>1. CASE x \notin retrieved
    BY <1>clean, <2>1
  <2>2. CASE x \in retrieved
    <3>1. PICK r \in Pkgs : Held(r, x)
      BY <1>on, <1>effect, <2>2 DEF CleaningGoesOn
    <3>2. Held(r, x)'
      BY <1>clean, <1>frame, <3>1 DEF Held
    <3> QED
      BY <3>2
  <2> QED
    BY <2>1, <2>2
<1> USE <1>frame, <1>on, <1>right DEF TaskRight, Is, disk, Cleaning, NothingLeft
<1>1. ASSUME Begin(p) PROVE SearchGoesOn' /\ CleaningGoesOn' /\ RemovalGoesOn'
  <2>1. Is(task'[p], "package", {p}, task[p].removing, task[p].found, task[p].pass)
    BY <1>1, TaskMoves
  <2> USE <1>1, <2>1 DEF Begin
  <2>2. SearchGoesOn'
    BY <1>search DEF Coming
  <2>3. CleaningGoesOn'
    BY <1>clean DEF Held
  <2>4. RemovalGoesOn'
    BY DEF RemovalGoesOn
  <2> QED
    BY <2>2, <2>3, <2>4
<1>2. ASSUME Remove(p) PROVE SearchGoesOn' /\ CleaningGoesOn' /\ RemovalGoesOn'
  <2>1. Is(task'[p], task[p].state, task[p].left, {}, task[p].found, task[p].pass)
    BY <1>2, TaskMoves
  <2> USE <1>2, <2>1 DEF Remove, Restrict
  <2>2. SearchGoesOn'
    BY <1>search DEF Coming
  <2>3. CleaningGoesOn'
    BY <1>clean DEF Held
  <2>4. RemovalGoesOn'
    BY DEF RemovalGoesOn
  <2> QED
    BY <2>2, <2>3, <2>4
<1>10. ASSUME RemoveIgnored(p) PROVE SearchGoesOn' /\ CleaningGoesOn' /\ RemovalGoesOn'
  <2>1. Is(task'[p], task[p].state, task[p].left, {}, task[p].found, task[p].pass)
    BY <1>10, TaskMoves
  <2> USE <1>10, <2>1 DEF RemoveIgnored
  <2>2. SearchGoesOn'
    BY <1>search DEF Coming
  <2>3. CleaningGoesOn'
    BY <1>clean DEF Held
  <2>4. RemovalGoesOn'
    BY DEF RemovalGoesOn
  <2> QED
    BY <2>2, <2>3, <2>4
<1>3. ASSUME FindDependents(p) PROVE SearchGoesOn' /\ CleaningGoesOn' /\ RemovalGoesOn'
  <2>1. Is(task'[p], "search", task[p].left, task[p].removing, {p}, {p})
    BY <1>3, TaskMoves
  <2> USE <1>3, <2>1 DEF FindDependents
  <2>2. SearchGoesOn'
    BY <1>search DEF Coming
  <2>3. CleaningGoesOn'
    BY <1>clean DEF Held
  <2>4. RemovalGoesOn'
    BY DEF RemovalGoesOn
  <2> QED
    BY <2>2, <2>3, <2>4
<1>4. ASSUME Found(p) PROVE SearchGoesOn' /\ CleaningGoesOn' /\ RemovalGoesOn'
  <2>1. Is(task'[p], "dependents", (task[p].found \ {p}) \cap installed, {}, {}, {})
    BY <1>4, TaskMoves
  <2> USE <1>4, <2>1 DEF Found
  <2>2. SearchGoesOn'
    BY <1>search DEF Coming
  <2>3. CleaningGoesOn'
    BY <1>clean DEF Held
  <2>4. RemovalGoesOn'
    BY DEF RemovalGoesOn
  <2> QED
    BY <2>2, <2>3, <2>4
<1>5. ASSUME SetHash(p) PROVE SearchGoesOn' /\ CleaningGoesOn' /\ RemovalGoesOn'
  <2>1. Is(task'[p], "done", {}, {}, {}, {})
    BY <1>5, TaskMoves
  <2> USE <1>5, <2>1 DEF SetHash, Recorded
  <2>2. SearchGoesOn'
    BY <1>search DEF Coming
  <2>3. CleaningGoesOn'
    BY <1>clean DEF Held
  <2>4. RemovalGoesOn'
    BY DEF RemovalGoesOn
  <2> QED
    BY <2>2, <2>3, <2>4
<1>6. ASSUME NEW q \in Pkgs, SaveCleaned(p, q) PROVE SearchGoesOn' /\ CleaningGoesOn' /\ RemovalGoesOn'
  <2>1. Is(task'[p], task[p].state, task[p].left, {q}, task[p].found, task[p].pass)
    BY <1>6, TaskMoves
  <2> USE <1>6, <2>1 DEF SaveCleaned
  <2>2. SearchGoesOn'
    BY <1>search DEF Coming
  <2>3. CleaningGoesOn'
    BY <1>clean DEF Held
  <2>4. RemovalGoesOn'
    BY DEF RemovalGoesOn
  <2> QED
    BY <2>2, <2>3, <2>4
<1>7. ASSUME NEW q \in Pkgs, VisitRetrieved(p, q) PROVE SearchGoesOn' /\ CleaningGoesOn' /\ RemovalGoesOn'
  <2>1. PICK more \in SUBSET (task[p].found \cup Dependents[q]) :
           /\ Is(task'[p], task[p].state, task[p].left, task[p].removing,
                  task[p].found \cup Dependents[q], more)
           /\ (task[p].pass \ {q}) \subseteq more
    BY <1>7, <1>visit
  <2> USE <1>7, <2>1 DEF VisitRetrieved
  <2>2. SearchGoesOn'
    BY <1>search DEF Coming
  <2>3. CleaningGoesOn'
    BY <1>clean DEF Held
  <2>4. RemovalGoesOn'
    BY DEF RemovalGoesOn
  <2> QED
    BY <2>2, <2>3, <2>4
<1>8. ASSUME NEW q \in Pkgs, Retrieve(p, q) PROVE SearchGoesOn' /\ CleaningGoesOn' /\ RemovalGoesOn'
  <2>1. Is(task'[p], task[p].state, task[p].left, task[p].removing,
                  task[p].found \cup Dependents[q], task[p].found \cup Dependents[q])
    BY <1>8, TaskMoves
  <2> USE <1>8, <2>1 DEF Retrieve
  <2>2. SearchGoesOn'
    BY <1>search DEF Coming
  <2>3. CleaningGoesOn'
    BY <1>clean DEF Held
  <2>4. RemovalGoesOn'
    BY DEF RemovalGoesOn
  <2> QED
    BY <2>2, <2>3, <2>4
<1> QED
  BY <1>1, <1>2, <1>3, <1>4, <1>5, <1>6, <1>7, <1>8, <1>9, <1>10 DEF TaskStep

(* A run comes to clean only in check_deps_changed.                        *)
LEMMA EntersCleaning ==
    ASSUME Sane,
           \/ (\E project \in Projects : Start(project)) \/ RunStep \/ Stop
           \/ (\E p \in Pkgs : Build(p)) \/ Publish
    PROVE  run'.stage = "clean" => CheckDepsChanged
<1>1. run \in Runs
  BY DEF Sane, Typed
<1>2. NextRound /\ run.stage # "idle" => run'.stage \in {"resolve", "print"}
  BY NextRoundRight
<1> USE <1>1 DEF Runs, Idle, memory, Exit
<1>3. ASSUME NEW project \in Projects, Start(project) PROVE run'.stage = "resolve"
  BY <1>3 DEF Start
<1>4. ASSUME ResolveDependencies PROVE run'.stage = "index"
  BY <1>4 DEF ResolveDependencies
<1>5. ASSUME WriteIndex PROVE run'.stage = "check"
  BY <1>5 DEF WriteIndex
<1>6. ASSUME NothingToResolve \/ AlreadyExecuted \/ Joined
      PROVE  run'.stage \in {"resolve", "print"}
  BY <1>2, <1>6 DEF NothingToResolve, AlreadyExecuted, Joined
<1>7. ASSUME JoinFails \/ Done \/ Stop PROVE run'.stage = "idle"
  BY <1>7 DEF JoinFails, Done, Stop
<1>8. ASSUME NEW p \in Pkgs, PrintPackage(p) \/ Build(p) PROVE run'.stage \in {"idle", "print"}
  BY <1>8 DEF PrintPackage, Build
<1>9. ASSUME Publish PROVE run'.stage = "idle"
  BY <1>9 DEF Publish
<1> QED
  BY <1>3, <1>4, <1>5, <1>6, <1>7, <1>8, <1>9 DEF RunStep

(* Nor does any other step: a run begins to clean with nothing retrieved.  *)
LEMMA GoesOnStep ==
    ASSUME Sane, Fits, GoesOn, [Next]_vars PROVE GoesOn'
<1>1. ASSUME CheckDepsChanged PROVE GoesOn'
  <2>1. cleaned' = {} /\ retrieved' = {}
    BY <1>1 DEF CheckDepsChanged, Compare, Sane, CleansOnce
  <2> QED
    BY <2>1 DEF GoesOn, SearchGoesOn, CleaningGoesOn, RemovalGoesOn
<1>2. ASSUME run'.stage # "clean" PROVE GoesOn'
  BY <1>2 DEF GoesOn
<1>3. CASE UNCHANGED vars
  BY <1>3 DEF vars, disk, memory, history, GoesOn, NoneFailed, SearchGoesOn, Coming, CleaningGoesOn, Held,
              RemovalGoesOn
<1> QED
  BY <1>1, <1>2, <1>3, EntersCleaning, GoesOnTask DEF Next

(* At first no run cleans.                                                 *)
LEMMA GoesOnInit == Init => GoesOn
BY DEF Init, Idle, GoesOn

(* When all tasks are over, what they have retrieved is closed under       *)
(* dependents, and so has all the dependents of what had changed.          *)
LEMMA CleanedAfterAll ==
    ASSUME Sane, GoesOn PROVE DependentsCleaned
<1> SUFFICES ASSUME run.stage = "clean", Waited, \A p \in Pkgs : task[p].state # "failed"
             PROVE  AllDependents({p \in Pkgs : task[p].state = "done"}) \cap installed
                       \cap DOMAIN built \subseteq kept
  BY DEF DependentsCleaned
<1> DEFINE changed == {p \in Pkgs : task[p].state = "done"}
<1>1. SearchGoesOn /\ CleaningGoesOn /\ RemovalGoesOn
  BY DEF GoesOn, NoneFailed
<1>2. \A p \in Pkgs : task[p].state \in {"none", "done"} /\ task[p].removing = {}
  BY DEF Waited, Sane, TaskRight
<1>3. changed \subseteq retrieved
  BY DEF Sane, TaskRight
<1>4. retrieved \in SUBSET Pkgs /\ changed \in SUBSET Pkgs
  BY DEF Sane, Typed
<1>5. Closed(Dependents, retrieved)
  BY <1>1, <1>2 DEF SearchGoesOn, Coming, Closed
<1>6. Closure(Dependents, changed) \subseteq retrieved
  <2> HIDE DEF changed
  <2> QED
    BY <1>3, <1>4, <1>5, ClosureLeast
<1>7. retrieved \cap installed \subseteq cleaned
  BY <1>1, <1>2 DEF CleaningGoesOn, Held
<1>8. cleaned \cap DOMAIN built \subseteq kept
  BY <1>1, <1>2 DEF RemovalGoesOn
<1> QED
  BY <1>6, <1>7, <1>8 DEF AllDependents

(* DependentsCleaned holds as long as no search outgrows its table.        *)
THEOREM CleaningCorrect ==
    ASSUME Fits PROVE Spec => []DependentsCleaned
<1>1. Init => GoesOn
  BY GoesOnInit
<1>2. Sane /\ GoesOn /\ [Next]_vars => GoesOn'
  BY GoesOnStep
<1>3. Sane /\ GoesOn => DependentsCleaned
  BY CleanedAfterAll
<1> QED
  BY <1>1, <1>2, <1>3, SaneAlways, PTL DEF Spec

-----------------------------------------------------------------------------
(* Hashes.                                                                 *)

(* What a run has checked has the hash of its present dependencies, or a   *)
(* task of it is still under way or has failed.                            *)
CheckedHashed ==
    run.stage # "idle" =>
        \A p \in checked :
            HasHash(p) \/ (run.stage = "clean" /\ task[p].state \notin {"none", "done"})

Settled == \A p \in settled : HasHash(p)

HashesRight == CheckedHashed /\ Settled

(* A hash that is right stays right until something is published.          *)
LEMMA HashKept ==
    ASSUME Sane, [Next]_vars, ~ Publish
    PROVE  /\ world' = world
           /\ \A p : HasHash(p) => HasHash(p)'
<1>1. ASSUME UNCHANGED <<hash, world>>
      PROVE  world' = world /\ \A p : HasHash(p) => HasHash(p)'
  BY <1>1 DEF HasHash, deps
<1> USE DEF disk, OnlyTask
<1>2. ASSUME NEW p \in Pkgs, SetHash(p) PROVE world' = world /\ \A q : HasHash(q) => HasHash(q)'
  BY <1>2 DEF SetHash, Recorded, HasHash, deps
<1>3. ASSUME NEW p \in Pkgs, TaskStep(p) \/ RemoveIgnored(p) \/ TaskFails(p), ~ SetHash(p) PROVE UNCHANGED <<hash, world>>
  BY <1>3 DEF TaskStep, Begin, Remove, RemoveIgnored, FindDependents, Found, TaskFails, SaveCleaned, VisitRetrieved, Retrieve
<1> QED
  BY <1>1, <1>2, <1>3 DEF Next, RunStep, vars, Start, ResolveDependencies, NothingToResolve, WriteIndex,
     CheckDepsChanged, Compare, AlreadyExecuted, Joined, JoinFails, PrintPackage, Done, Stop, Build, Publish

(* Every step keeps the hashes right.                                      *)
LEMMA HashesRightStep ==
    ASSUME Sane, HashesRight, [Next]_vars PROVE HashesRight'
<1>typed. checked \subseteq Pkgs /\ settled \subseteq Pkgs /\ checked \subseteq store
  BY DEF Sane, Typed
<1>kept. ~ Publish => \A p : HasHash(p) => HasHash(p)'
  BY HashKept
<1> USE DEF HashesRight, history
<1>1. ASSUME NEW p \in Pkgs, TaskStep(p) \/ RemoveIgnored(p) \/ TaskFails(p) PROVE HashesRight'
  <2>1. TaskFrame(p)
    BY <1>1, TaskStepFrame
  <2>2. checked' = checked /\ settled' = settled /\ run' = run /\ run.stage = "clean"
    BY <2>1 DEF TaskFrame, OnlyTask
  <2>3. \A q : HasHash(q) => HasHash(q)'
    BY <1>kept, <2>2, <1>1, <2>1 DEF Publish
  <2>4. task'[p].state # "done" \/ HasHash(p)'
    <3>1. CASE SetHash(p)
      BY <1>typed, <3>1 DEF SetHash, Recorded, HasHash, deps, OnlyTask
    <3>2. CASE ~ SetHash(p)
      <4>1. ASSUME NEW q \in Pkgs, VisitRetrieved(p, q) PROVE task'[p].state = task[p].state
        BY <4>1, TaskMoves DEF Is
      <4> QED
        BY <1>1, <3>2, <4>1, <2>1, TaskMoves
           DEF TaskStep, Is, TaskFrame, Active, Remove, RemoveIgnored, SaveCleaned, Cleaning, Retrieve, VisitRetrieved,
               Sane, TaskRight
    <3> QED
      BY <3>1, <3>2
  <2>5. CheckedHashed'
    BY <1>typed, <2>1, <2>2, <2>3, <2>4 DEF CheckedHashed, TaskFrame
  <2> QED
    BY <2>2, <2>3, <2>5 DEF Settled
<1>2. ASSUME CheckDepsChanged PROVE HashesRight'
  <2>1. \A p \in checked' : HasHash(p)' \/ (run'.stage = "clean" /\ task'[p].state = "queued")
    BY <1>2, <1>kept, <1>typed DEF CheckDepsChanged, Compare, Publish, Sane, Typed, Runs, NoTask
  <2>2. settled' = settled /\ ~ Publish
    BY <1>2 DEF CheckDepsChanged, Compare, Publish
  <2> QED
    BY <2>1, <2>2, <1>kept DEF CheckedHashed, Settled
<1>3. ASSUME Publish PROVE HashesRight'
  BY <1>3 DEF Publish, CheckedHashed, Settled, memory
<1>4. ASSUME Done PROVE HashesRight'
  <2>1. \A p \in checked : HasHash(p)
    BY <1>4 DEF Done, CheckedHashed
  <2>2. run'.stage = "idle" /\ settled' = settled \cup checked /\ ~ Publish
    BY <1>4 DEF Done, Exit, Idle, Publish
  <2> QED
    BY <2>1, <2>2, <1>kept DEF CheckedHashed, Settled
<1>5. ASSUME settled' = settled, checked' = checked, ~ Publish,
             run.stage # "idle",
             run.stage = "clean" => \A p \in Pkgs : task[p].state \in {"none", "done"}
      PROVE  HashesRight'
  BY <1>5, <1>kept, <1>typed DEF CheckedHashed, Settled
<1>6. ASSUME settled' = settled, ~ Publish, run'.stage = "idle" \/ checked' = {} PROVE HashesRight'
  BY <1>6, <1>kept DEF CheckedHashed, Settled
<1>7. ASSUME UNCHANGED <<settled, checked, run, task>>, ~ Publish PROVE HashesRight'
  BY <1>7, <1>kept DEF CheckedHashed, Settled
<1>8. ASSUME Joined PROVE HashesRight'
  <2>1. run.stage = "clean" /\ \A p \in Pkgs : task[p].state \in {"none", "done"}
    BY <1>8 DEF Joined, Waited
  <2>2. ~ Publish /\ settled' = settled /\ checked' = checked
    BY <1>8 DEF Joined, Publish
  <2> QED
    BY <1>5, <2>1, <2>2
<1>9. ASSUME ResolveDependencies \/ NothingToResolve \/ WriteIndex \/ AlreadyExecuted PROVE HashesRight'
  <2>1. run.stage \notin {"idle", "clean"} /\ settled' = settled /\ checked' = checked /\ ~ Publish
    BY <1>9 DEF ResolveDependencies, NothingToResolve, WriteIndex, AlreadyExecuted, Publish
  <2> QED
    BY <1>5, <2>1
<1>10. ASSUME JoinFails \/ Stop \/ \E project \in Projects : Start(project) PROVE HashesRight'
  <2>1. settled' = settled /\ ~ Publish /\ (run'.stage = "idle" \/ checked' = {})
    <3>1. ASSUME NEW project \in Projects, Start(project)
          PROVE  settled' = settled /\ checked' = {} /\ world' = world
      BY <3>1 DEF Start
    <3>2. ASSUME world' = world PROVE ~ Publish
      BY <3>2, Constants DEF Publish, Sane, Typed
    <3>3. ASSUME JoinFails \/ Stop PROVE settled' = settled /\ ~ Publish /\ run'.stage = "idle"
      BY <3>3 DEF JoinFails, Stop, Exit, Idle, Publish
    <3> QED
      BY <1>10, <3>1, <3>2, <3>3
  <2> QED
    BY <1>6, <2>1
<1>11. ASSUME UNCHANGED vars \/ \E p \in Pkgs : PrintPackage(p) \/ Build(p) PROVE HashesRight'
  <2>1. UNCHANGED <<settled, checked, run, task, world>>
    BY <1>11 DEF PrintPackage, Build, vars, memory
  <2>2. ~ Publish
    BY <2>1, Constants DEF Publish, Sane, Typed
  <2> QED
    BY <1>7, <2>1, <2>2
<1> QED
  BY <1>1, <1>2, <1>3, <1>4, <1>8, <1>9, <1>10, <1>11 DEF Next, RunStep

(* SettledStays: a package that comes to be queued has no hash of its      *)
(* present dependencies, and a settled one has.                            *)
THEOREM SettledCorrect == Spec => SettledStays
<1>1. Init => HashesRight
  BY DEF Init, Idle, HashesRight, CheckedHashed, Settled
<1>2. Sane /\ HashesRight /\ [Next]_vars => HashesRight'
  BY HashesRightStep
<1>3. Sane /\ HashesRight /\ [Next]_vars =>
          [\A p \in settled : task'[p].state = "queued" => task[p].state = "queued"]_vars
  <2> SUFFICES ASSUME Sane, HashesRight, Next, NEW p \in settled, task'[p].state = "queued"
               PROVE  task[p].state = "queued"
    OBVIOUS
  <2>1. p \in Pkgs /\ HasHash(p)
    BY DEF Sane, Typed, HashesRight, Settled
  <2>2. ASSUME NEW q \in Pkgs, TaskStep(q) \/ RemoveIgnored(q) \/ TaskFails(q) PROVE task[p].state = "queued"
    BY <2>1, <2>2, TaskStepFrame DEF TaskFrame
  <2>3. ASSUME CheckDepsChanged PROVE FALSE
    BY <2>1, <2>3 DEF CheckDepsChanged, Compare, NoTask
  <2>4. ASSUME Joined \/ JoinFails \/ Stop PROVE FALSE
    BY <2>1, <2>4 DEF Joined, JoinFails, Stop, NoTask
  <2> QED
    BY <2>2, <2>3, <2>4 DEF Next, RunStep, Start, ResolveDependencies, NothingToResolve, WriteIndex,
       AlreadyExecuted, PrintPackage, Done, Build, Publish, memory
<1> QED
  BY <1>1, <1>2, <1>3, SaneAlways, PTL DEF Spec, SettledStays

-----------------------------------------------------------------------------
(* What is built.                                                          *)

(* The recorded hash of q is of the dependencies d, or will never be right *)
(* again.                                                                  *)
Vouched(d, q) ==
    q \in DOMAIN hash =>
        hash[q] = d \/ \A w \in DOMAIN Worlds : world <= w => Worlds[w][q] # hash[q]

(* The hashes vouch for all that anything built was made from that could   *)
(* be removed, and a task that is done for what it and the others have     *)
(* still to clean.                                                         *)
BuiltVouched ==
    ~ torn =>
        \A p \in DOMAIN built \ kept : \A q \in DOMAIN built[p] :
            Vouched(built[p][q], q) \/ (run.stage = "clean" /\ task[q].state = "done")

(* They vouch for the files of the last run's packages, which refer only   *)
(* to each other.                                                          *)
FilesVouched ==
    run.stage = "idle" /\ status = "done" =>
        /\ store \subseteq DOMAIN files /\ Closed(files, store)
        /\ \A q \in store : Vouched(files[q], q)

BuildsRight == BuiltVouched /\ FilesVouched /\ BuiltFromFiles

(* What p was made from has p among its dependents.                        *)
LEMMA MadeFromHasDependent ==
    ASSUME Sane, BuiltRight, NEW p \in DOMAIN built, NEW q \in DOMAIN built[p]
    PROVE  p \in Pkgs /\ q \in Pkgs /\ p \in AllDependents({q})
<1>1. p \in Pkgs /\ DOMAIN built[p] \in SUBSET Pkgs
  BY ClosureInPkgs DEF Sane, Typed, BuiltRight
<1>2. {p} \in SUBSET Pkgs /\ {q} \in SUBSET Pkgs
  BY <1>1
<1>3. \A x \in DOMAIN built[p] : \E w \in DOMAIN Worlds : built[p][x] = Worlds[w][x]
  BY DEF Sane, Recollected, Published
<1>4. \A x \in DOMAIN built[p] : built[p][x] \subseteq Pkgs
  BY <1>1, <1>3, Constants
<1> DEFINE D == AllDependents({q})
<1>5. q \in D /\ Closed(Dependents, D) /\ D \in SUBSET Pkgs
  BY <1>2, ClosureLeast DEF AllDependents
<1>6. ASSUME p \notin D PROVE FALSE
  <2>1. Closed(built[p], Pkgs \ D)
    <3> SUFFICES ASSUME NEW x \in (Pkgs \ D) \cap DOMAIN built[p], NEW y \in built[p][x], y \in D
                 PROVE  FALSE
      BY <1>4 DEF Closed
    <3>1. PICK w \in DOMAIN Worlds : built[p][x] = Worlds[w][x]
      BY <1>3
    <3>2. x \in Dependents[y]
      BY <3>1
    <3> QED
      BY <1>5, <3>2 DEF Closed
  <2>2. {p} \subseteq Pkgs \ D
    BY <1>1, <1>6
  <2>3. \A T \in SUBSET Pkgs : {p} \subseteq T /\ Closed(built[p], T) => Closure(built[p], {p}) \subseteq T
    <3> HIDE DEF D
    <3> QED
      BY <1>2, <1>4, ClosureLeast
  <2>4. DOMAIN built[p] \subseteq Pkgs \ D
    BY <2>1, <2>2, <2>3 DEF BuiltRight
  <2> QED
    BY <1>5, <2>4
<1> QED
  BY <1>1, <1>6

(* When the cleaning is over, the hashes vouch for all that is left.       *)
LEMMA JoinedVouches ==
    ASSUME Sane, BuiltRight, GoesOn, BuiltVouched, ~ torn, Joined,
           NEW p \in DOMAIN built \ kept, NEW q \in DOMAIN built[p]
    PROVE  Vouched(built[p][q], q)
<1> SUFFICES ASSUME task[q].state = "done" PROVE FALSE
  BY DEF BuiltVouched
<1> DEFINE changed == {x \in Pkgs : task[x].state = "done"}
<1>1. p \in Pkgs /\ q \in Pkgs /\ p \in AllDependents({q})
  BY MadeFromHasDependent
<1>2. {q} \subseteq changed /\ changed \in SUBSET Pkgs
  BY <1>1
<1>3. AllDependents({q}) \subseteq AllDependents(changed)
  <2> HIDE DEF changed
  <2>1. {q} \in SUBSET Closure(Dependents, changed)
    BY <1>2, ClosureLeast
  <2> QED
    BY <1>2, <2>1, ClosureWithin DEF AllDependents
<1>4. AllDependents(changed) \cap installed \cap DOMAIN built \subseteq kept
  BY CleanedAfterAll DEF DependentsCleaned, Joined
<1> QED
  BY <1>1, <1>3, <1>4 DEF BuiltRight

(* What is there of a checked package at the end of a run was made from    *)
(* the files that are there.                                               *)
LEMMA DoneBuilt ==
    ASSUME Sane, BuiltRight, HashesRight, BuiltVouched, ~ torn, Done,
           NEW p \in (checked \cap DOMAIN built) \ kept
    PROVE  built[p] = Made(files, p)
<1> DEFINE b == built[p]
<1>1. /\ p \in Pkgs /\ {p} \in SUBSET Pkgs
      /\ DOMAIN b \in SUBSET Pkgs
      /\ DOMAIN b = Closure(b, {p})
      /\ IsFunction(b)
  BY ClosureInPkgs DEF Sane, Typed, BuiltRight
<1>2. \A q \in DOMAIN b : b[q] \subseteq Pkgs
  BY <1>1, Constants DEF Sane, Recollected, Published
<1>3. /\ p \in DOMAIN b /\ Closed(b, DOMAIN b)
      /\ \A T \in SUBSET Pkgs : {p} \subseteq T /\ Closed(b, T) => DOMAIN b \subseteq T
  <2> HIDE DEF b
  <2>1. /\ {p} \subseteq Closure(b, {p}) /\ Closed(b, Closure(b, {p}))
        /\ \A T \in SUBSET Pkgs : {p} \subseteq T /\ Closed(b, T) => Closure(b, {p}) \subseteq T
    BY <1>1, <1>2, ClosureLeast
  <2> QED
    BY <1>1, <2>1
<1>4. /\ checked \subseteq store /\ Closed(deps, checked)
      /\ \A q \in store : q \in DOMAIN files /\ files[q] = deps[q]
      /\ \A q \in checked : HasHash(q)
      /\ world \in DOMAIN Worlds
  BY DEF Done, Sane, Typed, StoreRight, HashesRight, CheckedHashed
<1>5. ASSUME NEW q \in checked \cap DOMAIN b PROVE b[q] = deps[q]
  <2>1. Vouched(b[q], q)
    BY DEF BuiltVouched, Done
  <2>2. world <= world
    BY <1>4, Constants
  <2> QED
    BY <1>4, <2>1, <2>2 DEF Vouched, HasHash, deps
<1>6. DOMAIN b \subseteq checked
  <2>1. \A q \in checked : q \in DOMAIN deps
    BY <1>4, Constants DEF deps, Sane, Typed
  <2>2. Closed(b, checked \cap DOMAIN b)
    BY <1>3, <1>4, <1>5, <2>1 DEF Closed
  <2>3. {p} \subseteq checked \cap DOMAIN b /\ checked \cap DOMAIN b \in SUBSET Pkgs
    BY <1>1, <1>3
  <2> HIDE DEF b
  <2> QED
    BY <1>3, <2>2, <2>3
<1>7. \A q \in DOMAIN b : b[q] = files[q] /\ q \in DOMAIN files
  BY <1>4, <1>5, <1>6
<1>8. /\ Closure(files, {p}) \in SUBSET Pkgs /\ {p} \subseteq Closure(files, {p})
      /\ Closed(files, Closure(files, {p}))
      /\ \A T \in SUBSET Pkgs : {p} \subseteq T /\ Closed(files, T) => Closure(files, {p}) \subseteq T
  <2>1. \A q \in DOMAIN files : files[q] \subseteq Pkgs
    BY Constants DEF Sane, Typed, Recollected, Published
  <2>2. {p} \in SUBSET Pkgs
    BY <1>1
  <2> QED
    BY <2>1, <2>2, ClosureLeast
<1>9. Closure(files, {p}) \subseteq DOMAIN b
  <2>1. Closed(files, DOMAIN b) /\ {p} \subseteq DOMAIN b
    BY <1>3, <1>7 DEF Closed
  <2> HIDE DEF b
  <2> QED
    BY <1>1, <1>8, <2>1
<1>10. DOMAIN b \subseteq Closure(files, {p})
  <2>1. Closed(b, Closure(files, {p}))
    BY <1>7, <1>8 DEF Closed
  <2> HIDE DEF b
  <2> QED
    BY <1>3, <1>8, <2>1
<1>11. Made(files, p) = [q \in Closure(files, {p}) |-> files[q]]
  BY DEF Made, Restrict
<1>12. DOMAIN b = Closure(files, {p})
  BY <1>9, <1>10
<1> HIDE DEF b
<1>13. b = Made(files, p)
  BY <1>1, <1>7, <1>11, <1>12 DEF IsFunction
<1> QED
  BY <1>13 DEF b

(* Vouching survives all steps but the one that sets the hash.             *)
LEMMA VouchedKept ==
    ASSUME Sane, [Next]_vars
    PROVE  \A q : hash' = hash \/ (q \in Pkgs /\ \E p \in Pkgs \ {q} : SetHash(p)) =>
              \A d : Vouched(d, q) => Vouched(d, q)'
<1>1. world' \in {world, world + 1} /\ world \in Nat
  BY HashKept, Constants DEF Sane, Typed, Publish
<1>2. \A w \in DOMAIN Worlds : w \in Nat /\ (world' <= w => world <= w)
  BY <1>1, Constants
<1>3. ASSUME NEW q, NEW d, Vouched(d, q), q \in DOMAIN hash' => q \in DOMAIN hash /\ hash'[q] = hash[q]
      PROVE  Vouched(d, q)'
  BY <1>2, <1>3 DEF Vouched
<1>4. ASSUME NEW q \in Pkgs, NEW p \in Pkgs \ {q}, SetHash(p)
      PROVE  q \in DOMAIN hash' => q \in DOMAIN hash /\ hash'[q] = hash[q]
  BY <1>4 DEF SetHash, Recorded
<1> QED
  BY <1>3, <1>4

(* What a run has printed is vouched for at its end: a recorded hash that  *)
(* is of something else was published earlier, and does not come back.     *)
LEMMA DoneVouches ==
    ASSUME Sane, NeverBack, Done
    PROVE  /\ store \subseteq DOMAIN files /\ Closed(files, store)
           /\ \A q \in store : Vouched(files[q], q)
<1>1. /\ store \in SUBSET Pkgs /\ Closed(deps, store)
      /\ \A q \in store : q \in DOMAIN files /\ files[q] = deps[q]
      /\ world \in DOMAIN Worlds /\ DOMAIN deps = Pkgs
  BY Constants DEF Done, Sane, Typed, StoreRight, deps
<1>2. ASSUME NEW q \in store, q \in DOMAIN hash, hash[q] # files[q],
             NEW w \in DOMAIN Worlds, world <= w, Worlds[w][q] = hash[q]
      PROVE  FALSE
  <2>1. PICK u \in DOMAIN Worlds : u <= world /\ hash[q] = Worlds[u][q]
    BY <1>2 DEF Sane, Recollected, Published
  <2> QED
    BY <1>1, <1>2, <2>1 DEF NeverBack, deps
<1> QED
  BY <1>1, <1>2 DEF Closed, Vouched

(* A step of a task keeps what is built right.                             *)
LEMMA BuildsRightTask ==
    ASSUME Sane, BuiltRight, BuildsRight, NEW p \in Pkgs, TaskStep(p) \/ RemoveIgnored(p) \/ TaskFails(p)
    PROVE  BuildsRight'
<1>1. TaskFrame(p) /\ TaskEffect(p)
  BY TaskStepFrame, TaskStepEffect
<1>step. TaskStep(p) \/ RemoveIgnored(p) \/ TaskFails(p)
  OBVIOUS
<1>kept. \A q : hash' = hash \/ (q \in Pkgs /\ \E r \in Pkgs \ {q} : SetHash(r)) =>
            \A d : Vouched(d, q) => Vouched(d, q)'
  BY VouchedKept DEF Next
<1>2. run' = run /\ run.stage = "clean" /\ torn' = torn
  BY <1>1 DEF TaskFrame, OnlyTask, history
<1>3. ASSUME NEW r \in DOMAIN built' \ kept', NEW q \in DOMAIN built'[r], ~ torn,
             NEW d, d = built'[r][q]
      PROVE  Vouched(d, q)' \/ task'[q].state = "done"
  <2>1. r \in DOMAIN built \ kept /\ built'[r] = built[r] /\ q \in Pkgs
    BY <1>1, <1>3, MadeFromHasDependent DEF TaskEffect
  <2>2. Vouched(d, q) \/ task[q].state = "done"
    BY <1>3, <2>1 DEF BuildsRight, BuiltVouched
  <2>3. CASE task[q].state = "done"
    BY <1>1, <2>1, <2>3 DEF TaskFrame, Active
  <2>4. CASE Vouched(d, q) /\ ~ SetHash(p)
    <3>1. hash' = hash
      BY <1>step, <2>4 DEF disk, TaskStep, Begin, Remove, RemoveIgnored, FindDependents, Found, TaskFails, SaveCleaned,
                           VisitRetrieved, Retrieve
    <3> QED
      BY <2>4, <3>1, <1>kept
  <2>5. CASE Vouched(d, q) /\ SetHash(p)
    <3>1. CASE q = p
      BY <2>5, <3>1, TaskMoves DEF Is
    <3>2. CASE q # p
      BY <2>1, <2>5, <3>2, <1>kept
    <3> QED
      BY <3>1, <3>2
  <2> QED
    BY <2>2, <2>3, <2>4, <2>5
<1>4. BuiltVouched'
  BY <1>2, <1>3 DEF BuiltVouched, Vouched
<1> QED
  BY <1>2, <1>4 DEF BuildsRight, FilesVouched, BuiltFromFiles

(* So does a step of the run, of the user or of the server.                *)
LEMMA BuildsRightRun ==
    ASSUME Sane, BuiltRight, GoesOn, HashesRight, BuildsRight,
           NeverBack, BuildAfter \subseteq {"done"}
    PROVE  \/ (\E project \in Projects : Start(project)) \/ RunStep \/ Stop
           \/ (\E p \in Pkgs : Build(p)) \/ Publish
           => BuildsRight'
<1>kept. ASSUME [Next]_vars, hash' = hash
         PROVE  \A q, d : Vouched(d, q) => Vouched(d, q)'
  BY <1>kept, VouchedKept
<1>1. ASSUME [Next]_vars, hash' = hash, ~ torn' => ~ torn, run'.stage # "idle",
             DOMAIN built' \ kept' \subseteq DOMAIN built \ kept,
             \A p \in DOMAIN built' : built'[p] = built[p],
             ~ torn => \A p \in DOMAIN built \ kept : \A q \in DOMAIN built[p] : Vouched(built[p][q], q)
      PROVE  BuildsRight'
  BY <1>1, <1>kept, ZenonT(60) DEF BuildsRight, BuiltVouched, FilesVouched, BuiltFromFiles, Vouched
<1>2. run.stage # "clean" /\ ~ torn =>
          \A p \in DOMAIN built \ kept : \A q \in DOMAIN built[p] : Vouched(built[p][q], q)
  BY DEF BuildsRight, BuiltVouched
<1> USE DEF disk, memory, history
<1>3. ASSUME NEW project \in Projects, Start(project) PROVE BuildsRight'
  <2>1. [Next]_vars /\ hash' = hash /\ built' = built /\ kept' = kept /\ torn' = torn /\ run.stage = "idle"
    BY <1>3 DEF Start, Next
  <2>2. run'.stage = "resolve"
    BY <1>3 DEF Start, Idle
  <2> QED
    BY <1>1, <1>2, <2>1, <2>2
<1>4. ASSUME ResolveDependencies \/ WriteIndex \/ CheckDepsChanged PROVE BuildsRight'
  <2>1. [Next]_vars
    BY <1>4 DEF Next, RunStep
  <2>2. /\ hash' = hash /\ torn' = torn /\ run.stage \in {"resolve", "index", "check"}
        /\ DOMAIN built' \ kept' \subseteq DOMAIN built \ kept
        /\ \A p \in DOMAIN built' : built'[p] = built[p]
    BY <1>4 DEF ResolveDependencies, WriteIndex, CheckDepsChanged, Compare, Restrict
  <2>3. run'.stage \in {"index", "check", "clean"}
    BY <1>4 DEF ResolveDependencies, WriteIndex, CheckDepsChanged, Compare, Sane, Typed, Runs
  <2> QED
    BY <1>1, <1>2, <2>1, <2>2, <2>3
<1>5. ASSUME NothingToResolve \/ AlreadyExecuted PROVE BuildsRight'
  <2>1. [Next]_vars
    BY <1>5 DEF Next, RunStep
  <2>2. /\ hash' = hash /\ built' = built /\ kept' = kept /\ torn' = torn /\ run.stage \in {"resolve", "check"}
        /\ NextRound
    BY <1>5 DEF NothingToResolve, AlreadyExecuted
  <2> QED
    BY <1>1, <1>2, <2>1, <2>2, NextRoundRight
<1>6. ASSUME Joined PROVE BuildsRight'
  <2>1. [Next]_vars
    BY <1>6 DEF Next, RunStep
  <2>2. hash' = hash /\ built' = built /\ kept' = kept /\ torn' = torn /\ run.stage = "clean" /\ NextRound
    BY <1>6 DEF Joined
  <2>3. ~ torn => \A p \in DOMAIN built \ kept : \A q \in DOMAIN built[p] : Vouched(built[p][q], q)
    BY <1>6, JoinedVouches DEF BuildsRight
  <2> QED
    BY <1>1, <2>1, <2>2, <2>3, NextRoundRight
<1>7. ASSUME JoinFails \/ Stop PROVE BuildsRight'
  <2>1. [Next]_vars
    BY <1>7 DEF Next, RunStep
  <2>2. /\ hash' = hash /\ built' = built /\ kept' = kept /\ torn' = (torn \/ run.stage = "clean")
        /\ status' = "failed"
    BY <1>7 DEF JoinFails, Stop, Exit
  <2>3. BuiltVouched'
    BY <1>2, <1>kept, <2>1, <2>2 DEF BuiltVouched, Vouched
  <2> QED
    BY <2>2, <2>3 DEF BuildsRight, FilesVouched, BuiltFromFiles
<1>8. ASSUME NEW p \in Pkgs, PrintPackage(p) PROVE BuildsRight'
  <2>1. [Next]_vars
    BY <1>8 DEF Next, RunStep
  <2>2. hash' = hash /\ built' = built /\ kept' = kept /\ torn' = torn /\ run.stage = "print" /\ run' = run
    BY <1>8 DEF PrintPackage
  <2> QED
    BY <1>1, <1>2, <2>1, <2>2
<1>9. ASSUME Done PROVE BuildsRight'
  <2>1. [Next]_vars
    BY <1>9 DEF Next, RunStep
  <2>2. UNCHANGED <<hash, built, files, torn, checked, store, world, kept>> /\ run.stage = "print"
    BY <1>9 DEF Done, Exit
  <2>3. BuiltVouched'
    BY <1>2, <1>kept, <2>1, <2>2 DEF BuiltVouched, Vouched
  <2>4. FilesVouched'
    BY <1>9, <2>2, DoneVouches DEF FilesVouched, Vouched
  <2>5. BuiltFromFiles'
    BY <1>9, <2>2, DoneBuilt DEF BuiltFromFiles, BuildsRight
  <2> QED
    BY <2>3, <2>4, <2>5 DEF BuildsRight
<1>10. ASSUME NEW p \in Pkgs, Build(p) PROVE BuildsRight'
  <2>1. [Next]_vars
    BY <1>10 DEF Next
  <2>2. /\ DOMAIN built' = (DOMAIN built) \cup Closure(files, {p})
        /\ \A q \in DOMAIN built' : built'[q] = IF q \in DOMAIN built THEN built[q] ELSE Made(files, q)
        /\ UNCHANGED <<hash, files, run, status, store, world, torn, checked, kept>>
        /\ run.stage = "idle" /\ status = "done" /\ p \in store
    BY <1>10 DEF Build
  <2>3. FilesVouched'
    BY <2>2 DEF BuildsRight, FilesVouched, Vouched
  <2>4. BuiltFromFiles'
    BY <2>2 DEF BuildsRight, BuiltFromFiles
  <2>5. Closure(files, {p}) \subseteq store
    <3>1. {p} \in SUBSET Pkgs /\ {p} \subseteq store /\ store \in SUBSET Pkgs /\ Closed(files, store)
      BY <2>2 DEF Sane, Typed, BuildsRight, FilesVouched
    <3>2. \A q \in DOMAIN files : files[q] \subseteq Pkgs
      BY Constants DEF Sane, Typed, Recollected, Published
    <3> QED
      BY <3>1, <3>2, ClosureLeast
  <2>6. \A q \in Closure(files, {p}) : \A x \in DOMAIN Made(files, q) : Vouched(Made(files, q)[x], x)
    BY <1>10, <2>2, <2>5, BuildsFromFiles DEF BuildsRight, FilesVouched
  <2>7. BuiltVouched'
    <3>1. ASSUME ~ torn, NEW x \in DOMAIN built \ kept, NEW y \in DOMAIN built[x]
          PROVE  Vouched(built[x][y], y)
      BY <1>2, <2>2, <3>1 DEF BuiltVouched
    <3>2. ASSUME ~ torn, NEW x \in DOMAIN built' \ kept, NEW y \in DOMAIN built'[x]
          PROVE  Vouched(built'[x][y], y)
      BY <2>2, <2>6, <3>1, <3>2
    <3> HIDE DEF Vouched
    <3>3. \A d, q : Vouched(d, q)' <=> Vouched(d, q)
      BY <2>2 DEF Vouched
    <3> QED
      BY <2>2, <3>2, <3>3 DEF BuiltVouched
  <2> QED
    BY <2>3, <2>4, <2>7 DEF BuildsRight
<1>11. ASSUME Publish PROVE BuildsRight'
  <2>1. [Next]_vars
    BY <1>11 DEF Next
  <2>2. UNCHANGED <<hash, built, files, run, status, store, torn, checked, kept>> /\ run.stage = "idle"
    BY <1>11 DEF Publish
  <2>3. BuiltVouched'
    BY <1>2, <1>kept, <2>1, <2>2 DEF BuiltVouched, Vouched
  <2>4. FilesVouched'
    BY <1>kept, <2>1, <2>2 DEF BuildsRight, FilesVouched, Vouched
  <2> QED
    BY <2>2, <2>3, <2>4 DEF BuildsRight, BuiltFromFiles
<1> QED
  BY <1>3, <1>4, <1>5, <1>6, <1>7, <1>8, <1>9, <1>10, <1>11 DEF RunStep

(* BuiltFromFiles holds as long as no search outgrows its table, what      *)
(* resolution gives does not come back, and only runs that have succeeded  *)
(* are built after.                                                        *)
THEOREM BuiltCorrect ==
    ASSUME Fits, NeverBack, BuildAfter \subseteq {"done"}
    PROVE  Spec => []BuiltFromFiles
<1> DEFINE I == Sane /\ BuiltRight /\ GoesOn /\ HashesRight /\ BuildsRight
<1>1. Init => I
  BY SaneInit, GoesOnInit
     DEF Init, Idle, BuiltRight, HashesRight, CheckedHashed, Settled, BuildsRight, BuiltVouched,
         FilesVouched, BuiltFromFiles
<1>2. I /\ [Next]_vars => I'
  <2> SUFFICES ASSUME I, [Next]_vars PROVE I'
    OBVIOUS
  <2>1. Sane'
    BY SaneStep
  <2>2. BuiltRight' /\ GoesOn' /\ HashesRight'
    BY BuiltRightStep, GoesOnStep, HashesRightStep
  <2>3. BuildsRight'
    <3>1. CASE UNCHANGED vars
      BY <3>1 DEF vars, disk, memory, history, BuildsRight, BuiltVouched, FilesVouched, BuiltFromFiles, Vouched
    <3> QED
      BY <3>1, BuildsRightTask, BuildsRightRun DEF Next
  <2> QED
    BY <2>1, <2>2, <2>3
<1>3. I => BuiltFromFiles
  BY DEF BuildsRight
<1> QED
  BY <1>1, <1>2, <1>3, PTL DEF Spec
=============================================================================

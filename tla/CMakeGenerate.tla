---------------------------- MODULE CMakeGenerate ----------------------------
(***************************************************************************)
(* What happens when CMake runs on a project that uses packages: the       *)
(* scripts inserts/generate.cmake, build.cmake and functions.cmake, and    *)
(* the files printers/cmake.cpp writes around them.                        *)
(*                                                                         *)
(* Including the generate file of a package prepares its build tree: a     *)
(* child CMake configures the package, which includes the generate files   *)
(* of its dependencies in turn, so that locks nest.  Then its import file  *)
(* is included.  Building runs build.cmake for every dependency, nested    *)
(* likewise.  A source file may be edited "once" by the package's          *)
(* CMakeLists.txt, and all configurations share the sources.               *)
(*                                                                         *)
(* The packages are libraries.  Those of headers only are never built and  *)
(* left out; executables, whose dependencies are not visited, too.         *)
(*                                                                         *)
(* A process stands for a CMake run on the user's project together with    *)
(* the children it waits for; its stack holds what each of them is doing.  *)
(***************************************************************************)
EXTENDS Naturals, FiniteSets, SequencesExt

CONSTANTS
    Procs,          \* CMake runs
    Pkgs, Root,     \* packages, and the user's project
    Configs,        \* build configurations (config_dir)
    Versions,       \* versions of CMake
    Setups,         \* with what the processes may run: a configuration, a version
    Direct,         \* Direct[k]: dependencies of k (or of Root) that are built
    IncludeOnly,    \* IncludeOnly[k]: "include directories only" dependencies
    Edits,          \* Edits[k]: the edits of k's source file, in order
    MaxRuns,        \* bound: runs of a process
    MaxDeaths       \* bound: processes killed, or ended by an error of a tool

Trees == Pkgs \X Configs    \* build directories, one for each configuration
Users == Pkgs \cup {Root}
Edit == UNION {Range(Edits[k]) : k \in Pkgs}

ASSUME GenerateAssumption ==
    /\ Root \notin Pkgs
    /\ Direct \in [Users -> SUBSET Pkgs] /\ IncludeOnly \in [Users -> SUBSET Pkgs]
    /\ \A k \in Pkgs : Edits[k] \in Seq(Edit)
    /\ MaxRuns \in Nat /\ MaxDeaths \in Nat

ASSUME SetupsAssumption == Setups \subseteq [Procs -> [conf : Configs, version : Versions]]

(* An edit is named by its text: the same text again is the same edit, and *)
(* is skipped (functions.cmake, the flag file is named by a hash of it).   *)
ASSUME EditsAssumption == \A k \in Pkgs : IsInjective(Edits[k])

(* Packages are linked in layers: they may be circular by include          *)
(* directories only.  Those linked in a circle could not be prepared: the  *)
(* innermost run would wait for a lock of its own parent.                  *)
ASSUME LayersAssumption ==
    \A S \in (SUBSET Pkgs) \ {{}} : \E k \in S : Direct[k] \cap S = {}

VARIABLES
    conf,           \* conf[p]: the configuration p builds
    version,        \* version[p]: the version of the CMake it runs
    stack,          \* stack[p]: frames, the innermost last
    status,         \* status[p]: "idle", "running", "done", "failed"
    runs, deaths,   \* bounded counters
    (* In the build directory of a tree *)
    import,         \* trees whose exported import file exists
    fixed,          \* fixed[t]: import_fixed, "absent", "partial" or "complete"
    cmakes,         \* cmakes[t]: versions whose directory is in CMakeFiles
    opened,         \* opened[t]: versions import_fixed was written for (history)
    generating,     \* generating[t]: holders of cppan_generate.lock
    saved,          \* trees whose copy of the stamp file (fn2) exists
    target,         \* trees whose target file exists
    building,       \* building[t]: holders of cppan_build.lock
    (* In the source directory of a package *)
    source,         \* source[k]: edits in the file, oldest first
    flags,          \* flags[k]: edits whose flag file exists
    hash,           \* hash[k]: the content in .cppan.hash, or NoHash
    editing         \* editing[k]: holders of the file's lock

setup == <<conf, version>>
imports == <<import, fixed, cmakes, opened>>
trees == <<imports, generating>>
builds == <<saved, target, building>>
sources == <<source, flags, hash, editing>>
vars == <<setup, stack, status, runs, deaths, trees, builds, sources>>

NoHash == <<"no hash">>

(* A frame: a script, the package it is for, where it is, the dependencies *)
(* its loop has still to visit, the edit it is at, and REBUILD.            *)
Frame(at, k, left) == [at |-> at, pkg |-> k, left |-> left, edit |-> 1, rebuild |-> TRUE]

Locked == {"double", "configure", "edit", "lock", "again", "write", "flag", "record",
           "unlock", "export", "open", "fix", "release"}
BuildLocked == {"b_double", "b_save", "b_deps", "b_build", "b_unlock"}
EditLocked == {"again", "write", "flag", "record", "unlock"}
Stages == {"check", "try", "wait", "exports", "include", "b_check", "b_lock"}
          \cup Locked \cup BuildLocked
Frames == [at : Stages, pkg : Users, left : SUBSET Pkgs,
           edit : Nat \ {0}, rebuild : BOOLEAN]

(* The dependencies whose generate files a package includes: those that    *)
(* are only include directories have none.                                 *)
EveryDep(k) == Direct[k] \cup IncludeOnly[k]                    \* mutant
GenerateDeps(k) == Direct[k]

(* What is reached from the packages of S by the dependencies deps.        *)
Reached(S, deps) ==
    {d \in Pkgs : \A C \in SUBSET Pkgs :
        S \subseteq C /\ (\A e \in C : deps[e] \subseteq C) => d \in C}

(* Mutant: what is only included is built too.                             *)
BuildEveryDep(k) == Reached(EveryDep(k), [e \in Pkgs |-> EveryDep(e)])

(* gather_build_deps: the dependencies, recursively.                       *)
BuildDeps(k) == Reached(Direct[k], Direct)

Top(p) == Last(stack[p])
Tree(p) == <<Top(p).pkg, conf[p]>>
At(p, stage) == status[p] = "running" /\ Top(p).at = stage

Replace(p, frame) == stack' = [stack EXCEPT ![p][Len(stack[p])] = frame]
Goto(p, stage) == Replace(p, [Top(p) EXCEPT !.at = stage])
Loop(p, stage, S) == Replace(p, [Top(p) EXCEPT !.at = stage, !.left = S])
(* Visits the next dependency of the loop with a frame of its own.         *)
Visit(p, d, frame) ==
    stack' = [stack EXCEPT ![p] =
        Append([@ EXCEPT ![Len(@)] = [Top(p) EXCEPT !.left = @ \ {d}]], frame)]
Return(p) == stack' = [stack EXCEPT ![p] = Front(@)]

(* Mutant: only the innermost process ends, its parents go on.             *)
FailInnermost(p) ==
    /\ status' = [status EXCEPT ![p] = "failed"]
    /\ Return(p)
    /\ UNCHANGED <<generating, building, editing>>

(* FATAL_ERROR: the error of a child is an error of its parents, and all   *)
(* locks of the chain are released.                                        *)
Fail(p) ==
    /\ status' = [status EXCEPT ![p] = "failed"]
    /\ stack' = [stack EXCEPT ![p] = <<>>]
    /\ generating' = [t \in Trees |-> generating[t] \ {p}]
    /\ building' = [t \in Trees |-> building[t] \ {p}]
    /\ editing' = [k \in Pkgs |-> editing[k] \ {p}]

TypeOK ==
    /\ conf \in [Procs -> Configs] /\ version \in [Procs -> Versions]
    /\ status \in [Procs -> {"idle", "running", "done", "failed"}]
    /\ runs \in [Procs -> 0..MaxRuns] /\ deaths \in 0..MaxDeaths
    /\ stack \in [Procs -> Seq(Frames)]
    /\ \A p \in Procs : \A i \in DOMAIN stack[p] : stack[p][i].pkg \in Pkgs =>
            stack[p][i].edit <= Len(Edits[stack[p][i].pkg]) + 1
    /\ \A p \in Procs : status[p] = "running" <=> stack[p] # <<>>
    /\ import \subseteq Trees /\ saved \subseteq Trees /\ target \subseteq Trees
    /\ fixed \in [Trees -> {"absent", "partial", "complete"}]
    /\ cmakes \in [Trees -> SUBSET Versions] /\ opened \in [Trees -> SUBSET Versions]
    /\ generating \in [Trees -> SUBSET Procs] /\ building \in [Trees -> SUBSET Procs]
    /\ editing \in [Pkgs -> SUBSET Procs]
    /\ source \in [Pkgs -> Seq(Edit)] /\ flags \in [Pkgs -> SUBSET Edit]
    /\ hash \in [Pkgs -> Seq(Edit) \cup {NoHash}]

Init ==
    /\ \E s \in Setups : /\ conf = [p \in Procs |-> s[p].conf]
                         /\ version = [p \in Procs |-> s[p].version]
    /\ stack = [p \in Procs |-> <<>>] /\ status = [p \in Procs |-> "idle"]
    /\ runs = [p \in Procs |-> 0] /\ deaths = 0
    /\ import = {} /\ fixed = [t \in Trees |-> "absent"]
    /\ cmakes = [t \in Trees |-> {}] /\ opened = [t \in Trees |-> {}]
    /\ generating = [t \in Trees |-> {}]
    /\ saved = {} /\ target = {} /\ building = [t \in Trees |-> {}]
    /\ source = [k \in Pkgs |-> <<>>] /\ flags = [k \in Pkgs |-> {}]
    /\ hash = [k \in Pkgs |-> NoHash] /\ editing = [k \in Pkgs |-> {}]

-----------------------------------------------------------------------------
(* The user's project.                                                     *)

Start(p) ==
    /\ status[p] # "running" /\ runs[p] < MaxRuns
    /\ runs' = [runs EXCEPT ![p] = @ + 1]
    /\ status' = [status EXCEPT ![p] = "running"]
    /\ stack' = [stack EXCEPT ![p] = <<Frame("configure", Root, GenerateDeps(Root))>>]
    /\ UNCHANGED <<setup, deaths, trees, builds, sources>>

(* Configured: the build runs the script of build dependencies.            *)
StartBuild(p) ==
    /\ At(p, "configure") /\ Top(p).pkg = Root /\ Top(p).left = {}
    /\ Loop(p, "b_deps", BuildDeps(Root))
    /\ UNCHANGED <<setup, status, runs, deaths, trees, builds, sources>>

Finish(p) ==
    /\ At(p, "b_deps") /\ Top(p).pkg = Root /\ Top(p).left = {}
    /\ status' = [status EXCEPT ![p] = "done"]
    /\ Return(p)
    /\ UNCHANGED <<setup, runs, deaths, trees, builds, sources>>

(* A process is killed, or one of the tools it runs fails.                 *)
Die(p) ==
    /\ status[p] = "running" /\ deaths < MaxDeaths
    /\ deaths' = deaths + 1
    /\ Fail(p)
    /\ UNCHANGED <<setup, runs, imports, saved, target, source, flags, hash>>

-----------------------------------------------------------------------------
(* generate.cmake.                                                         *)

(* The files are there, and if CMake has run in the tree, this version of  *)
(* it has: a newer one configures the tree once more.                      *)
Prepared(t, v) == t \in import /\ fixed[t] # "absent" /\ (cmakes[t] = {} \/ v \in cmakes[t])

Check(p) ==
    /\ At(p, "check")
    /\ IF Prepared(Tree(p), version[p]) THEN Loop(p, "exports", GenerateDeps(Top(p).pkg))
       ELSE Goto(p, "try")
    /\ UNCHANGED <<setup, status, runs, deaths, trees, builds, sources>>

(* TIMEOUT 0.                                                              *)
TryLock(p) ==
    /\ At(p, "try")
    /\ IF generating[Tree(p)] = {}
       THEN /\ generating' = [generating EXCEPT ![Tree(p)] = {p}]
            /\ Goto(p, "double")
       ELSE UNCHANGED generating /\ Goto(p, "wait")
    /\ UNCHANGED <<setup, status, runs, deaths, imports, builds, sources>>

WaitLock(p) ==
    /\ At(p, "wait") /\ generating[Tree(p)] = {}
    /\ generating' = [generating EXCEPT ![Tree(p)] = {p}]
    /\ Goto(p, "double")
    /\ UNCHANGED <<setup, status, runs, deaths, imports, builds, sources>>

(* TIMEOUT 90.                                                             *)
WaitTimeout(p) ==
    /\ At(p, "wait") /\ generating[Tree(p)] # {}
    /\ Fail(p)
    /\ UNCHANGED <<setup, runs, deaths, imports, saved, target, source, flags, hash>>

(* CMakeFiles/${CMAKE_VERSION} is copied from the tree of the parent, and  *)
(* the child process starts with the dependencies of the package.          *)
Configure(p) ==
    /\ cmakes' = [cmakes EXCEPT ![Tree(p)] = @ \cup {version[p]}]
    /\ Loop(p, "configure", GenerateDeps(Top(p).pkg))

(* Mutant: no double check.                                                *)
DoubleCheckNever(p) ==
    /\ At(p, "double")
    /\ Configure(p)
    /\ UNCHANGED <<setup, status, runs, deaths, import, fixed, opened, generating,
                   builds, sources>>

DoubleCheck(p) ==
    /\ At(p, "double")
    /\ IF Prepared(Tree(p), version[p]) THEN Goto(p, "release") /\ UNCHANGED cmakes
       ELSE Configure(p)
    /\ UNCHANGED <<setup, status, runs, deaths, import, fixed, opened, generating,
                   builds, sources>>

(* A loop over dependencies includes the generate file of the next one.    *)
IncludeGenerate(p, d) ==
    /\ At(p, "configure") \/ At(p, "exports")
    /\ d \in Top(p).left
    /\ Visit(p, d, Frame("check", d, {}))
    /\ UNCHANGED <<setup, status, runs, deaths, trees, builds, sources>>

StartEdits(p) ==
    /\ At(p, "configure") /\ Top(p).pkg # Root /\ Top(p).left = {}
    /\ Goto(p, "edit")
    /\ UNCHANGED <<setup, status, runs, deaths, trees, builds, sources>>

(* The child's generation step writes the import file.                     *)
Export(p) ==
    /\ At(p, "export")
    /\ import' = import \cup {Tree(p)}
    /\ Goto(p, "open")
    /\ UNCHANGED <<setup, status, runs, deaths, fixed, cmakes, opened, generating,
                   builds, sources>>

(* internal-fix-imports opens its output first and writes it last.         *)
OpenFixed(p) ==
    /\ At(p, "open")
    /\ fixed' = [fixed EXCEPT ![Tree(p)] = "partial"]
    /\ opened' = [opened EXCEPT ![Tree(p)] = @ \cup {version[p]}]
    /\ Goto(p, "fix")
    /\ UNCHANGED <<setup, status, runs, deaths, import, cmakes, generating,
                   builds, sources>>

WriteFixed(p) ==
    /\ At(p, "fix")
    /\ fixed' = [fixed EXCEPT ![Tree(p)] = "complete"]
    /\ Goto(p, "release")
    /\ UNCHANGED <<setup, status, runs, deaths, import, cmakes, opened, generating,
                   builds, sources>>

(* exports.cmake includes the generate files of the dependencies again.    *)
Release(p) ==
    /\ At(p, "release")
    /\ generating' = [generating EXCEPT ![Tree(p)] = {}]
    /\ Loop(p, "exports", GenerateDeps(Top(p).pkg))
    /\ UNCHANGED <<setup, status, runs, deaths, imports, builds, sources>>

ExportsDone(p) ==
    /\ At(p, "exports") /\ Top(p).left = {}
    /\ Goto(p, "include")
    /\ UNCHANGED <<setup, status, runs, deaths, trees, builds, sources>>

(* The import file is included; without it, or with a part of it, targets  *)
(* are missing.                                                            *)
Include(p) ==
    /\ At(p, "include")
    /\ IF fixed[Tree(p)] = "complete"
       THEN Return(p) /\ UNCHANGED <<status, generating, building, editing>>
       ELSE Fail(p)
    /\ UNCHANGED <<setup, runs, deaths, imports, saved, target, source, flags, hash>>

-----------------------------------------------------------------------------
(* push_front_to_file_once and the like in functions.cmake.                *)

CurrentEdit(p) == Edits[Top(p).pkg][Top(p).edit]
AppliedByHash(k, e) == hash[k] = source[k]                       \* mutant
Applied(k, e) == e \in flags[k] /\ hash[k] = source[k]

EditsDone(p) ==
    /\ At(p, "edit") /\ Top(p).edit > Len(Edits[Top(p).pkg])
    /\ Goto(p, "export")
    /\ UNCHANGED <<setup, status, runs, deaths, trees, builds, sources>>

NextEdit(p) == Replace(p, [Top(p) EXCEPT !.at = "edit", !.edit = @ + 1])

CheckEdit(p) ==
    /\ At(p, "edit") /\ Top(p).edit <= Len(Edits[Top(p).pkg])
    /\ IF Applied(Top(p).pkg, CurrentEdit(p)) THEN NextEdit(p) ELSE Goto(p, "lock")
    /\ UNCHANGED <<setup, status, runs, deaths, trees, builds, sources>>

LockFile(p) ==
    /\ At(p, "lock") /\ editing[Top(p).pkg] = {}
    /\ editing' = [editing EXCEPT ![Top(p).pkg] = {p}]
    /\ Goto(p, "again")
    /\ UNCHANGED <<setup, status, runs, deaths, trees, builds, source, flags, hash>>

CheckEditAgain(p) ==
    /\ At(p, "again")
    /\ IF Applied(Top(p).pkg, CurrentEdit(p)) THEN Goto(p, "unlock") ELSE Goto(p, "write")
    /\ UNCHANGED <<setup, status, runs, deaths, trees, builds, sources>>

WriteEdit(p) ==
    /\ At(p, "write")
    /\ source' = [source EXCEPT ![Top(p).pkg] = Append(@, CurrentEdit(p))]
    /\ Goto(p, "flag")
    /\ UNCHANGED <<setup, status, runs, deaths, trees, builds, flags, hash, editing>>

FlagEdit(p) ==
    /\ At(p, "flag")
    /\ flags' = [flags EXCEPT ![Top(p).pkg] = @ \cup {CurrentEdit(p)}]
    /\ Goto(p, "record")
    /\ UNCHANGED <<setup, status, runs, deaths, trees, builds, source, hash, editing>>

RecordHash(p) ==
    /\ At(p, "record")
    /\ hash' = [hash EXCEPT ![Top(p).pkg] = source[Top(p).pkg]]
    /\ Goto(p, "unlock")
    /\ UNCHANGED <<setup, status, runs, deaths, trees, builds, source, flags, editing>>

UnlockFile(p) ==
    /\ At(p, "unlock")
    /\ editing' = [editing EXCEPT ![Top(p).pkg] = {}]
    /\ NextEdit(p)
    /\ UNCHANGED <<setup, status, runs, deaths, trees, builds, source, flags, hash>>

-----------------------------------------------------------------------------
(* build.cmake.                                                            *)

BuildNext(p, d) ==
    /\ At(p, "b_deps") /\ d \in Top(p).left
    /\ Visit(p, d, Frame("b_check", d, {}))
    /\ UNCHANGED <<setup, status, runs, deaths, trees, builds, sources>>

(* Mutant: the stamp alone tells whether the target is built.              *)
CheckBuildStamp(p) ==
    /\ At(p, "b_check")
    /\ saved' = saved \cup {Tree(p)}
    /\ IF Tree(p) \in saved THEN Return(p) ELSE Goto(p, "b_lock")
    /\ UNCHANGED <<setup, status, runs, deaths, trees, target, building, sources>>

(* REBUILD is 0 if the stamps are equal; a missing copy is made here.      *)
CheckBuild(p) ==
    /\ At(p, "b_check")
    /\ saved' = saved \cup {Tree(p)}
    /\ IF Tree(p) \in saved /\ Tree(p) \in target THEN Return(p)
       ELSE Replace(p, [Top(p) EXCEPT !.at = "b_lock", !.rebuild = Tree(p) \notin saved])
    /\ UNCHANGED <<setup, status, runs, deaths, trees, target, building, sources>>

LockBuild(p) ==
    /\ At(p, "b_lock") /\ building[Tree(p)] = {}
    /\ building' = [building EXCEPT ![Tree(p)] = {p}]
    /\ Goto(p, "b_double")
    /\ UNCHANGED <<setup, status, runs, deaths, trees, saved, target, sources>>

(* The double check is by the REBUILD of the first one.                    *)
DoubleCheckBuild(p) ==
    /\ At(p, "b_double")
    /\ Goto(p, IF ~Top(p).rebuild /\ Tree(p) \in target THEN "b_unlock" ELSE "b_save")
    /\ UNCHANGED <<setup, status, runs, deaths, trees, builds, sources>>

(* "save file", then the tool runs, which builds the dependencies first.   *)
SaveStamp(p) ==
    /\ At(p, "b_save")
    /\ saved' = saved \cup {Tree(p)}
    /\ Loop(p, "b_deps", BuildDeps(Top(p).pkg))
    /\ UNCHANGED <<setup, status, runs, deaths, trees, target, building, sources>>

BuildDepsDone(p) ==
    /\ At(p, "b_deps") /\ Top(p).pkg # Root /\ Top(p).left = {}
    /\ Goto(p, "b_build")
    /\ UNCHANGED <<setup, status, runs, deaths, trees, builds, sources>>

Build(p) ==
    /\ At(p, "b_build")
    /\ target' = target \cup {Tree(p)}
    /\ Goto(p, "b_unlock")
    /\ UNCHANGED <<setup, status, runs, deaths, trees, saved, building, sources>>

UnlockBuild(p) ==
    /\ At(p, "b_unlock")
    /\ building' = [building EXCEPT ![Tree(p)] = {}]
    /\ Return(p)
    /\ UNCHANGED <<setup, status, runs, deaths, trees, saved, target, sources>>

Step(p) ==
    \/ StartBuild(p) \/ Finish(p)
    \/ Check(p) \/ TryLock(p) \/ WaitLock(p) \/ WaitTimeout(p) \/ DoubleCheck(p)
    \/ \E d \in Pkgs : IncludeGenerate(p, d) \/ BuildNext(p, d)
    \/ StartEdits(p) \/ EditsDone(p) \/ CheckEdit(p) \/ LockFile(p)
    \/ CheckEditAgain(p) \/ WriteEdit(p) \/ FlagEdit(p) \/ RecordHash(p) \/ UnlockFile(p)
    \/ Export(p) \/ OpenFixed(p) \/ WriteFixed(p) \/ Release(p)
    \/ ExportsDone(p) \/ Include(p)
    \/ CheckBuild(p) \/ LockBuild(p) \/ DoubleCheckBuild(p) \/ SaveStamp(p)
    \/ BuildDepsDone(p) \/ Build(p) \/ UnlockBuild(p)

Next == \E p \in Procs : Start(p) \/ Die(p) \/ Step(p)

Spec == Init /\ [][Next]_vars
FairSpec == Spec /\ \A p \in Procs : WF_vars(Step(p))

-----------------------------------------------------------------------------
(* Properties.                                                             *)

InStage(p, k, stages) ==
    \E i \in DOMAIN stack[p] : stack[p][i].pkg = k /\ stack[p][i].at \in stages

(* Whoever configures a build tree, builds in it or edits a source file    *)
(* holds its lock alone, through all nested CMake runs, whichever way it   *)
(* came there (generate.cmake:44-65, build.cmake:36, functions.cmake).     *)
LocksHeld ==
    \A p \in Procs : \A k \in Pkgs :
        /\ InStage(p, k, Locked) => generating[<<k, conf[p]>>] = {p}
        /\ InStage(p, k, BuildLocked) => building[<<k, conf[p]>>] = {p}
        /\ InStage(p, k, EditLocked) => editing[k] = {p}

(* The processes that hold the lock at which p waits.                      *)
WaitsFor(p) ==
    CASE At(p, "wait") -> generating[Tree(p)]
      [] At(p, "b_lock") -> building[Tree(p)]
      [] At(p, "lock") -> editing[Top(p).pkg]
      [] OTHER -> {}

(* The "circular deadlock" that generate.cmake:52 warns of does not occur: *)
(* no processes wait for each other, nor one for itself, although the      *)
(* locks nest over the dependencies of packages, which may be circular by  *)
(* include directories only (printers/cmake.cpp:2940).                    *)
NoCircularWait ==
    \A S \in (SUBSET Procs) \ {{}} : \E p \in S : WaitsFor(p) \cap S = {}

(* Nested locks exclude others and never wait in a circle.                 *)
LocksRight == LocksHeld /\ NoCircularWait

(* A fixed import file that is whole, which other projects include without *)
(* a lock, is opened again only for a version of CMake it was never        *)
(* written for: never by two runs of one version, whoever waited for whom  *)
(* and whichever was killed (generate.cmake:39-43, 68-72).                 *)
ImportStays ==
    [][\A t \in Trees :
        fixed[t] = "complete" /\ fixed'[t] # "complete" => opened'[t] # opened[t]]_vars

(* Unless a run was killed, the edits of a file, which all configurations  *)
(* share, were applied once each and in order, however the runs            *)
(* interleaved (functions.cmake, push_front_to_file_once).                 *)
EditedOnce == deaths = 0 => \A k \in Pkgs : IsPrefix(source[k], Edits[k])

(* No build tree is exported whose sources lack an edit, killed runs or    *)
(* not.                                                                    *)
EditedBeforeExport == \A t \in import : Range(Edits[t[1]]) \subseteq Range(source[t[1]])

(* Edits of shared sources are made once, and before anything is exported  *)
(* that needs them.                                                        *)
EditsRight == EditedOnce /\ EditedBeforeExport

(* A target is built after everything it depends on, and when a build of   *)
(* the project ends, the whole closure of its dependencies is there, also  *)
(* when other builds did a part of it (build.cmake:11-55).                 *)
Built ==
    /\ \A t \in target : \A d \in BuildDeps(t[1]) : <<d, t[2]>> \in target
    /\ \A p \in Procs : status[p] = "done" =>
          \A d \in BuildDeps(Root) : <<d, conf[p]>> \in target

(* Every run of CMake ends, also at the build locks, which have no         *)
(* timeout.                                                                *)
RunsEnd == \A p \in Procs : status[p] = "running" ~> status[p] # "running"
=============================================================================

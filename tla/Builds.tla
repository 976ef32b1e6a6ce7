------------------------------- MODULE Builds -------------------------------
(***************************************************************************)
(* Builds that cppan drives itself (cppan --build): build.cpp from the     *)
(* settings to CMake, the table ConfigHashes of service.db, the directory  *)
(* cfg of the storage, the build trees, and --clean-configs.               *)
(*                                                                         *)
(* The table maps the hash of the settings to the configuration CMake once *)
(* found with them; cfg/<configuration>/CMakeFiles/<version of CMake>      *)
(* holds what CMake found out about the compilers, which is copied into    *)
(* every new build tree so that CMake need not find it out again.  The     *)
(* build trees of projects of one name and configuration are one.          *)
(*                                                                         *)
(* service.db is opened before the settings of the project are read, so    *)
(* it may be in another storage than cfg.  The machine is upgraded, the   *)
(* compilers with CMake, while no process runs.  Hashes are injective.     *)
(***************************************************************************)
EXTENDS Settings, FiniteSets

CONSTANTS
    Procs, None,    \* processes, and no value
    Commands,       \* what they may be started with
    Systems,        \* the machine, upgrade by upgrade: what CMake finds, and its version
    MaxRuns,        \* bound: processes started
    MaxStops        \* bound: processes killed, or ended by a failing test run

ASSUME BuildsAssumption ==
    /\ MaxRuns \in Nat /\ MaxStops \in Nat
    /\ Systems \in Seq(ToSet(Systems)) /\ Systems # <<>>
    /\ None \notin Commands \X DOMAIN Systems

ASSUME CommandsAssumption ==
    \A c \in Commands : c.kind \in {"spec", "cpp", "package", "clean"} /\ c.plain \in Nat

VARIABLES
    system,         \* index of the machine as it is now
    rows,           \* table ConfigHashes of a storage: <<storage, hash>> :> configuration
    cfg,            \* directories: <<storage, configuration, version>> :> "part" or "whole"
    tree,           \* build trees: tree :> [files, sources, found]
    proc,           \* state of each process
    count           \* of runs and stops

vars == <<system, rows, cfg, tree, proc, count>>

Idle == [stage |-> "idle"]
Version == Systems[system].cmake

Hash(p) == SettingsHash(proc[p].s, proc[p].env)

RowOf(p) == <<proc[p].db, Hash(p)>>
Source(p, config) == <<proc[p].dirs.storage, config, Version>>
TreeOf(p) == BuildTree(proc[p].dirs, proc[p].name, proc[p].config)

With(f, x, y) == [z \in (DOMAIN f) \cup {x} |-> IF z = x THEN y ELSE f[z]]
Without(f, D) == [x \in (DOMAIN f) \ D |-> f[x]]
Goto(p, stage) == proc' = [proc EXCEPT ![p].stage = stage]
Stays(p, stage) == proc[p].stage = stage

Init ==
    /\ system = 1 /\ rows = <<>> /\ cfg = <<>> /\ tree = <<>>
    /\ proc = [p \in Procs |-> Idle]
    /\ count = [runs |-> 0, stops |-> 0]

Begin(p, state) ==
    /\ Stays(p, "idle") /\ count.runs < MaxRuns
    /\ count' = [count EXCEPT !.runs = @ + 1]
    /\ proc' = [proc EXCEPT ![p] = state]
    /\ UNCHANGED <<system, rows, cfg, tree>>

(* The process has read its settings and opened service.db.  swept: a      *)
(* configuration was cleaned meanwhile.                                    *)
Start(p) ==
    \E c \in Commands :
        /\ c.kind # "clean" /\ ~LoadFails(c)
        /\ LET t == LoadSettings(c)
           IN  Begin(p, [stage |-> "lookup", s |-> t.s, dirs |-> t.dirs, env |-> c.env,
                         spec |-> c, name |-> c.name, db |-> InitialSettings(c).dirs.storage,
                         config |-> <<>>, found |-> <<>>, fresh |-> FALSE,
                         again |-> FALSE, swept |-> FALSE])

(***************************************************************************)
(* get_config and test_run                                                 *)
(***************************************************************************)
Lookup(p) ==
    /\ Stays(p, "lookup")
    /\ IF RowOf(p) \in DOMAIN rows
       THEN proc' = [proc EXCEPT ![p].stage = "find", ![p].config = rows[RowOf(p)]]
       ELSE Goto(p, "test")
    /\ UNCHANGED <<system, rows, cfg, tree, count>>

(* CMake in an empty directory, with an empty cppan.yml: there is nothing  *)
(* in it to load, so the settings of the project stay.                     *)
TestRun(p) ==
    /\ Stays(p, "test")
    /\ \/ /\ proc' = [proc EXCEPT ![p].stage = "copy",
                ![p].found = ConfigOf(proc[p].s, proc[p].env, Systems[system])]
          /\ UNCHANGED count
       \/ /\ count.stops < MaxStops
          /\ proc' = [proc EXCEPT ![p] = Idle]
          /\ count' = [count EXCEPT !.stops = @ + 1]
    /\ UNCHANGED <<system, rows, cfg, tree>>

AskedDirectory(p) == Source(p, proc[p].config)                        \* mutant
FoundDirectory(p) == Source(p, proc[p].found)
CopyStart(p) ==
    /\ Stays(p, "copy")
    /\ cfg' = IF FoundDirectory(p) \in DOMAIN cfg THEN cfg ELSE With(cfg, FoundDirectory(p), "part")
    /\ Goto(p, "copying")
    /\ UNCHANGED <<system, rows, tree, count>>

(* A directory that was removed meanwhile ends the process with an error.  *)
CopyEnd(p) ==
    /\ Stays(p, "copying")
    /\ \/ /\ FoundDirectory(p) \in DOMAIN cfg
          /\ cfg' = [cfg EXCEPT ![FoundDirectory(p)] = "whole"]
          /\ Goto(p, IF proc[p].again THEN "again" ELSE "register")
       \/ /\ FoundDirectory(p) \notin DOMAIN cfg
          /\ proc' = [proc EXCEPT ![p] = Idle]
          /\ UNCHANGED cfg
    /\ UNCHANGED <<system, rows, tree, count>>

AddAskedHash(p) == rows' = With(rows, RowOf(p), proc[p].config)        \* mutant
AddConfigHash(p) == rows' = With(rows, RowOf(p), proc[p].found)
Register(p) ==
    /\ Stays(p, "register")
    /\ AddConfigHash(p)
    /\ proc' = [proc EXCEPT ![p].stage = "find", ![p].config = proc[p].found]
    /\ UNCHANGED <<system, cfg, tree, count>>

(***************************************************************************)
(* build_packages                                                          *)
(***************************************************************************)
Find(p) ==
    /\ Stays(p, "find")
    /\ proc' = [proc EXCEPT ![p].stage =
                    IF Source(p, proc[p].config) \in DOMAIN cfg THEN "seed" ELSE "test",
                            ![p].again = TRUE]
    /\ UNCHANGED <<system, rows, cfg, tree, count>>

(* "the original config was detected incorrectly, re-apply"                *)
Again(p) ==
    /\ Stays(p, "again")
    /\ IF proc[p].found # proc[p].config
       THEN /\ AddConfigHash(p)
            /\ proc' = [proc EXCEPT ![p].stage = "check", ![p].config = proc[p].found,
                                    ![p].fresh = TRUE]
       ELSE Goto(p, "check") /\ UNCHANGED rows
    /\ UNCHANGED <<system, cfg, tree, count>>

(* "src dir does not exist"                                                *)
Check(p) ==
    /\ Stays(p, "check")
    /\ Goto(p, IF Source(p, proc[p].config) \in DOMAIN cfg THEN "seed" ELSE "missing")
    /\ UNCHANGED <<system, rows, cfg, tree, count>>

EmptyTree == [files |-> <<>>, sources |-> "", found |-> {}]
TreeState(t) == IF t \in DOMAIN tree THEN tree[t] ELSE EmptyTree
SeedStart(p) ==
    LET t == TreeOf(p)
        files == IF proc[p].fresh THEN Without(TreeState(t).files, {Version}) ELSE TreeState(t).files
    IN  /\ Stays(p, "seed")
        /\ IF Version \in DOMAIN files
           THEN Goto(p, "print") /\ UNCHANGED tree
           ELSE /\ tree' = With(tree, t, [TreeState(t) EXCEPT !.files = With(files, Version, "part")])
                /\ Goto(p, "seeding")
        /\ UNCHANGED <<system, rows, cfg, count>>

(* What was copied is whole if the source was.  Without a source, an error.*)
SeedEnd(p) ==
    /\ Stays(p, "seeding")
    /\ \/ /\ Source(p, proc[p].config) \in DOMAIN cfg
          /\ tree' = [tree EXCEPT ![TreeOf(p)].files[Version] = cfg[Source(p, proc[p].config)]]
          /\ Goto(p, "print")
       \/ /\ Source(p, proc[p].config) \notin DOMAIN cfg
          /\ proc' = [proc EXCEPT ![p] = Idle]
          /\ UNCHANGED tree
    /\ UNCHANGED <<system, rows, cfg, count>>

(* prepare_build                                                           *)
PrepareBuild(p) ==
    /\ Stays(p, "print")
    /\ tree' = [tree EXCEPT ![TreeOf(p)].sources = proc[p].spec.at]
    /\ Goto(p, "generate")
    /\ UNCHANGED <<system, rows, cfg, count>>

(* What must not be mixed in one build tree; makefiles: cl with NMake and  *)
(* its like, for which VISUAL_STUDIO is set.                               *)
Significant(v) ==
    [id |-> v.id, version |-> v.version, bits |-> v.bits, shared |-> v.shared,
     generator |-> v.generator, toolset |-> v.toolset,
     makefiles |-> v.visual_studio /\ ~v.multi, build_type |-> IF v.multi THEN "" ELSE v.build_type]
Generate(p) ==
    /\ Stays(p, "generate")
    /\ tree' = [tree EXCEPT ![TreeOf(p)].found =
                    @ \cup {Significant(CMakeVariables(proc[p].s, proc[p].env, Systems[system]))}]
    /\ Goto(p, IF proc[p].spec.generate_only THEN "done" ELSE "build")
    /\ UNCHANGED <<system, rows, cfg, count>>

Build(p) ==
    /\ Stays(p, "build")
    /\ Goto(p, "done")
    /\ UNCHANGED <<system, rows, cfg, tree, count>>

End(p) ==
    /\ proc[p].stage \in {"done", "missing"}
    /\ proc' = [proc EXCEPT ![p] = Idle]
    /\ UNCHANGED <<system, rows, cfg, tree, count>>

(***************************************************************************)
(* cleanConfig: the directories, then the rows of every settings that have *)
(* the configuration.                                                      *)
(***************************************************************************)
StartClean(p) ==
    \E c \in Commands, config \in {k[2] : k \in DOMAIN cfg} :
        /\ c.kind = "clean"
        /\ Begin(p, [stage |-> "clean", clean |-> config,
                     storage |-> InitialSettings(c).dirs.storage])

CleanDirectories(p) ==
    /\ Stays(p, "clean")
    /\ LET gone == {k \in DOMAIN cfg : k[1] = proc[p].storage /\ k[2] = proc[p].clean}
       IN  cfg' = Without(cfg, gone)
    /\ proc' = [q \in Procs |->
                    IF q = p THEN [proc[p] EXCEPT !.stage = "clean_rows"]
                    ELSE IF proc[q].stage \in {"idle", "clean", "clean_rows"} THEN proc[q]
                    ELSE [proc[q] EXCEPT !.swept = TRUE]]
    /\ UNCHANGED <<system, rows, tree, count>>

CleanRows(p) ==
    /\ Stays(p, "clean_rows")
    /\ LET gone == {k \in DOMAIN rows : k[1] = proc[p].storage /\ rows[k] = proc[p].clean}
       IN  rows' = Without(rows, gone)
    /\ proc' = [proc EXCEPT ![p] = Idle]
    /\ UNCHANGED <<system, cfg, tree, count>>

(***************************************************************************)
(* The rest of the world                                                   *)
(***************************************************************************)
Kill(p) ==
    /\ ~Stays(p, "idle") /\ count.stops < MaxStops
    /\ count' = [count EXCEPT !.stops = @ + 1]
    /\ proc' = [proc EXCEPT ![p] = Idle]
    /\ UNCHANGED <<system, rows, cfg, tree>>

Upgrade ==
    /\ system < Len(Systems) /\ \A p \in Procs : Stays(p, "idle")
    /\ system' = system + 1
    /\ UNCHANGED <<rows, cfg, tree, proc, count>>

Next ==
    \/ \E p \in Procs :
        \/ Start(p) \/ Lookup(p) \/ TestRun(p) \/ CopyStart(p) \/ CopyEnd(p) \/ Register(p)
        \/ Find(p) \/ Again(p) \/ Check(p) \/ SeedStart(p) \/ SeedEnd(p)
        \/ PrepareBuild(p) \/ Generate(p) \/ Build(p) \/ End(p)
        \/ StartClean(p) \/ CleanDirectories(p) \/ CleanRows(p) \/ Kill(p)
    \/ Upgrade

Spec == Init /\ [][Next]_vars

(***************************************************************************)
(* Properties                                                              *)
(***************************************************************************)
Building == {"lookup", "test", "copy", "copying", "register", "find", "again", "check",
             "seed", "seeding", "print", "generate", "build", "done", "missing"}
Told == {"seeding", "print", "generate", "build", "done"}

(* Rows, directories and trees have their shape; a row has a configuration.*)
TypeOK ==
    /\ \A k \in DOMAIN rows : rows[k] # <<>>
    /\ system \in DOMAIN Systems
    /\ \A k \in DOMAIN cfg : /\ cfg[k] \in {"part", "whole"}
                             /\ \E i \in DOMAIN Systems : k[3] = Systems[i].cmake
    /\ \A t \in DOMAIN tree : \A v \in DOMAIN tree[t].files : tree[t].files[v] \in {"part", "whole"}
    /\ \A p \in Procs : proc[p].stage \in Building \cup {"idle", "clean", "clean_rows"}

(* The error "src dir does not exist" needs somebody who removed it while  *)
(* the build was running.                                                  *)
FailsOnlySwept == \A p \in Procs : proc[p].stage = "missing" => proc[p].swept

(* A build tree is never used for two compilers, kinds of libraries,       *)
(* generators, toolsets or (if a tree has one) build types, although all   *)
(* projects of one name share it (set_build_dirs, append_build_dirs),      *)
(* except that cl has both build types in one tree when it is run by       *)
(* makefiles.                                                              *)
Alike(a, b) == a = b \/ (a.makefiles /\ [a EXCEPT !.build_type = b.build_type] = b)
TreesApart == \A t \in DOMAIN tree : \A a, b \in tree[t].found : Alike(a, b)

(* What the chosen build says holds, however often and from wherever other *)
(* settings were read into the same object before; its flags of a language *)
(* come before the common ones, which every load appended (load_build).    *)
ChosenKeys == {"configuration", "generator", "toolset", "use_shared_libs", "compiler_flags",
               "compiler_flags_conf"}
Common ==
    [c_compiler_flags |-> "compiler_flags", cxx_compiler_flags |-> "compiler_flags",
     c_compiler_flags_conf |-> "compiler_flags_conf",
     cxx_compiler_flags_conf |-> "compiler_flags_conf"]
Says(c) == LET l == LoadsOf(c) IN IF l = <<>> THEN NoFile ELSE CurrentBuild(l[Len(l)])
Obeys(s, said) ==
    /\ \A k \in ChosenKeys \cap DOMAIN said : s[k] = said[k]
    /\ \A k \in (DOMAIN Common) \cap DOMAIN said :
          said[k] # <<>> => s[k] = said[k] \o s[Common[k]]
ChosenBuild == \A p \in Procs : proc[p].stage = "lookup" => Obeys(proc[p].s, Says(proc[p].spec))

(* "then override settings with specific (or default) config"              *)
(* (settings.cpp:214): so it is with the compiler and the short names of   *)
(* flags, too.                                                             *)
ChosenCompiler ==
    \A p \in Procs : proc[p].stage = "lookup" =>
        LET b == Says(proc[p].spec)
        IN  /\ "compiler" \in DOMAIN b /\ "cxx_compiler" \notin DOMAIN b =>
                   proc[p].s.cxx_compiler = b.compiler
            /\ "c_flags" \in DOMAIN b /\ "c_compiler_flags" \notin DOMAIN b =>
                   proc[p].s.c_compiler_flags = b.c_flags \o proc[p].s.compiler_flags

(* What a build may ask, and what is true then.                            *)
Requested == {c \in Commands : c.kind # "clean" /\ ~LoadFails(c)}
Requests == Requested \X DOMAIN Systems
HashOf(c) == SettingsHash(LoadSettings(c).s, c.env)
VariablesOf(r) == CMakeVariables(LoadSettings(r[1]).s, r[1].env, Systems[r[2]])
Answers == [r \in Requests |-> ConfigOf(LoadSettings(r[1]).s, r[1].env, Systems[r[2]])]
Answer(r) == Answers[r]

(* What the code takes for granted.  The settings that are hashed decide   *)
(* what CMake finds on a machine (get_hash); when the same version of CMake *)
(* finds a configuration that a command had before an upgrade, for         *)
(* whomever, the command has it still (the version in the name of the      *)
(* directory is the only trace of an upgrade); and configurations of one   *)
(* name do not differ, build types of cl apart (get_configuration_unhashed).*)
HashTells ==
    \A c, d \in Requested : HashOf(c) = HashOf(d) =>
        \A i \in DOMAIN Systems : Answers[<<c, i>>] = Answers[<<d, i>>]
UpgradesTell ==
    \A c, d \in Requested : \A n \in DOMAIN Systems : \A i, j \in 1..n :
        Answers[<<c, i>>] = Answers[<<d, j>>] /\ Systems[j].cmake = Systems[n].cmake
            => Answers[<<c, n>>] = Answers[<<c, i>>]
NamesTell ==
    \A q, r \in Requests :
        Answers[q] = Answers[r] => Alike(Significant(VariablesOf(q)), Significant(VariablesOf(r)))

(* Builds see the abstract service, asked from the moment the settings are *)
(* known, told when the tree is first touched: a build fills its tree for  *)
(* the configuration CMake finds with its settings, whatever was recorded  *)
(* by other builds, from other directories, into other storages, whatever  *)
(* was cleaned, upgraded or killed in between (get_config,                 *)
(* build_packages).                                                        *)
Service ==
    INSTANCE BuildService WITH
        Clients <- Procs, Truth <- Answer,
        asked <- [p \in Procs |->
                    IF proc[p].stage \in Building THEN <<proc[p].spec, system>> ELSE None],
        told <- [p \in Procs |-> IF proc[p].stage \in Told THEN proc[p].config ELSE None]
ImplementsService == Service!ServiceSpec
=============================================================================

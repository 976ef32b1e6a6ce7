------------------------------ MODULE Settings ------------------------------
(***************************************************************************)
(* What a cppan.yml says about a build, and the name of the configuration  *)
(* CMake finds: settings.cpp, directories.cpp, and the configuration       *)
(* functions of functions.cmake.                                           *)
(*                                                                         *)
(* A yaml map is a function from the keys that are written in it.  Of the  *)
(* many keys that are copied as they are, those that reach CMake's choice  *)
(* of a configuration are kept, with cmake_options for the lists.  Flags   *)
(* are sequences of words, _conf those of a build type; cmake_options are  *)
(* a sequence of variables (-D) with their values.                         *)
(***************************************************************************)
EXTENDS Integers, TLC, SequencesExt

CONSTANTS
    SystemFile, UserFile,   \* the settings of the machine and of the user
    Prepared                \* words of CMake, lower case, blanks and - as _

NoFile == [no |-> "file"]
Get(node, key, default) == IF key \in DOMAIN node THEN node[key] ELSE default

(***************************************************************************)
(* Settings                                                                *)
(***************************************************************************)
Defaults ==
    [storage_dir |-> "home", build_dir |-> "temp",
     storage_dir_type |-> "user", build_dir_type |-> "local",
     compiler |-> "", c_compiler |-> "", cxx_compiler |-> "",
     host_compiler |-> "", host_c_compiler |-> "", host_cxx_compiler |-> "",
     compiler_flags |-> <<>>, c_compiler_flags |-> <<>>, cxx_compiler_flags |-> <<>>,
     compiler_flags_conf |-> <<>>, c_compiler_flags_conf |-> <<>>, cxx_compiler_flags_conf |-> <<>>,
     configuration |-> "Release", generator |-> "", toolset |-> "",
     use_shared_libs |-> TRUE, cmake_options |-> <<>>, additional_build_args |-> <<>>,
     env |-> <<>>]

MainKeys == {"storage_dir", "build_dir"}
BuildKeys == MainKeys \cup
    {"compiler", "c_compiler", "cxx_compiler", "host_compiler", "host_c_compiler",
     "host_cxx_compiler", "compiler_flags", "compiler_flags_conf",
     "configuration", "generator", "toolset", "use_shared_libs"}

Overlay(s, node, keys) ==
    [k \in DOMAIN s |-> IF k \in keys THEN Get(node, k, s[k]) ELSE s[k]]
Updated(s, values) == [k \in DOMAIN s |-> Get(values, k, s[k])]
First(words) == IF \E i \in DOMAIN words : words[i] # ""
                THEN SelectSeq(words, LAMBDA w : w # "")[1] ELSE ""

(* The second name of a key is read while there is no value, whoever gave  *)
(* one; and then what was not given is taken from what was.                *)
Flags(s, node, key, alias) ==
    LET flags == Get(node, key, s[key]) IN IF flags = <<>> THEN Get(node, alias, <<>>) ELSE flags
FillCompilers(s) ==
    LET c == First(<<s.c_compiler, s.cxx_compiler, s.compiler>>)
        cxx == First(<<s.cxx_compiler, s.compiler>>)
    IN  Updated(s,
            [c_compiler |-> c, cxx_compiler |-> cxx,
             host_c_compiler |->
                First(<<s.host_c_compiler, s.host_cxx_compiler, s.host_compiler, c>>),
             host_cxx_compiler |-> First(<<s.host_cxx_compiler, s.host_compiler, cxx>>),
             c_compiler_flags |-> s.c_compiler_flags \o s.compiler_flags,
             cxx_compiler_flags |-> s.cxx_compiler_flags \o s.compiler_flags,
             c_compiler_flags_conf |-> s.c_compiler_flags_conf \o s.compiler_flags_conf,
             cxx_compiler_flags_conf |-> s.cxx_compiler_flags_conf \o s.compiler_flags_conf])

LoadBuild(s, node) ==
    IF node = NoFile THEN s
    ELSE FillCompilers(Updated(Overlay(s, node, BuildKeys),
            [build_dir_type |-> IF "build_dir" \in DOMAIN node THEN "none" ELSE s.build_dir_type,
             c_compiler_flags |-> Flags(s, node, "c_compiler_flags", "c_flags"),
             cxx_compiler_flags |-> Flags(s, node, "cxx_compiler_flags", "cxx_flags"),
             c_compiler_flags_conf |-> Flags(s, node, "c_compiler_flags_conf", "c_flags_conf"),
             cxx_compiler_flags_conf |-> Flags(s, node, "cxx_compiler_flags_conf", "cxx_flags_conf"),
             cmake_options |-> Get(node, "cmake_options", <<>>),
             additional_build_args |-> Get(node, "additional_build_args", <<>>),
             env |-> Get(node, "env", <<>>) @@ s.env]))

(* builds: a sequence of <<name, map>>.                                    *)
Builds(root) == Get(root, "builds", <<>>)
Chosen(root, name) == SelectSeq(Builds(root), LAMBDA b : b[1] = name)
Unknown(root) ==
    LET name == Get(root, "current_build", "")
    IN  Builds(root) # <<>> /\ name # "" /\ Chosen(root, name) = <<>>
CurrentBuild(root) ==
    IF Builds(root) = <<>> THEN Get(root, "build", NoFile)
    ELSE IF "current_build" \notin DOMAIN root THEN NoFile
    ELSE IF Chosen(root, root.current_build) # <<>>
    THEN Chosen(root, root.current_build)[1][2] ELSE Builds(root)[1][2]

CurrentFirst(s, root) == LoadBuild(LoadBuild(s, CurrentBuild(root)), root)   \* mutant
RootFirst(s, root) == LoadBuild(LoadBuild(s, root), CurrentBuild(root))

LoadMain(s, root, type) ==
    LET main == Updated(Overlay(s, root, MainKeys),
            [storage_dir_type |-> IF "storage_dir" \in DOMAIN root THEN "none"
                                  ELSE Get(root, "storage_dir_type", "user"),
             build_dir_type |-> IF "build_dir" \in DOMAIN root THEN "none"
                                ELSE Get(root, "build_dir_type", "system"),
             additional_build_args |-> Get(root, "additional_build_args", <<>>)])
    IN  IF type # "local" THEN main
        ELSE IF Unknown(root) THEN LoadBuild(main, root)       \* and throws
        ELSE RootFirst(main, root)

SystemSettings == IF SystemFile = NoFile THEN Defaults ELSE LoadMain(Defaults, SystemFile, "system")
Saved(s) == [storage_dir |-> s.storage_dir]
UserSettings ==
    LoadMain(SystemSettings, IF UserFile = NoFile THEN Saved(SystemSettings) ELSE UserFile, "user")

(* The directories in use.  cwd: the current directory of the process.     *)
StorageDir(s, cwd) ==
    CASE s.storage_dir_type = "local"  -> cwd
      [] s.storage_dir_type = "user"   -> UserSettings.storage_dir
      [] s.storage_dir_type = "system" -> SystemSettings.storage_dir
      [] OTHER                         -> s.storage_dir
DirectoriesOf(s, cwd) ==
    [storage |-> StorageDir(s, cwd),
     build   |-> CASE s.build_dir_type = "local" -> <<"dir", cwd>>
                   [] s.build_dir_type = "none"  -> <<"dir", s.build_dir>>
                   [] OTHER                      -> <<"tmp", StorageDir(s, cwd)>>]
UserDirectories == DirectoriesOf(UserSettings, "")

(* Where a project of that name is built.                                  *)
BuildTree(dirs, name, config) ==
    [dir |-> dirs.build, name |-> name, config |-> config]

(***************************************************************************)
(* Which settings a run of cppan gets.  A command is                       *)
(*   here    local_settings of the cppan.yml in the current directory,     *)
(*   kind    "spec" (a directory with a cppan.yml), "cpp" (a source file   *)
(*           with a comment) or "package", all to be built,                *)
(*   spec    the local_settings found there,                               *)
(*   plain   the comments before it that are maps of something else,       *)
(*   config  the argument of --config, or empty,                           *)
(*   cwd, at the current directory and that of the project, name, env.     *)
(* A load whose build is unknown throws half way; only the first load of   *)
(* all, that of the current directory, goes on then.                       *)
(***************************************************************************)
Node(spec) == IF spec = NoFile THEN <<>> ELSE spec
WithCurrent(spec, name) == ("current_build" :> name) @@ Node(spec)

(* All comments that are maps are loaded up to the one that looks like a   *)
(* specification, each with the build that was asked for.                  *)
CommentLoads(c) ==
    [i \in 1..c.plain |-> "current_build" :> c.config] \o <<WithCurrent(c.spec, c.config)>>

(* The maps that are loaded after the current directory's, in order.       *)
LoadsOf(c) ==
    CASE c.kind = "spec"    -> (IF c.spec = NoFile THEN <<>> ELSE <<c.spec>>)
                               \o <<WithCurrent(c.spec, c.config)>>
      [] c.kind = "cpp"     -> IF c.config # "" THEN CommentLoads(c)
                               ELSE IF c.spec = NoFile THEN <<>> ELSE <<c.spec>>
      [] c.kind = "package" -> IF c.config # "" /\ c.spec # NoFile
                               THEN <<WithCurrent(c.spec, c.config)>> ELSE <<>>

(* The state of the settings: the local ones and the directories.          *)
InitialSettings(c) ==
    LET s == LoadMain(UserSettings, c.here, "local")
    IN  CASE c.here = NoFile -> [s |-> UserSettings, dirs |-> UserDirectories]
          [] Unknown(c.here) -> [s |-> s, dirs |-> UserDirectories]
          [] OTHER           -> [s |-> s, dirs |-> DirectoriesOf(s, c.cwd)]
LoadSettings(c) ==
    LET load(t, root) == LET s == LoadMain(t.s, root, "local")
                         IN  [s |-> s, dirs |-> DirectoriesOf(s, c.at)]
    IN  FoldLeft(load, InitialSettings(c), LoadsOf(c))
LoadFails(c) == \E i \in DOMAIN LoadsOf(c) : Unknown(LoadsOf(c)[i])

(***************************************************************************)
(* The key of the table of configurations.                                 *)
(***************************************************************************)
TrackedVariables == {"PATH", "CPATH", "INCLUDE", "LIB", "COMPILER_PATH", "LIBRARY_PATH",
                     "C_INCLUDE_PATH", "CPLUS_INCLUDE_PATH", "CC", "CFLAGS", "CXXFLAGS", "CPPFLAGS"}
\* env of the settings is put into the environment first
Environment(s, env) == s.env @@ env

HashWithoutConfiguration(s, env) ==                                         \* mutant
    LET e == Environment(s, env)
    IN  <<s.c_compiler, s.cxx_compiler, s.c_compiler_flags, s.cxx_compiler_flags, s.generator,
          s.toolset, s.use_shared_libs, [v \in TrackedVariables \cap DOMAIN e |-> e[v]]>>
SettingsHash(s, env) ==
    LET e == Environment(s, env)
    IN  <<s.c_compiler, s.cxx_compiler, s.compiler, s.c_compiler_flags, s.c_compiler_flags_conf,
          s.cxx_compiler_flags, s.cxx_compiler_flags_conf, s.compiler_flags,
          s.compiler_flags_conf, s.generator, s.toolset, s.use_shared_libs, s.configuration,
          s.host_c_compiler, s.host_cxx_compiler, s.host_compiler,
          [v \in TrackedVariables \cap DOMAIN e |-> e[v]]>>

(***************************************************************************)
(* What CMake says when it is run with those settings: the variables the   *)
(* configuration functions read.  system: the machine it runs on.          *)
(***************************************************************************)
\* cmake_options are the last arguments
Given(s, variable, value) ==
    LET given == SelectSeq(s.cmake_options, LAMBDA option : option[1] = variable)
    IN  IF given = <<>> THEN value ELSE Last(given)[2]
CxxCompiler(s, env, system) ==
    LET e == Environment(s, env)
    IN  First(<<Given(s, "CMAKE_CXX_COMPILER", s.cxx_compiler), Get(e, "CXX", ""),
                system.on_path[e.PATH]>>)
\* of cl with any generator but Ninja
VisualStudio(compiler, generator) == compiler.msvc /\ generator # "Ninja"
CMakeVariables(s, env, system) ==
    LET c == system.compilers[CxxCompiler(s, env, system)]
        generator == IF s.generator = "" THEN system.generator ELSE s.generator
    IN  [system |-> system.name, processor |-> system.processor, id |-> c.id,
         version |-> c.version, bits |-> c.bits, msvc |-> c.msvc, arch |-> c.arch,
         sysver |-> Given(s, "CMAKE_SYSTEM_VERSION", system.version),
         flags |-> ToSet(s.c_compiler_flags_conf) \cup ToSet(s.cxx_compiler_flags_conf),
         shared |-> s.use_shared_libs, toolset |-> s.toolset, generator |-> generator,
         visual_studio |-> VisualStudio(c, generator), xcode |-> generator = "Xcode",
         multi |-> generator \in {"Visual Studio", "Xcode"},
         build_type |-> First(<<Given(s, "CMAKE_BUILD_TYPE", s.configuration), "Release">>)]

Part(word) == IF word = "" THEN <<>> ELSE <<Prepared[word]>>
Option(b, word) == IF b THEN <<word>> ELSE <<>>
NoBuildType(v) == <<>>                                                \* mutant
BuildType(v) ==
    IF v.visual_studio \/ v.xcode \/ v.build_type = "" THEN <<>> ELSE <<v.build_type>>
Unhashed(v) ==
    Part(v.system) \o Part(v.processor) \o Part(v.id) \o <<v.version, v.bits>>
    \o Part(v.arch) \o Option(v.msvc /\ "/MT" \in v.flags, "mt") \o Option(v.shared, "dll")
    \o Part(v.sysver) \o Part(v.toolset)
    \o BuildType(v)
WithGenerator(v) == Unhashed(v) \o Part(v.generator)
\* config.cmake, whose hash names directories
ConfigOf(s, env, system) == WithGenerator(CMakeVariables(s, env, system))
=============================================================================

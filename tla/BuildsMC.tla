------------------------------ MODULE BuildsMC ------------------------------
(* Projects that differ in what the store of configurations must tell      *)
(* apart; commands are named for what they are about.                      *)
EXTENDS Builds

CONSTANTS p1, p2

compiler(id, version) ==
    [id |-> id, version |-> version, bits |-> "64", arch |-> "", msvc |-> id = "MSVC"]
compilers(gnu, cl) == [gcc |-> compiler("GNU", gnu), clang |-> compiler("Clang", "3.9"),
                       cl |-> compiler("MSVC", cl)]
windows(version, found) ==
    [name |-> "Windows", processor |-> "AMD64", generator |-> "Visual Studio", version |-> "10.0",
     on_path |-> ("/usr" :> "cl") @@ ("/opt" :> "clang"), compilers |-> found, cmake |-> version]
MCSystems == <<windows("3.8", compilers("5.4", "19.0")), windows("3.9", compilers("6.3", "19.1"))>>
MCPrepared ==
    ("Windows" :> "windows") @@ ("AMD64" :> "amd64") @@ ("GNU" :> "gnu") @@ ("Clang" :> "clang")
    @@ ("MSVC" :> "msvc") @@ ("Ninja" :> "ninja") @@ ("Visual Studio" :> "visual_studio")
    @@ ("10.0" :> "10.0") @@ ("8.1" :> "8.1") @@ ("v140" :> "v140")
    @@ ("NMake Makefiles" :> "nmake_makefiles")

usr == [PATH |-> "/usr"]
opt == [PATH |-> "/opt"]
command(kind, here, spec, config, at, env) ==
    [kind |-> kind, here |-> here, spec |-> spec, plain |-> 1, config |-> config, cwd |-> "cwd",
     at |-> at, name |-> "app", env |-> env, generate_only |-> FALSE]

twoBuilds == [configuration |-> "Release",
              builds |-> << <<"debug", [configuration |-> "Debug"]>>,
                            <<"ninja", [generator |-> "Ninja"]>> >>]
\* NMake, with the build type of the settings and another one
ownStorage(options) ==
    [storage_dir |-> "own", compiler_flags |-> <<"/W4">>,
     build |-> [c_compiler_flags |-> <<"/Od">>, c_flags_conf |-> <<"/MT">>,
                generator |-> "NMake Makefiles", use_shared_libs |-> FALSE,
                cmake_options |-> << <<"CMAKE_SYSTEM_VERSION", "8.1">> >> \o options]]
hereNinja == [generator |-> "Ninja", current_build |-> "none", builds |-> << <<"x", [toolset |-> "v140"]>> >>]

MCCommands ==
    {command("spec", NoFile, twoBuilds, "ninja", "p", usr),
     command("cpp", hereNinja, twoBuilds, "debug", "q", usr),
     [command("spec", NoFile, ownStorage(<<>>), "", "q", usr) EXCEPT !.generate_only = TRUE],
     command("spec", NoFile, ownStorage(<< <<"CMAKE_BUILD_TYPE", "Debug">> >>), "", "q", usr),
     command("package", NoFile, NoFile, "", "cwd", opt),
     command("clean", NoFile, NoFile, "", "cwd", usr)}
Symmetry == Permutations(Procs)
=============================================================================

# cppan in TLA+

cppan is a C/C++ package manager.  A run of the client reads the `cppan.yml` of
a project, resolves its dependencies against a local copy of the server's
database, downloads and unpacks what is missing into a storage directory shared
by all projects and all processes of the user, writes CMake files for every
package, and lets CMake prepare and build each package once for every
configuration.  These modules describe the parts of that where the order of
steps matters: processes that share one storage directory, threads that share
one package store, crashes, failed downloads, and the algorithms whose result
depends on the order in which unordered data is visited.

All paths below are relative to the repository; line numbers are those of the
modelled commit.

## The system: components, state, interactions

| component | state | operations | talks to |
|---|---|---|---|
| Resolver (`src/common/resolver.cpp`) | requests, `download_dependencies`, `resolved_packages`, whether the server must be asked | `resolve_dependencies`, `resolve`, `download_and_unpack`, `read_configs`, `post_download`, `assign_dependencies`, `prepare_config` | PackagesDatabase or the server (resolve), Remote (download), lock files and stamps of packages, PackageStore (`rd`) |
| Remote, Package (`remote.cpp`, `package.cpp`) | stamp files and directories of packages, `cleaned_packages` | `downloadPackage`, `cleanPackage(s)` | storage directory, service database |
| Databases (`database.cpp`, `sqlite_database.cpp`) | `service.db` (startup actions, hashes of tables, installed packages, hashes of dependencies, file stamps), `packages.db` with its csv files and `db.version` | open/create, startup actions, download, load, queries | storage directory, GitHub repository of the database |
| Versions and paths (`version.cpp`, `project_path.cpp`) | none | parsing, comparison, `canBe`, `is_root_of`, choice of a release | – |
| PackageStore, AccessTable (`package_store.cpp`, `access_table.cpp`) | packages and their configs, local packages, flags `processing`, `deps_changed`; stamps of generated files | `process`, `check_deps_changed`, `rebuild_configs`, `write_index`, `read_packages_from_file` | Resolver, printers, service database, cleaning |
| CMake printer (`printers/cmake.cpp`) | none between runs but the files | `print`, `print_meta`, `prepare_build`, `generate`, `build`, `clear_*`, parallel checks | AccessTable, projects, checks |
| CMake scripts (`inserts/*.cmake`, `client/fix_imports.cpp`) | build trees, import files, targets, locks; edited sources with flags and hashes | generate, build, `*_to_file_once` | child CMake processes and cppan itself |
| Checks (`checks.cpp`, `checks_detail.h`) | set of checks and values, a file of results for each configuration | load, merge, save, parallel run in worker directories | CMake and its cache, other projects of the configuration |
| Config, Project (`config.cpp`, `project.cpp`) | parsed `cppan.yml`, files, patches | load, save, inheritance, `findSources`, `writeArchive`, `patchSources` | YAML, file system |
| Source (`source.cpp`) | a variant: git, hg, bzr, fossil, cvs, svn, archive, file list | load, save, validate, version, download with retries | network tools |
| Settings, build (`settings.cpp`, `build.cpp`) | system, user and local settings; the table and the directory of known configurations, build trees | load, hash, `get_config`, `test_run`, `build_packages`, clean | service database, CMake |
| Client (`client/main.cpp`) | – | commands, the default run, self-upgrade | everything |
| API, verifier (`api.cpp`, `verifier.cpp`) | the packages of the server | add, update, remove; verify | server, Source, Project |
| bazel, autotools, comments, init, support | – | one-shot commands and converters | – |

What is hard here, and where the properties come from (the list with a line for
each item is `hazards` in `PROJECT.json`):

* **Processes.** Several cppan and CMake processes use one storage directory.
  Coordination is by lock files taken late, after checks made without them.
* **Order of marks and effects.** Stamps, records of startup actions, `db.version`
  and `.cppan.hash` are written before or after the thing they vouch for; a crash,
  an exception or another process between the two decides what the mark is worth.
* **Threads.** Downloads run in a pool and write to the PackageStore; some of them
  wait for other processes while they occupy a thread.
* **Rounds.** One process creates a Resolver per local config; each goes over all
  packages again (`read_configs`, `post_download`).
* **Unordered maps.** Resolution visits requests, roots and packages in an order that
  nothing fixes, and dependencies may be circular.
* **Nested CMake.** Locks of build trees nest along the dependencies, through child
  processes.
* **Things found once.** The configuration of a compiler, the results of checks and the
  hash of a source are found once and used for ever; what they depended on moves on.
* **Reading what was written.** Specifications, checks and sources are loaded, saved and
  loaded again by other programs and in other directories.

What makes each component correct is said with its module below.

## Modules

| module | models | checked by |
|---|---|---|
| `PackageDownload` | downloads by several processes and their threads, from resolve to write_index | `DownloadSolo`, `DownloadPair`, `DownloadEnds`, `DownloadReader` |
| `PackageDownloadProofs` | theorems about it | tlapm |
| `Databases` | start of a process: databases, startup actions, update | `DatabasesStart` |
| `DatabasesProofs` | theorems about it | tlapm |
| `Versions` | versions, paths, choice of a release (operators) | through `Resolution` |
| `Resolution` | find, mark, assign, prepare | `Resolution`, `ResolutionRoots` |
| `ResolutionProofs` | theorems about both | tlapm |
| `CMakeGenerate` | generate.cmake, build.cmake, edits made once | `CMakeGenerate` |
| `CMakeGenerateProofs` | theorems about it | tlapm |
| `Generation` | a run between resolution and CMake: hashes of dependencies, cleaning, printing | `Generation` |
| `GenerationProofs` | theorems about it | tlapm |
| `Checks` | checks from cppan.yml to the compiler, and the shared file of results | `Checks` |
| `ChecksProofs` | theorems about it | tlapm |
| `Settings` | settings and the name of a configuration (operators) | through `Builds` |
| `Builds` | builds that cppan drives, with the store of configurations; EXTENDS `Settings` | `Builds` |
| `BuildService` | what that store promises: the abstract specification `Builds` implements | through `Builds` |
| `BuildsProofs` | theorems about `Builds`, the refinement among them | tlapm |
| `Sources` | every kind of source (operators) | through `Publishing` |
| `Projects` | cppan.yml to packages and back (operators); EXTENDS `Sources` | through `Publishing` |
| `Publishing` | an author, the api, the server, the verifier, an installed package; EXTENDS `Projects` | `Publishing` |
| `PublishingProofs` | theorems about `Publishing` and the operators it uses | tlapm |
| `*MC` | small values for the constants | – |

### PackageDownload

One record of variables per process (`stage`, `round`, `queryLocalDb`; the store:
`config`, `cleaned`, `downloads`, `pending`), one per download task (`task`, `want`,
`got`, `todo`), and the storage directory (`stamp`, `dir`, `patched`, `lock`,
`installed`), which alone survives `Crash`.  A package directory is a function from
file names to the archive a file came from, so that half-unpacked and merged
directories are distinguishable.  The actions follow `download_dependency`
(resolver.cpp:217-304) statement by statement wherever another process or a crash
can come between: `ReadStamp`, `CheckDir`, `TryLock`/`WaitLock`,
`DownloadOk`/`DownloadMismatch`/`DownloadUnchecked`, `VerifyFails` (`verify_all`),
`CleanOld`, `RemoveFile`, `RemoveDone`, `WriteStamp`, `UnpackFile`,
`UnpackDone`/`UnpackFails`, `LoadConfig`, which may fail and leaves the directory then,
`InsertConfig`; those of a run are `ResolveLocal`/`ResolveRemote`/`ResolveFails`,
`Enqueue`, `JoinOk`/`JoinRetry`/`JoinFails`, `ReadConfig`, `PostDownload`,
`WriteIndex`.  `ReadConfig` is read_config: a directory without its specification, or
with one that cannot be loaded, is removed under no lock and the run fails
(resolver.cpp:485-492).  `Publish` and `UpdateIndex` are the server's and the database's.

`Rounds` are the Resolvers of one run, one for each local config with unresolved
dependencies.

### Databases

The life of a process up to the point where it can resolve: open `service.db`
(creating it under a lock), compare hashes of tables, check the stamp of the client,
perform the startup actions, then open `packages.db`, download it if it was created
here, or try the lock `db_update` and update.  A startup action is the sequence of
regions (`exp`, `src`, `schema`, `packages_db` …) it clears; `executed`, `lost` and
`overlap` are history variables.  A storage starts either new or as any older
client left it: `Init` ranges over which actions were performed, the shape of the
tables, hashes, and what is old.  `Load` has no branch for `recreate()`
(database.cpp:1015): it is called when the recorded version of a table's schema is
older than the program's, and every table is created and recorded with version 1
(database.cpp:145), so that no storage makes it true at this commit.

### Versions, Resolution

`Exact` is the cascade of queries of `getExactProjectVersionId`; `Upgrades` is the
reference definition the properties use: the greatest release that `canBe` admits.
`Resolution` walks `findDependencies`/`getProjectDependencies` with an explicit stack,
then `resolve_dependencies` (recording `resolved_packages`), `assign_dependencies`
and `prepare_config`.  Where the code iterates over an unordered map, the action
chooses any element; where it says `order by path`, it does not.

### CMakeGenerate

A process is a CMake run on a user's project with its children; its stack has a
frame for each script that runs.  `Check`, `TryLock`, `WaitLock`, `WaitTimeout`,
`DoubleCheck`, `IncludeGenerate`, `StartEdits`, `Export`, `OpenFixed`, `WriteFixed`,
`Release`, `ExportsDone`, `Include` are generate.cmake and the files around it
(`print_obj_generate_file`, `print_obj_export_file`); `CheckEdit` … `UnlockFile` are
`push_front_to_file_once` and its siblings; `CheckBuild` … `UnlockBuild` are
build.cmake inside the target of build dependencies.  A lock is the set of its
holders.  Packages are libraries that are built; executables and header-only
packages are left out.  `Setups` gives each process its configuration and its version of
CMake: a tree is prepared for a version if `CMakeFiles` has a directory of that version
(`cmakes`; generate.cmake:42, 71), so that a run with another version prepares again and
truncates the fixed import file others may be including.  `opened` is history: the
versions a tree's import file was opened for.

### Generation

Successive runs of cppan on the user's projects.  What survives a run is on disk:
`installed` and `hash` (tables of service.db), `files` (for which dependencies the
CMake files of a package were printed) and `built` (the files a build directory was
made from, its own and those of the whole closure).  A run goes through the local
configs of its project (`ResolveDependencies`, `WriteIndex`, `CheckDepsChanged`,
`Joined`), then prints package by package.  `CheckDepsChanged` starts a task for every
package whose hash differs; a task marks and removes the package (`SaveCleaned`,
`Remove`), searches its dependents in the loop of `getTransitiveDependentPackages`
(`Retrieve`, `VisitRetrieved`, with the cache all tasks share), cleans those that are
installed, and sets the hash.  `Stop` ends the process anywhere, `TaskFails` one task.
`RemoveIgnored` is a removal that fails: `rm` and `rm_recursive` ignore the error
(package.cpp:268-289) and the task goes on to record the hash; `kept` is history, what was
to be removed and is still there.  An error of sqlite is what ends a task (`TaskFails`).
`Build` is CMake, which takes what is built already as it is.  Resolution is a
function of what is published (`Worlds`); downloads, and the cleaning that belongs to
them, are in `PackageDownload`.  Names are matched exactly where the code uses a
regular expression.

The iteration over an unordered set into which the loop inserts is a choice: an
element inserted for a cached package may or may not be visited, and an insertion
beyond `Buckets` elements, which rehashes and so invalidates the iterator, may lead
anywhere in the set.  `torn` is history: whether any run has ended while it cleaned.

### Checks

The first half is operators: `LoadEntry` and its parts are the loader of checks.cpp for
every key and every form of an entry, `SaveCheck` what checks.yml holds, `Less` the
order in which checks are performed, `Merge` the sum over the packages of a project.
`WriteCheck` is what the printed helper file does for one check, on top of the
variables CMake has (`run[p].vars`), the array it will write (`array`) and the values
that are inverted only until CMake ends (`raw`).  The second half is a CMake
configure step of each project: `ReadFile` (with the lock, if the file is there),
`Checker` (cppan in the background: `Scatter`, one CMake for each thread, any of which
may fail, `PrintValues`), `CheckerFails` (cppan itself fails: CMake stops with
FATAL_ERROR), `OpenFile`, `AppendLine`, `CloseFile`, and `Kill` anywhere.  The workers'
results are files named by variable and parameters (`FileOf`), and a symbol that is found
writes those of its headers as well (checks.cpp:725-740).
What compilers find (`Worlds`) and what projects check (`Setups`) is given; `Found` is
external.  Words are ranked instead of spelled; of the parameters of a check only the
first header is kept, and two of the eleven checks that declarations bring along.

### Settings, Builds, BuildService

A yaml map is a function from the keys that are written in it.  `Settings` loads the
settings of machine, user, directory and file one over the other (`LoadMain`,
`LoadBuild`, `CurrentBuild`), as often and in the order `client/main.cpp` and
`build.cpp` do for a command (`LoadsOf`), hashes them (`SettingsHash`), and names the
configuration CMake would find (`ConfigOf`, from functions.cmake).  The flags of a
language are read under two names while their value is empty (`Flags`), the common ones
appended on each load (settings.cpp:270-274, 313-318, 341-348); a `cmake_options` may
override a variable without entering the hash (`Given`); a generator has several
configurations if the compiler is cl and the generator is not Ninja (`VisualStudio`,
printers/cmake.cpp:1219-1222).  `Builds` runs
processes with these: `Lookup`, `TestRun`, `CopyStart`/`CopyEnd`, `Register` are
`get_config`; `Find`, `Again`, `Check`, `SeedStart`/`SeedEnd` are `build_packages`;
`PrepareBuild`, `Generate`, `Build` are the printer's.  `CleanDirectories` and
`CleanRows` are `--clean-configs`, `Kill` ends a process anywhere, `Upgrade` changes
the machine while nothing runs.  What CMake detects is external (`Systems`).

`BuildService` is the abstract specification: a client asks with a request and is told
the configuration that is true for it, or leaves untold.  `Builds` implements it with
`asked` = command and machine of a process and `told` = its configuration from the
moment it touches a build tree (`ImplementsService`).

### Sources, Projects, Publishing

A path is a sequence of names, a directory tree a function from paths to contents, a
text a sequence of words.  `Sources` describes each kind of source by its fields, which
of them exclude each other, which are formatted with a version, and the commands of
its download: what must not be there yet, what a command leaves, what a failing one
may leave.  `Projects` is load and save of project.cpp and config.cpp with the
preparation of yaml.cpp: names, dependencies, inheritance, files, root directories
guessed from the tree, added directories.  A list of files is written under a key that
cannot be read again (`KeyOf`; source.cpp:1012, 1073), and of a patch with both kinds of
replacements only one kind is written (`SavePatch`; project.cpp:363-367).  A key of
`common_settings` and the same key of a project, which yaml.cpp:47 merges deeply, are left
out (`SettingsApart`), and so are directories without a specification, which become
default projects (config.cpp:76-82), directories that add others, and a server that
answers with another package than was asked for (verifier.cpp:81).  `Publishing` puts
them to use: `Edit`,
`BeautifyStrict`, `BuildInPlace` and `Call` are the author's commands (`Request` is
the client's half of a call; `Serve`, the server's, is external: it does what
prepare-archive of the client does), `StartVerify` … `Compare` are verifier.cpp with
the retries of source.cpp (`RunCommand`, `CommandFails`), `Install` loads a package
from where its archive was unpacked.  `Push` moves the source on.  `seen` shows what
the last step came to.

## Runs

Passing runs:

* **download_solo** – one process, two threads, two packages, two archives each, two
  runs, one crash, failures of every download.  What a successful run leaves
  (`SuccessComplete`), that replace rules run at most once per file in a process with one
  Resolver (`PatchedAtMostOnce`), that what passes for up to date is whole
  (`UpToDateIsIntact`).
* **download_pair** – two processes, one package, two runs each, a crash and a
  publication: mutual exclusion (`OneDownloader`), with it that no lock is leaked, no
  thread outlives its attempt and the stamp precedes the sources (`IInv`, the
  invariant the proofs rest on), and that old sources change only under the lock after a
  download and its verification, or by a run that gives up because it could not load
  them (`OldSourcesKept`).
* **download_ends** – liveness (`RunsEnd`) with two processes whose only thread may wait
  for the other one, three packages, two rounds.
* **databases_start** – two processes, six startup actions with every kind of overlap
  (repeated, part of another, empty), one fault: no action is done twice or lost, and
  nothing old is left (`ActionsRight`); updates exclude each other and tables fit
  together (`PackagesRight`).
* **resolution** – 1152 databases of six known paths (a root project with two children, a
  cycle, a library above another one, missing releases, a branch, packages published
  a moment ago) and ten requests: the releases (`NewestChosen`), the walk over
  circular and unpublished dependencies (`WalkRight`), what is recorded, assigned and
  written into configs (`ResultRight`).
* **cmake_generate** – two CMake runs, repeated once, in one or two configurations and
  versions of CMake, of a project with two packages one of which takes the other's
  include directories back; two edits of one file; one run killed.  `LocksRight`
  (exclusion, no circular wait), `EditsRight` (once, and before the export), `ImportStays`
  (a whole import file is opened again only for a version of CMake it was never written
  for), `Built`, `RunsEnd`.
* **checks** – two projects of one configuration, three configure steps, one kill or
  failing checker, one thread or two, in seventeen combinations of what is checked and what is found.  What is
  in the file, in a project's array or in its variables is true, once (`FileRight`);
  every check of a project ends in a definition exactly if it succeeds (`Available`);
  what the parallel checker reads back is what was asked (`CheckerAsksSame`; that the
  entries are as `CheckerCorrect` asks is assumed in `ChecksMC`).
* **builds** – three runs of two processes, six commands that differ in where their
  settings are and what they say, two storages, one kill or failing test run, one
  upgrade: each build gets the configuration that is true for it (the refinement
  `ImplementsService`), a source directory is missing only if somebody removed it
  (`FailsOnlySwept`), no tree is used for two compilers, generators, kinds of
  libraries or build types, but for the build types of cl run by makefiles
  (`TreesApart`), the chosen build holds, its flags among the rest (`ChosenBuild`).
* **publishing** – eight specifications (git, hg, an archive, github, a list of files, a root
  project, added directories, all kinds of dependencies, patches of one kind and of both,
  headers that are not published), two revisions and a tag, one failing command, seven
  calls: a verdict of the verifier is the one of a download without
  failures (`VerifyRight`), an installed package has the include directories of the
  published one if its archive keeps what they are guessed from (`InstalledSame`),
  rewriting does not change what is read from a specification that loses nothing by it
  (`StrictSame`, `Rewritable`), local packages come with those they need (`DepsKnown`).
  That needs are there, and that of the specifications with projects only the one
  with a list of files and a patch of both kinds is not `Rewritable`, `PublishingMC` assumes and TLC
  evaluates (`AuthorAssumption`).

* **generation** – three runs on two projects that share packages, two of which use each
  other, a release published between two runs, builds, two threads, one stop, failing
  task or removal that fails: all dependents are cleaned although tasks share the work and
  the cache, but for what could not be removed (`DependentsCleaned`), a successful run
  leaves nothing built from other files than those that are there, but for the same, unless
  a run was killed while it cleaned (`BuiltFromFiles`), it is
  not repeated for nothing (`SettledStays`), and it ends (`RunsEnd`).  `Buckets` is the
  number of packages: no set is rehashed, which `Fits` states (see below for what happens
  otherwise).  With `BuildAfter = {"done", "failed"}` TLC refutes
  `BuiltFromFiles`: a hash recorded by a run that fails before it prints vouches for
  files that are not there yet.  CMake itself stops when cppan fails
  (inserts/CPPANConfig.cmake:41), a build in an IDE does not go through that line.

Violations (each a statement of the repository that the code does not keep; see
`findings`):

* **reader_does_not_wait** – `SuccessIsIntact`: the up-to-date check does not see that
  another process is unpacking (resolver.cpp:229, 236).
* **root_child_dropped** – `ChildrenPrepared`: the first child of a root project is not
  inserted into the store (resolver.cpp:427).

### Properties the code does not have

These are stated in the modules beside the ones that hold, which leave out the case in
question by a named condition.  TLC refutes each on a few states, with the constants
given here.

* `PackageDownload.OnlyCheckedUnpacked` (constants of DownloadSolo): "hashsum checks are
  performed on client side" (doc/website.md:3), but an archive no source has the right
  hash for is unpacked all the same (remote.cpp:76).
* `PackageDownload.SourcesPatched` (DownloadSolo): a run that fails between unpacking and
  post_download leaves a package no later run patches (resolver.cpp:471, 476).
* `Databases.OneUpdater` (DatabasesStart): the first download of the database is not
  under the lock of the updates, which is called "multiprocess aware"
  (database.cpp:910, 927).
* `Checks.AvailableToAll` (two entries that define one variable, of which only one
  succeeds): "after successful check a definition … will be available"
  (doc/cppan.yml:292, 326) depends on which comes first, and on what another project
  wrote.
* `Builds.ChosenCompiler` (a `compiler` in the settings and another one in the chosen
  build, or flags of a language under their short names in both): "then override settings
  with specific (or default) config" (settings.cpp:214), but the compilers were filled in from the first one by then
  (settings.cpp:331), and flags by their short names are read while there are none
  (settings.cpp:270-274, 313-318).
* `Builds.ImplementsService` with two builds that differ in the environment's `CXX` only:
  "we track all valuable ENV vars to be sure that we'll load correct config"
  (settings.cpp:412), but `CXX` is not among them (line 455 has `CC`).  The same holds
  for a new compiler under an old CMake, whose version names the directory
  (build.cpp:143), and for an upgrade that gives one command the compiler another one
  had (gcc 5.4 becomes 6.3, and a command with another PATH gets 5.4): the row of the
  first is old, and what it names is there for the new CMake because of the second.
* `Publishing.StrictConverts` (a specification of a project without a name): "convert to
  strict cppan config" (client/options.cpp:59) calls it name0, a relative name the
  next reader refuses.
* `Publishing.InstalledSame` without `seen.package.keeps` (OnlySources): the server guesses
  include directories from the tree of the source, a client again from the archive
  (project.cpp:1168, "root_directory part must be checked on server side … second part –
  on installed package"); of a tree with `src` and `include` of which only `src` is
  published, the first finds `include` and the second `.` and `src`.  Also when a
  `root_directory` that was entered has a directory of its own name.
* `Publishing.SpeedUpOnly` (OnGithub): "try to speed up git downloads from github"
  (source.cpp:209), but an archive has the files in another directory than a clone,
  whose `.git` keeps the root from being entered, so that different files are found.

* `PackageDownload.PatchedAtMostOnce` with two Resolvers in a run (constants of
  DownloadSolo, `Rounds` = <<{k1}, {k2}>>): `resolved_packages` is shared by the Resolvers
  of a process, and each patches all of it again (resolver.cpp:381, config.cpp:333).  And
  with two processes (constants of DownloadPair): who waited for the other's download
  registers the config as created, too (resolver.cpp:238), and patches the same files.
* `PackageDownload.OldSourcesKept` without `GivesUp` (DownloadPair): "so we won't lost
  existing package" (resolver.cpp:242), but a process that cannot load a specification
  removes the sources, whoever holds the lock (resolver.cpp:488).
* `CMakeGenerate.ImportStays` with `FALSE` for its second part (two versions of CMake): a run
  of another version prepares a whole tree again (generate.cmake:42, 71) and opens the
  import file that other projects include without a lock.
* `Generation.DependentsCleaned` and `BuiltFromFiles` without `kept`: "dependent packages must
  be rebuilt" (package.cpp:181), but an error of a removal is swallowed (package.cpp:268-289),
  the hash is recorded all the same (package_store.cpp:273), and no later run looks again.
* `Builds.TreesApart` with `=` for `Alike` (cl with NMake or JOM Makefiles, Debug and Release):
  "to distinguish build types for non VS/XCODE builds" (functions.cmake:334) the name has the
  build type, but any generator of cl but Ninja counts as Visual Studio there
  (printers/cmake.cpp:1220), so that both share one tree.
* `Publishing.StrictSame` without `Rewritable` (Losing): a source that is a list of
  files is written as a sequence and read as a string (source.cpp:1012, 1073), and the
  replacements of files overwrite the ordinary ones (project.cpp:363-367).
* `Generation.DependentsCleaned` when a set of dependents outgrows its table (`Buckets` = 3,
  packages n, p, q, x, y, z; first q and x use p, y uses x and z uses q, then p and q use n
  as well; one project asks for y and z): "dependent packages must be rebuilt"
  (package.cpp:181), but the loop that inserts into the set it goes over
  (database.cpp:1541) can lose the one element that leads to the others, and no other
  task looks again.
* `Generation.BuiltFromFiles` without `~ torn` (packages n, q, q2, a, p, r, b; b uses q2 and
  n, a uses q, p uses a, r uses p, then q and q2 use n; projects <<{r, b}>> and <<{r}>>):
  the dependents one task has retrieved are not retrieved by another, which cleans only
  what it has found itself and sets its hash.  A run killed between the two leaves a hash
  that vouches for packages the other task had still to clean, and the next run does not
  ask again.
* `Generation.BuiltFromFiles` without `NeverBack` (b uses a and c1, then a and c2, then a
  and c1 again; project <<{a}, {b}>>): "already executed" (package_store.cpp:236) skips
  the packages of a second local config once the first one had changes, so b is not
  compared while it differs, and its old hash is right again when it is.

Smaller observations made while modelling: `has_remote` of the api commands looks any
relative name of one element up in the default remote; a directory added with a
single unnamed project gives it the name `dir.` (config.cpp:216); a retry after
`git remote add` fails there again (source.cpp:263); a patch without a line break at
its end loses its last character (project.cpp:346); a git source without tag, branch
and commit fetches nothing.

### Bounds, and why they are enough

Mutual exclusion, stale checks and lost marks need two processes; a third adds only
another waiter, because every lock is exclusive and every other shared effect is a
single write.  Two archives distinguish "old", "new" and "mixed"; a third publication
repeats the second.  Two runs let the second one meet what the first left.  One
crash or fault at any step is enough for each mark to be separated from its effect.
The two levels of packages in CMakeGenerate give nesting and a cycle; with more the
stacks only get deeper.  In Resolution versions have numbers up to 2 and the paths
include every relation the code asks about (`is_root_of`, equal, unrelated).  In Checks
the third configure step is the first that can read what a second one wrote over a
first; with two threads every check that is not a declaration can be in the worker that
fails or in the other one.  In Builds a row, a directory and a tree of a first build meet
a second one that differs in one thing, and a third that cleans or finds both.  In
Publishing one failing command at every place of every kind of source separates each
effect from the next, and two revisions tell "then" from "now".  Calls of the api fall before
a verification has its specification or after its verdict: in between it reads the source
only, so that a call there shows nothing that one of the two does not.  All bounds are
constants (`Max…`, and `Jobs`, `FewChecks`), guards of the actions that count.

### Fairness

`FairSpec` of PackageDownload assumes that a process that can take a step does so,
separately for its run and each task; a `WaitLock` step is possible when the lock is
free.  That is what an operating system gives a process that is not killed; a source
that never answers is a failed download, because requests have timeouts.  FairSpec
of CMakeGenerate assumes it of every CMake run.  FairSpec of Generation assumes only that some step of the run or of its
tasks is taken as long as there is one.  No action of the environment
(publication, crash, start of a run) is fair.  `RunsEnd` there speaks of the locks: the
wait of a build has no timeout in build.cmake, that of generate has (`WaitTimeout`).
Checks, Builds and Publishing state safety only: their steps are those of a program that
runs to its end unless it is killed, and wait for no one but for the short lock of the
file of results.

Deadlock checking is off in the runs where the system may stop (all runs of all
processes over); `RunsEnd` is what shows that nothing stops before.

## Proofs

`PackageDownloadProofs` proves, for any number of processes, packages, rounds, files,
threads, publications and crashes, under `DownloadAssumption` only:

* `TypeCorrect`: `Spec => []TypeOK`, one step for each action;
* `Inductive`: `Spec => []IInv`, where `IInv` joins TypeOK, `ThreadsInPool`, `LockOwner`,
  `OneDownloader` and `StampBeforeSources`;
* and from it `DownloadsExclusive`, `LocksAccounted`, `ThreadsJoined`,
  `StampPrecedesSources`, and the action property `DownloadFailureKeepsSources`
  (`OldSourcesKept`): only the holder of the lock changes sources, past its download and
  its verification, but for a run that removes what it could not load and fails.

`OneDownloader` is not inductive alone: a task enters its critical section when the
lock is free, which excludes others only with `LockOwner` (the lock's holders are
exactly the processes in the section); `LockOwner` needs `ThreadsInPool`, or a new
attempt could reset a task that still holds a lock; `StampBeforeSources` needs
`OneDownloader`, or another process could overwrite the stamp.  The proof classifies
actions first: every action of a thread is a `ThreadStep` and every action of a run a
`RunEffect` (lemmas `TaskStepIsThreadStep`, `RunStepEffect`), and the invariant is
shown for these two shapes, for publications and for a crash.

What is in the directories of packages is true for one process (`OneProcess`: `Procs` has
one element; with two, the run reader_does_not_wait refutes it).  `SoloInv` adds to
`IInv` a statement for each place a package can be at in its task: no lock is waited for,
what is stamped is unpacked or being unpacked, what was loaded is whole, what the
up-to-date check lets through needs nothing (`Sound`), the attempt's results are those
of its packages (`BatchDone`) and earlier rounds are finished (`RoundsDone`).  From it:

* `RunsComplete` (`SuccessComplete`) and `UpToDateTrusted` (`UpToDateIsIntact`);
* `PatchedOnce` (`PatchedAtMostOnce`), for runs of one Resolver (`Len(Rounds) = 1`); with
  more it is false, see above.

`DatabasesProofs`, for any number of processes, any sequence of startup actions over any
regions and any tables (`DatabasesAssumption` types them):

* `TypeCorrect`;
* `PackagesCorrect` (`PackagesRight`): `Updates` says which processes are in an update and
  which of them hold the lock, `Whole` that tables of two versions exist only while an
  update writes or after two have overlapped;
* `ActionsCorrect` (`ActionsRight`): `Counted` (done at most once, and recorded before it
  is done), `Stamped`, `Cleaning` (what a process at an action has still to clear) and
  `Covered` (whatever is old has a region some action that is not recorded clears, or a
  process that is clearing it).  The last is what makes it inductive: an action is
  recorded before its effects, so that the record alone says nothing.

`CMakeGenerateProofs`, for any set of CMake runs, any packages, configurations and edits:

* `TypeCorrect`, `LocksCorrect` (`LocksRight`), `ImportsStay`, `EditsCorrect`
  (`EditsRight`), `BuiltCorrect` (`Built`).

The invariants speak of every frame of a stack: `StackShape` says which frame may be
above which, `Locks` that the frames of running processes hold exactly the locks of their
stages.  That nobody waits in a circle follows from the layers: whoever waits for a lock
waits for a tree below its own.  `Fresh`, `Edited`, `Once` and `BuiltInv` are proved on top
of these, one at a time.  `EditsAssumption` (the edits of a package differ) holds because
an edit is named by a hash of its text; `LayersAssumption` (no package is linked to
itself through others) because such packages could not be prepared at all: the innermost
run would wait for a lock of its own parent.

`GenerationProofs`, for any packages, histories of releases, projects, threads, runs and
faults:

* `TypeCorrect`;
* `CleaningCorrect`: `DependentsCleaned`, if `Fits`;
* `BuiltCorrect`: `BuiltFromFiles`, if `Fits`, `NeverBack` and `BuildAfter` has no failed
  runs;
* `SettledCorrect`: the action property `SettledStays`.

`GenerationAssumption` types the constants and says that requirements know every
dependent.  The three hypotheses are named because the properties are false without them
(above); the run has constants for which they hold.  While no task has failed, `GoesOn`
holds: a dependent of what was retrieved is retrieved or some search comes to it; what
is retrieved is taken or some task has it to take; what is taken is gone or some task is
removing it.  None of this holds of one task alone, which may end before its dependents
are clean.  When all are over, what was retrieved is closed under dependents, and a closure
is the least closed set (`ClosureLeast`).  What could not be removed is excused by `kept`
wherever the invariant says that something is gone, and leaves `kept` only when it is
removed after all.  `BuiltVouched` says that what anything built
was made from agrees with the recorded hashes, or with hashes that will never be right
again, or else is of a task that is done; the end of the cleaning removes the last case
(`JoinedVouches`), and at the end of a run the checked packages are closed under
dependencies and have right hashes, so that what was built of them was made from the
files that were just printed (`DoneBuilt`).

`BuildsProofs`, for any commands, settings, machine with its upgrades, processes and
bounds (`BuildsAssumption`: there is a machine, and `None` is no request):

* `TypeCorrect`, and `FailsCorrect` (`FailsOnlySwept`);
* `ServiceImplemented`: `Spec => ImplementsService`, if `HashTells` and `UpgradesTell`;
* `TreesApartCorrect` (`TreesApart`), if `NamesTell` as well;
* `ChosenCorrect` (`ChosenBuild`), without any hypothesis.

For all but the last the operators of `Settings` stay unexpanded but for `ConfigOf`, which
is never empty: those proofs hold for any way of reading settings.  `ChosenCorrect` is about
the reading itself: what a command loads last is what its build has, whatever was loaded
before and however the maps were merged, with the common flags at the end of those of a
language (`Settings` merges keys with a function, `Updated`,
and not with a fold, so that this can be proved for any map).  `Base` says what everybody knows: a row is
what CMake once said to somebody with the hash of the row, a directory was filled by the
CMake it names, what a build found is true.  A row may be old, so `Base` alone does not
make an answer true; `LookedUpRight` does: the row was said to the hash, the directory
shows that the CMake of now says it too, and the hypotheses conclude that it is said to
this build.  `Truthful` (what a build is told is true) follows by induction, and each step
of a build asks, is told, leaves or does not show (`ActsPhase`, `MoveMaps`).  `Grown`, what
a tree was used for is what CMake says of its configuration, needs `Truthful`.  The three
hypotheses hold for the constants of the run; without `HashTells` or `UpgradesTell` the
refinement is false (above).

`ChecksProofs`, for any projects, entries, compilers, numbers of threads, runs, kills and
failing checkers
(`ChecksAssumption` and `EntriesAssumption`: entries are what the loader takes, and the
words it adds by itself are among the words):

* `TypeCorrect`; `LinesCorrect` (`LinesOnce`, and of the projects only the holder of the
  lock writes); `DefinedCorrect`, the first part of `Available`: a project that is configured
  has a value for each of its checks, whichever workers failed.  These need no hypothesis;
* `FileCorrect` (`FileRight`), if `Consistent`;
* `AvailableCorrect` (`Available`), if `Consistent` and `Complete`;
* `CheckerCorrect` (`CheckerAsksSame`), if `RereadableProjects`.

`Consistent` says of the entries and the compiler what nothing in cppan sees to: no other
check defines the variable of an inverted one; a check that succeeds, be it one that was
read back from checks.yml as something else, succeeds for the variable it has; what a type or
a symbol defines besides its variable is true if the variable is; a declaration that is
found with some of its headers is found with all of them.  `Complete` says the same of
failures.  Without the first a check vouches for more than it found: of two symbols of one
name in different headers the one that is there also defines the header of the other.  Both are state predicates of
`setup` and `world`, which no step changes, and every initial state of the run `Checks`
satisfies them (with `PROPERTIES Consistent Complete` in its cfg TLC says so).

`RereadableProjects` says that no check that is read back is named `symbol` or is a symbol of
the same variable, which is what a symbol without a header becomes, and that of a project's checks those are default that
loading checks.yml adds: not those another entry of the same variable took the place of (a
package that lists `stdlib.h` before one with a declaration makes the check its own, it is
saved, and read back as a default).  `ChecksMC` assumes it of all setups, so that TLC
evaluates it.  The argument: every check of a project is what one entry makes it, but for what
`SetIn` set (`Made`, kept by loading, `MadeEntry`, and by merging); saved, it is loaded as it
was (`Reloads`, type by type), or as one of the `Others`, which share no identity with a check
that counts (`ReadBackApart`); so loading only ever adds to what is there, reaches each
(`LoadKeyReaches`, `LoadKeysReach`, `DefaultsReach`) and leaves nothing else.

The invariant is one, `IInv(A, V, L)`, for three uses: whatever CMake's variables, the
arrays, the lines of the file and CMakeCache.txt hold is a pair of `A`; only variables of `V`
are held inverted; only variables of `L` are defined without being in the array; lines and
arrays have a variable once; the file of a project in `append` is a prefix of its array.
`Allowed(A, V, L)` is what a set of pairs needs for every step to keep to it, and with it
`NextIInv` is proved once: `TypeInv` takes all pairs of a variable and a bit, `FileInv` those
that invent nothing, `RightInv` those that are right of what is there and of what is not.
`FileRight` is not inductive: what a project writes was read from a file others wrote, from
CMakeCache.txt, and from a checker that read a file while it was written, and what a
declaration finds depends on the headers found so far.  Most of the module is about folds:
`Load`, `Merge`, `ReadLines`, `WriteChecks`, `Worker` and `PrintValues` fold over sequences,
so what a fold keeps is proved first (`FoldExists` and what follows it, from the
well-ordering of the numbers instead of induction over an operator).

`PublishingProofs`, for any specifications, trees of a source, calls and number of
failures (`PublishingAssumption`: there is a revision; `SpecificationsAssumption`:
specifications are the yaml the module reads, with lists where lists are, no key both in
`common_settings` and where it would be merged, and no added directory that adds others):

* `TypeCorrect`; `VerifyCorrect` (`VerifyRight`); `InstalledCorrect` (`InstalledSame`);
* `KnownCorrect` (`DepsKnown`), if the author sees to what is needed: `NeedsAreThere`;
* `StrictCorrect` (`StrictSame`), without a hypothesis.

A verification is at most at a command of its source in some try.  `Progress` is what
makes `VerifyRight` inductive: whatever failed before, the directory holds nothing but what
the commands of this source give, and everything the commands before this one gave.
For this all commands but those of archives must undo nothing and leave nothing when they
fail (`CommandsClear`, by the kinds of `Sources`), and an archive must be tried once only
(`Tries`); that a second try may never get past a command that wants an empty directory
does not matter, since it then comes to no verdict.  At the end the two bounds meet
(`OriginalIsCheckout`).  `InstalledCorrect` compares two loads of one specification: what
is read without dependencies does not depend on the context (`ReadSame`), in the storage
the root is where the archive was unpacked (`StoredRoot`), and a guess that finds the same
directories is the same (`DefaultSame`).

`KnownCorrect` has a hypothesis about the specifications an author writes, because the code
fails for others: a dependency on a directory nobody wrote is not there.  It is about
`Specifications` only, the constant; what becomes of them is what is proved.  `StrictSame`
itself leaves out what is lost (`Rewritable`): a project or dependency whose name is not
absolute is written under a name that is refused, and a source that is not valid or a list
of files, a library that is both static and shared, the last character of a patch and one
kind of replacements of two do not come back.  `KnownCorrect` rests on three facts: the directories are loaded
in an order in which each knows those before it, so a local package that is needed was
loaded (`AddedInOrder`, `OfferedHinted`); as many rounds of `AddReferenced` as there are
projects in the directories reach everything that is needed (`RoundsEnough`: a round that
adds nothing is the last, and every other one makes what is left smaller); and a specification that
was rewritten has absolute names only, whoever rewrites it again (`SpecInv`, `StrictPlain`,
`WrittenAgain`).  `StrictCorrect` is a round trip: what is read from a project's map is of
a certain form (`ReadIs`), and of everything of this form `SaveProject` writes what
`ReadProject` reads back: plain values under whichever of their keys is looked for first
(`PlainBack`), the source and the version that was taken from it (`SourceBack`,
`VersionBack`), dependencies by visibility and name (`GroupsBack`).  Preparing what was
written changes nothing (`Prepared`), no two projects get one name and none is refused
(`SavedLoads`), and since what is read does not depend on the revision the branch is at
(`AlikeProjects`) the next rewriting starts where this one did (`Fit`, `StrictAgain`).

`ResolutionProofs`, for any databases, requests, paths and numbers in versions
(`ResolutionAssumption`: the database's releases and the specifications' versions are
what the constructor of Version makes, and what a specification names is in the database):

* `TypeCorrect`; `ChosenCorrect` (`NewestChosen`); `WalkCorrect` (`WalkRight`);
  `ResultCorrect` (`ResultRight`).

Three lemmas about the operators of `Versions` carry most of it: what the cascade of queries
finds is the newest release the rules for upgrades admit (`ExactUpgrades`), it is one
release at most (`ExactUnique`), and the query of a set of paths that is not empty has a
first row (`FirstIn`, from the well-ordering of the numbers).  The actions of the walk are
then brought to eight kinds (`Starts`, `Skips`, `Links`, `Pushes` and so on, lemma
`Actions`), and the invariant is

* `Chosen`: every entry, every call on the stack and the root project in hand hold only what
  a request or a need admits; `NewestChosen` follows;
* `Walk`: no package is on the stack twice, since only one without an entry is pushed; a
  package is on the stack, or something is linked for all it needs (`Closing`); requests the
  loop has left are found (`Rooted`).  The child a root project is at is found when its
  walk ends, with or without success, because its version stands for one release;
* `Assigning`, `Preparing`: the map still has the paths that were asked for, or it has all
  packages below them; what the loop has left has its version.

`FindTypes` also shows that a link never leaves the result, so `prepareIdDependencies`
never asks the server.  The corners the properties leave out are needed: with
`LibraryAbove` a requested library gives way to a package below it, with `AskedTwice`
the order of an unordered map decides.  The proof of `AssignedDirect` showed that its
first two parts do not need one version of each path; they are stated without it now.

Every invariant a passing run checks is stated by a theorem, some of them under the
hypotheses named above.  Only model-checked: everything about liveness (`RunsEnd`), the
contents of package directories with more than one process, and what the hypotheses leave
out.  Liveness under fairness and what a recursive definition computes (the closure
`BuildDeps`) are out of the prover's reach.

## Not modelled

* The text of generated files (printers/cmake.cpp apart from the parts named above, and
  the emitters): its content is wording; when it is printed and what it does when it
  runs is modelled.  The access table, which only spares writes.
* The parsers of Bazel files and of comments, the importers of autotools projects and
  `init`: text in, text out, once, by hand of an author.
* Self-upgrade of the client, program data, generation of the stamp of a build: sequences
  of file operations of one process.
* Vendored code, and support code but for `findRootDirectory`.
* Inside the modelled components: executables in the CMake scripts, variables passed to
  children, reports of usage to the server, `unpack_directory` and the local override
  of packages, the clock of "young" packages and SQL wildcards in paths, check
  prefixes and manual setup of checks, proxies and log levels, formats of command lines.

## Plan

1. *Generation*, continued: the access table and `rebuild_configs`, explicit clean
   commands, flags of local packages, `read_packages_from_file` with its settings.
2. *Client*: self-upgrade with its two copies of the program, the order of the default
   run.
3. An abstract package cache (absent, fetching, present, with what a reader may rely
   on) that PackageDownload implements under a refinement mapping.

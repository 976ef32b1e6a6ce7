------------------------------ MODULE Projects ------------------------------
(***************************************************************************)
(* What a cppan.yml says about packages: project.cpp, config.cpp, the      *)
(* preparation in yaml.cpp and the reading of local packages in            *)
(* package_store.cpp.                                                      *)
(*                                                                         *)
(* A yaml map is a function from the keys that are written in it; several  *)
(* ways to write the same thing are one value here: a dependency is always *)
(* a map (of which a version alone is the smallest), a set of files always *)
(* a set of groups.  A path is a sequence of names, a directory tree a     *)
(* function from the paths of its files to their contents.                 *)
(***************************************************************************)
EXTENDS Sources

CONSTANTS
    Elements,      \* the path of each name that is written: split at the dots
    SourceNames,   \* file names with the extension of a source file
    HeaderNames    \* file names with the extension of a header

CppanFile == "cppan.yml"
Written(node, keys, default) ==
    IF Present(keys, node) = {} THEN default ELSE node[FirstPresent(keys, node)]

(***************************************************************************)
(* Names                                                                   *)
(***************************************************************************)
Namespaces == {"pvt", "org", "com", "loc"}
IsAbsolute(p) == Len(p) > 1 /\ p[1] \in Namespaces
IsLocal(p) == p # <<>> /\ p[1] = "loc"

(* ctx, what a load is done for:                                           *)
(*   root_project, subdir   names, or empty                                *)
(*   relative, local_deps   what a client that builds allows               *)
(*   is_local               not a package in the storage                   *)
(*   defaults, tree, known  known: local packages of other directories     *)
Unnamed(name, ctx) ==
    name # "" /\ ~IsAbsolute(Elements[name]) /\ ~ctx.relative /\ ctx.root_project = ""
Within(subdir) == IF subdir = "" THEN <<>> ELSE <<subdir>>
AbsoluteName(name, ctx) ==
    LET p == Elements[name]
        relative == name # "" /\ ~IsAbsolute(p)
    IN  CASE name = ""                        -> Elements[ctx.subdir]
          [] name # "" /\ IsAbsolute(p)       -> p
          [] relative /\ ctx.relative         -> Elements[ctx.subdir] \o p
          [] relative /\ ~ctx.relative        -> Elements[ctx.root_project] \o Within(ctx.subdir) \o p

(***************************************************************************)
(* Dependencies: a function from their paths.                              *)
(***************************************************************************)
LocalVersion == "local"
IsKnown(d, ctx) ==
    /\ "local" \in DOMAIN d /\ ctx.local_deps
    /\ \E v \in {"*", Key(d, "version", "*")} : <<Elements[d.local], <<v>> >> \in ctx.known
Dependency(path, d, ctx) ==
    [path       |-> IF IsKnown(d, ctx) THEN Elements[d.local] ELSE path,
     version    |-> IF IsKnown(d, ctx) THEN LocalVersion ELSE Key(d, "version", "*"),
     reference  |-> Written(d, <<"reference", "ref">>, ""),
     conditions |-> Key(d, "condition", {}) \cup Key(d, "conditions", {}),
     idirs_only |-> Key(d, "include_directories_only", FALSE),
     private    |-> FALSE]
ReadSingle(d, ctx) ==
    Dependency(AbsoluteName(Written(d, <<"package", "name">>, ""), ctx), d, ctx)

ByPath(things) == [path \in {x.path : x \in things} |-> CHOOSE x \in things : x.path = path]

(* A sequence of dependencies, of which later ones win, or a map.          *)
ReadList(list, ctx) ==
    LET read == [i \in DOMAIN list |-> ReadSingle(list[i], ctx)]
        of(path) == {i \in DOMAIN list : read[i].path = path}
    IN  [path \in {read[i].path : i \in DOMAIN list} |->
            read[CHOOSE i \in of(path) : \A j \in of(path) : j <= i]]
ReadNames(names, ctx) ==
    ByPath({Dependency(AbsoluteName(n, ctx), names[n], ctx) : n \in DOMAIN names})
ReadGroup(group, ctx) ==
    IF group.kind = "list" THEN ReadList(group.of, ctx) ELSE ReadNames(group.of, ctx)
ReadGroups(groups, ctx) ==
    LET read(g) == IF g \in DOMAIN groups THEN ReadGroup(groups[g], ctx) ELSE <<>>
        as_private(deps) == [p \in DOMAIN deps |-> [deps[p] EXCEPT !.private = TRUE]]
    IN  Over(read("public"), as_private(read("private")))

(* node.kind: list, map, or groups for a map with private or public.       *)
AddDependencies(deps, node, ctx) ==
    CASE node.kind = "list" -> Over(ReadList(node.of, ctx), deps)
      [] node.kind = "map"  -> Over(deps, ReadNames(node.of, ctx))
      [] OTHER              -> Over(deps, ReadGroups(node.of, ctx))
NoDependencies == [kind |-> "list", of |-> <<>>]
Dependencies(y, ctx) ==
    AddDependencies(AddDependencies(<<>>, Key(y, "dependencies", NoDependencies), ctx),
                    Key(y, "deps", NoDependencies), ctx)

NamesOfGroup(g) ==
    IF g.kind = "list" THEN {Written(g.of[i], <<"package", "name">>, "") : i \in DOMAIN g.of}
    ELSE DOMAIN g.of
NamesIn(node) ==
    IF node.kind = "groups" THEN UNION {NamesOfGroup(node.of[g]) : g \in DOMAIN node.of}
    ELSE NamesOfGroup(node)

Saved(d) ==
    NotEmpty([version |-> d.version, reference |-> d.reference, conditions |-> d.conditions,
              include_directories_only |-> TRUE],
             [version |-> FALSE, reference |-> d.reference = "", conditions |-> d.conditions = {},
              include_directories_only |-> ~d.idirs_only])
NameOf(path) == CHOOSE n \in DOMAIN Elements : Elements[n] = path
InBoth(deps, private) == DOMAIN deps                                        \* mutant
InGroup(deps, private) == {p \in DOMAIN deps : deps[p].private = private}
SaveGroup(deps, private) ==
    LET of == InGroup(deps, private)
    IN  [kind |-> "map", of |-> [n \in {NameOf(p) : p \in of} |-> Saved(deps[Elements[n]])]]
SaveDependencies(deps) ==
    [kind |-> "groups", of |-> [g \in {"private", "public"} |-> SaveGroup(deps, g = "private")]]

(***************************************************************************)
(* What is read from a project's map, before anything is guessed.          *)
(***************************************************************************)
PlainKeys ==
    [license |-> <<"license">>, output_name |-> <<"output_name">>, type |-> <<"type">>,
     rc_enabled |-> <<"rc_enabled">>, prefer_binaries |-> <<"prefer_binaries">>,
     empty |-> <<"empty">>, standard |-> <<"cxx_standard", "c++">>,
     root_directory |-> <<"root_directory", "root_dir">>, header_only |-> <<"header_only">>]
PlainDefaults ==
    [license |-> "", output_name |-> "", type |-> "executable", rc_enabled |-> TRUE,
     prefer_binaries |-> FALSE, empty |-> FALSE, standard |-> "", root_directory |-> <<>>,
     header_only |-> "unknown"]
Insertions == {"pre_sources", "post_target"}
Levels == {"any", "static", "shared"}
Visibilities == {"public", "private", "interface"}

\* an option: level, kind of option, condition or empty, visibility, value
ReadOptions(y) == {o \in Key(y, "options", {}) : o.visibility \in Visibilities}
ReadSources(y, key) ==
    UNION {{[e EXCEPT !.at = g.root \o @] : e \in g.files} : g \in Key(y, key, {})}
ReadPatch(y) ==
    LET patch == Key(y, "patch", <<>>)
    IN  [replace |-> Key(patch, "replace", {}), regex_replace |-> Key(patch, "regex_replace", {}),
         files |-> {[f EXCEPT !.text = IF @ = <<>> THEN @ ELSE Front(@)] : f \in Key(patch, "files", {})}]
ReadLibrary(y) ==
    CASE Key(y, "library_type", "") \in {"shared", "dll"} -> "shared"
      [] Key(y, "library_type", "") = "module"            -> "module"
      [] OTHER                                            -> "static"
ReadOnly(y) ==
    Key(y, "only", {})
    \cup CASE Key(y, "library_type", "") = "static" -> {"static"}
           [] ReadLibrary(y) # "static"             -> {"shared"}
           [] OTHER                                 -> {}

SourceOfProject(y) == IF "source" \in DOMAIN y THEN LoadSource(y.source) ELSE NoSource
ReadProject(y, ctx) ==
    [plain   |-> [k \in DOMAIN PlainKeys |-> Written(y, PlainKeys[k], PlainDefaults[k])],
     source  |-> SourceOfProject(y),
     version |-> IF "source" \in DOMAIN y THEN LoadVersion(SourceOfProject(y), Key(y, "version", <<>>))
                 ELSE Key(y, "version", <<>>),
     name    |-> Key(y, "name", ""),
     library |-> ReadLibrary(y), only |-> ReadOnly(y),
     include |-> [v \in Visibilities |-> Key(Key(y, "include_directories", <<>>), v, {})],
     sources |-> ReadSources(y, "files"),
     exclude |-> ReadSources(y, "exclude_from_package"),
     options |-> ReadOptions(y), patch |-> ReadPatch(y),
     insertions |-> [k \in Insertions |-> Key(y, k, <<>>)],
     deps    |-> Dependencies(y, ctx)]

AllNames(y) == UNION {NamesIn(Key(y, k, NoDependencies)) : k \in {"dependencies", "deps"}}
LocalNodes(node) ==
    LET nodes(g) == {g.of[i] : i \in DOMAIN g.of}
    IN  IF node.kind = "groups" THEN UNION {nodes(node.of[g]) : g \in DOMAIN node.of} ELSE nodes(node)
ProjectThrows(y, ctx) ==
    \/ SourceOfProject(y) = Throws
    \/ Key(y, "only", {}) = {"static", "shared"}
    \/ \E o \in Key(y, "options", {}) : o.level \notin Levels
    \/ \E n \in AllNames(y) : Unnamed(n, ctx) \/ IsLocal(AbsoluteName(n, ctx))
    \/ \E k \in {"dependencies", "deps"} : \E d \in LocalNodes(Key(y, k, NoDependencies)) :
          "local" \in DOMAIN d /\ ctx.local_deps /\ "version" \notin DOMAIN d

(* What is written back: only what was read.  Of rules for one text one is *)
(* left, and the patches of files are written over the ordinary rules: both *)
(* are the value of "replace" (project.cpp:358-368).                       *)
OneEach(rules) == {CHOOSE r \in rules : r.from = from : from \in {r.from : r \in rules}}
SavePatch(patch) ==
    [replace |-> IF patch.files = {} THEN OneEach(patch.replace) ELSE {},
     regex_replace |-> OneEach(patch.regex_replace), files |-> OneEach(patch.files)]
SavePlain(plain) ==
    [key \in {PlainKeys[k][1] : k \in {j \in DOMAIN PlainKeys : plain[j] # PlainDefaults[j]}}
        |-> plain[CHOOSE k \in DOMAIN PlainKeys : PlainKeys[k][1] = key]]
SaveInclude(include) == NotEmpty(include, [v \in Visibilities |-> include[v] = {}])
Group(entries) == {[root |-> <<>>, files |-> entries]}
Rest(p) ==
    [source |-> SaveSource(p.source), version |-> p.version, name |-> p.name,
     library_type |-> p.library, only |-> p.only, files |-> Group(p.sources),
     exclude_from_package |-> Group(p.exclude), include_directories |-> SaveInclude(p.include),
     options |-> p.options, patch |-> SavePatch(p.patch), dependencies |-> SaveDependencies(p.deps)]
NotWritten(p) ==
    [source |-> ~IsValidUrl(p.source), version |-> p.version = <<>>, name |-> p.name = "",
     library_type |-> p.library = "static", only |-> p.only = {}, files |-> p.sources = {},
     exclude_from_package |-> p.exclude = {}, include_directories |-> SaveInclude(p.include) = <<>>,
     options |-> p.options = {}, patch |-> FALSE, dependencies |-> p.deps = <<>>]
SaveRest(p) == NotEmpty(Rest(p), NotWritten(p))
SaveInsertions(insertions) == NotEmpty(insertions, [k \in Insertions |-> insertions[k] = <<>>])
SaveProject(p) == Over(SavePlain(p.plain), Over(SaveInsertions(p.insertions), SaveRest(p)))

(***************************************************************************)
(* Files, and what is guessed from them.                                   *)
(***************************************************************************)
IsBelow(f, p) == Len(f) > Len(p) /\ SubSeq(f, 1, Len(p)) = p
IsFile(tree, p) == p \in DOMAIN tree
IsDirectory(tree, p) == \E f \in DOMAIN tree : IsBelow(f, p)
Exists(tree, p) == IsFile(tree, p) \/ IsDirectory(tree, p)
Entries(tree, p) == {f[Len(p) + 1] : f \in {g \in DOMAIN tree : IsBelow(g, p)}} \ {CppanFile}
OnlyDirectory(tree, p) ==
    LET entries == Entries(tree, p)
    IN  \E d \in entries : entries = {d} /\ ~IsFile(tree, p \o <<d>>)

(* Enters a directory as long as nothing else is there.                    *)
FindRootDirectory(tree) ==
    CHOOSE r \in UNION {{SubSeq(f, 1, n) : n \in 0..Len(f)} : f \in (DOMAIN tree) \cup {<<>>}} :
        /\ \A n \in 0..(Len(r) - 1) : OnlyDirectory(tree, SubSeq(r, 1, n))
        /\ ~OnlyDirectory(tree, r)
AnyRoot(tree, is_local) == FindRootDirectory(tree)                          \* mutant
LocalRoot(tree, is_local) == IF is_local THEN FindRootDirectory(tree) ELSE <<>>
RootDirectory(p, ctx) ==
    LET root == LocalRoot(ctx.tree, ctx.is_local)
        given == p.plain.root_directory
    IN  IF Exists(ctx.tree, root \o given) THEN root \o given ELSE root

SourceDirectories == <<"src", "source", "sources", "lib", "library">>
IncludeDirectories == <<"include", "includes">>
There(tree, root, name) == Exists(tree, root \o <<name>>)
\* the path of the first that is there, if any is
FirstThere(tree, root, names) ==
    {<<names[i]>> : i \in {j \in DOMAIN names : /\ There(tree, root, names[j])
                                              /\ \A k \in 1..(j - 1) : ~There(tree, root, names[k])}}

DefaultInclude(tree, root) ==
    LET include == FirstThere(tree, root, IncludeDirectories)
        source == FirstThere(tree, root, SourceDirectories)
    IN  [public |-> (IF include = {} THEN {<<".">>} \cup source ELSE include),
         private |-> IF include = {} THEN {} ELSE source,
         interface |-> {}]
Include(p, root, ctx) ==
    LET written == p.include
        base == IF ctx.defaults /\ \A v \in Visibilities : written[v] = {}
                THEN DefaultInclude(ctx.tree, root) ELSE written
    IN  [base EXCEPT !.public = @ \cup {<<"${BDIR}">>}, !.private = @ \cup {<<"${BDIR_PRIVATE}">>}]

Entry(at, kind) == [at |-> at, kind |-> kind]
DefaultSources(tree, root) ==
    LET found == {<<d>> : d \in {n \in ToSet(SourceDirectories) : There(tree, root, n)}}
                 \cup FirstThere(tree, root, IncludeDirectories)
    IN  IF found = {} THEN {Entry(<<>>, "type")} ELSE {Entry(d, "below") : d \in found}
FilesOf(p, root, ctx) ==
    IF ctx.defaults /\ p.sources = {} THEN DefaultSources(ctx.tree, root) ELSE p.sources

(* A name of a file, everything below a directory, or the files of C and   *)
(* C++ in a directory.                                                     *)
Matches(e, f) ==
    CASE e.kind = "file"  -> f = e.at
      [] e.kind = "below" -> IsBelow(f, e.at)
      [] e.kind = "type"  -> Len(f) = Len(e.at) + 1 /\ IsBelow(f, e.at)
                             /\ Last(f) \in SourceNames \cup HeaderNames
Matched(entries, files) == {f \in files : \E e \in entries : Matches(e, f)}
Licenses == <<"LICENSE", "COPYING", "Copying.txt", "LICENSE.txt", "license.txt", "LICENSE.md">>

(* The files of a package, by their paths below its root directory.        *)
FilesBelow(tree, root) == {SubSeq(f, Len(root) + 1, Len(f)) : f \in {g \in DOMAIN tree : IsBelow(g, root)}}
FoundSources(p, root, tree, ctx) ==
    Matched(FilesOf(p, root, ctx), FilesBelow(tree, root)) \ Matched(p.exclude, FilesBelow(tree, root))
FoundLicense(p, root, tree) ==
    FirstThere(tree, root, IF p.plain.license = "" THEN Licenses ELSE <<p.plain.license>>)
FindFails(p, root, tree, ctx) ==
    \/ FoundSources(p, root, tree, ctx) = {} /\ ~p.plain.empty
    \/ p.plain.license # "" /\ ~Exists(tree, root \o <<p.plain.license>>)
FindUnspecified(p, root, tree, ctx) ==                                      \* mutant
    FoundSources(p, root, tree, ctx) \cup FoundLicense(p, root, tree)
FindSources(p, root, tree, ctx) ==
    FoundSources(p, root, tree, ctx) \cup FoundLicense(p, root, tree) \cup {<<CppanFile>>}
IsHeaderOnly(p, files) ==
    IF p.plain.header_only = "unknown" THEN \A f \in files : Last(f) \notin SourceNames
    ELSE p.plain.header_only = "yes"
TypeOf(p, files) == IF IsHeaderOnly(p, files) THEN "library" ELSE p.plain.type

(* What the archive holds; the specification is copied to the root.        *)
Packed(tree, root, files, specification) ==
    [f \in files |-> IF f = <<CppanFile>> THEN specification ELSE tree[root \o f]]

(***************************************************************************)
(* Configs: a function from the paths of projects.                         *)
(***************************************************************************)
MergeInsertions(dst, src) ==
    Over([k \in (DOMAIN src \cap Insertions) |-> src[k] \o Key(dst, k, <<>>)], dst)
RemoveInsertions(src) == [k \in DOMAIN src \ Insertions |-> src[k]]
Without(y, keys) == [k \in DOMAIN y \ keys |-> y[k]]

(* Common settings, source, version and insertions go to the projects.     *)
(* What both write is merged in depth by the yaml library (yaml.cpp:47),   *)
(* which is not modelled: SpecificationsAssumption leaves it out.          *)
Prepare(y) ==
    LET common == Key(y, "common_settings", <<>>)
        root == Without(y, {"common_settings"})
        share(p, from) == Over(MergeInsertions(p, from), RemoveInsertions(from))
        inherited == [k \in {"source", "version"} \cap DOMAIN root |-> root[k]]
    IN  IF "projects" \notin DOMAIN y THEN share(root, common)
        ELSE [RemoveInsertions(root) EXCEPT !.projects =
                [n \in DOMAIN @ |-> Over(MergeInsertions(share(@[n], common), root), inherited)]]

ProjectMaps(y) == IF "projects" \in DOMAIN y THEN y.projects ELSE [k \in {""} |-> y]
ContextOf(y, ctx) == [ctx EXCEPT !.root_project = Key(y, "root_project", "")]
FullName(p, key, ctx) ==
    LET name == Elements[IF p.name = "" THEN key ELSE p.name]
    IN  IF ctx.subdir = "" THEN name
        ELSE Elements[ctx.subdir] \o (IF name = <<>> THEN <<"">> ELSE name)    \* "dir."
Located(read, key, ctx) ==
    LET root == RootDirectory(read, ctx)
    IN  [read |-> read, path |-> AbsoluteName(key, ctx), name |-> FullName(read, key, ctx),
         root |-> root, include |-> Include(read, root, ctx)]
LoadProject(y, key, ctx) == Located(ReadProject(y, ctx), key, ctx)
LoadProjects(y, ctx) ==
    LET maps == ProjectMaps(Prepare(y))
    IN  ByPath({LoadProject(maps[k], k, ContextOf(y, ctx)) : k \in DOMAIN maps})
LoadThrows(y, ctx) ==
    LET maps == ProjectMaps(Prepare(y))
    IN  \E k \in DOMAIN maps : ProjectThrows(maps[k], ContextOf(y, ctx)) \/ Unnamed(k, ContextOf(y, ctx))

(* Directories with a specification of their own; their projects are       *)
(* loaded first, if the directory is there.  dirs: the specifications by   *)
(* directory.  Left out are directories without a specification, each of   *)
(* which adds an unnamed project of defaults (config.cpp:76), and those    *)
(* that add directories themselves.                                        *)
Directories(y) == Key(y, "add_directories", <<>>)
KnownVersion(version) == IF version = <<>> THEN <<"*">> ELSE version
AddProjects(acc, sub, all) ==
    [all      |-> IF all THEN Over(acc.all, sub) ELSE acc.all,
     specific |-> IF all THEN acc.specific ELSE Over(acc.specific, sub),
     known    |-> acc.known \cup {<<p, KnownVersion(sub[p].read.version)>> : p \in DOMAIN sub}]
AddDirectory(acc, v, dirs, ctx) ==
    IF v.dir \notin DOMAIN dirs THEN acc
    ELSE AddProjects(acc, LoadProjects(dirs[v.dir], [ctx EXCEPT !.subdir = v.name, !.known = acc.known]),
                     v.all)
NothingAdded == [all |-> <<>>, specific |-> <<>>, known |-> {}]
AddDirectories(vs, dirs, ctx) ==
    LET after[n \in Nat] == IF n = 0 THEN NothingAdded ELSE AddDirectory(after[n - 1], vs[n], dirs, ctx)
    IN  after[Len(vs)]
AddReferenced(projects, specific) ==
    LET needed == UNION {DOMAIN projects[p].read.deps : p \in DOMAIN projects}
    IN  Over(projects, [n \in needed \cap DOMAIN specific |-> specific[n]])
OneRound(projects, specific) == AddReferenced(projects, specific)               \* mutant
AllRounds(projects, specific) ==
    LET after[n \in Nat] == IF n = 0 THEN projects ELSE AddReferenced(after[n - 1], specific)
    IN  after[Cardinality(DOMAIN specific)]
WithOwn(y, ctx, added) == Over(added.all, LoadProjects(y, [ctx EXCEPT !.known = added.known]))
LoadConfig(y, dirs, ctx) ==
    LET load(added) == AllRounds(WithOwn(y, ctx, added), added.specific)
    IN  load(AddDirectories(Directories(y), dirs, ctx))
ConfigThrows(y, dirs, ctx) ==
    \/ LoadThrows(y, ctx)
    \/ \E v \in {w \in ToSet(Directories(y)) : w.dir \in DOMAIN dirs} :
          LoadThrows(dirs[v.dir], [ctx EXCEPT !.subdir = v.name])

SaveConfig(projects) ==
    LET key(p) == IF p # <<>> THEN NameOf(p)
                  ELSE IF projects[p].read.name # "" THEN projects[p].read.name ELSE "name0"
    IN  [projects |-> [k \in {key(p) : p \in DOMAIN projects} |->
                          SaveProject(projects[CHOOSE p \in DOMAIN projects : key(p) = k].read)]]

(***************************************************************************)
(* Local packages: each project is one, below a name made of the file that *)
(* was read; dependencies on a relative name are on one of them.           *)
(***************************************************************************)
PackageName(here, p) == here \o p.name
LocalDependency(here, d) == [d EXCEPT !.path = here \o @, !.version = LocalVersion]
LocalDependencies(here, p) ==
    LET deps == p.read.deps
        relative == {q \in DOMAIN deps : ~IsAbsolute(q)}
    IN  Over([q \in (DOMAIN deps \ relative) |-> deps[q]],
             [q \in {here \o r : r \in relative} |->
                LocalDependency(here, deps[CHOOSE r \in relative : here \o r = q])])
LocalPackages(here, projects) ==
    [name \in {PackageName(here, projects[p]) : p \in DOMAIN projects} |->
        LocalDependencies(here, projects[CHOOSE p \in DOMAIN projects :
                                            PackageName(here, projects[p]) = name])]
=============================================================================

----------------------------- MODULE Publishing -----------------------------
(***************************************************************************)
(* From a cppan.yml to a package of the server and back: the commands of   *)
(* an author (client/main.cpp, api.cpp), the check of a package against    *)
(* its source (verifier.cpp), and what a client loads from an installed    *)
(* package.                                                                *)
(*                                                                         *)
(* The server is external: it keeps the specification it was sent, and     *)
(* makes the archive from a fresh checkout of the source the way           *)
(* prepare-archive does.  The source is a repository whose branch moves    *)
(* on; downloads of it fail at any command.                                *)
(***************************************************************************)
EXTENDS Projects

CONSTANTS
    Specifications,   \* what the author writes
    SubDirectories,   \* the specifications in directories next to it
    Revisions,        \* the files of the branch, one tree after the other
    TagContents,      \* the files of a tag or commit, for the texts that exist
    Calls,            \* the command lines of the api that are tried
    Remotes,          \* the users of the known servers, by name
    Branches,         \* the versions that are branches
    MaxFailures       \* how many commands of a download fail

ASSUME PublishingAssumption ==
    /\ Revisions \in Seq(ToSet(Revisions)) /\ Revisions # <<>>
    /\ MaxFailures \in Nat

(* Dependencies are written in one of three ways.                          *)
IsList(node) == node.kind = "list" => node.of \in Seq(ToSet(node.of))
IsWritten(node) ==
    /\ node.kind \in {"list", "map", "groups"} /\ IsList(node)
    /\ node.kind = "groups" => \A g \in DOMAIN node.of : IsList(node.of[g])
WellFormed(y) ==
    \A m \in Range(ProjectMaps(Prepare(y))) : \A k \in {"dependencies", "deps"} :
        IsWritten(Key(m, k, NoDependencies))

\* no key, but for insertions, is written both in common settings and where they go
SettingsApart(y) ==
    LET common == DOMAIN Key(y, "common_settings", <<>>) \ Insertions
    IN  /\ common \cap DOMAIN y = {}
        /\ "projects" \in DOMAIN y => \A n \in DOMAIN y.projects : common \cap DOMAIN y.projects[n] = {}

ASSUME SpecificationsAssumption ==
    /\ \A y \in Specifications \cup Range(SubDirectories) : SettingsApart(y)
    /\ \A y \in Range(SubDirectories) : Directories(y) = <<>>
    /\ \A y \in Specifications : Directories(y) \in Seq(ToSet(Directories(y)))
    /\ \A y \in Specifications \cup Range(SubDirectories) : WellFormed(y)
    /\ \A y \in Range(SubDirectories) : IsFiniteSet(DOMAIN ProjectMaps(Prepare(y)))

VARIABLES
    written,    \* the specification as it was last written by hand
    spec,       \* and as it is now
    tip,        \* the number of the revision the branch is at
    server,     \* the packages of the server, by path and version
    v,          \* a verification
    seen        \* what the last step showed: a verdict, an installed package, a build
vars == <<written, spec, tip, server, v, seen>>

(* The ways configs are loaded: for the server and to verify, to rewrite a *)
(* specification, from the storage, and to build in place.                 *)
Context(tree) ==
    [root_project |-> "", subdir |-> "", relative |-> FALSE, local_deps |-> FALSE,
     is_local |-> TRUE, defaults |-> TRUE, tree |-> tree, known |-> {}]
Stored(tree) == [Context(tree) EXCEPT !.is_local = FALSE]
InPlace(tree) == [Context(tree) EXCEPT !.relative = TRUE, !.local_deps = TRUE]
Strict(y) == LoadProjects(y, Context(Revisions[1]))

(***************************************************************************)
(* Sources and the trees that downloads make.                              *)
(***************************************************************************)
Asked(s) == LET given == {f \in {"tag", "commit", "revision"} : Given(s, f)}
            IN  IF given = {} THEN <<>> ELSE s.fields[CHOOSE f \in given : TRUE]
IsThere(s) == Asked(s) \in (DOMAIN TagContents) \cup {<<>>}
ContentOf(s, rev) == IF Asked(s) = <<>> THEN Revisions[rev] ELSE TagContents[Asked(s)]

In(dir, tree) == [f \in {<<dir>> \o g : g \in DOMAIN tree} |-> tree[Tail(f)]]
\* files of a version control system, in the directory it made
Hidden(s) == <<"repo", "." \o s.kind, "HEAD">> :> "head"
TreeOf(disk, s, rev) ==
    LET content == IF "want" \in disk THEN ContentOf(s, rev)
                   ELSE IF "head" \in disk THEN Revisions[rev] ELSE <<>>
    IN  CASE s.kind = "files"  -> content
          [] s.kind = "remote" -> In("archive", content)
          [] OTHER -> In("repo", content) @@ (IF "dir" \in disk THEN Hidden(s) ELSE <<>>)
                      @@ (IF "zip" \in disk THEN <<"1.zip">> :> "zip" ELSE <<>>)
                      @@ (IF "part" \in disk THEN <<"archive", "part">> :> "part" ELSE <<>>)
\* the archive of github went well
GithubTree(s, rev) == In("archive", ContentOf(s, rev))

Gives(commands) == (UNION {commands[i].gives : i \in DOMAIN commands})
                   \ (UNION {commands[i].drops : i \in DOMAIN commands})
Checkout(s, rev) == TreeOf(Gives(Commands(s)), s, rev)

(* The project of a specification over a tree, and its archive.            *)
DefaultProject(projects) == projects[CHOOSE p \in DOMAIN projects : TRUE]
ProjectOf(y, tree) == DefaultProject(LoadProjects(y, Context(tree)))
Lacks(p, tree) == FindFails(p.read, p.root, tree, Context(tree))
CannotPack(y, tree) == LoadThrows(y, Context(tree)) \/ Lacks(ProjectOf(y, tree), tree)
Archived(y, p, tree) == Packed(tree, p.root, FindSources(p.read, p.root, tree, Context(tree)), y)
Pack(y, tree) == Archived(y, ProjectOf(y, tree), tree)

VersionIn(y) == ProjectOf(y, Revisions[1]).read.version

(***************************************************************************)
(* The author.                                                             *)
(***************************************************************************)
Nothing == [kind |-> "nothing"]
Idle == [stage |-> "idle", files |-> <<>>, spec |-> <<>>, source |-> NoSource, github |-> FALSE,
         at |-> 1, try |-> 1, disk |-> {}, rev |-> 1, failures |-> 0]

Init ==
    /\ written \in Specifications /\ spec = written
    /\ tip = 1 /\ server = <<>> /\ v = Idle /\ seen = Nothing

(* A verification does not read what is in the directory: the steps there  *)
(* are taken when there is none.                                           *)
Edit ==
    /\ v = Idle
    /\ \E y \in Specifications \ {written} : written' = y /\ spec' = y
    /\ seen' = Nothing
    /\ UNCHANGED <<tip, server, v>>
Push ==
    /\ tip < Len(Revisions)
    /\ tip' = tip + 1
    /\ seen' = Nothing
    /\ UNCHANGED <<written, spec, server, v>>

(* --beautify-strict                                                       *)
BeautifyStrict ==
    /\ v = Idle
    /\ ~ConfigThrows(spec, SubDirectories, Context(Revisions[tip]))
    /\ spec' = SaveConfig(LoadConfig(spec, SubDirectories, Context(Revisions[tip])))
    /\ seen' = Nothing
    /\ UNCHANGED <<written, tip, server, v>>

(* --build of the directory                                                *)
Here == <<"loc", "0", "dir">>
BuildInPlace ==
    /\ v = Idle
    /\ ~ConfigThrows(spec, SubDirectories, InPlace(Revisions[tip]))
    /\ seen' = [kind |-> "built", packages |->
                  LocalPackages(Here, LoadConfig(spec, SubDirectories, InPlace(Revisions[tip])))]
    /\ UNCHANGED <<written, spec, tip, server, v>>

(***************************************************************************)
(* The api.  A call is a sequence of words, of which the first two are the *)
(* command.                                                                *)
(***************************************************************************)
DefaultRemote == "origin"
Usage == [kind |-> "usage"]
Refused == [kind |-> "refused"]
\* any relative name of one element is taken for a remote
TakesRemote(name) == Len(Elements[name]) = 1
Addressed(args) ==
    IF args # <<>> /\ TakesRemote(args[1])
    THEN [remote |-> args[1], args |-> Tail(args)]
    ELSE [remote |-> DefaultRemote, args |-> args]
Absolute(remote, name) ==
    LET p == Elements[name] user == Remotes[remote]
    IN  IF IsAbsolute(p) /\ Len(p) > 2 /\ p[2] = user THEN p ELSE <<"pvt", user>> \o p
OnlyBranches(version) == version \in Branches
Request(line) ==
    LET to == Addressed(SubSeq(line, 3, Len(line)))
        args == Tail(to.args)
    IN  IF to.args = <<>> \/ (line[2] = "version" /\ args = <<>>) THEN Usage
        ELSE IF \/ to.remote \notin DOMAIN Remotes
                \/ line[1] = "update" /\ ~OnlyBranches(<<args[1]>>) THEN Refused
        ELSE [kind |-> line[1] \o " " \o line[2],
              project |-> Absolute(to.remote, to.args[1]), args |-> args]

(* What the server does with it.  keeps, which no step reads, says whether *)
(* the archive still tells what was guessed from the tree: it has the same *)
(* of the directories that are looked for, and nothing in its root is      *)
(* called as the root directory was.                                       *)
KeepsLayout(y, p, tree) ==
    LET files == Archived(y, p, tree)
        given == p.read.plain.root_directory
    IN  /\ \E name \in DOMAIN ProjectMaps(Prepare(y)) : DOMAIN ProjectMaps(Prepare(y)) = {name}
        /\ given \in Seq(STRING) /\ (given = <<>> \/ ~Exists(files, given))
        /\ \A n \in ToSet(IncludeDirectories \o SourceDirectories) :
              Exists(files, <<n>>) <=> There(tree, p.root, n)
PackageOf(y, p, source, tree) ==
    [spec |-> y, source |-> source, files |-> Archived(y, p, tree), include |-> p.include,
     keeps |-> KeepsLayout(y, p, tree)]
With(f, x, y) == [z \in (DOMAIN f) \cup {x} |-> IF z = x THEN y ELSE f[z]]
CanMake(p, source) == IsValidSource(p.source) /\ Checked(source) /\ IsThere(source)
Make(y, key) ==
    /\ ~LoadThrows(y, Context(Revisions[1])) /\ Cardinality(DOMAIN Strict(y)) = 1
    /\ \E read \in {DefaultProject(Strict(y)).read} :
       \E source \in {ApplyVersion(read.source, key[2])} :
          /\ CanMake(read, source)
          /\ \E tree \in {Checkout(source, tip)} : \E p \in {ProjectOf(y, tree)} :
                /\ ~Lacks(p, tree)
                /\ server' = With(server, key, PackageOf(y, p, source, tree))
Serve(r) ==
    LET key(word) == <<r.project, <<word>> >>
        same == {k \in DOMAIN server : k[1] = r.project}
    IN  CASE r.kind = "add version" /\ r.args[1] = CppanFile ->
               <<r.project, VersionIn(spec)>> \notin same
               /\ Make(spec, <<r.project, VersionIn(spec)>>)
          [] r.kind = "add version" /\ r.args[1] # CppanFile ->
               key(r.args[1]) \notin same
               /\ \E old \in same : (Len(r.args) > 1 => old = key(r.args[2]))
                                    /\ Make(server[old].spec, key(r.args[1]))
          [] r.kind = "update version" ->
               key(r.args[1]) \in same /\ Make(server[key(r.args[1])].spec, key(r.args[1]))
          [] r.kind = "remove version" ->
               server' = [k \in (DOMAIN server) \ {key(r.args[1])} |-> server[k]]
          [] r.kind = "remove project" ->
               server' = [k \in (DOMAIN server) \ same |-> server[k]]
          [] OTHER -> FALSE
(* A call that is refused, or that the server cannot serve, changes        *)
(* nothing.  A verification that has its specification reads the server no *)
(* more: calls are made before that and after the verdict.                 *)
Call ==
    /\ v.stage \in {"idle", "specification"}
    /\ \E line \in Calls : Serve(Request(line))
    /\ seen' = Nothing
    /\ UNCHANGED <<written, spec, tip, v>>

(***************************************************************************)
(* --verify: the package of the server is downloaded, then its             *)
(* specification, then the source it names, which is prepared the way the  *)
(* package was, and the two are compared.  The server answers with the     *)
(* specification it was asked for: that it is one of another package       *)
(* (verifier.cpp:81) is left out.                                          *)
(***************************************************************************)
Verdict(verdict, original) ==
    /\ seen' = [kind |-> "verified", verdict |-> verdict, package |-> v.files, spec |-> v.spec,
                source |-> v.source, rev |-> v.rev, github |-> v.github, original |-> original]
    /\ v' = Idle
Fails == Verdict("failed", <<>>)

StartVerify ==
    /\ v.stage = "idle"
    /\ \E k \in DOMAIN server : v' = [Idle EXCEPT !.stage = "specification", !.spec = k,
                                                  !.files = server[k].files]
    /\ seen' = Nothing
    /\ UNCHANGED <<written, spec, tip, server>>
DownloadSpecification ==
    /\ v.stage = "specification"
    /\ IF v.spec \in DOMAIN server
       THEN LET source == server[v.spec].source
            IN  /\ v' = [v EXCEPT !.stage = "source", !.spec = server[v.spec].spec,
                                  !.source = source, !.github = FromGithub(source)]
                /\ seen' = Nothing
       ELSE Fails
    /\ UNCHANGED <<written, spec, tip, server>>

Steps == IF v.github THEN Archive ELSE Commands(v.source)
ReadsBranch(c) == c.gives \cap {"head", "zip"} # {} \/ (c.gives = {"want"} /\ v.disk \cap {"head", "zip"} = {})
RunCommand ==
    /\ v.stage = "source" /\ v.at <= Len(Steps)
    /\ LET c == Steps[v.at]
       IN  /\ c.absent \cap v.disk = {}
           /\ v' = [v EXCEPT !.at = @ + 1, !.disk = (@ \cup c.gives) \ c.drops,
                             !.rev = IF ReadsBranch(c) THEN tip ELSE @]
    /\ seen' = Nothing
    /\ UNCHANGED <<written, spec, tip, server>>

\* the last try throws; the archive of github is only tried once
Swallowed(try, tries) == IF try < tries THEN "source" ELSE "compare"        \* mutant
Retried(try, tries) == IF try < tries THEN "source" ELSE "failed"
CommandFails ==
    /\ v.stage = "source" /\ v.at <= Len(Steps)
    /\ LET c == Steps[v.at]
           cost == IF c.absent \cap v.disk = {} THEN 1 ELSE 0
           next == Retried(v.try, Tries(v.source))
       IN  /\ v.failures + cost <= MaxFailures
           /\ \E left \in SUBSET c.spills :
                IF v.github
                THEN /\ v' = [v EXCEPT !.github = FALSE, !.at = 1, !.disk = @ \cup left,
                                       !.failures = @ + cost]
                     /\ seen' = Nothing
                ELSE IF next = "failed" THEN Fails
                ELSE /\ v' = [v EXCEPT !.stage = next, !.at = 1, !.try = @ + 1,
                                       !.disk = @ \cup left, !.failures = @ + cost]
                     /\ seen' = Nothing
    /\ UNCHANGED <<written, spec, tip, server>>

Original == IF v.github THEN GithubTree(v.source, v.rev) ELSE TreeOf(v.disk, v.source, v.rev)
WithoutSpecification(files) == [f \in (DOMAIN files) \ {<<CppanFile>>} |-> files[f]]
Compare ==
    /\ v.stage = "compare" \/ (v.stage = "source" /\ v.at > Len(Steps))
    /\ IF CannotPack(v.spec, Original) THEN Fails
       ELSE LET original == Pack(v.spec, Original)
            IN  Verdict(IF WithoutSpecification(original) = WithoutSpecification(v.files)
                        THEN "same" ELSE "different", original)
    /\ UNCHANGED <<written, spec, tip, server>>

(***************************************************************************)
(* A client loads the specification of an installed package from its       *)
(* directory in the storage.                                               *)
(***************************************************************************)
Install ==
    /\ v = Idle
    /\ \E k \in DOMAIN server :
          LET p == server[k]
              projects == LoadProjects(p.spec, Stored(p.files))
          IN  seen' = [kind |-> "installed", package |-> p,
                       include |-> projects[CHOOSE q \in DOMAIN projects : TRUE].include]
    /\ UNCHANGED <<written, spec, tip, server, v>>

Next ==
    \/ Edit \/ Push \/ BeautifyStrict \/ BuildInPlace \/ Call
    \/ StartVerify \/ DownloadSpecification \/ RunCommand \/ CommandFails \/ Compare
    \/ Install
Spec == Init /\ [][Next]_vars
-----------------------------------------------------------------------------
(***************************************************************************)
(* Properties                                                              *)
(***************************************************************************)
(* Packages have the files of their specification, and a verification is   *)
(* at a command of its source (client/main.cpp, verifier.cpp).             *)
TypeOK ==
    /\ tip \in DOMAIN Revisions /\ written \in Specifications
    /\ \A k \in DOMAIN server :
          /\ Len(k) = 2
          /\ <<CppanFile>> \in DOMAIN server[k].files
    /\ v.stage \in {"idle", "specification", "source", "compare"}
    /\ v.try \in Nat /\ v.failures \in 0..MaxFailures
    /\ v.disk \subseteq {"zip", "part", "dir", "remote", "head", "want"}
    /\ seen.kind \in {"nothing", "built", "verified", "installed"}

(* A verification that comes to a verdict compared the package with what a *)
(* checkout without any failure gives, whatever failed before              *)
(* (source.cpp, downloadRepository; sources that are not from github).     *)
Clean(a) == Pack(a.spec, Checkout(a.source, a.rev))
VerifyRight ==
    seen.kind = "verified" /\ seen.verdict # "failed" /\ ~FromGithub(seen.source) =>
        /\ ~CannotPack(seen.spec, Checkout(seen.source, seen.rev))
        /\ seen.original = Clean(seen)
        /\ (seen.verdict = "same")
             <=> (WithoutSpecification(Clean(seen)) = WithoutSpecification(seen.package))

(* The archive of github is only a faster way to the same files: "try to   *)
(* speed up git downloads from github", source.cpp:210.                    *)
SpeedUpOnly ==
    seen.kind = "verified" /\ seen.verdict # "failed" => seen.original = Clean(seen)

(* A package that was installed has the include directories it had when it *)
(* was published, though its files are now below the directory that was    *)
(* the root then, if its archive keeps the directories they were guessed   *)
(* from (project.cpp, load).                                               *)
InstalledSame ==
    seen.kind = "installed" /\ seen.package.keeps => seen.include = seen.package.include

(* A specification that is rewritten keeps what it says if its projects    *)
(* have absolute names, two of them never the same, it adds no             *)
(* directories, and of each project nothing is lost that is not written,   *)
(* not read back, or written over: a source that is not valid or of        *)
(* several files, two kinds of library, the last character of a patch of a *)
(* file, ordinary rules next to such a patch, a second rule for a text.    *)
HasName(path) == \E n \in DOMAIN Elements : Elements[n] = path
PatchStays(patch) ==
    /\ \A f \in patch.files : f.text = <<>>
    /\ patch.files = {} \/ patch.replace = {}
    /\ \A rules \in {patch.replace, patch.regex_replace, patch.files} :
          \A a, b \in rules : a.from = b.from => a = b
StaysWritten(r) ==
    /\ r.source = NoSource \/ (IsValidUrl(r.source) /\ r.source.kind # "files")
    /\ r.only # {"static", "shared"}
    /\ \A e \in r.sources \cup r.exclude : e.at \in Seq(STRING)
    /\ PatchStays(r.patch)
    /\ \A q \in DOMAIN r.deps : IsAbsolute(q) /\ HasName(q) /\ r.deps[q].idirs_only \in BOOLEAN
Keys(y) == DOMAIN ProjectMaps(Prepare(y))
NameIn(y, key) == AbsoluteName(key, ContextOf(y, Context(Revisions[1])))
Read(y) == LET projects == Strict(y) IN [p \in DOMAIN projects |-> projects[p].read]
Rewritable(y) ==
    /\ Directories(y) = <<>>
    /\ \A k, l \in Keys(y) : NameIn(y, k) = NameIn(y, l) => k = l
    /\ \A p \in DOMAIN Read(y) : IsAbsolute(p) /\ HasName(p) /\ StaysWritten(Read(y)[p])

(* However often a specification is rewritten, the projects that are read  *)
(* from it stay the same (project.cpp, load and save); those that have     *)
(* names of their own and lose nothing as above.                           *)
ReadsSame == ~LoadThrows(spec, Context(Revisions[1])) /\ Read(spec) = Read(written)
StrictSame ==
    "projects" \in DOMAIN written /\ spec # written
    /\ ~LoadThrows(written, Context(Revisions[1]))
        => ReadsSame \/ ~Rewritable(written)

(* "convert to strict cppan config" (client/options.cpp:59) gives a        *)
(* specification that says the same.                                       *)
StrictConverts == ~LoadThrows(written, Context(Revisions[1])) => ReadsSame

(* A local package that is needed by another is there as well              *)
(* (config.cpp, load; package_store.cpp, read_packages_from_file).         *)
DepsKnown ==
    seen.kind = "built" => \A p \in DOMAIN seen.packages : \A d \in DOMAIN seen.packages[p] :
        IsLocal(d) => d \in DOMAIN seen.packages

(* What an author has to see to for the last one.                          *)
(* What is needed by a relative name is one of the projects that are       *)
(* written here or in one of the directories, nothing is named as a local  *)
(* package by hand, and strict names are absolute.                         *)
Offered(y, ctx) ==
    LET offered(added) == Over(WithOwn(y, ctx, added), added.specific)
    IN  offered(AddDirectories(Directories(y), SubDirectories, ctx))
NeedsMet(offered) ==
    \A p \in DOMAIN offered :
        /\ ~IsLocal(p)
        /\ \A q \in DOMAIN offered[p].read.deps :
              ~IsAbsolute(q) => q \in DOMAIN offered /\ offered[q].name = q
StrictNames(projects) ==
    \A p \in DOMAIN projects : \A q \in DOMAIN projects[p].read.deps : IsAbsolute(q) /\ HasName(q)
NeedsAreThere ==
    \A y \in Specifications : \A tree \in ToSet(Revisions) :
        /\ ~ConfigThrows(y, SubDirectories, InPlace(tree)) => NeedsMet(Offered(y, InPlace(tree)))
        /\ ~ConfigThrows(y, SubDirectories, Context(tree))
              => StrictNames(LoadConfig(y, SubDirectories, Context(tree)))
=============================================================================

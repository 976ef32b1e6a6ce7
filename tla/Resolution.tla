------------------------------ MODULE Resolution ------------------------------
(***************************************************************************)
(* Resolution of dependencies from the local packages database:            *)
(*                                                                         *)
(*   find     PackagesDatabase::findDependencies walks the tables depth    *)
(*            first (database.cpp);                                        *)
(*   mark     Resolver::resolve_dependencies records what each request     *)
(*            became;                                                      *)
(*   assign   Resolver::assign_dependencies replaces the requests by the   *)
(*            packages found for them;                                     *)
(*   prepare  Resolver::prepare_config does so for the dependencies a      *)
(*            downloaded package names in its own cppan.yml.               *)
(*                                                                         *)
(* Downloading comes between find and mark (PackageDownload).  A root      *)
(* project is an umbrella: to depend on it is to depend on its children.   *)
(***************************************************************************)
EXTENDS Versions, FiniteSets, SequencesExt

CONSTANTS
    Paths,      \* the project paths, in the order of "order by path"
    Dbs,        \* contents of the packages database, a function to records of
                \*   kind      path -> "root" | "library"
                \*   releases  path -> set of versions
                \*   spec      path -> (path -> version), the dependencies in
                \*             the cppan.yml of every release of the path
                \*   young     packages published a moment ago
    Requests    \* what the user asks for: functions path -> version

Path == Range(Paths)

ASSUME ResolutionAssumption ==
    /\ Paths \in Seq(Path) /\ <<>> \notin Path
    /\ \A r \in Requests : /\ DOMAIN r # {} /\ DOMAIN r \subseteq Path
                           /\ \A p \in DOMAIN r : r[p] \in Version /\ isValid(r[p])
    /\ \A i \in DOMAIN Dbs : \A names \in {DOMAIN Dbs[i].kind} :
          /\ names \subseteq Path /\ \A p \in names : Dbs[i].kind[p] \in {"root", "library"}
          /\ \A p \in names : \A v \in Dbs[i].releases[p] : v \in Version /\ isRelease(v)
          /\ \A p \in names : /\ DOMAIN Dbs[i].spec[p] \subseteq names
                             /\ \A q \in DOMAIN Dbs[i].spec[p] :
                                   /\ Dbs[i].spec[p][q] \in Version
                                   /\ isValid(Dbs[i].spec[p][q])

VARIABLES
    which, request, \* the inputs: an index of Dbs, and a request
    stage,          \* "find", "mark", "assign", "prepare", "done"; "failed";
                    \* "remote" is an exception after which the server is asked
    todo,           \* what the loop of the stage has not come to yet
    root,           \* the root project whose children are looked for
    stack,          \* calls of getProjectDependencies, the innermost last
    all_deps,       \* package -> [direct, deps]
    resolved,       \* resolved_packages: [path, version] -> package
    assigned,       \* path -> version, dependencies of the requesting package
    pkg,            \* the package prepare_config works on
    project,        \* path -> version, dependencies in its config
    prepared        \* paths of its dependencies in the package store

find == <<root, stack, all_deps>>
prepare == <<pkg, project, prepared>>
vars == <<which, request, stage, todo, root, stack, all_deps, resolved, assigned,
          pkg, project, prepared>>

Package(p, v) == [ppath |-> p, version |-> v]
NoRoot == [ppath |-> <<>>, left |-> {}, n |-> 0]
NoPackage == Package(<<>>, Branch(""))
Packages == [ppath : Path, version : Version]
Stages == {"find", "mark", "assign", "prepare", "done", "remote", "failed"}

db == Dbs[which]

(* The first of a set of paths in the order of the query.                  *)
First(S) == CHOOSE p \in S :
    \A q \in S : \E i, j \in DOMAIN Paths : Paths[i] = p /\ Paths[j] = q /\ i <= j

Children(p) == {q \in DOMAIN db.kind : db.kind[q] = "library" /\ is_root_of(p, q)}

(* What the server stores for a package when it is published: root         *)
(* projects are replaced by those children that have a release.            *)
Needs(p) ==
    LET spec == db.spec[p]
        umbrella(q) == {r \in DOMAIN spec : db.kind[r] = "root" /\ is_root_of(r, q)}
        named == {q \in DOMAIN spec : db.kind[q] = "library"}
        implied == {q \in (DOMAIN db.kind) \ named : db.kind[q] = "library" /\
            \E r \in umbrella(q) : Exact(db.releases[q], spec[r]) # {}}
    IN  [q \in named \cup implied |->
            IF q \in named THEN spec[q] ELSE spec[CHOOSE r \in umbrella(q) : TRUE]]

(* The types; and a package being walked has its entry already ("assign    *)
(* first, deps assign second", database.cpp:1132).                         *)
TypeOK ==
    /\ which \in DOMAIN Dbs /\ request \in Requests
    /\ stage \in Stages
    /\ IF stage \in {"find", "mark", "remote"} THEN todo \subseteq Path ELSE todo \subseteq Packages
    /\ root = NoRoot \/ root.ppath \in Path
    /\ root.left \subseteq Path /\ root.n \in Nat
    /\ \A i \in DOMAIN stack :
          /\ stack[i].package \in DOMAIN all_deps
          /\ stack[i].left \subseteq Path
          /\ stack[i].deps \subseteq Packages
    /\ DOMAIN all_deps \subseteq Packages
    /\ \A d \in DOMAIN all_deps :
          all_deps[d].direct \in BOOLEAN /\ all_deps[d].deps \subseteq Packages
    /\ DOMAIN resolved \subseteq Packages /\ Range(resolved) \subseteq Packages
    /\ DOMAIN assigned \subseteq Path /\ Range(assigned) \subseteq Version
    /\ pkg = NoPackage \/ pkg \in DOMAIN all_deps
    /\ DOMAIN project \subseteq Path /\ Range(project) \subseteq Version
    /\ prepared \subseteq Path

Init ==
    /\ which \in DOMAIN Dbs /\ request \in Requests
    /\ stage = "find" /\ todo = DOMAIN request
    /\ root = NoRoot /\ stack = <<>> /\ all_deps = <<>>
    /\ resolved = <<>> /\ assigned = <<>>
    /\ pkg = NoPackage /\ project = <<>> /\ prepared = {}

-----------------------------------------------------------------------------
(* findDependencies.                                                       *)

Set(f, x, y) == [z \in (DOMAIN f) \cup {x} |-> IF z = x THEN y ELSE f[z]]

AskServer ==
    /\ stage' = "remote"
    /\ UNCHANGED <<which, request, todo, root, stack, all_deps, resolved, assigned, prepare>>

Frame(package) == [package |-> package, left |-> DOMAIN Needs(package.ppath), deps |-> {}]

(* Mutant: the entry is made after the walk.                               *)
StartWalkFirst(package) ==
    /\ all_deps' = all_deps
    /\ stack' = <<Frame(package)>>

(* find_deps: a package that is asked for gets an entry of its own, and    *)
(* the walk starts from it.                                                *)
StartWalk(package) ==
    /\ all_deps' = Set(all_deps, package, [direct |-> TRUE, deps |-> {}])
    /\ stack' = <<Frame(package)>>

(* NoSuchVersion unwinds the walk.  A root project goes on with its next   *)
(* child, whatever the walk has put into all_deps so far stays there.      *)
NoSuchVersion(child) ==
    IF root = NoRoot THEN AskServer
    ELSE /\ stack' = <<>>
         /\ root' = [root EXCEPT !.left = @ \ {child}]
         /\ UNCHANGED <<which, request, stage, todo, all_deps, resolved, assigned, prepare>>

Idle == stage = "find" /\ stack = <<>>

(* The next request, in the order of an unordered map.                     *)
FindRoot(p) ==
    /\ Idle /\ root = NoRoot /\ p \in todo
    /\ p \in DOMAIN db.kind /\ db.kind[p] = "root" /\ Children(p) # {}
    /\ todo' = todo \ {p}
    /\ root' = [ppath |-> p, left |-> Children(p), n |-> 0]
    /\ UNCHANGED <<which, request, stage, stack, all_deps, resolved, assigned, prepare>>

NotFound(p) ==
    /\ Idle /\ root = NoRoot /\ p \in todo
    /\ p \in DOMAIN db.kind => db.kind[p] = "root" /\ Children(p) = {}
    /\ AskServer

FindLibrary(p) ==
    /\ Idle /\ root = NoRoot /\ p \in todo
    /\ p \in DOMAIN db.kind /\ db.kind[p] = "library"
    /\ IF Exact(db.releases[p], request[p]) = {} THEN NoSuchVersion(p)
       ELSE \E v \in Exact(db.releases[p], request[p]) :
            IF Package(p, v) \in db.young THEN AskServer
            ELSE /\ todo' = todo \ {p}
                 /\ StartWalk(Package(p, v))
                 /\ UNCHANGED <<which, request, stage, root, resolved, assigned, prepare>>

(* The next child of a root project, in the order of its path.             *)
FindChild ==
    /\ Idle /\ root # NoRoot /\ root.left # {}
    /\ LET p == First(root.left)
           found == Exact(db.releases[p], request[root.ppath])
       IN  IF found = {} THEN NoSuchVersion(p)
           ELSE \E v \in found :
                IF Package(p, v) \in db.young THEN AskServer
                ELSE /\ StartWalk(Package(p, v))
                     /\ UNCHANGED <<which, request, stage, todo, root, resolved,
                                    assigned, prepare>>

RootDone ==
    /\ Idle /\ root # NoRoot /\ root.left = {}
    /\ IF root.n = 0 THEN AskServer
       ELSE /\ root' = NoRoot
            /\ UNCHANGED <<which, request, stage, todo, stack, all_deps, resolved,
                           assigned, prepare>>

(* getProjectDependencies: the next dependency of the innermost package.   *)
(* One that is in the map already is linked and not visited again.         *)
Visited(package) == package \in DOMAIN all_deps

Link(top, p, package) ==
    [stack EXCEPT ![Len(stack)] =
        [package |-> top.package, left |-> top.left \ {p}, deps |-> top.deps \cup {package}]]

Visit ==
    /\ stage = "find" /\ stack # <<>> /\ Last(stack).left # {}
    /\ LET top == Last(stack)
           p == First(top.left)
           found == Exact(db.releases[p], Needs(top.package.ppath)[p])
       IN  IF found = {} THEN NoSuchVersion(stack[1].package.ppath)
           ELSE \E v \in found : LET package == Package(p, v) IN
                IF package \in db.young THEN AskServer
                ELSE /\ IF Visited(package)
                        THEN stack' = Link(top, p, package) /\ UNCHANGED all_deps
                        ELSE /\ stack' = Append(Link(top, p, package), Frame(package))
                             /\ all_deps' = Set(all_deps, package,
                                                [direct |-> FALSE, deps |-> {}])
                     /\ UNCHANGED <<which, request, stage, todo, root, resolved,
                                    assigned, prepare>>

(* Mutant: the dependencies of a package inside the walk are not kept.     *)
ReturnTop ==
    /\ stage = "find" /\ stack # <<>> /\ Last(stack).left = {}
    /\ LET top == Last(stack) IN
       /\ all_deps' = IF Len(stack) > 1 THEN all_deps
                      ELSE [all_deps EXCEPT ![top.package].deps = top.deps]
       /\ stack' = Front(stack)
       /\ root' = IF root = NoRoot \/ Len(stack) > 1 THEN root
                  ELSE [ppath |-> root.ppath, left |-> root.left \ {top.package.ppath},
                        n |-> root.n + 1]
    /\ UNCHANGED <<which, request, stage, todo, resolved, assigned, prepare>>

Return ==
    /\ stage = "find" /\ stack # <<>> /\ Last(stack).left = {}
    /\ LET top == Last(stack) IN
       /\ all_deps' = [all_deps EXCEPT ![top.package].deps = top.deps]
       /\ stack' = Front(stack)
       /\ root' = IF root = NoRoot \/ Len(stack) > 1 THEN root
                  ELSE [ppath |-> root.ppath, left |-> root.left \ {top.package.ppath},
                        n |-> root.n + 1]
    /\ UNCHANGED <<which, request, stage, todo, resolved, assigned, prepare>>

(* prepareIdDependencies: the links are followed, but not one to itself.   *)
Found ==
    /\ Idle /\ root = NoRoot /\ todo = {}
    /\ IF \E d \in DOMAIN all_deps : ~(all_deps[d].deps \subseteq DOMAIN all_deps)
       THEN AskServer
       ELSE /\ stage' = "mark"
            /\ all_deps' = [d \in DOMAIN all_deps |->
                              [all_deps[d] EXCEPT !.deps = @ \ {d}]]
            /\ UNCHANGED <<which, request, todo, root, stack, resolved, assigned, prepare>>

-----------------------------------------------------------------------------
(* resolve_dependencies, after the download.                               *)

Direct == {d \in DOMAIN all_deps : all_deps[d].direct}
Request(p) == Package(p, request[p])

(* What a key of resolved_packages may become, the loops being over        *)
(* unordered maps: the request for a path becomes any direct dependency of *)
(* that path, and one below a requested path is resolved to itself.        *)
Becomes(key) ==
    {d \in Direct : d.ppath \in DOMAIN request /\ Request(d.ppath) = key} \cup
    {d \in {key} \cap Direct : \E p \in DOMAIN request : is_root_of(p, d.ppath)}

MarkResolved ==
    /\ stage = "mark"
    /\ LET keys == {k \in {Request(p) : p \in DOMAIN request} \cup Direct : Becomes(k) # {}}
       IN  \E f \in [keys -> DOMAIN all_deps] :
            /\ \A k \in keys : f[k] \in Becomes(k)
            /\ resolved' = f
    /\ stage' = "assign" /\ todo' = Direct /\ assigned' = request
    /\ UNCHANGED <<which, request, root, stack, all_deps, prepare>>

(* "check if we chose a root project that matches all subprojects": every  *)
(* path above one of the packages gives way to the packages below it.  Of  *)
(* two versions of a path the map may keep either.                         *)
ReplaceRoots(deps, packages) ==
    LET below == {d \in packages : \E r \in DOMAIN deps : is_root_of(r, d.ppath)}
        kept == {p \in DOMAIN deps : \A d \in packages : ~is_root_of(p, d.ppath)}
        added == {d.ppath : d \in below} \ kept
    IN  {[p \in kept \cup added |-> IF p \in kept THEN deps[p] ELSE f[p]] :
            f \in {g \in [added -> {d.version : d \in below}] :
                    \A p \in added : Package(p, g[p]) \in below}}

HasRoots(deps, packages) ==
    \E d \in packages : \E r \in DOMAIN deps : is_root_of(r, d.ppath)

AssignFound(d) ==
    /\ stage = "assign" /\ d \in todo /\ d.ppath \in DOMAIN assigned
    /\ todo' = todo \ {d}
    /\ assigned' = [assigned EXCEPT ![d.ppath] = d.version]
    /\ UNCHANGED <<which, request, stage, root, stack, all_deps, resolved, prepare>>

AssignRoot(d) ==
    /\ stage = "assign" /\ d \in todo /\ d.ppath \notin DOMAIN assigned
    /\ HasRoots(assigned, DOMAIN all_deps)
    /\ todo' = todo \ {d}
    /\ assigned' \in ReplaceRoots(assigned, DOMAIN all_deps)
    /\ UNCHANGED <<which, request, stage, root, stack, all_deps, resolved, prepare>>

(* "cannot match dependency".                                              *)
AssignFails(d) ==
    /\ stage = "assign" /\ d \in todo /\ d.ppath \notin DOMAIN assigned
    /\ ~HasRoots(assigned, DOMAIN all_deps)
    /\ stage' = "failed"
    /\ UNCHANGED <<which, request, todo, find, resolved, assigned, prepare>>

(* prepare_config of one of the downloaded packages.                       *)
StartPrepare(d) ==
    /\ stage = "assign" /\ todo = {}
    /\ d \in DOMAIN all_deps
    /\ stage' = "prepare" /\ todo' = all_deps[d].deps
    /\ pkg' = d /\ project' = db.spec[d.ppath] /\ prepared' = {}
    /\ UNCHANGED <<which, request, find, resolved, assigned>>

(* Mutant: the version in the config stays the one of the cppan.yml.       *)
PrepareFoundUnpinned(d) ==
    /\ stage = "prepare" /\ d \in todo /\ d.ppath \in DOMAIN project
    /\ todo' = todo \ {d}
    /\ prepared' = prepared \cup {d.ppath}
    /\ UNCHANGED <<which, request, stage, find, resolved, assigned, pkg, project>>

PrepareFound(d) ==
    /\ stage = "prepare" /\ d \in todo /\ d.ppath \in DOMAIN project
    /\ todo' = todo \ {d}
    /\ project' = [project EXCEPT ![d.ppath] = d.version]
    /\ prepared' = prepared \cup {d.ppath}
    /\ UNCHANGED <<which, request, stage, find, resolved, assigned, pkg>>

(* The dependency that reveals the root project is not prepared itself.    *)
PrepareRoot(d) ==
    /\ stage = "prepare" /\ d \in todo /\ d.ppath \notin DOMAIN project
    /\ HasRoots(project, all_deps[pkg].deps)
    /\ todo' = todo \ {d}
    /\ project' \in ReplaceRoots(project, all_deps[pkg].deps)
    /\ UNCHANGED <<which, request, stage, find, resolved, assigned, pkg, prepared>>

(* "dependency ... not found".                                             *)
PrepareFails(d) ==
    /\ stage = "prepare" /\ d \in todo /\ d.ppath \notin DOMAIN project
    /\ ~HasRoots(project, all_deps[pkg].deps)
    /\ stage' = "failed"
    /\ UNCHANGED <<which, request, todo, find, resolved, assigned, prepare>>

PrepareDone ==
    /\ stage = "prepare" /\ todo = {}
    /\ stage' = "done"
    /\ UNCHANGED <<which, request, todo, find, resolved, assigned, prepare>>

Ended ==
    /\ stage \in {"done", "remote", "failed"}
    /\ UNCHANGED vars

Next ==
    \/ \E p \in Path : FindRoot(p) \/ FindLibrary(p) \/ NotFound(p)
    \/ FindChild \/ RootDone \/ Visit \/ Return \/ Found
    \/ MarkResolved
    \/ \E d \in DOMAIN all_deps :
          \/ AssignFound(d) \/ AssignRoot(d) \/ AssignFails(d)
          \/ StartPrepare(d)
          \/ PrepareFound(d) \/ PrepareRoot(d) \/ PrepareFails(d)
    \/ PrepareDone
    \/ Ended

Spec == Init /\ [][Next]_vars

-----------------------------------------------------------------------------
(* Properties.                                                             *)

Resolved == stage \notin {"find", "remote"}

(* A package is never walked inside its own walk: dependency cycles, which *)
(* nothing forbids, do not make getProjectDependencies recurse for ever.   *)
NoReentry ==
    \A i, j \in DOMAIN stack : stack[i].package = stack[j].package => i = j

(* Every package in the result is the newest release that the request for  *)
(* it, the request for a root project above it, or the package that        *)
(* depends on it admits, whichever way the walk came to it first.          *)
NewestChosen == Resolved =>
    /\ \A d \in Direct : \E p \in DOMAIN request :
          /\ p = d.ppath \/ is_root_of(p, d.ppath)
          /\ d.version \in Upgrades(db.releases[d.ppath], request[p])
    /\ \A d \in DOMAIN all_deps : \A e \in all_deps[d].deps :
          e.version \in Upgrades(db.releases[e.ppath], Needs(d.ppath)[e.ppath])

(* If no published package needs something that is not published, the      *)
(* result is closed: whatever a package in it needs is in it, and linked.  *)
AllPublished ==
    \A p \in {q \in DOMAIN db.kind : db.kind[q] = "library"} :
        \A q \in DOMAIN Needs(p) : Exact(db.releases[q], Needs(p)[q]) # {}

ClosedDeps == Resolved /\ AllPublished =>
    \A d \in DOMAIN all_deps :
        /\ all_deps[d].deps \subseteq DOMAIN all_deps
        /\ \A q \in (DOMAIN Needs(d.ppath)) \ {d.ppath} :
              \E e \in all_deps[d].deps : e.ppath = q

(* A root project brings every child that has a release for the request,   *)
(* also when another child has none.                                       *)
RootChildren == Resolved =>
    \A r \in {p \in DOMAIN request : db.kind[p] = "root"} : \A q \in Children(r) :
        \A v \in Exact(db.releases[q], request[r]) : Package(q, v) \in Direct

(* The walk ends with all it should have found, whatever is circular,      *)
(* unpublished or a root project (database.cpp:1100-1400).                 *)
WalkRight == NoReentry /\ ClosedDeps /\ RootChildren

(* The corner that the loops over unordered maps do not settle: a path is  *)
(* asked for twice, by itself and by a path above it.                      *)
AskedTwice == \E p, q \in DOMAIN request : is_root_of(p, q)

(* What a request is recorded to have become is an upgrade of it, though   *)
(* other versions of the same path may have been found on the way.         *)
ResolvedUpgrades == stage \in {"assign", "prepare", "done"} /\ ~AskedTwice =>
    \A p \in DOMAIN request :
        IF db.kind[p] = "library"
        THEN /\ Request(p) \in DOMAIN resolved
             /\ resolved[Request(p)].ppath = p
             /\ canBe(request[p], resolved[Request(p)].version)
        ELSE \A q \in Children(p) : \A d \in Direct :
                d.ppath = q => d \in DOMAIN resolved /\ resolved[d] = d

(* A path of a library above the path of another one is the corner that    *)
(* the replacement of roots does not settle; of two versions of one path   *)
(* either is taken.                                                        *)
LibraryAbove(deps) ==
    \E p \in (DOMAIN deps) \cap (DOMAIN db.kind), d \in DOMAIN all_deps :
        db.kind[p] = "library" /\ is_root_of(p, d.ppath)
TwoVersions == \E d, e \in DOMAIN all_deps : d # e /\ d.ppath = e.ppath

(* The requesting package ends up with all the direct dependencies, each   *)
(* at the version found, and with no root project and no open version.     *)
AssignedDirect == ~LibraryAbove(request) =>
    /\ stage = "failed" => pkg # NoPackage
    /\ stage \in {"prepare", "done"} =>
        /\ \A d \in Direct : /\ d.ppath \in DOMAIN assigned
                            /\ ~TwoVersions => assigned[d.ppath] = d.version
        /\ \A p \in DOMAIN assigned :
              Package(p, assigned[p]) \in DOMAIN all_deps \/ AskedTwice

(* The config of a downloaded package ends up with every dependency found  *)
(* for it, at the version found.                                           *)
PreparedConfig ==
    pkg # NoPackage /\ ~LibraryAbove(db.spec[pkg.ppath]) =>
    /\ stage # "failed"
    /\ stage = "done" => \A d \in all_deps[pkg].deps :
          d.ppath \in DOMAIN project /\ project[d.ppath] = d.version

(* What was found arrives where it is used: in resolved_packages, in the   *)
(* dependencies of the requesting package and in the configs               *)
(* (resolver.cpp:90-130, 400-470, 510-540).                                *)
ResultRight == ResolvedUpgrades /\ AssignedDirect /\ PreparedConfig

(* doc/website.md:30 says that a root project is "an umbrella project      *)
(* which can be downloaded as dependency with all its children": so all    *)
(* of them are dependencies of the package in the store.  (A package with  *)
(* none at all is resolved once more by PackageStore::resolve_dependencies *)
(* and is left out here.)                                                  *)
ChildrenPrepared ==
    stage = "done" /\ prepared # {} =>
        prepared = {d.ppath : d \in all_deps[pkg].deps}
=============================================================================

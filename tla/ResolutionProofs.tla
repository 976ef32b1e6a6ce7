--------------------------- MODULE ResolutionProofs ---------------------------
(***************************************************************************)
(* Proofs about Resolution, for every database and every request.          *)
(***************************************************************************)
EXTENDS Resolution, SequenceTheorems, WellFoundedInduction, TLAPS


-----------------------------------------------------------------------------
(* The least of a set of numbers, and the first of a set of paths.         *)

LEMMA NatOrder ==
    \E R : IsWellFoundedOn(R, Nat) /\ \A x, y \in Nat : y < x => <<y, x>> \in R
<1> DEFINE R == OpToRel(<, Nat)
<1>1. IsWellFoundedOn(R, Nat)
  BY NatLessThanWellFounded
<1>2. \A x, y \in Nat : y < x => <<y, x>> \in R
  BY DEF OpToRel
<1> HIDE DEF R
<1> QED
  BY <1>1, <1>2

LEMMA LeastNatural ==
    ASSUME NEW T \in SUBSET Nat, T # {}
    PROVE  \E x \in T : \A y \in T : x <= y
<1>1. PICK R : IsWellFoundedOn(R, Nat) /\ \A x, y \in Nat : y < x => <<y, x>> \in R
  BY NatOrder
<1>2. PICK x \in T : \A y \in T : ~(<<y, x>> \in R)
  BY <1>1, WFMin
<1>3. \A y \in T : ~(y < x)
  BY <1>1, <1>2
<1> QED
  BY <1>2, <1>3

(* A query that is not empty has a first row.                              *)
LEMMA FirstIn ==
    ASSUME NEW S \in SUBSET Path, S # {}
    PROVE  First(S) \in S
<1> DEFINE T == {i \in DOMAIN Paths : Paths[i] \in S}
<1>1. \A p \in S : \E i \in T : Paths[i] = p
  BY DEF Path, Range
<1>2. T \in SUBSET Nat /\ T # {}
  BY <1>1, ResolutionAssumption
<1>3. PICK i \in T : \A j \in T : i <= j
  BY <1>2, LeastNatural
<1>4. \A q \in S : \E j \in DOMAIN Paths : Paths[j] = q /\ i <= j
  BY <1>1, <1>3
<1>5. Paths[i] \in S /\ i \in DOMAIN Paths
  BY <1>3
<1>6. \E p \in S : \A q \in S : \E k, j \in DOMAIN Paths : Paths[k] = p /\ Paths[j] = q /\ k <= j
  BY <1>4, <1>5
<1> QED
  BY <1>6 DEF First

-----------------------------------------------------------------------------
(* The choice of a release.                                                *)

(* A version is the record of its numbers and its branch.                  *)
LEMMA NumbersAreInt ==
    /\ Absent \in Int
    /\ \A n \in Number : n \in Int
BY VersionsAssumption DEF Absent, Number

LEMMA VersionFields ==
    ASSUME NEW v \in Version
    PROVE  /\ v = [major |-> v.major, minor |-> v.minor, patch |-> v.patch, branch |-> v.branch]
           /\ v.major \in Int /\ v.minor \in Int /\ v.patch \in Int
<1>1. v = [major |-> v.major, minor |-> v.minor, patch |-> v.patch, branch |-> v.branch]
  BY DEF Version
<1>2. v.major \in Number /\ v.minor \in Number /\ v.patch \in Number
  BY DEF Version
<1> QED
  BY <1>1, <1>2, NumbersAreInt

LEMMA SameFields ==
    ASSUME NEW v \in Version, NEW w \in Version,
           SameNumbers(v, w), v.branch = w.branch
    PROVE  v = w
<1>1. v = [major |-> w.major, minor |-> w.minor, patch |-> w.patch, branch |-> w.branch]
  BY VersionFields DEF SameNumbers
<1> QED
  BY <1>1, VersionFields

AreReleases(releases) == \A r \in releases : r \in Version /\ isRelease(r)

LEMMA ExactIsRelease == \A releases, v : Exact(releases, v) \subseteq releases
BY DEF Exact, Newest

(* Of several releases that are not branches, one is the newest at most.   *)
LEMMA NewestUnique ==
    ASSUME NEW S \in SUBSET Version, \A r \in S : ~isBranch(r),
           NEW v \in Newest(S), NEW w \in Newest(S)
    PROVE  v = w
<1>1. v \in Version /\ w \in Version /\ ~isBranch(v) /\ ~isBranch(w)
      /\ ~NumbersLess(v, w) /\ ~NumbersLess(w, v)
  BY DEF Newest
<1>2. /\ v.major \in Int /\ v.minor \in Int /\ v.patch \in Int
      /\ w.major \in Int /\ w.minor \in Int /\ w.patch \in Int
  BY <1>1, VersionFields
<1>3. v.branch = w.branch
  BY <1>1 DEF isBranch
<1>4. /\ ~(v.major < w.major) /\ ~(w.major < v.major)
      /\ v.major = w.major => ~(v.minor < w.minor) /\ ~(w.minor < v.minor)
      /\ v.major = w.major /\ v.minor = w.minor => ~(v.patch < w.patch) /\ ~(w.patch < v.patch)
  BY <1>1 DEF NumbersLess
<1>5. v.major = w.major /\ v.minor = w.minor /\ v.patch = w.patch
  BY <1>2, <1>4
<1> QED
  BY <1>1, <1>3, <1>5, SameFields DEF SameNumbers

(* A version stands for one release at most.                               *)
LEMMA ExactUnique ==
    ASSUME NEW releases, AreReleases(releases), NEW asked,
           NEW v \in Exact(releases, asked), NEW w \in Exact(releases, asked)
    PROVE  v = w
<1> DEFINE fixed == {r \in releases : ~isBranch(r)}
<1>1. v \in releases /\ w \in releases
  BY ExactIsRelease
<1>2. CASE isBranch(asked)
  <2>1. v.branch = asked.branch /\ w.branch = asked.branch
    BY <1>2 DEF Exact
  <2>2. v = Branch(v.branch) /\ w = Branch(w.branch)
    BY <1>1, <1>2, <2>1 DEF AreReleases, isRelease, isValid, isBranch
  <2> QED
    BY <2>1, <2>2
<1>3. CASE ~isBranch(asked)
  <2>1. \/ SameNumbers(v, asked) /\ SameNumbers(w, asked) /\ ~isBranch(v) /\ ~isBranch(w)
        \/ \E S \in SUBSET fixed : v \in Newest(S) /\ w \in Newest(S)
    BY <1>3 DEF Exact
  <2>2. CASE SameNumbers(v, asked) /\ SameNumbers(w, asked) /\ ~isBranch(v) /\ ~isBranch(w)
    <3>1. v \in Version /\ w \in Version
      BY <1>1 DEF AreReleases
    <3>2. SameNumbers(v, w) /\ v.branch = w.branch
      BY <2>2 DEF SameNumbers, isBranch
    <3> QED
      BY <3>1, <3>2, SameFields
  <2>3. CASE \E S \in SUBSET fixed : v \in Newest(S) /\ w \in Newest(S)
    <3>1. PICK S \in SUBSET fixed : v \in Newest(S) /\ w \in Newest(S)
      BY <2>3
    <3>2. S \in SUBSET Version /\ \A r \in S : ~isBranch(r)
      BY DEF AreReleases
    <3> QED
      BY <3>1, <3>2, NewestUnique
  <2> QED
    BY <2>1, <2>2, <2>3
<1> QED
  BY <1>2, <1>3

(* The queries one after the other find what the rules for upgrades say.   *)
LEMMA ExactUpgrades ==
    ASSUME NEW releases, AreReleases(releases), NEW asked \in Version, isValid(asked)
    PROVE  Exact(releases, asked) \subseteq Upgrades(releases, asked)
<1> DEFINE fixed == {r \in releases : ~isBranch(r)}
           exact == {r \in fixed : SameNumbers(r, asked)}
           minor == {r \in fixed : r.major = asked.major /\ r.minor = asked.minor}
           major == {r \in fixed : r.major = asked.major}
           can == {r \in releases : ~isBranch(r) /\ canBe(asked, r)}
<1>1. CASE isBranch(asked)
  <2>1. asked = Branch(asked.branch)
    BY <1>1 DEF isValid
  <2>2. \A r \in releases : r.branch = asked.branch => r = Branch(r.branch)
    BY <1>1 DEF AreReleases, isRelease, isValid, isBranch
  <2> QED
    BY <1>1, <2>1, <2>2 DEF Exact, Upgrades
<1>2. CASE ~isBranch(asked)
  <2>0. Upgrades(releases, asked) = Newest(can)
    BY <1>2 DEF Upgrades
  <2>1. /\ asked.major = Absent => asked.minor = Absent
        /\ asked.minor = Absent => asked.patch = Absent
        /\ asked.branch = ""
    BY <1>2 DEF isValid, isBranch
  <2>2. \A r \in fixed : /\ r.major # Absent /\ r.minor # Absent /\ r.patch # Absent
                         /\ r.branch = "" /\ r \in Version
    BY DEF AreReleases, isRelease, isValid, isBranch
  <2>3. \A r \in fixed : asked = r <=> SameNumbers(r, asked)
    BY <2>1, <2>2, SameFields DEF SameNumbers
  <2>4. CASE asked.patch # Absent
    <3>1. can = exact
      BY <2>1, <2>2, <2>3, <2>4 DEF canBe, SameNumbers
    <3>2. \A v, w \in exact : ~NumbersLess(v, w)
      <4> TAKE v, w \in exact
      <4>1. /\ v.major \in Int /\ v.minor \in Int /\ v.patch \in Int
            /\ w.major = v.major /\ w.minor = v.minor /\ w.patch = v.patch
        BY <2>2, VersionFields DEF SameNumbers
      <4> QED
        BY <4>1 DEF NumbersLess
    <3>3. Newest(can) = exact
      BY <3>1, <3>2 DEF Newest
    <3> QED
      BY <1>2, <2>0, <2>4, <3>3 DEF Exact
  <2>5. CASE asked.patch = Absent
    <3>1. exact = {}
      BY <2>2, <2>5 DEF SameNumbers
    <3>2. CASE asked.minor # Absent
      <4>1. can = minor
        BY <2>1, <2>2, <2>3, <2>5, <3>2 DEF canBe, SameNumbers
      <4> QED
        BY <1>2, <2>0, <2>5, <3>1, <3>2, <4>1 DEF Exact
    <3>3. CASE asked.minor = Absent
      <4>1. minor = {}
        BY <2>2, <3>3
      <4>2. CASE asked.major # Absent
        <5>1. can = major
          BY <2>1, <2>2, <2>3, <2>5, <3>3, <4>2 DEF canBe, SameNumbers
        <5> QED
          BY <1>2, <2>0, <2>5, <3>1, <3>3, <4>1, <4>2, <5>1 DEF Exact
      <4>3. CASE asked.major = Absent
        <5>1. can = fixed
          BY <2>5, <3>3, <4>3 DEF canBe
        <5>2. major = {}
          BY <2>2, <4>3
        <5> QED
          BY <1>2, <2>0, <2>5, <3>1, <3>3, <4>1, <4>3, <5>1, <5>2 DEF Exact
      <4> QED
        BY <4>2, <4>3
    <3> QED
      BY <3>2, <3>3
  <2> QED
    BY <2>4, <2>5
<1> QED
  BY <1>1, <1>2

LEMMA UpgradesCanBe ==
    \A releases, asked : \A v \in Upgrades(releases, asked) : canBe(asked, v)
BY DEF Upgrades, Newest, canBe
-----------------------------------------------------------------------------
(* The invariants.                                                         *)

Inputs == which \in DOMAIN Dbs /\ request \in Requests

Frames == [package : Packages, left : SUBSET Path, deps : SUBSET Packages]
Searching == stage \in {"find", "remote"}

(* Every package in the walk is one of a library in the database.          *)
InDatabase(d) == d \in Packages /\ d.ppath \in DOMAIN db.kind /\ db.kind[d.ppath] = "library"

FindTypes ==
    /\ Inputs /\ stage \in Stages
    /\ root = NoRoot \/ root \in [ppath : Path, left : SUBSET Path, n : Nat]
    /\ stack \in Seq(Frames)
    /\ all_deps \in [DOMAIN all_deps -> [direct : BOOLEAN, deps : SUBSET Packages]]
    /\ \A d \in DOMAIN all_deps : InDatabase(d) /\ all_deps[d].deps \subseteq DOMAIN all_deps
    /\ \A i \in DOMAIN stack : /\ stack[i].package \in DOMAIN all_deps
                               /\ stack[i].deps \subseteq DOMAIN all_deps
    /\ ~Searching => stack = <<>> /\ root = NoRoot
    /\ stage \in {"find", "mark", "remote"} => todo \subseteq DOMAIN request

LaterTypes ==
    /\ DOMAIN resolved \subseteq Packages /\ Range(resolved) \subseteq Packages
    /\ DOMAIN assigned \subseteq Path /\ Range(assigned) \subseteq Version
    /\ DOMAIN project \subseteq Path /\ Range(project) \subseteq Version
    /\ prepared \subseteq Path
    /\ IF stage \in {"prepare", "done"} THEN pkg \in DOMAIN all_deps
       ELSE stage # "failed" => pkg = NoPackage
    /\ pkg = NoPackage \/ pkg \in DOMAIN all_deps
    /\ stage = "assign" => todo \subseteq Direct
    /\ stage = "prepare" => todo \subseteq all_deps[pkg].deps
    /\ stage \in {"done", "failed"} => todo \subseteq Packages

(* What was chosen for a request, and for the needs of a package.          *)
AskedBy(d, p) ==
    /\ p = d.ppath \/ is_root_of(p, d.ppath)
    /\ d.version \in Exact(db.releases[d.ppath], request[p])

Admitted(d, deps) == \A e \in deps :
    /\ e.ppath \in DOMAIN Needs(d.ppath)
    /\ e.version \in Exact(db.releases[e.ppath], Needs(d.ppath)[e.ppath])

Chosen ==
    /\ \A d \in Direct : \E p \in DOMAIN request : AskedBy(d, p)
    /\ \A d \in DOMAIN all_deps : Admitted(d, all_deps[d].deps)
    /\ \A i \in DOMAIN stack : /\ Admitted(stack[i].package, stack[i].deps)
                               /\ stack[i].left \subseteq DOMAIN Needs(stack[i].package.ppath)
    /\ root # NoRoot => /\ root.ppath \in DOMAIN request /\ root.ppath \in DOMAIN db.kind
                        /\ db.kind[root.ppath] = "root"
                        /\ root.left \subseteq Children(root.ppath)

(* A package is complete once something is linked for all it needs; those  *)
(* that are not are the ones the walk is in.                               *)
Complete(d, deps, left) ==
    \A q \in (DOMAIN Needs(d.ppath)) \ left : \E e \in deps : e.ppath = q

OnStack(d) == \E i \in DOMAIN stack : stack[i].package = d

Closing == AllPublished =>
    /\ \A d \in DOMAIN all_deps :
          OnStack(d) \/ Complete(d, all_deps[d].deps, IF Searching THEN {} ELSE {d.ppath})
    /\ \A i \in DOMAIN stack : Complete(stack[i].package, stack[i].deps, stack[i].left)

(* The requests that the walk has done with.                               *)
AllFound(q, v) == \A w \in Exact(db.releases[q], v) : Package(q, w) \in Direct
HasChild(r) == \E d \in Direct : is_root_of(r, d.ppath)
Looked == IF Searching THEN (DOMAIN request) \ todo ELSE DOMAIN request

FirstOfRoot == root # NoRoot /\ stack # <<>> =>
    /\ stack[1].package \in Direct
    /\ stack[1].package.ppath \in Children(root.ppath)
    /\ stack[1].package.version \in
          Exact(db.releases[stack[1].package.ppath], request[root.ppath])

Counted == root # NoRoot /\ root.n # 0 => HasChild(root.ppath)

LibrariesFound == \A r \in Looked :
    /\ r \in DOMAIN db.kind
    /\ db.kind[r] = "library" => \E d \in Direct : d.ppath = r

RootFound(r) ==
    /\ root.ppath = r \/ HasChild(r)
    /\ \A q \in Children(r) : \/ root.ppath = r /\ q \in root.left
                              \/ AllFound(q, request[r])

RootsFound == \A r \in Looked : db.kind[r] = "root" => RootFound(r)

Rooted == FirstOfRoot /\ Counted /\ LibrariesFound /\ RootsFound

Walk == NoReentry /\ Closing /\ Rooted

(* The dependencies of the requesting package.                             *)
Assigning == stage = "assign" /\ ~LibraryAbove(request) =>
    /\ \/ DOMAIN assigned = DOMAIN request
       \/ \A d \in Direct : d.ppath \in DOMAIN assigned
    /\ \A d \in Direct \ todo :
          d.ppath \in DOMAIN assigned /\ (~TwoVersions => assigned[d.ppath] = d.version)
    /\ AskedTwice \/ \A p \in DOMAIN assigned :
          \/ Package(p, assigned[p]) \in DOMAIN all_deps
          \/ \E d \in todo : d.ppath = p
          \/ /\ DOMAIN assigned = DOMAIN request
             /\ \E d \in todo : is_root_of(p, d.ppath)

(* The dependencies in the config of a downloaded package.                 *)
Preparing == stage = "prepare" /\ ~LibraryAbove(db.spec[pkg.ppath]) =>
    /\ \/ DOMAIN project = DOMAIN db.spec[pkg.ppath]
       \/ \A d \in all_deps[pkg].deps : d.ppath \in DOMAIN project
    /\ \A d \in all_deps[pkg].deps \ todo :
          d.ppath \in DOMAIN project /\ project[d.ppath] = d.version

-----------------------------------------------------------------------------
(* Facts about a database, and about the stack.                            *)

LEMMA DbFacts ==
    ASSUME Inputs
    PROVE  /\ DOMAIN db.kind \subseteq Path
           /\ \A p \in DOMAIN db.kind :
                 /\ db.kind[p] \in {"root", "library"}
                 /\ AreReleases(db.releases[p])
                 /\ DOMAIN db.spec[p] \subseteq DOMAIN db.kind
                 /\ \A q \in DOMAIN db.spec[p] :
                       db.spec[p][q] \in Version /\ isValid(db.spec[p][q])
<1> DEFINE d == Dbs[which]
<1>1. which \in DOMAIN Dbs
  BY DEF Inputs
<1>2. \A names \in {DOMAIN d.kind} :
          /\ names \subseteq Path /\ \A p \in names : d.kind[p] \in {"root", "library"}
          /\ \A p \in names : \A v \in d.releases[p] : v \in Version /\ isRelease(v)
          /\ \A p \in names : /\ DOMAIN d.spec[p] \subseteq names
                             /\ \A q \in DOMAIN d.spec[p] :
                                   d.spec[p][q] \in Version /\ isValid(d.spec[p][q])
  BY <1>1, ResolutionAssumption
<1> QED
  BY <1>2 DEF db, AreReleases

LEMMA RequestFacts ==
    ASSUME Inputs
    PROVE  /\ DOMAIN request \subseteq Path
           /\ \A p \in DOMAIN request : request[p] \in Version /\ isValid(request[p])
BY ResolutionAssumption DEF Inputs

(* The dependencies the server stores are libraries, each of them named by *)
(* the package or below a root project that it names.                      *)
LEMMA NeedsFacts ==
    ASSUME Inputs, NEW p \in DOMAIN db.kind, NEW q \in DOMAIN Needs(p)
    PROVE  /\ q \in Path /\ q \in DOMAIN db.kind /\ db.kind[q] = "library"
           /\ Needs(p)[q] \in Version /\ isValid(Needs(p)[q])
           /\ q \in DOMAIN db.spec[p] \/ \E r \in DOMAIN db.spec[p] : is_root_of(r, q)
<1> DEFINE spec == db.spec[p]
           umbrella(x) == {r \in DOMAIN spec : db.kind[r] = "root" /\ is_root_of(r, x)}
           named == {x \in DOMAIN spec : db.kind[x] = "library"}
           implied == {x \in (DOMAIN db.kind) \ named : db.kind[x] = "library" /\
               \E r \in umbrella(x) : Exact(db.releases[x], spec[r]) # {}}
<1>1. Needs(p) = [x \in named \cup implied |->
                    IF x \in named THEN spec[x] ELSE spec[CHOOSE r \in umbrella(x) : TRUE]]
  BY DEF Needs
<1>2. q \in named \cup implied
  BY <1>1
<1>3. DOMAIN spec \subseteq DOMAIN db.kind
      /\ \A x \in DOMAIN spec : spec[x] \in Version /\ isValid(spec[x])
  BY DbFacts
<1>4. DOMAIN db.kind \subseteq Path
  BY DbFacts
<1>5. CASE q \in named
  <2>1. Needs(p)[q] = spec[q]
    BY <1>1, <1>5
  <2> QED
    BY <1>3, <1>4, <1>5, <2>1
<1>6. CASE q \in implied /\ q \notin named
  <2> DEFINE c == CHOOSE r \in umbrella(q) : TRUE
  <2>1. Needs(p)[q] = spec[c]
    BY <1>1, <1>6
  <2>2. c \in umbrella(q)
    BY <1>6
  <2> QED
    BY <1>3, <1>4, <1>6, <2>1, <2>2
<1> QED
  BY <1>2, <1>5, <1>6

LEMMA ReleasesOfLibrary ==
    ASSUME Inputs, NEW q \in DOMAIN db.kind, NEW asked, NEW v \in Exact(db.releases[q], asked)
    PROVE  Package(q, v) \in Packages
<1>1. q \in Path /\ AreReleases(db.releases[q])
  BY DbFacts
<1>2. v \in Version
  BY <1>1, ExactIsRelease DEF AreReleases
<1> QED
  BY <1>1, <1>2 DEF Package, Packages

LEMMA StackTop ==
    ASSUME stack \in Seq(Frames), stack # <<>>
    PROVE  /\ Len(stack) \in Nat \ {0} /\ Len(stack) \in DOMAIN stack
           /\ DOMAIN stack = 1..Len(stack)
           /\ Last(stack) = stack[Len(stack)] /\ Last(stack) \in Frames
BY DEF Last

LEMMA LinkedStack ==
    ASSUME stack \in Seq(Frames), stack # <<>>, NEW d \in Packages, NEW linked,
           linked = Link(Last(stack), d.ppath, d)
    PROVE  /\ linked \in Seq(Frames) /\ Len(linked) = Len(stack)
           /\ \A i \in 1..Len(stack) : i # Len(stack) => linked[i] = stack[i]
           /\ linked[Len(stack)] = [package |-> Last(stack).package,
                                    left |-> Last(stack).left \ {d.ppath},
                                    deps |-> Last(stack).deps \cup {d}]
<1> DEFINE top == Last(stack)
           new == [package |-> top.package, left |-> top.left \ {d.ppath}, deps |-> top.deps \cup {d}]
<1>1. /\ Len(stack) \in 1..Len(stack) /\ top \in Frames
  BY StackTop
<1>2. top.package \in Packages /\ top.left \in SUBSET Path /\ top.deps \in SUBSET Packages
  BY <1>1 DEF Frames
<1>3. new \in Frames
  BY <1>2 DEF Frames
<1>4. linked = [stack EXCEPT ![Len(stack)] = new]
  BY DEF Link
<1> HIDE DEF new
<1>5. /\ linked \in Seq(Frames) /\ Len(linked) = Len(stack)
      /\ \A i \in 1..Len(stack) : linked[i] = IF i = Len(stack) THEN new ELSE stack[i]
  BY <1>1, <1>3, <1>4, ExceptSeq
<1> QED
  BY <1>1, <1>5 DEF new

LEMMA PushedStack ==
    ASSUME NEW s \in Seq(Frames), NEW f \in Frames
    PROVE  /\ Append(s, f) \in Seq(Frames) /\ Len(Append(s, f)) = Len(s) + 1
           /\ \A i \in 1..Len(s) : Append(s, f)[i] = s[i]
           /\ Append(s, f)[Len(s) + 1] = f
OBVIOUS

LEMMA PoppedStack ==
    ASSUME stack \in Seq(Frames), stack # <<>>
    PROVE  /\ Front(stack) \in Seq(Frames) /\ Len(Front(stack)) = Len(stack) - 1
           /\ \A i \in 1..(Len(stack) - 1) : Front(stack)[i] = stack[i]
BY StackTop DEF Front

LEMMA FrameType ==
    ASSUME Inputs, NEW d, InDatabase(d)
    PROVE  Frame(d) \in Frames
<1>1. d \in Packages /\ d.ppath \in DOMAIN db.kind
  BY DEF InDatabase
<1>2. DOMAIN Needs(d.ppath) \subseteq Path
  BY <1>1, NeedsFacts
<1> QED
  BY <1>1, <1>2 DEF Frame, Frames

-----------------------------------------------------------------------------
(* What the steps of the walk do.                                          *)

others == <<which, request, stage, resolved, assigned, prepare>>

(* Last(stack) admits d for something it has not come to yet.              *)
Reaches(d) ==
    /\ stage = "find" /\ stack # <<>> /\ InDatabase(d)
    /\ d.ppath \in Last(stack).left
    /\ d.version \in Exact(db.releases[d.ppath], Needs(Last(stack).package.ppath)[d.ppath])

Starts(d) ==
    /\ Idle /\ InDatabase(d) /\ StartWalk(d)
    /\ \/ /\ root = NoRoot /\ d.ppath \in todo /\ todo' = todo \ {d.ppath}
          /\ d.version \in Exact(db.releases[d.ppath], request[d.ppath])
       \/ /\ root # NoRoot /\ d.ppath \in root.left /\ todo' = todo
          /\ d.version \in Exact(db.releases[d.ppath], request[root.ppath])
    /\ root' = root /\ UNCHANGED others

Skips(q) ==
    /\ stage = "find" /\ root # NoRoot
    /\ \/ stack = <<>> /\ Exact(db.releases[q], request[root.ppath]) = {}
       \/ stack # <<>> /\ q = stack[1].package.ppath /\ ~AllPublished
    /\ stack' = <<>> /\ root' = [root EXCEPT !.left = @ \ {q}]
    /\ UNCHANGED <<todo, all_deps, others>>

Links(d) ==
    /\ Reaches(d) /\ d \in DOMAIN all_deps
    /\ stack' = Link(Last(stack), d.ppath, d)
    /\ UNCHANGED <<todo, root, all_deps, others>>

Pushes(d) ==
    /\ Reaches(d) /\ d \notin DOMAIN all_deps
    /\ stack' = Append(Link(Last(stack), d.ppath, d), Frame(d))
    /\ all_deps' = Set(all_deps, d, [direct |-> FALSE, deps |-> {}])
    /\ UNCHANGED <<todo, root, others>>

RootEnds ==
    /\ Idle /\ root # NoRoot /\ root.left = {} /\ root.n # 0
    /\ root' = NoRoot
    /\ UNCHANGED <<todo, stack, all_deps, others>>

Marks ==
    /\ Idle /\ root = NoRoot /\ todo = {} /\ stage' = "mark"
    /\ all_deps' = [d \in DOMAIN all_deps |-> [all_deps[d] EXCEPT !.deps = @ \ {d}]]
    /\ UNCHANGED <<which, request, todo, root, stack, resolved, assigned, prepare>>

FindStep ==
    \/ stage = "find" /\ AskServer
    \/ \E p \in Path : FindRoot(p)
    \/ \E d \in Packages : Starts(d) \/ Links(d) \/ Pushes(d)
    \/ \E q : Skips(q)
    \/ Return \/ RootEnds \/ Marks

(* After the walk what it found stays as it is.                            *)
LaterStep ==
    /\ stage \in {"mark", "assign", "prepare"}
    /\ stage' \in {"assign", "prepare", "done", "failed"}
    /\ UNCHANGED <<which, request, root, stack, all_deps>>

LaterAction ==
    \/ MarkResolved
    \/ \E d \in DOMAIN all_deps :
          \/ AssignFound(d) \/ AssignRoot(d) \/ AssignFails(d)
          \/ StartPrepare(d)
          \/ PrepareFound(d) \/ PrepareRoot(d) \/ PrepareFails(d)
    \/ PrepareDone

LEMMA LaterSteps ==
    ASSUME LaterAction
    PROVE  LaterStep
<1>1. CASE MarkResolved
  BY <1>1 DEF MarkResolved, LaterStep
<1>2. ASSUME NEW d \in DOMAIN all_deps,
             \/ AssignFound(d) \/ AssignRoot(d) \/ AssignFails(d)
             \/ StartPrepare(d)
             \/ PrepareFound(d) \/ PrepareRoot(d) \/ PrepareFails(d)
      PROVE  LaterStep
  BY <1>2 DEF AssignFound, AssignRoot, AssignFails, StartPrepare, PrepareFound, PrepareRoot,
              PrepareFails, LaterStep, find
<1>3. CASE PrepareDone
  BY <1>3 DEF PrepareDone, LaterStep, find
<1> QED
  BY <1>1, <1>2, <1>3 DEF LaterAction

LEMMA FindLibrarySteps ==
    ASSUME FindTypes, NEW p \in Path, FindLibrary(p)
    PROVE  FindStep
<1>1. /\ Idle /\ root = NoRoot /\ p \in todo /\ stage = "find"
      /\ p \in DOMAIN db.kind /\ db.kind[p] = "library"
  BY DEF FindLibrary, Idle
<1>2. CASE Exact(db.releases[p], request[p]) = {}
  BY <1>1, <1>2 DEF FindLibrary, NoSuchVersion, FindStep
<1>3. CASE Exact(db.releases[p], request[p]) # {}
  <2>1. PICK v \in Exact(db.releases[p], request[p]) :
           IF Package(p, v) \in db.young THEN AskServer
           ELSE /\ todo' = todo \ {p}
                /\ StartWalk(Package(p, v))
                /\ UNCHANGED <<which, request, stage, root, resolved, assigned, prepare>>
    BY <1>3 DEF FindLibrary
  <2>2. CASE AskServer
    BY <1>1, <2>2 DEF FindStep
  <2>3. CASE /\ todo' = todo \ {p}
             /\ StartWalk(Package(p, v))
             /\ UNCHANGED <<which, request, stage, root, resolved, assigned, prepare>>
    <3> DEFINE d == Package(p, v)
    <3>1. d \in Packages /\ d.ppath = p /\ d.version = v
      BY <1>1, ReleasesOfLibrary DEF Package, FindTypes
    <3>2. InDatabase(d)
      BY <1>1, <3>1 DEF InDatabase
    <3>3. Starts(d)
      BY <1>1, <2>3, <3>1, <3>2 DEF Starts, others
    <3> QED
      BY <3>1, <3>3 DEF FindStep
  <2> QED
    BY <2>1, <2>2, <2>3
<1> QED
  BY <1>2, <1>3

LEMMA FindChildSteps ==
    ASSUME FindTypes, Chosen, FindChild
    PROVE  FindStep
<1> DEFINE p == First(root.left)
           found == Exact(db.releases[p], request[root.ppath])
<1>1. /\ Idle /\ root # NoRoot /\ root.left # {} /\ stage = "find" /\ stack = <<>>
  BY DEF FindChild, Idle
<1>2. root.left \in SUBSET Path
  BY <1>1 DEF FindTypes
<1>3. p \in root.left
  BY <1>1, <1>2, FirstIn
<1>4. p \in DOMAIN db.kind /\ db.kind[p] = "library"
  BY <1>1, <1>3 DEF Chosen, Children
<1>5. CASE found = {}
  <2>1. NoSuchVersion(p)
    BY <1>5 DEF FindChild
  <2>2. Skips(p)
    BY <1>1, <1>5, <2>1 DEF NoSuchVersion, Skips, others
  <2> QED
    BY <2>2 DEF FindStep
<1>6. CASE found # {}
  <2>1. PICK v \in found :
           IF Package(p, v) \in db.young THEN AskServer
           ELSE /\ StartWalk(Package(p, v))
                /\ UNCHANGED <<which, request, stage, todo, root, resolved, assigned, prepare>>
    BY <1>6 DEF FindChild
  <2>2. CASE AskServer
    BY <1>1, <2>2 DEF FindStep
  <2>3. CASE /\ StartWalk(Package(p, v))
             /\ UNCHANGED <<which, request, stage, todo, root, resolved, assigned, prepare>>
    <3> DEFINE d == Package(p, v)
    <3>1. d \in Packages /\ d.ppath = p /\ d.version = v
      BY <1>4, ReleasesOfLibrary DEF Package, FindTypes
    <3>2. InDatabase(d)
      BY <1>4, <3>1 DEF InDatabase
    <3>3. Starts(d)
      BY <1>1, <1>3, <2>3, <3>1, <3>2 DEF Starts, others
    <3> QED
      BY <3>1, <3>3 DEF FindStep
  <2> QED
    BY <2>1, <2>2, <2>3
<1> QED
  BY <1>5, <1>6

LEMMA VisitSteps ==
    ASSUME FindTypes, Chosen, Visit
    PROVE  FindStep
<1> DEFINE top == Last(stack)
           p == First(top.left)
           needs == Needs(top.package.ppath)
           found == Exact(db.releases[p], needs[p])
<1>1. stage = "find" /\ stack # <<>> /\ top.left # {}
  BY DEF Visit
<1>2. /\ Len(stack) \in DOMAIN stack /\ top = stack[Len(stack)] /\ top \in Frames
  BY <1>1, StackTop DEF FindTypes
<1>3. top.left \in SUBSET Path /\ top.left \subseteq DOMAIN needs
      /\ InDatabase(top.package)
  BY <1>2 DEF Frames, Chosen, FindTypes
<1>4. p \in top.left
  BY <1>1, <1>3, FirstIn
<1>5. p \in DOMAIN db.kind /\ db.kind[p] = "library" /\ p \in DOMAIN needs
  BY <1>3, <1>4, NeedsFacts DEF InDatabase, FindTypes
<1>6. CASE found = {}
  <2>1. NoSuchVersion(stack[1].package.ppath)
    BY <1>6 DEF Visit
  <2>2. ~AllPublished
    BY <1>3, <1>5, <1>6 DEF AllPublished, InDatabase
  <2>3. CASE root = NoRoot
    BY <1>1, <2>1, <2>3 DEF NoSuchVersion, FindStep
  <2>4. CASE root # NoRoot
    <3>1. Skips(stack[1].package.ppath)
      BY <1>1, <2>1, <2>2, <2>4 DEF NoSuchVersion, Skips, others
    <3> QED
      BY <3>1 DEF FindStep
  <2> QED
    BY <2>3, <2>4
<1>7. CASE found # {}
  <2>1. PICK v \in found :
           IF Package(p, v) \in db.young THEN AskServer
           ELSE /\ IF Visited(Package(p, v))
                   THEN stack' = Link(top, p, Package(p, v)) /\ UNCHANGED all_deps
                   ELSE /\ stack' = Append(Link(top, p, Package(p, v)), Frame(Package(p, v)))
                        /\ all_deps' = Set(all_deps, Package(p, v),
                                           [direct |-> FALSE, deps |-> {}])
                /\ UNCHANGED <<which, request, stage, todo, root, resolved, assigned, prepare>>
    BY <1>7 DEF Visit
  <2> DEFINE d == Package(p, v)
  <2>2. d \in Packages /\ d.ppath = p /\ d.version = v
    BY <1>5, ReleasesOfLibrary DEF Package, FindTypes
  <2>3. InDatabase(d)
    BY <1>5, <2>2 DEF InDatabase
  <2>4. Reaches(d)
    BY <1>1, <1>4, <2>2, <2>3 DEF Reaches
  <2>5. CASE AskServer
    BY <1>1, <2>5 DEF FindStep
  <2>6. CASE /\ Visited(d) /\ stack' = Link(top, p, d)
             /\ UNCHANGED <<which, request, stage, todo, root, all_deps, resolved, assigned, prepare>>
    <3>1. Links(d)
      BY <2>2, <2>4, <2>6 DEF Links, Visited, others
    <3> QED
      BY <2>2, <3>1 DEF FindStep
  <2>7. CASE /\ ~Visited(d) /\ stack' = Append(Link(top, p, d), Frame(d))
             /\ all_deps' = Set(all_deps, d, [direct |-> FALSE, deps |-> {}])
             /\ UNCHANGED <<which, request, stage, todo, root, resolved, assigned, prepare>>
    <3>1. Pushes(d)
      BY <2>2, <2>4, <2>7 DEF Pushes, Visited, others
    <3> QED
      BY <2>2, <3>1 DEF FindStep
  <2> QED
    BY <2>1, <2>5, <2>6, <2>7
<1> QED
  BY <1>6, <1>7

(* Every step is one of the walk, a later one, or changes nothing.         *)
LEMMA Actions ==
    ASSUME FindTypes, Chosen, [Next]_vars
    PROVE  FindStep \/ LaterAction \/ UNCHANGED vars
<1>1. ASSUME NEW p \in Path, FindRoot(p) \/ FindLibrary(p) \/ NotFound(p)
      PROVE  FindStep
  <2>1. CASE FindRoot(p)
    BY <2>1 DEF FindStep
  <2>2. CASE FindLibrary(p)
    BY <2>2, FindLibrarySteps
  <2>3. CASE NotFound(p)
    BY <2>3 DEF NotFound, Idle, FindStep
  <2> QED
    BY <1>1, <2>1, <2>2, <2>3
<1>2. CASE RootDone
  BY <1>2 DEF RootDone, Idle, RootEnds, FindStep, others
<1>3. CASE Found
  BY <1>3 DEF Found, Idle, Marks, FindStep
<1>4. CASE Ended
  BY <1>4 DEF Ended
<1>5. CASE FindChild
  BY <1>5, FindChildSteps
<1>6. CASE Visit
  BY <1>6, VisitSteps
<1>7. CASE Return
  BY <1>7 DEF FindStep
<1> QED
  BY <1>1, <1>2, <1>3, <1>4, <1>5, <1>6, <1>7 DEF Next, LaterAction

LEMMA Steps ==
    ASSUME FindTypes, Chosen, [Next]_vars
    PROVE  FindStep \/ LaterStep \/ UNCHANGED vars
BY Actions, LaterSteps

LEMMA SameInputs ==
    ASSUME which' = which, request' = request
    PROVE  /\ db' = db /\ Inputs' = Inputs
           /\ \A d : InDatabase(d)' <=> InDatabase(d)
           /\ \A p : Needs(p)' = Needs(p) /\ Children(p)' = Children(p)
           /\ \A d, p : AskedBy(d, p)' <=> AskedBy(d, p)
           /\ \A d, deps : Admitted(d, deps)' <=> Admitted(d, deps)
           /\ \A d, deps, left : Complete(d, deps, left)' <=> Complete(d, deps, left)
           /\ AllPublished' = AllPublished /\ AskedTwice' = AskedTwice
<1>1. db' = db
  BY DEF db
<1>2. Inputs' = Inputs /\ AskedTwice' = AskedTwice
  BY DEF Inputs, AskedTwice
<1>3. \A d : InDatabase(d)' <=> InDatabase(d)
  BY <1>1 DEF InDatabase
<1>4. \A p : Needs(p)' = Needs(p)
  BY <1>1 DEF Needs
<1>5. \A p : Children(p)' = Children(p)
  BY <1>1 DEF Children
<1>6. \A d, p : AskedBy(d, p)' <=> AskedBy(d, p)
  BY <1>1 DEF AskedBy
<1>7. \A d, deps : Admitted(d, deps)' <=> Admitted(d, deps)
  BY <1>1, <1>4 DEF Admitted
<1>8. \A d, deps, left : Complete(d, deps, left)' <=> Complete(d, deps, left)
  BY <1>4 DEF Complete
<1>9. AllPublished' = AllPublished
  BY <1>1, <1>4 DEF AllPublished
<1> QED
  BY <1>1, <1>2, <1>3, <1>4, <1>5, <1>6, <1>7, <1>8, <1>9

(* A new entry in all_deps.                                                *)
LEMMA EntryMade ==
    ASSUME FindTypes, NEW d \in Packages, NEW b \in BOOLEAN,
           all_deps' = Set(all_deps, d, [direct |-> b, deps |-> {}])
    PROVE  /\ DOMAIN all_deps' = (DOMAIN all_deps) \cup {d}
           /\ all_deps' \in [DOMAIN all_deps' -> [direct : BOOLEAN, deps : SUBSET Packages]]
           /\ \A e \in (DOMAIN all_deps) \ {d} : all_deps'[e] = all_deps[e]
           /\ all_deps'[d].deps = {}
           /\ all_deps'[d].direct = b
<1> DEFINE new == [direct |-> b, deps |-> {}]
           Entries == [direct : BOOLEAN, deps : SUBSET Packages]
<1>1. new \in Entries /\ new.deps = {}
  OBVIOUS
<1>2. new.direct = b
  OBVIOUS
<1>3. all_deps \in [DOMAIN all_deps -> Entries]
  BY DEF FindTypes
<1>4. all_deps' = [z \in (DOMAIN all_deps) \cup {d} |-> IF z = d THEN new ELSE all_deps[z]]
  BY DEF Set
<1> HIDE DEF new, Entries
<1>5. /\ DOMAIN all_deps' = (DOMAIN all_deps) \cup {d}
      /\ all_deps' \in [DOMAIN all_deps' -> Entries]
      /\ \A e \in (DOMAIN all_deps) \ {d} : all_deps'[e] = all_deps[e]
      /\ all_deps'[d] = new
  BY <1>1, <1>3, <1>4
<1>6. all_deps'[d].direct = b
  BY <1>2, <1>5
<1>7. all_deps'[d].deps = {}
  BY <1>1, <1>5
<1> QED
  BY <1>5, <1>6, <1>7 DEF Entries

(* The entries when a call returns, and when the walk is over.             *)
LEMMA EntryDone ==
    ASSUME FindTypes, Return
    PROVE  /\ DOMAIN all_deps' = DOMAIN all_deps
           /\ all_deps' \in [DOMAIN all_deps -> [direct : BOOLEAN, deps : SUBSET Packages]]
           /\ \A e \in DOMAIN all_deps :
                 all_deps'[e].deps = IF e = Last(stack).package THEN Last(stack).deps
                                     ELSE all_deps[e].deps
           /\ \A e \in DOMAIN all_deps : all_deps'[e].direct = all_deps[e].direct
<1> DEFINE top == Last(stack)
           Entries == [direct : BOOLEAN, deps : SUBSET Packages]
           new == [all_deps[top.package] EXCEPT !.deps = top.deps]
<1>1. /\ stack # <<>> /\ Len(stack) \in DOMAIN stack
      /\ top = stack[Len(stack)] /\ top \in Frames
  BY StackTop DEF Return, FindTypes
<1>2. top.package \in DOMAIN all_deps /\ top.deps \in SUBSET Packages
  BY <1>1 DEF FindTypes, Frames
<1>3. all_deps' = [all_deps EXCEPT ![top.package] = new]
  BY DEF Return
<1>4. all_deps \in [DOMAIN all_deps -> Entries]
  BY DEF FindTypes
<1>5. new \in Entries /\ new.deps = top.deps
  BY <1>2, <1>4
<1>6. new.direct = all_deps[top.package].direct
  BY <1>2, <1>4
<1> HIDE DEF new, Entries
<1>7. /\ DOMAIN all_deps' = DOMAIN all_deps
      /\ all_deps' \in [DOMAIN all_deps -> Entries]
      /\ \A e \in DOMAIN all_deps :
            all_deps'[e] = IF e = top.package THEN new ELSE all_deps[e]
  BY <1>2, <1>3, <1>4, <1>5
<1>8. \A e \in DOMAIN all_deps :
         all_deps'[e].deps = IF e = top.package THEN top.deps ELSE all_deps[e].deps
  BY <1>5, <1>7
<1>9. \A e \in DOMAIN all_deps : all_deps'[e].direct = all_deps[e].direct
  BY <1>6, <1>7
<1> QED
  BY <1>7, <1>8, <1>9 DEF Entries

LEMMA EntriesMarked ==
    ASSUME FindTypes, Marks
    PROVE  /\ DOMAIN all_deps' = DOMAIN all_deps
           /\ all_deps' \in [DOMAIN all_deps -> [direct : BOOLEAN, deps : SUBSET Packages]]
           /\ \A e \in DOMAIN all_deps : all_deps'[e].deps = all_deps[e].deps \ {e}
           /\ \A e \in DOMAIN all_deps : all_deps'[e].direct = all_deps[e].direct
<1> DEFINE Entries == [direct : BOOLEAN, deps : SUBSET Packages]
           new(d) == [all_deps[d] EXCEPT !.deps = @ \ {d}]
<1>1. all_deps \in [DOMAIN all_deps -> Entries]
  BY DEF FindTypes
<1>2. all_deps' = [d \in DOMAIN all_deps |-> new(d)]
  BY DEF Marks
<1>3. \A d \in DOMAIN all_deps : new(d) \in Entries /\ new(d).deps = all_deps[d].deps \ {d}
  BY <1>1
<1>4. \A d \in DOMAIN all_deps : new(d).direct = all_deps[d].direct
  BY <1>1
<1> HIDE DEF new, Entries
<1>5. /\ DOMAIN all_deps' = DOMAIN all_deps
      /\ all_deps' \in [DOMAIN all_deps -> Entries]
      /\ \A d \in DOMAIN all_deps : all_deps'[d] = new(d)
  BY <1>2, <1>3
<1>6. \A e \in DOMAIN all_deps : all_deps'[e].deps = all_deps[e].deps \ {e}
  BY <1>3, <1>5
<1>7. \A e \in DOMAIN all_deps : all_deps'[e].direct = all_deps[e].direct
  BY <1>4, <1>5
<1> QED
  BY <1>5, <1>6, <1>7 DEF Entries

(* The stack when something is linked, and perhaps walked into.            *)
LEMMA WalkedOn ==
    ASSUME FindTypes, NEW d, Links(d) \/ Pushes(d)
    PROVE  /\ stack' \in Seq(Frames) /\ Len(stack) \in Nat \ {0}
           /\ DOMAIN stack = 1..Len(stack) /\ DOMAIN stack' = 1..Len(stack')
           /\ Links(d) => Len(stack') = Len(stack)
           /\ Pushes(d) => Len(stack') = Len(stack) + 1 /\ stack'[Len(stack) + 1] = Frame(d)
           /\ \A i \in 1..Len(stack) : stack'[i].package = stack[i].package
           /\ \A i \in 1..Len(stack) : i # Len(stack) => stack'[i] = stack[i]
           /\ stack'[Len(stack)].left = stack[Len(stack)].left \ {d.ppath}
           /\ stack'[Len(stack)].deps = stack[Len(stack)].deps \cup {d}
           /\ Last(stack) = stack[Len(stack)] /\ Last(stack) \in Frames
<1> DEFINE n == Len(stack)
           linked == Link(Last(stack), d.ppath, d)
<1>1. Reaches(d) /\ stack # <<>> /\ stack \in Seq(Frames)
  BY DEF Links, Pushes, Reaches, FindTypes
<1>2. InDatabase(d) /\ d \in Packages /\ Frame(d) \in Frames
  BY <1>1, FrameType DEF Reaches, InDatabase, FindTypes
<1>3. /\ n \in Nat \ {0} /\ DOMAIN stack = 1..n
      /\ Last(stack) = stack[n] /\ Last(stack) \in Frames
  BY <1>1, StackTop
<1>4. /\ linked \in Seq(Frames) /\ Len(linked) = n
      /\ \A i \in 1..n : i # n => linked[i] = stack[i]
      /\ linked[n] = [package |-> Last(stack).package,
                      left |-> Last(stack).left \ {d.ppath},
                      deps |-> Last(stack).deps \cup {d}]
  BY <1>1, <1>2, LinkedStack
<1>5. Links(d) => stack' = linked
  BY DEF Links
<1>6. Pushes(d) => stack' = Append(linked, Frame(d))
  BY DEF Pushes
<1> HIDE DEF linked
<1>7. /\ linked[n].package = stack[n].package /\ linked[n].left = stack[n].left \ {d.ppath}
      /\ linked[n].deps = stack[n].deps \cup {d}
  <2>1. linked[n].package = Last(stack).package
    BY <1>4
  <2>2. linked[n].left = Last(stack).left \ {d.ppath}
    BY <1>4
  <2>3. linked[n].deps = Last(stack).deps \cup {d}
    BY <1>4
  <2> QED
    BY <1>3, <2>1, <2>2, <2>3
<1>8. \A i \in 1..n : linked[i].package = stack[i].package
  BY <1>4, <1>7
<1> HIDE DEF n
<1>9. linked \in Seq(Frames) /\ Len(linked) = n /\ \A i \in 1..n : i # n => linked[i] = stack[i]
  BY <1>4
<1>10. n \in 1..n
  BY <1>3
<1>11. CASE Links(d) /\ ~Pushes(d)
  <2>1. stack' = linked /\ DOMAIN linked = 1..n
    BY <1>5, <1>9, <1>11
  <2> QED
    BY <1>3, <1>7, <1>8, <1>9, <1>11, <2>1 DEF n
<1>12. CASE Pushes(d)
  <2>1. /\ stack' \in Seq(Frames) /\ Len(stack') = n + 1 /\ stack'[n + 1] = Frame(d)
        /\ \A i \in 1..n : stack'[i] = linked[i]
    BY <1>2, <1>6, <1>9, <1>12, PushedStack
  <2>2. ~Links(d)
    BY <1>12 DEF Links, Pushes
  <2>3. DOMAIN stack' = 1..Len(stack')
    BY <2>1
  <2>4. /\ \A i \in 1..n : stack'[i].package = stack[i].package
        /\ \A i \in 1..n : i # n => stack'[i] = stack[i]
    BY <1>8, <1>9, <2>1
  <2>5. stack'[n].left = stack[n].left \ {d.ppath} /\ stack'[n].deps = stack[n].deps \cup {d}
    BY <1>7, <1>10, <2>1
  <2> QED
    BY <1>3, <1>12, <2>1, <2>2, <2>3, <2>4, <2>5 DEF n
<1> QED
  BY <1>11, <1>12

(* The stack when a call returns.                                          *)
LEMMA Returned ==
    ASSUME FindTypes, Return
    PROVE  /\ stack' \in Seq(Frames) /\ Len(stack) \in Nat \ {0} /\ Len(stack') = Len(stack) - 1
           /\ DOMAIN stack = 1..Len(stack) /\ DOMAIN stack' = 1..(Len(stack) - 1)
           /\ \A i \in DOMAIN stack' : i \in DOMAIN stack /\ stack'[i] = stack[i]
           /\ Last(stack) = stack[Len(stack)] /\ Last(stack) \in Frames
           /\ Last(stack).package \in DOMAIN all_deps
<1>1. stack \in Seq(Frames) /\ stack # <<>> /\ stack' = Front(stack)
  BY DEF Return, FindTypes
<1>2. /\ Len(stack) \in Nat \ {0} /\ DOMAIN stack = 1..Len(stack)
      /\ Last(stack) = stack[Len(stack)] /\ Last(stack) \in Frames
  BY <1>1, StackTop
<1>3. /\ stack' \in Seq(Frames) /\ Len(stack') = Len(stack) - 1
      /\ \A i \in 1..(Len(stack) - 1) : stack'[i] = stack[i]
  BY <1>1, PoppedStack
<1> QED
  BY <1>2, <1>3 DEF FindTypes

LEMMA FindTypesKept ==
    ASSUME FindTypes, Chosen, [Next]_vars
    PROVE  FindTypes'
<1> DEFINE Entries == [direct : BOOLEAN, deps : SUBSET Packages]
           Roots == [ppath : Path, left : SUBSET Path, n : Nat]
<1>1. CASE UNCHANGED vars
  BY <1>1 DEF vars, FindTypes, Inputs, Searching, InDatabase, db
<1>2. CASE LaterStep
  <2>1. db' = db /\ Inputs' = Inputs
    BY <1>2, SameInputs DEF LaterStep
  <2> QED
    BY <1>2, <2>1 DEF FindTypes, LaterStep, Searching, InDatabase, Stages
<1>3. CASE stage = "find" /\ AskServer
  <2>1. db' = db /\ Inputs' = Inputs
    BY <1>3, SameInputs DEF AskServer
  <2> QED
    BY <1>3, <2>1 DEF FindTypes, AskServer, Searching, InDatabase, Stages
<1>4. ASSUME NEW p \in Path, FindRoot(p)
      PROVE  FindTypes'
  <2>1. db' = db /\ Inputs' = Inputs /\ stage = "find"
    BY <1>4, SameInputs DEF FindRoot, Idle
  <2>2. Children(p) \subseteq Path
    BY DbFacts DEF Children, FindTypes
  <2>3. root' \in Roots
    BY <1>4, <2>2 DEF FindRoot
  <2>4. todo' \subseteq DOMAIN request'
    BY <1>4, <2>1 DEF FindRoot, FindTypes
  <2> QED
    BY <1>4, <2>1, <2>3, <2>4 DEF FindRoot, FindTypes, Searching, InDatabase
<1>5. ASSUME NEW d \in Packages, Starts(d)
      PROVE  FindTypes'
  <2>1. /\ db' = db /\ Inputs' = Inputs /\ stage = "find" /\ stage' = stage
        /\ request' = request /\ root' = root /\ InDatabase(d)
    BY <1>5, SameInputs DEF Starts, Idle, others
  <2>2. stack' = <<Frame(d)>> /\ all_deps' = Set(all_deps, d, [direct |-> TRUE, deps |-> {}])
    BY <1>5 DEF Starts, StartWalk
  <2>3. Frame(d) \in Frames /\ Frame(d).package = d /\ Frame(d).deps = {}
    BY <2>1, FrameType DEF FindTypes, Frame
  <2>4. stack' \in Seq(Frames) /\ DOMAIN stack' = {1} /\ stack'[1] = Frame(d)
    BY <2>2, <2>3
  <2>5. /\ DOMAIN all_deps' = (DOMAIN all_deps) \cup {d}
        /\ all_deps' \in [DOMAIN all_deps' -> Entries]
        /\ \A e \in (DOMAIN all_deps) \ {d} : all_deps'[e] = all_deps[e]
        /\ all_deps'[d].deps = {}
    BY <2>2, EntryMade
  <2>6. todo' \subseteq DOMAIN request'
    BY <1>5, <2>1 DEF Starts, FindTypes
  <2>7. \A e \in DOMAIN all_deps' : InDatabase(e)' /\ all_deps'[e].deps \subseteq DOMAIN all_deps'
    BY <2>1, <2>5 DEF FindTypes, InDatabase
  <2>8. \A i \in DOMAIN stack' : /\ stack'[i].package \in DOMAIN all_deps'
                                 /\ stack'[i].deps \subseteq DOMAIN all_deps'
    BY <2>3, <2>4, <2>5
  <2> QED
    BY <2>1, <2>4, <2>5, <2>6, <2>7, <2>8 DEF FindTypes, Searching
<1>6. ASSUME NEW q, Skips(q)
      PROVE  FindTypes'
  <2>1. db' = db /\ Inputs' = Inputs /\ stage = "find" /\ stage' = stage
    BY <1>6, SameInputs DEF Skips, others
  <2>2. root \in Roots
    BY <1>6 DEF Skips, FindTypes
  <2>3. root' \in Roots
    BY <1>6, <2>2 DEF Skips
  <2>4. stack' = <<>> /\ stack' \in Seq(Frames) /\ DOMAIN stack' = {}
    BY <1>6 DEF Skips
  <2> QED
    BY <1>6, <2>1, <2>3, <2>4 DEF FindTypes, Skips, others, Searching, InDatabase
<1>7. ASSUME NEW d \in Packages, Links(d)
      PROVE  FindTypes'
  <2> DEFINE n == Len(stack)
  <2>1. /\ db' = db /\ Inputs' = Inputs /\ stage = "find" /\ stage' = stage
        /\ d \in DOMAIN all_deps /\ UNCHANGED <<request, todo, root, all_deps>>
    BY <1>7, SameInputs DEF Links, Reaches, others
  <2>2. /\ stack' \in Seq(Frames) /\ n \in Nat \ {0} /\ DOMAIN stack = 1..n /\ DOMAIN stack' = 1..n
        /\ \A i \in 1..n : stack'[i].package = stack[i].package
        /\ \A i \in 1..n : i # n => stack'[i] = stack[i]
        /\ stack'[n].deps = stack[n].deps \cup {d}
    BY <1>7, WalkedOn
  <2>3. \A i \in DOMAIN stack' : stack'[i].package \in DOMAIN all_deps
    BY <2>2 DEF FindTypes
  <2>4. \A i \in DOMAIN stack' : stack'[i].deps \subseteq DOMAIN all_deps
    BY <2>1, <2>2 DEF FindTypes
  <2> QED
    BY <2>1, <2>2, <2>3, <2>4 DEF FindTypes, Searching, InDatabase
<1>8. ASSUME NEW d \in Packages, Pushes(d)
      PROVE  FindTypes'
  <2> DEFINE n == Len(stack)
  <2>1. /\ db' = db /\ Inputs' = Inputs /\ stage = "find" /\ stage' = stage /\ InDatabase(d)
        /\ UNCHANGED <<request, todo, root>>
    BY <1>8, SameInputs DEF Pushes, Reaches, others
  <2>2. /\ stack' \in Seq(Frames) /\ n \in Nat \ {0} /\ DOMAIN stack = 1..n /\ DOMAIN stack' = 1..(n + 1)
        /\ \A i \in 1..n : stack'[i].package = stack[i].package
        /\ \A i \in 1..n : i # n => stack'[i] = stack[i]
        /\ stack'[n].deps = stack[n].deps \cup {d} /\ stack'[n + 1] = Frame(d)
    BY <1>8, WalkedOn
  <2>3. /\ DOMAIN all_deps' = (DOMAIN all_deps) \cup {d}
        /\ all_deps' \in [DOMAIN all_deps' -> Entries]
        /\ \A e \in (DOMAIN all_deps) \ {d} : all_deps'[e] = all_deps[e]
        /\ all_deps'[d].deps = {}
    BY <1>8, EntryMade DEF Pushes
  <2>4. Frame(d).package = d /\ Frame(d).deps = {}
    BY DEF Frame
  <2>5. \A i \in DOMAIN stack' : stack'[i].package \in DOMAIN all_deps'
    <3>1. \A i \in 1..n : stack'[i].package \in DOMAIN all_deps'
      BY <2>2, <2>3 DEF FindTypes
    <3> QED
      BY <2>2, <2>3, <2>4, <3>1
  <2>6. \A i \in DOMAIN stack' : stack'[i].deps \subseteq DOMAIN all_deps'
    <3>1. \A i \in 1..n : stack'[i].deps \subseteq DOMAIN all_deps'
      BY <2>2, <2>3 DEF FindTypes
    <3> QED
      BY <2>2, <2>3, <2>4, <3>1
  <2>7. \A e \in DOMAIN all_deps' : InDatabase(e)' /\ all_deps'[e].deps \subseteq DOMAIN all_deps'
    BY <2>1, <2>3 DEF FindTypes, InDatabase
  <2> QED
    BY <2>1, <2>2, <2>3, <2>5, <2>6, <2>7 DEF FindTypes, Searching
<1>9. CASE Return
  <2>1. /\ db' = db /\ Inputs' = Inputs /\ stage = "find" /\ stage' = stage
        /\ UNCHANGED <<request, todo>>
    BY <1>9, SameInputs DEF Return
  <2>2. /\ stack' \in Seq(Frames) /\ \A i \in DOMAIN stack' : i \in DOMAIN stack /\ stack'[i] = stack[i]
        /\ Len(stack) \in DOMAIN stack /\ Last(stack) = stack[Len(stack)]
    BY <1>9, Returned
  <2>3. /\ DOMAIN all_deps' = DOMAIN all_deps
        /\ all_deps' \in [DOMAIN all_deps -> Entries]
        /\ \A e \in DOMAIN all_deps :
              all_deps'[e].deps = IF e = Last(stack).package THEN Last(stack).deps
                                  ELSE all_deps[e].deps
    BY <1>9, EntryDone
  <2>4. Last(stack).deps \subseteq DOMAIN all_deps
    BY <2>2 DEF FindTypes
  <2>5. \A e \in DOMAIN all_deps' : InDatabase(e)' /\ all_deps'[e].deps \subseteq DOMAIN all_deps'
    BY <2>1, <2>3, <2>4 DEF FindTypes, InDatabase
  <2>6. root' = NoRoot \/ root' \in Roots
    <3>1. CASE root' = root
      BY <3>1 DEF FindTypes
    <3>2. CASE /\ root # NoRoot
               /\ root' = [ppath |-> root.ppath, left |-> root.left \ {Last(stack).package.ppath},
                           n |-> root.n + 1]
      BY <3>2 DEF FindTypes
    <3> QED
      BY <1>9, <3>1, <3>2 DEF Return
  <2> QED
    BY <2>1, <2>2, <2>3, <2>5, <2>6 DEF FindTypes, Searching
<1>10. CASE RootEnds
  <2>1. db' = db /\ Inputs' = Inputs /\ stage = "find"
    BY <1>10, SameInputs DEF RootEnds, others, Idle
  <2> QED
    BY <1>10, <2>1 DEF RootEnds, FindTypes, others, Searching, InDatabase
<1>11. CASE Marks
  <2>1. /\ db' = db /\ Inputs' = Inputs /\ stage = "find" /\ stage' = "mark"
        /\ UNCHANGED <<request, todo, root, stack>> /\ stack = <<>> /\ root = NoRoot
    BY <1>11, SameInputs DEF Marks, Idle
  <2>2. /\ DOMAIN all_deps' = DOMAIN all_deps
        /\ all_deps' \in [DOMAIN all_deps -> Entries]
        /\ \A e \in DOMAIN all_deps : all_deps'[e].deps = all_deps[e].deps \ {e}
    BY <1>11, EntriesMarked
  <2>3. \A e \in DOMAIN all_deps' : InDatabase(e)' /\ all_deps'[e].deps \subseteq DOMAIN all_deps'
    BY <2>1, <2>2 DEF FindTypes, InDatabase
  <2> QED
    BY <2>1, <2>2, <2>3 DEF FindTypes, Searching, Stages
<1> QED
  BY <1>1, <1>2, <1>3, <1>4, <1>5, <1>6, <1>7, <1>8, <1>9, <1>10, <1>11, Steps DEF FindStep

(* The packages that were asked for.                                       *)
LEMMA DirectAfter ==
    ASSUME FindTypes
    PROVE  /\ all_deps' = all_deps => Direct' = Direct
           /\ \A d \in Packages : Starts(d) => Direct' = Direct \cup {d}
           /\ \A d \in Packages : Pushes(d) => Direct' = Direct
           /\ Return \/ Marks => Direct' = Direct
<1>1. all_deps' = all_deps => Direct' = Direct
  BY DEF Direct
<1>2. ASSUME NEW d \in Packages, Starts(d)
      PROVE  Direct' = Direct \cup {d}
  <2>1. /\ DOMAIN all_deps' = (DOMAIN all_deps) \cup {d}
        /\ \A e \in (DOMAIN all_deps) \ {d} : all_deps'[e] = all_deps[e]
        /\ all_deps'[d].direct = TRUE
    BY <1>2, EntryMade DEF Starts, StartWalk
  <2> QED
    BY <2>1 DEF Direct
<1>3. ASSUME NEW d \in Packages, Pushes(d)
      PROVE  Direct' = Direct
  <2>1. /\ DOMAIN all_deps' = (DOMAIN all_deps) \cup {d} /\ d \notin DOMAIN all_deps
        /\ \A e \in (DOMAIN all_deps) \ {d} : all_deps'[e] = all_deps[e]
        /\ all_deps'[d].direct = FALSE
    BY <1>3, EntryMade DEF Pushes
  <2>2. ~all_deps'[d].direct
    BY <2>1, Zenon
  <2> QED
    BY <2>1, <2>2 DEF Direct
<1>4. CASE Return \/ Marks
  <2>1. /\ DOMAIN all_deps' = DOMAIN all_deps
        /\ \A e \in DOMAIN all_deps : all_deps'[e].direct = all_deps[e].direct
    BY <1>4, EntryDone, EntriesMarked
  <2>2. \A e \in DOMAIN all_deps : all_deps'[e].direct <=> all_deps[e].direct
    BY <2>1, Zenon
  <2>3. \A e : e \in Direct <=> e \in DOMAIN all_deps /\ all_deps[e].direct
    BY Zenon DEF Direct
  <2>4. \A e : e \in Direct' <=> e \in DOMAIN all_deps /\ all_deps'[e].direct
    BY <2>1, Zenon DEF Direct
  <2>5. \A e : e \in Direct' <=> e \in Direct
    BY <2>2, <2>3, <2>4, Zenon
  <2> QED
    BY <2>5
<1> QED
  BY <1>1, <1>2, <1>3, <1>4

LEMMA ChosenKept ==
    ASSUME FindTypes, Chosen, [Next]_vars
    PROVE  Chosen'
<1> DEFINE AllAsked == \A d \in Direct : \E p \in DOMAIN request : AskedBy(d, p)
           AllAdmitted == \A d \in DOMAIN all_deps : Admitted(d, all_deps[d].deps)
           StackAdmitted == \A i \in DOMAIN stack :
               /\ Admitted(stack[i].package, stack[i].deps)
               /\ stack[i].left \subseteq DOMAIN Needs(stack[i].package.ppath)
           RootAsked == root # NoRoot =>
               /\ root.ppath \in DOMAIN request /\ root.ppath \in DOMAIN db.kind
               /\ db.kind[root.ppath] = "root" /\ root.left \subseteq Children(root.ppath)
<1>1. ASSUME UNCHANGED <<which, request, root, stack, all_deps>>
      PROVE  Chosen'
  BY <1>1, SameInputs DEF Chosen, Direct
<1>2. ASSUME NEW p \in Path, FindRoot(p)
      PROVE  Chosen'
  <2>1. which' = which /\ request' = request /\ stack' = stack /\ all_deps' = all_deps
    BY <1>2 DEF FindRoot
  <2>2. AllAsked' /\ AllAdmitted' /\ StackAdmitted'
    BY <2>1, SameInputs DEF Chosen, Direct
  <2>3. /\ root' = [ppath |-> p, left |-> Children(p), n |-> 0] /\ p \in DOMAIN request
        /\ p \in DOMAIN db.kind /\ db.kind[p] = "root"
    BY <1>2 DEF FindRoot, FindTypes, Idle
  <2>4. RootAsked'
    BY <2>1, <2>3, SameInputs
  <2> QED
    BY <2>2, <2>4 DEF Chosen
<1>3. ASSUME NEW d \in Packages, Starts(d)
      PROVE  Chosen'
  <2>1. which' = which /\ request' = request /\ root' = root /\ stage = "find"
    BY <1>3 DEF Starts, others, Idle
  <2>2. /\ DOMAIN all_deps' = (DOMAIN all_deps) \cup {d}
        /\ \A e \in (DOMAIN all_deps) \ {d} : all_deps'[e] = all_deps[e]
        /\ all_deps'[d].deps = {}
    BY <1>3, EntryMade DEF Starts, StartWalk
  <2>3. \E p \in DOMAIN request : AskedBy(d, p)
    <3>1. CASE /\ d.ppath \in todo
               /\ d.version \in Exact(db.releases[d.ppath], request[d.ppath])
      BY <2>1, <3>1 DEF FindTypes, AskedBy
    <3>2. CASE /\ root # NoRoot /\ d.ppath \in root.left
               /\ d.version \in Exact(db.releases[d.ppath], request[root.ppath])
      BY <3>2 DEF Chosen, AskedBy, Children
    <3> QED
      BY <1>3, <3>1, <3>2 DEF Starts
  <2>4. Direct' = Direct \cup {d}
    BY <1>3, DirectAfter
  <2>5. AllAsked'
    BY <2>1, <2>3, <2>4, SameInputs DEF Chosen
  <2>6. AllAdmitted'
    <3>1. \A e \in DOMAIN all_deps' : Admitted(e, all_deps'[e].deps)
      BY <2>2 DEF Chosen, Admitted
    <3> QED
      BY <2>1, <3>1, SameInputs
  <2>7. StackAdmitted'
    <3>1. stack' = <<Frame(d)>>
      BY <1>3 DEF Starts, StartWalk
    <3>2. DOMAIN stack' = {1} /\ stack'[1] = Frame(d)
      BY <3>1
    <3>3. /\ Frame(d).deps = {} /\ Frame(d).package = d
          /\ Frame(d).left = DOMAIN Needs(d.ppath)
      BY DEF Frame
    <3>4. \A i \in DOMAIN stack' :
             /\ Admitted(stack'[i].package, stack'[i].deps)
             /\ stack'[i].left \subseteq DOMAIN Needs(stack'[i].package.ppath)
      BY <3>2, <3>3 DEF Admitted
    <3> QED
      BY <2>1, <3>4, SameInputs
  <2>8. RootAsked'
    BY <2>1, SameInputs DEF Chosen
  <2> QED
    BY <2>5, <2>6, <2>7, <2>8 DEF Chosen
<1>4. ASSUME NEW q, Skips(q)
      PROVE  Chosen'
  <2>1. which' = which /\ request' = request /\ all_deps' = all_deps /\ stack' = <<>>
    BY <1>4 DEF Skips, others
  <2>2. AllAsked' /\ AllAdmitted'
    BY <2>1, SameInputs DEF Chosen, Direct
  <2>3. StackAdmitted'
    BY <2>1
  <2>4. root \in [ppath : Path, left : SUBSET Path, n : Nat] /\ root # NoRoot
    BY <1>4 DEF Skips, FindTypes
  <2>5. root'.ppath = root.ppath /\ root'.left = root.left \ {q}
    BY <1>4, <2>4 DEF Skips
  <2>6. RootAsked'
    BY <2>1, <2>4, <2>5, SameInputs DEF Chosen
  <2> QED
    BY <2>2, <2>3, <2>6 DEF Chosen
<1>5. ASSUME NEW d \in Packages, Links(d) \/ Pushes(d)
      PROVE  Chosen'
  <2> DEFINE n == Len(stack)
  <2>1. which' = which /\ request' = request /\ root' = root /\ Reaches(d)
    BY <1>5 DEF Links, Pushes, others
  <2>2. Direct' = Direct
    BY <1>5, DirectAfter DEF Links
  <2>3. AllAsked'
    BY <2>1, <2>2, SameInputs DEF Chosen
  <2>4. AllAdmitted'
    <3>1. CASE all_deps' = all_deps
      BY <2>1, <3>1, SameInputs DEF Chosen
    <3>2. CASE Pushes(d)
      <4>1. /\ DOMAIN all_deps' = (DOMAIN all_deps) \cup {d}
            /\ \A e \in (DOMAIN all_deps) \ {d} : all_deps'[e] = all_deps[e]
            /\ all_deps'[d].deps = {}
        BY <3>2, EntryMade DEF Pushes
      <4>2. \A e \in DOMAIN all_deps' : Admitted(e, all_deps'[e].deps)
        BY <4>1 DEF Chosen, Admitted
      <4> QED
        BY <2>1, <4>2, SameInputs
    <3> QED
      BY <1>5, <3>1, <3>2 DEF Links
  <2>5. /\ n \in 1..n /\ DOMAIN stack = 1..n /\ DOMAIN stack' = 1..Len(stack')
        /\ Links(d) => Len(stack') = n
        /\ Pushes(d) => Len(stack') = n + 1 /\ stack'[n + 1] = Frame(d)
        /\ \A i \in 1..n : stack'[i].package = stack[i].package
        /\ \A i \in 1..n : i # n => stack'[i] = stack[i]
        /\ stack'[n].left = stack[n].left \ {d.ppath}
        /\ stack'[n].deps = stack[n].deps \cup {d} /\ Last(stack) = stack[n] /\ n \in Nat
    BY <1>5, WalkedOn
  <2>6. \A i \in 1..n :
           /\ Admitted(stack'[i].package, stack'[i].deps)
           /\ stack'[i].left \subseteq DOMAIN Needs(stack'[i].package.ppath)
    <3> TAKE i \in 1..n
    <3>0. /\ Admitted(stack[i].package, stack[i].deps)
          /\ stack[i].left \subseteq DOMAIN Needs(stack[i].package.ppath)
      BY <2>5 DEF Chosen
    <3>1. CASE i # n
      BY <2>5, <3>0, <3>1
    <3>2. CASE i = n
      <4>1. d.ppath \in stack[n].left
            /\ d.version \in Exact(db.releases[d.ppath], Needs(stack[n].package.ppath)[d.ppath])
        BY <2>1, <2>5 DEF Reaches
      <4>2. Admitted(stack[n].package, stack[n].deps \cup {d})
        BY <3>0, <3>2, <4>1 DEF Admitted
      <4> QED
        BY <2>5, <3>0, <3>2, <4>2
    <3> QED
      BY <3>1, <3>2
  <2>7. Pushes(d) => /\ Admitted(stack'[n + 1].package, stack'[n + 1].deps)
                     /\ stack'[n + 1].left \subseteq DOMAIN Needs(stack'[n + 1].package.ppath)
    <3>1. /\ Frame(d).deps = {} /\ Frame(d).package = d
          /\ Frame(d).left = DOMAIN Needs(d.ppath)
      BY DEF Frame
    <3>2. Pushes(d) => stack'[n + 1] = Frame(d)
      BY <2>5
    <3>3. Admitted(d, {})
      BY DEF Admitted
    <3> HIDE DEF n
    <3> QED
      BY <3>1, <3>2, <3>3
  <2>8. DOMAIN stack' = 1..n \/ (Pushes(d) /\ DOMAIN stack' = (1..n) \cup {n + 1})
    <3>1. n \in Nat /\ (Links(d) => DOMAIN stack' = 1..n) /\ (Pushes(d) => DOMAIN stack' = 1..(n + 1))
      BY <2>5
    <3> HIDE DEF n
    <3>2. 1..(n + 1) = (1..n) \cup {n + 1}
      BY <3>1
    <3> QED
      BY <1>5, <3>1, <3>2
  <2>9. StackAdmitted'
    BY <2>1, <2>6, <2>7, <2>8, SameInputs
  <2>10. RootAsked'
    BY <2>1, SameInputs DEF Chosen
  <2> QED
    BY <2>3, <2>4, <2>9, <2>10 DEF Chosen
<1>6. CASE Return
  <2>1. which' = which /\ request' = request /\ Direct' = Direct
    BY <1>6, DirectAfter DEF Return
  <2>2. AllAsked'
    BY <2>1, SameInputs DEF Chosen
  <2>3. /\ \A i \in DOMAIN stack' : i \in DOMAIN stack /\ stack'[i] = stack[i]
        /\ Len(stack) \in DOMAIN stack /\ Last(stack) = stack[Len(stack)]
    BY <1>6, Returned
  <2>4. AllAdmitted'
    <3>1. /\ DOMAIN all_deps' = DOMAIN all_deps
          /\ \A e \in DOMAIN all_deps :
                all_deps'[e].deps = IF e = Last(stack).package THEN Last(stack).deps
                                    ELSE all_deps[e].deps
      BY <1>6, EntryDone
    <3>2. Admitted(Last(stack).package, Last(stack).deps)
      BY <2>3 DEF Chosen
    <3>3. \A e \in DOMAIN all_deps' : Admitted(e, all_deps'[e].deps)
      BY <3>1, <3>2 DEF Chosen
    <3> QED
      BY <2>1, <3>3, SameInputs
  <2>5. StackAdmitted'
    BY <2>1, <2>3, SameInputs DEF Chosen
  <2>6. RootAsked'
    <3>1. CASE root' = root
      BY <2>1, <3>1, SameInputs DEF Chosen
    <3>2. CASE /\ root # NoRoot
               /\ root' = [ppath |-> root.ppath, left |-> root.left \ {Last(stack).package.ppath},
                           n |-> root.n + 1]
      BY <2>1, <3>2, SameInputs DEF Chosen
    <3> QED
      BY <1>6, <3>1, <3>2 DEF Return
  <2> QED
    BY <2>2, <2>4, <2>5, <2>6 DEF Chosen
<1>7. CASE RootEnds
  <2>1. /\ which' = which /\ request' = request /\ all_deps' = all_deps /\ stack' = stack
        /\ root' = NoRoot
    BY <1>7 DEF RootEnds, others
  <2>2. AllAsked' /\ AllAdmitted' /\ StackAdmitted'
    BY <2>1, SameInputs DEF Chosen, Direct
  <2>3. RootAsked'
    BY <2>1 DEF NoRoot
  <2> QED
    BY <2>2, <2>3 DEF Chosen
<1>8. CASE Marks
  <2>1. /\ which' = which /\ request' = request /\ stack' = stack /\ root' = root
        /\ Direct' = Direct
    BY <1>8, DirectAfter DEF Marks
  <2>2. AllAsked' /\ StackAdmitted' /\ RootAsked'
    BY <2>1, SameInputs DEF Chosen
  <2>3. AllAdmitted'
    <3>1. /\ DOMAIN all_deps' = DOMAIN all_deps
          /\ \A e \in DOMAIN all_deps : all_deps'[e].deps = all_deps[e].deps \ {e}
      BY <1>8, EntriesMarked
    <3>2. \A e \in DOMAIN all_deps' : Admitted(e, all_deps'[e].deps)
      BY <3>1 DEF Chosen, Admitted
    <3> QED
      BY <2>1, <3>2, SameInputs
  <2> QED
    BY <2>2, <2>3 DEF Chosen
<1>9. CASE LaterStep
  BY <1>1, <1>9 DEF LaterStep
<1>10. CASE UNCHANGED vars
  BY <1>1, <1>10 DEF vars
<1>11. CASE AskServer
  BY <1>1, <1>11 DEF AskServer
<1> QED
  BY <1>2, <1>3, <1>4, <1>5, <1>6, <1>7, <1>8, <1>9, <1>10, <1>11, Steps DEF FindStep

-----------------------------------------------------------------------------
(* The walk.                                                               *)

LEMMA NoReentryKept ==
    ASSUME FindTypes, Chosen, NoReentry, [Next]_vars
    PROVE  NoReentry'
<1>1. CASE stack' = stack
  BY <1>1 DEF NoReentry
<1>2. ASSUME NEW d \in Packages, Starts(d)
      PROVE  NoReentry'
  <2>1. stack' = <<Frame(d)>>
    BY <1>2 DEF Starts, StartWalk
  <2>2. DOMAIN stack' = {1}
    BY <2>1
  <2> QED
    BY <2>2 DEF NoReentry
<1>3. ASSUME NEW q, Skips(q)
      PROVE  NoReentry'
  BY <1>3 DEF Skips, NoReentry
<1>4. ASSUME NEW d \in Packages, Links(d) \/ Pushes(d)
      PROVE  NoReentry'
  <2> DEFINE n == Len(stack)
  <2>1. /\ n \in Nat /\ DOMAIN stack = 1..n /\ DOMAIN stack' = 1..Len(stack')
        /\ Links(d) => Len(stack') = n
        /\ Pushes(d) => Len(stack') = n + 1
        /\ \A i \in 1..n : stack'[i].package = stack[i].package
    BY <1>4, WalkedOn
  <2>2. Pushes(d) => stack'[n + 1].package = d
    <3>1. Pushes(d) => stack'[n + 1] = Frame(d)
      BY <1>4, WalkedOn
    <3> HIDE DEF n
    <3> QED
      BY <3>1 DEF Frame
  <2>3. Pushes(d) => \A i \in 1..n : stack[i].package # d
    BY <2>1 DEF Pushes, FindTypes
  <2> HIDE DEF n
  <2>4. \A i, j \in 1..n : stack[i].package = stack[j].package => i = j
    BY <2>1 DEF NoReentry
  <2>5. CASE Links(d)
    BY <2>1, <2>4, <2>5 DEF NoReentry
  <2>6. CASE Pushes(d)
    <3>1. DOMAIN stack' = (1..n) \cup {n + 1}
      BY <2>1, <2>6
    <3>2. \A i \in 1..n : stack'[i].package # stack'[n + 1].package
      BY <2>1, <2>2, <2>3, <2>6
    <3>3. \A i, j \in DOMAIN stack' : stack'[i].package = stack'[j].package => i = j
      BY <2>1, <2>4, <3>1, <3>2
    <3> QED
      BY <3>3 DEF NoReentry
  <2> QED
    BY <1>4, <2>5, <2>6
<1>5. CASE Return
  <2>1. \A i \in DOMAIN stack' : i \in DOMAIN stack /\ stack'[i] = stack[i]
    BY <1>5, Returned
  <2> QED
    BY <2>1 DEF NoReentry
<1>6. FindStep \/ LaterStep \/ UNCHANGED vars
  BY Steps
<1>7. CASE LaterStep \/ UNCHANGED vars
  BY <1>1, <1>7 DEF LaterStep, vars
<1>8. CASE FindStep
  BY <1>1, <1>2, <1>3, <1>4, <1>5, <1>8
  DEF FindStep, AskServer, FindRoot, RootEnds, Marks, others
<1> QED
  BY <1>6, <1>7, <1>8

LEMMA ClosingKept ==
    ASSUME FindTypes, Chosen, Closing, [Next]_vars
    PROVE  Closing'
<1> SUFFICES ASSUME AllPublished'
             PROVE  Closing'
  BY DEF Closing

<1>0. which' = which /\ request' = request /\ AllPublished
  <2>1. which' = which /\ request' = request
    BY Steps DEF FindStep, LaterStep, vars, AskServer, FindRoot, Starts, Skips, Links, Pushes,
                 Return, RootEnds, Marks, others
  <2> QED
    BY <2>1, SameInputs
<1>1. /\ \A d \in DOMAIN all_deps :
            OnStack(d) \/ Complete(d, all_deps[d].deps, IF Searching THEN {} ELSE {d.ppath})
      /\ \A i \in DOMAIN stack : Complete(stack[i].package, stack[i].deps, stack[i].left)
  BY <1>0 DEF Closing
<1>2. CASE UNCHANGED <<stack, all_deps>> /\ (Searching' <=> Searching)
  BY <1>0, <1>1, <1>2, SameInputs DEF Closing, OnStack
<1>3. ASSUME stage = "find"
      PROVE  Searching /\ (stage' = stage => Searching')
             /\ \A d \in DOMAIN all_deps : OnStack(d) \/ Complete(d, all_deps[d].deps, {})
  BY <1>1, <1>3 DEF Searching
<1>4. ASSUME stage' = "find",
             \A d \in DOMAIN all_deps' : OnStack(d)' \/ Complete(d, all_deps'[d].deps, {}),
             \A i \in DOMAIN stack' : Complete(stack'[i].package, stack'[i].deps, stack'[i].left)
      PROVE  Closing'
  <2>1. Searching'
    BY <1>4 DEF Searching
  <2> QED
    BY <1>0, <1>4, <2>1, SameInputs DEF Closing
<1>5. ASSUME NEW d \in Packages, Starts(d)
      PROVE  Closing'
  <2>1. stage = "find" /\ stage' = "find" /\ stack = <<>> /\ stack' = <<Frame(d)>>
    BY <1>5 DEF Starts, StartWalk, Idle, others
  <2>2. DOMAIN stack' = {1} /\ stack'[1] = Frame(d) /\ DOMAIN stack = {}
    BY <2>1
  <2>3. /\ Frame(d).deps = {} /\ Frame(d).package = d
        /\ Frame(d).left = DOMAIN Needs(d.ppath)
    BY DEF Frame
  <2>4. /\ DOMAIN all_deps' = (DOMAIN all_deps) \cup {d}
        /\ \A e \in (DOMAIN all_deps) \ {d} : all_deps'[e] = all_deps[e]
    BY <1>5, EntryMade DEF Starts, StartWalk
  <2>5. OnStack(d)'
    BY <2>2, <2>3 DEF OnStack
  <2>6. \A e \in (DOMAIN all_deps) \ {d} : Complete(e, all_deps[e].deps, {})
    BY <1>3, <2>1, <2>2 DEF OnStack
  <2>7. \A e \in DOMAIN all_deps' : OnStack(e)' \/ Complete(e, all_deps'[e].deps, {})
    BY <2>4, <2>5, <2>6
  <2>8. Complete(d, {}, DOMAIN Needs(d.ppath))
    BY DEF Complete
  <2>9. \A i \in DOMAIN stack' : Complete(stack'[i].package, stack'[i].deps, stack'[i].left)
    BY <2>2, <2>3, <2>8
  <2> QED
    BY <1>4, <2>1, <2>7, <2>9
<1>6. ASSUME NEW q, Skips(q)
      PROVE  Closing'
  BY <1>0, <1>2, <1>6 DEF Skips, others, Searching
<1>7. ASSUME NEW d \in Packages, Links(d) \/ Pushes(d)
      PROVE  Closing'
  <2> DEFINE n == Len(stack)
  <2>1. stage = "find" /\ stage' = "find"
    BY <1>7 DEF Links, Pushes, Reaches, others
  <2>2. /\ n \in 1..n /\ n \in Nat /\ DOMAIN stack = 1..n /\ DOMAIN stack' = 1..Len(stack')
        /\ Links(d) => Len(stack') = n
        /\ Pushes(d) => Len(stack') = n + 1
        /\ \A i \in 1..n : stack'[i].package = stack[i].package
        /\ \A i \in 1..n : i # n => stack'[i] = stack[i]
        /\ stack'[n].left = stack[n].left \ {d.ppath}
        /\ stack'[n].deps = stack[n].deps \cup {d}
    BY <1>7, WalkedOn
  <2>3. Pushes(d) => /\ stack'[n + 1].package = d /\ stack'[n + 1].deps = {}
                     /\ stack'[n + 1].left = DOMAIN Needs(d.ppath)
    <3>1. Pushes(d) => stack'[n + 1] = Frame(d)
      BY <1>7, WalkedOn
    <3> HIDE DEF n
    <3> QED
      BY <3>1 DEF Frame
  <2> HIDE DEF n
  <2>4. \A i \in 1..n : Complete(stack'[i].package, stack'[i].deps, stack'[i].left)
    <3> TAKE i \in 1..n
    <3>1. Complete(stack[i].package, stack[i].deps, stack[i].left)
      BY <1>1, <2>2
    <3>2. CASE i # n
      BY <2>2, <3>1, <3>2
    <3>3. CASE i = n
      <4>1. Complete(stack[n].package, stack[n].deps \cup {d}, stack[n].left \ {d.ppath})
        BY <3>1, <3>3 DEF Complete
      <4> QED
        BY <2>2, <3>3, <4>1
    <3> QED
      BY <3>2, <3>3
  <2>5. \A e : OnStack(e) => OnStack(e)'
    <3>1. 1..n \subseteq DOMAIN stack'
      BY <1>7, <2>2
    <3> QED
      BY <2>2, <3>1 DEF OnStack
  <2>6. CASE Links(d)
    <3>1. all_deps' = all_deps /\ DOMAIN stack' = 1..n
      BY <2>2, <2>6 DEF Links
    <3>2. \A e \in DOMAIN all_deps' : OnStack(e)' \/ Complete(e, all_deps'[e].deps, {})
      BY <1>3, <2>1, <2>5, <3>1
    <3> QED
      BY <1>4, <2>1, <2>4, <3>1, <3>2
  <2>7. CASE Pushes(d)
    <3>1. DOMAIN stack' = (1..n) \cup {n + 1}
      BY <2>2, <2>7
    <3>2. /\ DOMAIN all_deps' = (DOMAIN all_deps) \cup {d}
          /\ \A e \in (DOMAIN all_deps) \ {d} : all_deps'[e] = all_deps[e]
      BY <2>7, EntryMade DEF Pushes
    <3>3. OnStack(d)'
      BY <2>3, <2>7, <3>1 DEF OnStack
    <3>4. \A e \in DOMAIN all_deps' : OnStack(e)' \/ Complete(e, all_deps'[e].deps, {})
      BY <1>3, <2>1, <2>5, <3>2, <3>3
    <3>5. Complete(d, {}, DOMAIN Needs(d.ppath))
      BY DEF Complete
    <3>6. \A i \in DOMAIN stack' : Complete(stack'[i].package, stack'[i].deps, stack'[i].left)
      BY <2>3, <2>4, <2>7, <3>1, <3>5
    <3> QED
      BY <1>4, <2>1, <3>4, <3>6
  <2> QED
    BY <1>7, <2>6, <2>7
<1>8. CASE Return
  <2> DEFINE top == Last(stack)
  <2>1. stage = "find" /\ stage' = "find" /\ top.left = {}
    BY <1>8 DEF Return
  <2>2. /\ Len(stack) \in Nat \ {0} /\ DOMAIN stack = 1..Len(stack)
        /\ DOMAIN stack' = 1..(Len(stack) - 1) /\ top = stack[Len(stack)]
        /\ \A i \in DOMAIN stack' : i \in DOMAIN stack /\ stack'[i] = stack[i]
    BY <1>8, Returned
  <2>3. /\ DOMAIN all_deps' = DOMAIN all_deps
        /\ \A e \in DOMAIN all_deps :
              all_deps'[e].deps = IF e = top.package THEN top.deps ELSE all_deps[e].deps
    BY <1>8, EntryDone
  <2>4. Complete(top.package, top.deps, {})
    <3>1. Len(stack) \in DOMAIN stack
      BY <2>2
    <3>2. Complete(stack[Len(stack)].package, stack[Len(stack)].deps, stack[Len(stack)].left)
      BY <1>1, <3>1
    <3>3. stack[Len(stack)] = top
      BY <2>2
    <3> HIDE DEF top
    <3> QED
      BY <2>1, <3>2, <3>3
  <2> HIDE DEF top
  <2>5. \A e : OnStack(e) /\ e # top.package => OnStack(e)'
    BY <2>2 DEF OnStack
  <2>6. \A e \in DOMAIN all_deps' : OnStack(e)' \/ Complete(e, all_deps'[e].deps, {})
    BY <1>3, <2>1, <2>3, <2>4, <2>5
  <2>7. \A i \in DOMAIN stack' : Complete(stack'[i].package, stack'[i].deps, stack'[i].left)
    BY <1>1, <2>2
  <2> QED
    BY <1>4, <2>1, <2>6, <2>7
<1>9. CASE Marks
  <2>1. stage = "find" /\ stage' = "mark" /\ stack = <<>> /\ stack' = <<>>
    BY <1>9 DEF Marks, Idle
  <2>2. /\ DOMAIN all_deps' = DOMAIN all_deps
        /\ \A e \in DOMAIN all_deps : all_deps'[e].deps = all_deps[e].deps \ {e}
    BY <1>9, EntriesMarked
  <2>3. \A e \in DOMAIN all_deps : Complete(e, all_deps[e].deps, {})
    BY <1>3, <2>1 DEF OnStack
  <2>4. \A e \in DOMAIN all_deps' : Complete(e, all_deps'[e].deps, {e.ppath})
    BY <2>2, <2>3 DEF Complete
  <2>5. ~Searching'
    BY <2>1 DEF Searching
  <2> QED
    BY <1>0, <2>1, <2>4, <2>5, SameInputs DEF Closing
<1>10. CASE LaterStep \/ UNCHANGED vars
  BY <1>2, <1>10 DEF LaterStep, vars, Searching
<1>11. CASE FindStep
  BY <1>2, <1>5, <1>6, <1>7, <1>8, <1>9, <1>11
  DEF FindStep, AskServer, FindRoot, RootEnds, others, Searching, Idle
<1> QED
  BY <1>10, <1>11, Steps

(* What was found for a root project stays found.                          *)
LEMMA FoundGrows ==
    ASSUME which' = which, request' = request, Direct \subseteq Direct'
    PROVE  /\ \A q, v : AllFound(q, v) => AllFound(q, v)'
           /\ \A r : HasChild(r) => HasChild(r)'
<1>1. db' = db
  BY SameInputs
<1> QED
  BY <1>1 DEF AllFound, HasChild

LEMMA RootFoundKept ==
    ASSUME which' = which, request' = request, Direct \subseteq Direct',
           NEW r, RootFound(r),
           \/ root' = root
           \/ root.ppath # r
           \/ /\ root'.ppath = root.ppath
              /\ \E q : root'.left = root.left \ {q} /\ AllFound(q, request[r])
    PROVE  RootFound(r)'
<1>1. /\ \A q, v : AllFound(q, v) => AllFound(q, v)'
      /\ HasChild(r) => HasChild(r)'
  BY FoundGrows
<1>2. Children(r)' = Children(r)
  BY SameInputs
<1>3. CASE root' = root
  BY <1>1, <1>2, <1>3 DEF RootFound
<1>4. CASE root.ppath # r
  BY <1>1, <1>2, <1>4 DEF RootFound
<1>5. CASE /\ root'.ppath = root.ppath
           /\ \E q : root'.left = root.left \ {q} /\ AllFound(q, request[r])
  BY <1>1, <1>2, <1>5 DEF RootFound
<1> QED
  BY <1>3, <1>4, <1>5

(* The child that the walk started from is the only release there is.      *)
LEMMA ChildFound ==
    ASSUME FindTypes, FirstOfRoot, root # NoRoot, stack # <<>>
    PROVE  /\ AllFound(stack[1].package.ppath, request[root.ppath])
           /\ HasChild(root.ppath)
<1> DEFINE d == stack[1].package
           found == Exact(db.releases[d.ppath], request[root.ppath])
<1>1. d \in Direct /\ d.ppath \in Children(root.ppath) /\ d.version \in found
  BY DEF FirstOfRoot
<1>2. d \in Packages /\ d.ppath \in DOMAIN db.kind
  BY <1>1 DEF FindTypes, InDatabase, Direct
<1>3. AreReleases(db.releases[d.ppath])
  BY <1>2, DbFacts DEF FindTypes
<1>4. \A w \in found : w = d.version
  BY <1>1, <1>3, ExactUnique
<1>5. Package(d.ppath, d.version) = d
  BY <1>2 DEF Packages, Package
<1>6. is_root_of(root.ppath, d.ppath)
  BY <1>1 DEF Children
<1> HIDE DEF d
<1>7. AllFound(d.ppath, request[root.ppath])
  BY <1>1, <1>4, <1>5 DEF AllFound
<1> QED
  BY <1>1, <1>6, <1>7 DEF HasChild, d

LEMMA RootedKept ==
    ASSUME FindTypes, Chosen, Rooted, [Next]_vars
    PROVE  Rooted'
<1>0. FindTypes' /\ <<>> \notin Path /\ DOMAIN request \subseteq Path
  BY FindTypesKept, RequestFacts, ResolutionAssumption DEF FindTypes
<1>1. /\ FirstOfRoot /\ Counted /\ LibrariesFound /\ RootsFound
  BY DEF Rooted
<1>2. ASSUME UNCHANGED <<which, request, root, stack, all_deps>>, Looked' = Looked
      PROVE  Rooted'
  <2>1. Direct' = Direct /\ db' = db
    BY <1>2, DirectAfter, SameInputs
  <2>2. FirstOfRoot' /\ Counted'
    BY <1>1, <1>2, <2>1, SameInputs DEF FirstOfRoot, Counted, HasChild
  <2>3. LibrariesFound'
    BY <1>1, <1>2, <2>1 DEF LibrariesFound
  <2>4. RootsFound'
    BY <1>1, <1>2, <2>1, RootFoundKept DEF RootsFound
  <2> QED
    BY <2>2, <2>3, <2>4 DEF Rooted
<1>3. ASSUME NEW p \in Path, FindRoot(p)
      PROVE  Rooted'
  <2>1. /\ which' = which /\ request' = request /\ stack' = stack /\ all_deps' = all_deps
        /\ stage = "find" /\ stage' = "find" /\ stack = <<>> /\ root = NoRoot
        /\ p \in todo /\ todo' = todo \ {p} /\ p \in DOMAIN db.kind /\ db.kind[p] = "root"
        /\ root' = [ppath |-> p, left |-> Children(p), n |-> 0]
    BY <1>3 DEF FindRoot, Idle
  <2>2. Direct' = Direct /\ db' = db /\ \A q : Children(q)' = Children(q)
    BY <2>1, DirectAfter, SameInputs
  <2>3. p \in DOMAIN request /\ Looked' = Looked \cup {p}
    BY <2>1 DEF Looked, Searching, FindTypes
  <2>4. FirstOfRoot' /\ Counted'
    BY <2>1 DEF FirstOfRoot, Counted
  <2>5. LibrariesFound'
    BY <1>1, <2>1, <2>2, <2>3 DEF LibrariesFound
  <2>6. RootFound(p)'
    BY <2>1, <2>2 DEF RootFound
  <2>7. \A r \in Looked : root.ppath # r
    BY <1>0, <2>1 DEF NoRoot, Looked
  <2>8. \A r \in Looked : RootFound(r) => RootFound(r)'
    BY <2>1, <2>2, <2>7, RootFoundKept
  <2>9. RootsFound'
    BY <1>1, <2>2, <2>3, <2>6, <2>8 DEF RootsFound
  <2> QED
    BY <2>4, <2>5, <2>9 DEF Rooted
<1>4. ASSUME NEW d \in Packages, Starts(d)
      PROVE  Rooted'
  <2>1. /\ which' = which /\ request' = request /\ root' = root
        /\ stage = "find" /\ stage' = "find" /\ stack = <<>> /\ stack' = <<Frame(d)>>
        /\ InDatabase(d)
    BY <1>4 DEF Starts, Idle, StartWalk, others
  <2>2. Direct' = Direct \cup {d} /\ db' = db /\ \A q : Children(q)' = Children(q)
    BY <1>4, <2>1, DirectAfter, SameInputs
  <2>3. stack'[1].package = d
    BY <2>1 DEF Frame
  <2>4. FirstOfRoot'
    <3> SUFFICES ASSUME root # NoRoot
                 PROVE  FirstOfRoot'
      BY <2>1 DEF FirstOfRoot
    <3>1. d.ppath \in root.left /\ d.version \in Exact(db.releases[d.ppath], request[root.ppath])
      BY <1>4 DEF Starts
    <3>2. d.ppath \in Children(root.ppath)
      BY <3>1 DEF Chosen
    <3> QED
      BY <2>1, <2>2, <2>3, <3>1, <3>2 DEF FirstOfRoot
  <2>5. Counted'
    BY <1>1, <2>1, <2>2, FoundGrows DEF Counted
  <2>6. Looked' = Looked \/ Looked' = Looked \cup {d.ppath}
    BY <1>4, <2>1 DEF Starts, Looked, Searching, FindTypes
  <2>7. d.ppath \in DOMAIN db.kind /\ db.kind[d.ppath] = "library"
    BY <2>1 DEF InDatabase
  <2>8. LibrariesFound'
    <3>1. \A r \in Looked' : /\ r \in DOMAIN db.kind
                             /\ db.kind[r] = "library" => \E e \in Direct' : e.ppath = r
      BY <1>1, <2>2, <2>6, <2>7 DEF LibrariesFound
    <3> QED
      BY <2>2, <3>1 DEF LibrariesFound
  <2>9. RootsFound'
    <3>1. \A r \in Looked : RootFound(r) => RootFound(r)'
      BY <2>1, <2>2, RootFoundKept
    <3>2. \A r \in Looked' : db.kind[r] = "root" => r \in Looked
      BY <2>6, <2>7
    <3> QED
      BY <1>1, <2>2, <3>1, <3>2 DEF RootsFound
  <2> QED
    BY <2>4, <2>5, <2>8, <2>9 DEF Rooted
(* The child that the walk is at is done with, with or without success.    *)
<1>5. ASSUME UNCHANGED <<which, request, todo, stage>>, Direct' = Direct, stack' = <<>>,
             root # NoRoot, root'.ppath = root.ppath, root'.n # 0 => HasChild(root.ppath),
             \E q : root'.left = root.left \ {q} /\ AllFound(q, request[root.ppath])
      PROVE  Rooted'
  <2>1. db' = db
    BY <1>5, SameInputs
  <2>2. FirstOfRoot'
    BY <1>5 DEF FirstOfRoot
  <2>3. Counted'
    BY <1>5, FoundGrows DEF Counted
  <2>4. Looked' = Looked
    BY <1>5 DEF Looked, Searching
  <2>5. LibrariesFound'
    BY <1>1, <1>5, <2>1, <2>4 DEF LibrariesFound
  <2>6. \A r \in Looked : RootFound(r) => RootFound(r)'
    BY <1>5, RootFoundKept
  <2>7. RootsFound'
    BY <1>1, <2>1, <2>4, <2>6 DEF RootsFound
  <2> QED
    BY <2>2, <2>3, <2>5, <2>7 DEF Rooted
<1>6. ASSUME NEW q, Skips(q)
      PROVE  Rooted'
  <2>1. /\ UNCHANGED <<which, request, todo, stage, all_deps>> /\ stack' = <<>> /\ root # NoRoot
        /\ root' = [root EXCEPT !.left = @ \ {q}]
    BY <1>6 DEF Skips, others
  <2>2. root \in [ppath : Path, left : SUBSET Path, n : Nat]
    BY <2>1 DEF FindTypes
  <2>3. root'.ppath = root.ppath /\ root'.left = root.left \ {q} /\ root'.n = root.n
    BY <2>1, <2>2
  <2>4. AllFound(q, request[root.ppath])
    <3>1. CASE Exact(db.releases[q], request[root.ppath]) = {}
      BY <3>1 DEF AllFound
    <3>2. CASE stack # <<>> /\ q = stack[1].package.ppath
      BY <1>1, <2>1, <3>2, ChildFound
    <3> QED
      BY <1>6, <3>1, <3>2 DEF Skips
  <2>5. root'.n # 0 => HasChild(root.ppath)
    BY <1>1, <2>1, <2>3 DEF Counted
  <2>6. Direct' = Direct
    BY <2>1, DirectAfter
  <2> QED
    BY <1>5, <2>1, <2>3, <2>4, <2>5, <2>6
<1>7. ASSUME UNCHANGED <<which, request, root, todo, stage>>, Direct' = Direct,
             stack # <<>>, stack' # <<>> => stack'[1].package = stack[1].package
      PROVE  Rooted'
  <2>1. db' = db /\ \A q : Children(q)' = Children(q)
    BY <1>7, SameInputs
  <2>2. FirstOfRoot'
    BY <1>1, <1>7, <2>1 DEF FirstOfRoot
  <2>3. Counted'
    BY <1>1, <1>7, FoundGrows DEF Counted
  <2>4. Looked' = Looked
    BY <1>7 DEF Looked, Searching
  <2>5. LibrariesFound'
    BY <1>1, <1>7, <2>1, <2>4 DEF LibrariesFound
  <2>6. \A r \in Looked : RootFound(r) => RootFound(r)'
    BY <1>7, RootFoundKept
  <2>7. RootsFound'
    BY <1>1, <2>1, <2>4, <2>6 DEF RootsFound
  <2> QED
    BY <2>2, <2>3, <2>5, <2>7 DEF Rooted
<1>8. ASSUME NEW d \in Packages, Links(d) \/ Pushes(d)
      PROVE  Rooted'
  <2>1. UNCHANGED <<which, request, root, todo, stage>> /\ stack # <<>>
    BY <1>8 DEF Links, Pushes, Reaches, others
  <2>2. Direct' = Direct
    BY <1>8, DirectAfter DEF Links
  <2>3. Len(stack) \in Nat \ {0} /\ \A i \in 1..Len(stack) : stack'[i].package = stack[i].package
    BY <1>8, WalkedOn
  <2>4. stack'[1].package = stack[1].package
    BY <2>3
  <2> QED
    BY <1>7, <2>1, <2>2, <2>4
<1>9. CASE Return
  <2>1. UNCHANGED <<which, request, todo, stage>> /\ Direct' = Direct /\ stack # <<>>
    BY <1>9, DirectAfter DEF Return
  <2>2. /\ Len(stack) \in Nat \ {0} /\ Len(stack') = Len(stack) - 1 /\ stack' \in Seq(Frames)
        /\ \A i \in DOMAIN stack' : stack'[i] = stack[i]
        /\ Last(stack) = stack[Len(stack)] /\ DOMAIN stack' = 1..(Len(stack) - 1)
    BY <1>9, Returned
  <2>3. CASE root' = root
    <3>1. stack' # <<>> => 1 \in DOMAIN stack'
      BY <2>2
    <3>2. stack' # <<>> => stack'[1].package = stack[1].package
      BY <2>2, <3>1
    <3> QED
      BY <1>7, <2>1, <2>3, <3>2
  <2>4. CASE root # NoRoot /\ Len(stack) = 1
    <3>1. stack' = <<>> /\ Last(stack) = stack[1]
      BY <2>2, <2>4
    <3>2. root' = [ppath |-> root.ppath, left |-> root.left \ {Last(stack).package.ppath},
                   n |-> root.n + 1]
      BY <1>9, <2>4 DEF Return
    <3>3. /\ AllFound(stack[1].package.ppath, request[root.ppath])
          /\ HasChild(root.ppath)
      BY <1>1, <2>1, <2>4, ChildFound
    <3>4. root'.ppath = root.ppath /\ root'.left = root.left \ {stack[1].package.ppath}
      BY <3>1, <3>2
    <3> QED
      BY <1>5, <2>1, <2>4, <3>1, <3>3, <3>4
  <2> QED
    BY <1>9, <2>2, <2>3, <2>4 DEF Return
<1>10. CASE RootEnds
  <2>1. /\ which' = which /\ request' = request /\ UNCHANGED <<todo, stage, stack, all_deps>>
        /\ stack = <<>> /\ root' = NoRoot /\ root # NoRoot /\ root.left = {} /\ root.n # 0
    BY <1>10 DEF RootEnds, Idle, others
  <2>2. Direct' = Direct /\ db' = db
    BY <2>1, DirectAfter, SameInputs
  <2>3. FirstOfRoot' /\ Counted'
    BY <2>1 DEF FirstOfRoot, Counted
  <2>4. Looked' = Looked
    BY <2>1 DEF Looked, Searching
  <2>5. LibrariesFound'
    BY <1>1, <2>2, <2>4 DEF LibrariesFound
  <2>6. HasChild(root.ppath)
    BY <1>1, <2>1 DEF Counted
  <2>7. ASSUME NEW r, RootFound(r), r = root.ppath
        PROVE  RootFound(r)'
    <3>1. HasChild(r) /\ \A q \in Children(r) : AllFound(q, request[r])
      BY <2>1, <2>6, <2>7 DEF RootFound
    <3> QED
      BY <2>1, <2>2, <3>1, FoundGrows, SameInputs DEF RootFound
  <2>8. \A r \in Looked : RootFound(r) => RootFound(r)'
    BY <2>1, <2>2, <2>7, RootFoundKept
  <2>9. RootsFound'
    BY <1>1, <2>2, <2>4, <2>8 DEF RootsFound
  <2> QED
    BY <2>3, <2>5, <2>9 DEF Rooted
<1>11. CASE Marks
  <2>1. /\ which' = which /\ request' = request /\ root' = root /\ stack' = stack
        /\ stack = <<>> /\ root = NoRoot /\ todo = {} /\ stage = "find" /\ stage' = "mark"
    BY <1>11 DEF Marks, Idle
  <2>2. Direct' = Direct /\ db' = db
    BY <1>11, <2>1, DirectAfter, SameInputs
  <2>3. FirstOfRoot' /\ Counted'
    BY <2>1 DEF FirstOfRoot, Counted
  <2>4. Looked' = Looked
    BY <2>1 DEF Looked, Searching
  <2>5. LibrariesFound'
    BY <1>1, <2>2, <2>4 DEF LibrariesFound
  <2>6. \A r \in Looked : RootFound(r) => RootFound(r)'
    BY <2>1, <2>2, RootFoundKept
  <2>7. RootsFound'
    BY <1>1, <2>2, <2>4, <2>6 DEF RootsFound
  <2> QED
    BY <2>3, <2>5, <2>7 DEF Rooted
<1>12. CASE stage = "find" /\ AskServer
  <2>1. Looked' = Looked
    BY <1>12 DEF AskServer, Looked, Searching
  <2> QED
    BY <1>2, <1>12, <2>1 DEF AskServer
<1>13. CASE LaterStep
  <2>1. Looked' = Looked
    BY <1>13 DEF LaterStep, Looked, Searching
  <2> QED
    BY <1>2, <1>13, <2>1 DEF LaterStep
<1>14. CASE UNCHANGED vars
  <2>1. Looked' = Looked
    BY <1>14 DEF vars, Looked, Searching
  <2> QED
    BY <1>2, <1>14, <2>1 DEF vars
<1> QED
  BY <1>3, <1>4, <1>6, <1>8, <1>9, <1>10, <1>11, <1>12, <1>13, <1>14, Steps DEF FindStep

(* What the walk leaves behind once it is over.                            *)
LEMMA WalkDone ==
    ASSUME FindTypes, Walk, Resolved
    PROVE  /\ WalkRight
           /\ \A r \in DOMAIN request : r \in DOMAIN db.kind
           /\ \A r \in DOMAIN request : db.kind[r] = "library" => \E d \in Direct : d.ppath = r
           /\ \A r \in DOMAIN request : db.kind[r] = "root" => HasChild(r)
<1>1. /\ ~Searching /\ root = NoRoot /\ stack = <<>> /\ Looked = DOMAIN request
      /\ NoReentry /\ Closing /\ LibrariesFound /\ RootsFound
  BY DEF Resolved, Searching, FindTypes, Looked, Walk, Rooted
<1>2. \A r \in DOMAIN request : root.ppath # r
  BY <1>1, RequestFacts, ResolutionAssumption DEF NoRoot, FindTypes
<1>3. \A r \in DOMAIN request : db.kind[r] = "root" =>
        HasChild(r) /\ \A q \in Children(r) : AllFound(q, request[r])
  BY <1>1, <1>2 DEF RootsFound, RootFound
<1>4. RootChildren
  BY <1>3 DEF RootChildren, AllFound
<1>5. ClosedDeps
  <2> SUFFICES ASSUME AllPublished, NEW d \in DOMAIN all_deps
               PROVE  /\ all_deps[d].deps \subseteq DOMAIN all_deps
                      /\ \A q \in (DOMAIN Needs(d.ppath)) \ {d.ppath} :
                            \E e \in all_deps[d].deps : e.ppath = q
    BY DEF ClosedDeps
  <2>1. ~OnStack(d)
    BY <1>1 DEF OnStack
  <2>2. OnStack(d) \/ Complete(d, all_deps[d].deps, IF Searching THEN {} ELSE {d.ppath})
    BY <1>1 DEF Closing
  <2>3. Complete(d, all_deps[d].deps, {d.ppath})
    BY <1>1, <2>1, <2>2
  <2> QED
    BY <2>3 DEF Complete, FindTypes
<1> QED
  BY <1>1, <1>3, <1>4, <1>5 DEF WalkRight, LibrariesFound

(* A version that stands for a release can be upgraded to it.              *)
LEMMA ChosenIsNewest ==
    ASSUME FindTypes, Chosen
    PROVE  NewestChosen
<1>1. ASSUME NEW q \in DOMAIN db.kind, NEW asked \in Version, isValid(asked)
      PROVE  Exact(db.releases[q], asked) \subseteq Upgrades(db.releases[q], asked)
  BY <1>1, DbFacts, ExactUpgrades DEF FindTypes
<1>2. ASSUME NEW d \in Direct
      PROVE  \E p \in DOMAIN request :
                /\ p = d.ppath \/ is_root_of(p, d.ppath)
                /\ d.version \in Upgrades(db.releases[d.ppath], request[p])
  <2>1. PICK p \in DOMAIN request : AskedBy(d, p)
    BY DEF Chosen
  <2>2. d.ppath \in DOMAIN db.kind /\ request[p] \in Version /\ isValid(request[p])
    BY RequestFacts DEF FindTypes, InDatabase, Direct
  <2> QED
    BY <1>1, <2>1, <2>2 DEF AskedBy
<1>3. ASSUME NEW d \in DOMAIN all_deps, NEW e \in all_deps[d].deps
      PROVE  e.version \in Upgrades(db.releases[e.ppath], Needs(d.ppath)[e.ppath])
  <2> DEFINE asked == Needs(d.ppath)[e.ppath]
  <2>1. e.ppath \in DOMAIN Needs(d.ppath) /\ e.version \in Exact(db.releases[e.ppath], asked)
    BY DEF Chosen, Admitted
  <2>2. d.ppath \in DOMAIN db.kind
    BY DEF FindTypes, InDatabase
  <2>3. e.ppath \in DOMAIN db.kind /\ asked \in Version /\ isValid(asked)
    BY <2>1, <2>2, NeedsFacts DEF FindTypes
  <2> QED
    BY <1>1, <2>1, <2>3
<1> QED
  BY <1>2, <1>3 DEF NewestChosen

-----------------------------------------------------------------------------
(* The replacement of root projects.                                       *)

LEMMA Replaced ==
    ASSUME NEW deps, NEW packages, NEW new \in ReplaceRoots(deps, packages)
    PROVE  /\ \A p \in DOMAIN deps : (\A d \in packages : ~is_root_of(p, d.ppath)) =>
                 p \in DOMAIN new /\ new[p] = deps[p]
           /\ \A d \in packages : (\E r \in DOMAIN deps : is_root_of(r, d.ppath)) =>
                 d.ppath \in DOMAIN new
           /\ \A p \in DOMAIN new :
                 \/ /\ p \in DOMAIN deps /\ new[p] = deps[p]
                    /\ \A d \in packages : ~is_root_of(p, d.ppath)
                 \/ Package(p, new[p]) \in packages
<1> DEFINE below == {d \in packages : \E r \in DOMAIN deps : is_root_of(r, d.ppath)}
           kept == {p \in DOMAIN deps : \A d \in packages : ~is_root_of(p, d.ppath)}
           added == {d.ppath : d \in below} \ kept
<1>1. PICK g : /\ new = [p \in kept \cup added |-> IF p \in kept THEN deps[p] ELSE g[p]]
               /\ \A p \in added : Package(p, g[p]) \in below
  BY DEF ReplaceRoots
<1>2. \A p \in DOMAIN new : \/ p \in kept /\ new[p] = deps[p]
                            \/ Package(p, new[p]) \in packages
  BY <1>1
<1>3. \A p \in kept : p \in DOMAIN new /\ new[p] = deps[p]
  BY <1>1
<1>4. \A d \in below : d.ppath \in DOMAIN new
  BY <1>1
<1> QED
  BY <1>2, <1>3, <1>4

LEMMA ReplacedTypes ==
    ASSUME NEW deps, NEW packages \in SUBSET Packages, NEW new \in ReplaceRoots(deps, packages),
           DOMAIN deps \subseteq Path, Range(deps) \subseteq Version
    PROVE  DOMAIN new \subseteq Path /\ Range(new) \subseteq Version
<1>1. \A p \in DOMAIN new : \/ p \in DOMAIN deps /\ new[p] = deps[p]
                            \/ Package(p, new[p]) \in packages
  BY Replaced
<1>2. ASSUME NEW p \in DOMAIN new
      PROVE  p \in Path /\ new[p] \in Version
  <2>1. CASE p \in DOMAIN deps /\ new[p] = deps[p]
    BY <2>1 DEF Range
  <2>2. CASE Package(p, new[p]) \in packages
    BY <2>2 DEF Package, Packages
  <2> QED
    BY <1>1, <2>1, <2>2
<1> QED
  BY <1>2 DEF Range

LEMMA FindStepKeeps ==
    ASSUME FindStep
    PROVE  /\ stage = "find" /\ stage' \in {"find", "remote", "mark"}
           /\ UNCHANGED <<which, request, resolved, assigned, pkg, project, prepared>>
BY DEF FindStep, AskServer, FindRoot, Starts, Skips, Links, Pushes, Return, RootEnds, Marks,
       Reaches, Idle, others, prepare

LEMMA LaterTypesKept ==
    ASSUME FindTypes, Chosen, LaterTypes, [Next]_vars
    PROVE  LaterTypes'
<1>0. FindTypes' /\ DOMAIN request \subseteq Path /\ Range(request) \subseteq Version
      /\ DOMAIN all_deps \subseteq Packages /\ Direct \subseteq DOMAIN all_deps
  BY FindTypesKept, RequestFacts DEF FindTypes, Range, InDatabase, Direct
<1>1. CASE UNCHANGED vars
  BY <1>1 DEF vars, LaterTypes, Direct
<1>2. CASE FindStep
  <2>1. /\ stage = "find" /\ stage' \in {"find", "remote", "mark"}
        /\ UNCHANGED <<which, request, resolved, assigned, pkg, project, prepared>>
    BY <1>2, FindStepKeeps
  <2> QED
    BY <2>1 DEF LaterTypes
<1>3. CASE MarkResolved
  <2> DEFINE keys == {k \in {Request(p) : p \in DOMAIN request} \cup Direct : Becomes(k) # {}}
  <2>1. resolved' \in [keys -> DOMAIN all_deps] /\ stage = "mark" /\ stage' = "assign"
        /\ todo' = Direct /\ assigned' = request /\ UNCHANGED <<all_deps, pkg, project, prepared>>
    BY <1>3 DEF MarkResolved, prepare
  <2>2. keys \subseteq Packages
    BY <1>0, RequestFacts DEF FindTypes, Request, Package, Packages
  <2>3. DOMAIN resolved' \subseteq Packages /\ Range(resolved') \subseteq Packages
    BY <1>0, <2>1, <2>2 DEF Range
  <2>4. Direct' = Direct
    BY <2>1 DEF Direct
  <2> QED
    BY <1>0, <2>1, <2>3, <2>4 DEF LaterTypes
<1>4. ASSUME NEW d \in DOMAIN all_deps, AssignFound(d)
      PROVE  LaterTypes'
  <2>1. /\ stage = "assign" /\ stage' = "assign" /\ todo' = todo \ {d}
        /\ assigned' = [assigned EXCEPT ![d.ppath] = d.version]
        /\ UNCHANGED <<all_deps, resolved, pkg, project, prepared>>
    BY <1>4 DEF AssignFound, prepare
  <2>2. d.version \in Version
    BY <1>0 DEF Packages
  <2>3. DOMAIN assigned' = DOMAIN assigned /\ Range(assigned') \subseteq Version
    BY <2>1, <2>2 DEF LaterTypes, Range
  <2>4. Direct' = Direct
    BY <2>1 DEF Direct
  <2> QED
    BY <2>1, <2>3, <2>4 DEF LaterTypes
<1>5. ASSUME NEW d \in DOMAIN all_deps, AssignRoot(d)
      PROVE  LaterTypes'
  <2>1. /\ stage = "assign" /\ stage' = "assign" /\ todo' = todo \ {d}
        /\ assigned' \in ReplaceRoots(assigned, DOMAIN all_deps)
        /\ UNCHANGED <<all_deps, resolved, pkg, project, prepared>>
    BY <1>5 DEF AssignRoot, prepare
  <2>2. DOMAIN assigned' \subseteq Path /\ Range(assigned') \subseteq Version
    BY <1>0, <2>1, ReplacedTypes DEF LaterTypes
  <2>3. Direct' = Direct
    BY <2>1 DEF Direct
  <2> QED
    BY <2>1, <2>2, <2>3 DEF LaterTypes
<1>6. ASSUME NEW d \in DOMAIN all_deps, StartPrepare(d)
      PROVE  LaterTypes'
  <2>1. /\ stage = "assign" /\ stage' = "prepare" /\ todo' = all_deps[d].deps
        /\ pkg' = d /\ project' = db.spec[d.ppath] /\ prepared' = {}
        /\ UNCHANGED <<all_deps, resolved, assigned>>
    BY <1>6 DEF StartPrepare, find
  <2>2. d.ppath \in DOMAIN db.kind
    BY DEF FindTypes, InDatabase
  <2>3. DOMAIN project' \subseteq Path /\ Range(project') \subseteq Version
    BY <2>1, <2>2, DbFacts DEF FindTypes, Range
  <2> QED
    BY <2>1, <2>3 DEF LaterTypes
<1>7. ASSUME NEW d \in DOMAIN all_deps, PrepareFound(d)
      PROVE  LaterTypes'
  <2>1. /\ stage = "prepare" /\ stage' = "prepare" /\ todo' = todo \ {d}
        /\ project' = [project EXCEPT ![d.ppath] = d.version]
        /\ prepared' = prepared \cup {d.ppath} /\ d.ppath \in DOMAIN project
        /\ UNCHANGED <<all_deps, resolved, assigned, pkg>>
    BY <1>7 DEF PrepareFound, find
  <2>2. d.version \in Version
    BY <1>0 DEF Packages
  <2>3. DOMAIN project' = DOMAIN project /\ Range(project') \subseteq Version
    BY <2>1, <2>2 DEF LaterTypes, Range
  <2> QED
    BY <2>1, <2>3 DEF LaterTypes
<1>8. ASSUME NEW d \in DOMAIN all_deps, PrepareRoot(d)
      PROVE  LaterTypes'
  <2>1. /\ stage = "prepare" /\ stage' = "prepare" /\ todo' = todo \ {d}
        /\ project' \in ReplaceRoots(project, all_deps[pkg].deps)
        /\ UNCHANGED <<all_deps, resolved, assigned, pkg, prepared>>
    BY <1>8 DEF PrepareRoot, find
  <2>2. all_deps[pkg].deps \in SUBSET Packages
    BY <1>0, <2>1 DEF LaterTypes, FindTypes
  <2>3. DOMAIN project' \subseteq Path /\ Range(project') \subseteq Version
    BY <2>1, <2>2, ReplacedTypes DEF LaterTypes
  <2> QED
    BY <2>1, <2>3 DEF LaterTypes
<1>9. ASSUME NEW d \in DOMAIN all_deps, AssignFails(d)
      PROVE  LaterTypes'
  BY <1>0, <1>9 DEF AssignFails, find, prepare, LaterTypes, Direct
<1>10. ASSUME NEW d \in DOMAIN all_deps, PrepareFails(d)
      PROVE  LaterTypes'
  <2>1. all_deps[pkg].deps \subseteq Packages
    BY <1>0, <1>10 DEF LaterTypes, FindTypes, PrepareFails
  <2> QED
    BY <1>10, <2>1 DEF PrepareFails, find, prepare, LaterTypes
<1>11. CASE PrepareDone
  BY <1>11 DEF PrepareDone, find, prepare, LaterTypes
<1> QED
  BY <1>1, <1>2, <1>3, <1>4, <1>5, <1>6, <1>7, <1>8, <1>9, <1>10, <1>11, Actions DEF LaterAction

-----------------------------------------------------------------------------
(* The dependencies of the requesting package.                             *)

LEMMA Asked ==
    ASSUME FindTypes, Chosen, ~LibraryAbove(request), NEW d \in Direct
    PROVE  \/ /\ d.ppath \in DOMAIN request
              /\ \A e \in DOMAIN all_deps : ~is_root_of(d.ppath, e.ppath)
           \/ \E p \in DOMAIN request : is_root_of(p, d.ppath)
<1>1. PICK p \in DOMAIN request : p = d.ppath \/ is_root_of(p, d.ppath)
  BY DEF Chosen, AskedBy
<1>2. d.ppath \in DOMAIN db.kind /\ db.kind[d.ppath] = "library"
  BY DEF Direct, FindTypes, InDatabase
<1> QED
  BY <1>1, <1>2 DEF LibraryAbove

LEMMA PackageIs == \A d \in Packages : Package(d.ppath, d.version) = d
BY DEF Packages, Package

LEMMA LaterUnchanged ==
    ASSUME UNCHANGED <<which, request, all_deps>>
    PROVE  /\ Direct' = Direct /\ db' = db /\ AskedTwice' = AskedTwice
           /\ TwoVersions' = TwoVersions
           /\ \A deps : LibraryAbove(deps)' <=> LibraryAbove(deps)
BY DEF Direct, db, AskedTwice, TwoVersions, LibraryAbove

LEMMA AssigningKept ==
    ASSUME FindTypes, Chosen, Walk, LaterTypes, Assigning, [Next]_vars
    PROVE  Assigning'
<1> DEFINE Whole == DOMAIN assigned = DOMAIN request
           All == \A d \in Direct : d.ppath \in DOMAIN assigned
           Done == \A d \in Direct \ todo :
               d.ppath \in DOMAIN assigned /\ (~TwoVersions => assigned[d.ppath] = d.version)
           Known == AskedTwice \/ \A p \in DOMAIN assigned :
               \/ Package(p, assigned[p]) \in DOMAIN all_deps
               \/ \E d \in todo : d.ppath = p
               \/ Whole /\ \E d \in todo : is_root_of(p, d.ppath)
<1>1. CASE UNCHANGED vars
  <2>1. Direct' = Direct /\ (LibraryAbove(request)' <=> LibraryAbove(request))
        /\ TwoVersions' = TwoVersions /\ AskedTwice' = AskedTwice
    BY <1>1, LaterUnchanged DEF vars, LibraryAbove
  <2> QED
    BY <1>1, <2>1 DEF vars, Assigning
<1>2. CASE stage' # "assign"
  BY <1>2 DEF Assigning
<1>3. CASE MarkResolved
  <2>1. /\ stage = "mark" /\ todo' = Direct /\ assigned' = request
        /\ UNCHANGED <<which, request, all_deps>>
    BY <1>3 DEF MarkResolved
  <2>2. Direct' = Direct
    BY <2>1, LaterUnchanged
  <2>3. \A r \in DOMAIN request : (\E d \in Direct : d.ppath = r) \/ HasChild(r)
    BY <2>1, WalkDone, DbFacts DEF FindTypes, Resolved
  <2>4. Whole' /\ Done'
    BY <2>1, <2>2
  <2>5. Known'
    BY <2>1, <2>3 DEF HasChild
  <2> QED
    BY <2>4, <2>5 DEF Assigning
<1>4. ASSUME NEW d \in DOMAIN all_deps, AssignFound(d) \/ AssignRoot(d)
      PROVE  Assigning'
  <2> SUFFICES ASSUME ~LibraryAbove(request)'
               PROVE  Assigning'
    BY DEF Assigning
  <2>1. /\ stage = "assign" /\ UNCHANGED <<which, request, stage, all_deps>>
        /\ d \in todo /\ todo' = todo \ {d} /\ d \in Direct /\ d \in Packages
    BY <1>4 DEF AssignFound, AssignRoot, LaterTypes, FindTypes, InDatabase
  <2>2. /\ Direct' = Direct /\ TwoVersions' = TwoVersions /\ AskedTwice' = AskedTwice
        /\ ~LibraryAbove(request)
    BY <2>1, LaterUnchanged DEF LibraryAbove
  <2>3. (Whole \/ All) /\ Done /\ Known
    BY <2>1, <2>2 DEF Assigning
  <2>4. ~TwoVersions => \A e, f \in DOMAIN all_deps : e.ppath = f.ppath => e = f
    BY DEF TwoVersions
  <2>5. Direct \subseteq DOMAIN all_deps /\ DOMAIN all_deps \subseteq Packages
    BY DEF Direct, FindTypes, InDatabase
  <2>6. CASE AssignFound(d)
    <3>1. /\ d.ppath \in DOMAIN assigned /\ assigned' = [assigned EXCEPT ![d.ppath] = d.version]
      BY <2>6 DEF AssignFound
    <3>2. /\ DOMAIN assigned' = DOMAIN assigned
          /\ \A p \in DOMAIN assigned :
                assigned'[p] = IF p = d.ppath THEN d.version ELSE assigned[p]
      BY <3>1
    <3>3. Whole' \/ All'
      BY <2>1, <2>2, <2>3, <3>2
    <3>4. Done'
      <4>1. ASSUME NEW e \in Direct, e \notin todo'
            PROVE  /\ e.ppath \in DOMAIN assigned'
                   /\ ~TwoVersions => assigned'[e.ppath] = e.version
        <5>1. CASE e = d
          BY <3>1, <3>2, <5>1
        <5>2. CASE e # d
          BY <2>1, <2>3, <2>4, <2>5, <3>2, <4>1, <5>2
        <5> QED
          BY <5>1, <5>2
      <4> QED
        BY <2>2, <4>1
    <3>5. Known'
      <4> SUFFICES ASSUME ~AskedTwice, NEW p \in DOMAIN assigned
                   PROVE  \/ Package(p, assigned'[p]) \in DOMAIN all_deps
                          \/ \E e \in todo' : e.ppath = p
                          \/ Whole /\ \E e \in todo' : is_root_of(p, e.ppath)
        BY <2>1, <2>2, <3>2
      <4>1. CASE p = d.ppath
        BY <2>1, <3>2, <4>1, PackageIs
      <4>2. CASE p # d.ppath
        <5>1. \/ Package(p, assigned[p]) \in DOMAIN all_deps
              \/ \E e \in todo : e.ppath = p
              \/ Whole /\ \E e \in todo : is_root_of(p, e.ppath)
          BY <2>3
        <5>2. Whole => ~is_root_of(p, d.ppath)
          BY <3>1 DEF AskedTwice
        <5> QED
          BY <2>1, <3>2, <4>2, <5>1, <5>2
      <4> QED
        BY <4>1, <4>2
    <3> QED
      BY <3>3, <3>4, <3>5 DEF Assigning
  <2>7. CASE AssignRoot(d)
    <3>1. /\ d.ppath \notin DOMAIN assigned
          /\ assigned' \in ReplaceRoots(assigned, DOMAIN all_deps)
      BY <2>7 DEF AssignRoot
    <3>2. Whole
      BY <2>1, <2>3, <3>1
    <3>3. /\ \A p \in DOMAIN assigned : (\A e \in DOMAIN all_deps : ~is_root_of(p, e.ppath)) =>
                p \in DOMAIN assigned' /\ assigned'[p] = assigned[p]
          /\ \A e \in DOMAIN all_deps : (\E r \in DOMAIN assigned : is_root_of(r, e.ppath)) =>
                e.ppath \in DOMAIN assigned'
          /\ \A p \in DOMAIN assigned' :
                \/ /\ p \in DOMAIN assigned /\ assigned'[p] = assigned[p]
                   /\ \A e \in DOMAIN all_deps : ~is_root_of(p, e.ppath)
                \/ Package(p, assigned'[p]) \in DOMAIN all_deps
      BY <3>1, Replaced
    <3>4. \A e \in Direct : e.ppath \in DOMAIN assigned'
      BY <2>2, <2>5, <3>2, <3>3, Asked
    <3>5. Done'
      <4>1. ASSUME NEW e \in Direct, e \notin todo', ~TwoVersions
            PROVE  assigned'[e.ppath] = e.version
        <5>1. CASE Package(e.ppath, assigned'[e.ppath]) \in DOMAIN all_deps
          <6>1. Package(e.ppath, assigned'[e.ppath]) = e
            BY <2>4, <2>5, <4>1, <5>1 DEF Package
          <6> QED
            BY <6>1 DEF Package
        <5>2. CASE /\ e.ppath \in DOMAIN assigned
                   /\ assigned'[e.ppath] = assigned[e.ppath]
          <6>1. e # d
            BY <3>1, <5>2
          <6> QED
            BY <2>1, <2>3, <4>1, <5>2, <6>1
        <5> QED
          BY <3>3, <3>4, <5>1, <5>2
      <4> QED
        BY <2>2, <3>4, <4>1
    <3>6. Known'
      <4> SUFFICES ASSUME ~AskedTwice, NEW p \in DOMAIN assigned'
                   PROVE  \/ Package(p, assigned'[p]) \in DOMAIN all_deps
                          \/ \E e \in todo' : e.ppath = p
        BY <2>1, <2>2
      <4> SUFFICES ASSUME p \in DOMAIN assigned, assigned'[p] = assigned[p],
                          \A e \in DOMAIN all_deps : ~is_root_of(p, e.ppath)
                   PROVE  \/ Package(p, assigned'[p]) \in DOMAIN all_deps
                          \/ \E e \in todo' : e.ppath = p
        BY <3>3
      <4>1. \/ Package(p, assigned[p]) \in DOMAIN all_deps
            \/ \E e \in todo : e.ppath = p
            \/ \E e \in todo : is_root_of(p, e.ppath)
        BY <2>3
      <4>2. todo \subseteq DOMAIN all_deps
        BY <2>1, <2>5 DEF LaterTypes
      <4> QED
        BY <2>1, <3>1, <4>1, <4>2
    <3> QED
      BY <2>2, <3>4, <3>5, <3>6 DEF Assigning
  <2> QED
    BY <1>4, <2>6, <2>7
<1>5. CASE FindStep
  BY <1>2, <1>5, FindStepKeeps
<1>6. ASSUME NEW d \in DOMAIN all_deps, AssignFails(d) \/ StartPrepare(d) \/ PrepareFound(d)
                                        \/ PrepareRoot(d) \/ PrepareFails(d) \/ PrepareDone
      PROVE  stage' # "assign"
  BY <1>6 DEF AssignFails, StartPrepare, PrepareFound, PrepareRoot, PrepareFails, PrepareDone
<1>7. PrepareDone => stage' # "assign"
  BY DEF PrepareDone
<1> QED
  BY <1>1, <1>2, <1>3, <1>4, <1>5, <1>6, <1>7, Actions DEF LaterAction

LEMMA NoPackageIs == NoPackage \notin Packages
BY ResolutionAssumption DEF NoPackage, Package, Packages

LEMMA AssignedDirectKept ==
    ASSUME FindTypes, Chosen, LaterTypes, Assigning, AssignedDirect, [Next]_vars
    PROVE  AssignedDirect'
<1>1. CASE UNCHANGED vars
  <2>1. Direct' = Direct /\ (LibraryAbove(request)' <=> LibraryAbove(request))
        /\ TwoVersions' = TwoVersions /\ AskedTwice' = AskedTwice
    BY <1>1, LaterUnchanged DEF vars, LibraryAbove
  <2> QED
    BY <1>1, <2>1 DEF vars, AssignedDirect
<1>2. CASE stage' \notin {"prepare", "done", "failed"}
  BY <1>2 DEF AssignedDirect
<1>3. ASSUME NEW d \in DOMAIN all_deps, AssignFails(d)
      PROVE  AssignedDirect'
  <2> SUFFICES ASSUME ~LibraryAbove(request)'
               PROVE  FALSE
    BY <1>3 DEF AssignFails, AssignedDirect
  <2>1. /\ stage = "assign" /\ d \in Direct /\ d.ppath \notin DOMAIN assigned
        /\ ~HasRoots(assigned, DOMAIN all_deps) /\ UNCHANGED <<which, request, all_deps>>
    BY <1>3 DEF AssignFails, LaterTypes, find
  <2>2. ~LibraryAbove(request)
    BY <2>1 DEF LibraryAbove, db
  <2>3. DOMAIN assigned = DOMAIN request
    BY <2>1, <2>2 DEF Assigning
  <2>4. \E p \in DOMAIN request : is_root_of(p, d.ppath)
    BY <2>1, <2>2, <2>3, Asked
  <2> QED
    BY <2>1, <2>3, <2>4 DEF HasRoots
<1>4. ASSUME NEW d \in DOMAIN all_deps, StartPrepare(d)
      PROVE  AssignedDirect'
  <2> SUFFICES ASSUME ~LibraryAbove(request)'
               PROVE  AssignedDirect'
    BY DEF AssignedDirect
  <2>1. /\ stage = "assign" /\ stage' = "prepare" /\ todo = {}
        /\ UNCHANGED <<which, request, all_deps, assigned>>
    BY <1>4 DEF StartPrepare, find
  <2>2. /\ Direct' = Direct /\ TwoVersions' = TwoVersions /\ AskedTwice' = AskedTwice
        /\ ~LibraryAbove(request)
    BY <2>1, LaterUnchanged DEF LibraryAbove
  <2>3. /\ \A e \in Direct : /\ e.ppath \in DOMAIN assigned
                             /\ ~TwoVersions => assigned[e.ppath] = e.version
        /\ \A p \in DOMAIN assigned :
              Package(p, assigned[p]) \in DOMAIN all_deps \/ AskedTwice
    BY <2>1, <2>2 DEF Assigning
  <2> QED
    BY <2>1, <2>2, <2>3 DEF AssignedDirect
<1>5. ASSUME NEW d \in DOMAIN all_deps, PrepareFails(d)
      PROVE  AssignedDirect'
  <2>1. stage' = "failed" /\ pkg' = pkg /\ pkg \in DOMAIN all_deps
    BY <1>5 DEF PrepareFails, prepare, LaterTypes
  <2>2. pkg' # NoPackage'
    BY <2>1, NoPackageIs DEF FindTypes, InDatabase, NoPackage, Package
  <2> QED
    BY <2>1, <2>2 DEF AssignedDirect
<1>6. ASSUME stage = "prepare", stage' \in {"prepare", "done"},
             UNCHANGED <<which, request, all_deps, assigned>>
      PROVE  AssignedDirect'
  <2>1. /\ Direct' = Direct /\ TwoVersions' = TwoVersions /\ AskedTwice' = AskedTwice
        /\ LibraryAbove(request)' <=> LibraryAbove(request)
    BY <1>6, LaterUnchanged DEF LibraryAbove
  <2> QED
    BY <1>6, <2>1 DEF AssignedDirect
<1>7. ASSUME NEW d \in DOMAIN all_deps, PrepareFound(d) \/ PrepareRoot(d)
      PROVE  AssignedDirect'
  BY <1>6, <1>7 DEF PrepareFound, PrepareRoot, find
<1>8. CASE PrepareDone
  BY <1>6, <1>8 DEF PrepareDone, find
<1>9. CASE FindStep
  BY <1>2, <1>9, FindStepKeeps
<1>10. CASE MarkResolved
  BY <1>2, <1>10 DEF MarkResolved
<1>11. ASSUME NEW d \in DOMAIN all_deps, AssignFound(d) \/ AssignRoot(d)
       PROVE  AssignedDirect'
  BY <1>2, <1>11 DEF AssignFound, AssignRoot
<1> QED
  BY <1>1, <1>3, <1>4, <1>5, <1>7, <1>8, <1>9, <1>10, <1>11, Actions DEF LaterAction

(* What a request is recorded to have become.                              *)
LEMMA ResolvedUpgradesKept ==
    ASSUME FindTypes, Chosen, Walk, ResolvedUpgrades, [Next]_vars
    PROVE  ResolvedUpgrades'
<1>1. ASSUME UNCHANGED <<which, request, all_deps, resolved>>,
             stage' \in {"assign", "prepare", "done"} => stage \in {"assign", "prepare", "done"}
      PROVE  ResolvedUpgrades'
  <2>1. Direct' = Direct /\ db' = db /\ AskedTwice' = AskedTwice
    BY <1>1, LaterUnchanged
  <2>2. \A p : Children(p)' = Children(p) /\ Request(p)' = Request(p)
    BY <1>1, SameInputs DEF Request, Package
  <2> QED
    BY <1>1, <2>1, <2>2 DEF ResolvedUpgrades
<1>2. CASE MarkResolved
  <2> SUFFICES ASSUME ~AskedTwice', NEW p \in DOMAIN request'
               PROVE  IF db'.kind[p] = "library"
                      THEN /\ Request(p)' \in DOMAIN resolved'
                           /\ resolved'[Request(p)'].ppath = p
                           /\ canBe(request'[p], resolved'[Request(p)'].version)
                      ELSE \A q \in Children(p)' : \A d \in Direct' :
                              d.ppath = q => d \in DOMAIN resolved' /\ resolved'[d] = d
    BY DEF ResolvedUpgrades
  <2> DEFINE keys == {k \in {Request(r) : r \in DOMAIN request} \cup Direct : Becomes(k) # {}}
  <2>1. /\ stage = "mark" /\ UNCHANGED <<which, request, all_deps>>
        /\ DOMAIN resolved' = keys /\ \A k \in keys : resolved'[k] \in Becomes(k)
    BY <1>2 DEF MarkResolved
  <2>2. /\ Direct' = Direct /\ db' = db /\ ~AskedTwice /\ p \in DOMAIN request
        /\ Children(p)' = Children(p) /\ Request(p)' = Request(p)
    BY <2>1, LaterUnchanged, SameInputs DEF Request, Package
  <2>3. \A r, s \in DOMAIN request : ~is_root_of(r, s)
    BY <2>2 DEF AskedTwice
  <2>4. CASE db.kind[p] = "library"
    <3> DEFINE key == Request(p)
    <3>1. key.ppath = p
      BY DEF Request, Package
    <3>2. PICK d \in Direct : d.ppath = p
      BY <2>1, <2>2, <2>4, WalkDone DEF Resolved
    <3>3. d \in Becomes(key)
      BY <2>2, <3>2 DEF Becomes
    <3>4. key \in keys
      BY <2>2, <3>3
    <3>5. resolved'[key] \in Becomes(key)
      BY <2>1, <3>4
    <3>6. ASSUME NEW x \in Becomes(key)
          PROVE  x.ppath = p /\ canBe(request[p], x.version)
      <4>1. ~(x = key /\ \E r \in DOMAIN request : is_root_of(r, x.ppath))
        BY <2>2, <2>3, <3>1
      <4>2. x \in Direct /\ x.ppath \in DOMAIN request /\ Request(x.ppath) = key
        BY <4>1, <3>6 DEF Becomes
      <4>3. x.ppath = p
        BY <3>1, <4>2 DEF Request, Package
      <4>4. PICK r \in DOMAIN request : AskedBy(x, r)
        BY <4>2 DEF Chosen
      <4>5. r = p
        BY <2>2, <2>3, <4>3, <4>4 DEF AskedBy
      <4>6. /\ p \in DOMAIN db.kind /\ request[p] \in Version /\ isValid(request[p])
        BY <2>2, <4>2, <4>3, RequestFacts DEF Direct, FindTypes, InDatabase
      <4>7. x.version \in Upgrades(db.releases[p], request[p])
        BY <4>3, <4>4, <4>5, <4>6, DbFacts, ExactUpgrades DEF AskedBy, FindTypes
      <4> QED
        BY <4>3, <4>7, UpgradesCanBe
    <3> QED
      BY <2>1, <2>2, <2>4, <3>4, <3>5, <3>6
  <2>5. CASE db.kind[p] # "library"
    <3>1. ASSUME NEW q \in Children(p), NEW d \in Direct, d.ppath = q
          PROVE  d \in DOMAIN resolved' /\ resolved'[d] = d
      <4>1. is_root_of(p, d.ppath)
        BY <3>1 DEF Children
      <4>2. d.ppath \notin DOMAIN request
        BY <2>2, <2>3, <4>1
      <4>3. d \in Becomes(d)
        BY <2>2, <4>1 DEF Becomes
      <4>4. ASSUME NEW x \in Becomes(d)
            PROVE  x = d
        <5>1. ~(x.ppath \in DOMAIN request /\ Request(x.ppath) = d)
          BY <4>2 DEF Request, Package
        <5> QED
          BY <4>4, <5>1 DEF Becomes
      <4>5. d \in keys
        BY <4>3
      <4> QED
        BY <2>1, <4>4, <4>5
    <3> QED
      BY <2>2, <2>5, <3>1
  <2> QED
    BY <2>4, <2>5
<1>3. CASE UNCHANGED vars
  BY <1>1, <1>3 DEF vars
<1>4. CASE FindStep
  <2>1. stage' \notin {"assign", "prepare", "done"}
    BY <1>4, FindStepKeeps
  <2> QED
    BY <2>1 DEF ResolvedUpgrades
<1>5. ASSUME NEW d \in DOMAIN all_deps,
             \/ AssignFound(d) \/ AssignRoot(d) \/ AssignFails(d)
             \/ StartPrepare(d)
             \/ PrepareFound(d) \/ PrepareRoot(d) \/ PrepareFails(d)
      PROVE  ResolvedUpgrades'
  BY <1>1, <1>5 DEF AssignFound, AssignRoot, AssignFails, StartPrepare, PrepareFound, PrepareRoot,
                    PrepareFails, find
<1>6. CASE PrepareDone
  BY <1>1, <1>6 DEF PrepareDone, find
<1> QED
  BY <1>2, <1>3, <1>4, <1>5, <1>6, Actions DEF LaterAction

-----------------------------------------------------------------------------
(* The dependencies in the config of a downloaded package.                 *)

LEMMA Needed ==
    ASSUME FindTypes, Chosen, NEW p \in DOMAIN all_deps, ~LibraryAbove(db.spec[p.ppath]),
           NEW d \in all_deps[p].deps
    PROVE  \/ /\ d.ppath \in DOMAIN db.spec[p.ppath]
              /\ \A e \in DOMAIN all_deps : ~is_root_of(d.ppath, e.ppath)
           \/ \E r \in DOMAIN db.spec[p.ppath] : is_root_of(r, d.ppath)
<1>1. d.ppath \in DOMAIN Needs(p.ppath) /\ p.ppath \in DOMAIN db.kind
  BY DEF Chosen, Admitted, FindTypes, InDatabase
<1>2. /\ d.ppath \in DOMAIN db.kind /\ db.kind[d.ppath] = "library"
      /\ \/ d.ppath \in DOMAIN db.spec[p.ppath]
         \/ \E r \in DOMAIN db.spec[p.ppath] : is_root_of(r, d.ppath)
  BY <1>1, NeedsFacts DEF FindTypes
<1> QED
  BY <1>2 DEF LibraryAbove

(* A package has one dependency of a path.                                 *)
LEMMA OneVersion ==
    ASSUME FindTypes, Chosen, NEW p \in DOMAIN all_deps,
           NEW d \in all_deps[p].deps, NEW e \in all_deps[p].deps, d.ppath = e.ppath
    PROVE  d = e
<1> DEFINE asked == Needs(p.ppath)[d.ppath]
<1>1. /\ d.version \in Exact(db.releases[d.ppath], asked)
      /\ e.version \in Exact(db.releases[d.ppath], asked)
  BY DEF Chosen, Admitted
<1>2. d \in DOMAIN all_deps /\ e \in DOMAIN all_deps
  BY DEF FindTypes
<1>3. /\ d.ppath \in DOMAIN db.kind /\ d \in Packages /\ e \in Packages
  BY <1>2 DEF FindTypes, InDatabase
<1>4. AreReleases(db.releases[d.ppath])
  BY <1>3, DbFacts DEF FindTypes
<1>5. d.version = e.version
  BY <1>1, <1>4, ExactUnique
<1> QED
  BY <1>3, <1>5, PackageIs

LEMMA PreparingKept ==
    ASSUME FindTypes, Chosen, LaterTypes, Preparing, [Next]_vars
    PROVE  Preparing'
<1> DEFINE spec == db.spec[pkg.ppath]
           deps == all_deps[pkg].deps
           Whole == DOMAIN project = DOMAIN spec
           All == \A d \in deps : d.ppath \in DOMAIN project
           Done == \A d \in deps \ todo : d.ppath \in DOMAIN project /\ project[d.ppath] = d.version
<1>1. CASE UNCHANGED vars
  BY <1>1 DEF vars, Preparing, LibraryAbove, db
<1>2. CASE stage' # "prepare"
  BY <1>2 DEF Preparing
<1>3. ASSUME NEW d \in DOMAIN all_deps, StartPrepare(d)
      PROVE  Preparing'
  <2>1. /\ which' = which /\ all_deps' = all_deps /\ pkg' = d
        /\ todo' = all_deps[d].deps /\ project' = db.spec[d.ppath]
    BY <1>3 DEF StartPrepare, find
  <2>2. Whole' /\ Done'
    BY <2>1 DEF db
  <2> QED
    BY <2>2 DEF Preparing
<1>4. ASSUME NEW d \in DOMAIN all_deps, PrepareFound(d) \/ PrepareRoot(d)
      PROVE  Preparing'
  <2> SUFFICES ASSUME ~LibraryAbove(db.spec[pkg.ppath])'
               PROVE  Preparing'
    BY DEF Preparing
  <2>1. /\ stage = "prepare" /\ UNCHANGED <<which, request, stage, all_deps, pkg>>
        /\ d \in todo /\ todo' = todo \ {d}
    BY <1>4 DEF PrepareFound, PrepareRoot, find
  <2>2. pkg \in DOMAIN all_deps /\ d \in deps /\ deps \subseteq DOMAIN all_deps
    BY <2>1 DEF LaterTypes, FindTypes
  <2>3. ~LibraryAbove(spec) /\ db' = db
    BY <2>1 DEF LibraryAbove, db
  <2>4. (Whole \/ All) /\ Done
    BY <2>1, <2>3 DEF Preparing
  <2>5. \A e, f \in deps : e.ppath = f.ppath => e = f
    BY <2>2, OneVersion
  <2>6. CASE PrepareFound(d)
    <3>1. /\ d.ppath \in DOMAIN project /\ project' = [project EXCEPT ![d.ppath] = d.version]
      BY <2>6 DEF PrepareFound
    <3>2. /\ DOMAIN project' = DOMAIN project
          /\ \A p \in DOMAIN project :
                project'[p] = IF p = d.ppath THEN d.version ELSE project[p]
      BY <3>1
    <3>3. Whole' \/ All'
      BY <2>1, <2>3, <2>4, <3>2
    <3>4. ASSUME NEW e \in deps, e \notin todo'
          PROVE  e.ppath \in DOMAIN project' /\ project'[e.ppath] = e.version
      <4>1. CASE e = d
        BY <3>1, <3>2, <4>1
      <4>2. CASE e # d
        BY <2>1, <2>2, <2>4, <2>5, <3>2, <3>4, <4>2
      <4> QED
        BY <4>1, <4>2
    <3>5. Done'
      BY <2>1, <3>4
    <3> QED
      BY <3>3, <3>5 DEF Preparing
  <2>7. CASE PrepareRoot(d)
    <3>1. d.ppath \notin DOMAIN project /\ project' \in ReplaceRoots(project, deps)
      BY <2>7 DEF PrepareRoot
    <3>2. Whole
      BY <2>2, <2>4, <3>1
    <3>3. /\ \A p \in DOMAIN project : (\A e \in deps : ~is_root_of(p, e.ppath)) =>
                p \in DOMAIN project' /\ project'[p] = project[p]
          /\ \A e \in deps : (\E r \in DOMAIN project : is_root_of(r, e.ppath)) =>
                e.ppath \in DOMAIN project'
          /\ \A p \in DOMAIN project' :
                \/ /\ p \in DOMAIN project /\ project'[p] = project[p]
                   /\ \A e \in deps : ~is_root_of(p, e.ppath)
                \/ Package(p, project'[p]) \in deps
      BY <3>1, Replaced
    <3>4. \A e \in deps : e.ppath \in DOMAIN project'
      BY <2>2, <2>3, <3>2, <3>3, Needed
    <3>5. ASSUME NEW e \in deps, e \notin todo'
          PROVE  project'[e.ppath] = e.version
      <4>1. CASE Package(e.ppath, project'[e.ppath]) \in deps
        <5>1. Package(e.ppath, project'[e.ppath]) = e
          BY <2>5, <4>1 DEF Package
        <5> QED
          BY <5>1 DEF Package
      <4>2. CASE /\ e.ppath \in DOMAIN project
                 /\ project'[e.ppath] = project[e.ppath]
        <5>1. e # d
          BY <3>1, <4>2
        <5> QED
          BY <2>1, <2>4, <3>5, <4>2, <5>1
      <4> QED
        BY <3>3, <3>4, <4>1, <4>2
    <3>6. All' /\ Done'
      BY <2>1, <3>4, <3>5
    <3> QED
      BY <3>6 DEF Preparing
  <2> QED
    BY <1>4, <2>6, <2>7
<1>5. CASE FindStep
  BY <1>2, <1>5, FindStepKeeps
<1>6. ASSUME NEW d \in DOMAIN all_deps, AssignFound(d) \/ AssignRoot(d) \/ AssignFails(d)
                                        \/ PrepareFails(d)
      PROVE  stage' # "prepare"
  BY <1>6 DEF AssignFound, AssignRoot, AssignFails, PrepareFails
<1>7. MarkResolved \/ PrepareDone => stage' # "prepare"
  BY DEF MarkResolved, PrepareDone
<1> QED
  BY <1>1, <1>2, <1>3, <1>4, <1>5, <1>6, <1>7, Actions DEF LaterAction

LEMMA PreparedConfigKept ==
    ASSUME FindTypes, Chosen, LaterTypes, Preparing, PreparedConfig, [Next]_vars
    PROVE  PreparedConfig'
<1>1. CASE UNCHANGED vars
  BY <1>1 DEF vars, PreparedConfig, LibraryAbove, db, NoPackage, Package
<1>2. CASE stage' \notin {"done", "failed"}
  BY <1>2 DEF PreparedConfig
<1>3. ASSUME NEW d \in DOMAIN all_deps, PrepareFails(d)
      PROVE  PreparedConfig'
  <2> SUFFICES ASSUME ~LibraryAbove(db.spec[pkg.ppath])'
               PROVE  FALSE
    BY DEF PreparedConfig
  <2>1. /\ stage = "prepare" /\ UNCHANGED <<which, request, all_deps, pkg>>
        /\ d \in todo /\ d.ppath \notin DOMAIN project
        /\ ~HasRoots(project, all_deps[pkg].deps)
    BY <1>3 DEF PrepareFails, find, prepare
  <2>2. pkg \in DOMAIN all_deps /\ d \in all_deps[pkg].deps
    BY <2>1 DEF LaterTypes
  <2>3. ~LibraryAbove(db.spec[pkg.ppath])
    BY <2>1 DEF LibraryAbove, db
  <2>4. DOMAIN project = DOMAIN db.spec[pkg.ppath]
    BY <2>1, <2>2, <2>3 DEF Preparing
  <2>5. \E r \in DOMAIN project : is_root_of(r, d.ppath)
    BY <2>1, <2>2, <2>3, <2>4, Needed
  <2> QED
    BY <2>1, <2>2, <2>5 DEF HasRoots
<1>4. CASE PrepareDone
  <2> SUFFICES ASSUME ~LibraryAbove(db.spec[pkg.ppath])'
               PROVE  PreparedConfig'
    BY DEF PreparedConfig
  <2>1. /\ stage = "prepare" /\ todo = {} /\ stage' = "done"
        /\ UNCHANGED <<which, request, all_deps, pkg, project>>
    BY <1>4 DEF PrepareDone, find, prepare
  <2>2. ~LibraryAbove(db.spec[pkg.ppath])
    BY <2>1 DEF LibraryAbove, db
  <2>3. \A d \in all_deps[pkg].deps : d.ppath \in DOMAIN project /\ project[d.ppath] = d.version
    BY <2>1, <2>2 DEF Preparing
  <2> QED
    BY <2>1, <2>3 DEF PreparedConfig
<1>5. ASSUME NEW d \in DOMAIN all_deps, AssignFails(d)
      PROVE  PreparedConfig'
  <2>1. pkg' = NoPackage'
    BY <1>5 DEF AssignFails, prepare, LaterTypes, NoPackage, Package
  <2> QED
    BY <2>1 DEF PreparedConfig
<1>6. CASE FindStep
  BY <1>2, <1>6, FindStepKeeps
<1>7. ASSUME NEW d \in DOMAIN all_deps, AssignFound(d) \/ AssignRoot(d) \/ StartPrepare(d)
                                        \/ PrepareFound(d) \/ PrepareRoot(d)
      PROVE  stage' \notin {"done", "failed"}
  BY <1>7 DEF AssignFound, AssignRoot, StartPrepare, PrepareFound, PrepareRoot
<1>8. MarkResolved => stage' \notin {"done", "failed"}
  BY DEF MarkResolved
<1> QED
  BY <1>1, <1>2, <1>3, <1>4, <1>5, <1>6, <1>7, <1>8, Actions DEF LaterAction

-----------------------------------------------------------------------------
(* The inductive invariant and the theorems.                               *)

IInv == FindTypes /\ LaterTypes /\ Chosen /\ Walk /\ Assigning /\ Preparing /\ ResultRight

LEMMA Starting ==
    ASSUME Init
    PROVE  IInv
<1>1. /\ Inputs /\ stage = "find" /\ todo = DOMAIN request /\ root = NoRoot /\ stack = <<>>
      /\ all_deps = <<>> /\ resolved = <<>> /\ assigned = <<>>
      /\ pkg = NoPackage /\ project = <<>> /\ prepared = {}
  BY DEF Init, Inputs
<1>2. DOMAIN all_deps = {} /\ DOMAIN stack = {} /\ DOMAIN <<>> = {} /\ Direct = {}
  BY <1>1 DEF Direct
<1>3. all_deps \in [{} -> [direct : BOOLEAN, deps : SUBSET Packages]]
  BY <1>1, <1>2
<1>4. FindTypes
  BY <1>1, <1>2, <1>3 DEF FindTypes, Stages, Searching
<1>5. LaterTypes
  BY <1>1, <1>2 DEF LaterTypes, Range
<1>6. Chosen
  BY <1>1, <1>2 DEF Chosen
<1>7. NoReentry /\ Closing
  BY <1>2 DEF NoReentry, Closing
<1>8. Looked = {}
  BY <1>1 DEF Looked, Searching
<1>9. Rooted
  BY <1>1, <1>8 DEF Rooted, FirstOfRoot, Counted, LibrariesFound, RootsFound
<1>10. Assigning /\ Preparing /\ ResultRight
  BY <1>1 DEF Assigning, Preparing, ResultRight, ResolvedUpgrades, AssignedDirect, PreparedConfig
<1> QED
  BY <1>4, <1>5, <1>6, <1>7, <1>9, <1>10 DEF IInv, Walk

LEMMA Stepping ==
    ASSUME IInv, [Next]_vars
    PROVE  IInv'
<1>1. FindTypes /\ LaterTypes /\ Chosen /\ Walk /\ Assigning /\ Preparing
      /\ ResolvedUpgrades /\ AssignedDirect /\ PreparedConfig
  BY DEF IInv, ResultRight
<1>2. FindTypes' /\ LaterTypes' /\ Chosen'
  BY <1>1, FindTypesKept, LaterTypesKept, ChosenKept
<1>3. Walk'
  BY <1>1, NoReentryKept, ClosingKept, RootedKept DEF Walk
<1>4. Assigning' /\ Preparing'
  BY <1>1, AssigningKept, PreparingKept
<1>5. ResultRight'
  BY <1>1, ResolvedUpgradesKept, AssignedDirectKept, PreparedConfigKept DEF ResultRight
<1> QED
  BY <1>2, <1>3, <1>4, <1>5 DEF IInv

LEMMA Invariant == Spec => []IInv
<1>1. Init => IInv
  BY Starting
<1>2. IInv /\ [Next]_vars => IInv'
  BY Stepping
<1> QED
  BY <1>1, <1>2, PTL DEF Spec

LEMMA TypesOK ==
    ASSUME IInv
    PROVE  TypeOK
<1>1. FindTypes /\ LaterTypes
  BY DEF IInv
<1>2. DOMAIN request \subseteq Path
  BY <1>1, RequestFacts DEF FindTypes
<1>3. Direct \subseteq DOMAIN all_deps /\ DOMAIN all_deps \subseteq Packages
  BY <1>1 DEF Direct, FindTypes, InDatabase
<1>4. IF stage \in {"find", "mark", "remote"} THEN todo \subseteq Path ELSE todo \subseteq Packages
  <2>1. CASE stage \in {"find", "mark", "remote"}
    BY <1>1, <1>2, <2>1 DEF FindTypes
  <2>2. CASE stage = "assign"
    BY <1>1, <1>3, <2>2 DEF LaterTypes
  <2>3. CASE stage = "prepare"
    BY <1>1, <1>3, <2>3 DEF LaterTypes, FindTypes
  <2>4. CASE stage \in {"done", "failed"}
    BY <1>1, <2>4 DEF LaterTypes
  <2> QED
    BY <1>1, <2>1, <2>2, <2>3, <2>4 DEF FindTypes, Stages
<1>5. /\ root = NoRoot \/ root.ppath \in Path
      /\ root.left \subseteq Path /\ root.n \in Nat
  BY <1>1 DEF FindTypes, NoRoot
<1>6. \A i \in DOMAIN stack :
         /\ stack[i].package \in DOMAIN all_deps
         /\ stack[i].left \subseteq Path
         /\ stack[i].deps \subseteq Packages
  <2>1. \A i \in DOMAIN stack : stack[i] \in Frames
    BY <1>1 DEF FindTypes
  <2> QED
    BY <1>1, <2>1 DEF FindTypes, Frames
<1>7. \A d \in DOMAIN all_deps : all_deps[d].deps \subseteq Packages
  BY <1>1, <1>3 DEF FindTypes
<1>8. \A d \in DOMAIN all_deps : all_deps[d].direct \in BOOLEAN
  BY <1>1 DEF FindTypes
<1> QED
  BY <1>1, <1>3, <1>4, <1>5, <1>6, <1>7, <1>8, Zenon DEF TypeOK, FindTypes, LaterTypes, Inputs

(* The variables keep their types, and a package that is being walked has  *)
(* its entry in all_deps ("assign first, deps assign second",              *)
(* database.cpp:1132), for every database and every request.               *)
THEOREM TypeCorrect == Spec => []TypeOK
BY Invariant, TypesOK, PTL

(* Whatever is in a result of findDependencies is the newest release that  *)
(* the request, or the package that depends on it, admits.                 *)
THEOREM ChosenCorrect == Spec => []NewestChosen
<1>1. IInv => NewestChosen
  BY ChosenIsNewest DEF IInv
<1> QED
  BY <1>1, Invariant, PTL

(* The walk of getProjectDependencies never comes into a package inside    *)
(* its own walk; once it is over the result is closed, and a root project  *)
(* has brought every child with a release.                                 *)
THEOREM WalkCorrect == Spec => []WalkRight
<1>1. IInv => WalkRight
  <2>1. CASE Resolved
    BY <2>1, WalkDone DEF IInv
  <2>2. CASE ~Resolved
    BY <2>2 DEF IInv, Walk, WalkRight, ClosedDeps, RootChildren
  <2> QED
    BY <2>1, <2>2
<1> QED
  BY <1>1, Invariant, PTL

(* What was found arrives in resolved_packages, in the dependencies of the *)
(* requesting package and in the configs of the downloaded ones.           *)
THEOREM ResultCorrect == Spec => []ResultRight
<1>1. IInv => ResultRight
  BY DEF IInv
<1> QED
  BY <1>1, Invariant, PTL
=============================================================================

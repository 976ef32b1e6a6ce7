------------------------------- MODULE Versions -------------------------------
(***************************************************************************)
(* Versions and project paths (version.cpp, project_path.cpp), and the     *)
(* choice of a release (PackagesDatabase::getExactProjectVersionId).       *)
(*                                                                         *)
(* A version has three numbers, -1 where the text has none ("*" has none), *)
(* or is a branch, whose numbers are all -1.  A path is the sequence of    *)
(* its elements.                                                           *)
(***************************************************************************)
EXTENDS Integers, Sequences

CONSTANTS
    MaxNumber,  \* bound: the largest version number
    Branches    \* names of branches

ASSUME VersionsAssumption == MaxNumber \in Nat /\ Branches \subseteq STRING

Number == -1..MaxNumber
Version == [major : Number, minor : Number, patch : Number,
            branch : Branches \cup {""}]

Absent == -1
Numbered(ma, mi, pa) == [major |-> ma, minor |-> mi, patch |-> pa, branch |-> ""]
Branch(b) == [major |-> Absent, minor |-> Absent, patch |-> Absent, branch |-> b]
isBranch(v) == v.branch # ""

(* What the constructor makes of a text: numbers after a missing one are   *)
(* missing too, and 0.0.0 is no version.                                   *)
isValid(v) ==
    \/ isBranch(v) /\ v = Branch(v.branch)
    \/ /\ ~isBranch(v)
       /\ v.major = Absent => v.minor = Absent
       /\ v.minor = Absent => v.patch = Absent
       /\ v # Numbered(0, 0, 0)

(* A release has all its numbers, or is a branch.                          *)
isRelease(v) == isValid(v) /\ (isBranch(v) \/ v.patch # Absent)

(* Branches come before numbers.  The order of branch names is not used.   *)
NumbersLess(v, w) ==
    \/ v.major < w.major
    \/ v.major = w.major /\ v.minor < w.minor
    \/ v.major = w.major /\ v.minor = w.minor /\ v.patch < w.patch

Less(v, w) ==
    \/ isBranch(v) /\ ~isBranch(w)
    \/ ~isBranch(v) /\ ~isBranch(w) /\ NumbersLess(v, w)

SameNumbers(v, w) == v.major = w.major /\ v.minor = w.minor /\ v.patch = w.patch

(* "checks if this version can be rhs using upgrade rules".                *)
canBe(v, rhs) ==
    \/ v = rhs
    \/ v.major = Absent /\ v.minor = Absent /\ v.patch = Absent
    \/ v.major = rhs.major /\ v.minor = Absent /\ v.patch = Absent
    \/ v.major = rhs.major /\ v.minor = rhs.minor /\ v.patch = Absent

(* "order by major desc, minor desc, patch desc limit 1".                  *)
Newest(S) == {v \in S : \A w \in S : ~NumbersLess(v, w)}

(* Mutant: a minor number that has no release is given up for the major.   *)
ExactLenient(releases, v) ==
    LET fixed == {r \in releases : ~isBranch(r)}
        exact == {r \in fixed : SameNumbers(r, v)}
        minor == {r \in fixed : r.major = v.major /\ r.minor = v.minor}
        major == {r \in fixed : r.major = v.major}
    IN  IF isBranch(v) THEN {r \in releases : r.branch = v.branch}
        ELSE IF exact # {} \/ v.patch # Absent THEN exact
        ELSE IF minor # {} THEN Newest(minor)
        ELSE IF major # {} \/ v.major # Absent THEN Newest(major)
        ELSE Newest(fixed)

(* getExactProjectVersionId: the release a version stands for, as a set    *)
(* that is empty when there is none (NoSuchVersion).  One line a query; a  *)
(* branch has no numbers in the database, so "*" is not equal to it.       *)
Exact(releases, v) ==
    LET fixed == {r \in releases : ~isBranch(r)}
        exact == {r \in fixed : SameNumbers(r, v)}
        minor == {r \in fixed : r.major = v.major /\ r.minor = v.minor}
        major == {r \in fixed : r.major = v.major}
    IN  IF isBranch(v) THEN {r \in releases : r.branch = v.branch}
        ELSE IF exact # {} \/ v.patch # Absent THEN exact
        ELSE IF minor # {} \/ v.minor # Absent THEN Newest(minor)
        ELSE IF major # {} \/ v.major # Absent THEN Newest(major)
        ELSE Newest(fixed)

-----------------------------------------------------------------------------
(* ProjectPath::is_root_of.                                                *)
is_root_of(p, q) == Len(p) < Len(q) /\ \A i \in 1..Len(p) : p[i] = q[i]

(* What the documentation calls the newest version that a requested one    *)
(* can be upgraded to: "checks if this version can be rhs using upgrade    *)
(* rules" (version.h:78), branches excepted.                               *)
Upgrades(releases, v) ==
    IF isBranch(v) THEN {r \in releases : r = v}
    ELSE Newest({r \in releases : ~isBranch(r) /\ canBe(v, r)})
=============================================================================

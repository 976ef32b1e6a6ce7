---------------------------- MODULE ChecksProofs ----------------------------
(***************************************************************************)
(* What holds of the checks of cppan.yml and of the file of their results  *)
(* for every set of projects, entries and compilers.                       *)
(***************************************************************************)
EXTENDS Checks, SequenceTheorems, FiniteSetTheorems, WellFoundedInduction, TLAPS

-----------------------------------------------------------------------------
(* Folds                                                                   *)

(* The natural numbers are well-ordered.                                   *)
LEMMA NatOrder ==
    \E R : IsWellFoundedOn(R, Nat) /\ \A x, y \in Nat : y < x => <<y, x>> \in R
<1> DEFINE R == OpToRel(<, Nat)
<1>1. IsWellFoundedOn(R, Nat)
  BY NatLessThanWellFounded
<1>2. \A x, y \in Nat : y < x => <<y, x>> \in R
  BY DEF OpToRel
<1> HIDE DEF R
<1> QED
  BY <1>1, <1>2

LEMMA LeastNatural ==
    ASSUME NEW T \in SUBSET Nat, T # {}
    PROVE  \E x \in T : \A y \in T : x <= y
<1>1. PICK R : IsWellFoundedOn(R, Nat) /\ \A x, y \in Nat : y < x => <<y, x>> \in R
  BY NatOrder
<1>2. PICK x \in T : \A y \in T : ~(<<y, x>> \in R)
  BY <1>1, WFMin
<1>3. \A y \in T : ~(y < x)
  BY <1>1, <1>2
<1> QED
  BY <1>2, <1>3

(* A set that holds 0, and what follows what it holds up to n, holds n.    *)
LEMMA UpTo ==
    ASSUME NEW n \in Nat, NEW T, 0 \in T, \A k \in 1..n : k - 1 \in T => k \in T
    PROVE  n \in T
<1> SUFFICES ASSUME n \notin T PROVE FALSE
  OBVIOUS
<1>1. PICK k \in {j \in Nat : j \notin T} : \A i \in {j \in Nat : j \notin T} : k <= i
  BY LeastNatural
<1>2. k \in 1..n /\ k - 1 \in Nat
  BY <1>1
<1> QED
  BY <1>1, <1>2

(* A set of numbers up to n has a largest one, the last that is folded.    *)
LEMMA LargestIndex ==
    ASSUME NEW n \in Nat
    PROVE  \A s \in SUBSET (1..n) : s # {} => Max(s) \in s /\ \A i \in s : i <= Max(s)
<1> SUFFICES ASSUME NEW s \in SUBSET (1..n), s # {}
             PROVE  Max(s) \in s /\ \A i \in s : i <= Max(s)
  OBVIOUS
<1> DEFINE B == {j \in Nat : \A i \in s : i <= j}
<1>1. PICK m \in B : \A j \in B : m <= j
  <2>1. n \in B
    OBVIOUS
  <2> QED
    BY <2>1, LeastNatural
<1>2. m \in s
  <2> SUFFICES ASSUME m \notin s PROVE FALSE
    OBVIOUS
  <2>1. \A i \in s : i \in 1..n /\ i <= m /\ i # m
    BY <1>1
  <2>2. m # 0 /\ m - 1 \in Nat
    <3>1. PICK i : i \in s
      OBVIOUS
    <3>2. i \in 1..n /\ i <= m /\ m \in Nat
      BY <2>1, <3>1
    <3> QED
      BY <3>2
  <2>3. m - 1 \in B
    BY <1>1, <2>1, <2>2
  <2> QED
    BY <1>1, <2>3
<1>3. \E x \in s : \A i \in s : x >= i
  BY <1>1, <1>2
<1> QED
  BY <1>3 DEF Max

(* Without its largest number what is left is below it.                    *)
LEMMA LargestLeaves ==
    ASSUME NEW n \in Nat, n # 0, NEW s \in SUBSET (1..n), s # {}
    PROVE  Max(s) \in 1..n /\ s \ {Max(s)} \in SUBSET (1..(n - 1))
<1>1. Max(s) \in s /\ \A i \in s : i <= Max(s)
  BY LargestIndex
<1>2. Max(s) \in 1..n
  BY <1>1
<1>3. ASSUME NEW i \in s, i # Max(s) PROVE i \in 1..(n - 1)
  <2>1. i \in 1..n /\ i <= Max(s)
    BY <1>1
  <2> QED
    BY <1>2, <1>3, <2>1
<1> QED
  BY <1>2, <1>3

(* The numbers up to k, of which k is folded last.                         *)
LEMMA WholePrefix ==
    ASSUME NEW k \in Nat, k # 0
    PROVE  1..k # {} /\ Max(1..k) = k /\ (1..k) \ {k} = 1..(k - 1)
<1>1. 1..k \in SUBSET (1..k) /\ 1..k # {}
  <2>1. k \in 1..k
    OBVIOUS
  <2> QED
    BY <2>1
<1>2. Max(1..k) \in 1..k /\ \A i \in 1..k : i <= Max(1..k)
  BY <1>1, LargestIndex
<1> QED
  BY <1>2

(* The function a fold is defined by: from the set of the places that are  *)
(* folded to what they make of the base b.  h holds the steps.             *)
Folded(h, b, g, s) == IF s = {} THEN b ELSE h[Max(s)][g[s \ {Max(s)}]]
Folds(h, b, g, n) == g = [s \in SUBSET (1..n) |-> Folded(h, b, g, s)]

LEMMA FoldLast ==
    ASSUME NEW n \in Nat, NEW s \in SUBSET (1..n), s # {}
    PROVE  /\ n # 0 /\ Max(s) \in 1..n
           /\ s \ {Max(s)} \in SUBSET (1..(n - 1)) /\ s \ {Max(s)} \in SUBSET (1..n)
<1>1. PICK i : i \in s
  OBVIOUS
<1>2. i \in 1..n
  BY <1>1
<1>3. n # 0 /\ 1..(n - 1) \subseteq 1..n
  BY <1>2
<1> QED
  BY <1>3, LargestLeaves

LEMMA FoldExists ==
    ASSUME NEW n \in Nat, NEW b, NEW h PROVE \E g : Folds(h, b, g, n)
<1> DEFINE T == {k \in Nat : \E g : Folds(h, b, g, k)}
<1>1. 0 \in T
  <2> DEFINE g == [s \in SUBSET (1..0) |-> b]
  <2>1. 1..0 = {}
    OBVIOUS
  <2>2. Folds(h, b, g, 0)
    BY <2>1 DEF Folds, Folded
  <2> QED
    BY <2>2
<1>2. ASSUME NEW k \in 1..n, k - 1 \in T PROVE k \in T
  <2>1. PICK g : Folds(h, b, g, k - 1)
    BY <1>2
  <2> DEFINE f == [s \in SUBSET (1..k) |-> Folded(h, b, g, s)]
  <2>2. \A s \in SUBSET (1..k) : s # {} => s \ {Max(s)} \in SUBSET (1..(k - 1))
    BY FoldLast
  <2>3. \A s \in SUBSET (1..(k - 1)) : s \in SUBSET (1..k)
    OBVIOUS
  <2>4. \A s \in SUBSET (1..(k - 1)) : f[s] = g[s]
    BY <2>1, <2>3 DEF Folds
  <2> HIDE DEF f
  <2>5. \A s \in SUBSET (1..k) : Folded(h, b, f, s) = Folded(h, b, g, s)
    BY <2>2, <2>4 DEF Folded
  <2>6. Folds(h, b, f, k)
    BY <2>5 DEF Folds, f
  <2> QED
    BY <2>6
<1> HIDE DEF T
<1>3. n \in T
  BY <1>1, <1>2, UpTo
<1> QED
  BY <1>3 DEF T

(* What every step keeps, the fold keeps.                                  *)
LEMMA FoldKeeps ==
    ASSUME NEW n \in Nat, NEW T, NEW g,
           \A s \in SUBSET (1..n) : s = {} \/ g[s \ {Max(s)}] \in T => g[s] \in T
    PROVE  g[1..n] \in T /\ \A s \in SUBSET (1..n) : g[s] \in T
<1> DEFINE K == {k \in Nat : \A s \in SUBSET (1..n) : s \subseteq 1..k => g[s] \in T}
<1>1. 0 \in K
  <2>1. 1..0 = {}
    OBVIOUS
  <2>2. \A s : s \subseteq 1..0 => s = {}
    BY <2>1
  <2> QED
    BY <2>2
<1>2. ASSUME NEW k \in 1..n, k - 1 \in K PROVE k \in K
  <2> SUFFICES ASSUME NEW s \in SUBSET (1..n), s \subseteq 1..k, s # {} PROVE g[s] \in T
    <3>1. k \in Nat /\ g[{}] \in T
      BY <1>1
    <3> QED
      BY <3>1
  <2>1. s \ {Max(s)} \in SUBSET (1..(k - 1)) /\ s \ {Max(s)} \in SUBSET (1..n)
    BY FoldLast
  <2> QED
    BY <1>2, <2>1
<1>3. n \in K
  <2> HIDE DEF K
  <2> QED
    BY <1>1, <1>2, UpTo
<1> QED
  BY <1>3

LEMMA FoldStays ==
    ASSUME NEW n \in Nat, NEW T, NEW b \in T, NEW h \in [1..n -> [T -> T]]
    PROVE  \E g : Folds(h, b, g, n) /\ \A s \in SUBSET (1..n) : g[s] \in T
<1>1. PICK g : Folds(h, b, g, n)
  BY FoldExists
<1>2. ASSUME NEW s \in SUBSET (1..n), s = {} \/ g[s \ {Max(s)}] \in T PROVE g[s] \in T
  <2>1. g[s] = Folded(h, b, g, s)
    BY <1>1 DEF Folds
  <2> QED
    BY <1>2, <2>1, FoldLast DEF Folded
<1>3. \A s \in SUBSET (1..n) : g[s] \in T
  BY <1>2, FoldKeeps
<1> QED
  BY <1>1, <1>3

LEMMA LoadKeyKeeps ==
    ASSUME NEW T, NEW b \in T, NEW entries, NEW key, NEW n \in Nat, DOMAIN entries = 1..n,
           \A t \in T, i \in 1..n : LoadIfOf(t, entries[i], key) \in T
    PROVE  LoadKey(b, entries, key) \in T
<1> DEFINE h == [i \in 1..n |-> [t \in T |-> LoadIfOf(t, entries[i], key)]]
           Step(g, u) == IF u = {} THEN b ELSE LoadIfOf(g[u \ {Max(u)}], entries[Max(u)], key)
<1>1. h \in [1..n -> [T -> T]] /\ \A t \in T, i \in 1..n : h[i][t] = LoadIfOf(t, entries[i], key)
  OBVIOUS
<1>2. LoadKey(b, entries, key) = (CHOOSE g : g = [u \in SUBSET (1..n) |-> Step(g, u)])[1..n]
  BY DEF LoadKey, FoldLeft, MapThenFoldSet
<1> HIDE DEF h
<1>3. PICK f : Folds(h, b, f, n) /\ \A u \in SUBSET (1..n) : f[u] \in T
  BY <1>1, FoldStays
<1>4. f = [u \in SUBSET (1..n) |-> Step(f, u)]
  <2>1. \A u \in SUBSET (1..n) : Folded(h, b, f, u) = Step(f, u)
    BY <1>1, <1>3, FoldLast DEF Folded
  <2> QED
    BY <1>3, <2>1 DEF Folds
<1>5. ASSUME NEW g, NEW u \in SUBSET (1..n), u = {} \/ g[u \ {Max(u)}] \in T
      PROVE  Step(g, u) \in T
  BY <1>5, FoldLast
<1> HIDE DEF Step
<1>6. PICK g : /\ g = [u \in SUBSET (1..n) |-> Step(g, u)]
               /\ LoadKey(b, entries, key) = g[1..n]
  BY <1>2, <1>4
<1>7. \A u \in SUBSET (1..n) : g[u] = Step(g, u)
  BY <1>6
<1>8. \A u \in SUBSET (1..n) : u = {} \/ g[u \ {Max(u)}] \in T => g[u] \in T
  BY <1>5, <1>7
<1>9. g[1..n] \in T
  BY <1>8, FoldKeeps
<1> QED
  BY <1>6, <1>9

LEMMA LoadKeysKeep ==
    ASSUME NEW T, {} \in T, NEW entries, NEW n \in Nat, DOMAIN LoadOrder = 1..n,
           \A t \in T, i \in 1..n : LoadKey(t, entries, LoadOrder[i]) \in T
    PROVE  LoadKeys(entries) \in T
<1> DEFINE h == [i \in 1..n |-> [t \in T |-> LoadKey(t, entries, LoadOrder[i])]]
           Step(g, u) == IF u = {} THEN {} ELSE LoadKey(g[u \ {Max(u)}], entries, LoadOrder[Max(u)])
<1>1. h \in [1..n -> [T -> T]] /\ \A t \in T, i \in 1..n : h[i][t] = LoadKey(t, entries, LoadOrder[i])
  OBVIOUS
<1>2. LoadKeys(entries) = (CHOOSE g : g = [u \in SUBSET (1..n) |-> Step(g, u)])[1..n]
  BY DEF LoadKeys, FoldLeft, MapThenFoldSet
<1> HIDE DEF h
<1>3. PICK f : Folds(h, {}, f, n) /\ \A u \in SUBSET (1..n) : f[u] \in T
  BY <1>1, FoldStays
<1>4. f = [u \in SUBSET (1..n) |-> Step(f, u)]
  <2>1. \A u \in SUBSET (1..n) : Folded(h, {}, f, u) = Step(f, u)
    BY <1>1, <1>3, FoldLast DEF Folded
  <2> QED
    BY <1>3, <2>1 DEF Folds
<1>5. ASSUME NEW g, NEW u \in SUBSET (1..n), u = {} \/ g[u \ {Max(u)}] \in T
      PROVE  Step(g, u) \in T
  BY <1>5, FoldLast
<1> HIDE DEF Step
<1>6. PICK g : /\ g = [u \in SUBSET (1..n) |-> Step(g, u)]
               /\ LoadKeys(entries) = g[1..n]
  BY <1>2, <1>4
<1>7. \A u \in SUBSET (1..n) : g[u] = Step(g, u)
  BY <1>6
<1>8. \A u \in SUBSET (1..n) : u = {} \/ g[u \ {Max(u)}] \in T => g[u] \in T
  BY <1>5, <1>7, ZenonT(60)
<1>9. g[1..n] \in T
  BY <1>8, FoldKeeps
<1> QED
  BY <1>6, <1>9

LEMMA DefaultsKeep ==
    ASSUME NEW T, NEW b \in T, NEW cs, NEW n \in Nat, DOMAIN cs = 1..n,
           \A t \in T, i \in 1..n : AddDefault(t, cs[i]) \in T
    PROVE  FoldLeft(AddDefault, b, cs) \in T
<1> DEFINE h == [i \in 1..n |-> [t \in T |-> AddDefault(t, cs[i])]]
           Step(g, u) == IF u = {} THEN b ELSE AddDefault(g[u \ {Max(u)}], cs[Max(u)])
<1>1. h \in [1..n -> [T -> T]] /\ \A t \in T, i \in 1..n : h[i][t] = AddDefault(t, cs[i])
  OBVIOUS
<1>2. FoldLeft(AddDefault, b, cs) = (CHOOSE g : g = [u \in SUBSET (1..n) |-> Step(g, u)])[1..n]
  BY DEF FoldLeft, MapThenFoldSet
<1> HIDE DEF h
<1>3. PICK f : Folds(h, b, f, n) /\ \A u \in SUBSET (1..n) : f[u] \in T
  BY <1>1, FoldStays
<1>4. f = [u \in SUBSET (1..n) |-> Step(f, u)]
  <2>1. \A u \in SUBSET (1..n) : Folded(h, b, f, u) = Step(f, u)
    BY <1>1, <1>3, FoldLast DEF Folded
  <2> QED
    BY <1>3, <2>1 DEF Folds
<1>5. ASSUME NEW g, NEW u \in SUBSET (1..n), u = {} \/ g[u \ {Max(u)}] \in T
      PROVE  Step(g, u) \in T
  BY <1>5, FoldLast
<1> HIDE DEF Step
<1>6. PICK g : /\ g = [u \in SUBSET (1..n) |-> Step(g, u)]
               /\ FoldLeft(AddDefault, b, cs) = g[1..n]
  BY <1>2, <1>4
<1>7. \A u \in SUBSET (1..n) : g[u] = Step(g, u)
  BY <1>6
<1>8. \A u \in SUBSET (1..n) : u = {} \/ g[u \ {Max(u)}] \in T => g[u] \in T
  BY <1>5, <1>7
<1>9. g[1..n] \in T
  BY <1>8, FoldKeeps
<1> QED
  BY <1>6, <1>9

LEMMA MergeKeeps ==
    ASSUME NEW T, NEW b \in T, NEW S, NEW n \in Nat, DOMAIN Sorted(S) = 1..n,
           \A t \in T, i \in 1..n : AddCheck(t, Sorted(S)[i]) \in T
    PROVE  Merge(b, S) \in T
<1> DEFINE h == [i \in 1..n |-> [t \in T |-> AddCheck(t, Sorted(S)[i])]]
           Step(g, u) == IF u = {} THEN b ELSE AddCheck(g[u \ {Max(u)}], Sorted(S)[Max(u)])
<1>1. h \in [1..n -> [T -> T]] /\ \A t \in T, i \in 1..n : h[i][t] = AddCheck(t, Sorted(S)[i])
  OBVIOUS
<1>2. Merge(b, S) = (CHOOSE g : g = [u \in SUBSET (1..n) |-> Step(g, u)])[1..n]
  BY DEF Merge, FoldLeft, MapThenFoldSet
<1> HIDE DEF h
<1>3. PICK f : Folds(h, b, f, n) /\ \A u \in SUBSET (1..n) : f[u] \in T
  BY <1>1, FoldStays
<1>4. f = [u \in SUBSET (1..n) |-> Step(f, u)]
  <2>1. \A u \in SUBSET (1..n) : Folded(h, b, f, u) = Step(f, u)
    BY <1>1, <1>3, FoldLast DEF Folded
  <2> QED
    BY <1>3, <2>1 DEF Folds
<1>5. ASSUME NEW g, NEW u \in SUBSET (1..n), u = {} \/ g[u \ {Max(u)}] \in T
      PROVE  Step(g, u) \in T
  BY <1>5, FoldLast
<1> HIDE DEF Step
<1>6. PICK g : /\ g = [u \in SUBSET (1..n) |-> Step(g, u)]
               /\ Merge(b, S) = g[1..n]
  BY <1>2, <1>4
<1>7. \A u \in SUBSET (1..n) : g[u] = Step(g, u)
  BY <1>6
<1>8. \A u \in SUBSET (1..n) : u = {} \/ g[u \ {Max(u)}] \in T => g[u] \in T
  BY <1>5, <1>7
<1>9. g[1..n] \in T
  BY <1>8, FoldKeeps
<1> QED
  BY <1>6, <1>9

LEMMA RootKeeps ==
    ASSUME NEW T, {} \in T, NEW packages, NEW n \in Nat, DOMAIN packages = 1..n,
           \A t \in T, i \in 1..n : Merge(t, Load(packages[i])) \in T
    PROVE  RootChecks(packages) \in T
<1> DEFINE h == [i \in 1..n |-> [t \in T |-> Merge(t, Load(packages[i]))]]
           Step(g, u) == IF u = {} THEN {} ELSE Merge(g[u \ {Max(u)}], Load(packages[Max(u)]))
<1>1. h \in [1..n -> [T -> T]] /\ \A t \in T, i \in 1..n : h[i][t] = Merge(t, Load(packages[i]))
  OBVIOUS
<1>2. RootChecks(packages) = (CHOOSE g : g = [u \in SUBSET (1..n) |-> Step(g, u)])[1..n]
  BY DEF RootChecks, FoldLeft, MapThenFoldSet
<1> HIDE DEF h
<1>3. PICK f : Folds(h, {}, f, n) /\ \A u \in SUBSET (1..n) : f[u] \in T
  BY <1>1, FoldStays
<1>4. f = [u \in SUBSET (1..n) |-> Step(f, u)]
  <2>1. \A u \in SUBSET (1..n) : Folded(h, {}, f, u) = Step(f, u)
    BY <1>1, <1>3, FoldLast DEF Folded
  <2> QED
    BY <1>3, <2>1 DEF Folds
<1>5. ASSUME NEW g, NEW u \in SUBSET (1..n), u = {} \/ g[u \ {Max(u)}] \in T
      PROVE  Step(g, u) \in T
  BY <1>5, FoldLast
<1> HIDE DEF Step
<1>6. PICK g : /\ g = [u \in SUBSET (1..n) |-> Step(g, u)]
               /\ RootChecks(packages) = g[1..n]
  BY <1>2, <1>4
<1>7. \A u \in SUBSET (1..n) : g[u] = Step(g, u)
  BY <1>6
<1>8. \A u \in SUBSET (1..n) : u = {} \/ g[u \ {Max(u)}] \in T => g[u] \in T
  BY <1>5, <1>7, ZenonT(60)
<1>9. g[1..n] \in T
  BY <1>8, FoldKeeps
<1> QED
  BY <1>6, <1>9

LEMMA ReadLinesKeep ==
    ASSUME NEW T, NEW b \in T, NEW ls, NEW n \in Nat, DOMAIN ls = 1..n,
           \A t \in T, i \in 1..n : ReadLine(t, ls[i]) \in T
    PROVE  ReadLines(b, ls) \in T
<1> DEFINE h == [i \in 1..n |-> [t \in T |-> ReadLine(t, ls[i])]]
           Step(g, u) == IF u = {} THEN b ELSE ReadLine(g[u \ {Max(u)}], ls[Max(u)])
<1>1. h \in [1..n -> [T -> T]] /\ \A t \in T, i \in 1..n : h[i][t] = ReadLine(t, ls[i])
  OBVIOUS
<1>2. ReadLines(b, ls) = (CHOOSE g : g = [u \in SUBSET (1..n) |-> Step(g, u)])[1..n]
  BY DEF ReadLines, FoldLeft, MapThenFoldSet
<1> HIDE DEF h
<1>3. PICK f : Folds(h, b, f, n) /\ \A u \in SUBSET (1..n) : f[u] \in T
  BY <1>1, FoldStays
<1>4. f = [u \in SUBSET (1..n) |-> Step(f, u)]
  <2>1. \A u \in SUBSET (1..n) : Folded(h, b, f, u) = Step(f, u)
    BY <1>1, <1>3, FoldLast DEF Folded
  <2> QED
    BY <1>3, <2>1 DEF Folds
<1>5. ASSUME NEW g, NEW u \in SUBSET (1..n), u = {} \/ g[u \ {Max(u)}] \in T
      PROVE  Step(g, u) \in T
  BY <1>5, FoldLast
<1> HIDE DEF Step
<1>6. PICK g : /\ g = [u \in SUBSET (1..n) |-> Step(g, u)]
               /\ ReadLines(b, ls) = g[1..n]
  BY <1>2, <1>4
<1>7. \A u \in SUBSET (1..n) : g[u] = Step(g, u)
  BY <1>6
<1>8. \A u \in SUBSET (1..n) : u = {} \/ g[u \ {Max(u)}] \in T => g[u] \in T
  BY <1>5, <1>7
<1>9. g[1..n] \in T
  BY <1>8, FoldKeeps
<1> QED
  BY <1>6, <1>9

LEMMA AddHeadersKeep ==
    ASSUME NEW T, NEW b \in T, NEW hs, NEW n \in Nat, DOMAIN hs = 1..n,
           \A t \in T, i \in 1..n : AddHeader(t, hs[i]) \in T
    PROVE  FoldLeft(AddHeader, b, hs) \in T
<1> DEFINE h == [i \in 1..n |-> [t \in T |-> AddHeader(t, hs[i])]]
           Step(g, u) == IF u = {} THEN b ELSE AddHeader(g[u \ {Max(u)}], hs[Max(u)])
<1>1. h \in [1..n -> [T -> T]] /\ \A t \in T, i \in 1..n : h[i][t] = AddHeader(t, hs[i])
  OBVIOUS
<1>2. FoldLeft(AddHeader, b, hs) = (CHOOSE g : g = [u \in SUBSET (1..n) |-> Step(g, u)])[1..n]
  BY DEF FoldLeft, MapThenFoldSet
<1> HIDE DEF h
<1>3. PICK f : Folds(h, b, f, n) /\ \A u \in SUBSET (1..n) : f[u] \in T
  BY <1>1, FoldStays
<1>4. f = [u \in SUBSET (1..n) |-> Step(f, u)]
  <2>1. \A u \in SUBSET (1..n) : Folded(h, b, f, u) = Step(f, u)
    BY <1>1, <1>3, FoldLast DEF Folded
  <2> QED
    BY <1>3, <2>1 DEF Folds
<1>5. ASSUME NEW g, NEW u \in SUBSET (1..n), u = {} \/ g[u \ {Max(u)}] \in T
      PROVE  Step(g, u) \in T
  BY <1>5, FoldLast
<1> HIDE DEF Step
<1>6. PICK g : /\ g = [u \in SUBSET (1..n) |-> Step(g, u)]
               /\ FoldLeft(AddHeader, b, hs) = g[1..n]
  BY <1>2, <1>4
<1>7. \A u \in SUBSET (1..n) : g[u] = Step(g, u)
  BY <1>6
<1>8. \A u \in SUBSET (1..n) : u = {} \/ g[u \ {Max(u)}] \in T => g[u] \in T
  BY <1>5, <1>7
<1>9. g[1..n] \in T
  BY <1>8, FoldKeeps
<1> QED
  BY <1>6, <1>9

LEMMA AddWorkersKeep ==
    ASSUME NEW T, <<>> \in T, NEW parts, NEW valid, NEW ws, NEW n \in Nat, DOMAIN ws = 1..n,
           \A t \in T, i \in 1..n : AddWorker(t, ws[i], parts, valid) \in T
    PROVE  AddWorkers(parts, valid, ws) \in T
<1> DEFINE h == [i \in 1..n |-> [t \in T |-> AddWorker(t, ws[i], parts, valid)]]
           Step(g, u) == IF u = {} THEN <<>> ELSE AddWorker(g[u \ {Max(u)}], ws[Max(u)], parts, valid)
<1>1. h \in [1..n -> [T -> T]] /\ \A t \in T, i \in 1..n : h[i][t] = AddWorker(t, ws[i], parts, valid)
  OBVIOUS
<1>2. AddWorkers(parts, valid, ws) = (CHOOSE g : g = [u \in SUBSET (1..n) |-> Step(g, u)])[1..n]
  BY DEF AddWorkers, FoldLeft, MapThenFoldSet
<1> HIDE DEF h
<1>3. PICK f : Folds(h, <<>>, f, n) /\ \A u \in SUBSET (1..n) : f[u] \in T
  BY <1>1, FoldStays
<1>4. f = [u \in SUBSET (1..n) |-> Step(f, u)]
  <2>1. \A u \in SUBSET (1..n) : Folded(h, <<>>, f, u) = Step(f, u)
    BY <1>1, <1>3, FoldLast DEF Folded
  <2> QED
    BY <1>3, <2>1 DEF Folds
<1>5. ASSUME NEW g, NEW u \in SUBSET (1..n), u = {} \/ g[u \ {Max(u)}] \in T
      PROVE  Step(g, u) \in T
  BY <1>5, FoldLast
<1> HIDE DEF Step
<1>6. PICK g : /\ g = [u \in SUBSET (1..n) |-> Step(g, u)]
               /\ AddWorkers(parts, valid, ws) = g[1..n]
  BY <1>2, <1>4
<1>7. \A u \in SUBSET (1..n) : g[u] = Step(g, u)
  BY <1>6
<1>8. \A u \in SUBSET (1..n) : u = {} \/ g[u \ {Max(u)}] \in T => g[u] \in T
  BY <1>5, <1>7
<1>9. g[1..n] \in T
  BY <1>8, FoldKeeps
<1> QED
  BY <1>6, <1>9

LEMMA ChooseValuesKeep ==
    ASSUME NEW T, <<>> \in T, NEW values, NEW cs, NEW n \in Nat, DOMAIN cs = 1..n,
           \A t \in T, i \in 1..n : ChooseValue(t, cs[i], values) \in T
    PROVE  ChosenChecks(cs, values) \in T
<1> DEFINE h == [i \in 1..n |-> [t \in T |-> ChooseValue(t, cs[i], values)]]
           Step(g, u) == IF u = {} THEN <<>> ELSE ChooseValue(g[u \ {Max(u)}], cs[Max(u)], values)
<1>1. h \in [1..n -> [T -> T]] /\ \A t \in T, i \in 1..n : h[i][t] = ChooseValue(t, cs[i], values)
  OBVIOUS
<1>2. ChosenChecks(cs, values) = (CHOOSE g : g = [u \in SUBSET (1..n) |-> Step(g, u)])[1..n]
  BY DEF ChosenChecks, FoldLeft, MapThenFoldSet
<1> HIDE DEF h
<1>3. PICK f : Folds(h, <<>>, f, n) /\ \A u \in SUBSET (1..n) : f[u] \in T
  BY <1>1, FoldStays
<1>4. f = [u \in SUBSET (1..n) |-> Step(f, u)]
  <2>1. \A u \in SUBSET (1..n) : Folded(h, <<>>, f, u) = Step(f, u)
    BY <1>1, <1>3, FoldLast DEF Folded
  <2> QED
    BY <1>3, <2>1 DEF Folds
<1>5. ASSUME NEW g, NEW u \in SUBSET (1..n), u = {} \/ g[u \ {Max(u)}] \in T
      PROVE  Step(g, u) \in T
  BY <1>5, FoldLast
<1> HIDE DEF Step
<1>6. PICK g : /\ g = [u \in SUBSET (1..n) |-> Step(g, u)]
               /\ ChosenChecks(cs, values) = g[1..n]
  BY <1>2, <1>4
<1>7. \A u \in SUBSET (1..n) : g[u] = Step(g, u)
  BY <1>6
<1>8. \A u \in SUBSET (1..n) : u = {} \/ g[u \ {Max(u)}] \in T => g[u] \in T
  BY <1>5, <1>7
<1>9. g[1..n] \in T
  BY <1>8, FoldKeeps
<1> QED
  BY <1>6, <1>9

LEMMA PrintHeadersKeep ==
    ASSUME NEW T, <<>> \in T, NEW values, NEW cs, NEW n \in Nat, DOMAIN cs = 1..n,
           \A t \in T, i \in 1..n : PrintHeader(t, cs[i], values) \in T
    PROVE  FoundHeaders(cs, values) \in T
<1> DEFINE h == [i \in 1..n |-> [t \in T |-> PrintHeader(t, cs[i], values)]]
           Step(g, u) == IF u = {} THEN <<>> ELSE PrintHeader(g[u \ {Max(u)}], cs[Max(u)], values)
<1>1. h \in [1..n -> [T -> T]] /\ \A t \in T, i \in 1..n : h[i][t] = PrintHeader(t, cs[i], values)
  OBVIOUS
<1>2. FoundHeaders(cs, values) = (CHOOSE g : g = [u \in SUBSET (1..n) |-> Step(g, u)])[1..n]
  BY DEF FoundHeaders, FoldLeft, MapThenFoldSet
<1> HIDE DEF h
<1>3. PICK f : Folds(h, <<>>, f, n) /\ \A u \in SUBSET (1..n) : f[u] \in T
  BY <1>1, FoldStays
<1>4. f = [u \in SUBSET (1..n) |-> Step(f, u)]
  <2>1. \A u \in SUBSET (1..n) : Folded(h, <<>>, f, u) = Step(f, u)
    BY <1>1, <1>3, FoldLast DEF Folded
  <2> QED
    BY <1>3, <2>1 DEF Folds
<1>5. ASSUME NEW g, NEW u \in SUBSET (1..n), u = {} \/ g[u \ {Max(u)}] \in T
      PROVE  Step(g, u) \in T
  BY <1>5, FoldLast
<1> HIDE DEF Step
<1>6. PICK g : /\ g = [u \in SUBSET (1..n) |-> Step(g, u)]
               /\ FoundHeaders(cs, values) = g[1..n]
  BY <1>2, <1>4
<1>7. \A u \in SUBSET (1..n) : g[u] = Step(g, u)
  BY <1>6
<1>8. \A u \in SUBSET (1..n) : u = {} \/ g[u \ {Max(u)}] \in T => g[u] \in T
  BY <1>5, <1>7
<1>9. g[1..n] \in T
  BY <1>8, FoldKeeps
<1> QED
  BY <1>6, <1>9

(* The checks a worker makes, where P[k] is what holds after k of them.     *)
LEMMA WorkerKeeps ==
    ASSUME NEW T, NEW cs, NEW w, NEW n \in Nat, DOMAIN cs = 1..n,
           \A t \in T, i \in 1..n : MakeAlone(t, cs[i], w) \in T,
           NEW P \in [0..n -> SUBSET T], [vars |-> <<>>, of |-> <<>>] \in P[0],
           \A k \in 1..n : \A t \in P[k - 1] : MakeAlone(t, cs[k], w) \in P[k]
    PROVE  Worker(cs, w) \in P[n]
<1> DEFINE b == [vars |-> <<>>, of |-> <<>>]
           h == [i \in 1..n |-> [t \in T |-> MakeAlone(t, cs[i], w)]]
           Step(g, u) == IF u = {} THEN b ELSE MakeAlone(g[u \ {Max(u)}], cs[Max(u)], w)
<1>1. h \in [1..n -> [T -> T]] /\ \A t \in T, i \in 1..n : h[i][t] = MakeAlone(t, cs[i], w)
  OBVIOUS
<1>2. Worker(cs, w)
        = (CHOOSE g : g = [u \in SUBSET (1..n) |-> Step(g, u)])[1..n]
  BY DEF Worker, FoldLeft, MapThenFoldSet
<1> HIDE DEF h
<1>3. PICK f : Folds(h, b, f, n) /\ \A u \in SUBSET (1..n) : f[u] \in T
  <2>1. b \in T
    OBVIOUS
  <2> QED
    BY <1>1, <2>1, FoldStays
<1>4. f = [u \in SUBSET (1..n) |-> Step(f, u)]
  <2>1. \A u \in SUBSET (1..n) : Folded(h, b, f, u) = Step(f, u)
    BY <1>1, <1>3, FoldLast DEF Folded
  <2> QED
    BY <1>3, <2>1 DEF Folds
<1>5. \A g : Step(g, {}) = b
  OBVIOUS
<1>6. ASSUME NEW g, NEW k \in 1..n PROVE Step(g, 1..k) = MakeAlone(g[1..(k - 1)], cs[k], w)
  <2>1. k \in Nat /\ k # 0
    OBVIOUS
  <2> QED
    BY <2>1, WholePrefix
<1> HIDE DEF Step
<1>7. PICK g : /\ g = [u \in SUBSET (1..n) |-> Step(g, u)]
               /\ Worker(cs, w) = g[1..n]
  BY <1>2, <1>4
<1>8. \A u \in SUBSET (1..n) : g[u] = Step(g, u)
  BY <1>7
<1> DEFINE K == {k \in Nat : k \in 0..n => g[1..k] \in P[k]}
<1>9. 0 \in K
  <2>1. {} \in SUBSET (1..n) /\ 1..0 = {}
    OBVIOUS
  <2> QED
    BY <1>5, <1>8, <2>1
<1>10. ASSUME NEW k \in 1..n, k - 1 \in K PROVE k \in K
  <2>1. 1..k \in SUBSET (1..n) /\ g[1..(k - 1)] \in P[k - 1]
    BY <1>10
  <2> QED
    BY <1>6, <1>8, <2>1
<1> HIDE DEF K
<1>11. n \in K
  BY <1>9, <1>10, UpTo
<1>12. g[1..n] \in P[n]
  BY <1>11 DEF K
<1> QED
  BY <1>7, <1>12

(* The same of the checks the helper makes.                                *)
LEMMA WritingKeeps ==
    ASSUME NEW T, NEW b, NEW cs, NEW w, NEW n \in Nat, DOMAIN cs = 1..n,
           \A t \in T, i \in 1..n : WriteCheck(t, cs[i], w) \in T,
           NEW P \in [0..n -> SUBSET T], b \in P[0],
           \A k \in 1..n : \A t \in P[k - 1] : WriteCheck(t, cs[k], w) \in P[k]
    PROVE  WriteChecks(b, cs, w) \in P[n]
<1> DEFINE h == [i \in 1..n |-> [t \in T |-> WriteCheck(t, cs[i], w)]]
           Step(g, u) == IF u = {} THEN b ELSE WriteCheck(g[u \ {Max(u)}], cs[Max(u)], w)
<1>1. h \in [1..n -> [T -> T]] /\ \A t \in T, i \in 1..n : h[i][t] = WriteCheck(t, cs[i], w)
  OBVIOUS
<1>2. WriteChecks(b, cs, w)
        = (CHOOSE g : g = [u \in SUBSET (1..n) |-> Step(g, u)])[1..n]
  BY DEF WriteChecks, FoldLeft, MapThenFoldSet
<1> HIDE DEF h
<1>3. PICK f : Folds(h, b, f, n) /\ \A u \in SUBSET (1..n) : f[u] \in T
  <2>1. b \in T
    OBVIOUS
  <2> QED
    BY <1>1, <2>1, FoldStays
<1>4. f = [u \in SUBSET (1..n) |-> Step(f, u)]
  <2>1. \A u \in SUBSET (1..n) : Folded(h, b, f, u) = Step(f, u)
    BY <1>1, <1>3, FoldLast DEF Folded
  <2> QED
    BY <1>3, <2>1 DEF Folds
<1>5. \A g : Step(g, {}) = b
  OBVIOUS
<1>6. ASSUME NEW g, NEW k \in 1..n PROVE Step(g, 1..k) = WriteCheck(g[1..(k - 1)], cs[k], w)
  <2>1. k \in Nat /\ k # 0
    OBVIOUS
  <2> QED
    BY <2>1, WholePrefix
<1> HIDE DEF Step
<1>7. PICK g : /\ g = [u \in SUBSET (1..n) |-> Step(g, u)]
               /\ WriteChecks(b, cs, w) = g[1..n]
  BY <1>2, <1>4
<1>8. \A u \in SUBSET (1..n) : g[u] = Step(g, u)
  BY <1>7
<1> DEFINE K == {k \in Nat : k \in 0..n => g[1..k] \in P[k]}
<1>9. 0 \in K
  <2>1. {} \in SUBSET (1..n) /\ 1..0 = {}
    OBVIOUS
  <2> QED
    BY <1>5, <1>8, <2>1
<1>10. ASSUME NEW k \in 1..n, k - 1 \in K PROVE k \in K
  <2>1. 1..k \in SUBSET (1..n) /\ g[1..(k - 1)] \in P[k - 1]
    BY <1>10
  <2> QED
    BY <1>6, <1>8, <2>1
<1> HIDE DEF K
<1>11. n \in K
  BY <1>9, <1>10, UpTo
<1>12. g[1..n] \in P[n]
  BY <1>11 DEF K
<1> QED
  BY <1>7, <1>12

(* What step m of a fold brings and no step undoes is there at its end.   *)
LEMMA FoldReaches ==
    ASSUME NEW n \in Nat, NEW T, NEW A, NEW g, NEW m \in 1..n,
           \A u \in SUBSET (1..n) : g[u] \in T,
           \A k \in 1..n : g[1..(k - 1)] \in A => g[1..k] \in A,
           g[1..(m - 1)] \in T => g[1..m] \in A
    PROVE  g[1..n] \in A
<1> DEFINE K == {k \in Nat : k \in m..n => g[1..k] \in A}
<1>1. 0 \in K
  OBVIOUS
<1>2. ASSUME NEW k \in 1..n, k - 1 \in K PROVE k \in K
  <2>1. CASE k < m
    BY <2>1
  <2>2. CASE k = m
    <3>1. 1..(m - 1) \in SUBSET (1..n)
      OBVIOUS
    <3> QED
      BY <2>2, <3>1
  <2>3. CASE k > m
    <3>1. k - 1 \in m..n
      BY <2>3
    <3> QED
      BY <1>2, <3>1
  <2> QED
    BY <2>1, <2>2, <2>3
<1> HIDE DEF K
<1>3. n \in K
  BY <1>1, <1>2, UpTo
<1> QED
  BY <1>3 DEF K

LEMMA LoadKeyReaches ==
    ASSUME NEW T, NEW b \in T, NEW entries, NEW key, NEW n \in Nat, DOMAIN entries = 1..n,
           \A t \in T, i \in 1..n : LoadIfOf(t, entries[i], key) \in T,
           NEW A \in SUBSET T, NEW m \in 1..n,
           \A t \in A, i \in 1..n : LoadIfOf(t, entries[i], key) \in A,
           \A t \in T : LoadIfOf(t, entries[m], key) \in A
    PROVE  LoadKey(b, entries, key) \in A
<1> DEFINE h == [i \in 1..n |-> [t \in T |-> LoadIfOf(t, entries[i], key)]]
           Step(g, u) == IF u = {} THEN b ELSE LoadIfOf(g[u \ {Max(u)}], entries[Max(u)], key)
<1>1. h \in [1..n -> [T -> T]] /\ \A t \in T, i \in 1..n : h[i][t] = LoadIfOf(t, entries[i], key)
  OBVIOUS
<1>2. LoadKey(b, entries, key) = (CHOOSE g : g = [u \in SUBSET (1..n) |-> Step(g, u)])[1..n]
  BY DEF LoadKey, FoldLeft, MapThenFoldSet
<1> HIDE DEF h
<1>3. PICK f : Folds(h, b, f, n) /\ \A u \in SUBSET (1..n) : f[u] \in T
  BY <1>1, FoldStays
<1>4. f = [u \in SUBSET (1..n) |-> Step(f, u)]
  <2>1. \A u \in SUBSET (1..n) : Folded(h, b, f, u) = Step(f, u)
    BY <1>1, <1>3, FoldLast DEF Folded
  <2> QED
    BY <1>3, <2>1 DEF Folds
<1>5. ASSUME NEW g, NEW u \in SUBSET (1..n), u = {} \/ g[u \ {Max(u)}] \in T
      PROVE  Step(g, u) \in T
  BY <1>5, FoldLast
<1>6. ASSUME NEW g, NEW k \in 1..n
      PROVE  Step(g, 1..k) = LoadIfOf(g[1..(k - 1)], entries[k], key)
  <2>1. k \in Nat /\ k # 0
    OBVIOUS
  <2> QED
    BY <2>1, WholePrefix
<1> HIDE DEF Step
<1>7. PICK g : /\ g = [u \in SUBSET (1..n) |-> Step(g, u)]
               /\ LoadKey(b, entries, key) = g[1..n]
  BY <1>2, <1>4
<1>8. \A u \in SUBSET (1..n) : g[u] = Step(g, u)
  BY <1>7
<1>9. \A u \in SUBSET (1..n) : u = {} \/ g[u \ {Max(u)}] \in T => g[u] \in T
  BY <1>5, <1>8
<1>10. \A u \in SUBSET (1..n) : g[u] \in T
  BY <1>9, FoldKeeps
<1>11. ASSUME NEW k \in 1..n PROVE g[1..k] = LoadIfOf(g[1..(k - 1)], entries[k], key)
  <2>1. 1..k \in SUBSET (1..n)
    OBVIOUS
  <2> QED
    BY <1>6, <1>8, <2>1
<1>12. \A k \in 1..n : g[1..(k - 1)] \in A => g[1..k] \in A
  BY <1>11
<1>13. g[1..(m - 1)] \in T => g[1..m] \in A
  BY <1>11
<1>14. g[1..n] \in A
  BY <1>10, <1>12, <1>13, FoldReaches
<1> QED
  BY <1>7, <1>14

LEMMA LoadKeysReach ==
    ASSUME NEW T, {} \in T, NEW entries, NEW n \in Nat, DOMAIN LoadOrder = 1..n,
           \A t \in T, i \in 1..n : LoadKey(t, entries, LoadOrder[i]) \in T,
           NEW A \in SUBSET T, NEW m \in 1..n,
           \A t \in A, i \in 1..n : LoadKey(t, entries, LoadOrder[i]) \in A,
           \A t \in T : LoadKey(t, entries, LoadOrder[m]) \in A
    PROVE  LoadKeys(entries) \in A
<1> DEFINE h == [i \in 1..n |-> [t \in T |-> LoadKey(t, entries, LoadOrder[i])]]
           Step(g, u) == IF u = {} THEN {} ELSE LoadKey(g[u \ {Max(u)}], entries, LoadOrder[Max(u)])
<1>1. h \in [1..n -> [T -> T]] /\ \A t \in T, i \in 1..n : h[i][t] = LoadKey(t, entries, LoadOrder[i])
  OBVIOUS
<1>2. LoadKeys(entries) = (CHOOSE g : g = [u \in SUBSET (1..n) |-> Step(g, u)])[1..n]
  BY DEF LoadKeys, FoldLeft, MapThenFoldSet
<1> HIDE DEF h
<1>3. PICK f : Folds(h, {}, f, n) /\ \A u \in SUBSET (1..n) : f[u] \in T
  BY <1>1, FoldStays
<1>4. f = [u \in SUBSET (1..n) |-> Step(f, u)]
  <2>1. \A u \in SUBSET (1..n) : Folded(h, {}, f, u) = Step(f, u)
    BY <1>1, <1>3, FoldLast DEF Folded
  <2> QED
    BY <1>3, <2>1 DEF Folds
<1>5. ASSUME NEW g, NEW u \in SUBSET (1..n), u = {} \/ g[u \ {Max(u)}] \in T
      PROVE  Step(g, u) \in T
  BY <1>5, FoldLast
<1>6. ASSUME NEW g, NEW k \in 1..n
      PROVE  Step(g, 1..k) = LoadKey(g[1..(k - 1)], entries, LoadOrder[k])
  <2>1. k \in Nat /\ k # 0
    OBVIOUS
  <2> QED
    BY <2>1, WholePrefix
<1> HIDE DEF Step
<1>7. PICK g : /\ g = [u \in SUBSET (1..n) |-> Step(g, u)]
               /\ LoadKeys(entries) = g[1..n]
  BY <1>2, <1>4
<1>8. \A u \in SUBSET (1..n) : g[u] = Step(g, u)
  BY <1>7
<1>9. \A u \in SUBSET (1..n) : u = {} \/ g[u \ {Max(u)}] \in T => g[u] \in T
  BY <1>5, <1>8
<1>10. \A u \in SUBSET (1..n) : g[u] \in T
  BY <1>9, FoldKeeps
<1>11. ASSUME NEW k \in 1..n PROVE g[1..k] = LoadKey(g[1..(k - 1)], entries, LoadOrder[k])
  <2>1. 1..k \in SUBSET (1..n)
    OBVIOUS
  <2> QED
    BY <1>6, <1>8, <2>1
<1>12. \A k \in 1..n : g[1..(k - 1)] \in A => g[1..k] \in A
  BY <1>11
<1>13. g[1..(m - 1)] \in T => g[1..m] \in A
  BY <1>11
<1>14. g[1..n] \in A
  BY <1>10, <1>12, <1>13, FoldReaches
<1> QED
  BY <1>7, <1>14

LEMMA DefaultsReach ==
    ASSUME NEW T, NEW b \in T, NEW cs, NEW n \in Nat, DOMAIN cs = 1..n,
           \A t \in T, i \in 1..n : AddDefault(t, cs[i]) \in T,
           NEW A \in SUBSET T, NEW m \in 1..n,
           \A t \in A, i \in 1..n : AddDefault(t, cs[i]) \in A,
           \A t \in T : AddDefault(t, cs[m]) \in A
    PROVE  FoldLeft(AddDefault, b, cs) \in A
<1> DEFINE h == [i \in 1..n |-> [t \in T |-> AddDefault(t, cs[i])]]
           Step(g, u) == IF u = {} THEN b ELSE AddDefault(g[u \ {Max(u)}], cs[Max(u)])
<1>1. h \in [1..n -> [T -> T]] /\ \A t \in T, i \in 1..n : h[i][t] = AddDefault(t, cs[i])
  OBVIOUS
<1>2. FoldLeft(AddDefault, b, cs) = (CHOOSE g : g = [u \in SUBSET (1..n) |-> Step(g, u)])[1..n]
  BY DEF FoldLeft, MapThenFoldSet
<1> HIDE DEF h
<1>3. PICK f : Folds(h, b, f, n) /\ \A u \in SUBSET (1..n) : f[u] \in T
  BY <1>1, FoldStays
<1>4. f = [u \in SUBSET (1..n) |-> Step(f, u)]
  <2>1. \A u \in SUBSET (1..n) : Folded(h, b, f, u) = Step(f, u)
    BY <1>1, <1>3, FoldLast DEF Folded
  <2> QED
    BY <1>3, <2>1 DEF Folds
<1>5. ASSUME NEW g, NEW u \in SUBSET (1..n), u = {} \/ g[u \ {Max(u)}] \in T
      PROVE  Step(g, u) \in T
  BY <1>5, FoldLast
<1>6. ASSUME NEW g, NEW k \in 1..n PROVE Step(g, 1..k) = AddDefault(g[1..(k - 1)], cs[k])
  <2>1. k \in Nat /\ k # 0
    OBVIOUS
  <2> QED
    BY <2>1, WholePrefix
<1> HIDE DEF Step
<1>7. PICK g : /\ g = [u \in SUBSET (1..n) |-> Step(g, u)]
               /\ FoldLeft(AddDefault, b, cs) = g[1..n]
  BY <1>2, <1>4
<1>8. \A u \in SUBSET (1..n) : g[u] = Step(g, u)
  BY <1>7
<1>9. \A u \in SUBSET (1..n) : u = {} \/ g[u \ {Max(u)}] \in T => g[u] \in T
  BY <1>5, <1>8
<1>10. \A u \in SUBSET (1..n) : g[u] \in T
  BY <1>9, FoldKeeps
<1>11. ASSUME NEW k \in 1..n PROVE g[1..k] = AddDefault(g[1..(k - 1)], cs[k])
  <2>1. 1..k \in SUBSET (1..n)
    OBVIOUS
  <2> QED
    BY <1>6, <1>8, <2>1
<1>12. \A k \in 1..n : g[1..(k - 1)] \in A => g[1..k] \in A
  BY <1>11
<1>13. g[1..(m - 1)] \in T => g[1..m] \in A
  BY <1>11
<1>14. g[1..n] \in A
  BY <1>10, <1>12, <1>13, FoldReaches
<1> QED
  BY <1>7, <1>14

-----------------------------------------------------------------------------
(* Order                                                                   *)

(* Of a finite set in a strict order each but the last has a next one: for *)
(* each number of elements before it there is an element.                  *)
StrictlyOrders(R, S) ==
    /\ \A x \in S : <<x, x>> \notin R
    /\ \A x, y, z \in S : <<x, y>> \in R /\ <<y, z>> \in R => <<x, z>> \in R
    /\ \A x, y \in S : x = y \/ <<x, y>> \in R \/ <<y, x>> \in R
Ranks(R, S) ==
    /\ Cardinality(S) \in Nat
    /\ \A i \in 1..Cardinality(S) :
         \E x \in S : Cardinality({y \in S : <<y, x>> \in R}) = i - 1
LEMMA RankExists ==
    ASSUME NEW S, IsFiniteSet(S), NEW R, StrictlyOrders(R, S)
    PROVE  Ranks(R, S)
<1> USE DEF StrictlyOrders, Ranks
<1> DEFINE Below(x) == {y \in S : <<y, x>> \in R}
           n == Cardinality(S)
           f == [x \in S |-> Cardinality(Below(x))]
<1>1. n \in Nat
  BY FS_CardinalityType
<1>2. ASSUME NEW x \in S PROVE IsFiniteSet(Below(x)) /\ Cardinality(Below(x)) \in 0..(n - 1)
  <2>1. Below(x) \in SUBSET S /\ Below(x) # S
    OBVIOUS
  <2>2. IsFiniteSet(Below(x)) /\ Cardinality(Below(x)) \in Nat
    BY <2>1, FS_Subset, FS_CardinalityType
  <2>3. Cardinality(Below(x)) <= n /\ Cardinality(Below(x)) # n
    BY <2>1, FS_Subset
  <2> QED
    BY <1>1, <2>2, <2>3
<1>3. ASSUME NEW x \in S, NEW y \in S, <<x, y>> \in R PROVE f[x] # f[y]
  <2>1. Below(x) \in SUBSET Below(y) /\ Below(x) # Below(y)
    BY <1>3
  <2> HIDE DEF Below
  <2> QED
    BY <1>2, <2>1, FS_Subset
<1>4. f \in [S -> 0..(n - 1)]
  BY <1>2
<1>5. \A x, y \in S : f[x] = f[y] => x = y
  BY <1>3
<1> HIDE DEF f
<1>6. f \in Injection(S, 0..(n - 1))
  BY <1>4, <1>5 DEF Injection, IsInjective
<1>7. IsFiniteSet(0..(n - 1)) /\ Cardinality(0..(n - 1)) = n
  <2> HIDE DEF n
  <2>1. 0 \in Int /\ n - 1 \in Int /\ (0 > n - 1 => n = 0) /\ (n - 1) - 0 + 1 = n
    BY <1>1
  <2> QED
    BY <2>1, FS_Interval
<1>8. f \in Surjection(S, 0..(n - 1))
  BY <1>6, <1>7, FS_Injection
<1>9. \A i \in 1..n : i - 1 \in 0..(n - 1)
  BY <1>1
<1>10. \A j \in 0..(n - 1) : \E x \in S : f[x] = j
  BY <1>8 DEF Surjection
<1> QED
  BY <1>1, <1>9, <1>10 DEF f

(* A number in base n has its digits once.                                 *)
Number(n, a, x) == a * n + x
LEMMA Digits ==
    ASSUME NEW n \in Nat, NEW a \in Nat, NEW b \in Nat, NEW x \in 0..(n - 1), NEW y \in 0..(n - 1)
    PROVE  Number(n, a, x) \in Nat /\ (Number(n, a, x) = Number(n, b, y) => a = b /\ x = y)
<1>1. ASSUME NEW i \in Nat, NEW j \in Nat, i < j PROVE i * n + n <= j * n
  <2>1. PICK d \in Nat : j = i + 1 + d
    <3>1. j - i - 1 \in Nat /\ j = i + 1 + (j - i - 1)
      BY <1>1
    <3> QED
      BY <3>1
  <2>2. j * n = i * n + n + d * n /\ d * n \in Nat
    BY <2>1
  <2>3. i * n \in Nat /\ j * n \in Nat
    OBVIOUS
  <2> QED
    BY <2>2, <2>3
<1>2. a * n \in Nat /\ b * n \in Nat
  OBVIOUS
<1>3. ASSUME a * n + x = b * n + y PROVE a = b /\ x = y
  <2>1. ~(a < b)
    BY <1>1, <1>2, <1>3
  <2>2. ~(b < a)
    BY <1>1, <1>2, <1>3
  <2>3. a = b
    BY <2>1, <2>2
  <2> QED
    BY <1>2, <1>3, <2>3
<1> QED
  BY <1>2, <1>3 DEF Number

LEMMA PositionIs ==
    \A x \in Words : Position(x) \in 1..Len(Names) /\ Names[Position(x)] = x
<1> SUFFICES ASSUME NEW x \in Words
             PROVE  Position(x) \in 1..Len(Names) /\ Names[Position(x)] = x
  OBVIOUS
<1>1. Names \in Seq(STRING)
  BY ChecksAssumption
<1>2. DOMAIN Names = 1..Len(Names)
  BY <1>1
<1>3. \E i \in DOMAIN Names : Names[i] = x
  BY DEF Words, ToSet
<1>4. Position(x) \in DOMAIN Names /\ Names[Position(x)] = x
  BY <1>3 DEF Position
<1> QED
  BY <1>2, <1>4

LEMMA TypesAre ==
    /\ ToSet(Types) = {"Function", "Include", "Type", "Alignment", "Library", "LibraryFunction",
           "Symbol", "StructMember", "CSourceCompiles", "CSourceRuns", "CXXSourceCompiles",
           "CXXSourceRuns", "Decl", "Custom"}
    /\ \A t \in ToSet(Types) : Rank(t) \in 1..14 /\ Types[Rank(t)] = t
<1>1. DOMAIN Types = 1..14
  BY DEF Types
<1>2. \A t \in ToSet(Types) : \E i \in DOMAIN Types : Types[i] = t
  BY DEF ToSet
<1>3. \A t \in ToSet(Types) : Rank(t) \in 1..14 /\ Types[Rank(t)] = t
  BY <1>1, <1>2 DEF Rank
<1> QED
  BY <1>1, <1>3 DEF ToSet, Types

LEMMA PrefixesAre ==
    /\ DOMAIN VariablePrefixes = 1..7
    /\ {"", "ALIGNOF_", "HAVE_", "HAVE_DECL_", "HAVE_LIB", "SIZEOF_", "SIZE_OF_"}
         \subseteq ToSet(VariablePrefixes)
<1>1. DOMAIN VariablePrefixes = 1..7
  BY DEF VariablePrefixes
<1>2. \A i \in 1..7 : VariablePrefixes[i] \in ToSet(VariablePrefixes)
  BY <1>1 DEF ToSet
<1>3. /\ VariablePrefixes[1] = "" /\ VariablePrefixes[2] = "ALIGNOF_"
      /\ VariablePrefixes[3] = "HAVE_" /\ VariablePrefixes[4] = "HAVE_DECL_"
      /\ VariablePrefixes[5] = "HAVE_LIB" /\ VariablePrefixes[6] = "SIZEOF_"
      /\ VariablePrefixes[7] = "SIZE_OF_"
  BY DEF VariablePrefixes
<1>4. /\ "" \in ToSet(VariablePrefixes) /\ "ALIGNOF_" \in ToSet(VariablePrefixes)
      /\ "HAVE_" \in ToSet(VariablePrefixes) /\ "HAVE_DECL_" \in ToSet(VariablePrefixes)
      /\ "HAVE_LIB" \in ToSet(VariablePrefixes) /\ "SIZEOF_" \in ToSet(VariablePrefixes)
      /\ "SIZE_OF_" \in ToSet(VariablePrefixes)
  <2>1. /\ 1 \in 1..7 /\ 2 \in 1..7 /\ 3 \in 1..7 /\ 4 \in 1..7
        /\ 5 \in 1..7 /\ 6 \in 1..7 /\ 7 \in 1..7
    OBVIOUS
  <2> QED
    BY <1>2, <1>3, <2>1
<1> QED
  BY <1>1, <1>4

(* A variable has one place in the order of variables.                     *)
LEMMA VariableOrderIs ==
    /\ \A v \in Variable : VariableOrder(v) \in Nat
    /\ \A v, u \in Variable : VariableOrder(v) = VariableOrder(u) => v = u
<1> DEFINE n == Len(Names) + 1
           prefix(v) == CHOOSE i \in DOMAIN VariablePrefixes : VariablePrefixes[i] = v[1]
           last(v) == IF Len(v) = 3 THEN Position(v[3]) ELSE 0
<1>1. n \in Nat
  BY ChecksAssumption
<1>2. ASSUME NEW v \in Variable
      PROVE  /\ v[1] \in ToSet(VariablePrefixes) /\ v[2] \in Words
             /\ \/ v = <<v[1], v[2]>> /\ Len(v) = 2
                \/ v[3] \in Words /\ v = <<v[1], v[2], v[3]>> /\ Len(v) = 3
  <2>1. CASE v \in ToSet(VariablePrefixes) \X Words
    <3>1. PICK x \in ToSet(VariablePrefixes), y \in Words : v = <<x, y>>
      BY <2>1
    <3>2. v[1] = x /\ v[2] = y /\ Len(v) = 2
      BY <3>1
    <3> QED
      BY <3>1, <3>2
  <2>2. CASE \E s, m \in Words : v = <<"HAVE_", s, m>>
    <3>1. PICK x \in Words, y \in Words : v = <<"HAVE_", x, y>>
      BY <2>2
    <3>2. v[1] = "HAVE_" /\ v[2] = x /\ v[3] = y /\ Len(v) = 3
      BY <3>1
    <3>3. "HAVE_" \in ToSet(VariablePrefixes)
      BY PrefixesAre
    <3> QED
      BY <3>1, <3>2, <3>3
  <2> QED
    BY <2>1, <2>2 DEF Variable
<1>3. ASSUME NEW v \in Variable
      PROVE  /\ prefix(v) \in Nat /\ VariablePrefixes[prefix(v)] = v[1]
             /\ Position(v[2]) \in 0..(n - 1) /\ Names[Position(v[2])] = v[2]
             /\ last(v) \in 0..(n - 1)
             /\ \/ last(v) = 0 /\ Len(v) = 2
                \/ last(v) # 0 /\ Len(v) = 3 /\ Names[last(v)] = v[3]
  <2>1. \E i \in DOMAIN VariablePrefixes : VariablePrefixes[i] = v[1]
    BY <1>2 DEF ToSet
  <2>2. prefix(v) \in DOMAIN VariablePrefixes /\ VariablePrefixes[prefix(v)] = v[1]
    BY <2>1
  <2>3. \A x \in Words : Position(x) \in 0..(n - 1) /\ Position(x) # 0 /\ Names[Position(x)] = x
    BY <1>1, PositionIs
  <2> HIDE DEF n, prefix
  <2>4. 0 \in 0..(n - 1)
    BY <1>1, <1>2, <2>3
  <2>5. prefix(v) \in Nat
    <3>1. prefix(v) \in 1..7
      BY <2>2, PrefixesAre
    <3> QED
      BY <3>1
  <2>6. \/ Len(v) = 2 /\ last(v) = 0
        \/ Len(v) = 3 /\ last(v) = Position(v[3]) /\ v[3] \in Words
    BY <1>2
  <2> QED
    BY <1>2, <2>2, <2>3, <2>4, <2>5, <2>6
<1>4. \A v : VariableOrder(v) = Number(n, Number(n, prefix(v), Position(v[2])), last(v))
  BY DEF VariableOrder, Number
<1> HIDE DEF n, prefix, last
<1>5. ASSUME NEW v \in Variable PROVE Number(n, prefix(v), Position(v[2])) \in Nat
  <2>1. prefix(v) \in Nat /\ Position(v[2]) \in 0..(n - 1)
    BY <1>3
  <2> QED
    BY <1>1, <2>1, Digits
<1>6. ASSUME NEW v \in Variable PROVE VariableOrder(v) \in Nat
  BY <1>1, <1>3, <1>4, <1>5, Digits
<1>7. ASSUME NEW v \in Variable, NEW u \in Variable, VariableOrder(v) = VariableOrder(u)
      PROVE  v = u
  <2>1. /\ Number(n, prefix(v), Position(v[2])) = Number(n, prefix(u), Position(u[2]))
        /\ last(v) = last(u)
    <3>1. last(v) \in 0..(n - 1) /\ last(u) \in 0..(n - 1)
      BY <1>3
    <3> QED
      BY <1>1, <1>4, <1>5, <1>7, <3>1, Digits
  <2>2. prefix(v) = prefix(u) /\ Position(v[2]) = Position(u[2])
    BY <1>1, <1>3, <2>1, Digits, SMTT(30)
  <2> QED
    BY <1>2, <1>3, <2>1, <2>2
<1> QED
  BY <1>6, <1>7

LEMMA HeaderOrderIs ==
    /\ \A h \in HeaderLists : HeaderOrder(h) \in Nat
    /\ \A h, k \in HeaderLists : HeaderOrder(h) = HeaderOrder(k) => h = k
<1>1. \A x \in Words : Position(x) \in Nat /\ Position(x) # 0 /\ Names[Position(x)] = x
  BY PositionIs, ChecksAssumption
<1> QED
  BY <1>1 DEF HeaderOrder, HeaderLists

-----------------------------------------------------------------------------
(* Checks and sets of checks                                               *)

CheckRecords ==
    {c \in [type : ToSet(Types), var : Variable, what : Words, of : Words \cup {""},
            headers : HeaderLists, cpp : BOOLEAN, invert : BOOLEAN, default : BOOLEAN] :
        /\ c.type = "StructMember" => c.of \in Words
        /\ c.invert => c.type \in Sources}
CheckSets ==
    {S \in SUBSET CheckRecords :
        IsFiniteSet(S) /\ \A c, o \in S : Identity(c) = Identity(o) => c = o}

LEMMA CheckFields ==
    ASSUME NEW c \in CheckRecords
    PROVE  /\ c.type \in ToSet(Types) /\ c.var \in Variable /\ c.what \in Words
           /\ c.of \in Words \cup {""} /\ c.headers \in HeaderLists
           /\ c.cpp \in BOOLEAN /\ c.invert \in BOOLEAN /\ c.default \in BOOLEAN
           /\ c.type = "StructMember" => c.of \in Words
           /\ c.invert => c.type \in Sources
BY DEF CheckRecords

LEMMA LessIs ==
    \A c, o : Less(c, o) <=>
        \/ Rank(c.type) < Rank(o.type)
        \/ /\ Rank(c.type) = Rank(o.type)
           /\ \/ VariableOrder(c.var) < VariableOrder(o.var)
              \/ /\ VariableOrder(c.var) = VariableOrder(o.var)
                 /\ HeaderOrder(c.headers) < HeaderOrder(o.headers)
<1>1. \A x, y : (\E i \in 1..3 : x[i] < y[i] /\ \A j \in 1..(i - 1) : x[j] = y[j])
        <=> x[1] < y[1] \/ (x[1] = y[1] /\ x[2] < y[2])
                        \/ (x[1] = y[1] /\ x[2] = y[2] /\ x[3] < y[3])
  <2>1. 1..3 = {1, 2, 3} /\ 1..0 = {} /\ 1..1 = {1} /\ 1..2 = {1, 2}
    OBVIOUS
  <2>2. 1 - 1 = 0 /\ 2 - 1 = 1 /\ 3 - 1 = 2
    OBVIOUS
  <2> QED
    BY <2>1, <2>2
<1> QED
  BY <1>1 DEF Less

(* The checks of a set are sorted into a sequence that holds each once.    *)
LEMMA SortedIs ==
    ASSUME NEW S \in CheckSets
    PROVE  /\ Cardinality(S) \in Nat /\ DOMAIN Sorted(S) = 1..Cardinality(S)
           /\ \A i \in 1..Cardinality(S) : Sorted(S)[i] \in S
           /\ \A i, j \in 1..Cardinality(S) : Sorted(S)[i] = Sorted(S)[j] => i = j
           /\ \A i \in 1..Cardinality(S) : Cardinality({y \in S : Less(y, Sorted(S)[i])}) = i - 1
<1> DEFINE R == {x \in S \X S : Less(x[1], x[2])}
           n == Cardinality(S)
<1>1. \A c, o \in S : <<c, o>> \in R <=> Less(c, o)
  OBVIOUS
<1>2. ASSUME NEW c \in S
      PROVE  Rank(c.type) \in Nat /\ VariableOrder(c.var) \in Nat /\ HeaderOrder(c.headers) \in Nat
  <2>1. c \in CheckRecords
    BY DEF CheckSets
  <2>2. c.type \in ToSet(Types) /\ c.var \in Variable /\ c.headers \in HeaderLists
    BY <2>1, CheckFields
  <2> QED
    BY <2>2, TypesAre, VariableOrderIs, HeaderOrderIs
<1>3. ASSUME NEW c \in S, NEW o \in S, Rank(c.type) = Rank(o.type),
             VariableOrder(c.var) = VariableOrder(o.var), HeaderOrder(c.headers) = HeaderOrder(o.headers)
      PROVE  c = o
  <2>1. c \in CheckRecords /\ o \in CheckRecords
    BY DEF CheckSets
  <2>2. c.type = o.type
    <3>1. c.type \in ToSet(Types) /\ o.type \in ToSet(Types)
      BY <2>1, CheckFields
    <3>2. c.type = Types[Rank(c.type)] /\ o.type = Types[Rank(o.type)]
      BY <3>1, TypesAre
    <3> QED
      BY <1>3, <3>2
  <2>3. c.var = o.var /\ c.headers = o.headers
    BY <1>3, <2>1, VariableOrderIs, HeaderOrderIs, CheckFields
  <2> QED
    BY <2>2, <2>3 DEF CheckSets, Identity
<1> HIDE DEF R
<1>4. \A c \in S : <<c, c>> \notin R
  BY <1>1, <1>2, LessIs
<1>5. \A c, o, x \in S : <<c, o>> \in R /\ <<o, x>> \in R => <<c, x>> \in R
  BY <1>1, <1>2, LessIs
<1>6. \A c, o \in S : c = o \/ <<c, o>> \in R \/ <<o, c>> \in R
  <2> SUFFICES ASSUME NEW c \in S, NEW o \in S PROVE c = o \/ Less(c, o) \/ Less(o, c)
    BY <1>1
  <2> QED
    BY <1>2, <1>3, LessIs
<1>7. /\ n \in Nat
      /\ \A i \in 1..n : \E x \in S : Cardinality({y \in S : <<y, x>> \in R}) = i - 1
  <2>1. IsFiniteSet(S)
    BY DEF CheckSets
  <2>2. Ranks(R, S)
    <3>1. StrictlyOrders(R, S)
      BY <1>4, <1>5, <1>6 DEF StrictlyOrders
    <3> QED
      BY <2>1, <3>1, RankExists
  <2> QED
    BY <2>2 DEF Ranks
<1>8. \A x \in S : {y \in S : <<y, x>> \in R} = {y \in S : Less(y, x)}
  BY <1>1
<1> HIDE DEF n
<1>9. DOMAIN Sorted(S) = 1..n
  BY DEF Sorted, InOrder, n
<1>10. ASSUME NEW i \in 1..n
       PROVE  Sorted(S)[i] \in S /\ Cardinality({y \in S : Less(y, Sorted(S)[i])}) = i - 1
  <2>1. \E x \in S : Cardinality({y \in S : Less(y, x)}) = i - 1
    BY <1>7, <1>8
  <2>2. Sorted(S)[i] = CHOOSE x \in S : Cardinality({y \in S : Less(y, x)}) = i - 1
    BY DEF Sorted, InOrder, n
  <2> QED
    BY <2>1, <2>2
<1>11. ASSUME NEW i \in 1..n, NEW j \in 1..n, Sorted(S)[i] = Sorted(S)[j] PROVE i = j
  <2>1. i - 1 = j - 1
    BY <1>10, <1>11
  <2> QED
    BY <2>1
<1> QED
  BY <1>7, <1>9, <1>10, <1>11 DEF n

(* Each check of the set is in the sequence.                               *)
LEMMA SortedOnto ==
    ASSUME NEW S \in CheckSets, NEW c \in S PROVE \E j \in 1..Cardinality(S) : Sorted(S)[j] = c
<1> DEFINE n == Cardinality(S)
           cs == Sorted(S)
<1>1. n \in Nat /\ DOMAIN cs = 1..n /\ IsFiniteSet(S)
  BY SortedIs DEF CheckSets
<1>2. \A i \in 1..n : cs[i] \in S
  BY SortedIs
<1>3. \A i, j \in 1..n : cs[i] = cs[j] => i = j
  BY SortedIs
<1> DEFINE f == [i \in 1..n |-> cs[i]]
<1>4. IsFiniteSet(1..n) /\ Cardinality(1..n) = n
  <2> HIDE DEF n
  <2>1. 1 \in Int /\ n \in Int /\ (1 > n => n = 0) /\ n - 1 + 1 = n
    BY <1>1
  <2> QED
    BY <2>1, FS_Interval
<1> HIDE DEF cs
<1>5. f \in Injection(1..n, S)
  BY <1>2, <1>3 DEF Injection, IsInjective
<1>6. Cardinality(S) = Cardinality(1..n)
  BY <1>4
<1> HIDE DEF n, f
<1>7. f \in Surjection(1..n, S)
  BY <1>1, <1>4, <1>5, <1>6, FS_Injection
<1>8. \E j \in 1..n : f[j] = c
  BY <1>7 DEF Surjection
<1> QED
  BY <1>8 DEF f, n, cs

(* A check comes after those that are less.                                *)
LEMMA SortedOrder ==
    ASSUME NEW S \in CheckSets, NEW i \in 1..Cardinality(S), NEW j \in 1..Cardinality(S),
           Less(Sorted(S)[j], Sorted(S)[i])
    PROVE  j < i
<1> DEFINE c == Sorted(S)[i]
           o == Sorted(S)[j]
           Below(x) == {y \in S : Less(y, x)}
<1>1. /\ Cardinality(S) \in Nat /\ c \in S /\ o \in S
      /\ Cardinality(Below(c)) = i - 1 /\ Cardinality(Below(o)) = j - 1
  BY SortedIs
<1>2. i = j => c = o
  OBVIOUS
<1>3. Less(o, c)
  OBVIOUS
<1> HIDE DEF c, o
<1>4. ASSUME NEW x \in S
      PROVE  Rank(x.type) \in Nat /\ VariableOrder(x.var) \in Nat /\ HeaderOrder(x.headers) \in Nat
  <2>1. x \in CheckRecords
    BY DEF CheckSets
  <2>2. x.type \in ToSet(Types) /\ x.var \in Variable /\ x.headers \in HeaderLists
    BY <2>1, CheckFields
  <2> QED
    BY <2>2, TypesAre, VariableOrderIs, HeaderOrderIs
<1>5. ~Less(c, c)
  BY <1>1, <1>4, LessIs
<1>6. \A y \in S : Less(y, o) => Less(y, c)
  BY <1>1, <1>3, <1>4, LessIs
<1>7. IsFiniteSet(Below(c)) /\ Below(o) \in SUBSET Below(c)
  <2>1. IsFiniteSet(S) /\ Below(c) \in SUBSET S
    BY DEF CheckSets
  <2> QED
    BY <1>6, <2>1, FS_Subset
<1>8. Cardinality(Below(o)) <= Cardinality(Below(c))
  BY <1>7, FS_Subset
<1>9. j - 1 <= i - 1
  BY <1>1, <1>8
<1> QED
  BY <1>1, <1>2, <1>3, <1>5, <1>9

(* Declarations come after the checks whose variables they use.            *)
LEMMA DeclLater ==
    ASSUME NEW S \in CheckSets, NEW i \in 1..Cardinality(S), Sorted(S)[i].type = "Decl",
           NEW x \in LookedFor(S)
    PROVE  \E j \in 1..(i - 1) : Sorted(S)[j].var = x
<1>1. PICK o \in S : o.var = x /\ o.type \notin {"Decl", "Custom"}
  BY DEF LookedFor
<1>2. o.type \in ToSet(Types) /\ "Decl" \in ToSet(Types)
  BY CheckFields, TypesAre DEF CheckSets
<1>3. Rank("Decl") = 13
  <2>1. DOMAIN Types = 1..14 /\ Types[13] = "Decl" /\ \A k \in 1..14 : Types[k] = "Decl" => k = 13
    BY DEF Types
  <2> QED
    BY <1>2, <2>1, TypesAre
<1>4. Rank(o.type) \in 1..12
  <2>1. Types[13] = "Decl" /\ Types[14] = "Custom"
    BY DEF Types
  <2>2. Rank(o.type) \in 1..14 /\ Types[Rank(o.type)] = o.type
    BY <1>2, TypesAre
  <2>3. Rank(o.type) # 13 /\ Rank(o.type) # 14
    BY <1>1, <2>1, <2>2
  <2> QED
    BY <2>2, <2>3
<1>5. \E j \in 1..Cardinality(S) : Sorted(S)[j] = o
  BY SortedOnto
<1>6. PICK j \in 1..Cardinality(S) : Sorted(S)[j] = o
  BY <1>5
<1>7. Less(Sorted(S)[j], Sorted(S)[i])
  BY <1>3, <1>4, <1>6, LessIs
<1>8. j < i
  BY <1>7, SortedOrder
<1> QED
  BY <1>1, <1>6, <1>8, SortedIs

-----------------------------------------------------------------------------
(* Loading and saving                                                      *)

LEMMA WordsAre ==
    /\ \A w \in Words : Stem[w] \in Words
    /\ {"size_t", "stdlib.h", "STDC_HEADERS", "stdc", "type", "decl", "symbol"} \subseteq Words
BY ChecksAssumption, EntriesAssumption DEF Words

LEMMA VariablesAre ==
    /\ \A p \in {"", "ALIGNOF_", "HAVE_", "HAVE_DECL_", "HAVE_LIB", "SIZEOF_", "SIZE_OF_"} :
            \A w \in Words : <<p, w>> \in Variable
    /\ \A s, m \in Words : <<"HAVE_", s, m>> \in Variable
    /\ \A v \in Variable : v[2] \in Words
<1>1. \A p \in {"", "ALIGNOF_", "HAVE_", "HAVE_DECL_", "HAVE_LIB", "SIZEOF_", "SIZE_OF_"} :
            \A w \in Words : <<p, w>> \in Variable
  <2>1. \A p \in ToSet(VariablePrefixes), w \in Words : <<p, w>> \in Variable
    BY DEF Variable
  <2> QED
    BY <2>1, PrefixesAre
<1>2. \A s, m \in Words : <<"HAVE_", s, m>> \in Variable
  BY DEF Variable
<1>3. ASSUME NEW v \in Variable PROVE v[2] \in Words
  <2>1. CASE v \in ToSet(VariablePrefixes) \X Words
    BY <2>1
  <2>2. CASE \E s, m \in Words : v = <<"HAVE_", s, m>>
    BY <2>2
  <2> QED
    BY <2>1, <2>2 DEF Variable
<1> QED
  BY <1>1, <1>2, <1>3

LEMMA CheckIn ==
    ASSUME NEW t \in ToSet(Types), NEW var \in Variable, NEW what \in Words,
           NEW of \in Words \cup {""}, NEW headers \in HeaderLists, t = "StructMember" => of \in Words
    PROVE  Check(t, var, what, of, headers) \in CheckRecords
BY DEF Check, CheckRecords

LEMMA NamedIn ==
    ASSUME NEW t \in ToSet(Types), t # "StructMember", NEW n \in Words, NEW headers \in HeaderLists
    PROVE  Named(t, n, headers) \in CheckRecords /\ Named(t, n, headers).type = t
<1>1. Prefix(t) \in {"", "ALIGNOF_", "HAVE_", "HAVE_DECL_", "HAVE_LIB"}
  BY DEF Prefix
<1>2. <<Prefix(t), Stem[n]>> \in Variable
  BY <1>1, WordsAre, VariablesAre
<1>3. Named(t, n, headers) \in CheckRecords
  BY <1>2, CheckIn DEF Named
<1> QED
  BY <1>3 DEF Named, Check

LEMMA AddCheckIn ==
    ASSUME NEW S \in CheckSets, NEW c \in CheckRecords
    PROVE  AddCheck(S, c) \in CheckSets /\ \E o \in AddCheck(S, c) : Identity(o) = Identity(c)
<1>1. CASE \E o \in S : Identity(o) = Identity(c)
  BY <1>1 DEF AddCheck
<1>2. CASE ~\E o \in S : Identity(o) = Identity(c)
  <2>1. AddCheck(S, c) = S \cup {c}
    BY <1>2 DEF AddCheck
  <2>2. IsFiniteSet(S \cup {c})
    BY FS_AddElement DEF CheckSets
  <2>3. \A x, o \in S \cup {c} : Identity(x) = Identity(o) => x = o
    BY <1>2 DEF CheckSets
  <2>4. S \cup {c} \subseteq CheckRecords
    BY DEF CheckSets
  <2> QED
    BY <2>1, <2>2, <2>3, <2>4 DEF CheckSets
<1> QED
  BY <1>1, <1>2

LEMMA SetInIn ==
    ASSUME NEW S \in CheckSets, NEW c \in CheckRecords, NEW field \in {"cpp", "invert", "default"},
           NEW v \in BOOLEAN, field = "invert" => c.type \in Sources
    PROVE  SetIn(S, c, field, v) \in CheckSets
<1> DEFINE T == AddCheck(S, c)
           o == Same(T, c)
           x == [o EXCEPT ![field] = v]
<1>1. T \in CheckSets /\ o \in T /\ Identity(o) = Identity(c)
  BY AddCheckIn DEF Same
<1>2. SetIn(S, c, field, v) = (T \ {o}) \cup {x}
  BY DEF SetIn
<1> HIDE DEF T, o
<1>3. o \in CheckRecords /\ o.type = c.type
  BY <1>1 DEF CheckSets, Identity
<1>4. x \in CheckRecords /\ Identity(x) = Identity(o)
  BY <1>3 DEF CheckRecords, Identity
<1> HIDE DEF x
<1>5. IsFiniteSet((T \ {o}) \cup {x})
  BY <1>1, FS_RemoveElement, FS_AddElement DEF CheckSets
<1>6. (T \ {o}) \cup {x} \subseteq CheckRecords
  BY <1>1, <1>4 DEF CheckSets
<1>7. \A y, z \in (T \ {o}) \cup {x} : Identity(y) = Identity(z) => y = z
  BY <1>1, <1>4 DEF CheckSets
<1> QED
  BY <1>2, <1>5, <1>6, <1>7 DEF CheckSets

LEMMA EntryFields ==
    ASSUME NEW e \in Entries
    PROVE  /\ e.key \in ToSet(Types) /\ e.form \in {"scalar", "pair", "map"}
           /\ e.a \in Words /\ e.b \in Words \cup {""} /\ e.headers \in HeaderLists
           /\ e.flag \in {"", "true", "false"}
           /\ e.form = "pair" => e.b \in Words
           /\ e.key \in Sources \cup {"StructMember"} => e.b \in Words
           /\ e.key = "Include" /\ e.form # "scalar" => e.b \in Words
BY DEF Entries

LEMMA HeadersOfIn == \A e \in Entries : HeadersOf(e) \in HeaderLists
<1> SUFFICES ASSUME NEW e \in Entries PROVE HeadersOf(e) \in HeaderLists
  OBVIOUS
<1>1. <<>> \in HeaderLists /\ \A h \in Words : <<h>> \in HeaderLists
  BY DEF HeaderLists
<1> QED
  BY <1>1, EntryFields DEF HeadersOf

(* A check without what SetIn may have changed, and what it was made of.   *)
Fresh(c) == [c EXCEPT !.cpp = FALSE, !.invert = FALSE, !.default = FALSE]
Remade(c) ==
    IF c.type \in Sources THEN Check(c.type, <<"", c.var[2]>>, c.what, "", <<>>)
    ELSE IF c.type = "Include" THEN Check("Include", <<"HAVE_", c.var[2]>>, c.what, "", <<>>)
    ELSE IF c.type = "StructMember" THEN Member(c.what, c.of, c.headers)
    ELSE IF c.type = "LibraryFunction" THEN [Named("LibraryFunction", c.what, <<>>) EXCEPT !.of = c.of]
    ELSE IF c.type \in {"Library", "Alignment"} THEN Named(c.type, c.what, <<>>)
    ELSE Named(c.type, c.what, c.headers)
Made(c) == Fresh(c) = Remade(c) /\ (c.cpp => c.type \in {"Include", "Symbol"})
MadeSets == {S \in CheckSets : \A c \in S : Made(c)}

(* A check that is changed by SetIn is still made of the same.             *)
LEMMA MadeChanged ==
    ASSUME NEW c \in CheckRecords, Made(c), NEW field \in {"cpp", "invert", "default"},
           NEW v \in BOOLEAN, field = "cpp" => c.type \in {"Include", "Symbol"}
    PROVE  Made([c EXCEPT ![field] = v])
<1> DEFINE x == [c EXCEPT ![field] = v]
<1>1. /\ DOMAIN c = {"type", "var", "what", "of", "headers", "cpp", "invert", "default"}
      /\ DOMAIN x = DOMAIN c
  BY DEF CheckRecords
<1>2. /\ x.type = c.type /\ x.var = c.var /\ x.what = c.what /\ x.of = c.of /\ x.headers = c.headers
      /\ x.cpp = IF field = "cpp" THEN v ELSE c.cpp
  BY DEF CheckRecords
<1>3. Fresh(x) = Fresh(c)
  <2>1. CASE field = "cpp"
    BY <2>1 DEF Fresh, CheckRecords
  <2>2. CASE field = "invert"
    BY <2>2 DEF Fresh, CheckRecords
  <2>3. CASE field = "default"
    BY <2>3 DEF Fresh, CheckRecords
  <2> QED
    BY <2>1, <2>2, <2>3
<1> HIDE DEF x
<1>4. Remade(x) = Remade(c)
  BY <1>2 DEF Remade
<1>5. x.cpp => x.type \in {"Include", "Symbol"}
  BY <1>2 DEF Made
<1> QED
  BY <1>3, <1>4, <1>5 DEF Made, x

LEMMA MadeAdded ==
    ASSUME NEW S \in MadeSets, NEW c \in CheckRecords, Made(c) PROVE AddCheck(S, c) \in MadeSets
<1>1. AddCheck(S, c) \in CheckSets
  BY AddCheckIn DEF MadeSets
<1>2. \A o \in AddCheck(S, c) : o \in S \/ o = c
  BY DEF AddCheck
<1> QED
  BY <1>1, <1>2 DEF MadeSets

LEMMA MadeSet ==
    ASSUME NEW S \in MadeSets, NEW c \in CheckRecords, Made(c),
           NEW field \in {"cpp", "invert", "default"}, NEW v \in BOOLEAN,
           field = "invert" => c.type \in Sources,
           field = "cpp" => c.type \in {"Include", "Symbol"}
    PROVE  SetIn(S, c, field, v) \in MadeSets
<1> DEFINE T == AddCheck(S, c)
           o == Same(T, c)
<1>1. SetIn(S, c, field, v) \in CheckSets
  BY SetInIn DEF MadeSets
<1>2. T \in MadeSets
  BY MadeAdded
<1>3. o \in T /\ Identity(o) = Identity(c)
  <2>1. \E y \in T : Identity(y) = Identity(c)
    BY AddCheckIn DEF MadeSets
  <2> QED
    BY <2>1 DEF Same
<1>4. SetIn(S, c, field, v) = (T \ {o}) \cup {[o EXCEPT ![field] = v]}
  BY DEF SetIn
<1> HIDE DEF T, o
<1>5. o \in CheckRecords /\ Made(o) /\ o.type = c.type
  BY <1>2, <1>3 DEF MadeSets, CheckSets, Identity
<1>6. Made([o EXCEPT ![field] = v])
  BY <1>5, MadeChanged
<1> QED
  BY <1>1, <1>2, <1>4, <1>6 DEF MadeSets

LEMMA MadeCheck ==
    ASSUME NEW t, NEW var, NEW what, NEW of, NEW headers, NEW c,
           c = Check(t, var, what, of, headers)
    PROVE  /\ Fresh(c) = c /\ ~c.cpp /\ c.type = t /\ c.var = var /\ c.what = what
           /\ c.of = of /\ c.headers = headers
<1>1. /\ c.cpp = FALSE /\ c.invert = FALSE /\ c.default = FALSE
      /\ DOMAIN c = {"type", "var", "what", "of", "headers", "cpp", "invert", "default"}
  BY DEF Check
<1>2. /\ c.type = t /\ c.var = var /\ c.what = what /\ c.of = of /\ c.headers = headers
  BY DEF Check
<1>3. Fresh(c) = c
  <2>1. c = [x \in DOMAIN c |-> c[x]]
    BY DEF Check
  <2>2. Fresh(c) = [x \in DOMAIN c |-> Fresh(c)[x]] /\ DOMAIN Fresh(c) = DOMAIN c
    BY <2>1 DEF Fresh
  <2>3. \A x \in DOMAIN c : Fresh(c)[x] = c[x]
    BY <1>1, <2>1 DEF Fresh
  <2> HIDE DEF Fresh
  <2> QED
    BY <2>1, <2>2, <2>3
<1> QED
  BY <1>1, <1>2, <1>3

LEMMA MadeNamed ==
    ASSUME NEW t, NEW n, NEW headers, t \notin Sources \cup {"Include", "StructMember", "LibraryFunction"},
           t \in {"Library", "Alignment"} => headers = <<>>
    PROVE  Made(Named(t, n, headers))
<1> DEFINE c == Named(t, n, headers)
<1>1. c = Check(t, <<Prefix(t), Stem[n]>>, n, "", headers)
  BY DEF Named
<1> HIDE DEF c
<1> DEFINE var == <<Prefix(t), Stem[n]>>
           empty == ""
<1>4. c = Check(t, var, n, empty, headers)
  BY <1>1
<1> HIDE DEF var, empty
<1>3. Fresh(c) = c /\ ~c.cpp /\ c.type = t /\ c.what = n /\ c.headers = headers
  BY <1>4, MadeCheck
<1>2. Remade(c) = Named(t, n, headers)
  BY <1>3 DEF Remade
<1> QED
  BY <1>2, <1>3 DEF Made, c

LEMMA MadeInclude ==
    ASSUME NEW h, NEW var PROVE Made(Check("Include", <<"HAVE_", var>>, h, "", <<>>))
<1> DEFINE c == Check("Include", <<"HAVE_", var>>, h, "", <<>>)
<1>1. /\ Fresh(c) = c /\ ~c.cpp /\ c.type = "Include" /\ c.what = h /\ c.headers = <<>>
      /\ c.var = <<"HAVE_", var>> /\ c.var[2] = var
  <2> DEFINE v == <<"HAVE_", var>>
             none == <<>>
             empty == ""
  <2>1. c = Check("Include", v, h, empty, none) /\ v[2] = var
    OBVIOUS
  <2> HIDE DEF c, v, none, empty
  <2>2. /\ Fresh(c) = c /\ ~c.cpp /\ c.type = "Include" /\ c.what = h /\ c.headers = none
        /\ c.var = v
    BY <2>1, MadeCheck
  <2> QED
    BY <2>1, <2>2 DEF v, none
<1> HIDE DEF c
<1>2. Remade(c) = c
  BY <1>1 DEF Remade, Sources, c
<1> QED
  BY <1>1, <1>2 DEF Made, c

LEMMA MadeSource ==
    ASSUME NEW t \in Sources, NEW var, NEW text PROVE Made(Check(t, <<"", var>>, text, "", <<>>))
<1> DEFINE c == Check(t, <<"", var>>, text, "", <<>>)
<1>1. /\ Fresh(c) = c /\ ~c.cpp /\ c.type = t /\ c.what = text /\ c.headers = <<>>
      /\ c.var = <<"", var>> /\ c.var[2] = var
  <2> DEFINE v == <<"", var>>
             none == <<>>
             empty == ""
  <2>1. c = Check(t, v, text, empty, none) /\ v[2] = var
    OBVIOUS
  <2> HIDE DEF c, v, none, empty
  <2>2. /\ Fresh(c) = c /\ ~c.cpp /\ c.type = t /\ c.what = text /\ c.headers = none
        /\ c.var = v
    BY <2>1, MadeCheck
  <2> QED
    BY <2>1, <2>2 DEF v, none
<1> HIDE DEF c
<1>2. Remade(c) = c
  BY <1>1 DEF Remade, c
<1> QED
  BY <1>1, <1>2 DEF Made, c

LEMMA MadeMember ==
    ASSUME NEW m, NEW s, NEW headers PROVE Made(Member(m, s, headers))
<1> DEFINE c == Member(m, s, headers)
<1>1. /\ Fresh(c) = c /\ ~c.cpp /\ c.type = "StructMember" /\ c.what = m /\ c.of = s
      /\ c.headers = headers
  <2>1. c = Check("StructMember", <<"HAVE_", Stem[s], Stem[m]>>, m, s, headers)
    BY DEF Member
  <2> HIDE DEF c
  <2> QED
    BY <2>1, MadeCheck
<1> HIDE DEF c
<1>2. Remade(c) = c
  BY <1>1 DEF Remade, Sources, c
<1> QED
  BY <1>1, <1>2 DEF Made, c

LEMMA OfChanged ==
    ASSUME NEW t, NEW var, NEW what, NEW a, NEW b, NEW headers
    PROVE  [Check(t, var, what, a, headers) EXCEPT !.of = b] = Check(t, var, what, b, headers)
<1> DEFINE old == Check(t, var, what, a, headers)
           new == Check(t, var, what, b, headers)
           x == [old EXCEPT !.of = b]
<1>1. DOMAIN old = DOMAIN new /\ new.of = b /\ new = [i \in DOMAIN new |-> new[i]] /\ "of" \in DOMAIN old
  BY DEF Check
<1>2. \A i \in DOMAIN old \ {"of"} : old[i] = new[i]
  <2>1. DOMAIN old = {"type", "var", "what", "of", "headers", "cpp", "invert", "default"}
    BY DEF Check
  <2>2. /\ old.type = new.type /\ old.var = new.var /\ old.what = new.what
        /\ old.headers = new.headers
    BY DEF Check
  <2>3. old.cpp = new.cpp /\ old.invert = new.invert /\ old.default = new.default
    BY DEF Check
  <2> HIDE DEF old, new
  <2> QED
    BY <2>1, <2>2, <2>3
<1>3. x = [i \in DOMAIN old |-> IF i = "of" THEN b ELSE old[i]]
  <2>1. old = [i \in DOMAIN old |-> old[i]]
    BY DEF Check
  <2> HIDE DEF old
  <2> QED
    BY <2>1
<1> HIDE DEF old, new, x
<1>4. x = [i \in DOMAIN new |-> new[i]]
  BY <1>1, <1>2, <1>3
<1>5. x = new
  BY <1>1, <1>4
<1> QED
  BY <1>5 DEF x, old, new

LEMMA MadeLibraryFunction ==
    ASSUME NEW n, NEW of PROVE Made([Named("LibraryFunction", n, <<>>) EXCEPT !.of = of])
<1> DEFINE c == [Named("LibraryFunction", n, <<>>) EXCEPT !.of = of]
<1>1. Fresh(c) = c /\ ~c.cpp /\ c.type = "LibraryFunction" /\ c.what = n /\ c.of = of
  <2> DEFINE v == <<Prefix("LibraryFunction"), Stem[n]>>
             none == <<>>
             empty == ""
  <2>1. c = [Check("LibraryFunction", v, n, empty, none) EXCEPT !.of = of]
    BY DEF Named
  <2> HIDE DEF v, none, c, empty
  <2>2. c = Check("LibraryFunction", v, n, of, none)
    BY <2>1, OfChanged
  <2> QED
    BY <2>2, MadeCheck
<1> HIDE DEF c
<1>2. Remade(c) = c
  BY <1>1 DEF Remade, Sources, c
<1> QED
  BY <1>1, <1>2 DEF Made, c

(* What is loaded is made so.                                              *)
LEMMA MadeEntry ==
    ASSUME NEW S \in MadeSets, NEW e \in Entries PROVE LoadEntry(S, e) \in MadeSets
<1>1. /\ <<>> \in HeaderLists /\ HeadersOf(e) \in HeaderLists
      /\ {"Include", "Symbol"} \cap Sources = {} /\ "invert" # "cpp"
  BY HeadersOfIn DEF HeaderLists, Sources
<1>2. /\ e.key \in ToSet(Types) /\ e.a \in Words /\ e.b \in Words \cup {""}
      /\ e.headers \in HeaderLists
      /\ e.form = "pair" => e.b \in Words
  BY EntryFields
<1>3. FlagOf(e) \in BOOLEAN
  BY DEF FlagOf
<1>4. CASE e.key \in {"Function", "Type", "Library", "Alignment", "Decl"}
  <2>1. ASSUME NEW n \in Words, NEW h \in HeaderLists, e.key \in {"Library", "Alignment"} => h = <<>>
        PROVE  AddCheck(S, Named(e.key, n, h)) \in MadeSets
    <3>1. e.key \notin Sources \cup {"Include", "StructMember", "LibraryFunction"}
      BY <1>4 DEF Sources
    <3>2. Named(e.key, n, h) \in CheckRecords /\ Made(Named(e.key, n, h))
      BY <1>2, <2>1, <3>1, NamedIn, MadeNamed
    <3> QED
      BY <3>2, MadeAdded
  <2>2. CASE e.key = "Function"
    BY <1>1, <1>2, <2>1, <2>2 DEF LoadEntry, LoadFunction
  <2>3. CASE e.key = "Type"
    BY <1>1, <1>2, <2>1, <2>3 DEF LoadEntry, LoadType, IsOneLiner
  <2>4. CASE e.key \in {"Library", "Alignment"}
    BY <1>1, <1>2, <2>1, <2>4 DEF LoadEntry, LoadName
  <2>5. CASE e.key = "Decl"
    BY <1>1, <1>2, <2>1, <2>5 DEF LoadEntry, LoadDecl
  <2> QED
    BY <1>4, <2>2, <2>3, <2>4, <2>5
<1>5. CASE e.key = "StructMember"
  <2>1. e.b \in Words
    BY <1>5, EntryFields
  <2>2. <<"HAVE_", Stem[e.b], Stem[e.a]>> \in Variable
    BY <1>2, <2>1, WordsAre, VariablesAre
  <2>3. \A headers \in HeaderLists : Member(e.a, e.b, headers) \in CheckRecords
    BY <1>1, <1>2, <1>5, <2>1, <2>2, CheckIn DEF Member
  <2>4. LoadEntry(S, e) = LoadMember(S, e)
    BY <1>5 DEF LoadEntry
  <2> QED
    BY <1>1, <1>2, <2>3, <2>4, MadeMember, MadeAdded, Zenon DEF LoadMember
<1>6. CASE e.key = "Include"
  <2>1. LoadEntry(S, e) = LoadInclude(S, e)
    BY <1>6 DEF LoadEntry
  <2>2. CASE e.form = "scalar"
    <3>1. Named("Include", e.a, <<>>) \in CheckRecords
      BY <1>1, <1>2, <1>6, NamedIn
    <3>2. Named("Include", e.a, <<>>) = Check("Include", <<"HAVE_", Stem[e.a]>>, e.a, "", <<>>)
      BY DEF Named, Prefix, Sources
    <3>3. Made(Named("Include", e.a, <<>>))
      BY <3>2, MadeInclude
    <3> QED
      BY <1>6, <2>1, <2>2, <3>1, <3>3, MadeAdded DEF LoadInclude, LoadName
  <2>3. CASE e.form # "scalar"
    <3> DEFINE c == Check("Include", <<"HAVE_", e.b>>, e.a, "", <<>>)
    <3>1. e.b \in Words
      BY <1>6, <2>3, EntryFields
    <3>2. c \in CheckRecords /\ c.type = "Include"
      BY <1>1, <1>2, <1>6, <3>1, VariablesAre, CheckIn DEF Check
    <3>3. Made(c)
      BY MadeInclude
    <3>4. LoadEntry(S, e) = SetIn(S, c, "cpp", FlagOf(e))
      BY <2>1, <2>3 DEF LoadInclude
    <3> HIDE DEF c
    <3> QED
      BY <1>1, <1>3, <3>2, <3>3, <3>4, MadeSet
  <2> QED
    BY <2>2, <2>3
<1>7. CASE e.key = "LibraryFunction"
  <2> DEFINE d == [Named("LibraryFunction", e.a, <<>>) EXCEPT !.of = e.b]
  <2>1. d \in CheckRecords
    <3> DEFINE c == Named("LibraryFunction", e.a, <<>>)
    <3>1. c \in CheckRecords /\ c.type = "LibraryFunction"
      BY <1>1, <1>2, <1>7, NamedIn
    <3>4. d = [c EXCEPT !.of = e.b]
      OBVIOUS
    <3> HIDE DEF c, d
    <3>2. /\ d \in [type : ToSet(Types), var : Variable, what : Words, of : Words \cup {""},
                    headers : HeaderLists, cpp : BOOLEAN, invert : BOOLEAN, default : BOOLEAN]
          /\ d.type = c.type /\ d.invert = c.invert
      BY <1>2, <3>1, <3>4 DEF CheckRecords
    <3> QED
      BY <3>1, <3>2 DEF CheckRecords
  <2>2. Made(d)
    BY MadeLibraryFunction
  <2>3. LoadEntry(S, e) = AddCheck(S, d)
    BY <1>7 DEF LoadEntry, LoadLibraryFunction
  <2> HIDE DEF d
  <2> QED
    BY <2>1, <2>2, <2>3, MadeAdded
<1>8. CASE e.key = "Symbol"
  <2> DEFINE c == Named("Symbol", e.a, HeadersOf(e))
  <2>1. c \in CheckRecords /\ c.type = "Symbol"
    BY <1>1, <1>2, <1>8, NamedIn
  <2>2. Made(c)
    BY MadeNamed DEF Sources
  <2>3. LoadEntry(S, e) \in {AddCheck(S, c), SetIn(S, c, "cpp", FlagOf(e))}
    BY <1>8 DEF LoadEntry, LoadSymbol
  <2> HIDE DEF c
  <2> QED
    BY <1>1, <1>3, <2>1, <2>2, <2>3, MadeAdded, MadeSet
<1>9. CASE e.key \in Sources
  <2> DEFINE c == Check(e.key, <<"", e.a>>, e.b, "", <<>>)
  <2>1. e.b \in Words
    BY <1>9, EntryFields
  <2>2. c \in CheckRecords
    BY <1>1, <1>2, <1>9, <2>1, VariablesAre, CheckIn DEF Sources
  <2>3. c.type \in Sources
    BY <1>9 DEF Check
  <2>4. Made(c)
    BY <1>9, MadeSource
  <2>5. LoadEntry(S, e) \in {AddCheck(S, c), SetIn(S, c, "invert", FlagOf(e))}
    BY <1>9 DEF LoadEntry, LoadSource, Sources
  <2> HIDE DEF c
  <2> QED
    BY <1>1, <1>3, <2>2, <2>3, <2>4, <2>5, MadeAdded, MadeSet
<1> QED
  BY <1>2, <1>4, <1>5, <1>6, <1>7, <1>8, <1>9, TypesAre DEF Sources

(* Loading gives a set of checks that are made so.                         *)
LEMMA LoadIn ==
    ASSUME NEW entries \in Seq(Entries) PROVE Load(entries) \in MadeSets
<1>1. {} \in MadeSets
  BY FS_EmptySet DEF CheckSets, MadeSets
<1>2. Len(entries) \in Nat /\ DOMAIN entries = 1..Len(entries)
  OBVIOUS
<1>3. ASSUME NEW S \in MadeSets, NEW key PROVE LoadKey(S, entries, key) \in MadeSets
  <2>1. \A T \in MadeSets, i \in 1..Len(entries) : LoadIfOf(T, entries[i], key) \in MadeSets
    BY MadeEntry DEF LoadIfOf
  <2> QED
    BY <1>2, <2>1, LoadKeyKeeps
<1>4. LoadKeys(entries) \in MadeSets
  <2>1. 14 \in Nat /\ DOMAIN LoadOrder = 1..14
    BY DEF LoadOrder
  <2>2. \A T \in MadeSets, i \in 1..14 : LoadKey(T, entries, LoadOrder[i]) \in MadeSets
    BY <1>3
  <2> QED
    BY <1>1, <2>1, <2>2, LoadKeysKeep
<1>5. ASSUME NEW S \in MadeSets PROVE AddDefaults(S, entries) \in MadeSets
  <2> DEFINE Good == {c \in CheckRecords : Made(c)}
  <2>1. DefaultTypes \in Seq(Good) /\ DeclChecks \in Seq(Good)
    <3>1. <<>> \in HeaderLists /\ {"Type", "Include", "CSourceCompiles"} \subseteq ToSet(Types)
      BY TypesAre DEF HeaderLists
    <3>2. Named("Type", "size_t", <<>>) \in Good
      BY <3>1, WordsAre, NamedIn, MadeNamed DEF Sources
    <3>3. Named("Include", "stdlib.h", <<>>) \in Good
      <4>1. Named("Include", "stdlib.h", <<>>)
              = Check("Include", <<"HAVE_", Stem["stdlib.h"]>>, "stdlib.h", "", <<>>)
        BY DEF Named, Prefix, Sources
      <4>2. Made(Named("Include", "stdlib.h", <<>>))
        BY <4>1, MadeInclude
      <4> QED
        BY <3>1, <4>2, WordsAre, NamedIn
    <3>4. Check("CSourceCompiles", <<"", "STDC_HEADERS">>, "stdc", "", <<>>) \in Good
      <4>1. "CSourceCompiles" \in Sources
        BY DEF Sources
      <4>2. Made(Check("CSourceCompiles", <<"", "STDC_HEADERS">>, "stdc", "", <<>>))
        BY <4>1, MadeSource
      <4>3. Check("CSourceCompiles", <<"", "STDC_HEADERS">>, "stdc", "", <<>>) \in CheckRecords
        BY <3>1, WordsAre, VariablesAre, CheckIn
      <4> QED
        BY <4>2, <4>3
    <3> HIDE DEF Good
    <3>5. \A x, y \in Good : <<x>> \in Seq(Good) /\ <<x, y>> \in Seq(Good)
      OBVIOUS
    <3> QED
      BY <3>2, <3>3, <3>4, <3>5, Zenon DEF DefaultTypes, DeclChecks
  <2> DEFINE cs == DefaultTypes \o
                 (IF \E e \in ToSet(entries) : e.key = "Decl" THEN DeclChecks ELSE <<>>)
  <2>6. \A c \in Good : c \in CheckRecords /\ Made(c)
    OBVIOUS
  <2> HIDE DEF Good
  <2>2. cs \in Seq(Good)
    BY <2>1, ConcatProperties
  <2>3. AddDefaults(S, entries) = FoldLeft(AddDefault, S, cs)
    BY DEF AddDefaults
  <2> HIDE DEF cs
  <2>4. \A T \in MadeSets, i \in 1..Len(cs) : AddDefault(T, cs[i]) \in MadeSets
    <3>1. \A i \in 1..Len(cs) : cs[i] \in CheckRecords /\ Made(cs[i])
      BY <2>2, <2>6
    <3> QED
      BY <3>1, MadeSet DEF AddDefault
  <2>5. Len(cs) \in Nat /\ DOMAIN cs = 1..Len(cs)
    BY <2>2
  <2> QED
    BY <2>3, <2>4, <2>5, DefaultsKeep
<1> QED
  BY <1>4, <1>5 DEF Load

(* A check is saved as an entry.                                           *)
LEMMA EntryIn ==
    ASSUME NEW key \in ToSet(Types), NEW form \in {"scalar", "pair", "map"}, NEW a \in Words,
           NEW b \in Words \cup {""}, NEW headers \in HeaderLists, NEW flag \in {"", "true", "false"},
           form = "pair" => b \in Words, key \in Sources => b \in Words,
           key = "StructMember" => b \in Words, key = "Include" /\ form = "map" => b \in Words
    PROVE  Entry(key, form, a, b, headers, flag) \in Entries
<1> DEFINE e == Entry(key, form, a, b, headers, flag)
<1>1. /\ e \in [key : ToSet(Types), form : {"scalar", "pair", "map"}, a : Words,
                b : Words \cup {""}, headers : HeaderLists, flag : {"", "true", "false"}]
      /\ e.key = key /\ e.form = form /\ e.b = b
  BY DEF Entry
<1> HIDE DEF e
<1>2. e \in Entries
  BY <1>1 DEF Entries
<1> QED
  BY <1>2 DEF e

LEMMA SaveCheckIn ==
    ASSUME NEW c \in CheckRecords PROVE SaveCheck(c) \in Entries
<1>1. /\ c.type \in ToSet(Types) /\ c.what \in Words /\ c.of \in Words \cup {""}
      /\ c.headers \in HeaderLists /\ c.var[2] \in Words /\ <<>> \in HeaderLists
      /\ c.type = "StructMember" => c.of \in Words
  BY CheckFields, VariablesAre DEF HeaderLists
<1>2. \A b \in BOOLEAN : Flag(b) \in {"", "true", "false"}
  BY DEF Flag
<1>3. c.cpp \in BOOLEAN /\ c.invert \in BOOLEAN
  BY CheckFields
<1>7. /\ "" \in Words \cup {""} /\ "" \in {"", "true", "false"}
      /\ \A w \in Words : w \in Words \cup {""}
      /\ "scalar" \in {"scalar", "pair", "map"} /\ "pair" \in {"scalar", "pair", "map"}
      /\ "map" \in {"scalar", "pair", "map"}
  OBVIOUS
<1>4. CASE SavedForm(c) = "scalar"
  <2>1. c.type \notin Sources \cup {"StructMember", "Include"}
    BY <1>4 DEF SavedForm, Sources
  <2>2. SaveCheck(c) = Entry(c.type, "scalar", c.what, "", <<>>, "")
    BY <1>4 DEF SaveCheck
  <2>8. /\ c.type \in ToSet(Types) /\ "scalar" \in {"scalar", "pair", "map"}
        /\ c.what \in Words /\ "" \in Words \cup {""} /\ <<>> \in HeaderLists
        /\ "" \in {"", "true", "false"}
    BY <1>1, <1>7, <2>1
  <2>9. /\ "scalar" = "pair" => "" \in Words
        /\ c.type \in Sources => "" \in Words
        /\ c.type = "StructMember" => "" \in Words
        /\ c.type = "Include" /\ "scalar" = "map" => "" \in Words
    BY <1>1, <1>7, <2>1 DEF Sources
  <2>10. Entry(c.type, "scalar", c.what, "", <<>>, "") \in Entries
    BY <2>8, <2>9, EntryIn, Zenon
  <2> QED
    BY <2>2, <2>10
<1>5. CASE SavedForm(c) = "pair"
  <2>1. c.type \in {"Type", "Decl", "Symbol"}
    BY <1>5 DEF SavedForm
  <2>2. SavedKey(c) \in Words
    BY <2>1, WordsAre DEF SavedKey
  <2>3. SaveCheck(c) = Entry(c.type, "pair", SavedKey(c), c.what, <<>>, "")
    BY <1>5 DEF SaveCheck
  <2>8. /\ c.type \in ToSet(Types) /\ "pair" \in {"scalar", "pair", "map"}
        /\ SavedKey(c) \in Words /\ c.what \in Words \cup {""} /\ <<>> \in HeaderLists
        /\ "" \in {"", "true", "false"}
    BY <1>1, <1>7, <2>1, <2>2
  <2>9. /\ "pair" = "pair" => c.what \in Words
        /\ c.type \in Sources => c.what \in Words
        /\ c.type = "StructMember" => c.what \in Words
        /\ c.type = "Include" /\ "pair" = "map" => c.what \in Words
    BY <1>1, <1>7, <2>1, <2>2 DEF Sources
  <2>10. Entry(c.type, "pair", SavedKey(c), c.what, <<>>, "") \in Entries
    BY <2>8, <2>9, EntryIn, Zenon
  <2> QED
    BY <2>3, <2>10
<1>6. CASE SavedForm(c) \notin {"scalar", "pair"}
  <2>1. CASE c.type = "Include"
    <3>1. SaveCheck(c) = Entry(c.type, "map", c.what, c.var[2], <<>>, Flag(c.cpp))
      BY <1>6, <2>1 DEF SaveCheck
    <3>8. /\ c.type \in ToSet(Types) /\ "map" \in {"scalar", "pair", "map"}
          /\ c.what \in Words /\ c.var[2] \in Words \cup {""} /\ <<>> \in HeaderLists
          /\ Flag(c.cpp) \in {"", "true", "false"}
      BY <1>1, <1>2, <1>3, <1>7, <2>1
    <3>9. /\ "map" = "pair" => c.var[2] \in Words
          /\ c.type \in Sources => c.var[2] \in Words
          /\ c.type = "StructMember" => c.var[2] \in Words
          /\ c.type = "Include" /\ "map" = "map" => c.var[2] \in Words
      BY <1>1, <1>2, <1>3, <1>7, <2>1 DEF Sources
    <3>10. Entry(c.type, "map", c.what, c.var[2], <<>>, Flag(c.cpp)) \in Entries
      BY <3>8, <3>9, EntryIn, Zenon
    <3> QED
      BY <3>1, <3>10
  <2>2. CASE c.type \in Sources
    <3>1. SaveCheck(c) = Entry(c.type, "map", c.var[2], c.what, <<>>, Flag(c.invert))
      BY <1>6, <2>2 DEF SaveCheck, Sources
    <3>8. /\ c.type \in ToSet(Types) /\ "map" \in {"scalar", "pair", "map"}
          /\ c.var[2] \in Words /\ c.what \in Words \cup {""} /\ <<>> \in HeaderLists
          /\ Flag(c.invert) \in {"", "true", "false"}
      BY <1>1, <1>2, <1>3, <1>7, <2>2
    <3>9. /\ "map" = "pair" => c.what \in Words
          /\ c.type \in Sources => c.what \in Words
          /\ c.type = "StructMember" => c.what \in Words
          /\ c.type = "Include" /\ "map" = "map" => c.what \in Words
      BY <1>1, <1>2, <1>3, <1>7, <2>2 DEF Sources
    <3>10. Entry(c.type, "map", c.var[2], c.what, <<>>, Flag(c.invert)) \in Entries
      BY <3>8, <3>9, EntryIn, Zenon
    <3> QED
      BY <3>1, <3>10
  <2>3. CASE c.type = "Symbol"
    <3>1. SaveCheck(c) = Entry(c.type, "map", c.what, "", c.headers, IF c.cpp THEN "true" ELSE "")
      BY <1>6, <2>3 DEF SaveCheck, Sources
    <3>2. c.type \notin Sources \cup {"StructMember", "Include"}
      BY <2>3 DEF Sources
    <3>3. (IF c.cpp THEN "true" ELSE "") \in {"", "true", "false"}
      OBVIOUS
    <3>8. /\ c.type \in ToSet(Types) /\ "map" \in {"scalar", "pair", "map"}
          /\ c.what \in Words /\ "" \in Words \cup {""} /\ c.headers \in HeaderLists
          /\ (IF c.cpp THEN "true" ELSE "") \in {"", "true", "false"}
      BY <1>1, <1>7, <3>2, <3>3
    <3>9. /\ "map" = "pair" => "" \in Words
          /\ c.type \in Sources => "" \in Words
          /\ c.type = "StructMember" => "" \in Words
          /\ c.type = "Include" /\ "map" = "map" => "" \in Words
      BY <1>1, <1>7, <3>2, <3>3 DEF Sources
    <3>10. Entry(c.type, "map", c.what, "", c.headers, (IF c.cpp THEN "true" ELSE "")) \in Entries
      BY <3>8, <3>9, EntryIn, Zenon
    <3> QED
      BY <3>1, <3>10
  <2>4. CASE c.type \notin Sources \cup {"Include", "Symbol"}
    <3>1. SaveCheck(c) = Entry(c.type, "map", c.what, c.of, c.headers, "")
      BY <1>6, <2>4 DEF SaveCheck
    <3>8. /\ c.type \in ToSet(Types) /\ "map" \in {"scalar", "pair", "map"}
          /\ c.what \in Words /\ c.of \in Words \cup {""} /\ c.headers \in HeaderLists
          /\ "" \in {"", "true", "false"}
      BY <1>1, <1>7, <2>4
    <3>9. /\ "map" = "pair" => c.of \in Words
          /\ c.type \in Sources => c.of \in Words
          /\ c.type = "StructMember" => c.of \in Words
          /\ c.type = "Include" /\ "map" = "map" => c.of \in Words
      BY <1>1, <1>7, <2>4 DEF Sources
    <3>10. Entry(c.type, "map", c.what, c.of, c.headers, "") \in Entries
      BY <3>8, <3>9, EntryIn, Zenon
    <3> QED
      BY <3>1, <3>10
  <2> QED
    BY <2>1, <2>2, <2>3, <2>4
<1> QED
  BY <1>4, <1>5, <1>6

LEMMA SubsetIn ==
    ASSUME NEW S \in CheckSets, NEW T \in SUBSET S PROVE T \in CheckSets
<1>1. IsFiniteSet(T)
  BY FS_Subset DEF CheckSets
<1> QED
  BY <1>1 DEF CheckSets

LEMMA SaveIn ==
    ASSUME NEW S \in CheckSets PROVE Save(S) \in Seq(Entries)
<1> DEFINE T == {c \in S : ~c.default}
<1>1. T \in CheckSets
  BY SubsetIn
<1>2. Save(S) = [i \in DOMAIN Sorted(T) |-> SaveCheck(Sorted(T)[i])]
  BY DEF Save
<1> HIDE DEF T
<1>3. /\ Cardinality(T) \in Nat /\ DOMAIN Sorted(T) = 1..Cardinality(T)
      /\ \A i \in 1..Cardinality(T) : Sorted(T)[i] \in CheckRecords
  BY <1>1, SortedIs DEF CheckSets
<1>4. \A i \in 1..Cardinality(T) : SaveCheck(Sorted(T)[i]) \in Entries
  BY <1>3, SaveCheckIn
<1> QED
  BY <1>2, <1>3, <1>4

(* The checks of a project, as they are and as they are read back.         *)
LEMMA RootsIn ==
    ASSUME NEW s \in DOMAIN Setups, NEW p \in Procs
    PROVE  /\ Roots[s][p] \in MadeSets /\ SavedRoots[s][p] = Load(Save(Roots[s][p]))
           /\ Roots[s][p] \in CheckSets /\ SavedRoots[s][p] \in CheckSets
           /\ SortedRoots[s][p] = Sorted(Roots[s][p])
<1> DEFINE packages == Setups[s][p]
<1>1. packages \in Seq(Seq(Entries))
  BY EntriesAssumption
<1> HIDE DEF packages
<1>2. ASSUME NEW S \in MadeSets, NEW T \in MadeSets PROVE Merge(S, T) \in MadeSets
  <2>1. /\ Cardinality(T) \in Nat /\ DOMAIN Sorted(T) = 1..Cardinality(T)
        /\ \A i \in 1..Cardinality(T) : Sorted(T)[i] \in CheckRecords /\ Made(Sorted(T)[i])
    BY SortedIs DEF MadeSets, CheckSets
  <2>2. \A U \in MadeSets, i \in 1..Cardinality(T) : AddCheck(U, Sorted(T)[i]) \in MadeSets
    BY <2>1, MadeAdded
  <2> QED
    BY <2>1, <2>2, MergeKeeps
<1>3. RootChecks(packages) \in MadeSets
  <2>1. Len(packages) \in Nat /\ DOMAIN packages = 1..Len(packages)
    BY <1>1
  <2>2. \A i \in 1..Len(packages) : packages[i] \in Seq(Entries)
    BY <1>1
  <2>3. \A S \in MadeSets, i \in 1..Len(packages) : Merge(S, Load(packages[i])) \in MadeSets
    BY <1>2, <2>2, LoadIn
  <2>4. {} \in MadeSets
    BY FS_EmptySet DEF CheckSets, MadeSets
  <2> QED
    BY <2>1, <2>3, <2>4, RootKeeps
<1>4. Roots[s][p] = RootChecks(packages)
  BY DEF Roots, packages
<1>5. SavedRoots[s][p] = Load(Save(Roots[s][p]))
  BY DEF SavedRoots
<1>6. SortedRoots[s][p] = Sorted(Roots[s][p])
  BY DEF SortedRoots
<1>7. SavedRoots[s][p] \in CheckSets
  BY <1>3, <1>4, <1>5, SaveIn, LoadIn DEF MadeSets
<1> QED
  BY <1>3, <1>4, <1>5, <1>6, <1>7 DEF MadeSets

-----------------------------------------------------------------------------
(* What CMake holds.  A are the values variables may have, V the variables *)
(* whose value in the cache is the one before it is inverted, and L those  *)
(* that are defined but not written to the shared file.                    *)

Assignments == Variable \X Bits

CachedIn(A, V) ==
    {v \in UNION {[D -> Bits] : D \in SUBSET Variable} :
        \A x \in DOMAIN v : <<x, v[x]>> \in A \/ x \in V}
Once(a) == \A i, j \in DOMAIN a : a[i][1] = a[j][1] => i = j
Listed(v, a, L) == \A x \in DOMAIN v : x \in L \/ \E i \in DOMAIN a : a[i][1] = x
CMakes(A, V, L) ==
    {s \in [vars : CachedIn(A, V), array : Seq(A), raw : SUBSET V] :
        s.raw \subseteq DOMAIN s.vars /\ Once(s.array) /\ Listed(s.vars, s.array, L)}

LEMMA CachedIs ==
    ASSUME NEW A, NEW V
    PROVE  /\ \A v \in CachedIn(A, V) :
                /\ DOMAIN v \subseteq Variable
                /\ \A x \in DOMAIN v : v[x] \in Bits /\ (<<x, v[x]>> \in A \/ x \in V)
           /\ \A D \in SUBSET Variable : \A v \in [D -> Bits] :
                (\A x \in D : <<x, v[x]>> \in A \/ x \in V) => v \in CachedIn(A, V)
BY DEF CachedIn

LEMMA AssignmentIs ==
    \A l \in Assignments :
        l = <<l[1], l[2]>> /\ Len(l) = 2 /\ l[1] \in Variable /\ l[2] \in Bits
BY DEF Assignments

LEMMA LinesAre ==
    ASSUME NEW A \in SUBSET Assignments, NEW a \in Seq(A)
    PROVE  /\ Len(a) \in Nat /\ DOMAIN a = 1..Len(a)
           /\ \A i \in 1..Len(a) :
                /\ a[i] \in A /\ a[i] = <<a[i][1], a[i][2]>> /\ Len(a[i]) = 2
                /\ a[i][1] \in Variable /\ a[i][2] \in Bits
<1>1. Len(a) \in Nat /\ DOMAIN a = 1..Len(a) /\ \A i \in 1..Len(a) : a[i] \in A
  OBVIOUS
<1>2. \A i \in 1..Len(a) : a[i] \in Assignments
  BY <1>1
<1> QED
  BY <1>1, <1>2, AssignmentIs

LEMMA SetCached ==
    ASSUME NEW A, NEW V, NEW v \in CachedIn(A, V), NEW x \in Variable, NEW b \in Bits,
           <<x, b>> \in A
    PROVE  Set(v, x, b) \in CachedIn(A, V)
<1>1. \A y \in DOMAIN v : y \in Variable /\ v[y] \in Bits /\ (<<y, v[y]>> \in A \/ y \in V)
  BY CachedIs
<1>2. Set(v, x, b) \in [(DOMAIN v) \cup {x} -> Bits]
  BY <1>1 DEF Set
<1>3. (DOMAIN v) \cup {x} \in SUBSET Variable
  BY <1>1
<1>4. \A y \in (DOMAIN v) \cup {x} : <<y, Set(v, x, b)[y]>> \in A \/ y \in V
  BY <1>1 DEF Set
<1> QED
  BY <1>2, <1>3, <1>4, CachedIs

LEMMA NewCached ==
    ASSUME NEW A, NEW V, NEW v \in CachedIn(A, V), NEW N \in SUBSET Variable,
           \A x \in N : <<x, 1>> \in A
    PROVE  SetNew(v, N) \in CachedIn(A, V)
<1>1. \A y \in DOMAIN v : y \in Variable /\ v[y] \in Bits /\ (<<y, v[y]>> \in A \/ y \in V)
  BY CachedIs
<1>2. SetNew(v, N) \in [(DOMAIN v) \cup N -> Bits]
  BY <1>1 DEF SetNew, Bits
<1>3. (DOMAIN v) \cup N \in SUBSET Variable
  BY <1>1
<1>4. \A y \in (DOMAIN v) \cup N : <<y, SetNew(v, N)[y]>> \in A \/ y \in V
  BY <1>1 DEF SetNew
<1> QED
  BY <1>2, <1>3, <1>4, CachedIs

(* A variable gets a place at the end of the array or keeps its place.     *)
LEMMA AddVariableIn ==
    ASSUME NEW A \in SUBSET Assignments, NEW a \in Seq(A), Once(a), NEW x, NEW b, <<x, b>> \in A
    PROVE  /\ AddVariable(a, x, b) \in Seq(A) /\ Once(AddVariable(a, x, b))
           /\ \A v, L : Listed(v, a, L \cup {x}) => Listed(v, AddVariable(a, x, b), L)
<1>1. Len(a) \in Nat /\ DOMAIN a = 1..Len(a)
  BY LinesAre
<1>2. \A i \in 1..Len(a) : a[i] \in A
  BY LinesAre
<1> DEFINE e == <<x, b>>
<1>3. e \in A /\ e[1] = x
  OBVIOUS
<1>4. CASE \E i \in DOMAIN a : a[i][1] = x
  <2> DEFINE f == [i \in DOMAIN a |-> IF a[i][1] = x /\ Replaces(a[i][2], b) THEN e ELSE a[i]]
  <2>1. AddVariable(a, x, b) = f
    BY <1>4 DEF AddVariable
  <2>2. DOMAIN f = 1..Len(a)
    BY <1>1
  <2> HIDE DEF e
  <2>3. \A i \in 1..Len(a) : f[i] \in A /\ f[i][1] = a[i][1]
    BY <1>1, <1>2, <1>3
  <2>4. f = [i \in 1..Len(a) |-> f[i]]
    BY <1>1
  <2> HIDE DEF f
  <2>5. f \in Seq(A)
    BY <1>1, <2>3, <2>4
  <2>6. Once(f)
    BY <1>1, <2>2, <2>3 DEF Once
  <2>7. \E i \in DOMAIN f : f[i][1] = x
    BY <1>1, <1>4, <2>2, <2>3
  <2>8. \A y : (\E i \in DOMAIN a : a[i][1] = y) => \E i \in DOMAIN f : f[i][1] = y
    BY <1>1, <2>2, <2>3
  <2>9. \A v, L : Listed(v, a, L \cup {x}) => Listed(v, f, L)
    BY <2>7, <2>8 DEF Listed
  <2> QED
    BY <2>1, <2>5, <2>6, <2>9
<1>5. CASE ~\E i \in DOMAIN a : a[i][1] = x
  <2> DEFINE f == Append(a, e)
  <2>1. AddVariable(a, x, b) = f
    BY <1>5 DEF AddVariable
  <2> HIDE DEF e
  <2>2. /\ f \in Seq(A) /\ Len(f) = Len(a) + 1 /\ DOMAIN f = 1..(Len(a) + 1)
        /\ f[Len(a) + 1] = e /\ \A i \in 1..Len(a) : f[i] = a[i]
    BY <1>3
  <2>3. \A i \in 1..(Len(a) + 1) : i = Len(a) + 1 \/ i \in 1..Len(a)
    BY <1>1
  <2>4. Len(a) + 1 \in 1..(Len(a) + 1) /\ \A i \in 1..Len(a) : i \in 1..(Len(a) + 1)
    BY <1>1
  <2> HIDE DEF f
  <2>5. \A i \in 1..Len(a) : f[i][1] # x
    BY <1>1, <1>5, <2>2
  <2>6. Once(f)
    BY <1>1, <1>3, <2>2, <2>3, <2>5 DEF Once
  <2>7. \E i \in DOMAIN f : f[i][1] = x
    BY <1>3, <2>2, <2>4
  <2>8. \A y : (\E i \in DOMAIN a : a[i][1] = y) => \E i \in DOMAIN f : f[i][1] = y
    BY <1>1, <2>2, <2>4
  <2>9. \A v, L : Listed(v, a, L \cup {x}) => Listed(v, f, L)
    BY <2>7, <2>8 DEF Listed
  <2> QED
    BY <2>1, <2>2, <2>6, <2>9
<1> QED
  BY <1>4, <1>5

LEMMA CMakeIs ==
    ASSUME NEW A, NEW V, NEW L
    PROVE  /\ \A s \in CMakes(A, V, L) :
                /\ s.vars \in CachedIn(A, V) /\ s.array \in Seq(A) /\ Once(s.array)
                /\ s.raw \subseteq V /\ s.raw \subseteq DOMAIN s.vars
                /\ Listed(s.vars, s.array, L)
           /\ \A v \in CachedIn(A, V), a \in Seq(A), R \in SUBSET V :
                Once(a) /\ R \subseteq DOMAIN v /\ Listed(v, a, L) =>
                    [vars |-> v, array |-> a, raw |-> R] \in CMakes(A, V, L)
BY DEF CMakes

(* A variable is set in CMake and added to the array.                      *)
LEMMA BothIn ==
    ASSUME NEW A \in SUBSET Assignments, NEW V, NEW L, NEW s \in CMakes(A, V, L), NEW v \in CachedIn(A, V),
           NEW x, DOMAIN v = (DOMAIN s.vars) \cup {x}, NEW b, <<x, b>> \in A,
           NEW R \in SUBSET V, R \subseteq DOMAIN v
    PROVE  [vars |-> v, array |-> AddVariable(s.array, x, b), raw |-> R] \in CMakes(A, V, L)
<1>1. s.array \in Seq(A) /\ Once(s.array) /\ Listed(s.vars, s.array, L)
  BY CMakeIs
<1>2. Listed(v, s.array, L \cup {x})
  BY <1>1 DEF Listed
<1>3. /\ AddVariable(s.array, x, b) \in Seq(A) /\ Once(AddVariable(s.array, x, b))
      /\ Listed(v, AddVariable(s.array, x, b), L)
  BY <1>1, <1>2, AddVariableIn
<1> QED
  BY <1>3, CMakeIs

LEMMA ReadLineIn ==
    ASSUME NEW A \in SUBSET Assignments, NEW V, NEW L, NEW s \in CMakes(A, V, L), NEW l \in A
    PROVE  ReadLine(s, l) \in CMakes(A, V, L)
<1> DEFINE v == Set(s.vars, l[1], l[2])
<1>1. l[1] \in Variable /\ l[2] \in Bits /\ <<l[1], l[2]>> \in A
  BY AssignmentIs
<1>2. DOMAIN v = (DOMAIN s.vars) \cup {l[1]}
  BY DEF Set
<1>3. s.vars \in CachedIn(A, V) /\ s.raw \in SUBSET V /\ s.raw \subseteq DOMAIN s.vars
  BY CMakeIs
<1>4. v \in CachedIn(A, V)
  BY <1>1, <1>3, SetCached
<1> HIDE DEF v
<1>5. [vars |-> v, array |-> AddVariable(s.array, l[1], l[2]), raw |-> s.raw] \in CMakes(A, V, L)
  BY <1>1, <1>2, <1>3, <1>4, BothIn
<1> QED
  BY <1>5 DEF ReadLine, v

LEMMA ReadLinesIn ==
    ASSUME NEW A \in SUBSET Assignments, NEW V, NEW L, NEW s \in CMakes(A, V, L), NEW ls \in Seq(A)
    PROVE  ReadLines(s, ls) \in CMakes(A, V, L)
<1>1. Len(ls) \in Nat /\ DOMAIN ls = 1..Len(ls)
  OBVIOUS
<1>2. \A t \in CMakes(A, V, L), i \in 1..Len(ls) : ReadLine(t, ls[i]) \in CMakes(A, V, L)
  BY ReadLineIn
<1> QED
  BY <1>1, <1>2, ReadLinesKeep

-----------------------------------------------------------------------------
(* Making checks                                                           *)

(* A check gives its variable a value it may have, and so do a type and a  *)
(* symbol that is there to what they define.  R are the variables that are *)
(* defined when a declaration is looked for.  What a type defines besides  *)
(* is not written to the shared file.                                      *)
Finds(c, A, V, R, w) ==
    \A v \in CachedIn(A, V) :
        (c.type = "Decl" => R \subseteq DOMAIN v) => <<c.var, Value(c, v, w)>> \in A
Sound(c, A, V) ==
    /\ c.type = "Type" => \A x \in SizeVariables(c.what) :
            /\ \A b \in Bits : <<c.var, b>> \in A => <<x, b>> \in A
            /\ c.var \in V => <<x, 1>> \in A
    /\ c.type = "Symbol" => \A h \in ToSet(c.headers) :
            /\ <<c.var, 1>> \in A \/ c.var \in V => <<IncludeVariable(h), 1>> \in A
            /\ IncludeVariable(h) \in V => <<IncludeVariable(h), 0>> \in A
Unlisted(c, L) == c.type = "Type" => SizeVariables(c.what) \subseteq L

LEMMA NewVariables ==
    \A x \in Words : IncludeVariable(x) \in Variable /\ SizeVariables(x) \in SUBSET Variable
BY WordsAre, VariablesAre DEF IncludeVariable, SizeVariables

LEMMA ValueIs == \A c, v, w : Value(c, v, w) \in Bits
BY DEF Value, Bits

LEMMA BitIs == \A b \in Bits : b = 0 \/ b = 1
BY DEF Bits

LEMMA HeadersAre ==
    ASSUME NEW hs \in HeaderLists
    PROVE  /\ Len(hs) \in Nat /\ DOMAIN hs = 1..Len(hs)
           /\ \A i \in 1..Len(hs) : hs[i] \in Words /\ hs[i] \in ToSet(hs)
<1>1. hs \in Seq(Words)
  <2>1. CASE hs = <<>>
    BY <2>1
  <2>2. CASE \E h \in Words : hs = <<h>>
    BY <2>2
  <2> QED
    BY <2>1, <2>2 DEF HeaderLists
<1>2. Len(hs) \in Nat /\ DOMAIN hs = 1..Len(hs) /\ \A i \in 1..Len(hs) : hs[i] \in Words
  BY <1>1
<1> QED
  BY <1>2 DEF ToSet

(* Every variable may have every value.                                    *)
LEMMA SoundAssignments ==
    ASSUME NEW c \in CheckRecords, NEW V, NEW R, NEW w
    PROVE  Finds(c, Assignments, V, R, w) /\ Sound(c, Assignments, V) /\ Unlisted(c, Variable)
<1>1. c.var \in Variable /\ c.what \in Words /\ c.headers \in HeaderLists
  BY CheckFields
<1>2. \A h \in ToSet(c.headers) : h \in Words
  BY <1>1, HeadersAre DEF ToSet
<1>3. \A x \in Variable, b \in Bits : <<x, b>> \in Assignments
  BY DEF Assignments
<1>4. 0 \in Bits /\ 1 \in Bits
  BY DEF Bits
<1>5. Finds(c, Assignments, V, R, w)
  BY <1>1, <1>3, ValueIs DEF Finds
<1>6. \A x \in SizeVariables(c.what) : x \in Variable
  BY <1>1, NewVariables
<1>7. \A h \in ToSet(c.headers) : IncludeVariable(h) \in Variable
  BY <1>2, NewVariables
<1> QED
  BY <1>3, <1>4, <1>5, <1>6, <1>7 DEF Sound, Unlisted

LEMMA AddHeaderIn ==
    ASSUME NEW A \in SUBSET Assignments, NEW V, NEW L, NEW s \in CMakes(A, V, L), NEW h \in Words,
           <<IncludeVariable(h), 1>> \in A,
           IncludeVariable(h) \in V => <<IncludeVariable(h), 0>> \in A
    PROVE  /\ AddHeader(s, h) \in CMakes(A, V, L)
           /\ DOMAIN s.vars \subseteq DOMAIN AddHeader(s, h).vars
<1> DEFINE x == IncludeVariable(h)
           vs == SetNew(s.vars, {x})
<1>1. x \in Variable /\ <<x, 1>> \in A /\ (x \in V => <<x, 0>> \in A)
  BY NewVariables
<1>2. AddHeader(s, h) = [vars |-> vs, array |-> AddVariable(s.array, x, vs[x]), raw |-> s.raw]
  BY DEF AddHeader
<1> HIDE DEF x
<1>3. /\ s.vars \in CachedIn(A, V) /\ {x} \in SUBSET Variable /\ \A y \in {x} : <<y, 1>> \in A
      /\ s.raw \in SUBSET V /\ s.raw \subseteq DOMAIN s.vars
  BY <1>1, CMakeIs
<1>4. vs \in CachedIn(A, V)
  BY <1>3, NewCached
<1>5. DOMAIN vs = (DOMAIN s.vars) \cup {x}
  BY DEF SetNew
<1> HIDE DEF vs
<1>6. vs[x] \in Bits /\ (<<x, vs[x]>> \in A \/ x \in V)
  BY <1>4, <1>5, CachedIs
<1>7. <<x, vs[x]>> \in A
  BY <1>1, <1>6, BitIs
<1>8. [vars |-> vs, array |-> AddVariable(s.array, x, vs[x]), raw |-> s.raw] \in CMakes(A, V, L)
  BY <1>3, <1>4, <1>5, <1>7, BothIn
<1> QED
  BY <1>2, <1>5, <1>8

LEMMA MakeCheckDefines ==
    \A s, c, w : DOMAIN MakeCheck(s, c, w).vars = (DOMAIN s.vars) \cup {c.var}
BY DEF MakeCheck, Set

LEMMA MakeCheckIn ==
    ASSUME NEW A \in SUBSET Assignments, NEW V, NEW L, NEW R, NEW w, NEW s \in CMakes(A, V, L),
           NEW c \in CheckRecords, Finds(c, A, V, R, w), c.type = "Decl" => R \subseteq DOMAIN s.vars,
           c.invert => c.var \in V
    PROVE  MakeCheck(s, c, w) \in CMakes(A, V, L)
<1> DEFINE v == Value(c, s.vars, w)
<1>1. CASE c.var \in DOMAIN s.vars
  BY <1>1 DEF MakeCheck
<1>2. CASE c.var \notin DOMAIN s.vars
  <2> DEFINE x == c.var
             vs == Set(s.vars, x, v)
             r == IF c.invert THEN s.raw \cup {x} ELSE s.raw
  <2>1. MakeCheck(s, c, w) = [vars |-> vs, array |-> AddVariable(s.array, x, v), raw |-> r]
    BY <1>2 DEF MakeCheck
  <2>2. /\ s.vars \in CachedIn(A, V) /\ s.raw \in SUBSET V /\ s.raw \subseteq DOMAIN s.vars
        /\ x \in Variable
    BY CMakeIs, CheckFields
  <2>3. v \in Bits /\ <<x, v>> \in A
    BY <2>2, ValueIs DEF Finds
  <2>4. r \in SUBSET V
    BY <2>2
  <2>5. r \subseteq (DOMAIN s.vars) \cup {x}
    BY <2>2
  <2> HIDE DEF v, x, r
  <2>6. vs \in CachedIn(A, V)
    BY <2>2, <2>3, SetCached
  <2>7. DOMAIN vs = (DOMAIN s.vars) \cup {x}
    BY DEF Set
  <2> HIDE DEF vs
  <2>8. [vars |-> vs, array |-> AddVariable(s.array, x, v), raw |-> r] \in CMakes(A, V, L)
    BY <2>3, <2>4, <2>5, <2>6, <2>7, BothIn
  <2> QED
    BY <2>1, <2>8
<1> QED
  BY <1>1, <1>2

LEMMA WriteCheckIn ==
    ASSUME NEW A \in SUBSET Assignments, NEW V, NEW L, NEW R, NEW w, NEW s \in CMakes(A, V, L),
           NEW c \in CheckRecords, Finds(c, A, V, R, w), Sound(c, A, V), Unlisted(c, L),
           c.type = "Decl" => R \subseteq DOMAIN s.vars, c.invert => c.var \in V
    PROVE  /\ WriteCheck(s, c, w) \in CMakes(A, V, L)
           /\ (DOMAIN s.vars) \cup {c.var} \subseteq DOMAIN WriteCheck(s, c, w).vars
<1> DEFINE made == MakeCheck(s, c, w)
<1>1. made \in CMakes(A, V, L) /\ DOMAIN made.vars = (DOMAIN s.vars) \cup {c.var}
  <2>1. MakeCheck(s, c, w) \in CMakes(A, V, L)
    BY MakeCheckIn
  <2>2. DOMAIN MakeCheck(s, c, w).vars = (DOMAIN s.vars) \cup {c.var}
    BY MakeCheckDefines
  <2> QED
    BY <2>1, <2>2
<1>2. WriteCheck(s, c, w) =
        IF ~IsThere(made, c) THEN made
        ELSE IF c.type = "Symbol" THEN FoldLeft(AddHeader, made, c.headers)
        ELSE IF c.type = "Type" THEN [made EXCEPT !.vars = SetNew(@, SizeVariables(c.what))]
        ELSE made
  BY DEF WriteCheck
<1> HIDE DEF made
<1>3. IsThere(made, c) => <<c.var, 1>> \in A \/ c.var \in V
  <2>1. made.vars \in CachedIn(A, V)
    BY <1>1, CMakeIs
  <2> QED
    BY <2>1, CachedIs DEF IsThere, True
<1>4. CASE IsThere(made, c) /\ c.type = "Symbol"
  <2> DEFINE T == {t \in CMakes(A, V, L) : DOMAIN made.vars \subseteq DOMAIN t.vars}
  <2>1. c.headers \in HeaderLists
    BY CheckFields
  <2>2. ASSUME NEW i \in 1..Len(c.headers)
        PROVE  /\ c.headers[i] \in Words
               /\ <<IncludeVariable(c.headers[i]), 1>> \in A
               /\ IncludeVariable(c.headers[i]) \in V => <<IncludeVariable(c.headers[i]), 0>> \in A
    <3>1. c.headers[i] \in Words /\ c.headers[i] \in ToSet(c.headers)
      BY <2>1, HeadersAre
    <3> QED
      BY <1>3, <1>4, <3>1 DEF Sound
  <2>3. \A t \in T, i \in 1..Len(c.headers) : AddHeader(t, c.headers[i]) \in T
    <3> SUFFICES ASSUME NEW t \in T, NEW i \in 1..Len(c.headers)
                 PROVE  AddHeader(t, c.headers[i]) \in T
      OBVIOUS
    <3>1. /\ AddHeader(t, c.headers[i]) \in CMakes(A, V, L)
          /\ DOMAIN t.vars \subseteq DOMAIN AddHeader(t, c.headers[i]).vars
      BY <2>2, AddHeaderIn
    <3> QED
      BY <3>1
  <2>4. Len(c.headers) \in Nat /\ DOMAIN c.headers = 1..Len(c.headers) /\ made \in T
    BY <1>1, <2>1, HeadersAre
  <2>5. T \subseteq CMakes(A, V, L) /\ \A t \in T : DOMAIN made.vars \subseteq DOMAIN t.vars
    OBVIOUS
  <2> HIDE DEF T
  <2>6. FoldLeft(AddHeader, made, c.headers) \in T
    BY <2>3, <2>4, AddHeadersKeep
  <2> QED
    BY <1>1, <1>2, <1>4, <2>5, <2>6
<1>5. CASE IsThere(made, c) /\ c.type = "Type"
  <2> DEFINE N == SizeVariables(c.what)
             vs == SetNew(made.vars, N)
  <2>1. N \in SUBSET Variable
    BY CheckFields, NewVariables
  <2>2. 1 \in Bits
    BY DEF Bits
  <2>3. \A x \in N : <<x, 1>> \in A /\ x \in L
    BY <1>3, <1>5, <2>2 DEF Sound, Unlisted
  <2>4. made.vars \in CachedIn(A, V)
    BY <1>1, CMakeIs
  <2> HIDE DEF N
  <2>5. vs \in CachedIn(A, V)
    BY <2>1, <2>3, <2>4, NewCached
  <2>6. DOMAIN vs = (DOMAIN made.vars) \cup N
    BY DEF SetNew
  <2>7. WriteCheck(s, c, w) = [made EXCEPT !.vars = vs]
    BY <1>2, <1>5 DEF N
  <2> HIDE DEF vs
  <2>8. Listed(vs, made.array, L)
    <3>1. Listed(made.vars, made.array, L)
      BY <1>1, CMakeIs
    <3> QED
      BY <2>3, <2>6, <3>1 DEF Listed
  <2>9. [made EXCEPT !.vars = vs] = [vars |-> vs, array |-> made.array, raw |-> made.raw]
    BY <1>1 DEF CMakes
  <2>10. [vars |-> vs, array |-> made.array, raw |-> made.raw] \in CMakes(A, V, L)
    <3>1. /\ made.array \in Seq(A) /\ Once(made.array) /\ made.raw \in SUBSET V
          /\ made.raw \subseteq DOMAIN vs
      BY <1>1, <2>6, CMakeIs
    <3> QED
      BY <2>5, <2>8, <3>1, CMakeIs
  <2> QED
    BY <1>1, <2>6, <2>7, <2>9, <2>10
<1> QED
  BY <1>1, <1>2, <1>4, <1>5

(* The helper makes all checks of a project: their variables are defined.  *)
LEMMA WriteChecksIn ==
    ASSUME NEW A \in SUBSET Assignments, NEW V \in SUBSET Variable, NEW L \in SUBSET Variable, NEW w,
           NEW s \in CMakes(A, V, L), NEW S \in CheckSets,
           \A c \in S : /\ Finds(c, A, V, LookedFor(S), w) /\ Sound(c, A, V) /\ Unlisted(c, L)
                        /\ c.invert => c.var \in V
    PROVE  /\ WriteChecks(s, Sorted(S), w) \in CMakes(A, V, L)
           /\ \A c \in S : c.var \in DOMAIN WriteChecks(s, Sorted(S), w).vars
<1> DEFINE cs == Sorted(S)
           n == Cardinality(S)
           T == CMakes(Assignments, Variable, Variable)
           Known(t, k) == \A i \in 1..k : cs[i].var \in DOMAIN t.vars
           P == [k \in 0..n |-> {t \in CMakes(A, V, L) : Known(t, k)}]
<1>1. n \in Nat /\ DOMAIN cs = 1..n
  BY SortedIs
<1>2. \A i \in 1..n : cs[i] \in S /\ cs[i] \in CheckRecords
  BY SortedIs DEF CheckSets
<1>3. \A i \in 1..n : cs[i].type = "Decl" =>
        \A x \in LookedFor(S) : \E j \in 1..(i - 1) : cs[j].var = x
  BY DeclLater
<1>4. \A c \in S : \E j \in 1..n : cs[j] = c
  BY SortedOnto
<1> HIDE DEF cs, n
<1>5. ASSUME NEW t \in T, NEW i \in 1..n PROVE WriteCheck(t, cs[i], w) \in T
  <2> DEFINE c == cs[i]
  <2>1. c \in CheckRecords /\ c.var \in Variable
    BY <1>2, CheckFields
  <2>2. Finds(c, Assignments, Variable, {}, w) /\ Sound(c, Assignments, Variable) /\ Unlisted(c, Variable)
    BY <2>1, SoundAssignments
  <2>3. {} \subseteq DOMAIN t.vars /\ Assignments \in SUBSET Assignments
    OBVIOUS
  <2> HIDE DEF c
  <2>4. WriteCheck(t, c, w) \in T
    BY <2>1, <2>2, <2>3, WriteCheckIn
  <2> QED
    BY <2>4 DEF c
<1>6. ASSUME NEW k \in 1..n, NEW t \in CMakes(A, V, L), Known(t, k - 1)
      PROVE  WriteCheck(t, cs[k], w) \in CMakes(A, V, L) /\ Known(WriteCheck(t, cs[k], w), k)
  <2> DEFINE c == cs[k]
  <2>1. c \in S /\ c \in CheckRecords
    BY <1>2
  <2>2. c.type = "Decl" => LookedFor(S) \subseteq DOMAIN t.vars
    BY <1>3, <1>6
  <2>3. \A i \in 1..k : i = k \/ i \in 1..(k - 1)
    BY <1>1
  <2>4. cs[k].var = c.var
    OBVIOUS
  <2> HIDE DEF c
  <2>5. /\ WriteCheck(t, c, w) \in CMakes(A, V, L)
        /\ (DOMAIN t.vars) \cup {c.var} \subseteq DOMAIN WriteCheck(t, c, w).vars
    BY <2>1, <2>2, WriteCheckIn
  <2>6. Known(WriteCheck(t, c, w), k)
    BY <1>6, <2>3, <2>4, <2>5
  <2> QED
    BY <2>5, <2>6 DEF c
<1>7. CMakes(A, V, L) \subseteq T
  <2>1. CachedIn(A, V) \subseteq CachedIn(Assignments, Variable)
    BY DEF CachedIn
  <2>2. \A v, a : Listed(v, a, L) => Listed(v, a, Variable)
    BY DEF Listed
  <2>3. Seq(A) \subseteq Seq(Assignments) /\ SUBSET V \subseteq SUBSET Variable
    OBVIOUS
  <2> QED
    BY <2>1, <2>2, <2>3 DEF CMakes
<1>8. Known(s, 0)
  OBVIOUS
<1> HIDE DEF T, Made
<1>9. P \in [0..n -> SUBSET T] /\ s \in P[0]
  BY <1>1, <1>7, <1>8
<1>10. \A k \in 1..n : \A t \in P[k - 1] : WriteCheck(t, cs[k], w) \in P[k]
  <2> SUFFICES ASSUME NEW k \in 1..n, NEW t \in P[k - 1] PROVE WriteCheck(t, cs[k], w) \in P[k]
    OBVIOUS
  <2>1. k \in 0..n /\ k - 1 \in 0..n
    BY <1>1
  <2>2. t \in CMakes(A, V, L) /\ Known(t, k - 1)
    BY <2>1
  <2> QED
    BY <1>6, <2>1, <2>2
<1>11. n \in 0..n /\ \A t \in P[n] : t \in CMakes(A, V, L) /\ Known(t, n)
  BY <1>1
<1> HIDE DEF P
<1>12. WriteChecks(s, cs, w) \in P[n]
  <2>1. \A t \in T, i \in 1..n : WriteCheck(t, cs[i], w) \in T
    BY <1>5
  <2> QED
    BY <1>1, <1>9, <1>10, <2>1, WritingKeeps
<1>13. WriteChecks(s, cs, w) \in CMakes(A, V, L) /\ Known(WriteChecks(s, cs, w), n)
  BY <1>11, <1>12
<1> QED
  BY <1>4, <1>13 DEF Made, cs

-----------------------------------------------------------------------------
(* The parallel checker                                                    *)

(* The values of some of the checks of S.                                  *)
ValuesIn(S, A) ==
    {f \in UNION {[D -> Bits] : D \in SUBSET S} : \A c \in DOMAIN f : <<c.var, f[c]>> \in A}

LEMMA ValuesAre ==
    ASSUME NEW S, NEW A
    PROVE  /\ \A f \in ValuesIn(S, A) :
                /\ DOMAIN f \subseteq S
                /\ \A c \in DOMAIN f : f[c] \in Bits /\ <<c.var, f[c]>> \in A
           /\ \A D \in SUBSET S : \A f \in [D -> Bits] :
                (\A c \in D : <<c.var, f[c]>> \in A) => f \in ValuesIn(S, A)
BY DEF ValuesIn

LEMMA EmptyIn ==
    ASSUME NEW S, NEW A, NEW V
    PROVE  <<>> \in ValuesIn(S, A) /\ <<>> \in CachedIn(A, V) /\ DOMAIN <<>> = {}
<1>1. DOMAIN <<>> = {} /\ <<>> \in [{} -> Bits]
  OBVIOUS
<1>2. {} \in SUBSET S /\ {} \in SUBSET Variable
  OBVIOUS
<1> QED
  BY <1>1, <1>2, ValuesAre, CachedIs

LEMMA WriteFilesIn ==
    ASSUME NEW S, NEW A, NEW V, NEW f \in ValuesIn(S, A), NEW c \in S, NEW b \in Bits, <<c.var, b>> \in A,
           Sound(c, A, V)
    PROVE  WriteFiles(f, c, b) \in ValuesIn(S, A)
<1> DEFINE D == (DOMAIN f) \cup {c}
           g == WriteFiles(f, c, b)
<1>1. \A y \in DOMAIN f : y \in S /\ f[y] \in Bits /\ <<y.var, f[y]>> \in A
  BY ValuesAre
<1>2. D \in SUBSET S
  BY <1>1
<1>3. DOMAIN g = D /\ g = [o \in D |-> g[o]]
  BY DEF WriteFiles
<1>4. ASSUME NEW o \in D PROVE g[o] \in Bits /\ <<o.var, g[o]>> \in A
  <2>1. CASE FileOf(o) = FileOf(c)
    <3>1. g[o] = b
      BY <2>1 DEF WriteFiles
    <3>2. o.var = c.var
      BY <2>1 DEF FileOf
    <3> HIDE DEF g
    <3> QED
      BY <3>1, <3>2
  <2>2. CASE FileOf(o) # FileOf(c) /\ FileOf(o) \in HeaderFiles(c, b)
    <3>1. g[o] = 1
      BY <2>2 DEF WriteFiles
    <3>2. PICK h \in ToSet(c.headers) :
             c.type = "Symbol" /\ b = 1 /\ FileOf(o) = <<IncludeVariable(h), <<>> >>
      BY <2>2 DEF HeaderFiles
    <3>3. <<IncludeVariable(h), 1>> \in A
      BY <3>2 DEF Sound
    <3>4. o.var = IncludeVariable(h)
      BY <3>2 DEF FileOf
    <3> HIDE DEF g
    <3> QED
      BY <3>1, <3>3, <3>4 DEF Bits
  <2>3. CASE FileOf(o) # FileOf(c) /\ FileOf(o) \notin HeaderFiles(c, b)
    <3>1. g[o] = f[o] /\ o \in DOMAIN f
      BY <2>3 DEF WriteFiles
    <3> HIDE DEF g
    <3> QED
      BY <1>1, <3>1
  <2> QED
    BY <2>1, <2>2, <2>3
<1> HIDE DEF g, D
<1>5. g \in [D -> Bits]
  BY <1>3, <1>4
<1> QED
  BY <1>2, <1>3, <1>4, <1>5, ValuesAre DEF g

LEMMA JoinedIn ==
    ASSUME NEW S, NEW A, NEW f \in ValuesIn(S, A), NEW g \in ValuesIn(S, A)
    PROVE  Joined(f, g) \in ValuesIn(S, A)
<1>1. \A y \in DOMAIN f : y \in S /\ f[y] \in Bits /\ <<y.var, f[y]>> \in A
  BY ValuesAre
<1>2. \A y \in DOMAIN g : y \in S /\ g[y] \in Bits /\ <<y.var, g[y]>> \in A
  BY ValuesAre
<1>3. Joined(f, g) \in [(DOMAIN f) \cup (DOMAIN g) -> Bits]
  BY <1>1, <1>2 DEF Joined
<1>4. (DOMAIN f) \cup (DOMAIN g) \in SUBSET S
  BY <1>1, <1>2
<1>5. \A y \in (DOMAIN f) \cup (DOMAIN g) : <<y.var, Joined(f, g)[y]>> \in A
  BY <1>1, <1>2 DEF Joined
<1> QED
  BY <1>3, <1>4, <1>5, ValuesAre

LEMMA FewerCached == \A A, V : CachedIn(A, {}) \subseteq CachedIn(A, V)
BY DEF CachedIn

(* What a worker holds.                                                    *)
Workers(S, A) == [vars : CachedIn(A, {}), of : ValuesIn(S, A)]

LEMMA MakeAloneDefines ==
    \A t, c, w : DOMAIN MakeAlone(t, c, w).vars = (DOMAIN t.vars) \cup {c.var}
BY DEF MakeAlone, Set

LEMMA MakeAloneIn ==
    ASSUME NEW S, NEW A, NEW V, NEW R, NEW w, NEW c \in S, c.var \in Variable, c.type # "Decl",
           Finds(c, A, V, R, w), Sound(c, A, V), NEW t \in Workers(S, A),
           \/ c.var \notin DOMAIN t.vars \/ ~c.invert
           \/ \A b \in Bits : <<c.var, b>> \in A
    PROVE  MakeAlone(t, c, w) \in Workers(S, A)
<1> DEFINE v == IF c.var \notin DOMAIN t.vars THEN Value(c, t.vars, w)
                ELSE IF c.invert THEN 1 - t.vars[c.var] ELSE t.vars[c.var]
<1>1. t.vars \in CachedIn(A, {}) /\ t.of \in ValuesIn(S, A)
  BY DEF Workers
<1>3. MakeAlone(t, c, w) = [vars |-> Set(t.vars, c.var, v), of |-> WriteFiles(t.of, c, v)]
  BY DEF MakeAlone
<1>4. v \in Bits /\ <<c.var, v>> \in A
  <2>1. CASE c.var \notin DOMAIN t.vars
    <3>1. t.vars \in CachedIn(A, V)
      BY <1>1, FewerCached
    <3>2. v = Value(c, t.vars, w)
      BY <2>1
    <3> HIDE DEF v
    <3> QED
      BY <3>1, <3>2, ValueIs DEF Finds
  <2>2. CASE c.var \in DOMAIN t.vars
    <3>1. t.vars[c.var] \in Bits /\ <<c.var, t.vars[c.var]>> \in A
      BY <1>1, <2>2, CachedIs
    <3>2. 1 - t.vars[c.var] \in Bits
      BY <3>1 DEF Bits
    <3>3. CASE c.invert
      <4>1. v = 1 - t.vars[c.var]
        BY <2>2, <3>3
      <4>2. \A b \in Bits : <<c.var, b>> \in A
        BY <2>2, <3>3
      <4> HIDE DEF v
      <4> QED
        BY <3>2, <4>1, <4>2
    <3>4. CASE ~c.invert
      <4>1. v = t.vars[c.var]
        BY <2>2, <3>4
      <4> HIDE DEF v
      <4> QED
        BY <3>1, <4>1
    <3> QED
      BY <3>3, <3>4
  <2> QED
    BY <2>1, <2>2
<1> HIDE DEF v
<1>5. Set(t.vars, c.var, v) \in CachedIn(A, {})
  BY <1>1, <1>4, SetCached
<1>6. WriteFiles(t.of, c, v) \in ValuesIn(S, A)
  BY <1>1, <1>4, WriteFilesIn
<1> QED
  BY <1>3, <1>5, <1>6 DEF Workers

(* A worker inverts what it has cached for a variable only if another      *)
(* check of that variable came before.                                     *)
InvertsOwn(S, A) ==
    \A c, o \in S : c.invert /\ o.var = c.var => c = o \/ \A b \in Bits : <<c.var, b>> \in A

LEMMA WorkerIn ==
    ASSUME NEW A \in SUBSET Assignments, NEW V, NEW R, NEW w, NEW S \in CheckSets,
           \A c \in S : c.type # "Decl" /\ Finds(c, A, V, R, w) /\ Sound(c, A, V), InvertsOwn(S, A)
    PROVE  WorkerValues(S, w) \in ValuesIn(S, A)
<1> DEFINE cs == Sorted(S)
           n == Cardinality(S)
           T == Workers(S, Assignments)
           b == [vars |-> <<>>, of |-> <<>>]
           Seen(t, k) == \A x \in DOMAIN t.vars : \E i \in 1..k : cs[i].var = x
           P == [k \in 0..n |-> {t \in Workers(S, A) : Seen(t, k)}]
<1>1. n \in Nat /\ DOMAIN cs = 1..n
  BY SortedIs
<1>2. \A i \in 1..n : cs[i] \in S /\ cs[i] \in CheckRecords /\ cs[i].var \in Variable
  BY SortedIs, CheckFields DEF CheckSets
<1>3. \A i, j \in 1..n : cs[i] = cs[j] => i = j
  BY SortedIs
<1>4. WorkerValues(S, w) = Worker(cs, w).of
  BY DEF WorkerValues
<1> HIDE DEF cs, n
<1>5. ASSUME NEW t \in T, NEW i \in 1..n PROVE MakeAlone(t, cs[i], w) \in T
  <2> DEFINE c == cs[i]
  <2>1. c \in S /\ c \in CheckRecords /\ c.var \in Variable /\ c.type # "Decl"
    BY <1>2
  <2> HIDE DEF c
  <2>2. Finds(c, Assignments, V, R, w) /\ Sound(c, Assignments, V)
    BY <2>1, SoundAssignments
  <2>3. \A x \in Bits : <<c.var, x>> \in Assignments
    BY <2>1 DEF Assignments
  <2>4. MakeAlone(t, c, w) \in T
    BY <2>1, <2>2, <2>3, MakeAloneIn
  <2> QED
    BY <2>4 DEF c
<1>6. ASSUME NEW k \in 1..n, NEW t \in Workers(S, A), Seen(t, k - 1)
      PROVE  MakeAlone(t, cs[k], w) \in Workers(S, A) /\ Seen(MakeAlone(t, cs[k], w), k)
  <2> DEFINE c == cs[k]
  <2>1. c \in S /\ c.var \in Variable /\ c.type # "Decl" /\ Finds(c, A, V, R, w) /\ Sound(c, A, V)
    BY <1>2
  <2>2. c.var \in DOMAIN t.vars /\ c.invert => \A x \in Bits : <<c.var, x>> \in A
    <3> SUFFICES ASSUME c.var \in DOMAIN t.vars, c.invert, ~\A x \in Bits : <<c.var, x>> \in A
                 PROVE  FALSE
      OBVIOUS
    <3>1. PICK i \in 1..(k - 1) : cs[i].var = c.var
      BY <1>6
    <3>2. i \in 1..n /\ i # k
      BY <1>1, <3>1
    <3>3. cs[i] = c
      BY <1>2, <2>1, <3>1, <3>2 DEF InvertsOwn
    <3> QED
      BY <1>3, <3>2, <3>3
  <2> HIDE DEF c
  <2>4. MakeAlone(t, c, w) \in Workers(S, A)
    BY <2>1, <2>2, MakeAloneIn
  <2>5. Seen(MakeAlone(t, c, w), k)
    <3>1. \A x \in DOMAIN t.vars : \E i \in 1..k : cs[i].var = x
      <4>1. \A i \in 1..(k - 1) : i \in 1..k
        BY <1>1
      <4> QED
        BY <1>6, <4>1
    <3>2. k \in 1..k /\ cs[k].var = c.var
      BY <1>1 DEF c
    <3> QED
      BY <3>1, <3>2, MakeAloneDefines
  <2> QED
    BY <2>4, <2>5 DEF c
<1>7. Workers(S, A) \subseteq T
  <2>1. CachedIn(A, {}) \subseteq CachedIn(Assignments, {})
    BY DEF CachedIn
  <2>2. ValuesIn(S, A) \subseteq ValuesIn(S, Assignments)
    BY DEF ValuesIn
  <2> QED
    BY <2>1, <2>2 DEF Workers
<1>8. b \in Workers(S, A) /\ Seen(b, 0)
  BY EmptyIn DEF Workers
<1> HIDE DEF T, b, Seen
<1>9. P \in [0..n -> SUBSET T] /\ b \in P[0]
  BY <1>1, <1>7, <1>8
<1>10. \A k \in 1..n : \A t \in P[k - 1] : MakeAlone(t, cs[k], w) \in P[k]
  <2> SUFFICES ASSUME NEW k \in 1..n, NEW t \in P[k - 1] PROVE MakeAlone(t, cs[k], w) \in P[k]
    OBVIOUS
  <2>1. k \in 0..n /\ k - 1 \in 0..n
    BY <1>1
  <2>2. t \in Workers(S, A) /\ Seen(t, k - 1)
    BY <2>1
  <2> QED
    BY <1>6, <2>1, <2>2
<1>11. n \in 0..n /\ P[n] \subseteq Workers(S, A)
  BY <1>1
<1> HIDE DEF P
<1>12. Worker(cs, w) \in P[n]
  <2>1. \A t \in T, i \in 1..n : MakeAlone(t, cs[i], w) \in T
    BY <1>5
  <2> QED
    BY <1>1, <1>9, <1>10, <2>1, WorkerKeeps DEF b
<1> QED
  BY <1>4, <1>11, <1>12 DEF Workers

-----------------------------------------------------------------------------
(* What the parallel checker writes                                        *)

(* The checks that are dealt out.                                          *)
Dealt(S) == {c \in S : c.type # "Decl"}

LEMMA ScatterIs ==
    ASSUME NEW S \in CheckSets, NEW n \in Nat, NEW k \in 1..n
    PROVE  Scatter(S, n)[k] \in SUBSET Dealt(S)
<1> DEFINE dealt == Sorted(Dealt(S))
<1>1. Dealt(S) \in CheckSets
  BY SubsetIn DEF Dealt
<1>2. \A i \in DOMAIN dealt : dealt[i] \in Dealt(S)
  BY <1>1, SortedIs
<1>3. Scatter(S, n)[k] = {dealt[i] : i \in {j \in DOMAIN dealt : (j - 1) % n = k - 1}}
  BY DEF Scatter, Dealt
<1> HIDE DEF dealt
<1> QED
  BY <1>2, <1>3

LEMMA AddWorkersIn ==
    ASSUME NEW A \in SUBSET Assignments, NEW V, NEW R, NEW S \in CheckSets, NEW n \in Nat, NEW valid,
           \A c \in Dealt(S) : Finds(c, A, V, R, world) /\ Sound(c, A, V), InvertsOwn(Dealt(S), A)
    PROVE  AddWorkers(Scatter(S, n), valid, [k \in 1..n |-> k]) \in ValuesIn(Dealt(S), A)
<1> DEFINE parts == Scatter(S, n)
           ws == [k \in 1..n |-> k]
           T == ValuesIn(Dealt(S), A)
<1>1. \A k \in 1..n : parts[k] \in SUBSET Dealt(S)
  BY ScatterIs
<1>2. DOMAIN ws = 1..n /\ \A k \in 1..n : ws[k] = k
  OBVIOUS
<1>3. <<>> \in T
  BY EmptyIn
<1> HIDE DEF parts, ws
<1>4. ASSUME NEW f \in T, NEW k \in 1..n PROVE AddWorker(f, ws[k], parts, valid) \in T
  <2> DEFINE P == parts[k]
  <2>1. Dealt(S) \in CheckSets /\ P \in SUBSET Dealt(S)
    BY <1>1, SubsetIn DEF Dealt
  <2>2. AddWorker(f, ws[k], parts, valid) = IF k \in valid THEN Joined(f, WorkerValues(P, world)) ELSE f
    BY <1>2 DEF AddWorker
  <2> HIDE DEF P
  <2>3. P \in CheckSets
    BY <2>1, SubsetIn
  <2>4. (\A c \in P : c.type # "Decl" /\ Finds(c, A, V, R, world) /\ Sound(c, A, V)) /\ InvertsOwn(P, A)
    BY <2>1 DEF InvertsOwn, Dealt
  <2>5. WorkerValues(P, world) \in ValuesIn(P, A)
    BY <2>3, <2>4, WorkerIn
  <2>6. ValuesIn(P, A) \subseteq T
    BY <2>1 DEF ValuesIn
  <2>7. Joined(f, WorkerValues(P, world)) \in T
    BY <2>5, <2>6, JoinedIn
  <2> QED
    BY <2>2, <2>7
<1> HIDE DEF T
<1>5. AddWorkers(parts, valid, ws) \in T
  BY <1>2, <1>3, <1>4, AddWorkersKeep
<1> QED
  BY <1>5 DEF parts, ws, T

(* The headers of symbols that are there.                                  *)
LEMMA FoundHeadersIn ==
    ASSUME NEW A \in SUBSET Assignments, NEW V, NEW S \in CheckSets, NEW values \in ValuesIn(S, A),
           DOMAIN values = S, \A c \in S : Sound(c, A, V)
    PROVE  FoundHeaders(Sorted(S), values) \in Seq(A)
<1>1. /\ Cardinality(S) \in Nat /\ DOMAIN Sorted(S) = 1..Cardinality(S)
      /\ \A i \in 1..Cardinality(S) : Sorted(S)[i] \in S
  BY SortedIs
<1>2. <<>> \in Seq(A)
  OBVIOUS
<1>3. ASSUME NEW ls \in Seq(A), NEW c \in S PROVE PrintHeader(ls, c, values) \in Seq(A)
  <2>1. CASE c.type = "Symbol" /\ values[c] = 1 /\ c.headers # <<>>
    <3> DEFINE l == <<IncludeVariable(c.headers[1]), 1>>
    <3>1. c.headers \in HeaderLists
      BY CheckFields DEF CheckSets
    <3>2. c.headers[1] \in ToSet(c.headers)
      <4>1. Len(c.headers) # 0
        BY <2>1, <3>1 DEF HeaderLists
      <4> QED
        BY <3>1, <4>1, HeadersAre
    <3>3. <<c.var, 1>> \in A
      BY <2>1, ValuesAre
    <3>4. l \in A
      BY <2>1, <3>2, <3>3 DEF Sound
    <3>5. PrintHeader(ls, c, values) = Append(ls, l)
      BY <2>1 DEF PrintHeader
    <3> HIDE DEF l
    <3> QED
      BY <3>4, <3>5
  <2>2. CASE ~(c.type = "Symbol" /\ values[c] = 1 /\ c.headers # <<>>)
    BY <2>2 DEF PrintHeader
  <2> QED
    BY <2>1, <2>2
<1> QED
  BY <1>1, <1>2, <1>3, PrintHeadersKeep

LEMMA VariablesOfIn ==
    ASSUME NEW c \in CheckRecords
    PROVE  VariablesOf(c) \in SUBSET Variable /\ IsFiniteSet(VariablesOf(c)) /\ c.var \in VariablesOf(c)
<1>1. c.var \in Variable /\ c.what \in Words
  BY CheckFields
<1>2. IsFiniteSet(SizeVariables(c.what))
  <2>1. IsFiniteSet({<<"SIZEOF_", Stem[c.what]>>}) /\ IsFiniteSet({<<"SIZE_OF_", Stem[c.what]>>})
    BY FS_Singleton
  <2>2. SizeVariables(c.what)
          = {<<"SIZEOF_", Stem[c.what]>>} \cup {<<"SIZE_OF_", Stem[c.what]>>}
    BY DEF SizeVariables
  <2> QED
    BY <2>1, <2>2, FS_Union
<1>3. IsFiniteSet({c.var}) /\ IsFiniteSet({})
  BY FS_Singleton, FS_EmptySet
<1>4. IsFiniteSet(VariablesOf(c))
  BY <1>2, <1>3, FS_Union DEF VariablesOf
<1>5. VariablesOf(c) \in SUBSET Variable /\ c.var \in VariablesOf(c)
  BY <1>1, NewVariables DEF VariablesOf
<1> QED
  BY <1>4, <1>5

(* Which check a variable has its value from.                              *)
ChosenIn(S) ==
    {f \in UNION {[D -> S] : D \in SUBSET Variable} :
        IsFiniteSet(DOMAIN f) /\ \A x \in DOMAIN f : x \in VariablesOf(f[x])}

LEMMA ChosenAre ==
    ASSUME NEW S
    PROVE  /\ \A f \in ChosenIn(S) :
                /\ DOMAIN f \in SUBSET Variable /\ IsFiniteSet(DOMAIN f)
                /\ \A x \in DOMAIN f : f[x] \in S /\ x \in VariablesOf(f[x])
           /\ \A D \in SUBSET Variable : \A f \in [D -> S] :
                IsFiniteSet(D) /\ (\A x \in D : x \in VariablesOf(f[x])) => f \in ChosenIn(S)
BY DEF ChosenIn

LEMMA ChosenChecksIn ==
    ASSUME NEW S \in CheckSets, NEW values
    PROVE  ChosenChecks(Sorted(S), values) \in ChosenIn(S)
<1>1. /\ Cardinality(S) \in Nat /\ DOMAIN Sorted(S) = 1..Cardinality(S)
      /\ \A i \in 1..Cardinality(S) : Sorted(S)[i] \in S
  BY SortedIs
<1>2. <<>> \in ChosenIn(S)
  <2>1. DOMAIN <<>> = {} /\ <<>> \in [{} -> S] /\ {} \in SUBSET Variable
    OBVIOUS
  <2> QED
    BY <2>1, FS_EmptySet, ChosenAre
<1>3. ASSUME NEW f \in ChosenIn(S), NEW c \in S PROVE ChooseValue(f, c, values) \in ChosenIn(S)
  <2> DEFINE X == VariablesOf(c)
             g == [x \in (DOMAIN f) \cup X |-> IF x \in X THEN c ELSE f[x]]
  <2>1. X \in SUBSET Variable /\ IsFiniteSet(X)
    BY VariablesOfIn DEF CheckSets
  <2>2. /\ DOMAIN f \in SUBSET Variable /\ IsFiniteSet(DOMAIN f)
        /\ \A x \in DOMAIN f : f[x] \in S /\ x \in VariablesOf(f[x])
    BY ChosenAre
  <2>3. ChooseValue(f, c, values) \in {f, g}
    BY DEF ChooseValue
  <2>4. (DOMAIN f) \cup X \in SUBSET Variable /\ IsFiniteSet((DOMAIN f) \cup X)
    BY <2>1, <2>2, FS_Union
  <2>5. g \in [(DOMAIN f) \cup X -> S]
    BY <2>2
  <2>6. \A x \in (DOMAIN f) \cup X : x \in VariablesOf(g[x])
    BY <2>2
  <2> HIDE DEF g, X
  <2>7. g \in ChosenIn(S)
    BY <2>4, <2>5, <2>6, ChosenAre
  <2> QED
    BY <2>3, <2>7
<1> QED
  BY <1>1, <1>2, <1>3, ChooseValuesKeep

LEMMA SortedLinesIs ==
    ASSUME NEW S \in SUBSET Assignments, IsFiniteSet(S), \A l, m \in S : l[1] = m[1] => l = m
    PROVE  SortedLines(S) \in Seq(S)
<1> DEFINE R == {x \in S \X S : LineLess(x[1], x[2])}
           n == Cardinality(S)
<1>1. \A l, m \in S : <<l, m>> \in R <=> LineLess(l, m)
  OBVIOUS
<1>2. \A l \in S : l[1] \in Variable /\ VariableOrder(l[1]) \in Nat
  BY AssignmentIs, VariableOrderIs
<1>3. \A l, m \in S : VariableOrder(l[1]) = VariableOrder(m[1]) => l = m
  BY <1>2, VariableOrderIs
<1> HIDE DEF R
<1>4. \A l \in S : <<l, l>> \notin R
  BY <1>1, <1>2 DEF LineLess
<1>5. \A l, m, x \in S : <<l, m>> \in R /\ <<m, x>> \in R => <<l, x>> \in R
  BY <1>1, <1>2 DEF LineLess
<1>6. \A l, m \in S : l = m \/ <<l, m>> \in R \/ <<m, l>> \in R
  <2> SUFFICES ASSUME NEW l \in S, NEW m \in S PROVE l = m \/ LineLess(l, m) \/ LineLess(m, l)
    BY <1>1
  <2>1. VariableOrder(l[1]) \in Nat /\ VariableOrder(m[1]) \in Nat
    BY <1>2
  <2>2. VariableOrder(l[1]) = VariableOrder(m[1]) => l = m
    BY <1>3
  <2> QED
    BY <2>1, <2>2 DEF LineLess
<1>7. /\ n \in Nat
      /\ \A i \in 1..n : \E x \in S : Cardinality({y \in S : <<y, x>> \in R}) = i - 1
  <2>1. StrictlyOrders(R, S)
    BY <1>4, <1>5, <1>6 DEF StrictlyOrders
  <2>2. Ranks(R, S)
    BY <2>1, RankExists
  <2> QED
    BY <2>2 DEF Ranks
<1>8. \A x \in S : {y \in S : <<y, x>> \in R} = {y \in S : LineLess(y, x)}
  BY <1>1
<1> HIDE DEF n
<1>9. SortedLines(S) =
        [i \in 1..n |-> CHOOSE x \in S : Cardinality({y \in S : LineLess(y, x)}) = i - 1]
  BY DEF SortedLines, InOrder, n
<1>10. ASSUME NEW i \in 1..n
       PROVE  (CHOOSE x \in S : Cardinality({y \in S : LineLess(y, x)}) = i - 1) \in S
  <2>1. \E x \in S : Cardinality({y \in S : LineLess(y, x)}) = i - 1
    BY <1>7, <1>8
  <2> QED
    BY <2>1
<1>11. SortedLines(S) \in [1..n -> S]
  BY <1>9, <1>10
<1> QED
  BY <1>7, <1>11

(* The file of the parallel checker gives variables only values they may   *)
(* have.                                                                   *)
LEMMA PrintValuesIn ==
    ASSUME NEW A \in SUBSET Assignments, NEW V, NEW D \in CheckSets, NEW values \in ValuesIn(D, A),
           \A c \in D : Sound(c, A, V)
    PROVE  PrintValues(values) \in Seq(A)
<1> DEFINE S == DOMAIN values
           chosen == ChosenChecks(Sorted(S), values)
           X == DOMAIN chosen
           g == [x \in X |-> <<x, values[chosen[x]]>>]
           Q == {<<x, values[chosen[x]]>> : x \in X}
<1>1. /\ S \in SUBSET D
      /\ \A c \in S : values[c] \in Bits /\ <<c.var, values[c]>> \in A
  BY ValuesAre
<1>2. S \in CheckSets /\ \A c \in S : Sound(c, A, V) /\ c \in CheckRecords
  BY <1>1, SubsetIn DEF CheckSets
<1>3. values \in ValuesIn(S, A)
  <2>1. S \in SUBSET S /\ values \in [S -> Bits]
    BY DEF ValuesIn
  <2> QED
    BY <1>1, <2>1, ValuesAre
<1>4. PrintValues(values) = FoundHeaders(Sorted(S), values) \o SortedLines(Q)
  BY DEF PrintValues
<1>5. chosen \in ChosenIn(S)
  BY <1>2, ChosenChecksIn
<1> HIDE DEF S, chosen
<1>6. FoundHeaders(Sorted(S), values) \in Seq(A)
  BY <1>2, <1>3, FoundHeadersIn DEF S
<1>7. /\ X \in SUBSET Variable /\ IsFiniteSet(X)
      /\ \A x \in X : chosen[x] \in S /\ x \in VariablesOf(chosen[x])
  BY <1>5, ChosenAre
<1>8. ASSUME NEW x \in X PROVE <<x, values[chosen[x]]>> \in A
  <2> DEFINE c == chosen[x]
  <2>1. c \in S /\ x \in VariablesOf(c)
    BY <1>7
  <2> HIDE DEF c
  <2>2. values[c] \in Bits /\ <<c.var, values[c]>> \in A /\ Sound(c, A, V)
    BY <1>1, <1>2, <2>1
  <2>3. x = c.var \/ (c.type = "Type" /\ x \in SizeVariables(c.what))
    BY <2>1 DEF VariablesOf
  <2>4. <<x, values[c]>> \in A
    BY <2>2, <2>3 DEF Sound
  <2> QED
    BY <2>4 DEF c
<1> HIDE DEF X
<1>9. Q \in SUBSET A
  BY <1>8
<1>11. \A l, m \in Q : l[1] = m[1] => l = m
  OBVIOUS
<1>12. IsFiniteSet(Q)
  <2>1. g \in Surjection(X, Q)
    BY DEF Surjection
  <2> HIDE DEF g, Q
  <2> QED
    BY <1>7, <2>1, FS_Surjection
<1> HIDE DEF Q
<1>13. SortedLines(Q) \in Seq(Q)
  BY <1>9, <1>11, <1>12, SortedLinesIs
<1>14. SortedLines(Q) \in Seq(A)
  BY <1>9, <1>13
<1> QED
  BY <1>4, <1>6, <1>14, ConcatProperties

-----------------------------------------------------------------------------
(* Configuring a project                                                   *)

(* The values every check of the projects may give.                        *)
Allowed(A, V, L) ==
    /\ A \in SUBSET Assignments /\ V \in SUBSET Variable /\ L \in SUBSET Variable
    /\ \A p \in Procs :
        /\ \A c \in Root(p) :
            /\ Finds(c, A, V, LookedFor(Root(p)), world) /\ Sound(c, A, V) /\ Unlisted(c, L)
            /\ c.invert => c.var \in V
        /\ \A c \in Dealt(ChecksFile(p)) : Finds(c, A, V, {}, world) /\ Sound(c, A, V)
        /\ InvertsOwn(Dealt(ChecksFile(p)), A)

LEMMA ProjectIs ==
    ASSUME <<setup, world>> \in Cases, NEW p \in Procs
    PROVE  /\ Root(p) \in CheckSets /\ ChecksFile(p) \in CheckSets
           /\ SortedRoots[setup][p] = Sorted(Root(p))
<1>1. setup \in DOMAIN Setups
  BY ChecksAssumption
<1> QED
  BY <1>1, RootsIn DEF Root, ChecksFile

(* With the project that writes the file: what it has written so far.      *)
Written(array) == Len(lines) <= Len(array) /\ \A i \in 1..Len(lines) : lines[i] = array[i]

IInv(A, V, L) ==
    /\ <<setup, world>> \in Cases /\ jobs \in Jobs
    /\ exists \in BOOLEAN
    /\ lines \in Seq(A) /\ Once(lines)
    /\ step \in [Procs -> Steps]
    /\ holder \subseteq {p \in Procs : step[p] = "append"}
    /\ \A p \in Procs : step[p] = "append" =>
            /\ holder = {p} /\ Written(run[p].array)
            /\ \A c \in Root(p) : c.var \in DOMAIN run[p].vars
    /\ run \in [Procs -> CMakes(A, V, L)] /\ cache \in [Procs -> CMakes(A, V, L)]
    /\ count \in 0..MaxRuns /\ kills \in 0..MaxKills

LEMMA EmptyCMake == \A A, V, L : Empty \in CMakes(A, V, L) /\ <<>> \in Seq(A) /\ Once(<<>>)
<1> SUFFICES ASSUME NEW A, NEW V, NEW L
             PROVE  Empty \in CMakes(A, V, L) /\ <<>> \in Seq(A) /\ Once(<<>>)
  OBVIOUS
<1>1. <<>> \in Seq(A) /\ Once(<<>>)
  BY DEF Once
<1>2. <<>> \in CachedIn(A, V) /\ {} \in SUBSET V /\ {} \subseteq DOMAIN <<>> /\ DOMAIN <<>> = {}
  BY EmptyIn
<1>3. Listed(<<>>, <<>>, L)
  BY <1>2 DEF Listed
<1> QED
  BY <1>1, <1>2, <1>3, CMakeIs DEF Empty

LEMMA InitIInv ==
    ASSUME NEW A, NEW V, NEW L, Init PROVE IInv(A, V, L)
<1>1. Empty \in CMakes(A, V, L) /\ <<>> \in Seq(A) /\ Once(<<>>)
  BY EmptyCMake
<1>2. <<setup, world>> \in Cases
  <2>1. PICK case \in Cases : setup = case[1] /\ world = case[2]
    BY DEF Init
  <2>2. case = <<case[1], case[2]>>
    BY ChecksAssumption
  <2> QED
    BY <2>1, <2>2
<1>3. run \in [Procs -> CMakes(A, V, L)] /\ cache \in [Procs -> CMakes(A, V, L)]
  BY <1>1 DEF Init
<1>4. step \in [Procs -> Steps] /\ \A p \in Procs : step[p] # "append"
  BY DEF Init, Steps
<1>5. 0 \in 0..MaxRuns /\ 0 \in 0..MaxKills
  BY ChecksAssumption
<1> QED
  BY <1>1, <1>2, <1>3, <1>4, <1>5 DEF Init, IInv

LEMMA ParallelIn ==
    ASSUME NEW A, NEW V, NEW L, Allowed(A, V, L), <<setup, world>> \in Cases, jobs \in Jobs,
           NEW p \in Procs, NEW valid
    PROVE  ParallelChecks(p, valid) \in Seq(A)
<1> DEFINE S == Unknown(p)
<1>1. S \in CheckSets /\ S \in SUBSET ChecksFile(p)
  BY ProjectIs, SubsetIn DEF Unknown, RemoveKnown
<1>2. jobs \in Nat
  BY ChecksAssumption
<1>3. ParallelChecks(p, valid)
        = PrintValues(AddWorkers(Scatter(S, jobs), valid, [k \in 1..jobs |-> k]))
  BY DEF ParallelChecks
<1> HIDE DEF S
<1>4. Dealt(S) \in CheckSets /\ Dealt(S) \subseteq Dealt(ChecksFile(p))
  BY <1>1, SubsetIn DEF Dealt
<1>5. \A c \in Dealt(S) : Finds(c, A, V, {}, world) /\ Sound(c, A, V)
  BY <1>4 DEF Allowed
<1>6. InvertsOwn(Dealt(S), A) /\ A \in SUBSET Assignments
  BY <1>4 DEF Allowed, InvertsOwn
<1>7. AddWorkers(Scatter(S, jobs), valid, [k \in 1..jobs |-> k]) \in ValuesIn(Dealt(S), A)
  BY <1>1, <1>2, <1>5, <1>6, AddWorkersIn
<1> QED
  BY <1>3, <1>4, <1>5, <1>6, <1>7, PrintValuesIn

(* What CMakeCache.txt keeps.                                              *)
LEMMA SavedIn ==
    ASSUME NEW A, NEW V, NEW L, NEW s \in CMakes(A, V, L) PROVE Saved(s) \in CMakes(A, V, L)
<1> DEFINE D == DOMAIN s.vars
           v == [var \in D |-> IF var \in s.raw THEN 1 - s.vars[var] ELSE s.vars[var]]
<1>1. /\ s.vars \in CachedIn(A, V) /\ s.raw \subseteq V /\ s.array \in Seq(A) /\ Once(s.array)
      /\ Listed(s.vars, s.array, L)
  BY CMakeIs
<1>2. /\ D \in SUBSET Variable
      /\ \A x \in D : s.vars[x] \in Bits /\ (<<x, s.vars[x]>> \in A \/ x \in V)
  BY <1>1, CachedIs
<1>3. v \in [D -> Bits]
  <2>1. \A b \in Bits : 1 - b \in Bits
    BY DEF Bits
  <2>2. \A x \in D : s.vars[x] \in Bits /\ 1 - s.vars[x] \in Bits
    BY <1>2, <2>1
  <2> QED
    BY <2>2
<1>4. \A x \in D : <<x, v[x]>> \in A \/ x \in V
  BY <1>1, <1>2
<1>5. v \in CachedIn(A, V)
  BY <1>2, <1>3, <1>4, CachedIs
<1>6. Saved(s) = [vars |-> v, array |-> s.array, raw |-> {}]
  BY DEF Saved
<1>7. Listed(v, s.array, L)
  BY <1>1 DEF Listed
<1> HIDE DEF v
<1>8. {} \in SUBSET V /\ {} \subseteq DOMAIN v
  OBVIOUS
<1> QED
  BY <1>1, <1>5, <1>6, <1>7, <1>8, CMakeIs

LEMMA ConfigureIInv ==
    ASSUME NEW A, NEW V, NEW L, IInv(A, V, L), NEW p \in Procs, Configure(p) PROVE IInv(A, V, L)'
<1>1. /\ step[p] = "idle" /\ step' = [step EXCEPT ![p] = "read"]
      /\ run' = [run EXCEPT ![p] = cache[p]] /\ count' = count + 1 /\ count < MaxRuns
      /\ setup' = setup /\ world' = world /\ jobs' = jobs /\ exists' = exists
      /\ lines' = lines /\ holder' = holder /\ cache' = cache /\ kills' = kills
  BY DEF Configure, shared
<1>2. run' \in [Procs -> CMakes(A, V, L)] /\ \A q \in Procs : q # p => run'[q] = run[q]
  BY <1>1 DEF IInv
<1>3. step' \in [Procs -> Steps] /\ \A q \in Procs : step'[q] = IF q = p THEN "read" ELSE step[q]
  BY <1>1 DEF IInv, Steps
<1>4. \A q \in Procs : step'[q] = "append" => q # p /\ step[q] = "append"
  BY <1>3
<1>5. holder \subseteq {q \in Procs : step'[q] = "append"}
  BY <1>1, <1>3 DEF IInv
<1>6. count' \in 0..MaxRuns
  BY <1>1, ChecksAssumption DEF IInv
<1> QED
  BY <1>1, <1>2, <1>3, <1>4, <1>5, <1>6 DEF IInv, Written, Root

LEMMA ReadFileIInv ==
    ASSUME NEW A, NEW V, NEW L, Allowed(A, V, L), IInv(A, V, L), NEW p \in Procs, ReadFile(p) PROVE IInv(A, V, L)'
<1>1. /\ step[p] = "read" /\ step' = [step EXCEPT ![p] = "parallel"]
      /\ run' = [run EXCEPT ![p] = IF exists THEN ReadLines(run[p], lines) ELSE run[p]]
      /\ setup' = setup /\ world' = world /\ jobs' = jobs /\ exists' = exists
      /\ lines' = lines /\ holder' = holder /\ cache' = cache /\ kills' = kills /\ count' = count
  BY DEF ReadFile, shared, bounds
<1>2. ReadLines(run[p], lines) \in CMakes(A, V, L)
  <2>1. A \in SUBSET Assignments /\ lines \in Seq(A) /\ run[p] \in CMakes(A, V, L)
    BY DEF Allowed, IInv
  <2> QED
    BY <2>1, ReadLinesIn
<1>3. run' \in [Procs -> CMakes(A, V, L)] /\ \A q \in Procs : q # p => run'[q] = run[q]
  BY <1>1, <1>2 DEF IInv
<1>4. step' \in [Procs -> Steps] /\ \A q \in Procs : step'[q] = IF q = p THEN "parallel" ELSE step[q]
  BY <1>1 DEF IInv, Steps
<1>5. \A q \in Procs : step'[q] = "append" => q # p /\ step[q] = "append"
  BY <1>4
<1>6. holder \subseteq {q \in Procs : step'[q] = "append"}
  BY <1>1, <1>4 DEF IInv
<1> QED
  BY <1>1, <1>3, <1>4, <1>5, <1>6 DEF IInv, Written, Root

LEMMA CheckerIInv ==
    ASSUME NEW A, NEW V, NEW L, Allowed(A, V, L), IInv(A, V, L), NEW p \in Procs, Checker(p) PROVE IInv(A, V, L)'
<1>1. /\ step[p] = "parallel" /\ step' = [step EXCEPT ![p] = "write"]
      /\ setup' = setup /\ world' = world /\ jobs' = jobs /\ exists' = exists
      /\ lines' = lines /\ holder' = holder /\ cache' = cache /\ kills' = kills /\ count' = count
  BY DEF Checker, shared, bounds
<1>2. run' \in [Procs -> CMakes(A, V, L)] /\ \A q \in Procs : q # p => run'[q] = run[q]
  <2>1. CASE run' = run
    BY <2>1 DEF IInv
  <2>2. CASE \E valid \in SUBSET (1..jobs) :
                run' = [run EXCEPT ![p] = ReadLines(run[p], ParallelChecks(p, valid))]
    <3>1. PICK valid \in SUBSET (1..jobs) :
                run' = [run EXCEPT ![p] = ReadLines(run[p], ParallelChecks(p, valid))]
      BY <2>2
    <3>2. ParallelChecks(p, valid) \in Seq(A)
      BY ParallelIn DEF IInv
    <3>3. ReadLines(run[p], ParallelChecks(p, valid)) \in CMakes(A, V, L)
      <4>1. A \in SUBSET Assignments /\ run[p] \in CMakes(A, V, L)
        BY DEF Allowed, IInv
      <4> QED
        BY <3>2, <4>1, ReadLinesIn
    <3> QED
      BY <3>1, <3>3 DEF IInv
  <2> QED
    BY <2>1, <2>2 DEF Checker
<1>3. step' \in [Procs -> Steps] /\ \A q \in Procs : step'[q] = IF q = p THEN "write" ELSE step[q]
  BY <1>1 DEF IInv, Steps
<1>4. \A q \in Procs : step'[q] = "append" => q # p /\ step[q] = "append"
  BY <1>3
<1>5. holder \subseteq {q \in Procs : step'[q] = "append"}
  BY <1>1, <1>3 DEF IInv
<1> QED
  BY <1>1, <1>2, <1>3, <1>4, <1>5 DEF IInv, Written, Root

LEMMA OpenFileIInv ==
    ASSUME NEW A, NEW V, NEW L, Allowed(A, V, L), IInv(A, V, L), NEW p \in Procs, OpenFile(p) PROVE IInv(A, V, L)'
<1>1. /\ step[p] = "write" /\ holder = {} /\ step' = [step EXCEPT ![p] = "append"]
      /\ run' = [run EXCEPT ![p] = WriteChecks(run[p], SortedRoots[setup][p], world)]
      /\ setup' = setup /\ world' = world /\ jobs' = jobs /\ exists' = TRUE
      /\ lines' = <<>> /\ holder' = {p} /\ cache' = cache /\ kills' = kills /\ count' = count
  BY DEF OpenFile, LockFree, bounds
<1> DEFINE S == Root(p)
           s == run[p]
           t == WriteChecks(s, SortedRoots[setup][p], world)
<1>2. t \in CMakes(A, V, L) /\ \A c \in S : c.var \in DOMAIN t.vars
  <2>1. S \in CheckSets /\ SortedRoots[setup][p] = Sorted(S)
    BY ProjectIs DEF IInv
  <2>2. t = WriteChecks(s, Sorted(S), world)
    BY <2>1
  <2>3. \A c \in S : /\ Finds(c, A, V, LookedFor(S), world) /\ Sound(c, A, V) /\ Unlisted(c, L)
                     /\ c.invert => c.var \in V
    BY DEF Allowed
  <2>4. s \in CMakes(A, V, L)
    BY DEF IInv
  <2>5. A \in SUBSET Assignments /\ V \in SUBSET Variable /\ L \in SUBSET Variable
    BY DEF Allowed
  <2> HIDE DEF S, s, t
  <2>6. WriteChecks(s, Sorted(S), world) \in CMakes(A, V, L)
    BY <2>1, <2>3, <2>4, <2>5, WriteChecksIn
  <2>7. \A c \in S : c.var \in DOMAIN WriteChecks(s, Sorted(S), world).vars
    BY <2>1, <2>3, <2>4, <2>5, WriteChecksIn
  <2> QED
    BY <2>2, <2>6, <2>7
<1> HIDE DEF t
<1>3. run' \in [Procs -> CMakes(A, V, L)] /\ run'[p] = t
  BY <1>1, <1>2 DEF IInv, t
<1>4. step' \in [Procs -> Steps] /\ \A q \in Procs : step'[q] = IF q = p THEN "append" ELSE step[q]
  BY <1>1 DEF IInv, Steps
<1>5. \A q \in Procs : step[q] # "append"
  BY <1>1 DEF IInv
<1>6. holder' \subseteq {q \in Procs : step'[q] = "append"}
  BY <1>1, <1>4
<1>7. lines' \in Seq(A) /\ Once(lines')
  BY <1>1, EmptyCMake
<1>8. \A q \in Procs : step'[q] = "append" => q = p
  BY <1>4, <1>5
<1>9. Len(lines') <= Len(run'[p].array) /\ \A i \in 1..Len(lines') : lines'[i] = run'[p].array[i]
  <2>1. run'[p].array \in Seq(A)
    BY <1>3, CMakeIs
  <2>2. Len(run'[p].array) \in Nat
    BY <2>1
  <2> QED
    BY <1>1, <2>2
<1>10. \A c \in Root(p)' : c.var \in DOMAIN run'[p].vars
  BY <1>1, <1>2, <1>3 DEF Root
<1> QED
  BY <1>1, <1>3, <1>4, <1>6, <1>7, <1>8, <1>9, <1>10 DEF IInv, Written

LEMMA AppendLineIInv ==
    ASSUME NEW A, NEW V, NEW L, IInv(A, V, L), NEW p \in Procs, AppendLine(p) PROVE IInv(A, V, L)'
<1> DEFINE array == run[p].array
           k == Len(lines)
<1>1. /\ step[p] = "append" /\ k < Len(array) /\ lines' = Append(lines, array[k + 1])
      /\ setup' = setup /\ world' = world /\ jobs' = jobs /\ exists' = exists
      /\ holder' = holder /\ step' = step /\ run' = run /\ cache' = cache
      /\ kills' = kills /\ count' = count
  BY DEF AppendLine, bounds
<1>2. holder = {p} /\ \A i \in 1..k : lines[i] = array[i]
  BY <1>1 DEF IInv, Written, Root
<1>3. array \in Seq(A) /\ Once(array)
  BY CMakeIs DEF IInv
<1>4. lines \in Seq(A)
  BY DEF IInv
<1>5. \A q \in Procs : step[q] = "append" => q = p
  BY <1>2 DEF IInv
<1> HIDE DEF array
<1>6. Len(array) \in Nat /\ DOMAIN array = 1..Len(array) /\ k \in Nat
  BY <1>3, <1>4
<1>7. k + 1 \in 1..Len(array)
  BY <1>1, <1>6
<1>8. array[k + 1] \in A
  BY <1>3, <1>7
<1>10. /\ lines' \in Seq(A) /\ Len(lines') = k + 1 /\ DOMAIN lines' = 1..(k + 1)
       /\ \A i \in 1..k : lines'[i] = lines[i]
       /\ lines'[k + 1] = array[k + 1]
  BY <1>1, <1>4, <1>8
<1>11. \A i \in 1..(k + 1) : i \in 1..Len(array) /\ (i = k + 1 \/ i \in 1..k)
  BY <1>6, <1>7
<1>12. \A i \in 1..(k + 1) : lines'[i] = array[i]
  BY <1>2, <1>10, <1>11
<1>14. Once(lines')
  BY <1>3, <1>6, <1>10, <1>11, <1>12 DEF Once
<1>15. Len(lines') <= Len(array) /\ \A i \in 1..Len(lines') : lines'[i] = array[i]
  BY <1>6, <1>7, <1>10, <1>12
<1> QED
  BY <1>1, <1>2, <1>5, <1>10, <1>14, <1>15 DEF IInv, Written, Root, array

LEMMA CloseFileIInv ==
    ASSUME NEW A, NEW V, NEW L, IInv(A, V, L), NEW p \in Procs, CloseFile(p) PROVE IInv(A, V, L)'
<1>1. /\ step[p] = "append" /\ holder' = holder \ {p} /\ step' = [step EXCEPT ![p] = "idle"]
      /\ run' = [run EXCEPT ![p] = Empty] /\ cache' = [cache EXCEPT ![p] = Saved(run[p])]
      /\ setup' = setup /\ world' = world /\ jobs' = jobs /\ exists' = exists
      /\ lines' = lines /\ kills' = kills /\ count' = count
  BY DEF CloseFile, Released, Saved, bounds
<1>2. run' \in [Procs -> CMakes(A, V, L)] /\ cache' \in [Procs -> CMakes(A, V, L)]
  BY <1>1, EmptyCMake, SavedIn DEF IInv
<1>3. step' \in [Procs -> Steps] /\ \A q \in Procs : step'[q] = IF q = p THEN "idle" ELSE step[q]
  BY <1>1 DEF IInv, Steps
<1>4. holder = {p}
  BY <1>1 DEF IInv
<1>5. \A q \in Procs : step'[q] # "append"
  BY <1>3, <1>4 DEF IInv
<1> QED
  BY <1>1, <1>2, <1>3, <1>4, <1>5 DEF IInv

LEMMA CheckerFailsIInv ==
    ASSUME NEW A, NEW V, NEW L, IInv(A, V, L), NEW p \in Procs, CheckerFails(p) PROVE IInv(A, V, L)'
<1>1. /\ step[p] = "parallel" /\ kills < MaxKills /\ kills' = kills + 1
      /\ step' = [step EXCEPT ![p] = "idle"] /\ run' = [run EXCEPT ![p] = Empty]
      /\ cache' = [cache EXCEPT ![p] = Saved(run[p])] /\ holder' = holder
      /\ setup' = setup /\ world' = world /\ jobs' = jobs /\ exists' = exists
      /\ lines' = lines /\ count' = count
  BY DEF CheckerFails, shared
<1>2. /\ run' \in [Procs -> CMakes(A, V, L)] /\ cache' \in [Procs -> CMakes(A, V, L)]
      /\ \A q \in Procs : q # p => run'[q] = run[q]
  BY <1>1, EmptyCMake, SavedIn DEF IInv
<1>3. step' \in [Procs -> Steps] /\ \A q \in Procs : step'[q] = IF q = p THEN "idle" ELSE step[q]
  BY <1>1 DEF IInv, Steps
<1>4. \A q \in Procs : step'[q] = "append" => q # p /\ step[q] = "append"
  BY <1>3
<1>5. holder \subseteq {q \in Procs : step'[q] = "append"}
  BY <1>1, <1>3 DEF IInv
<1>6. kills' \in 0..MaxKills
  BY <1>1, ChecksAssumption DEF IInv
<1> QED
  BY <1>1, <1>2, <1>3, <1>4, <1>5, <1>6 DEF IInv, Written, Root

LEMMA KillIInv ==
    ASSUME NEW A, NEW V, NEW L, IInv(A, V, L), NEW p \in Procs, Kill(p) PROVE IInv(A, V, L)'
<1>1. /\ step[p] # "idle" /\ kills < MaxKills /\ kills' = kills + 1 /\ holder' = holder \ {p}
      /\ step' = [step EXCEPT ![p] = "idle"] /\ run' = [run EXCEPT ![p] = Empty]
      /\ setup' = setup /\ world' = world /\ jobs' = jobs /\ exists' = exists
      /\ lines' = lines /\ cache' = cache /\ count' = count
  BY DEF Kill, Released
<1>2. run' \in [Procs -> CMakes(A, V, L)] /\ \A q \in Procs : q # p => run'[q] = run[q]
  BY <1>1, EmptyCMake DEF IInv
<1>3. step' \in [Procs -> Steps] /\ \A q \in Procs : step'[q] = IF q = p THEN "idle" ELSE step[q]
  BY <1>1 DEF IInv, Steps
<1>4. \A q \in Procs : step'[q] = "append" => q # p /\ step[q] = "append" /\ holder = {q}
  BY <1>3 DEF IInv
<1>5. holder' \subseteq {q \in Procs : step'[q] = "append"}
  BY <1>1, <1>3 DEF IInv
<1>6. \A q \in Procs : step'[q] = "append" => holder' = {q}
  BY <1>1, <1>4
<1>7. kills' \in 0..MaxKills
  BY <1>1, ChecksAssumption DEF IInv
<1> QED
  BY <1>1, <1>2, <1>3, <1>4, <1>5, <1>6, <1>7 DEF IInv, Written, Root

LEMMA NextIInv ==
    ASSUME NEW A, NEW V, NEW L, Allowed(A, V, L), IInv(A, V, L), [Next]_vars PROVE IInv(A, V, L)'
<1>1. CASE UNCHANGED vars
  <2>1. /\ setup' = setup /\ world' = world /\ jobs' = jobs /\ exists' = exists
        /\ lines' = lines /\ holder' = holder /\ step' = step /\ run' = run
        /\ cache' = cache /\ kills' = kills /\ count' = count
    BY <1>1 DEF vars, shared, bounds
  <2> QED
    BY <2>1 DEF IInv, Written, Root
<1>2. ASSUME NEW p \in Procs, Configure(p) PROVE IInv(A, V, L)'
  BY <1>2, ConfigureIInv
<1>3. ASSUME NEW p \in Procs, Advance(p) PROVE IInv(A, V, L)'
  BY <1>3, ReadFileIInv, CheckerIInv, CheckerFailsIInv, OpenFileIInv, AppendLineIInv,
     CloseFileIInv DEF Advance
<1>4. ASSUME NEW p \in Procs, Kill(p) PROVE IInv(A, V, L)'
  BY <1>4, KillIInv
<1> QED
  BY <1>1, <1>2, <1>3, <1>4 DEF Next

-----------------------------------------------------------------------------
(* Types                                                                   *)

LEMMA AllowedAssignments ==
    ASSUME <<setup, world>> \in Cases PROVE Allowed(Assignments, Variable, Variable)
<1> DEFINE A == Assignments
<1>1. ASSUME NEW p \in Procs, NEW c \in Root(p) \cup Dealt(ChecksFile(p))
      PROVE  c \in CheckRecords
  BY ProjectIs DEF CheckSets, Dealt
<1>2. ASSUME NEW c \in CheckRecords
      PROVE  /\ c.var \in Variable /\ Sound(c, A, Variable) /\ Unlisted(c, Variable)
             /\ \A R : Finds(c, A, Variable, R, world)
             /\ \A b \in Bits : <<c.var, b>> \in A
  <2>1. c.var \in Variable /\ \A b \in Bits : <<c.var, b>> \in A
    BY CheckFields DEF Assignments
  <2> QED
    BY <2>1, SoundAssignments
<1> HIDE DEF A
<1>3. ASSUME NEW p \in Procs PROVE InvertsOwn(Dealt(ChecksFile(p)), A)
  BY <1>1, <1>2 DEF InvertsOwn
<1>4. A \in SUBSET Assignments
  BY DEF A
<1>5. Allowed(A, Variable, Variable)
  BY <1>1, <1>2, <1>3, <1>4 DEF Allowed
<1> QED
  BY <1>5 DEF A

TypeInv == IInv(Assignments, Variable, Variable)

LEMMA TypeInvTypeOK == TypeInv => TypeOK
<1> SUFFICES ASSUME TypeInv PROVE TypeOK
  OBVIOUS
<1>1. ASSUME NEW a \in Seq(Assignments) PROVE IsArray(a)
  <2>1. Assignments \in SUBSET Assignments
    OBVIOUS
  <2> QED
    BY <2>1, LinesAre DEF IsArray
<1>2. ASSUME NEW s \in CMakes(Assignments, Variable, Variable) PROVE IsCMake(s)
  <2>1. s.vars \in CachedIn(Assignments, Variable) /\ s.array \in Seq(Assignments)
        /\ s.raw \subseteq DOMAIN s.vars
    BY CMakeIs
  <2>2. Range(s.vars) \subseteq Bits
    <3>1. \A x \in DOMAIN s.vars : s.vars[x] \in Bits
      BY <2>1, CachedIs, ZenonT(60)
    <3> QED
      BY <3>1 DEF Range
  <2> QED
    BY <1>1, <2>1, <2>2 DEF IsCMake
<1> QED
  BY <1>1, <1>2 DEF TypeInv, IInv, TypeOK

LEMMA TypeStep == ASSUME TypeInv, [Next]_vars PROVE TypeInv'
<1>1. Allowed(Assignments, Variable, Variable)
  BY AllowedAssignments DEF TypeInv, IInv
<1>2. IInv(Assignments, Variable, Variable)'
  BY <1>1, NextIInv DEF TypeInv
<1> QED
  BY <1>2 DEF TypeInv

(* The variables are those of TypeOK: what CMake holds and what the file   *)
(* says is 0 or 1, and only a project that writes holds the lock.          *)
THEOREM TypeCorrect == Spec => []TypeOK
<1>1. Init => TypeInv
  BY InitIInv DEF TypeInv
<1>2. TypeInv /\ [Next]_vars => TypeInv'
  BY TypeStep
<1>3. TypeInv => TypeOK
  BY TypeInvTypeOK
<1> QED
  BY <1>1, <1>2, <1>3, PTL DEF Spec

(* A variable is in the shared file once, whoever was killed while it      *)
(* wrote, and of the projects only the one that holds the lock writes.     *)
THEOREM LinesCorrect ==
    Spec => [](LinesOnce /\ \A p \in Procs : step[p] = "append" => holder = {p})
<1> DEFINE P == LinesOnce /\ \A p \in Procs : step[p] = "append" => holder = {p}
<1>1. Init => TypeInv
  BY InitIInv DEF TypeInv
<1>2. TypeInv /\ [Next]_vars => TypeInv'
  BY TypeStep
<1>3. TypeInv => P
  BY DEF TypeInv, IInv, LinesOnce, Once
<1> QED
  BY <1>1, <1>2, <1>3, PTL DEF Spec

(* When a project is configured each variable of its checks is defined,    *)
(* whatever was read from the shared file and whichever workers failed.    *)
THEOREM DefinedCorrect ==
    Spec => [](\A p \in Procs : Configured(p) => \A c \in Root(p) : c.var \in DOMAIN run[p].vars)
<1> DEFINE P == \A p \in Procs : Configured(p) => \A c \in Root(p) : c.var \in DOMAIN run[p].vars
<1>1. Init => TypeInv
  BY InitIInv DEF TypeInv
<1>2. TypeInv /\ [Next]_vars => TypeInv'
  BY TypeStep
<1>3. TypeInv => P
  BY DEF TypeInv, IInv, Configured
<1> QED
  BY <1>1, <1>2, <1>3, PTL DEF Spec

-----------------------------------------------------------------------------
(* What the checks find                                                    *)

(* The values that are not invented, and those that are right.             *)
NotInvented == {l \in Assignments : l[2] = 1 => Justified(l[1])}
Right == {l \in NotInvented : l[2] = 0 => Refuted(l[1])}
Turned == {x \in Variable : Inverted(x)}
Sizes ==
    {x \in Variable : \E c \in AllChecks : c.type = "Type" /\ x \in SizeVariables(c.what)}

LEMMA PairIs ==
    /\ \A x \in Variable, b \in Bits :
        /\ <<x, b>> \in NotInvented <=> (b = 1 => Justified(x))
        /\ <<x, b>> \in Right <=> (b = 1 => Justified(x)) /\ (b = 0 => Refuted(x))
    /\ Right \in SUBSET NotInvented /\ NotInvented \in SUBSET Assignments
    /\ 0 \in Bits /\ 1 \in Bits
<1>1. ASSUME NEW x \in Variable, NEW b \in Bits
      PROVE  /\ <<x, b>> \in NotInvented <=> (b = 1 => Justified(x))
             /\ <<x, b>> \in Right <=> (b = 1 => Justified(x)) /\ (b = 0 => Refuted(x))
  <2> DEFINE l == <<x, b>>
  <2>1. l \in Assignments /\ l[1] = x /\ l[2] = b
    BY DEF Assignments
  <2> HIDE DEF l
  <2>2. l \in NotInvented <=> (b = 1 => Justified(x))
    BY <2>1 DEF NotInvented
  <2>3. l \in Right <=> (b = 1 => Justified(x)) /\ (b = 0 => Refuted(x))
    BY <2>1, <2>2 DEF Right
  <2> QED
    BY <2>2, <2>3 DEF l
<1>2. Right \in SUBSET NotInvented /\ NotInvented \in SUBSET Assignments
  BY DEF Right, NotInvented
<1> QED
  BY <1>1, <1>2 DEF Bits

(* The checks a project makes itself or leaves to the parallel checker.    *)
LEMMA AskedIs ==
    ASSUME <<setup, world>> \in Cases, NEW p \in Procs, NEW c \in Root(p) \cup Dealt(ChecksFile(p))
    PROVE  /\ c \in CheckRecords /\ c \in Asked
           /\ c.type = "Decl" => c \in Root(p) /\ c \in AllChecks /\ c.invert = FALSE
<1>1. c \in CheckRecords
  BY ProjectIs DEF CheckSets, Dealt
<1>2. c \in Asked
  BY DEF Asked, Dealt
<1>3. c.type = "Decl" => c \in Root(p) /\ c \in AllChecks
  BY DEF AllChecks, Dealt
<1>4. c.type = "Decl" => c.invert = FALSE
  BY <1>1, CheckFields DEF Sources
<1> QED
  BY <1>1, <1>2, <1>3, <1>4

(* The headers a declaration is looked for in.                             *)
SeenIn(c, v) == {h \in DeclHeaders(c) : \E x \in HeaderVariables(h) : True(v, x)}

LEMMA DeclValue ==
    ASSUME NEW c, c.type = "Decl", c.invert = FALSE, NEW v
    PROVE  Value(c, v, world) = 1 <=> DeclIn(c, SeenIn(c, v))
<1> DEFINE H == {h \in ToSet(c.headers) \cup {"stdlib.h"} :
                    \/ True(v, IncludeVariable(h))
                    \/ h = "stdlib.h" /\ True(v, <<"", "STDC_HEADERS">>)}
<1>1. H = SeenIn(c, v)
  BY DEF SeenIn, DeclHeaders, HeaderVariables
<1>2. Found(c, v, world) <=> DeclIn(c, H)
  BY DEF Found, Probe, DeclIn
<1>3. Found(c, v, world) \in BOOLEAN
  BY DEF Found
<1> HIDE DEF H
<1>4. CASE Found(c, v, world)
  <2>1. Found(c, v, world) = TRUE
    BY <1>3, <1>4, Zenon
  <2>2. Found(c, v, world) # c.invert
    BY <2>1, Zenon
  <2>3. Value(c, v, world) = 1
    BY <2>2, Zenon DEF Value
  <2> QED
    BY <1>1, <1>2, <1>4, <2>3
<1>5. CASE ~Found(c, v, world)
  <2>1. Found(c, v, world) = FALSE
    BY <1>3, <1>5, Zenon
  <2>2. Found(c, v, world) = c.invert
    BY <2>1, Zenon
  <2>3. Value(c, v, world) = 0
    BY <2>2, Zenon DEF Value
  <2>4. Value(c, v, world) # 1
    BY <2>3
  <2> QED
    BY <1>1, <1>2, <1>5, <2>4
<1> QED
  BY <1>4, <1>5

(* A check does not succeed for a variable that should not be true.        *)
LEMMA FindsJustified ==
    ASSUME Consistent, <<setup, world>> \in Cases, NEW p \in Procs,
           NEW c \in Root(p) \cup Dealt(ChecksFile(p)), NEW v \in CachedIn(NotInvented, Turned),
           Value(c, v, world) = 1
    PROVE  Justified(c.var)
<1>1. /\ c \in CheckRecords /\ c \in Asked
      /\ c.type = "Decl" => c \in Root(p) /\ c \in AllChecks /\ c.invert = FALSE
  BY AskedIs
<1>2. CASE c.type # "Decl"
  <2>1. Value(c, v, world) = Value(c, <<>>, world)
    BY <1>2 DEF Value, Found, Probe
  <2> QED
    BY <1>1, <1>2, <2>1 DEF Consistent, AskedTruly
<1>3. CASE c.type = "Decl"
  <2>1. DeclIn(c, SeenIn(c, v))
    BY <1>1, <1>3, DeclValue
  <2>2. ASSUME NEW x, True(v, x) PROVE Justified(x) \/ Inverted(x)
    <3>1. x \in Variable /\ v[x] = 1 /\ (<<x, v[x]>> \in NotInvented \/ x \in Turned)
      BY <2>2, CachedIs DEF True
    <3> QED
      BY <3>1, PairIs DEF Turned
  <2>3. \A h \in DeclHeaders(c) : \A x \in HeaderVariables(h) : ~Inverted(x)
    BY <1>1, <1>3 DEF Consistent, DeclsSteady
  <2>4. SeenIn(c, v) \in SUBSET There(c)
    BY <2>2, <2>3 DEF SeenIn, There
  <2> QED
    BY <1>1, <1>3, <2>1, <2>4 DEF Consistent, DeclsSteady
<1> QED
  BY <1>2, <1>3

(* And it does not fail for one that should be.                            *)
LEMMA FindsRefuted ==
    ASSUME Consistent, Complete, <<setup, world>> \in Cases, NEW p \in Procs,
           NEW c \in Root(p) \cup Dealt(ChecksFile(p)), NEW v \in CachedIn(Right, Turned),
           c.type = "Decl" => LookedFor(Root(p)) \subseteq DOMAIN v, Value(c, v, world) = 0
    PROVE  Refuted(c.var)
<1>1. /\ c \in CheckRecords /\ c \in Asked
      /\ c.type = "Decl" => c \in Root(p) /\ c \in AllChecks /\ c.invert = FALSE
  BY AskedIs
<1>2. CASE c.type # "Decl"
  <2>1. Value(c, v, world) = Value(c, <<>>, world)
    BY <1>2 DEF Value, Found, Probe
  <2> QED
    BY <1>1, <1>2, <2>1 DEF Complete, FailsTruly
<1>3. CASE c.type = "Decl"
  <2>1. ~DeclIn(c, SeenIn(c, v))
    <3>1. Value(c, v, world) # 1
      OBVIOUS
    <3>2. c.type = "Decl" /\ c.invert = FALSE
      BY <1>1, <1>3
    <3>3. Value(c, v, world) = 1 <=> DeclIn(c, SeenIn(c, v))
      BY <3>2, DeclValue
    <3> QED
      BY <3>1, <3>3
  <2>2. ASSUME NEW x \in DOMAIN v, ~Inverted(x)
        PROVE  (v[x] = 1 => Justified(x)) /\ (v[x] = 0 => Refuted(x)) /\ (v[x] = 0 \/ v[x] = 1)
    <3>1. x \in Variable /\ v[x] \in Bits /\ (<<x, v[x]>> \in Right \/ x \in Turned)
      BY CachedIs
    <3> QED
      BY <2>2, <3>1, PairIs, BitIs DEF Turned
  <2>3. \A h \in DeclHeaders(c) : \A x \in HeaderVariables(h) : ~Inverted(x)
    BY <1>1, <1>3 DEF Consistent, DeclsSteady
  <2>4. SeenIn(c, v) \in SUBSET There(c)
    BY <2>2, <2>3 DEF SeenIn, There, True
  <2>5. Own(c, Root(p)) \subseteq SeenIn(c, v)
    <3> SUFFICES ASSUME NEW h \in Own(c, Root(p)) PROVE h \in SeenIn(c, v)
      OBVIOUS
    <3>1. h \in DeclHeaders(c)
      BY DEF Own
    <3>2. PICK x \in HeaderVariables(h) : x \in LookedFor(Root(p)) /\ ~Refuted(x)
      BY DEF Own
    <3>3. x \in DOMAIN v /\ ~Inverted(x)
      BY <1>3, <2>3, <3>1, <3>2
    <3>4. v[x] = 1
      BY <2>2, <3>2, <3>3
    <3> QED
      BY <3>1, <3>3, <3>4 DEF SeenIn, True
  <2>6. c \in {x \in Root(p) : x.type = "Decl"}
    BY <1>1, <1>3
  <2> QED
    BY <2>1, <2>4, <2>5, <2>6 DEF Complete, DeclsFound
<1> QED
  BY <1>2, <1>3

(* What a type or a symbol defines is not inverted.                        *)
LEMMA NotTurned ==
    ASSUME Consistent, <<setup, world>> \in Cases, NEW p \in Procs,
           NEW c \in Root(p) \cup Dealt(ChecksFile(p)), c.type \in {"Type", "Symbol"}
    PROVE  \A x : Defines(c, x) => x \notin Turned
<1> SUFFICES ASSUME NEW o \in AllChecks, o.invert, Defines(c, o.var) PROVE FALSE
  BY DEF Turned, Inverted
<1>1. PICK q \in Procs : o \in Root(q)
  BY DEF AllChecks
<1>2. o \in CheckRecords /\ o \in Asked
  BY <1>1, AskedIs
<1>3. c \in Asked
  BY AskedIs
<1>4. o.type = c.type
  BY <1>2, <1>3 DEF Consistent, InvertedAlone, Identity
<1> QED
  BY <1>2, <1>4, CheckFields DEF Sources

LEMMA SoundNotInvented ==
    ASSUME Consistent, <<setup, world>> \in Cases, NEW p \in Procs,
           NEW c \in Root(p) \cup Dealt(ChecksFile(p))
    PROVE  /\ \A R : Finds(c, NotInvented, Turned, R, world)
           /\ Sound(c, NotInvented, Turned)
           /\ c.type = "Type" /\ Justified(c.var) => \A x \in SizeVariables(c.what) : Justified(x)
<1>1. c \in CheckRecords /\ c \in Asked
  BY AskedIs
<1>2. c.var \in Variable /\ c.what \in Words /\ c.headers \in HeaderLists
  BY <1>1, CheckFields
<1>3. ASSUME NEW R PROVE Finds(c, NotInvented, Turned, R, world)
  <2> SUFFICES ASSUME NEW v \in CachedIn(NotInvented, Turned)
               PROVE  <<c.var, Value(c, v, world)>> \in NotInvented
    BY DEF Finds
  <2>1. Value(c, v, world) = 1 => Justified(c.var)
    BY FindsJustified
  <2>2. Value(c, v, world) \in Bits
    BY ValueIs
  <2> QED
    BY <1>2, <2>1, <2>2, PairIs
<1>4. c.type = "Type" /\ Justified(c.var) => \A x \in SizeVariables(c.what) : Justified(x)
  BY <1>1 DEF Consistent, DefinedTogether
<1>5. ASSUME c.type = "Type", NEW x \in SizeVariables(c.what)
      PROVE  /\ c.var \notin Turned
             /\ \A b \in Bits : <<c.var, b>> \in NotInvented => <<x, b>> \in NotInvented
  <2>1. x \in Variable
    BY <1>2, NewVariables
  <2>2. Justified(c.var) => Justified(x)
    BY <1>4, <1>5
  <2>3. c.var \notin Turned
    BY <1>5, NotTurned DEF Defines
  <2> QED
    BY <1>2, <2>1, <2>2, <2>3, PairIs
<1>6. ASSUME c.type = "Symbol", NEW h \in ToSet(c.headers)
      PROVE  /\ c.var \notin Turned /\ IncludeVariable(h) \notin Turned
             /\ <<c.var, 1>> \in NotInvented => <<IncludeVariable(h), 1>> \in NotInvented
  <2>1. IncludeVariable(h) \in Variable
    BY <1>2, HeadersAre, NewVariables DEF ToSet
  <2>2. Justified(c.var) => Justified(IncludeVariable(h))
    BY <1>1, <1>6 DEF Consistent, DefinedTogether
  <2>3. c.var \notin Turned /\ IncludeVariable(h) \notin Turned
    BY <1>6, NotTurned DEF Defines
  <2> QED
    BY <1>2, <2>1, <2>2, <2>3, PairIs
<1>7. Sound(c, NotInvented, Turned)
  BY <1>5, <1>6 DEF Sound
<1> QED
  BY <1>3, <1>4, <1>7

LEMMA SoundRight ==
    ASSUME Consistent, Complete, <<setup, world>> \in Cases, NEW p \in Procs,
           NEW c \in Root(p) \cup Dealt(ChecksFile(p))
    PROVE  /\ c \in Root(p) => Finds(c, Right, Turned, LookedFor(Root(p)), world)
           /\ c.type # "Decl" => Finds(c, Right, Turned, {}, world)
           /\ Sound(c, Right, Turned)
<1>1. c \in CheckRecords /\ c \in Asked
  BY AskedIs
<1>2. c.var \in Variable /\ c.what \in Words /\ c.headers \in HeaderLists
  BY <1>1, CheckFields
<1>3. CachedIn(Right, Turned) \subseteq CachedIn(NotInvented, Turned)
  BY PairIs DEF CachedIn
<1>4. ASSUME NEW v \in CachedIn(Right, Turned), c.type = "Decl" => LookedFor(Root(p)) \subseteq DOMAIN v
      PROVE  <<c.var, Value(c, v, world)>> \in Right
  <2>1. Value(c, v, world) = 1 => Justified(c.var)
    BY <1>3, FindsJustified
  <2>2. Value(c, v, world) = 0 => Refuted(c.var)
    BY <1>4, FindsRefuted
  <2>3. Value(c, v, world) \in Bits
    BY ValueIs
  <2> QED
    BY <1>2, <2>1, <2>2, <2>3, PairIs
<1>5. ASSUME c.type = "Type", NEW x \in SizeVariables(c.what)
      PROVE  /\ c.var \notin Turned
             /\ \A b \in Bits : <<c.var, b>> \in Right => <<x, b>> \in Right
  <2>1. x \in Variable
    BY <1>2, NewVariables
  <2>2. Justified(c.var) => Justified(x)
    BY <1>5, SoundNotInvented
  <2>3. Refuted(c.var) => Refuted(x)
    BY <1>1, <1>5 DEF Complete, MissingTogether
  <2>4. c.var \notin Turned
    BY <1>5, NotTurned DEF Defines
  <2> QED
    BY <1>2, <2>1, <2>2, <2>3, <2>4, PairIs
<1>6. ASSUME c.type = "Symbol", NEW h \in ToSet(c.headers)
      PROVE  /\ c.var \notin Turned /\ IncludeVariable(h) \notin Turned
             /\ <<c.var, 1>> \in Right => <<IncludeVariable(h), 1>> \in Right
  <2>1. IncludeVariable(h) \in Variable
    BY <1>2, HeadersAre, NewVariables DEF ToSet
  <2>2. Justified(c.var) => Justified(IncludeVariable(h))
    BY <1>1, <1>6 DEF Consistent, DefinedTogether
  <2>3. c.var \notin Turned /\ IncludeVariable(h) \notin Turned
    BY <1>6, NotTurned DEF Defines
  <2> QED
    BY <1>2, <2>1, <2>2, <2>3, PairIs
<1>7. Sound(c, Right, Turned)
  BY <1>5, <1>6 DEF Sound
<1> QED
  BY <1>4, <1>7 DEF Finds

(* What holds of the checks of the projects whatever they find.            *)
LEMMA TurnedIs ==
    ASSUME Consistent, <<setup, world>> \in Cases, NEW A
    PROVE  /\ \A p \in Procs : \A c \in Root(p) :
                (c.invert => c.var \in Turned) /\ Unlisted(c, Sizes)
           /\ \A p \in Procs : InvertsOwn(Dealt(ChecksFile(p)), A)
           /\ Turned \in SUBSET Variable /\ Sizes \in SUBSET Variable
<1>1. ASSUME NEW p \in Procs, NEW c \in Root(p)
      PROVE  (c.invert => c.var \in Turned) /\ Unlisted(c, Sizes)
  <2>1. c \in CheckRecords /\ c \in AllChecks
    BY AskedIs DEF AllChecks
  <2>2. c.var \in Variable /\ c.what \in Words
    BY <2>1, CheckFields
  <2>3. c.type = "Type" => SizeVariables(c.what) \subseteq Sizes
    BY <2>1, <2>2, NewVariables DEF Sizes
  <2> QED
    BY <2>1, <2>2, <2>3 DEF Turned, Inverted, Unlisted
<1>2. ASSUME NEW p \in Procs, NEW c \in Dealt(ChecksFile(p)), NEW o \in Dealt(ChecksFile(p)),
             c.invert, o.var = c.var
      PROVE  c = o
  <2>1. c \in Asked /\ o \in Asked
    BY AskedIs
  <2>2. Identity(o) = Identity(c)
    BY <1>2, <2>1 DEF Consistent, InvertedAlone, Defines
  <2>3. ChecksFile(p) \in CheckSets
    BY ProjectIs
  <2> QED
    BY <2>2, <2>3 DEF CheckSets, Dealt
<1>3. Turned \in SUBSET Variable /\ Sizes \in SUBSET Variable
  BY DEF Turned, Sizes
<1> QED
  BY <1>1, <1>2, <1>3 DEF InvertsOwn

LEMMA AllowedNotInvented ==
    ASSUME Consistent, <<setup, world>> \in Cases PROVE Allowed(NotInvented, Turned, Sizes)
<1>1. ASSUME NEW p \in Procs, NEW c \in Root(p)
      PROVE  /\ Finds(c, NotInvented, Turned, LookedFor(Root(p)), world)
             /\ Sound(c, NotInvented, Turned)
  BY SoundNotInvented
<1>2. ASSUME NEW p \in Procs, NEW c \in Dealt(ChecksFile(p))
      PROVE  Finds(c, NotInvented, Turned, {}, world) /\ Sound(c, NotInvented, Turned)
  BY SoundNotInvented
<1> QED
  BY <1>1, <1>2, TurnedIs, PairIs DEF Allowed

LEMMA AllowedRight ==
    ASSUME Consistent, Complete, <<setup, world>> \in Cases PROVE Allowed(Right, Turned, Sizes)
<1>1. ASSUME NEW p \in Procs, NEW c \in Root(p)
      PROVE  Finds(c, Right, Turned, LookedFor(Root(p)), world) /\ Sound(c, Right, Turned)
  BY SoundRight
<1>2. ASSUME NEW p \in Procs, NEW c \in Dealt(ChecksFile(p))
      PROVE  Finds(c, Right, Turned, {}, world) /\ Sound(c, Right, Turned)
  BY SoundRight DEF Dealt
<1>3. Right \in SUBSET Assignments
  BY PairIs
<1> QED
  BY <1>1, <1>2, <1>3, TurnedIs DEF Allowed

-----------------------------------------------------------------------------
(* The shared file                                                         *)

FileInv == IInv(NotInvented, Turned, Sizes)
RightInv == IInv(Right, Turned, Sizes)

LEMMA SameProjects ==
    ASSUME setup' = setup, world' = world
    PROVE  /\ NotInvented' = NotInvented /\ Right' = Right
           /\ Turned' = Turned /\ Sizes' = Sizes
           /\ Consistent' = Consistent /\ Complete' = Complete
<1>1. /\ AllChecks' = AllChecks
      /\ \A p : Root(p)' = Root(p)
  BY DEF AllChecks, Root
<1>2. Asked' = Asked
  BY DEF Asked, Root, ChecksFile
<1>3. Headers' = Headers
  BY <1>1 DEF Headers
<1>4. TrueHeaders' = TrueHeaders
  BY <1>3 DEF TrueHeaders
<1>5. ASSUME NEW c PROVE Ideal(c)' = Ideal(c)
  BY <1>4 DEF Ideal
<1>6. ASSUME NEW x PROVE Justified(x)' <=> Justified(x)
  BY <1>1, <1>5 DEF Justified
<1>7. ASSUME NEW x PROVE Refuted(x)' <=> Refuted(x)
  BY <1>1, <1>5 DEF Refuted
<1>8. ASSUME NEW x PROVE Inverted(x)' <=> Inverted(x)
  BY <1>1 DEF Inverted
<1>9. NotInvented' = NotInvented
  BY <1>6 DEF NotInvented
<1>10. Right' = Right
  BY <1>7, <1>9 DEF Right
<1>11. Turned' = Turned /\ Sizes' = Sizes
  BY <1>1, <1>8 DEF Turned, Sizes
<1>12. InvertedAlone' <=> InvertedAlone
  BY <1>2 DEF InvertedAlone
<1>13. AskedTruly' <=> AskedTruly
  BY <1>2, <1>6 DEF AskedTruly
<1>14. DefinedTogether' <=> DefinedTogether
  BY <1>2, <1>6 DEF DefinedTogether
<1>15. \A c : There(c)' = There(c)
  BY <1>6 DEF There
<1>16. \A c, H : DeclIn(c, H)' <=> DeclIn(c, H)
  BY DEF DeclIn
<1>17. DeclsSteady' <=> DeclsSteady
  BY <1>1, <1>6, <1>8, <1>15, <1>16 DEF DeclsSteady
<1>18. FailsTruly' <=> FailsTruly
  BY <1>2, <1>7 DEF FailsTruly
<1>19. MissingTogether' <=> MissingTogether
  BY <1>2, <1>7 DEF MissingTogether
<1>20. \A c, S : Own(c, S)' = Own(c, S)
  BY <1>7 DEF Own
<1>21. DeclsFound' <=> DeclsFound
  BY <1>1, <1>7, <1>15, <1>16, <1>20 DEF DeclsFound
<1>22. Consistent' = Consistent
  BY <1>12, <1>13, <1>14, <1>17 DEF Consistent
<1>23. Complete' = Complete
  BY <1>18, <1>19, <1>21 DEF Complete
<1> QED
  BY <1>9, <1>10, <1>11, <1>22, <1>23

LEMMA ProjectsStay == [Next]_vars => setup' = setup /\ world' = world
BY DEF Next, vars, shared, Configure, Advance, ReadFile, Checker, CheckerFails,
       OpenFile, AppendLine, CloseFile, Kill

LEMMA FileInit == Init => FileInv /\ RightInv
<1> SUFFICES ASSUME Init PROVE FileInv /\ RightInv
  OBVIOUS
<1>1. PICK A, B, V, L : A = NotInvented /\ B = Right /\ V = Turned /\ L = Sizes
  OBVIOUS
<1>2. IInv(A, V, L) /\ IInv(B, V, L)
  BY InitIInv
<1> QED
  BY <1>1, <1>2 DEF FileInv, RightInv

LEMMA FileStep ==
    ASSUME Consistent, FileInv, [Next]_vars
    PROVE  Consistent' /\ FileInv'
<1>1. PICK A, V, L : A = NotInvented /\ V = Turned /\ L = Sizes
  OBVIOUS
<1>2. IInv(A, V, L) /\ Allowed(A, V, L)
  <2>1. <<setup, world>> \in Cases
    BY DEF FileInv, IInv
  <2> QED
    BY <1>1, <2>1, AllowedNotInvented DEF FileInv
<1>3. IInv(A, V, L)'
  BY <1>2, NextIInv
<1>4. A = NotInvented' /\ V = Turned' /\ L = Sizes' /\ Consistent'
  BY <1>1, ProjectsStay, SameProjects
<1>5. FileInv'
  BY <1>3, <1>4 DEF FileInv, IInv
<1> QED
  BY <1>4, <1>5

LEMMA RightStep ==
    ASSUME Consistent, Complete, RightInv, [Next]_vars
    PROVE  Consistent' /\ Complete' /\ RightInv'
<1>1. PICK A, V, L : A = Right /\ V = Turned /\ L = Sizes
  OBVIOUS
<1>2. IInv(A, V, L) /\ Allowed(A, V, L)
  <2>1. <<setup, world>> \in Cases
    BY DEF RightInv, IInv
  <2> QED
    BY <1>1, <2>1, AllowedRight DEF RightInv
<1>3. IInv(A, V, L)'
  BY <1>2, NextIInv
<1>4. A = Right' /\ V = Turned' /\ L = Sizes' /\ Consistent' /\ Complete'
  BY <1>1, ProjectsStay, SameProjects
<1>5. RightInv'
  BY <1>3, <1>4 DEF RightInv, IInv
<1> QED
  BY <1>4, <1>5

LEMMA FileInvFileRight == FileInv => FileRight
<1> SUFFICES ASSUME FileInv PROVE FileRight
  OBVIOUS
<1>1. LinesOnce
  BY DEF FileInv, IInv, LinesOnce, Once
<1>2. ASSUME NEW a \in Seq(NotInvented), NEW l \in ToSet(a), l[2] = 1 PROVE Justified(l[1])
  <2>1. l \in NotInvented
    BY DEF ToSet
  <2> QED
    BY <1>2, <2>1 DEF NotInvented
<1>3. ASSUME NEW s \in CMakes(NotInvented, Turned, Sizes), NEW var \in DOMAIN s.vars,
             s.vars[var] = 1, ~Inverted(var)
      PROVE  Justified(var)
  <2>1. s.vars \in CachedIn(NotInvented, Turned)
    BY CMakeIs
  <2>2. var \in Variable /\ (<<var, s.vars[var]>> \in NotInvented \/ var \in Turned)
    BY <2>1, CachedIs
  <2> QED
    BY <1>3, <2>2, PairIs DEF Turned
<1>4. ASSUME NEW p \in Procs
      PROVE  /\ run[p] \in CMakes(NotInvented, Turned, Sizes)
             /\ run[p].array \in Seq(NotInvented)
  BY CMakeIs DEF FileInv, IInv
<1>5. lines \in Seq(NotInvented)
  BY DEF FileInv, IInv
<1>6. NothingInvented
  BY <1>2, <1>3, <1>4, <1>5 DEF NothingInvented
<1> QED
  BY <1>1, <1>6 DEF FileRight

(* The shared file can be trusted, and so can what a project is about to   *)
(* write into it and what it uses, if the entries of the projects and the  *)
(* compiler are consistent: killed runs, failed workers and files read     *)
(* while they are written lose results but invent none.                    *)
THEOREM FileCorrect == Spec /\ Consistent => []FileRight
<1>1. Init => FileInv
  BY FileInit
<1>2. Consistent /\ FileInv /\ [Next]_vars => Consistent' /\ FileInv'
  BY FileStep
<1>3. FileInv => FileRight
  BY FileInvFileRight
<1> QED
  BY <1>1, <1>2, <1>3, PTL DEF Spec

-----------------------------------------------------------------------------
(* What the compiler gets                                                  *)

(* The compiler gets a definition of the variable of a check exactly if    *)
(* the variable is true.                                                   *)
LEMMA DefinitionIs ==
    ASSUME NEW S, NEW c \in S, NEW v
    PROVE  <<c.var, 1>> \in Definitions(v, S) <=> True(v, c.var)
<1> DEFINE D1 == {<<o.var, IF True(v, o.var) THEN 1 ELSE 0>> : o \in {x \in S : x.type = "Decl"}}
           D2 == {<<var, 1>> : var \in {x \in UNION {VariablesOf(o) : o \in S} : True(v, x)}}
<1>1. Definitions(v, S) = D1 \cup D2
  BY DEF Definitions
<1>2. ASSUME True(v, c.var) PROVE <<c.var, 1>> \in D2
  <2>1. c.var \in UNION {VariablesOf(o) : o \in S}
    BY DEF VariablesOf
  <2> QED
    BY <1>2, <2>1
<1>3. ASSUME <<c.var, 1>> \in D1 PROVE True(v, c.var)
  <2>1. PICK o \in S : <<c.var, 1>> = <<o.var, IF True(v, o.var) THEN 1 ELSE 0>>
    BY <1>3
  <2>2. c.var = o.var /\ (IF True(v, o.var) THEN 1 ELSE 0) = 1
    BY <2>1
  <2> QED
    BY <2>2
<1>4. ASSUME <<c.var, 1>> \in D2 PROVE True(v, c.var)
  BY <1>4
<1> QED
  BY <1>1, <1>2, <1>3, <1>4

(* Of a check that is alone its variable says what it finds.               *)
LEMMA AloneIs ==
    ASSUME NEW c \in AllChecks, Alone(c)
    PROVE  /\ Justified(c.var) => Ideal(c) = 1
           /\ Refuted(c.var) => Ideal(c) = 0
           /\ ~c.invert => c.var \notin Turned
           /\ c.invert /\ c \in CheckRecords => c.var \notin Sizes
<1>1. \A o \in AllChecks : Defines(o, c.var) => o = c
  BY DEF Alone
<1>2. \A o \in AllChecks : c.var \in VariablesOf(o) => o = c
  BY <1>1 DEF VariablesOf, Defines
<1>3. Justified(c.var) => Ideal(c) = 1
  BY <1>1 DEF Justified
<1>4. Refuted(c.var) => Ideal(c) = 0
  BY <1>2 DEF Refuted
<1>5. ~c.invert => c.var \notin Turned
  <2>1. \A o \in AllChecks : o.var = c.var => o = c
    BY <1>1 DEF Defines
  <2> QED
    BY <2>1 DEF Turned, Inverted
<1>6. c.invert /\ c \in CheckRecords => c.var \notin Sizes
  <2> SUFFICES ASSUME c.invert, c \in CheckRecords, NEW o \in AllChecks, o.type = "Type",
                      c.var \in SizeVariables(o.what)
               PROVE  FALSE
    BY DEF Sizes
  <2>1. o = c
    BY <1>1 DEF Defines
  <2>2. c.type \in Sources
    BY CheckFields
  <2> QED
    BY <2>1, <2>2 DEF Sources
<1> QED
  BY <1>3, <1>4, <1>5, <1>6

LEMMA RightInvAvailable == RightInv => Available
<1> SUFFICES ASSUME RightInv, NEW p \in Procs, step[p] = "append", NEW c \in Root(p)
             PROVE  /\ c.var \in DOMAIN run[p].vars
                    /\ Alone(c) /\ ~c.invert =>
                        (<<c.var, 1>> \in Definitions(run[p].vars, Root(p)) <=> Ideal(c) = 1)
                    /\ Alone(c) /\ c.invert => <<c.var, Ideal(c)>> \in ToSet(run[p].array)
  BY DEF Available, Configured
<1> DEFINE v == run[p].vars
           a == run[p].array
<1>1. c.var \in DOMAIN v
  BY DEF RightInv, IInv
<1>2. /\ v \in CachedIn(Right, Turned) /\ a \in Seq(Right) /\ Listed(v, a, Sizes)
  BY CMakeIs DEF RightInv, IInv
<1>3. c \in AllChecks /\ c \in CheckRecords
  BY ProjectIs DEF RightInv, IInv, AllChecks, CheckSets
<1>4. c.var \in Variable
  BY <1>3, CheckFields
<1> HIDE DEF v, a
<1>5. ASSUME Alone(c), ~c.invert
      PROVE  <<c.var, 1>> \in Definitions(v, Root(p)) <=> Ideal(c) = 1
  <2>1. c.var \notin Turned
    BY <1>3, <1>5, AloneIs
  <2>2. v[c.var] \in Bits /\ <<c.var, v[c.var]>> \in Right
    BY <1>1, <1>2, <2>1, CachedIs
  <2>3. (v[c.var] = 1 => Ideal(c) = 1) /\ (v[c.var] = 0 => Ideal(c) = 0)
    BY <1>3, <1>4, <1>5, <2>2, PairIs, AloneIs
  <2>4. v[c.var] = 1 <=> Ideal(c) = 1
    BY <2>2, <2>3, BitIs
  <2>5. <<c.var, 1>> \in Definitions(v, Root(p)) <=> True(v, c.var)
    BY DefinitionIs
  <2> QED
    BY <1>1, <2>4, <2>5 DEF True
<1>6. ASSUME Alone(c), c.invert PROVE <<c.var, Ideal(c)>> \in ToSet(a)
  <2>1. c.var \notin Sizes
    BY <1>3, <1>6, AloneIs
  <2>2. PICK i \in DOMAIN a : a[i][1] = c.var
    BY <1>1, <1>2, <2>1 DEF Listed
  <2>3. a[i] \in Right
    BY <1>2
  <2>4. a[i] = <<c.var, a[i][2]>> /\ a[i][2] \in Bits
    <3>1. a[i] \in Assignments
      BY <2>3, PairIs
    <3> QED
      BY <2>2, <3>1, AssignmentIs
  <2> DEFINE b == a[i][2]
  <2>5. <<c.var, b>> \in Right /\ b \in Bits
    BY <2>3, <2>4
  <2> HIDE DEF b
  <2>6. (b = 1 => Ideal(c) = 1) /\ (b = 0 => Ideal(c) = 0)
    BY <1>3, <1>4, <1>6, <2>5, PairIs, AloneIs
  <2>7. b = Ideal(c)
    BY <2>5, <2>6, BitIs
  <2>8. a[i] \in ToSet(a)
    BY DEF ToSet
  <2> QED
    BY <2>4, <2>7, <2>8 DEF b
<1> QED
  BY <1>1, <1>5, <1>6 DEF v, a

(* If the entries and the compiler are consistent and complete the         *)
(* compiler gets what the checks find, of each that shares its variable    *)
(* with no other: however the runs of the projects interleave, whatever    *)
(* parts of the file were read and whichever workers failed.               *)
THEOREM AvailableCorrect == Spec /\ Consistent /\ Complete => []Available
<1>1. Init => RightInv
  BY FileInit
<1>2. Consistent /\ Complete /\ RightInv /\ [Next]_vars => Consistent' /\ Complete' /\ RightInv'
  BY RightStep
<1>3. RightInv => Available
  BY RightInvAvailable
<1> QED
  BY <1>1, <1>2, <1>3, PTL DEF Spec

-----------------------------------------------------------------------------
(* What is read back of checks.yml                                         *)

(* What may be read back: the checks M that were saved or are added as     *)
(* defaults, and others in place of declarations and symbols.              *)
Others ==
    {c \in CheckRecords : \/ c.type = "Decl"
                          \/ /\ c.type = "Symbol" /\ c.what = "symbol"
                             /\ c.var = <<"HAVE_", Stem["symbol"]>>}
Apart(M) ==
    /\ \A c, o \in M : Identity(c) = Identity(o) => c = o
    /\ \A c \in M, o \in Others : Identity(c) # Identity(o)

(* A check of M is added as it is, or is there.                            *)
LEMMA Rejoins ==
    ASSUME NEW M, Apart(M), NEW c \in M, NEW S \in SUBSET (M \cup Others), NEW d,
           Identity(d) = Identity(c)
    PROVE  /\ d = c => AddCheck(S, d) = S \cup {c}
           /\ \A field, v : [d EXCEPT ![field] = v] = c /\ [c EXCEPT ![field] = v] = c =>
                SetIn(S, d, field, v) = S \cup {c}
<1>1. \A o \in S : Identity(o) = Identity(d) => o = c
  BY DEF Apart
<1>2. CASE c \in S
  <2>1. AddCheck(S, d) = S
    BY <1>2 DEF AddCheck
  <2>2. Same(S, d) = c
    BY <1>1, <1>2 DEF Same
  <2>3. \A field, v : SetIn(S, d, field, v) = (S \ {c}) \cup {[c EXCEPT ![field] = v]}
    BY <2>1, <2>2 DEF SetIn
  <2>4. S \cup {c} = S /\ (S \ {c}) \cup {c} = S
    BY <1>2
  <2> QED
    BY <2>1, <2>3, <2>4
<1>3. CASE c \notin S
  <2>1. ~\E o \in S : Identity(o) = Identity(d)
    BY <1>1, <1>3
  <2>2. AddCheck(S, d) = S \cup {d} /\ d \notin S
    BY <2>1 DEF AddCheck
  <2>3. Same(S \cup {d}, d) = d
    BY <2>1 DEF Same
  <2>4. \A field, v : SetIn(S, d, field, v) = ((S \cup {d}) \ {d}) \cup {[d EXCEPT ![field] = v]}
    BY <2>2, <2>3 DEF SetIn
  <2>5. (S \cup {d}) \ {d} = S
    BY <2>2
  <2> QED
    BY <2>2, <2>4, <2>5
<1> QED
  BY <1>2, <1>3

(* A check is what it was made of, but for what was set.                   *)
LEMMA MadeOf ==
    ASSUME NEW c \in CheckRecords, Made(c), ~c.default
    PROVE  /\ Identity(Remade(c)) = Identity(c)
           /\ ~c.cpp /\ ~c.invert => Remade(c) = c
           /\ ~c.invert => [Remade(c) EXCEPT !["cpp"] = c.cpp] = c
           /\ ~c.cpp => [Remade(c) EXCEPT !["invert"] = c.invert] = c
           /\ [c EXCEPT !["cpp"] = c.cpp] = c /\ [c EXCEPT !["invert"] = c.invert] = c
<1> DEFINE F == {"type", "var", "what", "of", "headers", "cpp", "invert", "default"}
           d == Fresh(c)
<1>1. DOMAIN c = F /\ c = [x \in F |-> c[x]]
  BY DEF CheckRecords
<1>2. /\ c.cpp \in BOOLEAN /\ c.invert \in BOOLEAN /\ c.default = FALSE
  BY CheckFields
<1>3. /\ d = [x \in F |-> d[x]]
      /\ d["cpp"] = FALSE /\ d["invert"] = FALSE /\ d["default"] = FALSE
      /\ \A x \in F \ {"cpp", "invert", "default"} : d[x] = c[x]
  BY <1>1 DEF Fresh
<1>4. d.type = c.type /\ d.var = c.var /\ d.headers = c.headers
  BY <1>3
<1> HIDE DEF d
<1>5. Identity(d) = Identity(c)
  BY <1>4 DEF Identity
<1>6. ~c.cpp /\ ~c.invert => d = c
  BY <1>1, <1>2, <1>3
<1>7. ~c.invert => [d EXCEPT !["cpp"] = c.cpp] = c
  BY <1>1, <1>2, <1>3
<1>8. ~c.cpp => [d EXCEPT !["invert"] = c.invert] = c
  BY <1>1, <1>2, <1>3
<1>9. [c EXCEPT !["cpp"] = c.cpp] = c /\ [c EXCEPT !["invert"] = c.invert] = c
  BY <1>1
<1>10. d = Remade(c)
  BY DEF Made, d
<1> QED
  BY <1>5, <1>6, <1>7, <1>8, <1>9, <1>10

(* A check that is saved is read back as it was.                           *)
LEMMA Reloads ==
    ASSUME NEW M, Apart(M), NEW c \in M, c \in CheckRecords, Made(c), ReadBack(c), ~c.default,
           NEW S \in SUBSET (M \cup Others)
    PROVE  LoadEntry(S, SaveCheck(c)) = S \cup {c}
<1> DEFINE e == SaveCheck(c)
           d == Remade(c)
<1>1. /\ Identity(d) = Identity(c)
      /\ ~c.cpp /\ ~c.invert => d = c
      /\ ~c.invert => [d EXCEPT !["cpp"] = c.cpp] = c
      /\ ~c.cpp => [d EXCEPT !["invert"] = c.invert] = c
      /\ [c EXCEPT !["cpp"] = c.cpp] = c /\ [c EXCEPT !["invert"] = c.invert] = c
  BY MadeOf
<1>2. /\ c.type \in ToSet(Types) /\ c.cpp \in BOOLEAN /\ c.invert \in BOOLEAN
      /\ c.invert => c.type \in Sources
  BY CheckFields
<1>3. c.cpp => c.type \in {"Include", "Symbol"}
  BY DEF Made
<1>4. c.type # "Decl" /\ (c.type = "Symbol" => c.headers # <<>> \/ c.cpp)
  BY <1>2 DEF ReadBack
<1>5. \A b \in BOOLEAN : (Flag(b) = "true") = b /\ Flag(b) # ""
  BY DEF Flag
<1> DEFINE A == AddCheck(S, d)
           C == SetIn(S, d, "cpp", c.cpp)
           I == SetIn(S, d, "invert", c.invert)
<1>6. /\ ~c.cpp /\ ~c.invert => A = S \cup {c}
      /\ ~c.invert => C = S \cup {c}
      /\ ~c.cpp => I = S \cup {c}
  <2> HIDE DEF d
  <2>1. /\ d = c => AddCheck(S, d) = S \cup {c}
        /\ \A field, v : [d EXCEPT ![field] = v] = c /\ [c EXCEPT ![field] = v] = c =>
                SetIn(S, d, field, v) = S \cup {c}
    BY <1>1, Rejoins
  <2> QED
    BY <1>1, <2>1
<1>7. CASE c.type = "Function"
  <2>1. /\ e.key = "Function" /\ e.a = c.what
        /\ HeadersOf(e) = c.headers
    BY <1>7 DEF SaveCheck, SavedForm, Entry, HeadersOf, Sources
  <2>2. d = Named("Function", c.what, c.headers)
    BY <1>7 DEF Remade, Sources
  <2> HIDE DEF e, d
  <2>3. LoadEntry(S, e) = A
    BY <2>1, <2>2 DEF LoadEntry, LoadFunction
  <2> QED
    BY <1>2, <1>3, <1>6, <1>7, <2>3 DEF Sources, e
<1>8. CASE c.type = "Type"
  <2>1. /\ e.key = "Type"
        /\ IF c.headers = <<>> THEN e.form = "pair" /\ e.a = "type" /\ e.b = c.what
           ELSE e.form = "map" /\ e.a = c.what /\ HeadersOf(e) = c.headers
    BY <1>8 DEF SaveCheck, SavedForm, SavedKey, Entry, HeadersOf, Sources
  <2>2. d = Named("Type", c.what, c.headers)
    BY <1>8 DEF Remade, Sources
  <2> HIDE DEF e, d
  <2>3. LoadEntry(S, e) = A
    BY <2>1, <2>2 DEF LoadEntry, LoadType, IsOneLiner
  <2> QED
    BY <1>2, <1>3, <1>6, <1>8, <2>3 DEF Sources, e
<1>9. CASE c.type = "StructMember"
  <2>1. /\ e.key = "StructMember" /\ e.form = "map" /\ e.a = c.what /\ e.b = c.of
        /\ e.headers = c.headers
    BY <1>9 DEF SaveCheck, SavedForm, Entry, Sources
  <2>2. d = Member(c.what, c.of, c.headers)
    BY <1>9 DEF Remade, Sources
  <2> HIDE DEF e, d
  <2>3. LoadEntry(S, e) = A
    BY <2>1, <2>2 DEF LoadEntry, LoadMember
  <2> QED
    BY <1>2, <1>3, <1>6, <1>9, <2>3 DEF Sources, e
<1>10. CASE c.type \in {"Library", "Alignment"}
  <2>1. e.key = c.type /\ e.a = c.what
    BY <1>10 DEF SaveCheck, SavedForm, Entry
  <2>2. d = Named(c.type, c.what, <<>>)
    BY <1>10 DEF Remade, Sources
  <2> HIDE DEF e, d
  <2>3. LoadEntry(S, e) = A
    BY <1>10, <2>1, <2>2 DEF LoadEntry, LoadName
  <2> QED
    BY <1>2, <1>3, <1>6, <1>10, <2>3 DEF Sources, e
<1>11. CASE c.type = "Include"
  <2>1. /\ e.key = "Include" /\ e.form = "map" /\ e.a = c.what /\ e.b = c.var[2]
        /\ FlagOf(e) = c.cpp
    BY <1>2, <1>5, <1>11 DEF SaveCheck, SavedForm, Entry, Sources, FlagOf
  <2>2. d = Check("Include", <<"HAVE_", c.var[2]>>, c.what, "", <<>>)
    BY <1>11 DEF Remade, Sources
  <2> HIDE DEF e, d
  <2>3. LoadEntry(S, e) = C
    BY <2>1, <2>2 DEF LoadEntry, LoadInclude
  <2> QED
    BY <1>2, <1>6, <1>11, <2>3 DEF Sources, e
<1>12. CASE c.type = "LibraryFunction"
  <2>1. e.key = "LibraryFunction" /\ e.a = c.what /\ e.b = c.of
    BY <1>12 DEF SaveCheck, SavedForm, Entry, Sources
  <2>2. d = [Named("LibraryFunction", c.what, <<>>) EXCEPT !.of = c.of]
    BY <1>12 DEF Remade, Sources
  <2> HIDE DEF e, d
  <2>3. LoadEntry(S, e) = A
    BY <2>1, <2>2 DEF LoadEntry, LoadLibraryFunction
  <2> QED
    BY <1>2, <1>3, <1>6, <1>12, <2>3 DEF Sources, e
<1>13. CASE c.type = "Symbol"
  <2>1. /\ e.key = "Symbol" /\ e.form = "map" /\ e.a = c.what /\ HeadersOf(e) = c.headers
        /\ e.flag = IF c.cpp THEN "true" ELSE ""
    BY <1>2, <1>4, <1>13 DEF SaveCheck, SavedForm, Entry, HeadersOf, Sources
  <2>2. d = Named("Symbol", c.what, c.headers)
    BY <1>13 DEF Remade, Sources
  <2> HIDE DEF e, d
  <2>3. IF c.cpp THEN LoadEntry(S, e) = C ELSE LoadEntry(S, e) = A
    BY <1>2, <2>1, <2>2 DEF LoadEntry, LoadSymbol, FlagOf
  <2> QED
    BY <1>2, <1>6, <1>13, <2>3 DEF Sources, e
<1>14. CASE c.type \in Sources
  <2>1. /\ e.key = c.type /\ e.form = "map" /\ e.a = c.var[2] /\ e.b = c.what
        /\ FlagOf(e) = c.invert /\ e.flag # ""
    BY <1>2, <1>5, <1>14 DEF SaveCheck, SavedForm, Entry, Sources, FlagOf
  <2>2. d = Check(c.type, <<"", c.var[2]>>, c.what, "", <<>>)
    BY <1>14 DEF Remade
  <2> HIDE DEF e, d
  <2>3. LoadEntry(S, e) = I
    BY <1>14, <2>1, <2>2 DEF LoadEntry, LoadSource, Sources
  <2> QED
    BY <1>3, <1>6, <1>14, <2>3 DEF Sources, e
<1> QED
  BY <1>2, <1>4, <1>7, <1>8, <1>9, <1>10, <1>11, <1>12, <1>13, <1>14, TypesAre DEF Sources

(* Declarations and symbols without a header become others.                *)
LEMMA ReloadsOthers ==
    ASSUME NEW M, NEW c \in CheckRecords, ~ReadBack(c), NEW S \in SUBSET (M \cup Others)
    PROVE  S \subseteq LoadEntry(S, SaveCheck(c)) /\ LoadEntry(S, SaveCheck(c)) \in SUBSET (M \cup Others)
<1> DEFINE e == SaveCheck(c)
<1>1. e \in Entries /\ HeadersOf(e) \in HeaderLists /\ e.a \in Words
  BY SaveCheckIn, HeadersOfIn, EntryFields
<1>2. c.cpp \in BOOLEAN
  BY CheckFields
<1>3. PICK o \in Others : LoadEntry(S, e) = AddCheck(S, o)
  <2>1. CASE c.type = "Decl"
    <3>1. e.key = "Decl"
      BY <2>1 DEF SaveCheck, SavedForm, Entry, Sources
    <3> HIDE DEF e
    <3>2. LoadEntry(S, e) = AddCheck(S, Named("Decl", e.a, HeadersOf(e)))
      BY <3>1 DEF LoadEntry, LoadDecl
    <3>3. Named("Decl", e.a, HeadersOf(e)) \in Others
      <4>1. "Decl" \in ToSet(Types)
        BY TypesAre
      <4> QED
        BY <1>1, <4>1, NamedIn DEF Others
    <3> QED
      BY <3>2, <3>3
  <2>2. CASE c.type = "Symbol" /\ c.headers = <<>> /\ ~c.cpp
    <3>1. e.key = "Symbol" /\ e.form = "pair" /\ e.a = "symbol"
      BY <2>2 DEF SaveCheck, SavedForm, SavedKey, Entry, Sources
    <3> HIDE DEF e
    <3>2. LoadEntry(S, e) = AddCheck(S, Named("Symbol", "symbol", HeadersOf(e)))
      BY <3>1 DEF LoadEntry, LoadSymbol
    <3>3. Named("Symbol", "symbol", HeadersOf(e)) \in Others
      <4>1. "Symbol" \in ToSet(Types) /\ "symbol" \in Words /\ "Symbol" \notin Sources
        BY TypesAre, WordsAre DEF Sources
      <4>2. /\ Named("Symbol", "symbol", HeadersOf(e)).var = <<"HAVE_", Stem["symbol"]>>
            /\ Named("Symbol", "symbol", HeadersOf(e)).what = "symbol"
        BY <4>1 DEF Named, Check, Prefix
      <4> QED
        BY <1>1, <4>1, <4>2, NamedIn DEF Others
    <3> QED
      BY <3>2, <3>3
  <2> QED
    BY <1>2, <2>1, <2>2 DEF ReadBack
<1>4. AddCheck(S, o) \in {S, S \cup {o}}
  BY DEF AddCheck
<1> QED
  BY <1>3, <1>4

(* The checks that are read back have identities of their own.             *)
LEMMA ReadBackApart ==
    ASSUME NEW R \in MadeSets, Rereadable(R) PROVE Apart({c \in R : ReadBack(c)})
<1> DEFINE M == {c \in R : ReadBack(c)}
<1>1. \A c, o \in M : Identity(c) = Identity(o) => c = o
  BY DEF MadeSets, CheckSets
<1>2. ASSUME NEW c \in M, NEW o \in Others, Identity(c) = Identity(o) PROVE FALSE
  <2>1. c \in CheckRecords /\ Made(c) /\ ReadBack(c) /\ c.type = o.type /\ c.var = o.var
    BY <1>2 DEF MadeSets, CheckSets, Identity
  <2>2. c.type = "Symbol" /\ c.var = <<"HAVE_", Stem["symbol"]>>
    BY <2>1 DEF Others, ReadBack
  <2>3. Fresh(c).var = c.var /\ Remade(c).var = <<"HAVE_", Stem[c.what]>>
    <3>1. Fresh(c).var = c.var
      BY <2>1 DEF Fresh, CheckRecords
    <3>2. Remade(c) = Named("Symbol", c.what, c.headers)
      BY <2>2 DEF Remade, Sources
    <3>3. Named("Symbol", c.what, c.headers).var = <<"HAVE_", Stem[c.what]>>
      BY DEF Named, Check, Prefix, Sources
    <3> QED
      BY <3>1, <3>2, <3>3
  <2>4. <<"HAVE_", Stem[c.what]>> = <<"HAVE_", Stem["symbol"]>>
    BY <2>1, <2>2, <2>3 DEF Made
  <2>5. Stem[c.what] = Stem["symbol"]
    BY <2>4
  <2> QED
    BY <2>1, <2>2, <2>5 DEF Rereadable
<1> HIDE DEF M
<1>3. Apart(M)
  BY <1>1, <1>2 DEF Apart
<1> QED
  BY <1>3 DEF M

(* The entries that are saved are those of the checks that are no default. *)
LEMMA SavedAre ==
    ASSUME NEW R \in MadeSets, NEW n, n = Cardinality({c \in R : ~c.default})
    PROVE  /\ n \in Nat /\ DOMAIN Save(R) = 1..n
           /\ \A i \in 1..n : \E c \in R : ~c.default /\ Save(R)[i] = SaveCheck(c)
           /\ \A c \in R : ~c.default => \E i \in 1..n : Save(R)[i] = SaveCheck(c)
<1> DEFINE T == {c \in R : ~c.default}
<1>1. T \in CheckSets
  BY SubsetIn DEF MadeSets
<1>2. Save(R) = [i \in DOMAIN Sorted(T) |-> SaveCheck(Sorted(T)[i])]
  BY DEF Save
<1>3. \A c : c \in T <=> c \in R /\ ~c.default
  OBVIOUS
<1> HIDE DEF T
<1>4. /\ n = Cardinality(T) /\ n \in Nat /\ DOMAIN Sorted(T) = 1..n
      /\ \A i \in 1..n : Sorted(T)[i] \in T
  BY <1>1, SortedIs DEF T
<1>5. \A c \in T : \E i \in 1..n : Sorted(T)[i] = c
  BY <1>1, <1>4, SortedOnto
<1>6. DOMAIN Save(R) = 1..n /\ \A i \in 1..n : Save(R)[i] = SaveCheck(Sorted(T)[i])
  BY <1>2, <1>4
<1> QED
  BY <1>3, <1>4, <1>5, <1>6

LEMMA SavedKeyIs ==
    ASSUME NEW c \in CheckRecords PROVE SaveCheck(c).key = c.type
BY DEF SaveCheck, Entry

(* Loading them gives each check that is saved.                            *)
LEMMA KeysBack ==
    ASSUME NEW R \in MadeSets, Rereadable(R), NEW M, M = {c \in R : ReadBack(c)}
    PROVE  /\ LoadKeys(Save(R)) \in SUBSET (M \cup Others)
           /\ \A c \in M : ~c.default => c \in LoadKeys(Save(R))
<1> DEFINE n == Cardinality({c \in R : ~c.default})
           entries == Save(R)
           F == M \cup Others
           Holding(c) == {S \in SUBSET F : c \in S}
<1>1. /\ n \in Nat /\ DOMAIN entries = 1..n
      /\ \A i \in 1..n : \E c \in R : ~c.default /\ entries[i] = SaveCheck(c)
      /\ \A c \in R : ~c.default => \E i \in 1..n : entries[i] = SaveCheck(c)
  BY SavedAre
<1>2. \A c \in R : c \in CheckRecords /\ Made(c)
  BY DEF MadeSets, CheckSets
<1>3. Apart(M)
  BY ReadBackApart
<1> HIDE DEF n, entries
<1>4. ASSUME NEW S \in SUBSET F, NEW i \in 1..n
      PROVE  S \subseteq LoadEntry(S, entries[i]) /\ LoadEntry(S, entries[i]) \in SUBSET F
  <2>1. PICK c \in R : ~c.default /\ entries[i] = SaveCheck(c)
    BY <1>1
  <2>2. CASE ReadBack(c)
    <3>1. c \in M
      BY <2>2
    <3>2. LoadEntry(S, entries[i]) = S \cup {c}
      BY <1>2, <1>3, <2>1, <2>2, <3>1, Reloads
    <3> QED
      BY <3>1, <3>2
  <2>3. CASE ~ReadBack(c)
    BY <1>2, <2>1, <2>3, ReloadsOthers
  <2> QED
    BY <2>2, <2>3
<1>5. \A t : \A S \in SUBSET F, i \in 1..n : LoadIfOf(S, entries[i], t) \in SUBSET F
  BY <1>4 DEF LoadIfOf
<1>6. \A c, t : \A S \in Holding(c), i \in 1..n : LoadIfOf(S, entries[i], t) \in Holding(c)
  BY <1>4 DEF LoadIfOf
<1>7. ASSUME NEW S \in SUBSET F, NEW t PROVE LoadKey(S, entries, t) \in SUBSET F
  <2> DEFINE A == SUBSET F
  <2>1. S \in A /\ \A U \in A, i \in 1..n : LoadIfOf(U, entries[i], t) \in A
    BY <1>5
  <2> HIDE DEF A
  <2>2. LoadKey(S, entries, t) \in A
    BY <1>1, <2>1, LoadKeyKeeps
  <2> QED
    BY <2>2 DEF A
<1>8. ASSUME NEW c, NEW S \in Holding(c), NEW t PROVE LoadKey(S, entries, t) \in Holding(c)
  <2> DEFINE A == Holding(c)
  <2>1. S \in A /\ \A U \in A, i \in 1..n : LoadIfOf(U, entries[i], t) \in A
    BY <1>6
  <2> HIDE DEF A
  <2>2. LoadKey(S, entries, t) \in A
    BY <1>1, <2>1, LoadKeyKeeps
  <2> QED
    BY <2>2 DEF A
<1>9. 14 \in Nat /\ DOMAIN LoadOrder = 1..14
  BY DEF LoadOrder
<1>10. LoadKeys(entries) \in SUBSET F
  <2> DEFINE A == SUBSET F
  <2>1. {} \in A /\ \A S \in A, i \in 1..14 : LoadKey(S, entries, LoadOrder[i]) \in A
    BY <1>7
  <2> HIDE DEF A
  <2>2. LoadKeys(entries) \in A
    BY <1>9, <2>1, LoadKeysKeep
  <2> QED
    BY <2>2 DEF A
<1>11. ASSUME NEW c \in M, ~c.default PROVE c \in LoadKeys(entries)
  <2>1. c \in CheckRecords /\ Made(c) /\ ReadBack(c) /\ c \in R
    BY <1>2
  <2>2. PICK i \in 1..n : entries[i] = SaveCheck(c)
    BY <1>1, <1>11, <2>1
  <2>3. PICK m \in 1..14 : LoadOrder[m] = c.type
    <3>1. c.type \in ToSet(Types)
      BY <2>1, CheckFields
    <3>2. /\ 1 \in 1..14 /\ 2 \in 1..14 /\ 3 \in 1..14 /\ 4 \in 1..14 /\ 5 \in 1..14
          /\ 6 \in 1..14 /\ 7 \in 1..14 /\ 8 \in 1..14 /\ 9 \in 1..14 /\ 10 \in 1..14
          /\ 11 \in 1..14 /\ 12 \in 1..14 /\ 13 \in 1..14 /\ 14 \in 1..14
      OBVIOUS
    <3>3. /\ LoadOrder[1] = "Function" /\ LoadOrder[2] = "Type" /\ LoadOrder[3] = "StructMember"
          /\ LoadOrder[4] = "Library" /\ LoadOrder[5] = "Alignment" /\ LoadOrder[6] = "Decl"
          /\ LoadOrder[7] = "Include" /\ LoadOrder[8] = "LibraryFunction"
          /\ LoadOrder[9] = "Symbol" /\ LoadOrder[10] = "CSourceCompiles"
          /\ LoadOrder[11] = "CSourceRuns" /\ LoadOrder[12] = "CXXSourceCompiles"
          /\ LoadOrder[13] = "CXXSourceRuns" /\ LoadOrder[14] = "Custom"
      BY DEF LoadOrder
    <3> QED
      BY <3>1, <3>2, <3>3, TypesAre
  <2> DEFINE T == SUBSET F
             A == Holding(c)
  <2>4. \A S \in T : LoadIfOf(S, entries[i], c.type) \in A
    <3> SUFFICES ASSUME NEW S \in T PROVE LoadIfOf(S, entries[i], c.type) \in A
      OBVIOUS
    <3>1. entries[i].key = c.type
      BY <2>1, <2>2, SavedKeyIs
    <3>2. LoadEntry(S, entries[i]) = S \cup {c}
      BY <1>3, <1>11, <2>1, <2>2, Reloads
    <3>3. LoadIfOf(S, entries[i], c.type) = S \cup {c}
      BY <3>1, <3>2 DEF LoadIfOf
    <3> QED
      BY <3>3
  <2>5. \A S \in T, j \in 1..n : LoadIfOf(S, entries[j], c.type) \in T
    BY <1>5
  <2>6. \A S \in A, j \in 1..n : LoadIfOf(S, entries[j], c.type) \in A
    BY <1>6
  <2>7. /\ {} \in T /\ A \in SUBSET T
        /\ \A S \in T, j \in 1..14 : LoadKey(S, entries, LoadOrder[j]) \in T
        /\ \A S \in A, j \in 1..14 : LoadKey(S, entries, LoadOrder[j]) \in A
    BY <1>7, <1>8
  <2>8. \A S \in A : c \in S
    OBVIOUS
  <2> HIDE DEF T, A
  <2>9. \A S \in T : LoadKey(S, entries, c.type) \in A
    BY <1>1, <2>4, <2>5, <2>6, <2>7, LoadKeyReaches
  <2>10. \A S \in T : LoadKey(S, entries, LoadOrder[m]) \in A
    BY <2>3, <2>9
  <2>11. LoadKeys(entries) \in A
    BY <1>9, <2>7, <2>10, LoadKeysReach, ZenonT(60)
  <2> QED
    BY <2>8, <2>11
<1> QED
  BY <1>10, <1>11 DEF entries

(* The checks that are added as defaults.                                  *)
DefaultsOf(entries) ==
    DefaultTypes \o (IF \E e \in ToSet(entries) : e.key = "Decl" THEN DeclChecks ELSE <<>>)
AsDefault(d) == [d EXCEPT !.default = TRUE]

LEMMA DefaultsAre ==
    ASSUME NEW R \in MadeSets, Rereadable(R), NEW n, n = Len(DefaultsOf(Save(R)))
    PROVE  /\ n \in Nat /\ DOMAIN DefaultsOf(Save(R)) = 1..n
           /\ \A i \in 1..n : DefaultsOf(Save(R))[i] \in Defaults(R)
           /\ \A d \in Defaults(R) : \E i \in 1..n : DefaultsOf(Save(R))[i] = d
           /\ \A d \in Defaults(R) : Identity(AsDefault(d)) = Identity(d) /\ ReadBack(AsDefault(d))
                                     /\ AsDefault(d) \in R
                                     /\ [AsDefault(d) EXCEPT !["default"] = TRUE] = AsDefault(d)
<1> DEFINE entries == Save(R)
           size == Named("Type", "size_t", <<>>)
           std == Named("Include", "stdlib.h", <<>>)
           headers == Check("CSourceCompiles", <<"", "STDC_HEADERS">>, "stdc", "", <<>>)
<1>1. /\ {size, std, headers} \subseteq CheckRecords
      /\ size.type = "Type" /\ std.type = "Include" /\ headers.type = "CSourceCompiles"
  <2>1. <<>> \in HeaderLists /\ {"Type", "Include", "CSourceCompiles"} \subseteq ToSet(Types)
    BY TypesAre DEF HeaderLists
  <2>2. size \in CheckRecords /\ size.type = "Type"
    BY <2>1, WordsAre, NamedIn
  <2>3. std \in CheckRecords /\ std.type = "Include"
    BY <2>1, WordsAre, NamedIn
  <2>4. headers \in CheckRecords
    BY <2>1, WordsAre, VariablesAre, CheckIn
  <2>5. headers.type = "CSourceCompiles"
    BY DEF Check
  <2> HIDE DEF size, std, headers
  <2> QED
    BY <2>2, <2>3, <2>4, <2>5
<1>2. DefaultTypes = <<size>> /\ DeclChecks = <<std, headers>>
  BY DEF DefaultTypes, DeclChecks
<1> HIDE DEF size, std, headers
<1>3. ToSet(DefaultTypes) = {size} /\ ToSet(DeclChecks) = {std, headers}
  BY <1>2 DEF ToSet
<1>4. (\E e \in ToSet(entries) : e.key = "Decl") <=> \E c \in R : c.type = "Decl"
  <2> DEFINE k == Cardinality({c \in R : ~c.default})
  <2>1. /\ k \in Nat /\ DOMAIN entries = 1..k
        /\ \A i \in 1..k : \E c \in R : ~c.default /\ entries[i] = SaveCheck(c)
        /\ \A c \in R : ~c.default => \E i \in 1..k : entries[i] = SaveCheck(c)
    BY SavedAre
  <2> HIDE DEF k, entries
  <2>2. \A c \in R : c \in CheckRecords /\ SaveCheck(c).key = c.type
    BY SavedKeyIs DEF MadeSets, CheckSets
  <2>3. \A c \in R : c.default => c.type # "Decl"
    <3> SUFFICES ASSUME NEW c \in R, c.default PROVE c.type # "Decl"
      OBVIOUS
    <3>1. PICK d \in Defaults(R) : c = [d EXCEPT !.default = TRUE]
      BY DEF Rereadable
    <3>2. d \in {size, std, headers}
      BY <1>3 DEF Defaults
    <3>3. c.type = d.type
      BY <1>1, <3>1, <3>2 DEF CheckRecords
    <3> QED
      BY <1>1, <3>2, <3>3
  <2>4. \A e : e \in ToSet(entries) <=> \E i \in 1..k : entries[i] = e
    BY <2>1 DEF ToSet
  <2>5. ASSUME NEW e \in ToSet(entries), e.key = "Decl" PROVE \E c \in R : c.type = "Decl"
    <3>1. PICK i \in 1..k : entries[i] = e
      BY <2>4
    <3>2. PICK c \in R : entries[i] = SaveCheck(c)
      BY <2>1
    <3> QED
      BY <2>2, <2>5, <3>1, <3>2
  <2>6. ASSUME NEW c \in R, c.type = "Decl" PROVE \E e \in ToSet(entries) : e.key = "Decl"
    <3>1. ~c.default
      BY <2>3, <2>6
    <3>2. PICK i \in 1..k : entries[i] = SaveCheck(c)
      BY <2>1, <3>1
    <3> QED
      BY <2>2, <2>4, <2>6, <3>2
  <2> QED
    BY <2>5, <2>6
<1>5. /\ n \in Nat /\ DOMAIN DefaultsOf(entries) = 1..n
      /\ \A i \in 1..n : DefaultsOf(entries)[i] \in Defaults(R)
      /\ \A d \in Defaults(R) : \E i \in 1..n : DefaultsOf(entries)[i] = d
  <2>1. CASE \E c \in R : c.type = "Decl"
    <3> DEFINE q == DefaultsOf(entries)
               x == <<size>>
               y == <<std, headers>>
               T == {size, std, headers}
    <3>1. q = x \o y
      BY <1>2, <1>4, <2>1, Zenon DEF DefaultsOf
    <3>2. Defaults(R) = {size, std, headers}
      <4>1. Defaults(R) = ToSet(DefaultTypes) \cup ToSet(DeclChecks)
        BY <2>1, Zenon DEF Defaults
      <4>2. {size} \cup {std, headers} = {size, std, headers}
        OBVIOUS
      <4> QED
        BY <1>3, <4>1, <4>2
    <3>3. /\ x \in Seq(T) /\ y \in Seq(T) /\ Len(x) = 1 /\ Len(y) = 2
          /\ x[1] = size /\ y[1] = std /\ y[2] = headers
      OBVIOUS
    <3>4. n = Len(q)
      OBVIOUS
    <3> HIDE DEF q, x, y, T
    <3>5. /\ q \in Seq(T) /\ Len(q) = 3
          /\ \A i \in 1..3 : q[i] = IF i <= 1 THEN x[i] ELSE y[i - 1]
      BY <3>1, <3>3, ConcatProperties, SMTT(30)
    <3>6. 1..3 = {1, 2, 3} /\ 2 - 1 = 1 /\ 3 - 1 = 2 /\ 1 <= 1 /\ ~(2 <= 1) /\ ~(3 <= 1)
      OBVIOUS
    <3>7. q[1] = size /\ q[2] = std /\ q[3] = headers /\ DOMAIN q = 1..3 /\ 3 \in Nat
      BY <3>3, <3>5, <3>6
    <3> QED
      BY <3>2, <3>4, <3>5, <3>6, <3>7 DEF q
  <2>2. CASE ~\E c \in R : c.type = "Decl"
    <3>1. DefaultsOf(entries) = <<size>> /\ Defaults(R) = {size}
      <4>1. DefaultsOf(entries) = DefaultTypes \o <<>>
        BY <1>4, <2>2, Zenon DEF DefaultsOf
      <4>2. <<size>> \o <<>> = <<size>>
        OBVIOUS
      <4>3. Defaults(R) = ToSet(DefaultTypes) \cup {}
        BY <2>2, Zenon DEF Defaults
      <4> QED
        BY <1>2, <1>3, <4>1, <4>2, <4>3
    <3>2. n = 1
      BY <3>1
    <3>3. 1..1 = {1}
      OBVIOUS
    <3> QED
      BY <3>1, <3>2, <3>3
  <2> QED
    BY <2>1, <2>2
<1>6. ASSUME NEW d \in Defaults(R)
      PROVE  /\ Identity(AsDefault(d)) = Identity(d) /\ ReadBack(AsDefault(d)) /\ AsDefault(d) \in R
             /\ [AsDefault(d) EXCEPT !["default"] = TRUE] = AsDefault(d)
  <2>1. d \in {size, std, headers}
    BY <1>3 DEF Defaults
  <2>2. d \in CheckRecords /\ d.type # "Decl" /\ d.type # "Symbol"
    BY <1>1, <2>1
  <2> DEFINE x == AsDefault(d)
  <2>3. x.type = d.type /\ x.var = d.var /\ x.headers = d.headers
    BY <2>2 DEF AsDefault, CheckRecords
  <2>4. [x EXCEPT !["default"] = TRUE] = x
    BY <2>2 DEF AsDefault, CheckRecords
  <2>5. x \in R
    BY DEF Rereadable, AsDefault
  <2> HIDE DEF x
  <2>6. Identity(x) = Identity(d) /\ ReadBack(x)
    BY <2>2, <2>3 DEF Identity, ReadBack
  <2> QED
    BY <2>4, <2>5, <2>6 DEF x
<1> QED
  BY <1>5, <1>6

(* What is read back of the checks of a project.                           *)
LEMMA LoadsBack ==
    ASSUME NEW R \in MadeSets, Rereadable(R)
    PROVE  {c \in R : ReadBack(c)}
             = {c \in Load(Save(R)) : ReadBack(c) /\ c.what \notin {"symbol"}}
<1> DEFINE M == {c \in R : ReadBack(c)}
           F == M \cup Others
           cs == DefaultsOf(Save(R))
           n == Len(cs)
           keys == LoadKeys(Save(R))
           all == Load(Save(R))
<1>1. keys \in SUBSET F /\ \A c \in M : ~c.default => c \in keys
  BY KeysBack
<1>2. Apart(M)
  BY ReadBackApart
<1>3. /\ n \in Nat /\ DOMAIN cs = 1..n
      /\ \A i \in 1..n : cs[i] \in Defaults(R)
      /\ \A d \in Defaults(R) : \E i \in 1..n : cs[i] = d
  BY DefaultsAre
<1>4. \A d \in Defaults(R) : /\ Identity(AsDefault(d)) = Identity(d) /\ AsDefault(d) \in M
                             /\ [AsDefault(d) EXCEPT !["default"] = TRUE] = AsDefault(d)
  BY DefaultsAre
<1>5. all = FoldLeft(AddDefault, keys, cs)
  BY DEF Load, AddDefaults, DefaultsOf
<1>6. \A c \in M : c.default => \E d \in Defaults(R) : c = AsDefault(d)
  BY DEF Rereadable, AsDefault
<1>7. /\ \A c \in M : ReadBack(c) /\ c.what # "symbol"
      /\ \A c \in Others : ReadBack(c) => c.what = "symbol"
  BY DEF Rereadable, Others, ReadBack
<1>8. M = {c \in R : ReadBack(c)}
  OBVIOUS
<1> HIDE DEF M, cs, n, keys, all
<1>9. ASSUME NEW S \in SUBSET F, NEW i \in 1..n PROVE AddDefault(S, cs[i]) = S \cup {AsDefault(cs[i])}
  <2> DEFINE d == cs[i]
             x == AsDefault(d)
  <2>1. /\ Identity(d) = Identity(x) /\ x \in M
        /\ [x EXCEPT !["default"] = TRUE] = x /\ [d EXCEPT !["default"] = TRUE] = x
    BY <1>3, <1>4 DEF AsDefault
  <2>2. AddDefault(S, d) = SetIn(S, d, "default", TRUE)
    BY DEF AddDefault
  <2> HIDE DEF d, x
  <2>5. S \in SUBSET (M \cup Others) /\ x \in M /\ Identity(d) = Identity(x)
    BY <2>1
  <2>4. \A field, v : [d EXCEPT ![field] = v] = x /\ [x EXCEPT ![field] = v] = x =>
                SetIn(S, d, field, v) = S \cup {x}
    BY <1>2, <2>5, Rejoins, Zenon
  <2>3. SetIn(S, d, "default", TRUE) = S \cup {x}
    BY <2>1, <2>4
  <2> QED
    BY <2>2, <2>3 DEF d, x
<1>10. \A i \in 1..n : AsDefault(cs[i]) \in F
  BY <1>3, <1>4
<1>11. \A S \in SUBSET F, i \in 1..n : AddDefault(S, cs[i]) \in SUBSET F
  BY <1>9, <1>10
<1>12. all \in SUBSET F
  <2> DEFINE T == SUBSET F
  <2>1. keys \in T /\ \A S \in T, i \in 1..n : AddDefault(S, cs[i]) \in T
    BY <1>1, <1>11
  <2> HIDE DEF T
  <2>2. all \in T
    BY <1>3, <1>5, <2>1, DefaultsKeep
  <2> QED
    BY <2>2 DEF T
<1>13. ASSUME NEW c \in M PROVE c \in all
  <2> DEFINE T == SUBSET F
             A == {S \in T : c \in S}
  <2>1. keys \in T /\ \A S \in T, i \in 1..n : AddDefault(S, cs[i]) \in T
    BY <1>1, <1>11
  <2>2. A \in SUBSET T /\ \A S \in A, i \in 1..n : AddDefault(S, cs[i]) \in A
    BY <1>9, <1>11
  <2>3. \A S \in A : c \in S
    OBVIOUS
  <2>4. CASE c.default
    <3>1. PICK m \in 1..n : AsDefault(cs[m]) = c
      BY <1>3, <1>6, <2>4
    <3>2. \A S \in T : AddDefault(S, cs[m]) \in A
      BY <1>9, <1>11, <3>1
    <3> HIDE DEF T, A
    <3>3. all \in A
      BY <1>3, <1>5, <2>1, <2>2, <3>2, DefaultsReach
    <3> QED
      BY <2>3, <3>3
  <2>5. CASE ~c.default
    <3>1. keys \in A
      BY <1>1, <2>5
    <3> HIDE DEF T, A
    <3>2. all \in A
      BY <1>3, <1>5, <2>2, <3>1, DefaultsKeep
    <3> QED
      BY <2>3, <3>2
  <2> QED
    BY <2>4, <2>5
<1>14. M = {c \in all : ReadBack(c) /\ c.what \notin {"symbol"}}
  BY <1>7, <1>12, <1>13
<1> QED
  BY <1>8, <1>14 DEF all

(* What the parallel checker reads back from checks.yml is what was asked, *)
(* if no check is named symbol and the default ones are the ones loading   *)
(* adds: for any entries, whatever forms they are saved in.                *)
THEOREM CheckerCorrect == Spec /\ RereadableProjects => []CheckerAsksSame
<1>1. Init => <<setup, world>> \in Cases
  BY InitIInv DEF IInv
<1>2. ASSUME <<setup, world>> \in Cases, RereadableProjects PROVE CheckerAsksSame
  <2> SUFFICES ASSUME NEW p \in Procs
               PROVE  {c \in Root(p) : ReadBack(c)} =
                          {c \in ChecksFile(p) : ReadBack(c) /\ c.what \notin {"symbol"}}
    BY DEF CheckerAsksSame
  <2>1. setup \in DOMAIN Setups
    BY <1>2, ChecksAssumption
  <2>2. Root(p) \in MadeSets /\ ChecksFile(p) = Load(Save(Root(p)))
    BY <2>1, RootsIn DEF Root, ChecksFile
  <2>3. Rereadable(Root(p))
    BY <1>2 DEF RereadableProjects
  <2> QED
    BY <2>2, <2>3, LoadsBack
<1>3. /\ <<setup, world>> \in Cases /\ RereadableProjects /\ [Next]_vars
      => (<<setup, world>> \in Cases)' /\ RereadableProjects'
  <2>1. [Next]_vars => setup' = setup /\ world' = world
    BY ProjectsStay
  <2>2. setup' = setup => RereadableProjects' = RereadableProjects
    BY DEF RereadableProjects, Root
  <2> QED
    BY <2>1, <2>2
<1>4. <<setup, world>> \in Cases /\ RereadableProjects => CheckerAsksSame
  BY <1>2
<1> QED
  BY <1>1, <1>3, <1>4, PTL DEF Spec
=============================================================================

---------------------------- MODULE BuildsProofs ----------------------------
(***************************************************************************)
(* Proofs about the builds cppan drives itself, for any commands, machine, *)
(* upgrades, processes and bounds.                                         *)
(***************************************************************************)
EXTENDS Builds, SequenceTheorems, FiniteSetTheorems, WellFoundedInduction, TLAPS

USE BuildsAssumption

-----------------------------------------------------------------------------
(* The inductive invariant.                                                *)

IsFunction(f) == f = [x \in DOMAIN f |-> f[x]]

(* The state of a process is a record of its kind.                         *)
IsBuild(t) ==
    t = [stage |-> t.stage, s |-> t.s, dirs |-> t.dirs, env |-> t.env, spec |-> t.spec,
         name |-> t.name, db |-> t.db, config |-> t.config, found |-> t.found,
         fresh |-> t.fresh, again |-> t.again, swept |-> t.swept]
Cleaning == {"clean", "clean_rows"}
IsClean(t) == t = [stage |-> t.stage, clean |-> t.clean, storage |-> t.storage]
Shaped(t) ==
    \/ t.stage \in Building /\ IsBuild(t)
    \/ t.stage \in Cleaning /\ IsClean(t)
    \/ t = Idle

(* What a build knows on machine m: its settings are those of its command; *)
(* what it found is what CMake says; what it looked up was said by CMake   *)
(* to somebody with the same hash, before or after an upgrade.             *)
Said(hash, config, m) ==
    \E c \in Requested : \E i \in 1..m : hash = HashOf(c) /\ config = Answers[<<c, i>>]
Filled(k, m) ==
    \E c \in Requested : \E i \in 1..m : k[2] = Answers[<<c, i>>] /\ k[3] = Systems[i].cmake
Found == {"copy", "copying", "register", "again"}
Known(t, m) ==
    t.stage \in Building =>
        /\ t.spec \in Requested
        /\ t.s = LoadSettings(t.spec).s /\ t.env = t.spec.env
        /\ t.stage \in Found => t.found = Answers[<<t.spec, m>>]
        /\ t.stage = "find" => Said(HashOf(t.spec), t.config, m)

(* A row is what CMake said to somebody with the hash; a directory was     *)
(* filled by the CMake whose version it names.                             *)
Recorded ==
    /\ IsFunction(rows)
    /\ \A k \in DOMAIN rows : Said(k[2], rows[k], system)
Stored ==
    /\ IsFunction(cfg)
    /\ \A k \in DOMAIN cfg : cfg[k] \in {"part", "whole"} /\ Filled(k, system)

Base ==
    /\ system \in 1..Len(Systems)
    /\ proc = [p \in Procs |-> proc[p]]
    /\ \A p \in Procs : Shaped(proc[p]) /\ Known(proc[p], system)
    /\ Recorded
    /\ Stored

-----------------------------------------------------------------------------
(* Functions with one argument more, and with fewer.                       *)
LEMMA WithFact ==
    ASSUME NEW f, NEW x, NEW y
    PROVE  /\ IsFunction(With(f, x, y))
           /\ DOMAIN With(f, x, y) = (DOMAIN f) \cup {x}
           /\ With(f, x, y)[x] = y
           /\ \A z \in (DOMAIN f) \ {x} : With(f, x, y)[z] = f[z]
BY DEF With, IsFunction

LEMMA WithoutFact ==
    ASSUME NEW f, NEW D
    PROVE  /\ IsFunction(Without(f, D))
           /\ DOMAIN Without(f, D) = (DOMAIN f) \ D
           /\ \A z \in (DOMAIN f) \ D : Without(f, D)[z] = f[z]
BY DEF Without, IsFunction

(* The machine is one of the machines.                                     *)
LEMMA Machine == Len(Systems) \in Nat /\ Len(Systems) >= 1 /\ DOMAIN Systems = 1..Len(Systems)
<1>1. Len(Systems) \in Nat /\ DOMAIN Systems = 1..Len(Systems)
  BY DEF ToSet
<1>2. Len(Systems) # 0
  BY EmptySeq
<1> QED
  BY <1>1, <1>2

-----------------------------------------------------------------------------
(* The moves of one process.                                               *)
Moves(p) ==
    /\ proc' = [proc EXCEPT ![p] = proc'[p]]
    /\ Shaped(proc'[p]) /\ Known(proc'[p], system)


(* A build that goes on stays the same build.                              *)
Same(t, u) ==
    /\ IsBuild(u)
    /\ u.s = t.s /\ u.dirs = t.dirs /\ u.env = t.env /\ u.spec = t.spec
    /\ u.name = t.name /\ u.db = t.db /\ u.swept = t.swept

LEMMA AtStage ==
    ASSUME Base, NEW p \in Procs, proc[p].stage \in Building
    PROVE  IsBuild(proc[p]) /\ Known(proc[p], system)
BY DEF Base, Shaped, Idle, Building, Cleaning

LEMMA GotoSame ==
    ASSUME Base, NEW p \in Procs, proc[p].stage \in Building, NEW stage, Goto(p, stage)
    PROVE  /\ proc' = [proc EXCEPT ![p] = proc'[p]]
           /\ Same(proc[p], proc'[p])
           /\ proc'[p].stage = stage
           /\ proc'[p].config = proc[p].config /\ proc'[p].found = proc[p].found
           /\ proc'[p].again = proc[p].again /\ proc'[p].fresh = proc[p].fresh
BY AtStage DEF Goto, Base, Same, IsBuild

(* The process ends.                                                       *)
LEMMA EndMoves ==
    ASSUME Base, NEW p \in Procs, proc' = [proc EXCEPT ![p] = Idle]
    PROVE  Moves(p)
BY DEF Base, Moves, Shaped, Idle, Known, Building

LEMMA StartMoves == ASSUME Base, NEW p \in Procs, Start(p) PROVE Moves(p)
BY DEF Base, Start, Begin, Moves, Shaped, IsBuild, Known, Building, Found, Requested

LEMMA LookupMoves == ASSUME Base, NEW p \in Procs, Lookup(p) PROVE Moves(p)
<1> DEFINE t == proc[p]
           u == proc'[p]
<1>1. t.stage = "lookup" /\ t.stage \in Building
  BY DEF Lookup, Stays, Building
<1>2. IsBuild(t) /\ Known(t, system)
  BY <1>1, AtStage
<1>3. CASE RowOf(p) \in DOMAIN rows
  <2>1. proc' = [proc EXCEPT ![p].stage = "find", ![p].config = rows[RowOf(p)]]
    BY <1>3 DEF Lookup
  <2>2. /\ proc' = [proc EXCEPT ![p] = u] /\ Same(t, u)
        /\ u.stage = "find" /\ u.config = rows[RowOf(p)]
    BY <1>2, <2>1 DEF Base, Same, IsBuild
  <2>3. Said(HashOf(t.spec), rows[RowOf(p)], system)
    BY <1>1, <1>2, <1>3 DEF Base, Recorded, Known, RowOf, Hash, HashOf
  <2> QED
    BY <1>1, <1>2, <2>2, <2>3 DEF Moves, Shaped, Known, Same, Found, Building
<1>4. CASE RowOf(p) \notin DOMAIN rows
  <2>1. Goto(p, "test")
    BY <1>4 DEF Lookup
  <2> QED
    BY <1>1, <1>2, <2>1, GotoSame DEF Moves, Shaped, Known, Same, Found, Building
<1> QED
  BY <1>3, <1>4

LEMMA TestRunMoves == ASSUME Base, NEW p \in Procs, TestRun(p) PROVE Moves(p)
<1> DEFINE t == proc[p]
           u == proc'[p]
           says == ConfigOf(t.s, t.env, Systems[system])
<1>1. t.stage = "test" /\ t.stage \in Building
  BY DEF TestRun, Stays, Building
<1>2. IsBuild(t) /\ Known(t, system)
  BY <1>1, AtStage
<1>3. CASE proc' = [proc EXCEPT ![p].stage = "copy", ![p].found = says]
  <2>1. /\ proc' = [proc EXCEPT ![p] = u] /\ Same(t, u)
        /\ u.stage = "copy" /\ u.found = says
    BY <1>2, <1>3 DEF Base, Same, IsBuild
  <2>2. says = Answers[<<t.spec, system>>]
    BY <1>1, <1>2, Machine DEF Known, Answers, Requests, Base
  <2> QED
    BY <1>1, <1>2, <2>1, <2>2 DEF Moves, Shaped, Known, Same, Found, Building
<1>4. CASE proc' = [proc EXCEPT ![p] = Idle]
  BY <1>4, EndMoves
<1> QED
  BY <1>3, <1>4 DEF TestRun

LEMMA CopyStartMoves == ASSUME Base, NEW p \in Procs, CopyStart(p) PROVE Moves(p)
<1>1. proc[p].stage = "copy" /\ proc[p].stage \in Building /\ Goto(p, "copying")
  BY DEF CopyStart, Stays, Building
<1> QED
  BY <1>1, AtStage, GotoSame DEF Moves, Shaped, Known, Same, Found, Building

LEMMA CopyEndMoves == ASSUME Base, NEW p \in Procs, CopyEnd(p) PROVE Moves(p)
<1>1. proc[p].stage = "copying" /\ proc[p].stage \in Building
  BY DEF CopyEnd, Stays, Building
<1>2. CASE proc' = [proc EXCEPT ![p] = Idle]
  BY <1>2, EndMoves
<1>3. ASSUME NEW stage \in {"again", "register"}, Goto(p, stage) PROVE Moves(p)
  BY <1>1, <1>3, AtStage, GotoSame DEF Moves, Shaped, Known, Same, Found, Building
<1> QED
  BY <1>2, <1>3 DEF CopyEnd

LEMMA RegisterMoves == ASSUME Base, NEW p \in Procs, Register(p) PROVE Moves(p)
<1> DEFINE t == proc[p]
           u == proc'[p]
<1>1. /\ t.stage = "register" /\ t.stage \in Building /\ t.stage \in Found
      /\ proc' = [proc EXCEPT ![p].stage = "find", ![p].config = t.found]
  BY DEF Register, Stays, Building, Found
<1>2. IsBuild(t) /\ Known(t, system)
  BY <1>1, AtStage
<1>3. /\ proc' = [proc EXCEPT ![p] = u] /\ Same(t, u)
      /\ u.stage = "find" /\ u.config = t.found
  BY <1>1, <1>2 DEF Base, Same, IsBuild
<1>4. t.spec \in Requested /\ t.found = Answers[<<t.spec, system>>] /\ system \in 1..system
  BY <1>1, <1>2 DEF Known, Base
<1>5. Said(HashOf(t.spec), t.found, system)
  BY <1>4 DEF Said
<1> QED
  BY <1>1, <1>2, <1>3, <1>5 DEF Moves, Shaped, Known, Same, Found, Building

LEMMA FindMoves == ASSUME Base, NEW p \in Procs, Find(p) PROVE Moves(p)
<1> DEFINE t == proc[p]
           u == proc'[p]
<1>1. /\ t.stage = "find" /\ t.stage \in Building
  BY DEF Find, Stays, Building
<1>2. IsBuild(t) /\ Known(t, system)
  BY <1>1, AtStage
<1>3. PICK stage \in {"seed", "test"} :
         proc' = [proc EXCEPT ![p].stage = stage, ![p].again = TRUE]
  BY DEF Find
<1>4. proc' = [proc EXCEPT ![p] = u] /\ Same(t, u) /\ u.stage = stage
  BY <1>2, <1>3 DEF Base, Same, IsBuild
<1> QED
  BY <1>1, <1>2, <1>4 DEF Moves, Shaped, Known, Same, Found, Building

LEMMA AgainMoves == ASSUME Base, NEW p \in Procs, Again(p) PROVE Moves(p)
<1> DEFINE t == proc[p]
           u == proc'[p]
<1>1. t.stage = "again" /\ t.stage \in Building
  BY DEF Again, Stays, Building
<1>2. IsBuild(t) /\ Known(t, system)
  BY <1>1, AtStage
<1>3. CASE t.found # t.config
  <2>1. proc' = [proc EXCEPT ![p].stage = "check", ![p].config = t.found, ![p].fresh = TRUE]
    BY <1>3 DEF Again
  <2>2. proc' = [proc EXCEPT ![p] = u] /\ Same(t, u) /\ u.stage = "check"
    BY <1>2, <2>1 DEF Base, Same, IsBuild
  <2> QED
    BY <1>1, <1>2, <2>2 DEF Moves, Shaped, Known, Same, Found, Building
<1>4. CASE t.found = t.config
  <2>1. Goto(p, "check")
    BY <1>4 DEF Again
  <2> QED
    BY <1>1, <1>2, <2>1, GotoSame DEF Moves, Shaped, Known, Same, Found, Building
<1> QED
  BY <1>3, <1>4

(* From the check to the end nothing new is learnt.                        *)
LEMMA LateMoves ==
    ASSUME Base, NEW p \in Procs,
           proc[p].stage \in Building, NEW stage \in Building \ (Found \cup {"find"}),
           Goto(p, stage)
    PROVE  Moves(p)
BY AtStage, GotoSame DEF Moves, Shaped, Known, Same, Found, Building

LEMMA SeedEndMoves == ASSUME Base, NEW p \in Procs, SeedEnd(p) PROVE Moves(p)
<1>1. CASE proc' = [proc EXCEPT ![p] = Idle]
  BY <1>1, EndMoves
<1>2. CASE Goto(p, "print")
  BY <1>2, LateMoves DEF SeedEnd, Stays, Building, Found
<1> QED
  BY <1>1, <1>2 DEF SeedEnd

LEMMA LaterMoves ==
    ASSUME Base, NEW p \in Procs
    PROVE  Check(p) \/ SeedStart(p) \/ PrepareBuild(p) \/ Generate(p) \/ Build(p) => Moves(p)
<1>1. ASSUME Check(p) PROVE Moves(p)
  BY <1>1, LateMoves DEF Check, Stays, Building, Found
<1>2. ASSUME SeedStart(p) PROVE Moves(p)
  BY <1>2, LateMoves DEF SeedStart, Stays, Building, Found
<1>3. ASSUME PrepareBuild(p) PROVE Moves(p)
  BY <1>3, LateMoves DEF PrepareBuild, Stays, Building, Found
<1>4. ASSUME Generate(p) PROVE Moves(p)
  BY <1>4, LateMoves DEF Generate, Stays, Building, Found
<1>5. ASSUME Build(p) PROVE Moves(p)
  BY <1>5, LateMoves DEF Build, Stays, Building, Found
<1> QED
  BY <1>1, <1>2, <1>3, <1>4, <1>5

LEMMA StartCleanMoves == ASSUME Base, NEW p \in Procs, StartClean(p) PROVE Moves(p)
BY DEF Base, StartClean, Begin, Moves, Shaped, IsClean, Cleaning, Known, Building

(* All of them but the clean of the directories, which the others notice.  *)
Acts(p) ==
    \/ Start(p) \/ Lookup(p) \/ TestRun(p) \/ CopyStart(p) \/ CopyEnd(p) \/ Register(p)
    \/ Find(p) \/ Again(p) \/ Check(p) \/ SeedStart(p) \/ SeedEnd(p)
    \/ PrepareBuild(p) \/ Generate(p) \/ Build(p) \/ End(p)
    \/ StartClean(p) \/ CleanRows(p) \/ Kill(p)

LEMMA ActsMove == ASSUME Base, NEW p \in Procs, Acts(p) PROVE Moves(p)
<1>1. ASSUME End(p) \/ CleanRows(p) \/ Kill(p) PROVE Moves(p)
  BY <1>1, EndMoves DEF End, CleanRows, Kill
<1> QED
  BY <1>1, StartMoves, LookupMoves, TestRunMoves, CopyStartMoves, CopyEndMoves,
     RegisterMoves, FindMoves, AgainMoves, SeedEndMoves, LaterMoves, StartCleanMoves DEF Acts


(* The clean of the directories.                                           *)
LEMMA SweepMoves ==
    ASSUME Base, NEW p \in Procs, CleanDirectories(p)
    PROVE  /\ proc' = [q \in Procs |-> proc'[q]]
           /\ \A q \in Procs : Shaped(proc'[q]) /\ Known(proc'[q], system)
           /\ \A q \in Procs \ {p} :
                 \/ proc'[q] = proc[q] /\ proc[q].stage \notin Building
                 \/ /\ proc[q].stage \in Building /\ proc'[q] = [proc[q] EXCEPT !.swept = TRUE]
<1>1. proc' = [q \in Procs |-> proc'[q]]
  BY DEF CleanDirectories
<1>2. proc'[p] = [proc[p] EXCEPT !.stage = "clean_rows"] /\ proc[p].stage = "clean"
  <2>1. proc[p].stage = "clean"
    BY DEF CleanDirectories, Stays
  <2>2. proc'[p] = [proc[p] EXCEPT !.stage = "clean_rows"]
    BY DEF CleanDirectories
  <2> QED
    BY <2>1, <2>2
<1>3. Shaped(proc'[p]) /\ Known(proc'[p], system)
  <2>1. IsClean(proc[p])
    BY <1>2 DEF Base, Shaped, Idle, Building
  <2>2. IsClean(proc'[p]) /\ proc'[p].stage = "clean_rows"
    BY <1>2, <2>1 DEF IsClean
  <2> QED
    BY <2>2 DEF Shaped, Known, Cleaning, Building
<1>4. ASSUME NEW q \in Procs \ {p}
      PROVE  /\ Shaped(proc'[q]) /\ Known(proc'[q], system)
             /\ \/ proc'[q] = proc[q] /\ proc[q].stage \notin Building
                \/ /\ proc[q].stage \in Building /\ proc'[q] = [proc[q] EXCEPT !.swept = TRUE]
  <2>1. CASE proc[q].stage \in {"idle", "clean", "clean_rows"}
    <3>1. proc'[q] = proc[q]
      BY <2>1 DEF CleanDirectories
    <3> QED
      BY <2>1, <3>1 DEF Base, Building
  <2>2. CASE proc[q].stage \notin {"idle", "clean", "clean_rows"}
    <3>1. proc'[q] = [proc[q] EXCEPT !.swept = TRUE]
      BY <2>2 DEF CleanDirectories
    <3>2. proc[q].stage \in Building
      BY <2>2 DEF Base, Shaped, Idle, Cleaning
    <3>3. IsBuild(proc[q]) /\ Known(proc[q], system)
      BY <3>2, AtStage
    <3>4. /\ IsBuild(proc'[q]) /\ proc'[q].stage = proc[q].stage
          /\ proc'[q].s = proc[q].s /\ proc'[q].env = proc[q].env
          /\ proc'[q].spec = proc[q].spec
          /\ proc'[q].config = proc[q].config /\ proc'[q].found = proc[q].found
      BY <3>1, <3>3 DEF IsBuild
    <3> QED
      BY <3>1, <3>2, <3>3, <3>4 DEF Shaped, Known
  <2> QED
    BY <2>1, <2>2
<1> QED
  BY <1>1, <1>3, <1>4

-----------------------------------------------------------------------------
(* The table and the directories.                                          *)
Wrote(p) ==
    \/ UNCHANGED rows
    \/ Stays(p, "register") /\ AddConfigHash(p)
    \/ Stays(p, "again") /\ AddConfigHash(p)
    \/ \E D : rows' = Without(rows, D)

LEMMA RowsStep ==
    ASSUME Base, NEW p \in Procs, Wrote(p), UNCHANGED system
    PROVE  Recorded'
<1>1. CASE UNCHANGED rows
  BY <1>1 DEF Base, Recorded
<1>2. ASSUME NEW D, rows' = Without(rows, D) PROVE Recorded'
  <2>1. IsFunction(rows')
    BY <1>2, WithoutFact
  <2>2. DOMAIN rows' \subseteq DOMAIN rows /\ \A k \in DOMAIN rows' : rows'[k] = rows[k]
    BY <1>2 DEF Without
  <2> QED
    BY <2>1, <2>2 DEF Base, Recorded
<1>3. ASSUME proc[p].stage \in {"register", "again"}, AddConfigHash(p) PROVE Recorded'
  <2> DEFINE t == proc[p]
  <2>1. Known(t, system) /\ t.stage \in Building /\ t.stage \in Found
    BY <1>3, AtStage DEF Building, Found
  <2>2. /\ t.spec \in Requested /\ t.found = Answers[<<t.spec, system>>]
        /\ RowOf(p)[2] = HashOf(t.spec)
        /\ system \in 1..system
    BY <2>1 DEF Known, RowOf, Hash, HashOf, Base
  <2>6. Said(RowOf(p)[2], t.found, system)
    BY <2>2 DEF Said
  <2>3. rows' = With(rows, RowOf(p), t.found)
    BY <1>3 DEF AddConfigHash
  <2>4. IsFunction(rows')
    BY <2>3, WithFact
  <2>7. /\ DOMAIN rows' = (DOMAIN rows) \cup {RowOf(p)}
        /\ rows'[RowOf(p)] = t.found
        /\ \A k \in DOMAIN rows : k # RowOf(p) => rows'[k] = rows[k]
    BY <2>3 DEF With
  <2>5. ASSUME NEW k \in DOMAIN rows'
        PROVE  Said(k[2], rows'[k], system')
    <3>1. CASE k = RowOf(p)
      BY <2>6, <2>7, <3>1
    <3>2. CASE k # RowOf(p)
      BY <2>7, <3>2 DEF Base, Recorded
    <3> QED
      BY <3>1, <3>2
  <2> QED
    BY <2>4, <2>5 DEF Recorded
<1> QED
  BY <1>1, <1>2, <1>3 DEF Wrote, Stays

Changed(p) ==
    \/ UNCHANGED cfg
    \/ proc[p].stage \in {"copy", "copying"} /\ cfg' = With(cfg, FoundDirectory(p), "part")
    \/ cfg' = [cfg EXCEPT ![FoundDirectory(p)] = "whole"]
    \/ \E D : cfg' = Without(cfg, D)

LEMMA CfgStep ==
    ASSUME Base, NEW p \in Procs, Changed(p), UNCHANGED system
    PROVE  Stored'
<1>1. CASE UNCHANGED cfg
  BY <1>1 DEF Base, Stored
<1>2. ASSUME NEW D, cfg' = Without(cfg, D) PROVE Stored'
  <2>1. IsFunction(cfg')
    BY <1>2, WithoutFact
  <2>2. DOMAIN cfg' \subseteq DOMAIN cfg /\ \A k \in DOMAIN cfg' : cfg'[k] = cfg[k]
    BY <1>2 DEF Without
  <2> QED
    BY <2>1, <2>2 DEF Base, Stored
<1>3. CASE cfg' = [cfg EXCEPT ![FoundDirectory(p)] = "whole"]
  BY <1>3 DEF Base, Stored, IsFunction
<1>4. ASSUME proc[p].stage \in {"copy", "copying"}, cfg' = With(cfg, FoundDirectory(p), "part")
      PROVE  Stored'
  <2> DEFINE t == proc[p]
  <2>1. Known(t, system) /\ t.stage \in Building /\ t.stage \in Found
    BY <1>4, AtStage DEF Building, Found
  <2>2. /\ t.spec \in Requested /\ system \in 1..system
        /\ FoundDirectory(p)[2] = Answers[<<t.spec, system>>]
        /\ FoundDirectory(p)[3] = Systems[system].cmake
    BY <2>1 DEF Known, FoundDirectory, Source, Version, Base
  <2>5. Filled(FoundDirectory(p), system)
    BY <2>2 DEF Filled
  <2>3. IsFunction(cfg')
    BY <1>4, WithFact
  <2>6. /\ DOMAIN cfg' = (DOMAIN cfg) \cup {FoundDirectory(p)}
        /\ cfg'[FoundDirectory(p)] = "part"
        /\ \A k \in DOMAIN cfg : k # FoundDirectory(p) => cfg'[k] = cfg[k]
    BY <1>4 DEF With
  <2>4. ASSUME NEW k \in DOMAIN cfg'
        PROVE  cfg'[k] \in {"part", "whole"} /\ Filled(k, system')
    <3>1. CASE k = FoundDirectory(p)
      BY <2>5, <2>6, <3>1
    <3>2. CASE k # FoundDirectory(p)
      BY <2>6, <3>2 DEF Base, Stored
    <3> QED
      BY <3>1, <3>2
  <2> QED
    BY <2>3, <2>4 DEF Stored
<1> QED
  BY <1>1, <1>2, <1>3, <1>4 DEF Changed

-----------------------------------------------------------------------------
(* The base of everything else.                                            *)
LEMMA BaseInit == Init => Base
BY Machine DEF Init, Base, Shaped, Known, Idle, Building, Recorded, Stored, IsFunction

LEMMA UpgradeStep == ASSUME Base, Upgrade PROVE Base'
<1>1. /\ system' = system + 1 /\ system' \in 1..Len(Systems)
      /\ UNCHANGED <<rows, cfg, tree, proc, count>>
  BY Machine DEF Upgrade, Base
<1>2. \A p \in Procs : Known(proc'[p], system')
  BY <1>1 DEF Upgrade, Stays, Known, Building
<1>3. \A i \in 1..system : i \in 1..system'
  BY <1>1 DEF Base
<1>4. Recorded' /\ Stored'
  <2>1. \A h, c : Said(h, c, system) => Said(h, c, system')
    BY <1>3 DEF Said
  <2>2. \A k : Filled(k, system) => Filled(k, system')
    BY <1>3 DEF Filled
  <2> QED
    BY <1>1, <2>1, <2>2 DEF Base, Recorded, Stored
<1> QED
  BY <1>1, <1>2, <1>4 DEF Base

LEMMA ActsWrite ==
    ASSUME Base, NEW p \in Procs, Acts(p) \/ CleanDirectories(p)
    PROVE  Wrote(p) /\ Changed(p) /\ UNCHANGED system
BY DEF Acts, Wrote, Changed, Start, Begin, Lookup, TestRun, CopyStart, CopyEnd, Register, Find,
       Again, Check, SeedStart, SeedEnd, PrepareBuild, Generate, Build, End, StartClean,
       CleanDirectories, CleanRows, Kill, Stays

LEMMA BaseStep == Base /\ [Next]_vars => Base'
<1> SUFFICES ASSUME Base, [Next]_vars PROVE Base'
  OBVIOUS
<1>1. CASE Upgrade
  BY <1>1, UpgradeStep
<1>2. CASE UNCHANGED vars
  BY <1>2 DEF vars, Base, Recorded, Stored
<1>3. ASSUME NEW p \in Procs, Acts(p) PROVE Base'
  <2>1. Moves(p) /\ Recorded' /\ Stored' /\ UNCHANGED system
    BY <1>3, ActsMove, ActsWrite, RowsStep, CfgStep
  <2> QED
    BY <2>1 DEF Moves, Base
<1>4. ASSUME NEW p \in Procs, CleanDirectories(p) PROVE Base'
  <2>1. Recorded' /\ Stored' /\ UNCHANGED system
    BY <1>4, ActsWrite, RowsStep, CfgStep
  <2> QED
    BY <1>4, <2>1, SweepMoves DEF Base
<1> QED
  BY <1>1, <1>2, <1>3, <1>4 DEF Next, Acts

LEMMA BaseAlways == Spec => []Base
BY BaseInit, BaseStep, PTL DEF Spec

-----------------------------------------------------------------------------
(* Nothing is missing that nobody removed.                                 *)
Kept(t, dirs, m) ==
    t.stage \in Building /\ ~t.swept =>
        /\ t.stage = "again" => <<t.dirs.storage, t.found, Systems[m].cmake>> \in dirs
        /\ t.stage = "check" => <<t.dirs.storage, t.config, Systems[m].cmake>> \in dirs
        /\ t.stage # "missing"
Noticed == \A p \in Procs : Kept(proc[p], DOMAIN cfg, system)

(* The steps after which the directory must be there.                      *)
LEMMA OtherSteps ==
    ASSUME Base, NEW p \in Procs, Acts(p)
    PROVE  \/ CopyEnd(p) \/ Again(p) \/ Check(p)
           \/ proc'[p].stage \notin {"again", "check", "missing"}
<1>1. proc = [q \in Procs |-> proc[q]]
  BY DEF Base
<1>2. ASSUME proc[p].stage \in Building PROVE IsBuild(proc[p])
  BY <1>2, AtStage
<1>3. ASSUME Start(p) \/ StartClean(p) PROVE proc'[p].stage \notin {"again", "check", "missing"}
  BY <1>1, <1>3 DEF Start, StartClean, Begin
<1>4. ASSUME proc' = [proc EXCEPT ![p] = Idle]
      PROVE  proc'[p].stage \notin {"again", "check", "missing"}
  BY <1>1, <1>4 DEF Idle
<1>5. ASSUME NEW stage, stage \notin {"again", "check", "missing"}, proc[p].stage \in Building,
             Goto(p, stage)
      PROVE  proc'[p].stage \notin {"again", "check", "missing"}
  BY <1>1, <1>2, <1>5 DEF Goto, IsBuild
<1>6. ASSUME Lookup(p) PROVE proc'[p].stage \notin {"again", "check", "missing"}
  BY <1>1, <1>2, <1>5, <1>6 DEF Lookup, Stays, Building, IsBuild
<1>7. ASSUME TestRun(p) PROVE proc'[p].stage \notin {"again", "check", "missing"}
  BY <1>1, <1>2, <1>4, <1>7 DEF TestRun, Stays, Building, IsBuild
<1>8. ASSUME CopyStart(p) PROVE proc'[p].stage \notin {"again", "check", "missing"}
  BY <1>5, <1>8 DEF CopyStart, Stays, Building
<1>9. ASSUME Register(p) PROVE proc'[p].stage \notin {"again", "check", "missing"}
  BY <1>1, <1>2, <1>9 DEF Register, Stays, Building, IsBuild
<1>10. ASSUME Find(p) PROVE proc'[p].stage \notin {"again", "check", "missing"}
  <2>1. PICK stage \in {"seed", "test"} :
           proc' = [proc EXCEPT ![p].stage = stage, ![p].again = TRUE]
    BY <1>10 DEF Find
  <2> QED
    BY <1>1, <1>2, <1>10, <2>1 DEF Find, Stays, Building, IsBuild
<1>11. ASSUME SeedStart(p) PROVE proc'[p].stage \notin {"again", "check", "missing"}
  BY <1>5, <1>11 DEF SeedStart, Stays, Building
<1>12. ASSUME SeedEnd(p) PROVE proc'[p].stage \notin {"again", "check", "missing"}
  BY <1>4, <1>5, <1>12 DEF SeedEnd, Stays, Building
<1>13. ASSUME PrepareBuild(p) PROVE proc'[p].stage \notin {"again", "check", "missing"}
  BY <1>5, <1>13 DEF PrepareBuild, Stays, Building
<1>14. ASSUME Generate(p) PROVE proc'[p].stage \notin {"again", "check", "missing"}
  BY <1>5, <1>14 DEF Generate, Stays, Building
<1>15. ASSUME Build(p) PROVE proc'[p].stage \notin {"again", "check", "missing"}
  BY <1>5, <1>15 DEF Build, Stays, Building
<1>16. ASSUME End(p) \/ CleanRows(p) \/ Kill(p)
       PROVE  proc'[p].stage \notin {"again", "check", "missing"}
  BY <1>4, <1>16 DEF End, CleanRows, Kill
<1> QED
  BY <1>3, <1>6, <1>7, <1>8, <1>9, <1>10, <1>11, <1>12, <1>13, <1>14, <1>15, <1>16 DEF Acts

(* Only --clean-configs removes directories.                               *)
LEMMA DirectoriesStay ==
    ASSUME Base, NEW p \in Procs, Acts(p)
    PROVE  DOMAIN cfg \subseteq DOMAIN cfg'
<1>1. \A k : DOMAIN With(cfg, k, "part") = (DOMAIN cfg) \cup {k}
  BY WithFact
<1>2. \A k : DOMAIN [cfg EXCEPT ![k] = "whole"] = DOMAIN cfg
  OBVIOUS
<1> QED
  BY <1>1, <1>2
     DEF Acts, Start, Begin, Lookup, TestRun, CopyStart, CopyEnd, Register, Find, Again, Check,
         SeedStart, SeedEnd, PrepareBuild, Generate, Build, End, StartClean, CleanRows, Kill

LEMMA MoverKept ==
    ASSUME Base, Noticed, NEW p \in Procs, Acts(p)
    PROVE  Kept(proc'[p], DOMAIN cfg', system)
<1> DEFINE t == proc[p]
           u == proc'[p]
<1>1. ASSUME t.stage \in Building PROVE IsBuild(t) /\ Kept(t, DOMAIN cfg, system)
  BY <1>1, AtStage DEF Noticed
<1>2. ASSUME CopyEnd(p) PROVE Kept(u, DOMAIN cfg', system)
  <2>1. t.stage = "copying" /\ t.stage \in Building
    BY <1>2 DEF CopyEnd, Stays, Building
  <2>2. CASE proc' = [proc EXCEPT ![p] = Idle]
    BY <2>2 DEF Base, Idle, Kept, Building
  <2>3. ASSUME NEW stage \in {"again", "register"}, Goto(p, stage),
               FoundDirectory(p) \in DOMAIN cfg, DOMAIN cfg' = DOMAIN cfg
        PROVE  Kept(u, DOMAIN cfg', system)
    BY <2>1, <2>3, GotoSame DEF Kept, Same, FoundDirectory, Source, Version
  <2> QED
    BY <1>2, <2>2, <2>3 DEF CopyEnd
<1>3. ASSUME Again(p) PROVE Kept(u, DOMAIN cfg', system)
  <2>1. t.stage = "again" /\ t.stage \in Building /\ UNCHANGED cfg
    BY <1>3 DEF Again, Stays, Building
  <2>2. /\ u.stage = "check" /\ u.config = t.found
        /\ u.dirs = t.dirs /\ u.swept = t.swept
    <3>1. CASE t.found = t.config
      BY <1>3, <2>1, <3>1, GotoSame DEF Again, Same
    <3>2. CASE t.found # t.config
      <4>1. proc' = [proc EXCEPT ![p].stage = "check", ![p].config = t.found,
                                 ![p].fresh = TRUE]
        BY <1>3, <3>2 DEF Again
      <4>2. IsBuild(t)
        BY <1>1, <2>1
      <4> QED
        BY <4>1, <4>2 DEF Base, IsBuild
    <3> QED
      BY <3>1, <3>2
  <2> QED
    BY <1>1, <2>1, <2>2 DEF Kept
<1>4. ASSUME Check(p) PROVE Kept(u, DOMAIN cfg', system)
  <2>1. t.stage = "check" /\ t.stage \in Building /\ UNCHANGED cfg
    BY <1>4 DEF Check, Stays, Building
  <2>2. CASE Source(p, t.config) \in DOMAIN cfg
    BY <1>4, <2>1, <2>2, GotoSame DEF Check, Kept
  <2>3. CASE Source(p, t.config) \notin DOMAIN cfg
    <3>1. t.swept
      BY <1>1, <2>1, <2>3 DEF Kept, Source, Version
    <3>2. u.swept = t.swept
      BY <1>4, <2>1, <2>3, GotoSame DEF Check, Same
    <3> QED
      BY <3>1, <3>2 DEF Kept
  <2> QED
    BY <2>2, <2>3
<1>5. ASSUME u.stage \notin {"again", "check", "missing"} PROVE Kept(u, DOMAIN cfg', system)
  BY <1>5 DEF Kept
<1> QED
  BY <1>2, <1>3, <1>4, <1>5, OtherSteps

LEMMA NoticedStep == Base /\ Noticed /\ [Next]_vars => Noticed'
<1> SUFFICES ASSUME Base, Noticed, [Next]_vars PROVE Noticed'
  OBVIOUS
<1>1. CASE Upgrade
  BY <1>1 DEF Upgrade, Stays, Noticed, Kept, Building
<1>2. CASE UNCHANGED vars
  BY <1>2 DEF vars, Noticed
<1>3. ASSUME NEW p \in Procs, Acts(p) PROVE Noticed'
  <2>1. Kept(proc'[p], DOMAIN cfg', system) /\ UNCHANGED system
    BY <1>3, MoverKept, ActsWrite
  <2>2. ASSUME NEW q \in Procs \ {p} PROVE Kept(proc'[q], DOMAIN cfg', system)
    <3>1. proc'[q] = proc[q]
      BY <1>3, ActsMove DEF Moves, Base
    <3> QED
      BY <1>3, <3>1, DirectoriesStay DEF Noticed, Kept
  <2> QED
    BY <2>1, <2>2 DEF Noticed
<1>4. ASSUME NEW p \in Procs, CleanDirectories(p) PROVE Noticed'
  <2>1. ASSUME NEW q \in Procs PROVE ~(proc'[q].stage \in Building /\ ~proc'[q].swept)
    <3>1. CASE q = p
      <4>1. proc'[p].stage = "clean_rows"
        BY <1>4 DEF CleanDirectories, Stays, Base, Shaped, Idle, Building, Cleaning, IsClean
      <4> QED
        BY <3>1, <4>1 DEF Building
    <3>2. CASE q # p
      <4>1. CASE proc'[q] = proc[q] /\ proc[q].stage \notin Building
        BY <4>1
      <4>2. CASE proc[q].stage \in Building /\ proc'[q] = [proc[q] EXCEPT !.swept = TRUE]
        BY <4>2, AtStage DEF IsBuild
      <4> QED
        BY <1>4, <3>2, <4>1, <4>2, SweepMoves
    <3> QED
      BY <3>1, <3>2
  <2> QED
    BY <2>1 DEF Noticed, Kept
<1> QED
  BY <1>1, <1>2, <1>3, <1>4 DEF Next, Acts

(* The error "src dir does not exist" (build.cpp) needs a --clean-configs  *)
(* while the build was running.                                            *)
THEOREM FailsCorrect == Spec => []FailsOnlySwept
<1>1. Init => Noticed
  BY DEF Init, Noticed, Kept, Idle, Building
<1>2. Noticed => FailsOnlySwept
  BY DEF Noticed, Kept, FailsOnlySwept, Building
<1> QED
  BY <1>1, <1>2, BaseAlways, NoticedStep, PTL DEF Spec

-----------------------------------------------------------------------------
(* The build trees.                                                        *)
IsTree(x) ==
    /\ x = [files |-> x.files, sources |-> x.sources, found |-> x.found]
    /\ IsFunction(x.files)
    /\ \A v \in DOMAIN x.files : x.files[v] \in {"part", "whole"}
Planted == IsFunction(tree) /\ \A t \in DOMAIN tree : IsTree(tree[t])

(* A configuration has the version of the compiler in it, at least.        *)
LEMMA ConfigNotEmpty ==
    ASSUME NEW s, NEW env, NEW machine
    PROVE  ConfigOf(s, env, machine) # <<>>
<1> DEFINE v == CMakeVariables(s, env, machine)
<1> HIDE DEF v
<1> DEFINE W == {Prepared[v.system], Prepared[v.processor], Prepared[v.id], v.version, v.bits,
                 Prepared[v.arch], "mt", "dll", Prepared[v.sysver], Prepared[v.toolset],
                 v.build_type, Prepared[v.generator]}
<1>w. /\ Prepared[v.system] \in W /\ Prepared[v.processor] \in W /\ Prepared[v.id] \in W
      /\ v.version \in W /\ v.bits \in W /\ Prepared[v.arch] \in W /\ "mt" \in W /\ "dll" \in W
      /\ Prepared[v.sysver] \in W /\ Prepared[v.toolset] \in W /\ v.build_type \in W
      /\ Prepared[v.generator] \in W
  OBVIOUS
<1> HIDE DEF W
<1>1. \A a, b : a \in Seq(W) /\ b \in Seq(W) =>
         a \o b \in Seq(W) /\ Len(a \o b) = Len(a) + Len(b) /\ Len(a) \in Nat
  BY ConcatProperties, LenProperties
<1>s. <<>> \in Seq(W) /\ \A x \in W : <<x>> \in Seq(W)
  OBVIOUS
<1>2. \A w : Prepared[w] \in W => Part(w) \in Seq(W)
  BY <1>s DEF Part
<1>3. \A b : \A w \in {"mt", "dll"} : Option(b, w) \in Seq(W)
  BY <1>w, <1>s DEF Option
<1>4. BuildType(v) \in Seq(W) /\ <<v.version, v.bits>> \in Seq(W) /\ Len(<<v.version, v.bits>>) = 2
  <2>1. BuildType(v) \in Seq(W)
    BY <1>w, <1>s DEF BuildType
  <2>2. \A x, y \in W : <<x, y>> \in Seq(W) /\ Len(<<x, y>>) = 2
    OBVIOUS
  <2> QED
    BY <1>w, <2>1, <2>2
<1>5. /\ Part(v.system) \in Seq(W) /\ Part(v.processor) \in Seq(W) /\ Part(v.id) \in Seq(W)
      /\ Part(v.arch) \in Seq(W) /\ Part(v.sysver) \in Seq(W) /\ Part(v.toolset) \in Seq(W)
      /\ Part(v.generator) \in Seq(W)
      /\ Option(v.msvc /\ "/MT" \in v.flags, "mt") \in Seq(W) /\ Option(v.shared, "dll") \in Seq(W)
  BY <1>w, <1>2, <1>3
<1>6. WithGenerator(v) \in Seq(W) /\ Len(WithGenerator(v)) # 0
  BY <1>1, <1>4, <1>5 DEF WithGenerator, Unhashed
<1> QED
  BY <1>6 DEF ConfigOf, v

LEMMA AnswersNotEmpty == \A r \in Requests : Answers[r] # <<>>
BY ConfigNotEmpty DEF Answers

LEMMA SaidNotEmpty ==
    ASSUME NEW h, NEW c, NEW m \in 1..Len(Systems), Said(h, c, m)
    PROVE  c # <<>>
BY AnswersNotEmpty, Machine DEF Said, Requests

(* What a process does to the trees.                                       *)
LEMMA PlantedStep == Base /\ Planted /\ [Next]_vars => Planted'
<1> SUFFICES ASSUME Base, Planted, [Next]_vars PROVE Planted'
  OBVIOUS
<1>1. CASE UNCHANGED tree
  BY <1>1 DEF Planted
<1>2. ASSUME NEW p \in Procs, NEW t, NEW x, IsTree(x), tree' = With(tree, t, x) PROVE Planted'
  <2>1. /\ IsFunction(tree') /\ DOMAIN tree' = (DOMAIN tree) \cup {t} /\ tree'[t] = x
        /\ \A u \in DOMAIN tree : u # t => tree'[u] = tree[u]
    BY <1>2 DEF With, IsFunction
  <2> QED
    BY <1>2, <2>1 DEF Planted
<1>8. ASSUME NEW t, NEW x, IsTree(tree[t]) => IsTree(x), tree' = [tree EXCEPT ![t] = x]
      PROVE  Planted'
  BY <1>8 DEF Planted, IsFunction
<1>3. ASSUME NEW p \in Procs, SeedStart(p) PROVE Planted'
  <2> DEFINE t == TreeOf(p)
             files == IF proc[p].fresh THEN Without(TreeState(t).files, {Version})
                      ELSE TreeState(t).files
             x == [TreeState(t) EXCEPT !.files = With(files, Version, "part")]
  <2>1. IsTree(TreeState(t))
    <3>1. CASE t \in DOMAIN tree
      BY <3>1 DEF TreeState, Planted
    <3>2. CASE t \notin DOMAIN tree
      BY <3>2 DEF TreeState, EmptyTree, IsTree, IsFunction
    <3> QED
      BY <3>1, <3>2
  <2>2. IsFunction(files) /\ \A v \in DOMAIN files : files[v] \in {"part", "whole"}
    BY <2>1 DEF IsTree, Without, IsFunction
  <2>3. IsTree(x)
    <3> HIDE DEF files
    <3> DEFINE w == With(files, Version, "part")
    <3>1. IsFunction(w) /\ \A v \in DOMAIN w : w[v] \in {"part", "whole"}
      BY <2>2 DEF With, IsFunction
    <3> HIDE DEF w
    <3>2. x = [TreeState(t) EXCEPT !.files = w]
      BY DEF w
    <3> QED
      BY <2>1, <3>1, <3>2 DEF IsTree
  <2>4. UNCHANGED tree \/ tree' = With(tree, t, x)
    BY <1>3 DEF SeedStart
  <2> QED
    BY <1>1, <1>2, <2>3, <2>4
<1>4. ASSUME NEW p \in Procs, SeedEnd(p) PROVE Planted'
  <2> DEFINE d == cfg[Source(p, proc[p].config)]
  <2>1. CASE d \in {"part", "whole"} /\ tree' = [tree EXCEPT ![TreeOf(p)].files[Version] = d]
    <3> DEFINE x == tree[TreeOf(p)]
               files == [x.files EXCEPT ![Version] = d]
    <3>1. ASSUME IsTree(x) PROVE IsTree([x EXCEPT !.files = files])
      <4>1. IsFunction(files) /\ \A v \in DOMAIN files : files[v] \in {"part", "whole"}
        BY <2>1, <3>1 DEF IsTree, IsFunction
      <4> HIDE DEF files
      <4> QED
        BY <3>1, <4>1 DEF IsTree
    <3>2. tree' = [tree EXCEPT ![TreeOf(p)] = [x EXCEPT !.files = files]]
      BY <2>1
    <3> QED
      BY <1>8, <3>1, <3>2
  <2> QED
    BY <1>1, <1>4, <2>1 DEF SeedEnd, Base, Stored
<1>5. ASSUME NEW p \in Procs, PrepareBuild(p) PROVE Planted'
  <2> DEFINE x == [tree[TreeOf(p)] EXCEPT !.sources = proc[p].spec.at]
  <2>1. tree' = [tree EXCEPT ![TreeOf(p)] = x]
    BY <1>5 DEF PrepareBuild
  <2>2. IsTree(tree[TreeOf(p)]) => IsTree(x)
    BY DEF IsTree
  <2> QED
    BY <1>8, <2>1, <2>2
<1>6. ASSUME NEW p \in Procs, Generate(p) PROVE Planted'
  <2> DEFINE g == Significant(CMakeVariables(proc[p].s, proc[p].env, Systems[system]))
             y == tree[TreeOf(p)]
             x == [y EXCEPT !.found = y.found \cup {g}]
  <2>1. tree' = [tree EXCEPT ![TreeOf(p)] = x]
    BY <1>6 DEF Generate
  <2> HIDE DEF g
  <2>2. ASSUME IsTree(y) PROVE IsTree(x)
    <3> DEFINE f == y.found \cup {g}
    <3> HIDE DEF f
    <3>1. IsTree([y EXCEPT !.found = f])
      BY <2>2 DEF IsTree
    <3> QED
      BY <3>1 DEF f
  <2> QED
    BY <1>8, <2>1, <2>2
<1>7. ASSUME NEW p \in Procs,
             Acts(p) \/ CleanDirectories(p),
             ~SeedStart(p), ~SeedEnd(p), ~PrepareBuild(p), ~Generate(p)
      PROVE  UNCHANGED tree
  BY <1>7 DEF Acts, Start, Begin, Lookup, TestRun, CopyStart, CopyEnd, Register, Find, Again,
              Check, Build, End, StartClean, CleanDirectories, CleanRows, Kill
<1> QED
  BY <1>1, <1>3, <1>4, <1>5, <1>6, <1>7 DEF Next, Acts, Upgrade, vars

(* The table, the directories, the trees and the processes have the values *)
(* they should; a row has a configuration.                                 *)
THEOREM TypeCorrect == Spec => []TypeOK
<1>1. Init => Planted
  BY DEF Init, Planted, IsFunction
<1>2. Base /\ Planted => TypeOK
  <2> SUFFICES ASSUME Base, Planted PROVE TypeOK
    OBVIOUS
  <2>1. \A k \in DOMAIN rows : rows[k] # <<>>
    BY SaidNotEmpty DEF Base, Recorded
  <2>2. \A k \in DOMAIN cfg : \E i \in DOMAIN Systems : k[3] = Systems[i].cmake
    <3>1. \A i \in 1..system : i \in DOMAIN Systems
      BY Machine DEF Base
    <3> QED
      BY <3>1 DEF Base, Stored, Filled
  <2>3. \A k \in DOMAIN cfg : cfg[k] \in {"part", "whole"}
    BY DEF Base, Stored
  <2>4. \A p \in Procs : proc[p].stage \in Building \cup {"idle", "clean", "clean_rows"}
    BY DEF Base, Shaped, Cleaning, Idle
  <2>5. \A t \in DOMAIN tree : \A v \in DOMAIN tree[t].files :
           tree[t].files[v] \in {"part", "whole"}
    BY DEF Planted, IsTree
  <2> QED
    BY <2>1, <2>2, <2>3, <2>4, <2>5, Machine DEF TypeOK, Base
<1> QED
  BY <1>1, <1>2, BaseAlways, PlantedStep, PTL DEF Spec

-----------------------------------------------------------------------------
(* What a build is told is true.                                           *)
TruthTold(t, m) ==
    t.stage \in Told \cup {"check", "seed"} => t.config = Answers[<<t.spec, m>>]
Truthful == \A p \in Procs : TruthTold(proc[p], system)

(* Where a step may lead, and what it leaves of the answer.                *)
Begins(t, u) == t = Idle /\ IsBuild(u) /\ u.stage = "lookup" /\ u.spec \in Requested
Untold(t, u) ==
    Same(t, u) /\ {t.stage, u.stage} \subseteq Building \ (Told \cup {"check", "seed"})
Learns(t, u) == Same(t, u) /\ t.stage = "again" /\ u.stage = "check" /\ u.config = t.found
Checked(t, u) ==
    Same(t, u) /\ t.stage = "check" /\ u.stage \in {"seed", "missing"} /\ u.config = t.config
Finds(t, u) == Same(t, u) /\ t.stage = "find" /\ u.stage = "seed" /\ u.config = t.config
NowTold(t, u) ==
    Same(t, u) /\ t.stage = "seed" /\ u.stage \in Told /\ u.config = t.config
StaysTold(t, u) ==
    Same(t, u) /\ t.stage \in Told /\ u.stage \in Told /\ u.config = t.config
Cleans(t, u) == t.stage \notin Building /\ u.stage \notin Building
Phase(t, u) ==
    \/ Begins(t, u) \/ Untold(t, u) \/ Learns(t, u) \/ Checked(t, u)
    \/ NowTold(t, u) \/ StaysTold(t, u) \/ Cleans(t, u) \/ u = Idle

LEMMA GotoPhase ==
    ASSUME Base, NEW p \in Procs, proc[p].stage \in Building, NEW stage, Goto(p, stage),
           \/ {proc[p].stage, stage} \subseteq Building \ (Told \cup {"check", "seed"})
           \/ proc[p].stage = "check" /\ stage \in {"seed", "missing"}
           \/ proc[p].stage = "seed" /\ stage \in Told
           \/ proc[p].stage \in Told /\ stage \in Told
    PROVE  Phase(proc[p], proc'[p])
BY GotoSame DEF Phase, Untold, Checked, NowTold, StaysTold

LEMMA ActsPhase ==
    ASSUME Base, NEW p \in Procs, Acts(p)
    PROVE  \/ Phase(proc[p], proc'[p])
           \/ Finds(proc[p], proc'[p]) /\ Source(p, proc[p].config) \in DOMAIN cfg
<1> DEFINE t == proc[p]
           u == proc'[p]
<1>1. proc = [q \in Procs |-> proc[q]]
  BY DEF Base
<1>2. ASSUME t.stage \in Building PROVE IsBuild(t)
  BY <1>2, AtStage
<1>3. ASSUME proc' = [proc EXCEPT ![p] = Idle] PROVE Phase(t, u)
  BY <1>1, <1>3 DEF Phase
<1>4. ASSUME Start(p) PROVE Phase(t, u)
  <2>1. t = Idle
    BY <1>4 DEF Start, Begin, Stays, Base, Shaped, Building, Cleaning
  <2>2. IsBuild(u) /\ u.stage = "lookup" /\ u.spec \in Requested
    BY <1>1, <1>4 DEF Start, Begin, IsBuild, Requested
  <2> QED
    BY <2>1, <2>2 DEF Phase, Begins
<1>5. ASSUME StartClean(p) PROVE Phase(t, u)
  BY <1>1, <1>5 DEF StartClean, Begin, Stays, Phase, Cleans, Building
<1>6. ASSUME Lookup(p) PROVE Phase(t, u)
  <2>1. t.stage = "lookup" /\ t.stage \in Building
    BY <1>6 DEF Lookup, Stays, Building
  <2>2. CASE Goto(p, "test")
    BY <2>1, <2>2, GotoPhase DEF Building, Told
  <2>3. CASE proc' = [proc EXCEPT ![p].stage = "find", ![p].config = rows[RowOf(p)]]
    <3>1. Same(t, u) /\ u.stage = "find"
      BY <1>1, <1>2, <2>1, <2>3 DEF Same, IsBuild
    <3> QED
      BY <2>1, <3>1 DEF Phase, Untold, Building, Told
  <2> QED
    BY <1>6, <2>2, <2>3 DEF Lookup
<1>7. ASSUME TestRun(p) PROVE Phase(t, u)
  <2>1. t.stage = "test" /\ t.stage \in Building
    BY <1>7 DEF TestRun, Stays, Building
  <2>2. ASSUME NEW c, proc' = [proc EXCEPT ![p].stage = "copy", ![p].found = c]
        PROVE  Phase(t, u)
    <3>1. Same(t, u) /\ u.stage = "copy"
      BY <1>1, <1>2, <2>1, <2>2 DEF Same, IsBuild
    <3> QED
      BY <2>1, <3>1 DEF Phase, Untold, Building, Told
  <2> QED
    BY <1>3, <1>7, <2>2 DEF TestRun
<1>8. ASSUME CopyStart(p) PROVE Phase(t, u)
  BY <1>8, GotoPhase DEF CopyStart, Stays, Building, Told
<1>9. ASSUME CopyEnd(p) PROVE Phase(t, u)
  BY <1>3, <1>9, GotoPhase DEF CopyEnd, Stays, Building, Told
<1>10. ASSUME Register(p) PROVE Phase(t, u)
  <2>1. t.stage = "register" /\ t.stage \in Building
        /\ proc' = [proc EXCEPT ![p].stage = "find", ![p].config = t.found]
    BY <1>10 DEF Register, Stays, Building
  <2>2. Same(t, u) /\ u.stage = "find"
    BY <1>1, <1>2, <2>1 DEF Same, IsBuild
  <2> QED
    BY <2>1, <2>2 DEF Phase, Untold, Building, Told
<1>11. ASSUME Find(p)
       PROVE  \/ Phase(t, u)
              \/ Finds(t, u) /\ Source(p, t.config) \in DOMAIN cfg
  <2>1. t.stage = "find" /\ t.stage \in Building
    BY <1>11 DEF Find, Stays, Building
  <2> DEFINE stage == IF Source(p, t.config) \in DOMAIN cfg THEN "seed" ELSE "test"
  <2>2. proc' = [proc EXCEPT ![p].stage = stage, ![p].again = TRUE]
    BY <1>11 DEF Find
  <2> HIDE DEF stage
  <2>3. Same(t, u) /\ u.stage = stage /\ u.config = t.config
    BY <1>1, <1>2, <2>1, <2>2 DEF Same, IsBuild
  <2>4. CASE Source(p, t.config) \in DOMAIN cfg
    BY <2>1, <2>3, <2>4 DEF Finds, stage
  <2>5. CASE Source(p, t.config) \notin DOMAIN cfg
    <3>1. u.stage = "test"
      BY <2>3, <2>5 DEF stage
    <3>2. Untold(t, u)
      BY <2>1, <2>3, <3>1 DEF Untold, Building, Told
    <3> QED
      BY <3>2 DEF Phase
  <2> QED
    BY <2>4, <2>5
<1>12. ASSUME Again(p) PROVE Phase(t, u)
  <2>1. t.stage = "again" /\ t.stage \in Building
    BY <1>12 DEF Again, Stays, Building
  <2>2. CASE t.found = t.config
    BY <1>12, <2>1, <2>2, GotoSame DEF Again, Phase, Learns
  <2>3. CASE t.found # t.config
    <3>1. proc' = [proc EXCEPT ![p].stage = "check", ![p].config = t.found, ![p].fresh = TRUE]
      BY <1>12, <2>3 DEF Again
    <3>2. Same(t, u) /\ u.stage = "check" /\ u.config = t.found
      BY <1>1, <1>2, <2>1, <3>1 DEF Same, IsBuild
    <3> QED
      BY <2>1, <3>2 DEF Phase, Learns
  <2> QED
    BY <2>2, <2>3
<1>13. ASSUME Check(p) PROVE Phase(t, u)
  BY <1>13, GotoPhase DEF Check, Stays, Building
<1>14. ASSUME SeedStart(p) PROVE Phase(t, u)
  BY <1>14, GotoPhase DEF SeedStart, Stays, Building, Told
<1>15. ASSUME SeedEnd(p) PROVE Phase(t, u)
  BY <1>3, <1>15, GotoPhase DEF SeedEnd, Stays, Building, Told
<1>16. ASSUME PrepareBuild(p) PROVE Phase(t, u)
  BY <1>16, GotoPhase DEF PrepareBuild, Stays, Building, Told
<1>17. ASSUME Generate(p) PROVE Phase(t, u)
  BY <1>17, GotoPhase DEF Generate, Stays, Building, Told
<1>18. ASSUME Build(p) PROVE Phase(t, u)
  BY <1>18, GotoPhase DEF Build, Stays, Building, Told
<1>19. ASSUME End(p) \/ CleanRows(p) \/ Kill(p) PROVE Phase(t, u)
  BY <1>3, <1>19 DEF End, CleanRows, Kill
<1> QED
  BY <1>4, <1>5, <1>6, <1>7, <1>8, <1>9, <1>10, <1>11, <1>12, <1>13, <1>14, <1>15, <1>16,
     <1>17, <1>18, <1>19 DEF Acts

(* A configuration that was said to the hash, and found again by the CMake *)
(* of now, is the one CMake finds now.                                     *)
LEMMA LookedUpRight ==
    ASSUME HashTells, UpgradesTell, NEW m \in 1..Len(Systems), NEW c \in Requested, NEW config,
           NEW k, Said(HashOf(c), config, m), Filled(k, m), k[2] = config,
           k[3] = Systems[m].cmake
    PROVE  config = Answers[<<c, m>>]
<1>1. PICK d \in Requested, i \in 1..m : HashOf(c) = HashOf(d) /\ config = Answers[<<d, i>>]
  BY DEF Said
<1>2. PICK e \in Requested, j \in 1..m : config = Answers[<<e, j>>] /\ k[3] = Systems[j].cmake
  BY DEF Filled
<1>3. m \in DOMAIN Systems /\ i \in DOMAIN Systems
  BY Machine
<1>4. config = Answers[<<c, i>>]
  BY <1>1, <1>3 DEF HashTells
<1>5. Answers[<<c, i>>] = Answers[<<e, j>>] /\ Systems[j].cmake = Systems[m].cmake
  BY <1>2, <1>4
<1>6. Answers[<<c, m>>] = Answers[<<c, i>>]
  BY <1>3, <1>5 DEF UpgradesTell
<1> QED
  BY <1>4, <1>6

LEMMA TruthfulStep ==
    ASSUME HashTells, UpgradesTell
    PROVE  Base /\ Truthful /\ [Next]_vars => Truthful'
<1> SUFFICES ASSUME Base, Truthful, [Next]_vars PROVE Truthful'
  OBVIOUS
<1>1. CASE Upgrade
  BY <1>1 DEF Upgrade, Stays, Truthful, TruthTold, Told
<1>2. CASE UNCHANGED vars
  BY <1>2 DEF vars, Truthful
<1>3. ASSUME NEW p \in Procs, Acts(p) PROVE Truthful'
  <2> DEFINE t == proc[p]
             u == proc'[p]
  <2>1. UNCHANGED system /\ \A q \in Procs \ {p} : proc'[q] = proc[q]
    BY <1>3, ActsWrite, ActsMove DEF Moves, Base
  <2>2. TruthTold(t, system) /\ Known(t, system)
    BY DEF Truthful, Base
  <2>3. ASSUME Phase(t, u) PROVE TruthTold(u, system)
    BY <2>2, <2>3 DEF Phase, Begins, Untold, Learns, Checked, NowTold, StaysTold, Cleans, Same,
                      TruthTold, Told, Building, Idle, Known, Found
  <2>4. ASSUME Finds(t, u), Source(p, t.config) \in DOMAIN cfg PROVE TruthTold(u, system)
    <3>1. t.spec \in Requested /\ Said(HashOf(t.spec), t.config, system)
      BY <2>2, <2>4 DEF Finds, Known, Building
    <3>2. Filled(Source(p, t.config), system) /\ system \in 1..Len(Systems)
      BY <2>4 DEF Base, Stored
    <3>3. t.config = Answers[<<t.spec, system>>]
      BY <3>1, <3>2, LookedUpRight DEF Source, Version
    <3> QED
      BY <2>4, <3>3 DEF Finds, Same, TruthTold
  <2>5. TruthTold(u, system)
    BY <1>3, <2>3, <2>4, ActsPhase
  <2> QED
    BY <2>1, <2>5 DEF Truthful
<1>4. ASSUME NEW p \in Procs, CleanDirectories(p) PROVE Truthful'
  <2>1. UNCHANGED system
    BY <1>4 DEF CleanDirectories
  <2>2. ASSUME NEW q \in Procs PROVE TruthTold(proc'[q], system)
    <3>1. CASE q = p
      <4>1. proc'[p].stage = "clean_rows"
        BY <1>4 DEF CleanDirectories, Stays, Base, Shaped, Idle, Building, Cleaning, IsClean
      <4> QED
        BY <3>1, <4>1 DEF TruthTold, Told
    <3>2. CASE q # p
      <4>1. CASE proc'[q] = proc[q] /\ proc[q].stage \notin Building
        BY <4>1 DEF Truthful
      <4>2. CASE proc[q].stage \in Building /\ proc'[q] = [proc[q] EXCEPT !.swept = TRUE]
        <5>1. /\ proc'[q].stage = proc[q].stage /\ proc'[q].config = proc[q].config
              /\ proc'[q].spec = proc[q].spec
          BY <4>2, AtStage DEF IsBuild
        <5> QED
          BY <5>1 DEF Truthful, TruthTold
      <4> QED
        BY <1>4, <3>2, <4>1, <4>2, SweepMoves
    <3> QED
      BY <3>1, <3>2
  <2> QED
    BY <2>1, <2>2 DEF Truthful
<1> QED
  BY <1>1, <1>2, <1>3, <1>4 DEF Next, Acts

LEMMA TruthfulInit == Init => Truthful
BY DEF Init, Truthful, TruthTold, Idle, Told

LEMMA TruthfulAlways ==
    ASSUME HashTells, UpgradesTell
    PROVE  Spec => []Truthful
BY BaseAlways, TruthfulInit, TruthfulStep, PTL DEF Spec

-----------------------------------------------------------------------------
(* The refinement, step by step.                                           *)
AskedOf(t, m) == IF t.stage \in Building THEN <<t.spec, m>> ELSE None
ToldOf(t) == IF t.stage \in Told THEN t.config ELSE None
asked == [p \in Procs |-> AskedOf(proc[p], system)]
told == [p \in Procs |-> ToldOf(proc[p])]

LEMMA ServiceVars ==
    /\ Service!ServiceInit <=> /\ asked = [c \in Procs |-> None] /\ told = [c \in Procs |-> None]
    /\ Service!serviceVars = <<asked, told>>
BY DEF Service!ServiceInit, Service!serviceVars, asked, told, AskedOf, ToldOf

AskStep(p) ==
    /\ asked[p] = None
    /\ \E r \in Requests : asked' = [asked EXCEPT ![p] = r]
    /\ UNCHANGED told
TellStep(p) ==
    /\ asked[p] # None /\ told[p] = None
    /\ told' = [told EXCEPT ![p] = Answers[asked[p]]]
    /\ UNCHANGED asked
LeaveStep(p) ==
    /\ asked[p] # None
    /\ asked' = [asked EXCEPT ![p] = None] /\ told' = [told EXCEPT ![p] = None]

LEMMA ServiceSteps ==
    ASSUME NEW p \in Procs, AskStep(p) \/ TellStep(p) \/ LeaveStep(p)
    PROVE  Service!ServiceNext
<1>1. AskStep(p) <=> Service!Ask(p)
  BY DEF AskStep, Service!Ask, asked, told, AskedOf, ToldOf
<1>2. TellStep(p) <=> Service!Tell(p)
  BY DEF TellStep, Service!Tell, asked, told, AskedOf, ToldOf, Answer
<1>3. LeaveStep(p) <=> Service!Leave(p)
  BY DEF LeaveStep, Service!Leave, asked, told, AskedOf, ToldOf
<1> QED
  BY <1>1, <1>2, <1>3 DEF Service!ServiceNext
(* None is no request.                                                     *)
LEMMA RequestsFact ==
    ASSUME NEW c \in Requested, NEW m \in 1..Len(Systems)
    PROVE  <<c, m>> \in Requests /\ <<c, m>> # None
BY Machine DEF Requested, Requests

LEMMA MoveMaps ==
    ASSUME Base, Truthful, NEW p \in Procs,
           proc' = [proc EXCEPT ![p] = proc'[p]], UNCHANGED system,
           Phase(proc[p], proc'[p]) \/ Finds(proc[p], proc'[p])
    PROVE  Service!ServiceNext \/ UNCHANGED <<asked, told>>
<1> DEFINE t == proc[p]
           u == proc'[p]
<1>1. /\ asked' = [asked EXCEPT ![p] = AskedOf(u, system)]
      /\ told' = [told EXCEPT ![p] = ToldOf(u)]
      /\ asked[p] = AskedOf(t, system) /\ told[p] = ToldOf(t)
      /\ asked = [q \in Procs |-> asked[q]] /\ told = [q \in Procs |-> told[q]]
  BY DEF asked, told, Base
<1> HIDE DEF asked, told
<1>2. ASSUME AskedOf(u, system) = AskedOf(t, system), ToldOf(u) = ToldOf(t)
      PROVE  UNCHANGED <<asked, told>>
  BY <1>1, <1>2
<1>3. ASSUME Untold(t, u) \/ Learns(t, u) \/ Checked(t, u) \/ Finds(t, u) \/ StaysTold(t, u)
      PROVE  UNCHANGED <<asked, told>>
  <2>1. t.stage \in Building /\ u.stage \in Building /\ u.spec = t.spec
    BY <1>3 DEF Untold, Learns, Checked, Finds, StaysTold, Same, Building, Told
  <2>2. \/ t.stage \notin Told /\ u.stage \notin Told
        \/ t.stage \in Told /\ u.stage \in Told /\ u.config = t.config
    BY <1>3 DEF Untold, Learns, Checked, Finds, StaysTold, Same, Building, Told
  <2> QED
    BY <1>2, <2>1, <2>2 DEF AskedOf, ToldOf
<1>4. ASSUME Cleans(t, u) PROVE UNCHANGED <<asked, told>>
  BY <1>2, <1>4 DEF Cleans, AskedOf, ToldOf, Building, Told
<1>5. ASSUME Begins(t, u) PROVE AskStep(p)
  <2>1. AskedOf(t, system) = None /\ ToldOf(t) = None /\ ToldOf(u) = None
        /\ AskedOf(u, system) = <<u.spec, system>>
    BY <1>5 DEF Begins, AskedOf, ToldOf, Idle, Building, Told
  <2>2. <<u.spec, system>> \in Requests
    BY <1>5, RequestsFact DEF Begins, Base
  <2>3. UNCHANGED told
    BY <1>1, <2>1
  <2> QED
    BY <1>1, <2>1, <2>2, <2>3 DEF AskStep
<1>6. ASSUME NowTold(t, u) PROVE TellStep(p)
  <2>1. /\ t.stage = "seed" /\ t.stage \in Building /\ u.stage \in Told /\ u.stage \in Building
        /\ u.spec = t.spec /\ u.config = t.config
    BY <1>6 DEF NowTold, Same, Building, Told
  <2>2. t.config = Answers[<<t.spec, system>>] /\ t.spec \in Requested
    BY <2>1 DEF Truthful, TruthTold, Base, Known
  <2>3. AskedOf(t, system) = <<t.spec, system>> /\ AskedOf(u, system) = <<t.spec, system>>
        /\ ToldOf(t) = None /\ ToldOf(u) = Answers[<<t.spec, system>>]
    BY <2>1, <2>2 DEF AskedOf, ToldOf, Told
  <2>4. <<t.spec, system>> # None
    BY <2>2, RequestsFact DEF Base
  <2> QED
    BY <1>1, <2>3, <2>4 DEF TellStep
<1>7. ASSUME u = Idle PROVE LeaveStep(p) \/ UNCHANGED <<asked, told>>
  <2>1. AskedOf(u, system) = None /\ ToldOf(u) = None
    BY <1>7 DEF AskedOf, ToldOf, Idle, Building, Told
  <2>2. CASE t.stage \in Building
    <3>1. AskedOf(t, system) # None
      BY <2>2, RequestsFact DEF AskedOf, Base, Known
    <3> QED
      BY <1>1, <2>1, <3>1 DEF LeaveStep
  <2>3. CASE t.stage \notin Building
    BY <1>2, <2>1, <2>3 DEF AskedOf, ToldOf, Building, Told
  <2> QED
    BY <2>2, <2>3
<1> QED
  BY <1>3, <1>4, <1>5, <1>6, <1>7, ServiceSteps DEF Phase

LEMMA ServiceStep ==
    Base /\ Truthful /\ [Next]_vars => [Service!ServiceNext]_(Service!serviceVars)
<1> SUFFICES ASSUME Base, Truthful, [Next]_vars
             PROVE  Service!ServiceNext \/ UNCHANGED <<asked, told>>
  BY ServiceVars DEF asked, told, AskedOf, ToldOf, Service!serviceVars
<1>1. CASE UNCHANGED vars
  BY <1>1 DEF vars, asked, told
<1>2. CASE Upgrade
  BY <1>2 DEF Upgrade, Stays, asked, told, AskedOf, ToldOf, Building
<1>3. ASSUME NEW p \in Procs, Acts(p) PROVE Service!ServiceNext \/ UNCHANGED <<asked, told>>
  <2>1. UNCHANGED system /\ proc' = [proc EXCEPT ![p] = proc'[p]]
    BY <1>3, ActsWrite, ActsMove DEF Moves
  <2>2. Phase(proc[p], proc'[p]) \/ Finds(proc[p], proc'[p])
    BY <1>3, ActsPhase
  <2> QED
    BY <2>1, <2>2, MoveMaps
<1>4. ASSUME NEW p \in Procs, CleanDirectories(p) PROVE UNCHANGED <<asked, told>>
  <2>1. UNCHANGED system
    BY <1>4 DEF CleanDirectories
  <2>2. ASSUME NEW q \in Procs
        PROVE  AskedOf(proc'[q], system) = AskedOf(proc[q], system)
               /\ ToldOf(proc'[q]) = ToldOf(proc[q])
    <3>1. CASE q = p
      <4>1. proc[p].stage = "clean" /\ proc'[p].stage = "clean_rows"
        BY <1>4 DEF CleanDirectories, Stays, Base, Shaped, Idle, Building, Cleaning, IsClean
      <4> QED
        BY <3>1, <4>1 DEF AskedOf, ToldOf, Building, Told
    <3>2. CASE q # p
      <4>1. CASE proc'[q] = proc[q] /\ proc[q].stage \notin Building
        BY <4>1
      <4>2. CASE proc[q].stage \in Building /\ proc'[q] = [proc[q] EXCEPT !.swept = TRUE]
        <5>1. /\ proc'[q].stage = proc[q].stage /\ proc'[q].config = proc[q].config
              /\ proc'[q].spec = proc[q].spec
          BY <4>2, AtStage DEF IsBuild
        <5> QED
          BY <5>1 DEF AskedOf, ToldOf
      <4> QED
        BY <1>4, <3>2, <4>1, <4>2, SweepMoves
    <3> QED
      BY <3>1, <3>2
  <2> QED
    BY <2>1, <2>2 DEF asked, told
<1> QED
  BY <1>1, <1>2, <1>3, <1>4 DEF Next, Acts

LEMMA ServiceStart == Init => Service!ServiceInit
BY ServiceVars DEF Init, asked, told, AskedOf, ToldOf, Idle, Building, Told

(* A build fills its tree for the configuration CMake finds with its       *)
(* settings, whatever others recorded, cleaned or left behind (get_config, *)
(* build_packages), wherever the hash of the settings tells commands apart *)
(* and an upgrade is told by the version of CMake.                         *)
THEOREM ServiceImplemented ==
    ASSUME HashTells, UpgradesTell
    PROVE  Spec => ImplementsService
BY BaseAlways, TruthfulAlways, ServiceStart, ServiceStep, PTL
   DEF Spec, ImplementsService, Service!ServiceSpec

-----------------------------------------------------------------------------
(* What was found in a tree is what CMake says of the tree's configuration. *)
Grows(t, s) ==
    \E r \in Requests : t.config = Answers[r] /\ s = Significant(VariablesOf(r))
Grown == IsFunction(tree) /\ \A t \in DOMAIN tree : \A s \in tree[t].found : Grows(t, s)

LEMMA GrownStep == Base /\ Planted /\ Truthful /\ Grown /\ [Next]_vars => Grown'
<1> SUFFICES ASSUME Base, Planted, Truthful, Grown, [Next]_vars PROVE Grown'
  OBVIOUS
<1>1. CASE UNCHANGED tree
  BY <1>1 DEF Grown
<1>2. ASSUME NEW t, NEW x, tree' = [tree EXCEPT ![t] = x],
             IsTree(tree[t]) => \A s \in x.found : s \in tree[t].found \/ Grows(t, s)
      PROVE  Grown'
  BY <1>2 DEF Grown, Planted, IsFunction
<1>3. ASSUME NEW p \in Procs, SeedStart(p) PROVE Grown'
  <2> DEFINE t == TreeOf(p)
             files == IF proc[p].fresh THEN Without(TreeState(t).files, {Version})
                      ELSE TreeState(t).files
             x == [TreeState(t) EXCEPT !.files = With(files, Version, "part")]
  <2>1. x.found = TreeState(t).found
    <3>1. CASE t \in DOMAIN tree
      BY <3>1 DEF TreeState, Planted, IsTree
    <3>2. CASE t \notin DOMAIN tree
      BY <3>2 DEF TreeState, EmptyTree
    <3> QED
      BY <3>1, <3>2
  <2>2. \A s \in x.found : Grows(t, s)
    BY <2>1 DEF TreeState, EmptyTree, Grown
  <2>3. UNCHANGED tree \/ tree' = With(tree, t, x)
    BY <1>3 DEF SeedStart
  <2> HIDE DEF x, t
  <2>4. ASSUME tree' = With(tree, t, x) PROVE Grown'
    <3>1. /\ IsFunction(tree') /\ DOMAIN tree' = (DOMAIN tree) \cup {t} /\ tree'[t] = x
          /\ \A u \in DOMAIN tree : u # t => tree'[u] = tree[u]
      BY <2>4 DEF With, IsFunction
    <3> QED
      BY <2>2, <3>1 DEF Grown
  <2> QED
    BY <1>1, <2>3, <2>4
<1>4. ASSUME NEW p \in Procs, SeedEnd(p) PROVE Grown'
  <2> DEFINE y == tree[TreeOf(p)]
             files == [y.files EXCEPT ![Version] = cfg[Source(p, proc[p].config)]]
             x == [y EXCEPT !.files = files]
  <2>1. UNCHANGED tree \/ tree' = [tree EXCEPT ![TreeOf(p)] = x]
    BY <1>4 DEF SeedEnd
  <2> HIDE DEF files
  <2>2. IsTree(y) => x.found = y.found
    BY DEF IsTree
  <2> QED
    BY <1>1, <1>2, <2>1, <2>2
<1>5. ASSUME NEW p \in Procs, PrepareBuild(p) PROVE Grown'
  <2> DEFINE y == tree[TreeOf(p)]
             x == [y EXCEPT !.sources = proc[p].spec.at]
  <2>1. tree' = [tree EXCEPT ![TreeOf(p)] = x]
    BY <1>5 DEF PrepareBuild
  <2>2. IsTree(y) => x.found = y.found
    BY DEF IsTree
  <2> QED
    BY <1>2, <2>1, <2>2
<1>6. ASSUME NEW p \in Procs, Generate(p) PROVE Grown'
  <2> DEFINE g == Significant(CMakeVariables(proc[p].s, proc[p].env, Systems[system]))
             y == tree[TreeOf(p)]
             x == [y EXCEPT !.found = y.found \cup {g}]
             r == <<proc[p].spec, system>>
  <2>1. tree' = [tree EXCEPT ![TreeOf(p)] = x]
    BY <1>6 DEF Generate
  <2>2. proc[p].stage = "generate" /\ proc[p].stage \in Building /\ proc[p].stage \in Told
    BY <1>6 DEF Generate, Stays, Building, Told
  <2>3. /\ r \in Requests /\ proc[p].config = Answers[r] /\ g = Significant(VariablesOf(r))
    BY <2>2, RequestsFact DEF Base, Known, Truthful, TruthTold, VariablesOf
  <2>4. TreeOf(p).config = proc[p].config
    BY DEF TreeOf, BuildTree
  <2>5. Grows(TreeOf(p), g)
    BY <2>3, <2>4 DEF Grows
  <2> HIDE DEF g
  <2>6. IsTree(y) => \A s \in x.found : s \in y.found \/ s = g
    <3> DEFINE f == y.found \cup {g}
    <3>1. x = [y EXCEPT !.found = f] /\ \A s \in f : s \in y.found \/ s = g
      OBVIOUS
    <3> HIDE DEF f
    <3> QED
      BY <3>1 DEF IsTree
  <2> QED
    BY <1>2, <2>1, <2>5, <2>6
<1>7. ASSUME NEW p \in Procs,
             Acts(p) \/ CleanDirectories(p),
             ~SeedStart(p), ~SeedEnd(p), ~PrepareBuild(p), ~Generate(p)
      PROVE  UNCHANGED tree
  BY <1>7 DEF Acts, Start, Begin, Lookup, TestRun, CopyStart, CopyEnd, Register, Find, Again,
              Check, Build, End, StartClean, CleanDirectories, CleanRows, Kill
<1> QED
  BY <1>1, <1>3, <1>4, <1>5, <1>6, <1>7 DEF Next, Acts, Upgrade, vars

(* A tree is never used for two compilers, kinds of libraries, generators, *)
(* toolsets or build types, but for the build types of cl run by makefiles *)
(* (set_build_dirs, append_build_dirs), wherever the names of              *)
(* configurations tell these apart.                                        *)
THEOREM TreesApartCorrect ==
    ASSUME HashTells, UpgradesTell, NamesTell
    PROVE  Spec => []TreesApart
<1>1. Init => Planted /\ Grown
  BY DEF Init, Planted, Grown, IsFunction
<1>2. Grown => TreesApart
  BY DEF Grown, Grows, NamesTell, TreesApart
<1> QED
  BY <1>1, <1>2, BaseAlways, PlantedStep, TruthfulAlways, GrownStep, PTL DEF Spec

-----------------------------------------------------------------------------
(* What the chosen build says.                                             *)

(* The natural numbers are well-ordered.                                   *)
LEMMA NatOrder ==
    \E R : IsWellFoundedOn(R, Nat) /\ \A x, y \in Nat : y < x => <<y, x>> \in R
<1> DEFINE R == OpToRel(<, Nat)
<1>1. IsWellFoundedOn(R, Nat)
  BY NatLessThanWellFounded
<1>2. \A x, y \in Nat : y < x => <<y, x>> \in R
  BY DEF OpToRel
<1> HIDE DEF R
<1> QED
  BY <1>1, <1>2

LEMMA LeastNatural ==
    ASSUME NEW T \in SUBSET Nat, T # {}
    PROVE  \E x \in T : \A y \in T : x <= y
<1>1. PICK R : IsWellFoundedOn(R, Nat) /\ \A x, y \in Nat : y < x => <<y, x>> \in R
  BY NatOrder
<1>2. PICK x \in T : \A y \in T : ~(<<y, x>> \in R)
  BY <1>1, WFMin
<1>3. \A y \in T : ~(y < x)
  BY <1>1, <1>2
<1> QED
  BY <1>2, <1>3

(* A set that holds 0, and what follows what it holds up to n, holds n.    *)
LEMMA UpTo ==
    ASSUME NEW n \in Nat, NEW T, 0 \in T, \A k \in 1..n : k - 1 \in T => k \in T
    PROVE  n \in T
<1> SUFFICES ASSUME n \notin T PROVE FALSE
  OBVIOUS
<1>1. PICK k \in {j \in Nat : j \notin T} : \A i \in {j \in Nat : j \notin T} : k <= i
  BY LeastNatural
<1>2. k \in 1..n /\ k - 1 \in Nat
  BY <1>1
<1> QED
  BY <1>1, <1>2

(* A set of numbers up to n has a largest one, the last that is folded.    *)
LEMMA LargestIndex ==
    ASSUME NEW n \in Nat
    PROVE  \A s \in SUBSET (1..n) : s # {} => Max(s) \in s /\ \A i \in s : i <= Max(s)
<1> SUFFICES ASSUME NEW s \in SUBSET (1..n), s # {}
             PROVE  Max(s) \in s /\ \A i \in s : i <= Max(s)
  OBVIOUS
<1> DEFINE B == {j \in Nat : \A i \in s : i <= j}
<1>1. PICK m \in B : \A j \in B : m <= j
  <2>1. n \in B
    OBVIOUS
  <2> QED
    BY <2>1, LeastNatural
<1>2. m \in s
  <2> SUFFICES ASSUME m \notin s PROVE FALSE
    OBVIOUS
  <2>1. \A i \in s : i \in 1..n /\ i <= m /\ i # m
    BY <1>1
  <2>2. m # 0 /\ m - 1 \in Nat
    <3>1. PICK i : i \in s
      OBVIOUS
    <3>2. i \in 1..n /\ i <= m /\ m \in Nat
      BY <2>1, <3>1
    <3> QED
      BY <3>2
  <2>3. m - 1 \in B
    BY <1>1, <2>1, <2>2
  <2> QED
    BY <1>1, <2>3
<1>3. \E x \in s : \A i \in s : x >= i
  BY <1>1, <1>2
<1> QED
  BY <1>3 DEF Max

(* Without its largest number what is left is below it.                    *)
LEMMA LargestLeaves ==
    ASSUME NEW n \in Nat, n # 0, NEW s \in SUBSET (1..n), s # {}
    PROVE  Max(s) \in 1..n /\ s \ {Max(s)} \in SUBSET (1..(n - 1))
<1>1. Max(s) \in s /\ \A i \in s : i <= Max(s)
  BY LargestIndex
<1>2. Max(s) \in 1..n
  BY <1>1
<1>3. ASSUME NEW i \in s, i # Max(s) PROVE i \in 1..(n - 1)
  <2>1. i \in 1..n /\ i <= Max(s)
    BY <1>1
  <2> QED
    BY <1>2, <1>3, <2>1
<1> QED
  BY <1>2, <1>3

(* The numbers up to k, of which k is folded last.                         *)
LEMMA WholePrefix ==
    ASSUME NEW k \in Nat, k # 0
    PROVE  1..k # {} /\ Max(1..k) = k /\ (1..k) \ {k} = 1..(k - 1)
<1>1. 1..k \in SUBSET (1..k) /\ 1..k # {}
  <2>1. k \in 1..k
    OBVIOUS
  <2> QED
    BY <2>1
<1>2. Max(1..k) \in 1..k /\ \A i \in 1..k : i <= Max(1..k)
  BY <1>1, LargestIndex
<1> QED
  BY <1>2

(* One load, and the function a fold of loads is defined by: from the set  *)
(* of the places that are folded to what they make of the first settings.  *)
Loaded(t, root, at) ==
    LET s == LoadMain(t.s, root, "local") IN [s |-> s, dirs |-> DirectoriesOf(s, at)]
Iterated(c, loads, g, s) ==
    IF s = {} THEN InitialSettings(c)
    ELSE Loaded(g[s \ {Max(s)}], loads[Max(s)], c.at)
Iterates(c, loads, g, k) == g = [s \in SUBSET (1..k) |-> Iterated(c, loads, g, s)]
(* There is such a function for every number of loads.                     *)
LEMMA IterationExists ==
    ASSUME NEW c, NEW loads, NEW n \in Nat
    PROVE  \E g : Iterates(c, loads, g, n)
<1> DEFINE T == {k \in Nat : \E g : Iterates(c, loads, g, k)}
<1>1. 0 \in T
  <2> DEFINE g == [s \in SUBSET (1..0) |-> InitialSettings(c)]
  <2>1. 1..0 = {}
    OBVIOUS
  <2>2. Iterates(c, loads, g, 0)
    BY <2>1 DEF Iterates, Iterated
  <2> QED
    BY <2>2
<1>2. ASSUME NEW k \in 1..n, k - 1 \in T PROVE k \in T
  <2>1. PICK g : Iterates(c, loads, g, k - 1)
    BY <1>2
  <2> DEFINE h == [s \in SUBSET (1..k) |-> Iterated(c, loads, g, s)]
  <2>2. ASSUME NEW s \in SUBSET (1..k), s # {} 
        PROVE  s \ {Max(s)} \in SUBSET (1..(k - 1)) /\ Max(s) \in 1..k
    <3>1. k \in Nat /\ k # 0
      OBVIOUS
    <3> QED
      BY <2>2, <3>1, LargestLeaves
  <2>3. \A s \in SUBSET (1..(k - 1)) : s \in SUBSET (1..k)
    OBVIOUS
  <2>4. \A s \in SUBSET (1..(k - 1)) : h[s] = g[s]
    BY <2>1, <2>3 DEF Iterates
  <2> HIDE DEF h
  <2>5. \A s \in SUBSET (1..k) : Iterated(c, loads, h, s) = Iterated(c, loads, g, s)
    BY <2>2, <2>4 DEF Iterated
  <2>6. Iterates(c, loads, h, k)
    BY <2>5 DEF Iterates, h
  <2> QED
    BY <2>6
<1> HIDE DEF T
<1>3. n \in T
  BY <1>1, <1>2, UpTo
<1> QED
  BY <1>3 DEF T

(* The settings of a command are made one load after the other.            *)
LEMMA LoadsFold ==
    ASSUME NEW c, NEW n \in Nat, DOMAIN LoadsOf(c) = 1..n
    PROVE  \E f : /\ f[0] = InitialSettings(c)
                  /\ \A k \in 1..n : f[k] = Loaded(f[k - 1], LoadsOf(c)[k], c.at)
                  /\ f[n] = LoadSettings(c)
<1>1. LoadSettings(c) = (CHOOSE g : Iterates(c, LoadsOf(c), g, n))[1..n]
  BY DEF LoadSettings, FoldLeft, MapThenFoldSet, Loaded, Iterates, Iterated
<1>2. PICK g : Iterates(c, LoadsOf(c), g, n) /\ LoadSettings(c) = g[1..n]
  BY <1>1, IterationExists
<1> DEFINE f == [k \in 0..n |-> g[1..k]]
<1>4. f[0] = InitialSettings(c)
  <2>1. {} \in SUBSET (1..n) /\ 1..0 = {}
    OBVIOUS
  <2> QED
    BY <1>2, <2>1 DEF Iterates, Iterated
<1>5. ASSUME NEW k \in 1..n PROVE f[k] = Loaded(f[k - 1], LoadsOf(c)[k], c.at)
  <2>1. 1..k \in SUBSET (1..n)
    OBVIOUS
  <2>2. g[1..k] = Iterated(c, LoadsOf(c), g, 1..k)
    BY <1>2, <2>1 DEF Iterates
  <2>3. 1..k # {} /\ Max(1..k) = k /\ (1..k) \ {k} = 1..(k - 1)
    <3>1. k \in Nat /\ k # 0
      OBVIOUS
    <3> QED
      BY <3>1, WholePrefix
  <2>4. g[1..k] = Loaded(g[1..(k - 1)], LoadsOf(c)[k], c.at)
    BY <2>2, <2>3 DEF Iterated
  <2> QED
    BY <2>4
<1>6. f[n] = LoadSettings(c)
  BY <1>2
<1> QED
  BY <1>4, <1>5, <1>6

(* Taking compilers from one another leaves what the chosen build says.    *)
FilledKeys ==
    {"c_compiler", "cxx_compiler", "host_c_compiler", "host_cxx_compiler"} \cup DOMAIN Common
SaidKeys == ChosenKeys \cup DOMAIN Common

LEMMA CommonFact ==
    /\ DOMAIN Common = {"c_compiler_flags", "cxx_compiler_flags", "c_compiler_flags_conf",
                        "cxx_compiler_flags_conf"}
    /\ Common["c_compiler_flags"] = "compiler_flags"
    /\ Common["cxx_compiler_flags"] = "compiler_flags"
    /\ Common["c_compiler_flags_conf"] = "compiler_flags_conf"
    /\ Common["cxx_compiler_flags_conf"] = "compiler_flags_conf"
BY DEF Common

LEMMA FillKeeps ==
    ASSUME NEW s
    PROVE  /\ DOMAIN FillCompilers(s) = DOMAIN s
           /\ \A k \in (DOMAIN s) \ FilledKeys : FillCompilers(s)[k] = s[k]
           /\ \A k \in (DOMAIN s) \cap DOMAIN Common : FillCompilers(s)[k] = s[k] \o s[Common[k]]
<1> DEFINE c == First(<<s.c_compiler, s.cxx_compiler, s.compiler>>)
           cxx == First(<<s.cxx_compiler, s.compiler>>)
           values == [c_compiler |-> c, cxx_compiler |-> cxx,
                      host_c_compiler |->
                        First(<<s.host_c_compiler, s.host_cxx_compiler, s.host_compiler, c>>),
                      host_cxx_compiler |-> First(<<s.host_cxx_compiler, s.host_compiler, cxx>>),
                      c_compiler_flags |-> s.c_compiler_flags \o s.compiler_flags,
                      cxx_compiler_flags |-> s.cxx_compiler_flags \o s.compiler_flags,
                      c_compiler_flags_conf |-> s.c_compiler_flags_conf \o s.compiler_flags_conf,
                      cxx_compiler_flags_conf |-> s.cxx_compiler_flags_conf \o s.compiler_flags_conf]
<1>1. FillCompilers(s) = Updated(s, values)
  BY Zenon DEF FillCompilers
<1>2. DOMAIN values = FilledKeys
  BY CommonFact DEF FilledKeys
<1>3. \A k \in DOMAIN Common : values[k] = s[k] \o s[Common[k]]
  <2>1. /\ values["c_compiler_flags"] = s["c_compiler_flags"] \o s["compiler_flags"]
        /\ values["cxx_compiler_flags"] = s["cxx_compiler_flags"] \o s["compiler_flags"]
        /\ values["c_compiler_flags_conf"] =
              s["c_compiler_flags_conf"] \o s["compiler_flags_conf"]
        /\ values["cxx_compiler_flags_conf"] =
              s["cxx_compiler_flags_conf"] \o s["compiler_flags_conf"]
    OBVIOUS
  <2> HIDE DEF values
  <2> QED
    BY <2>1, CommonFact
<1> HIDE DEF values
<1> QED
  BY <1>1, <1>2, <1>3 DEF Updated, Get, FilledKeys

(* What a map says of a build holds after it was loaded.                   *)
LEMMA BuildSays ==
    ASSUME NEW s, NEW node
    PROVE  /\ DOMAIN LoadBuild(s, node) = DOMAIN s
           /\ SaidKeys \subseteq DOMAIN s => Obeys(LoadBuild(s, node), node)
<1>1. CASE node = NoFile
  BY <1>1, CommonFact DEF LoadBuild, NoFile, ChosenKeys, Obeys
<1>2. CASE node # NoFile
  <2> DEFINE o == Overlay(s, node, BuildKeys)
             given ==
            [build_dir_type |-> IF "build_dir" \in DOMAIN node THEN "none" ELSE s.build_dir_type,
             c_compiler_flags |-> Flags(s, node, "c_compiler_flags", "c_flags"),
             cxx_compiler_flags |-> Flags(s, node, "cxx_compiler_flags", "cxx_flags"),
             c_compiler_flags_conf |-> Flags(s, node, "c_compiler_flags_conf", "c_flags_conf"),
             cxx_compiler_flags_conf |-> Flags(s, node, "cxx_compiler_flags_conf", "cxx_flags_conf"),
             cmake_options |-> Get(node, "cmake_options", <<>>),
             additional_build_args |-> Get(node, "additional_build_args", <<>>),
             env |-> Get(node, "env", <<>>) @@ s.env]
             u == Updated(o, given)
  <2>1. LoadBuild(s, node) = FillCompilers(u)
    BY <1>2, Zenon DEF LoadBuild
  <2>2. /\ \A k \in ChosenKeys \cap DOMAIN s \cap DOMAIN node : o[k] = node[k]
        /\ DOMAIN o = DOMAIN s
    BY DEF Overlay, Get, ChosenKeys, BuildKeys
  <2>3. DOMAIN given = (DOMAIN Common) \cup
            {"build_dir_type", "cmake_options", "additional_build_args", "env"}
    BY CommonFact
  <2>4. \A k \in (DOMAIN Common) \cap DOMAIN node : node[k] # <<>> => given[k] = node[k]
    BY CommonFact DEF Flags, Get
  <2> HIDE DEF o, given
  <2>5. /\ DOMAIN u = DOMAIN s
        /\ \A k \in ChosenKeys \cap DOMAIN s \cap DOMAIN node : u[k] = node[k]
        /\ \A k \in (DOMAIN Common) \cap DOMAIN s \cap DOMAIN node :
              node[k] # <<>> => u[k] = node[k]
    BY <2>2, <2>3, <2>4, CommonFact DEF Updated, Get, ChosenKeys
  <2> HIDE DEF u
  <2>6. \A k \in ChosenKeys : k \notin FilledKeys
    BY CommonFact DEF ChosenKeys, FilledKeys
  <2>7. \A k \in DOMAIN Common : Common[k] \in ChosenKeys
    BY CommonFact DEF ChosenKeys
  <2>8. ASSUME SaidKeys \subseteq DOMAIN s PROVE Obeys(FillCompilers(u), node)
    <3>1. \A k \in ChosenKeys : FillCompilers(u)[k] = u[k]
      BY <2>5, <2>6, <2>8, FillKeeps DEF SaidKeys
    <3>2. \A k \in DOMAIN Common : FillCompilers(u)[k] = u[k] \o u[Common[k]]
      BY <2>5, <2>8, FillKeeps DEF SaidKeys
    <3> QED
      BY <2>5, <2>7, <2>8, <3>1, <3>2 DEF Obeys, SaidKeys
  <2> QED
    BY <2>1, <2>5, <2>8, FillKeeps
<1> QED
  BY <1>1, <1>2

(* A load ends with the chosen build, if there is one of that name.        *)
LEMMA MainSays ==
    ASSUME NEW s, NEW root, NEW type
    PROVE  /\ DOMAIN LoadMain(s, root, type) = DOMAIN s
           /\ type = "local" /\ ~Unknown(root) /\ SaidKeys \subseteq DOMAIN s =>
                Obeys(LoadMain(s, root, type), CurrentBuild(root))
<1>1. PICK main : /\ DOMAIN main = DOMAIN s
                  /\ LoadMain(s, root, type) =
                        IF type # "local" THEN main
                        ELSE IF Unknown(root) THEN LoadBuild(main, root) ELSE RootFirst(main, root)
  BY DEF LoadMain, Overlay, Updated
<1> QED
  BY <1>1, BuildSays DEF RootFirst

(* Settings have every key, from the defaults on.                          *)
LEMMA UserKeys == SaidKeys \subseteq DOMAIN UserSettings
<1>1. SaidKeys \subseteq DOMAIN Defaults
  BY CommonFact DEF SaidKeys, ChosenKeys, Defaults
<1> QED
  BY <1>1, MainSays DEF UserSettings, SystemSettings

LEMMA InitialKeys == \A c : SaidKeys \subseteq DOMAIN InitialSettings(c).s
<1> SUFFICES ASSUME NEW c PROVE SaidKeys \subseteq DOMAIN InitialSettings(c).s
  OBVIOUS
<1>1. InitialSettings(c).s \in {UserSettings, LoadMain(UserSettings, c.here, "local")}
  BY Zenon DEF InitialSettings
<1> QED
  BY <1>1, UserKeys, MainSays

(* The maps a command loads are a sequence.                                *)
LEMMA LoadsAre ==
    ASSUME NEW c \in Requested
    PROVE  Len(LoadsOf(c)) \in Nat /\ DOMAIN LoadsOf(c) = 1..Len(LoadsOf(c))
<1> DEFINE X == {WithCurrent(c.spec, c.config), c.spec, "current_build" :> c.config}
<1>1. c.kind \in {"spec", "cpp", "package"} /\ c.plain \in Nat
  BY CommandsAssumption DEF Requested
<1> HIDE DEF X
<1>4. <<WithCurrent(c.spec, c.config)>> \in Seq(X) /\ <<c.spec>> \in Seq(X) /\ <<>> \in Seq(X)
  BY DEF X
<1>2. CommentLoads(c) \in Seq(X)
  <2>1. [i \in 1..c.plain |-> "current_build" :> c.config] \in Seq(X)
    BY <1>1 DEF X
  <2> QED
    BY <1>4, <2>1, ConcatProperties DEF CommentLoads
<1>3. LoadsOf(c) \in Seq(X)
  <2>1. CASE c.kind = "spec"
    BY <1>4, <2>1, ConcatProperties DEF LoadsOf
  <2>2. CASE c.kind = "cpp"
    BY <1>2, <1>4, <2>2 DEF LoadsOf
  <2>3. CASE c.kind = "package"
    BY <1>4, <2>3 DEF LoadsOf
  <2> QED
    BY <1>1, <2>1, <2>2, <2>3
<1> QED
  BY <1>3

(* So the last load decides, whatever was loaded before.                   *)
LEMMA SettingsSay ==
    ASSUME NEW c \in Requested
    PROVE  Obeys(LoadSettings(c).s, Says(c))
<1> DEFINE n == Len(LoadsOf(c))
<1>1. n \in Nat /\ DOMAIN LoadsOf(c) = 1..n
  BY LoadsAre
<1>2. CASE n = 0
  <2>1. LoadsOf(c) = <<>>
    BY <1>1, <1>2
  <2> QED
    BY <2>1, CommonFact DEF Says, NoFile, ChosenKeys, Obeys
<1>3. CASE n # 0
  <2> HIDE DEF n
  <2>1. PICK f : /\ f[0] = InitialSettings(c)
                 /\ \A k \in 1..n : f[k] = Loaded(f[k - 1], LoadsOf(c)[k], c.at)
                 /\ f[n] = LoadSettings(c)
    BY <1>1, LoadsFold
  <2> DEFINE T == {k \in 0..n : SaidKeys \subseteq DOMAIN f[k].s}
  <2>2. 0 \in T
    BY <1>1, <2>1, InitialKeys
  <2>3. \A k \in 1..n : f[k].s = LoadMain(f[k - 1].s, LoadsOf(c)[k], "local")
    <3>1. \A t, root, at : Loaded(t, root, at).s = LoadMain(t.s, root, "local")
      BY DEF Loaded
    <3> QED
      BY <2>1, <3>1
  <2>4. \A k \in 1..n - 1 : k - 1 \in T => k \in T
    BY <1>1, <2>3, MainSays
  <2>5. n - 1 \in T
    <3> HIDE DEF T
    <3> QED
      BY <1>1, <1>3, <2>2, <2>4, UpTo
  <2>6. ~Unknown(LoadsOf(c)[n])
    BY <1>1, <1>3 DEF Requested, LoadFails
  <2>7. Says(c) = CurrentBuild(LoadsOf(c)[n])
    BY <1>1, <1>3 DEF Says, n
  <2>8. n \in 1..n /\ SaidKeys \subseteq DOMAIN f[n - 1].s
    BY <1>1, <1>3, <2>5
  <2> QED
    BY <2>1, <2>3, <2>6, <2>7, <2>8, MainSays
<1> QED
  BY <1>2, <1>3

(* What the chosen build says holds when a build starts, however often and *)
(* from wherever other settings were read into the same object before, the *)
(* flags of a language before the common ones (settings.cpp, load_main and *)
(* load_build).                                                            *)
THEOREM ChosenCorrect == Spec => []ChosenBuild
<1>1. Base => ChosenBuild
  <2> SUFFICES ASSUME Base, NEW p \in Procs, proc[p].stage = "lookup"
               PROVE  Obeys(proc[p].s, Says(proc[p].spec))
    BY DEF ChosenBuild
  <2>1. proc[p].spec \in Requested /\ proc[p].s = LoadSettings(proc[p].spec).s
    BY DEF Base, Known, Building
  <2> QED
    BY <2>1, SettingsSay
<1> QED
  BY <1>1, BaseAlways, PTL
=============================================================================

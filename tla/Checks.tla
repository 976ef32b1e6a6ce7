------------------------------- MODULE Checks -------------------------------
(***************************************************************************)
(* The checks of cppan.yml ("does this function exist?"), what happens to  *)
(* them on their way to the compiler's command line, and the file of       *)
(* results all projects of one configuration share.                        *)
(*                                                                         *)
(* checks.cpp loads the entries of a package, merges those of all packages *)
(* of a project and saves them to checks.yml.  When CMake configures the   *)
(* project, the helper file of printers/cmake.cpp reads the shared file,   *)
(* asks cppan to perform the unknown checks in several CMake processes,    *)
(* performs what is left itself, and writes the file back.                 *)
(*                                                                         *)
(* An entry is one item of the sequence (or map) of its key.  Entries that *)
(* make the loader throw, check prefixes and the copies made for them are  *)
(* left out.  Of the parameters of a check only one header is kept; the    *)
(* rest of its lists are handled alike.                                    *)
(***************************************************************************)
EXTENDS Integers, FiniteSets, TLC, SequencesExt

CONSTANTS
    Procs,          \* projects of one configuration, each with its build tree
    Names,          \* every word an entry may hold, in alphabetical order
    Stem,           \* Stem[n] = Stem[m]: n and m are the same word in capitals
                    \* with every other character replaced by _
    Setups,         \* Setups[s][p]: the entries of each package of p
    Worlds,         \* Worlds[w]: the probes that succeed
    Cases,          \* pairs of a setup and a world
    Jobs,           \* numbers of threads a machine may have
    FewChecks,      \* up to so many checks are not made in parallel (8)
    MaxRuns,        \* bound: configure steps of all projects
    MaxKills        \* bound: configure steps killed or failed

ASSUME ChecksAssumption ==
    /\ Names \in Seq(STRING) /\ Stem \in [ToSet(Names) -> ToSet(Names)]
    /\ Cases \subseteq (DOMAIN Setups) \X (DOMAIN Worlds)
    /\ Jobs \subseteq Nat \ {0}
    /\ FewChecks \in Nat /\ MaxRuns \in Nat /\ MaxKills \in Nat

Words == ToSet(Names)
Position(n) == CHOOSE i \in DOMAIN Names : Names[i] = n

(***************************************************************************)
(* Checks                                                                  *)
(***************************************************************************)
(* Mutant: declarations first.                                             *)
DeclFirst == <<"Decl", "Function", "Include", "Type", "Alignment", "Library",
               "LibraryFunction", "Symbol", "StructMember", "CSourceCompiles",
               "CSourceRuns", "CXXSourceCompiles", "CXXSourceRuns", "Custom">>
\* The order in which a set of checks is sorted and thus performed.
Types == <<"Function", "Include", "Type", "Alignment", "Library",
           "LibraryFunction", "Symbol", "StructMember", "CSourceCompiles",
           "CSourceRuns", "CXXSourceCompiles", "CXXSourceRuns", "Decl", "Custom">>
Rank(t) == CHOOSE i \in DOMAIN Types : Types[i] = t
Sources == {"CSourceCompiles", "CSourceRuns", "CXXSourceCompiles", "CXXSourceRuns", "Custom"}

Prefix(t) ==
    CASE t = "Alignment" -> "ALIGNOF_"
      [] t = "Library"   -> "HAVE_LIB"
      [] t = "Decl"      -> "HAVE_DECL_"
      [] t \in Sources   -> ""
      [] OTHER           -> "HAVE_"

IncludeVariable(h) == <<"HAVE_", Stem[h]>>
SizeVariables(n) == {<<"SIZEOF_", Stem[n]>>, <<"SIZE_OF_", Stem[n]>>}

(* what: the function, header, type, symbol or source that is looked for;  *)
(* of: the library or the struct it should be in.                          *)
Check(t, var, what, of, headers) ==
    [type |-> t, var |-> var, what |-> what, of |-> of, headers |-> headers,
     cpp |-> FALSE, invert |-> FALSE, default |-> FALSE]

Named(t, n, headers) == Check(t, <<Prefix(t), Stem[n]>>, n, "", headers)
Member(m, s, headers) ==
    Check("StructMember", <<"HAVE_", Stem[s], Stem[m]>>, m, s, headers)

Identity(c) == <<c.type, c.var, c.headers>>

(* Another check of the same identity stays, whatever it looks for.        *)
AddCheck(S, c) == IF \E o \in S : Identity(o) = Identity(c) THEN S ELSE S \cup {c}
Same(S, c) == CHOOSE o \in S : Identity(o) = Identity(c)
SetIn(S, c, field, v) ==
    LET T == AddCheck(S, c) o == Same(T, c) IN (T \ {o}) \cup {[o EXCEPT ![field] = v]}

(* By type, then variable, then parameters: CheckPtrLess.                  *)
VariablePrefixes == <<"", "ALIGNOF_", "HAVE_", "HAVE_DECL_", "HAVE_LIB", "SIZEOF_", "SIZE_OF_">>
VariableOrder(var) ==
    LET n == Len(Names) + 1
        prefix == CHOOSE i \in DOMAIN VariablePrefixes : VariablePrefixes[i] = var[1]
    IN  (prefix * n + Position(var[2])) * n + (IF Len(var) = 3 THEN Position(var[3]) ELSE 0)
HeaderOrder(headers) == IF headers = <<>> THEN 0 ELSE Position(headers[1])
Less(c, o) ==
    LET key(x) == <<Rank(x.type), VariableOrder(x.var), HeaderOrder(x.headers)>>
    IN  \E i \in 1..3 : /\ key(c)[i] < key(o)[i]
                        /\ \A j \in 1..(i - 1) : key(c)[j] = key(o)[j]

(* The variables and the headers a check may have.                         *)
HeaderLists == {<<>>} \cup {<<h>> : h \in Words}
Variable ==
    (ToSet(VariablePrefixes) \X Words) \cup {<<"HAVE_", s, m>> : s \in Words, m \in Words}

InOrder(S, Before(_, _)) ==
    [i \in 1..Cardinality(S) |-> CHOOSE x \in S : Cardinality({y \in S : Before(y, x)}) = i - 1]
Sorted(S) == InOrder(S, Less)

(***************************************************************************)
(* Loading and saving.  An entry has a key (the type it belongs to) and a  *)
(* form: "scalar" (a), "pair" (a map of the one item a: b) or "map", where *)
(* a is what it looks for, b the struct, library, variable or text, and    *)
(* headers and the flag (cpp or invert) may be there or not.               *)
(***************************************************************************)
Entry(key, form, a, b, headers, flag) ==
    [key |-> key, form |-> form, a |-> a, b |-> b, headers |-> headers, flag |-> flag]

Entries ==
    {e \in [key : ToSet(Types), form : {"scalar", "pair", "map"}, a : Words,
            b : Words \cup {""}, headers : HeaderLists, flag : {"", "true", "false"}] :
        \/ e.form = "pair" \/ e.key \in Sources \cup {"StructMember"}
        \/ e.key = "Include" /\ e.form = "map"
        => e.b \in Words}

ASSUME EntriesAssumption ==
    /\ {"size_t", "stdlib.h", "STDC_HEADERS", "stdc", "type", "decl", "symbol"} \subseteq Words
    /\ \A s \in DOMAIN Setups : \A p \in Procs : Setups[s][p] \in Seq(Seq(Entries))

Flag(b) == IF b THEN "true" ELSE "false"
FlagOf(e) == e.flag = "true"
HeadersOf(e) == CASE e.form = "scalar" -> <<>> [] e.form = "pair" -> <<e.b>> [] OTHER -> e.headers

(* "type: struct tm" is the type struct tm, not a type of that name.       *)
NoOneLiner(e) == FALSE                                               \* mutant
IsOneLiner(e) == e.form = "pair" /\ e.a = "type"
LoadType(S, e) ==
    AddCheck(S, IF IsOneLiner(e) THEN Named("Type", e.b, <<>>)
                ELSE Named("Type", e.a, HeadersOf(e)))
LoadFunction(S, e) == AddCheck(S, Named("Function", e.a, HeadersOf(e)))
LoadMember(S, e) ==
    AddCheck(S, Member(e.a, e.b, IF e.form = "pair" THEN <<>> ELSE e.headers))
LoadName(S, e) == AddCheck(S, Named(e.key, e.a, <<>>))
LoadDecl(S, e) == AddCheck(S, Named("Decl", e.a, HeadersOf(e)))
LoadInclude(S, e) ==
    IF e.form = "scalar" THEN LoadName(S, e)
    ELSE SetIn(S, Check("Include", <<"HAVE_", e.b>>, e.a, "", <<>>), "cpp", FlagOf(e))
LoadLibraryFunction(S, e) ==
    AddCheck(S, [Named("LibraryFunction", e.a, <<>>) EXCEPT !.of = e.b])
LoadSymbol(S, e) ==
    LET c == Named("Symbol", e.a, HeadersOf(e))
    IN  IF e.form = "map" /\ e.flag # "" THEN SetIn(S, c, "cpp", FlagOf(e)) ELSE AddCheck(S, c)
LoadSource(S, e) ==
    LET c == Check(e.key, <<"", e.a>>, e.b, "", <<>>)
    IN  IF e.form = "map" /\ e.flag # "" THEN SetIn(S, c, "invert", FlagOf(e)) ELSE AddCheck(S, c)

LoadEntry(S, e) ==
    IF e.key = "Function" THEN LoadFunction(S, e)
    ELSE IF e.key = "Type" THEN LoadType(S, e)
    ELSE IF e.key = "StructMember" THEN LoadMember(S, e)
    ELSE IF e.key \in {"Library", "Alignment"} THEN LoadName(S, e)
    ELSE IF e.key = "Decl" THEN LoadDecl(S, e)
    ELSE IF e.key = "Include" THEN LoadInclude(S, e)
    ELSE IF e.key = "LibraryFunction" THEN LoadLibraryFunction(S, e)
    ELSE IF e.key = "Symbol" THEN LoadSymbol(S, e)
    ELSE LoadSource(S, e)

LoadOrder == <<"Function", "Type", "StructMember", "Library", "Alignment", "Decl",
               "Include", "LibraryFunction", "Symbol", "CSourceCompiles", "CSourceRuns",
               "CXXSourceCompiles", "CXXSourceRuns", "Custom">>

(* Declarations are looked for with the headers that are there; two stand  *)
(* for the eleven checks that are added.  Defaults are not saved.          *)
DefaultTypes == <<Named("Type", "size_t", <<>>)>>
DeclChecks == <<Named("Include", "stdlib.h", <<>>),
                Check("CSourceCompiles", <<"", "STDC_HEADERS">>, "stdc", "", <<>>)>>
AddDefault(S, c) == SetIn(S, c, "default", TRUE)
AddDefaults(S, entries) ==
    FoldLeft(AddDefault, S, DefaultTypes \o
        (IF \E e \in ToSet(entries) : e.key = "Decl" THEN DeclChecks ELSE <<>>))

LoadIfOf(S, e, t) == IF e.key = t THEN LoadEntry(S, e) ELSE S
LoadKey(S, entries, t) == FoldLeft(LAMBDA T, e : LoadIfOf(T, e, t), S, entries)
LoadKeys(entries) == FoldLeft(LAMBDA S, t : LoadKey(S, entries, t), {}, LoadOrder)
Load(entries) == AddDefaults(LoadKeys(entries), entries)

SavedForm(c) ==
    CASE c.type \in {"Library", "Alignment"}                          -> "scalar"
      [] c.type = "Function" /\ c.headers = <<>>                     -> "scalar"
      [] c.type \in {"Type", "Decl"} /\ c.headers = <<>>              -> "pair"
      [] c.type = "Symbol" /\ c.headers = <<>> /\ ~c.cpp             -> "pair"
      [] OTHER                                                       -> "map"
\* The key a map of one item has: it is then read as the name of the check.
SavedKey(c) == CASE c.type = "Type" -> "type" [] c.type = "Decl" -> "decl" [] c.type = "Symbol" -> "symbol"
SaveCheck(c) ==
    IF SavedForm(c) = "scalar" THEN Entry(c.type, "scalar", c.what, "", <<>>, "")
    ELSE IF SavedForm(c) = "pair" THEN Entry(c.type, "pair", SavedKey(c), c.what, <<>>, "")
    ELSE IF c.type = "Include" THEN Entry(c.type, "map", c.what, c.var[2], <<>>, Flag(c.cpp))
    ELSE IF c.type \in Sources THEN Entry(c.type, "map", c.var[2], c.what, <<>>, Flag(c.invert))
    ELSE IF c.type = "Symbol"
        THEN Entry(c.type, "map", c.what, "", c.headers, IF c.cpp THEN "true" ELSE "")
    ELSE Entry(c.type, "map", c.what, c.of, c.headers, "")
Save(S) == [i \in DOMAIN Sorted({c \in S : ~c.default}) |-> SaveCheck(Sorted({c \in S : ~c.default})[i])]

(* operator+=: the checks of all packages of the project.                  *)
Merge(S, T) == FoldLeft(AddCheck, S, Sorted(T))
RootChecks(packages) ==
    FoldLeft(LAMBDA S, entries : Merge(S, Load(entries)), {}, packages)

(***************************************************************************)
(* Performing checks.  vars is what CMake's cache holds: a function from   *)
(* the variables defined in it to 0 and 1 (any value that is true).        *)
(***************************************************************************)
True(vars, var) == var \in DOMAIN vars /\ vars[var] = 1
Set(vars, var, v) == [x \in (DOMAIN vars) \cup {var} |-> IF x = var THEN v ELSE vars[x]]
\* set(CACHE) without FORCE
SetNew(vars, new) ==
    [x \in (DOMAIN vars) \cup new |-> IF x \in DOMAIN vars THEN vars[x] ELSE 1]

(* What the compiler is asked.  A declaration is looked for in the headers *)
(* whose variable is true.                                                 *)
Probe(c, vars) ==
    [type |-> c.type, what |-> c.what, of |-> c.of, headers |->
        IF c.type # "Decl" THEN ToSet(c.headers)
        ELSE {h \in ToSet(c.headers) \cup {"stdlib.h"} :
                \/ True(vars, IncludeVariable(h))
                \/ h = "stdlib.h" /\ True(vars, <<"", "STDC_HEADERS">>)}]
Found(c, vars, world) == Probe(c, vars) \in Worlds[world]
Value(c, vars, world) == IF Found(c, vars, world) # c.invert THEN 1 ELSE 0
IsOk(c, v) == IF c.invert THEN v = 0 ELSE v = 1

(* add_variable: the array holds what will be written to the shared file.  *)
Replaces(old, v) == old = 0 /\ v = 1
AddVariable(array, var, v) ==
    IF \E i \in DOMAIN array : array[i][1] = var
    THEN [i \in DOMAIN array |->
            IF array[i][1] = var /\ Replaces(array[i][2], v) THEN <<var, v>> ELSE array[i]]
    ELSE Append(array, <<var, v>>)

ReadLine(s, l) ==
    [vars |-> Set(s.vars, l[1], l[2]), array |-> AddVariable(s.array, l[1], l[2]), raw |-> s.raw]
ReadLines(s, ls) == FoldLeft(ReadLine, s, ls)

(* One check of the helper file: it is made if its variable is not defined *)
(* and a symbol or type that is there defines further variables.  CMake    *)
(* caches what it found; the inversion is a variable on top of the cache,  *)
(* gone when CMake ends: raw.                                              *)
IsDefined(s, c) == c.var \in DOMAIN s.vars                            \* mutant
IsThere(s, c) == True(s.vars, c.var)
MakeCheck(s, c, world) ==
    LET v == Value(c, s.vars, world)
    IN  IF c.var \in DOMAIN s.vars THEN s
        ELSE [vars |-> Set(s.vars, c.var, v), array |-> AddVariable(s.array, c.var, v),
              raw |-> IF c.invert THEN s.raw \cup {c.var} ELSE s.raw]
AddHeader(s, h) ==
    LET vs == SetNew(s.vars, {IncludeVariable(h)})
    IN  [vars |-> vs, array |-> AddVariable(s.array, IncludeVariable(h), vs[IncludeVariable(h)]),
         raw |-> s.raw]
WriteCheck(s, c, world) ==
    LET made == MakeCheck(s, c, world)
    IN  IF ~IsThere(made, c) THEN made
        ELSE IF c.type = "Symbol" THEN FoldLeft(AddHeader, made, c.headers)
        ELSE IF c.type = "Type" THEN [made EXCEPT !.vars = SetNew(@, SizeVariables(c.what))]
        ELSE made
WriteChecks(s, sorted, world) == FoldLeft(LAMBDA t, c : WriteCheck(t, c, world), s, sorted)

(* A worker makes its checks one after the other in one CMake, where a     *)
(* variable that is cached is not looked for again, and writes each value  *)
(* to a file named for the variable and the parameters, one more for each  *)
(* header of a symbol that is there.  What is read is what is in the files *)
(* at the end.                                                             *)
FileOf(c) == <<c.var, c.headers>>
HeaderFiles(c, v) ==
    {<<IncludeVariable(h), <<>> >> : h \in {x \in ToSet(c.headers) : c.type = "Symbol" /\ v = 1}}
WriteFiles(of, c, v) ==
    [o \in (DOMAIN of) \cup {c} |->
        CASE FileOf(o) = FileOf(c) -> v
          [] FileOf(o) # FileOf(c) /\ FileOf(o) \in HeaderFiles(c, v) -> 1
          [] OTHER -> of[o]]
MakeAlone(t, c, world) ==
    LET v == IF c.var \notin DOMAIN t.vars THEN Value(c, t.vars, world)
             ELSE IF c.invert THEN 1 - t.vars[c.var] ELSE t.vars[c.var]
    IN  [vars |-> Set(t.vars, c.var, v), of |-> WriteFiles(t.of, c, v)]
Worker(cs, world) ==
    FoldLeft(LAMBDA t, c : MakeAlone(t, c, world), [vars |-> <<>>, of |-> <<>>], cs)
WorkerValues(S, world) == Worker(Sorted(S), world).of

(* Declarations are left to the helper; the others are dealt out in turn.  *)
Scatter(S, n) ==
    LET dealt == Sorted({c \in S : c.type # "Decl"})
    IN  [w \in 1..n |-> {dealt[i] : i \in {j \in DOMAIN dealt : (j - 1) % n = w - 1}}]

RemoveKnown(S, known) == {c \in S : c.var \notin known}

(* vars.txt: headers of symbols that were found, then each variable once,  *)
(* with the value of its first check that is ok, else of its last.         *)
VariablesOf(c) == {c.var} \cup (IF c.type = "Type" THEN SizeVariables(c.what) ELSE {})
ChooseValue(f, c, values) ==
    IF c.var \in DOMAIN f /\ IsOk(f[c.var], values[f[c.var]]) THEN f
    ELSE [var \in (DOMAIN f) \cup VariablesOf(c) |-> IF var \in VariablesOf(c) THEN c ELSE f[var]]
PrintHeader(ls, c, values) ==
    IF c.type = "Symbol" /\ values[c] = 1 /\ c.headers # <<>>
    THEN Append(ls, <<IncludeVariable(c.headers[1]), 1>>) ELSE ls
ChosenChecks(cs, values) == FoldLeft(LAMBDA f, c : ChooseValue(f, c, values), <<>>, cs)
FoundHeaders(cs, values) == FoldLeft(LAMBDA ls, c : PrintHeader(ls, c, values), <<>>, cs)
LineLess(l, m) == VariableOrder(l[1]) < VariableOrder(m[1])
SortedLines(ls) == InOrder(ls, LineLess)
PrintValues(values) ==
    LET S == Sorted(DOMAIN values)
        chosen == ChosenChecks(S, values)
    IN  FoundHeaders(S, values)
        \o SortedLines({<<var, values[chosen[var]]>> : var \in DOMAIN chosen})

(* The compiler's definitions: a declaration is defined as 1 or as 0,      *)
(* other variables if they are true.                                       *)
Definitions(vars, S) ==
    {<<c.var, IF True(vars, c.var) THEN 1 ELSE 0>> : c \in {x \in S : x.type = "Decl"}}
    \cup {<<var, 1>> : var \in {v \in UNION {VariablesOf(c) : c \in S} : True(vars, v)}}

(***************************************************************************)
(* Configuring a project                                                   *)
(***************************************************************************)
VARIABLES
    setup,          \* which entries the projects have
    world,          \* and what the compiler finds
    jobs,           \* threads cppan uses for checks
    exists, lines,  \* the shared file: pairs of a variable and its value
    holder,         \* who holds the file's lock: a set of at most one project
    step,           \* step[p]: where CMake is, "idle" when it does not run
    run,            \* run[p]: vars, array and raw, CMake's variables
    cache,          \* cache[p]: those CMakeCache.txt keeps between runs
    count, kills    \* bounded counters

shared == <<exists, lines, holder>>
bounds == <<count, kills>>
vars == <<setup, world, jobs, shared, step, run, cache, bounds>>

(* The same for every state of a setup, and computed once.                 *)
Roots == [s \in DOMAIN Setups |-> [p \in Procs |-> RootChecks(Setups[s][p])]]
SavedRoots == [s \in DOMAIN Setups |-> [p \in Procs |-> Load(Save(Roots[s][p]))]]
SortedRoots == [s \in DOMAIN Setups |-> [p \in Procs |-> Sorted(Roots[s][p])]]
Root(p) == Roots[setup][p]
ChecksFile(p) == SavedRoots[setup][p]

Empty == [vars |-> <<>>, array |-> <<>>, raw |-> {}]
Steps == {"idle", "read", "parallel", "write", "append"}

Init ==
    /\ \E case \in Cases : setup = case[1] /\ world = case[2]
    /\ jobs \in Jobs
    /\ exists = FALSE /\ lines = <<>> /\ holder = {}
    /\ step = [p \in Procs |-> "idle"]
    /\ run = [p \in Procs |-> Empty] /\ cache = [p \in Procs |-> Empty]
    /\ count = 0 /\ kills = 0

(* Every run reads the file once.                                          *)
Configure(p) ==
    /\ step[p] = "idle" /\ count < MaxRuns
    /\ step' = [step EXCEPT ![p] = "read"]
    /\ run' = [run EXCEPT ![p] = cache[p]]
    /\ count' = count + 1
    /\ UNCHANGED <<setup, world, jobs, shared, cache, kills>>

LockFree == holder = {}
Kept(p) == holder                                                    \* mutant
Released(p) == holder \ {p}

ReadFile(p) ==
    /\ step[p] = "read"
    /\ exists => LockFree
    /\ run' = [run EXCEPT ![p] = IF exists THEN ReadLines(@, lines) ELSE @]
    /\ step' = [step EXCEPT ![p] = "parallel"]
    /\ UNCHANGED <<setup, world, jobs, shared, cache, bounds>>

(* The parallel checker.  It does not take the lock CMake takes (its own   *)
(* lock files are elsewhere) and may read a file that is being written.    *)
Unknown(p) == RemoveKnown(ChecksFile(p), {l[1] : l \in ToSet(lines)})
InParallel(p) ==
    jobs > 1 /\ Cardinality({c \in Unknown(p) : c.type # "Decl"}) > FewChecks

(* A worker whose CMake fails is left out.                                 *)
Joined(f, g) == [x \in (DOMAIN f) \cup (DOMAIN g) |-> IF x \in DOMAIN f THEN f[x] ELSE g[x]]
AddWorker(f, w, parts, valid) ==
    IF w \in valid THEN Joined(f, WorkerValues(parts[w], world)) ELSE f
AddWorkers(parts, valid, ws) == FoldLeft(LAMBDA f, w : AddWorker(f, w, parts, valid), <<>>, ws)
ParallelChecks(p, valid) ==
    PrintValues(AddWorkers(Scatter(Unknown(p), jobs), valid, [w \in 1..jobs |-> w]))

Checker(p) ==
    /\ step[p] = "parallel"
    /\ \/ ~InParallel(p) /\ UNCHANGED run
       \/ /\ InParallel(p)
          /\ \E valid \in SUBSET (1..jobs) :
                run' = [run EXCEPT ![p] = ReadLines(@, ParallelChecks(p, valid))]
    /\ step' = [step EXCEPT ![p] = "write"]
    /\ UNCHANGED <<setup, world, jobs, shared, cache, bounds>>

\* what CMake writes when it ends
Saved(s) ==
    [vars |-> [var \in DOMAIN s.vars |-> IF var \in s.raw THEN 1 - s.vars[var] ELSE s.vars[var]],
     array |-> s.array, raw |-> {}]

(* If cppan fails, CMake ends at once with an error, and still writes      *)
(* CMakeCache.txt.                                                         *)
CheckerFails(p) ==
    /\ step[p] = "parallel" /\ kills < MaxKills
    /\ kills' = kills + 1
    /\ step' = [step EXCEPT ![p] = "idle"]
    /\ run' = [run EXCEPT ![p] = Empty]
    /\ cache' = [cache EXCEPT ![p] = Saved(run[p])]
    /\ UNCHANGED <<setup, world, jobs, shared, count>>

(* The helper makes the checks that are left and opens the file to write,  *)
(* which it always does: a variable is taken as new whenever the parallel  *)
(* checker was called, and WORDS_BIGENDIAN is there at least.              *)
OpenFile(p) ==
    /\ step[p] = "write" /\ LockFree
    /\ run' = [run EXCEPT ![p] = WriteChecks(@, SortedRoots[setup][p], world)]
    /\ holder' = {p} /\ exists' = TRUE /\ lines' = <<>>
    /\ step' = [step EXCEPT ![p] = "append"]
    /\ UNCHANGED <<setup, world, jobs, cache, bounds>>

AppendLine(p) ==
    /\ step[p] = "append" /\ Len(lines) < Len(run[p].array)
    /\ lines' = Append(lines, run[p].array[Len(lines) + 1])
    /\ UNCHANGED <<setup, world, jobs, exists, holder, step, run, cache, bounds>>

(* The lock is released and CMake ends.                                    *)
CloseFile(p) ==
    /\ step[p] = "append" /\ Len(lines) = Len(run[p].array)
    /\ holder' = Released(p)
    /\ step' = [step EXCEPT ![p] = "idle"]
    /\ run' = [run EXCEPT ![p] = Empty]
    /\ cache' = [cache EXCEPT ![p] = Saved(run[p])]
    /\ UNCHANGED <<setup, world, jobs, exists, lines, bounds>>

(* CMake is killed.  The system releases the lock, CMakeCache.txt is not   *)
(* written, and the file stays as it is.                                   *)
Kill(p) ==
    /\ step[p] # "idle" /\ kills < MaxKills
    /\ kills' = kills + 1
    /\ holder' = Released(p)
    /\ step' = [step EXCEPT ![p] = "idle"]
    /\ run' = [run EXCEPT ![p] = Empty]
    /\ UNCHANGED <<setup, world, jobs, exists, lines, cache, count>>

Advance(p) ==
    ReadFile(p) \/ Checker(p) \/ CheckerFails(p) \/ OpenFile(p) \/ AppendLine(p) \/ CloseFile(p)
Next == \E p \in Procs : Configure(p) \/ Advance(p) \/ Kill(p)
Spec == Init /\ [][Next]_vars

(***************************************************************************)
(* Properties                                                              *)
(***************************************************************************)
AllChecks == UNION {Root(p) : p \in Procs}
Bits == {0, 1}
IsArray(a) == \A i \in DOMAIN a : Len(a[i]) = 2 /\ a[i][2] \in Bits
IsCMake(s) == Range(s.vars) \subseteq Bits /\ IsArray(s.array) /\ s.raw \subseteq DOMAIN s.vars

(* A lock is held by a project that writes.                                *)
TypeOK ==
    /\ <<setup, world>> \in Cases /\ jobs \in Jobs
    /\ exists \in BOOLEAN /\ IsArray(lines)
    /\ step \in [Procs -> Steps]
    /\ holder \subseteq {p \in Procs : step[p] = "append"}
    /\ \A p \in Procs : IsCMake(run[p]) /\ IsCMake(cache[p])
    /\ count \in 0..MaxRuns /\ kills \in 0..MaxKills

(* What a check finds if nothing goes wrong: a declaration then sees every *)
(* header that is there.                                                   *)
Headers == {c \in AllChecks : c.type = "Include" \/ c.var = <<"", "STDC_HEADERS">>}
TrueHeaders ==
    [var \in {c.var : c \in Headers} |->
        IF \E c \in Headers : c.var = var /\ Found(c, <<>>, world) THEN 1 ELSE 0]
Ideal(c) == Value(c, TrueHeaders, world)

Defines(c, var) ==
    \/ c.var = var
    \/ c.type = "Type" /\ var \in SizeVariables(c.what)
    \/ c.type = "Symbol" /\ \E h \in ToSet(c.headers) : var = IncludeVariable(h)
Justified(var) == \E c \in AllChecks : Defines(c, var) /\ Ideal(c) = 1

Inverted(var) == \E c \in AllChecks : c.var = var /\ c.invert

(* Nothing is said to be there that is not: a true value in the shared     *)
(* file, in what a project is about to write or in the variables it uses   *)
(* comes from a check of that variable that succeeds, whatever was killed, *)
(* failed or was overwritten.                              *)
(* An inverted check may be: a project that is configured again without    *)
(* finding it in the shared file uses what CMakeCache.txt holds, which is  *)
(* the value before it was inverted.                                       *)
NothingInvented ==
    \A p \in Procs :
        /\ \A l \in ToSet(lines) \cup ToSet(run[p].array) : l[2] = 1 => Justified(l[1])
        /\ \A var \in DOMAIN run[p].vars :
                run[p].vars[var] = 1 /\ ~Inverted(var) => Justified(var)

(* "After successful check a definition ... will be available"             *)
(* (doc/cppan.yml:292): when a project is configured each variable of its  *)
(* checks is defined, and the compiler gets a definition exactly if the    *)
(* check succeeds, when no other check shares the variable.                *)
Alone(c) == \A o \in AllChecks \ {c} : ~Defines(o, c.var)
Configured(p) == step[p] = "append"
Available ==
    \A p \in Procs : Configured(p) => \A c \in Root(p) :
        /\ c.var \in DOMAIN run[p].vars
        /\ Alone(c) /\ ~c.invert =>
                (<<c.var, 1>> \in Definitions(run[p].vars, Root(p)) <=> Ideal(c) = 1)
        /\ Alone(c) /\ c.invert => <<c.var, Ideal(c)>> \in ToSet(run[p].array)

(* The same for checks that share a variable.                              *)
AvailableToAll ==
    \A p \in Procs : Configured(p) => \A c \in Root(p) :
        Ideal(c) = 1 /\ ~c.invert => <<c.var, 1>> \in Definitions(run[p].vars, Root(p))

(* What the parallel checker reads back from checks.yml are the checks of  *)
(* the project.  Declarations, and symbols without a header, are read back *)
(* as something else: they do not take part.                               *)
ReadBack(c) == c.type # "Decl" /\ ~(c.type = "Symbol" /\ c.headers = <<>> /\ ~c.cpp)
CheckerAsksSame ==
    \A p \in Procs : {c \in Root(p) : ReadBack(c)} =
        {c \in ChecksFile(p) : ReadBack(c) /\ c.what \notin {"symbol"}}

(* What of the checks of a project makes it so: none that is read back is  *)
(* named symbol, and the default ones are those loading checks.yml adds,   *)
(* neither merged with what an entry asks for nor left out.                *)
Defaults(S) ==
    ToSet(DefaultTypes) \cup (IF \E c \in S : c.type = "Decl" THEN ToSet(DeclChecks) ELSE {})
Rereadable(S) ==
    /\ {c \in S : c.default} = {[d EXCEPT !.default = TRUE] : d \in Defaults(S)}
    /\ \A c \in S : ReadBack(c) =>
            c.what # "symbol" /\ ~(c.type = "Symbol" /\ Stem[c.what] = Stem["symbol"])
RereadableProjects == \A p \in Procs : Rereadable(Root(p))

(* A variable is in the file once: what two projects write does not mix.   *)
LinesOnce == \A i, j \in DOMAIN lines : lines[i][1] = lines[j][1] => i = j

(* The file can be trusted by the project that reads it next               *)
(* (printers/cmake.cpp, print_helper_file; functions.cmake,                *)
(* read_variables_file, write_variables_file).                             *)
FileRight == NothingInvented /\ LinesOnce

(* What makes the file trustworthy, of the entries of the projects and of  *)
(* the compiler.  Asked are the checks of the projects and those the       *)
(* parallel checker reads back.                                            *)
Asked == UNION {Root(p) \cup {c \in ChecksFile(p) : c.type # "Decl"} : p \in Procs}

(* No other check defines the variable of an inverted one, a check is not  *)
(* read back as one that succeeds for another variable, and what a type or *)
(* a symbol defines is there if its variable is, whoever set it.           *)
InvertedAlone == \A c, o \in Asked : o.invert /\ Defines(c, o.var) => Identity(c) = Identity(o)
AskedTruly ==
    \A c \in Asked : c.type # "Decl" /\ Value(c, <<>>, world) = 1 => Justified(c.var)
DefinedTogether ==
    \A c \in {x \in Asked : Justified(x.var)} :
        /\ c.type = "Type" => \A var \in SizeVariables(c.what) : Justified(var)
        /\ c.type = "Symbol" => \A h \in ToSet(c.headers) : Justified(IncludeVariable(h))

(* A declaration that is found in some of its headers that are there is    *)
(* found in all of them, and no header's variable is inverted.             *)
HeaderVariables(h) ==
    {IncludeVariable(h)} \cup (IF h = "stdlib.h" THEN {<<"", "STDC_HEADERS">>} ELSE {})
DeclHeaders(c) == ToSet(c.headers) \cup {"stdlib.h"}
There(c) == {h \in DeclHeaders(c) : \E var \in HeaderVariables(h) : Justified(var)}
DeclIn(c, H) ==
    [type |-> c.type, what |-> c.what, of |-> c.of, headers |-> H] \in Worlds[world]
DeclsSteady ==
    \A c \in {x \in AllChecks : x.type = "Decl"} :
        /\ \A H \in SUBSET There(c) : DeclIn(c, H) => Justified(c.var)
        /\ \A h \in DeclHeaders(c) : \A var \in HeaderVariables(h) : ~Inverted(var)

Consistent == InvertedAlone /\ AskedTruly /\ DefinedTogether /\ DeclsSteady

(* What makes it complete: the same of what is not there.  A declaration   *)
(* is found with those of its headers that are there which its own project *)
(* looks for, if it is found at all.                                       *)
Refuted(var) == \E c \in AllChecks : var \in VariablesOf(c) /\ Ideal(c) = 0
FailsTruly == \A c \in Asked : c.type # "Decl" /\ Value(c, <<>>, world) = 0 => Refuted(c.var)
MissingTogether ==
    \A c \in {x \in Asked : x.type = "Type" /\ Refuted(x.var)} :
        \A var \in SizeVariables(c.what) : Refuted(var)
LookedFor(S) == {c.var : c \in {x \in S : x.type \notin {"Decl", "Custom"}}}
Own(c, S) ==
    {h \in DeclHeaders(c) : \E var \in HeaderVariables(h) : var \in LookedFor(S) /\ ~Refuted(var)}
DeclsFound ==
    \A p \in Procs : \A c \in {x \in Root(p) : x.type = "Decl"} : \A H \in SUBSET There(c) :
        Own(c, Root(p)) \subseteq H /\ ~DeclIn(c, H) => Refuted(c.var)

Complete == FailsTruly /\ MissingTogether /\ DeclsFound
=============================================================================

------------------------ MODULE CMakeGenerateProofs ------------------------
(***************************************************************************)
(* The safety properties of CMakeGenerate, for every set of runs, packages *)
(* and configurations, every layered dependency graph and every edit list. *)
(*                                                                         *)
(* None of the properties is inductive: each is kept because of what the   *)
(* frames below the innermost one are waiting for.  The inductive          *)
(* invariants say it frame by frame.  Base (types, the shape of a stack,   *)
(* and who holds which lock) is proved first; what is in the build trees   *)
(* (Fresh), in the source files (Edited, Once) and built (BuiltInv) is     *)
(* then proved on top of it, each on its own.                              *)
(*                                                                         *)
(* Every action changes the stack of one process in one of five ways       *)
(* (StackStep); the lemma ActionCases is the table of which action does    *)
(* what, and the proofs about frames go by that table.                     *)
(***************************************************************************)
EXTENDS CMakeGenerate, TLAPS, SequenceTheorems

USE GenerateAssumption

-----------------------------------------------------------------------------
(* The inductive invariants.                                               *)

(* The shape of a stack: the user's project is at the bottom and nowhere   *)
(* else, all but the innermost frame wait in a loop over dependencies, a   *)
(* build is never nested in a preparation nor the other way round, and a   *)
(* frame is for something that all the frames below it depend on.          *)
Waiting == {"configure", "exports", "b_deps"}
BuildStages == {"b_check", "b_lock"} \cup BuildLocked

FrameShape(f) ==
    /\ f.pkg = Root => f.at \in {"configure", "b_deps"}
    /\ f.at \in {"lock"} \cup EditLocked => f.edit <= Len(Edits[f.pkg])
    /\ f.at \in {"configure", "exports"} => f.left \subseteq Direct[f.pkg]
    /\ f.at = "b_deps" => f.left \subseteq BuildDeps(f.pkg)

StackShape ==
    \A p \in Procs : \A i \in 1..Len(stack[p]) :
        /\ FrameShape(stack[p][i])
        /\ stack[p][i].pkg = Root <=> i = 1
        /\ i < Len(stack[p]) => stack[p][i].at \in Waiting
        /\ \A j \in 1..Len(stack[p]) :
              /\ stack[p][i].at \in BuildStages <=> stack[p][j].at \in BuildStages
              /\ i < j => stack[p][j].pkg \in BuildDeps(stack[p][i].pkg)

(* A process holds the lock of a tree when one of its frames is in the     *)
(* locked stages, nobody else does, and no two of its frames are there for *)
(* the same tree.  A file is locked by an innermost frame only.            *)
InStack(frames, k, stages) ==
    \E i \in 1..Len(frames) : frames[i].pkg = k /\ frames[i].at \in stages
OnceInStack(frames, stages) ==
    \A i, j \in 1..Len(frames) :
        i < j /\ frames[i].at \in stages /\ frames[j].at \in stages
            => frames[i].pkg # frames[j].pkg

Holding(lock, stacks, c, stages) ==
    /\ \A t \in Trees : \A p \in Procs :
          p \in lock[t] <=> c[p] = t[2] /\ InStack(stacks[p], t[1], stages)
    /\ \A t \in Trees : \A p, q \in lock[t] : p = q
    /\ \A p \in Procs : OnceInStack(stacks[p], stages)

EditsFile(frames, k) ==
    /\ Len(frames) > 0 /\ frames[Len(frames)].pkg = k
    /\ frames[Len(frames)].at \in EditLocked

HoldsFile ==
    /\ \A k \in Pkgs : \A p \in Procs : p \in editing[k] <=> EditsFile(stack[p], k)
    /\ \A k \in Pkgs : \A p, q \in editing[k] : p = q

Locks ==
    /\ Holding(generating, stack, conf, Locked)
    /\ Holding(building, stack, conf, BuildLocked)
    /\ HoldsFile

(* While a tree is configured its fixed import file was not written for    *)
(* this version of CMake yet, and its import file is there when it is.     *)
Unfixed == {"configure", "edit", "lock", "export", "open"} \cup EditLocked

FrameFresh(f, c, v, op, cm, im) ==
    f.pkg \in Pkgs =>
        /\ f.at \in Unfixed => v \notin op[<<f.pkg, c>>] /\ v \in cm[<<f.pkg, c>>]
        /\ f.at \in {"open", "fix"} => <<f.pkg, c>> \in im
        /\ f.at = "fix" => v \in op[<<f.pkg, c>>]

Files(fx, op, cm, im) ==
    \A t \in Trees : /\ op[t] \subseteq cm[t]
                     /\ fx[t] = "absent" <=> op[t] = {}
                     /\ fx[t] # "absent" => t \in im

Fresh ==
    /\ Files(fixed, opened, cmakes, import)
    /\ \A p \in Procs : \A i \in 1..Len(stack[p]) :
          FrameFresh(stack[p][i], conf[p], version[p], opened, cmakes, import)

(* The edits before the one a frame is at are in the file, and all of them *)
(* when the tree is exported.                                              *)
FrameEdited(f, src) ==
    f.pkg \in Pkgs =>
        /\ \A n \in 1..Len(Edits[f.pkg]) : n < f.edit => Edits[f.pkg][n] \in Range(src[f.pkg])
        /\ f.at \in {"flag", "record", "unlock"} =>
              Edits[f.pkg][f.edit] \in Range(src[f.pkg])
        /\ f.at = "export" => f.edit > Len(Edits[f.pkg])

Edited ==
    /\ \A k \in Pkgs : flags[k] \subseteq Range(source[k])
    /\ \A p \in Procs : \A i \in 1..Len(stack[p]) : FrameEdited(stack[p][i], source)
    /\ EditedBeforeExport

(* As long as no run was killed: a file has its first edits in order, and  *)
(* flags and hash agree with it whenever nobody edits it; the frame that   *)
(* does knows how far it is.                                               *)
Settled(k, src, fl, h) == fl[k] = Range(src[k]) /\ (h[k] = src[k] \/ src[k] = <<>>)

FrameOnce(f, src, fl, h) ==
    f.pkg \in Pkgs =>
        /\ f.edit <= Len(src[f.pkg]) + 1
        /\ f.at \in {"again", "write"} => Settled(f.pkg, src, fl, h)
        /\ f.at = "write" => Len(src[f.pkg]) = f.edit - 1
        /\ f.at = "flag" => /\ Len(src[f.pkg]) = f.edit
                            /\ fl[f.pkg] \cup {Edits[f.pkg][f.edit]} = Range(src[f.pkg])
        /\ f.at \in {"record", "unlock"} => /\ fl[f.pkg] = Range(src[f.pkg])
                                            /\ f.edit <= Len(src[f.pkg])
        /\ f.at = "unlock" => h[f.pkg] = src[f.pkg]

Ordered(k, src) ==
    /\ Len(src[k]) <= Len(Edits[k])
    /\ \A n \in 1..Len(src[k]) : src[k][n] = Edits[k][n]

Once ==
    deaths = 0 =>
        /\ \A k \in Pkgs : Ordered(k, source)
        /\ \A k \in Pkgs : editing[k] = {} => Settled(k, source, flags, hash)
        /\ \A p \in Procs : \A i \in 1..Len(stack[p]) :
              FrameOnce(stack[p][i], source, flags, hash)

(* A frame that builds has built what its loop has left behind, but for    *)
(* the package that the frame above it is at.                              *)
Visited(frames, i) == {d \in Pkgs : i < Len(frames) /\ frames[i + 1].pkg = d}

BuiltFrame(f, visited, c, tg) ==
    /\ f.at = "b_unlock" => <<f.pkg, c>> \in tg
    /\ f.at = "b_build" => \A d \in BuildDeps(f.pkg) : <<d, c>> \in tg
    /\ f.at = "b_deps" =>
          \A d \in BuildDeps(f.pkg) : d \in f.left \/ d \in visited \/ <<d, c>> \in tg

BuiltInv ==
    /\ Built
    /\ \A p \in Procs : \A i \in 1..Len(stack[p]) :
          BuiltFrame(stack[p][i], Visited(stack[p], i), conf[p], target)

-----------------------------------------------------------------------------
(* The closure of dependencies.                                            *)
LEMMA BuildDepsClosed ==
    ASSUME NEW k \in Users
    PROVE  /\ BuildDeps(k) \subseteq Pkgs
           /\ Direct[k] \subseteq BuildDeps(k)
           /\ \A d \in BuildDeps(k) : Direct[d] \subseteq BuildDeps(k)
BY DEF BuildDeps, Reached, Users

(* What is reached is in every set that is closed.                         *)
LEMMA BuildDepsLeast ==
    ASSUME NEW k \in Users, NEW C \in SUBSET Pkgs, Direct[k] \subseteq C,
           \A e \in C : Direct[e] \subseteq C
    PROVE  BuildDeps(k) \subseteq C
BY DEF BuildDeps, Reached

(* What a dependency depends on is a dependency.                           *)
LEMMA BuildDepsTransitive ==
    ASSUME NEW k \in Users, NEW d \in BuildDeps(k)
    PROVE  d \in Users /\ BuildDeps(d) \subseteq BuildDeps(k)
<1>1. d \in Users /\ Direct[d] \subseteq BuildDeps(k)
  BY BuildDepsClosed DEF Users
<1> QED
  BY <1>1, BuildDepsClosed, BuildDepsLeast

(* A dependency is direct, or one of a direct dependency.                  *)
LEMMA BuildDepsFirst ==
    ASSUME NEW k \in Pkgs, NEW d \in BuildDeps(k)
    PROVE  d \in Direct[k] \/ \E e \in Direct[k] : d \in BuildDeps(e)
<1> DEFINE C == Direct[k] \cup UNION {BuildDeps(e) : e \in Direct[k]}
<1>1. Direct[k] \subseteq Pkgs
  BY DEF Users
<1>2. C \in SUBSET Pkgs
  BY <1>1, BuildDepsClosed DEF Users
<1>3. ASSUME NEW e \in C PROVE Direct[e] \subseteq C
  BY <1>1, BuildDepsClosed DEF Users
<1>4. BuildDeps(k) \subseteq C
  <2> HIDE DEF C
  <2> QED
    BY <1>2, <1>3, BuildDepsLeast, ZenonT(60) DEF Users, C
<1> QED
  BY <1>4

-----------------------------------------------------------------------------
(* What the operations on a stack do, frame by frame.                      *)
Others(p) ==
    /\ stack' \in [Procs -> Seq(Frames)]
    /\ \A q \in Procs : q # p => stack'[q] = stack[q]
Below(p) == \A i \in 1..Len(stack[p]) : i < Len(stack[p]) => stack'[p][i] = stack[p][i]

(* The frame that was the innermost one, after the step.                   *)
NewTop(p) == stack'[p][Len(stack[p])]

Moved(p) ==
    /\ stack[p] # <<>> /\ Others(p) /\ Below(p)
    /\ Len(stack'[p]) = Len(stack[p]) /\ NewTop(p) \in Frames
Pushed(p, g) ==
    /\ stack[p] # <<>> /\ Others(p) /\ Below(p)
    /\ Len(stack'[p]) = Len(stack[p]) + 1 /\ NewTop(p) \in Frames
    /\ stack'[p][Len(stack[p]) + 1] = g
Popped(p) ==
    /\ stack[p] # <<>> /\ Others(p) /\ Below(p)
    /\ Len(stack'[p]) = Len(stack[p]) - 1

StacksTyped == stack \in [Procs -> Seq(Frames)]

(* What a stack and its innermost frame are.                               *)
LEMMA StackTyped ==
    ASSUME StacksTyped, NEW p \in Procs
    PROVE  /\ stack[p] \in Seq(Frames) /\ Len(stack[p]) \in Nat
           /\ DOMAIN stack[p] = 1..Len(stack[p])
           /\ stack[p] = <<>> <=> Len(stack[p]) = 0
           /\ \A i \in 1..Len(stack[p]) : stack[p][i] \in Frames
           /\ stack[p] # <<>> => /\ Len(stack[p]) \in 1..Len(stack[p])
                                 /\ Top(p) = stack[p][Len(stack[p])]
                                 /\ Top(p) \in Frames
<1>1. stack[p] \in Seq(Frames)
  BY DEF StacksTyped
<1>2. Len(stack[p]) \in Nat /\ DOMAIN stack[p] = 1..Len(stack[p])
  BY <1>1, LenProperties
<1>3. \A i \in 1..Len(stack[p]) : stack[p][i] \in Frames
  BY <1>1, ElementOfSeq
<1>4. stack[p] = <<>> <=> Len(stack[p]) = 0
  BY <1>1, EmptySeq
<1> QED
  BY <1>1, <1>2, <1>3, <1>4 DEF Top, Last

(* The operations of the model, in these terms.                            *)
LEMMA ReplaceMoves ==
    ASSUME StacksTyped, NEW p \in Procs, stack[p] # <<>>, NEW f \in Frames, Replace(p, f)
    PROVE  Moved(p) /\ NewTop(p) = f
<1> DEFINE n == Len(stack[p])
<1>1. stack[p] \in Seq(Frames) /\ n \in 1..n
  BY StackTyped
<1>2. stack' = [stack EXCEPT ![p] = [stack[p] EXCEPT ![n] = f]]
  BY DEF Replace
<1>3. /\ [stack[p] EXCEPT ![n] = f] \in Seq(Frames)
      /\ Len([stack[p] EXCEPT ![n] = f]) = n
      /\ \A j \in 1..n : [stack[p] EXCEPT ![n] = f][j] = IF j = n THEN f ELSE stack[p][j]
  BY <1>1, ExceptSeq
<1> QED
  BY <1>1, <1>2, <1>3 DEF Moved, NewTop, Others, Below, StacksTyped

(* Visiting takes the dependency off the loop and adds a frame on top.     *)
LEMMA VisitPushes ==
    ASSUME StacksTyped, NEW p \in Procs, stack[p] # <<>>, NEW d, NEW g \in Frames,
           Visit(p, d, g)
    PROVE  Pushed(p, g) /\ NewTop(p) = [Top(p) EXCEPT !.left = @ \ {d}]
<1> DEFINE n == Len(stack[p])
           f == [Top(p) EXCEPT !.left = @ \ {d}]
           s == [stack[p] EXCEPT ![n] = f]
<1>1. stack[p] \in Seq(Frames) /\ n \in 1..n /\ Top(p) = stack[p][n] /\ Top(p) \in Frames
  BY StackTyped
<1>2. f \in Frames
  BY <1>1 DEF Frames
<1>3. stack' = [stack EXCEPT ![p] = Append(s, g)]
  BY <1>1 DEF Visit
<1>4. /\ s \in Seq(Frames) /\ Len(s) = n
      /\ \A j \in 1..n : s[j] = IF j = n THEN f ELSE stack[p][j]
  BY <1>1, <1>2, ExceptSeq
<1> HIDE DEF s, f
<1>5. /\ Append(s, g) \in Seq(Frames) /\ Len(Append(s, g)) = n + 1
      /\ \A j \in 1..n : Append(s, g)[j] = s[j]
      /\ Append(s, g)[n + 1] = g
  BY <1>4, AppendProperties
<1> DEFINE a == Append(s, g)
<1> HIDE DEF n, a
<1>6. stack'[p] = a /\ Others(p)
  <2>1. stack' = [stack EXCEPT ![p] = a] /\ a \in Seq(Frames)
    BY <1>3, <1>5 DEF a
  <2> QED
    BY <2>1 DEF Others, StacksTyped
<1>7. /\ Len(a) = n + 1 /\ a[n + 1] = g /\ a[n] = f
      /\ \A j \in 1..n : j < n => a[j] = stack[p][j]
  BY <1>1, <1>4, <1>5 DEF a
<1>8. Pushed(p, g) /\ NewTop(p) = f
  BY <1>1, <1>2, <1>6, <1>7 DEF n, Pushed, NewTop, Below
<1> QED
  BY <1>8 DEF f

(* Returning takes the innermost frame off.                                *)
LEMMA ReturnPops ==
    ASSUME StacksTyped, NEW p \in Procs, stack[p] # <<>>, Return(p)
    PROVE  Popped(p)
<1> DEFINE n == Len(stack[p])
<1>1. stack[p] \in Seq(Frames) /\ n \in 1..n
      /\ \A i \in 1..n - 1 : stack[p][i] \in Frames
  BY StackTyped
<1>2. stack' = [stack EXCEPT ![p] = SubSeq(stack[p], 1, n - 1)]
  BY DEF Return, Front
<1>3. /\ SubSeq(stack[p], 1, n - 1) \in Seq(Frames)
      /\ Len(SubSeq(stack[p], 1, n - 1)) = n - 1
      /\ \A i \in 1..n - 1 : SubSeq(stack[p], 1, n - 1)[i] = stack[p][i]
  BY <1>1, SubSeqProperties
<1> QED
  BY <1>1, <1>2, <1>3 DEF Popped, Others, Below, StacksTyped

(* A frame changes its stage, what its loop has left, or its edit.         *)
Keeping(p) == Moved(p) /\ NewTop(p).pkg = Top(p).pkg

(* The operations that only move the innermost frame keep its package.     *)
LEMMA GotoMoves ==
    ASSUME StacksTyped, NEW p \in Procs, stack[p] # <<>>, NEW s \in Stages, Goto(p, s)
    PROVE  /\ Keeping(p) /\ NewTop(p).at = s
           /\ NewTop(p).left = Top(p).left /\ NewTop(p).edit = Top(p).edit
<1>1. Top(p) \in Frames
  BY StackTyped
<1>2. [Top(p) EXCEPT !.at = s] \in Frames
  BY <1>1 DEF Frames
<1>3. Moved(p) /\ NewTop(p) = [Top(p) EXCEPT !.at = s]
  BY <1>2, ReplaceMoves DEF Goto
<1> QED
  BY <1>1, <1>3 DEF Keeping, Frames

(* A loop starts with the packages it has to visit.                        *)
LEMMA LoopMoves ==
    ASSUME StacksTyped, NEW p \in Procs, stack[p] # <<>>, NEW s \in Stages,
           NEW S \in SUBSET Pkgs, Loop(p, s, S)
    PROVE  /\ Keeping(p) /\ NewTop(p).at = s
           /\ NewTop(p).left = S /\ NewTop(p).edit = Top(p).edit
<1>1. Top(p) \in Frames
  BY StackTyped
<1>2. [Top(p) EXCEPT !.at = s, !.left = S] \in Frames
  BY <1>1 DEF Frames
<1>3. Moved(p) /\ NewTop(p) = [Top(p) EXCEPT !.at = s, !.left = S]
  BY <1>2, ReplaceMoves DEF Loop
<1> QED
  BY <1>1, <1>3 DEF Keeping, Frames

(* The next edit of the same package.                                      *)
LEMMA NextEditMoves ==
    ASSUME StacksTyped, NEW p \in Procs, stack[p] # <<>>, NextEdit(p)
    PROVE  /\ Keeping(p) /\ NewTop(p).at = "edit"
           /\ NewTop(p).left = Top(p).left /\ NewTop(p).edit = Top(p).edit + 1
<1>1. Top(p) \in Frames /\ "edit" \in Stages
  BY StackTyped DEF Stages, Locked
<1> DEFINE e == Top(p).edit + 1
<1>2. [Top(p) EXCEPT !.at = "edit", !.edit = e] \in Frames
  <2>1. e \in Nat \ {0}
    BY <1>1 DEF Frames
  <2> QED
    BY <1>1, <2>1 DEF Frames
<1>3. Moved(p) /\ NewTop(p) = [Top(p) EXCEPT !.at = "edit", !.edit = @ + 1]
  BY <1>2, ReplaceMoves DEF NextEdit
<1> QED
  BY <1>1, <1>3 DEF Keeping, Frames

(* The first check of a build notes whether the stamp was there.           *)
LEMMA RebuildMoves ==
    ASSUME StacksTyped, NEW p \in Procs, stack[p] # <<>>, NEW b \in BOOLEAN,
           Replace(p, [Top(p) EXCEPT !.at = "b_lock", !.rebuild = b])
    PROVE  /\ Keeping(p) /\ NewTop(p).at = "b_lock"
           /\ NewTop(p).left = Top(p).left /\ NewTop(p).edit = Top(p).edit
<1>1. Top(p) \in Frames
  BY StackTyped
<1>2. [Top(p) EXCEPT !.at = "b_lock", !.rebuild = b] \in Frames
  BY <1>1 DEF Frames, Stages
<1>3. Moved(p) /\ NewTop(p) = [Top(p) EXCEPT !.at = "b_lock", !.rebuild = b]
  BY <1>2, ReplaceMoves
<1> QED
  BY <1>1, <1>3 DEF Keeping, Frames

(* The next dependency of a loop gets a frame of its own.                  *)
LEMMA VisitFrames ==
    ASSUME StacksTyped, NEW p \in Procs, stack[p] # <<>>, NEW d \in Pkgs, NEW s \in Stages,
           Visit(p, d, Frame(s, d, {}))
    PROVE  /\ Pushed(p, Frame(s, d, {})) /\ Frame(s, d, {}) \in Frames
           /\ NewTop(p).at = Top(p).at /\ NewTop(p).pkg = Top(p).pkg
           /\ NewTop(p).left = Top(p).left \ {d} /\ NewTop(p).edit = Top(p).edit
<1>1. Top(p) \in Frames
  BY StackTyped
<1>2. Frame(s, d, {}) \in Frames
  BY DEF Frame, Frames, Users
<1>3. Pushed(p, Frame(s, d, {})) /\ NewTop(p) = [Top(p) EXCEPT !.left = @ \ {d}]
  BY <1>2, VisitPushes
<1> QED
  BY <1>1, <1>2, <1>3 DEF Frames

-----------------------------------------------------------------------------
(* What a step of p does to its stack and to the locks.  The lock of a     *)
(* class of stages is taken by the step that enters the class, while it is *)
(* free, and given back by the one that leaves it.                         *)
Crosses(p, lock, after, t, stages, from, to) ==
    \/ after = lock /\ (from \in stages <=> to \in stages)
    \/ /\ from \notin stages /\ to \in stages
       /\ lock[t] = {} /\ after = [lock EXCEPT ![t] = {p}]
    \/ from \in stages /\ to \notin stages /\ after = [lock EXCEPT ![t] = {}]

Turns(p, to) ==
    /\ Crosses(p, generating, generating', Tree(p), Locked, Top(p).at, to)
    /\ Crosses(p, building, building', Tree(p), BuildLocked, Top(p).at, to)
    /\ Crosses(p, editing, editing', Top(p).pkg, EditLocked, Top(p).at, to)

LocksKept == UNCHANGED <<generating, building, editing>>
LocksGiven(p) ==
    /\ generating' = [t \in Trees |-> generating[t] \ {p}]
    /\ building' = [t \in Trees |-> building[t] \ {p}]
    /\ editing' = [k \in Pkgs |-> editing[k] \ {p}]

Begins(p) ==
    /\ stack[p] = <<>> /\ Others(p) /\ status' = [status EXCEPT ![p] = "running"]
    /\ stack'[p] = <<Frame("configure", Root, Direct[Root])>> /\ LocksKept
Ends(p) ==
    /\ Others(p) /\ stack'[p] = <<>>
    /\ \E s \in {"done", "failed"} : status' = [status EXCEPT ![p] = s]
    /\ LocksGiven(p) \/ (Len(stack[p]) = 1 /\ LocksKept)
Moves(p) ==
    /\ Keeping(p) /\ FrameShape(NewTop(p)) /\ status' = status
    /\ \/ NewTop(p).edit = Top(p).edit
       \/ /\ NewTop(p).edit = Top(p).edit + 1 /\ NewTop(p).at = "edit"
          /\ Top(p).edit <= Len(Edits[Top(p).pkg])
    /\ \/ Top(p).pkg = Root /\ LocksKept
       \/ /\ Top(p).pkg # Root /\ Turns(p, NewTop(p).at)
          /\ Top(p).at \in BuildStages <=> NewTop(p).at \in BuildStages
VisitsTo(p, d, s) ==
    /\ d \in BuildDeps(Top(p).pkg) /\ s \in {"check", "b_check"}
    /\ Pushed(p, Frame(s, d, {}))
    /\ NewTop(p).at = Top(p).at /\ NewTop(p).pkg = Top(p).pkg
    /\ NewTop(p).left = Top(p).left \ {d} /\ NewTop(p).edit = Top(p).edit
    /\ FrameShape(NewTop(p))
    /\ Top(p).at \in Waiting /\ status' = status
    /\ Top(p).at \in BuildStages <=> s \in BuildStages
    /\ LocksKept
Visits(p) == \E d, s : VisitsTo(p, d, s)
Returns(p) == Popped(p) /\ Top(p).pkg # Root /\ Turns(p, "gone") /\ status' = status

(* Where the innermost frame of p goes.                                    *)
To(p, s) == Moves(p) /\ NewTop(p).at = s /\ NewTop(p).edit = Top(p).edit
ToNextEdit(p) == Moves(p) /\ NewTop(p).at = "edit" /\ NewTop(p).edit = Top(p).edit + 1

(* What every action does to the stack of its process.                     *)
LEMMA ActionCases ==
    ASSUME TypeOK, StackShape, NEW p \in Procs
    PROVE  /\ Start(p) => Begins(p)
           /\ Die(p) => Ends(p)
           /\ StartBuild(p) => To(p, "b_deps") /\ NewTop(p).left = BuildDeps(Top(p).pkg)
           /\ Finish(p) => Ends(p)
           /\ Check(p) => To(p, IF Prepared(Tree(p), version[p]) THEN "exports" ELSE "try")
           /\ TryLock(p) => \E s \in {"double", "wait"} : To(p, s)
           /\ WaitLock(p) => To(p, "double")
           /\ WaitTimeout(p) => Ends(p)
           /\ DoubleCheck(p) => To(p, IF Prepared(Tree(p), version[p]) THEN "release" ELSE "configure")
           /\ \A d \in Pkgs : IncludeGenerate(p, d) => VisitsTo(p, d, "check")
           /\ \A d \in Pkgs : BuildNext(p, d) => VisitsTo(p, d, "b_check")
           /\ StartEdits(p) => To(p, "edit")
           /\ EditsDone(p) => To(p, "export")
           /\ CheckEdit(p) => IF Applied(Top(p).pkg, CurrentEdit(p))
                              THEN ToNextEdit(p) ELSE To(p, "lock")
           /\ LockFile(p) => To(p, "again")
           /\ CheckEditAgain(p) => To(p, IF Applied(Top(p).pkg, CurrentEdit(p))
                                         THEN "unlock" ELSE "write")
           /\ WriteEdit(p) => To(p, "flag")
           /\ FlagEdit(p) => To(p, "record")
           /\ RecordHash(p) => To(p, "unlock")
           /\ UnlockFile(p) => ToNextEdit(p)
           /\ Export(p) => To(p, "open")
           /\ OpenFixed(p) => To(p, "fix")
           /\ WriteFixed(p) => To(p, "release")
           /\ Release(p) => To(p, "exports")
           /\ ExportsDone(p) => To(p, "include")
           /\ Include(p) => Returns(p) \/ Ends(p)
           /\ CheckBuild(p) => \/ Tree(p) \in target /\ Returns(p)
                               \/ To(p, "b_lock")
           /\ LockBuild(p) => To(p, "b_double")
           /\ DoubleCheckBuild(p) => \/ Tree(p) \in target /\ To(p, "b_unlock")
                                     \/ To(p, "b_save")
           /\ SaveStamp(p) => To(p, "b_deps") /\ NewTop(p).left = BuildDeps(Top(p).pkg)
           /\ BuildDepsDone(p) => To(p, "b_build")
           /\ Build(p) => To(p, "b_unlock")
           /\ UnlockBuild(p) => Returns(p)
<1> USE DEF setup, imports, trees, builds, sources
<1>typed. StacksTyped
  BY DEF TypeOK, StacksTyped
<1>stages. /\ {"check", "try", "wait", "exports", "include", "b_check", "b_lock",
               "double", "configure", "edit", "lock", "again", "write", "flag", "record",
               "unlock", "export", "open", "fix", "release",
               "b_double", "b_save", "b_deps", "b_build", "b_unlock"} \subseteq Stages
  BY DEF Stages, Locked, BuildLocked
<1>direct. \A k \in Users : GenerateDeps(k) \in SUBSET Pkgs /\ BuildDeps(k) \in SUBSET Pkgs
                           /\ GenerateDeps(k) = Direct[k]
  BY BuildDepsClosed DEF GenerateDeps
<1>top. ASSUME status[p] = "running"
        PROVE  /\ stack[p] # <<>> /\ Top(p) \in Frames /\ FrameShape(Top(p))
               /\ Top(p).pkg \in Users
               /\ Top(p).pkg = Root => Len(stack[p]) = 1
  <2>1. stack[p] # <<>>
    BY <1>top DEF TypeOK
  <2>2. Len(stack[p]) \in 1..Len(stack[p]) /\ Top(p) = stack[p][Len(stack[p])]
        /\ Top(p) \in Frames
    BY <1>typed, <2>1, StackTyped
  <2> QED
    BY <2>1, <2>2 DEF StackShape, Frames
<1>1. ASSUME Start(p) PROVE Begins(p)
  <2>1. stack[p] = <<>>
    BY <1>1 DEF Start, TypeOK
  <2>2. Frame("configure", Root, Direct[Root]) \in Frames
    BY <1>stages, <1>direct DEF Frame, Frames, Users
  <2>3. stack' = [stack EXCEPT ![p] = <<Frame("configure", Root, Direct[Root])>>]
    BY <1>1, <1>direct DEF Start, Users
  <2>4. <<Frame("configure", Root, Direct[Root])>> \in Seq(Frames)
    BY <2>2
  <2>5. Others(p) /\ stack'[p] = <<Frame("configure", Root, Direct[Root])>>
    BY <1>typed, <2>3, <2>4 DEF Others, StacksTyped
  <2> QED
    BY <1>1, <2>1, <2>5 DEF Start, Begins, LocksKept
<1>fail. ASSUME Fail(p) PROVE Ends(p)
  <2>1. Others(p) /\ stack'[p] = <<>>
    BY <1>typed, <1>fail DEF Fail, Others, StacksTyped
  <2> QED
    BY <1>fail, <2>1 DEF Fail, Ends, LocksGiven
<1>2. ASSUME Die(p) PROVE Ends(p)
  BY <1>2, <1>fail DEF Die
<1>goto. ASSUME status[p] = "running", NEW s \in Stages, Goto(p, s)
         PROVE  /\ Keeping(p) /\ NewTop(p).at = s
                /\ NewTop(p).left = Top(p).left /\ NewTop(p).edit = Top(p).edit
  BY <1>goto, <1>top, <1>typed, GotoMoves
<1>loop. ASSUME status[p] = "running", NEW s \in Stages, NEW S \in SUBSET Pkgs,
                Loop(p, s, S)
         PROVE  /\ Keeping(p) /\ NewTop(p).at = s
                /\ NewTop(p).left = S /\ NewTop(p).edit = Top(p).edit
  BY <1>loop, <1>top, <1>typed, LoopMoves
<1>return. ASSUME status[p] = "running", Return(p) PROVE Popped(p)
  BY <1>return, <1>top, <1>typed, ReturnPops
<1>visit. ASSUME status[p] = "running", NEW d \in Pkgs, NEW s \in Stages,
                 Visit(p, d, Frame(s, d, {}))
          PROVE  /\ Pushed(p, Frame(s, d, {}))
                 /\ NewTop(p).at = Top(p).at /\ NewTop(p).pkg = Top(p).pkg
                 /\ NewTop(p).left = Top(p).left \ {d} /\ NewTop(p).edit = Top(p).edit
  BY <1>visit, <1>top, <1>typed, VisitFrames
<1> USE <1>stages, <1>top DEF Keeping, LocksKept, FrameShape, At, Turns, Crosses,
         Locked, BuildLocked, EditLocked, BuildStages, Moves, To, ToNextEdit
<1>3. ASSUME StartBuild(p)
      PROVE  To(p, "b_deps") /\ NewTop(p).left = BuildDeps(Top(p).pkg)
  BY <1>3, <1>loop, <1>direct DEF StartBuild
<1>4. ASSUME Finish(p)
      PROVE  Ends(p)
  BY <1>4, <1>return, <1>typed, StackTyped DEF Finish, Ends, Popped, Others
<1>5. ASSUME Check(p)
      PROVE  To(p, IF Prepared(Tree(p), version[p]) THEN "exports" ELSE "try")
  BY <1>5, <1>goto, <1>loop, <1>direct DEF Check
<1>6. ASSUME TryLock(p)
      PROVE  \E s \in {"double", "wait"} : To(p, s)
  BY <1>6, <1>goto DEF TryLock
<1>7. ASSUME WaitLock(p)
      PROVE  To(p, "double")
  BY <1>7, <1>goto DEF WaitLock
<1>8. ASSUME WaitTimeout(p)
      PROVE  Ends(p)
  BY <1>fail, <1>8 DEF WaitTimeout
<1>9. ASSUME DoubleCheck(p)
      PROVE  To(p, IF Prepared(Tree(p), version[p]) THEN "release" ELSE "configure")
  BY <1>9, <1>goto, <1>loop, <1>direct DEF DoubleCheck, Configure
<1>10. ASSUME NEW d \in Pkgs, IncludeGenerate(p, d) PROVE VisitsTo(p, d, "check")
  BY <1>10, <1>visit, BuildDepsClosed DEF IncludeGenerate, VisitsTo, Waiting
<1>11. ASSUME NEW d \in Pkgs, BuildNext(p, d) PROVE VisitsTo(p, d, "b_check")
  BY <1>11, <1>visit, BuildDepsClosed DEF BuildNext, VisitsTo, Waiting
<1>12. ASSUME StartEdits(p)
      PROVE  To(p, "edit")
  BY <1>12, <1>goto DEF StartEdits
<1>13. ASSUME EditsDone(p)
      PROVE  To(p, "export")
  BY <1>13, <1>goto DEF EditsDone
<1>14. ASSUME CheckEdit(p)
      PROVE  IF Applied(Top(p).pkg, CurrentEdit(p)) THEN ToNextEdit(p) ELSE To(p, "lock")
  BY <1>14, <1>goto, <1>typed, NextEditMoves DEF CheckEdit
<1>15. ASSUME LockFile(p)
      PROVE  To(p, "again")
  BY <1>15, <1>goto DEF LockFile
<1>16. ASSUME CheckEditAgain(p)
      PROVE  To(p, IF Applied(Top(p).pkg, CurrentEdit(p)) THEN "unlock" ELSE "write")
  BY <1>16, <1>goto DEF CheckEditAgain
<1>17. ASSUME WriteEdit(p)
      PROVE  To(p, "flag")
  BY <1>17, <1>goto DEF WriteEdit
<1>18. ASSUME FlagEdit(p)
      PROVE  To(p, "record")
  BY <1>18, <1>goto DEF FlagEdit
<1>19. ASSUME RecordHash(p)
      PROVE  To(p, "unlock")
  BY <1>19, <1>goto DEF RecordHash
<1>20. ASSUME UnlockFile(p)
      PROVE  ToNextEdit(p)
  BY <1>20, <1>typed, NextEditMoves DEF UnlockFile
<1>21. ASSUME Export(p)
      PROVE  To(p, "open")
  BY <1>21, <1>goto DEF Export
<1>22. ASSUME OpenFixed(p)
      PROVE  To(p, "fix")
  BY <1>22, <1>goto DEF OpenFixed
<1>23. ASSUME WriteFixed(p)
      PROVE  To(p, "release")
  BY <1>23, <1>goto DEF WriteFixed
<1>24. ASSUME Release(p)
      PROVE  To(p, "exports")
  BY <1>24, <1>loop, <1>direct DEF Release
<1>25. ASSUME ExportsDone(p)
      PROVE  To(p, "include")
  BY <1>25, <1>goto DEF ExportsDone
<1>26. ASSUME Include(p)
      PROVE  Returns(p) \/ Ends(p)
  BY <1>26, <1>return, <1>fail DEF Include, Returns
<1>27. ASSUME CheckBuild(p)
      PROVE  (Tree(p) \in target /\ Returns(p)) \/ To(p, "b_lock")
  BY <1>27, <1>return, <1>typed, RebuildMoves DEF CheckBuild, Returns
<1>28. ASSUME LockBuild(p)
      PROVE  To(p, "b_double")
  BY <1>28, <1>goto DEF LockBuild
<1>29. ASSUME DoubleCheckBuild(p)
      PROVE  (Tree(p) \in target /\ To(p, "b_unlock")) \/ To(p, "b_save")
  BY <1>29, <1>goto DEF DoubleCheckBuild
<1>30. ASSUME SaveStamp(p)
      PROVE  To(p, "b_deps") /\ NewTop(p).left = BuildDeps(Top(p).pkg)
  BY <1>30, <1>loop, <1>direct DEF SaveStamp
<1>31. ASSUME BuildDepsDone(p)
      PROVE  To(p, "b_build")
  BY <1>31, <1>goto DEF BuildDepsDone
<1>32. ASSUME Build(p)
      PROVE  To(p, "b_unlock")
  BY <1>32, <1>goto DEF Build
<1>33. ASSUME UnlockBuild(p)
      PROVE  Returns(p)
  BY <1>33, <1>return DEF UnlockBuild, Returns
<1> QED
  BY <1>1, <1>2, <1>3, <1>4, <1>5, <1>6, <1>7, <1>8, <1>9, <1>10, <1>11, <1>12, <1>13,
     <1>14, <1>15, <1>16, <1>17, <1>18, <1>19, <1>20, <1>21, <1>22, <1>23, <1>24, <1>25,
     <1>26, <1>27, <1>28, <1>29, <1>30, <1>31, <1>32, <1>33

(* There is nothing else that a step does to a stack.                      *)
LEMMA StepCases ==
    ASSUME TypeOK, StackShape, NEW p \in Procs, Start(p) \/ Die(p) \/ Step(p)
    PROVE  Begins(p) \/ Ends(p) \/ Moves(p) \/ Visits(p) \/ Returns(p)
<1>1. ASSUME NEW s, To(p, s) PROVE Moves(p)
  BY <1>1 DEF To
<1>2. ASSUME ToNextEdit(p) PROVE Moves(p)
  BY <1>2 DEF ToNextEdit
<1>3. ASSUME NEW d, NEW s, VisitsTo(p, d, s) PROVE Visits(p)
  BY <1>3 DEF Visits
<1> QED
  BY <1>1, <1>2, <1>3, ActionCases DEF Step

StackStep(p) == Begins(p) \/ Ends(p) \/ Moves(p) \/ Visits(p) \/ Returns(p)

(* The frames after a step are those of before, but for the innermost one  *)
(* of p, which is another or goes, and the one that p adds.                *)
LEMMA FramesAfter ==
    ASSUME StacksTyped, StackShape, NEW p \in Procs, StackStep(p)
    PROVE  /\ StacksTyped'
           /\ \A q \in Procs : q # p => stack'[q] = stack[q]
           /\ Len(stack[p]) \in Nat /\ Len(stack'[p]) \in Nat
           /\ \A i \in 1..Len(stack'[p]) :
                 \/ i < Len(stack[p]) /\ stack'[p][i] = stack[p][i]
                 \/ /\ i = Len(stack[p]) /\ (Moves(p) \/ Visits(p))
                    /\ stack[p][i] = Top(p) /\ stack'[p][i] = NewTop(p)
                    /\ NewTop(p).pkg = Top(p).pkg /\ FrameShape(NewTop(p))
                    /\ \/ NewTop(p).edit = Top(p).edit
                       \/ /\ NewTop(p).edit = Top(p).edit + 1
                          /\ Top(p).edit <= Len(Edits[Top(p).pkg])
                 \/ /\ Visits(p) /\ i = Len(stack[p]) + 1
                    /\ stack'[p][i].at \in {"check", "b_check"}
                    /\ stack'[p][i].pkg \in BuildDeps(Top(p).pkg)
                    /\ stack'[p][i].edit = 1
                 \/ /\ Begins(p) /\ i = 1 /\ Len(stack'[p]) = 1 /\ Len(stack[p]) = 0
                    /\ stack'[p][i].at = "configure" /\ stack'[p][i].pkg = Root
                    /\ stack'[p][i].left = Direct[Root] /\ stack'[p][i].edit = 1
<1>1. Len(stack[p]) \in Nat /\ (stack[p] # <<>> => Top(p) = stack[p][Len(stack[p])])
      /\ (stack[p] = <<>> => Len(stack[p]) = 0)
  BY StackTyped
<1>2. Others(p)
  BY DEF StackStep, Begins, Ends, Moves, Visits, VisitsTo, Returns, Keeping, Moved, Pushed, Popped
<1>3. StacksTyped' /\ stack'[p] \in Seq(Frames)
  BY <1>2 DEF Others, StacksTyped
<1>4. Len(stack'[p]) \in Nat
  BY <1>3, LenProperties
<1>5. CASE Begins(p)
  BY <1>1, <1>2, <1>3, <1>4, <1>5 DEF Begins, Others, Frame
<1>6. CASE Ends(p)
  BY <1>1, <1>2, <1>3, <1>4, <1>6 DEF Ends, Others
<1>7. CASE Moves(p)
  BY <1>1, <1>2, <1>3, <1>4, <1>7 DEF Moves, Keeping, Moved, Others, Below, NewTop
<1>8. CASE Visits(p)
  <2>1. PICK d, s : VisitsTo(p, d, s)
    BY <1>8 DEF Visits
  <2> QED
    <3>1. /\ stack[p] # <<>> /\ Len(stack'[p]) = Len(stack[p]) + 1
          /\ \A j \in 1..Len(stack[p]) : j < Len(stack[p]) => stack'[p][j] = stack[p][j]
          /\ stack'[p][Len(stack[p])] = NewTop(p)
          /\ stack'[p][Len(stack[p]) + 1] = Frame(s, d, {})
      BY <2>1 DEF VisitsTo, Pushed, Below, NewTop
    <3>2. /\ Frame(s, d, {}).at \in {"check", "b_check"}
          /\ Frame(s, d, {}).pkg \in BuildDeps(Top(p).pkg)
          /\ Frame(s, d, {}).edit = 1
      BY <2>1 DEF VisitsTo, Frame
    <3>3. ASSUME NEW i \in 1..Len(stack'[p])
          PROVE  i < Len(stack[p]) \/ i = Len(stack[p]) \/ i = Len(stack[p]) + 1
      BY <1>1, <3>1
    <3> QED
      BY <1>1, <1>2, <1>3, <1>4, <1>8, <2>1, <3>1, <3>2, <3>3 DEF Others, VisitsTo
<1>9. CASE Returns(p)
  BY <1>1, <1>2, <1>3, <1>4, <1>9 DEF Returns, Popped, Others, Below, NewTop
<1> QED
  BY <1>5, <1>6, <1>7, <1>8, <1>9 DEF StackStep

(* The stacks keep their shape.                                            *)
LEMMA ShapeStep ==
    ASSUME StacksTyped, StackShape, NEW p \in Procs, StackStep(p)
    PROVE  StackShape'
<1> DEFINE Shape(st, n, i) ==
        /\ FrameShape(st[i])
        /\ st[i].pkg = Root <=> i = 1
        /\ i < n => st[i].at \in Waiting
        /\ \A j \in 1..n :
              /\ st[i].at \in BuildStages <=> st[j].at \in BuildStages
              /\ i < j => st[j].pkg \in BuildDeps(st[i].pkg)
<1> DEFINE n == Len(stack[p])
           m == Len(stack'[p])
<1>0. stack[p] # <<>> => n \in 1..n /\ Top(p) = stack[p][n]
                         /\ Top(p).pkg \in Users
  BY StackTyped DEF Frames
<1>after. /\ \A q \in Procs : q # p => stack'[q] = stack[q]
          /\ n \in Nat /\ m \in Nat
  BY FramesAfter
<1>shape. \A q \in Procs : \A i \in 1..Len(stack[q]) : Shape(stack[q], Len(stack[q]), i)
  BY DEF StackShape
<1>now. \A i \in 1..n : Shape(stack[p], n, i)
  BY <1>shape
<1>1. ASSUME NEW i \in 1..m PROVE Shape(stack'[p], m, i)
  <2>1. CASE Begins(p)
    <3>1. m = 1 /\ i = 1 /\ stack'[p][1] = Frame("configure", Root, Direct[Root])
      BY <2>1 DEF Begins
    <3> QED
      BY <3>1 DEF Frame, FrameShape, EditLocked
  <2>2. CASE Ends(p)
    BY <2>2 DEF Ends
  <2>3. CASE Moves(p)
    <3>1. /\ stack[p] # <<>> /\ m = n
          /\ \A j \in 1..n : j < n => stack'[p][j] = stack[p][j]
          /\ stack'[p][n] = NewTop(p) /\ NewTop(p).pkg = Top(p).pkg
          /\ FrameShape(NewTop(p))
      BY <2>3 DEF Moves, Keeping, Moved, Below, NewTop
    <3>2. n = 1 \/ (Top(p).at \in BuildStages <=> NewTop(p).at \in BuildStages)
      BY <1>0, <1>now, <2>3, <3>1 DEF Moves
    <3> HIDE DEF n, m
    <3>3. \A j \in 1..n : j < n \/ j = n
      BY <1>after
    <3>4. \A j \in 1..n : /\ stack'[p][j].pkg = stack[p][j].pkg
                          /\ j < n => stack'[p][j] = stack[p][j]
      BY <1>0, <3>1, <3>3 DEF n
    <3>5. \A j \in 1..n : FrameShape(stack'[p][j])
      BY <1>0, <1>now, <3>1, <3>3, <3>4
    <3>6. n # 1 => \A j \in 1..n :
              stack'[p][j].at \in BuildStages <=> stack[p][j].at \in BuildStages
      BY <1>0, <3>1, <3>2, <3>3, <3>4 DEF n
    <3> QED
      BY <1>now, <3>1, <3>4, <3>5, <3>6
  <2>4. CASE Visits(p)
    <3>1. PICK d, s : VisitsTo(p, d, s)
      BY <2>4 DEF Visits
    <3>2. /\ stack[p] # <<>> /\ m = n + 1
          /\ \A j \in 1..n : j < n => stack'[p][j] = stack[p][j]
          /\ stack'[p][n] = NewTop(p) /\ stack'[p][n + 1] = Frame(s, d, {})
      BY <3>1 DEF VisitsTo, Pushed, Below, NewTop
    <3>3. /\ FrameShape(Frame(s, d, {})) /\ Frame(s, d, {}).at = s /\ Frame(s, d, {}).pkg = d
          /\ d # Root
      BY <1>0, <3>1, <3>2, BuildDepsClosed DEF Frame, FrameShape, EditLocked, VisitsTo
    <3>4. \A j \in 1..n : d \in BuildDeps(stack[p][j].pkg)
      <4>1. \A j \in 1..n : stack[p][j].pkg \in Users
        BY StackTyped DEF Frames
      <4> QED
        <5>1. d \in BuildDeps(Top(p).pkg)
          BY <3>1 DEF VisitsTo
        <5>2. \A j \in 1..n : j < n \/ j = n
          BY <1>after
        <5>3. ASSUME NEW j \in 1..n, j < n PROVE Top(p).pkg \in BuildDeps(stack[p][j].pkg)
          BY <1>0, <1>now, <3>2, <5>3
        <5> QED
          BY <1>0, <3>2, <4>1, <5>1, <5>2, <5>3, BuildDepsTransitive
    <3> HIDE DEF n, m
    <3>5. \A j \in 1..m : j < n \/ j = n \/ j = n + 1
      BY <1>after, <3>2
    <3>6. /\ \A j \in 1..n : stack'[p][j].at = stack[p][j].at
                             /\ stack'[p][j].pkg = stack[p][j].pkg
                             /\ FrameShape(stack'[p][j])
      BY <1>0, <1>now, <1>after, <3>1, <3>2 DEF n, VisitsTo
    <3>7. CASE i \in 1..n
      BY <1>0, <1>now, <1>after, <3>1, <3>2, <3>3, <3>4, <3>5, <3>6, <3>7 DEF VisitsTo
    <3>8. CASE i = n + 1
      BY <1>0, <1>now, <1>after, <3>1, <3>2, <3>3, <3>4, <3>5, <3>6, <3>8 DEF VisitsTo
    <3> QED
      BY <3>7, <3>8, <1>after, <3>2
  <2>5. CASE Returns(p)
    <3>1. m = n - 1 /\ \A j \in 1..n : j < n => stack'[p][j] = stack[p][j]
      BY <2>5 DEF Returns, Popped, Below
    <3> HIDE DEF n, m
    <3>2. \A j \in 1..m : j \in 1..n /\ j < n /\ stack'[p][j] = stack[p][j]
      BY <1>after, <3>1
    <3> QED
      BY <1>now, <3>2
  <2> QED
    BY <2>1, <2>2, <2>3, <2>4, <2>5 DEF StackStep
<1>2. ASSUME NEW q \in Procs, NEW i \in 1..Len(stack'[q])
      PROVE  Shape(stack'[q], Len(stack'[q]), i)
  BY <1>1, <1>2, <1>after, <1>shape
<1> QED
  BY <1>2 DEF StackShape, FrameShape

(* How a step of p changes the lock of a class of stages.                  *)
Effect(p, lock, after, stages) ==
    \/ after = lock /\ \/ Begins(p) \/ Visits(p)
                       \/ Moves(p) /\ Top(p).pkg = Root
                       \/ Ends(p) /\ Len(stack[p]) = 1
    \/ Ends(p) /\ after = [t \in Trees |-> lock[t] \ {p}]
    \/ /\ Top(p).pkg # Root
       /\ \/ Moves(p) /\ Crosses(p, lock, after, Tree(p), stages, Top(p).at, NewTop(p).at)
          \/ Returns(p) /\ Crosses(p, lock, after, Tree(p), stages, Top(p).at, "gone")

(* A lock of build trees is accounted for after a step: it is taken and    *)
(* given back as the innermost frame enters and leaves the locked stages.  *)
LEMMA HoldingStep ==
    ASSUME NEW lock \in [Trees -> SUBSET Procs], NEW after, NEW stages,
           {"gone", "check", "b_check"} \cap stages = {},
           StacksTyped, StackShape, conf \in [Procs -> Configs], NEW p \in Procs,
           Effect(p, lock, after, stages), Holding(lock, stack, conf, stages)
    PROVE  Holding(after, stack', conf, stages)
<1> DEFINE n == Len(stack[p])
           m == Len(stack'[p])
           now(k) == InStack(stack[p], k, stages)
           next(k) == InStack(stack'[p], k, stages)
<1>1. StackStep(p)
  BY DEF Effect, StackStep
<1>2. /\ \A q \in Procs : q # p => stack'[q] = stack[q]
      /\ n \in Nat /\ m \in Nat
  BY <1>1, FramesAfter
<1>3. stack[p] # <<>> => /\ n \in 1..n /\ Top(p) = stack[p][n]
                         /\ Top(p).pkg \in Users /\ Tree(p) = <<Top(p).pkg, conf[p]>>
                         /\ (Top(p).pkg # Root => Tree(p) \in Trees)
  BY StackTyped DEF Frames, Tree, Trees, Users
<1>4. \A i \in 1..n : stack[p][i].pkg = Root <=> i = 1
  BY DEF StackShape
<1>5. OnceInStack(stack[p], stages)
  BY DEF Holding
<1>kept. ASSUME \A k \in Pkgs : now(k) <=> next(k), OnceInStack(stack'[p], stages),
                after = lock
         PROVE  Holding(after, stack', conf, stages)
  BY <1>kept, <1>2 DEF Holding, Trees
<1>take. ASSUME Top(p).pkg \in Pkgs, stack[p] # <<>>,
                lock[Tree(p)] = {}, after = [lock EXCEPT ![Tree(p)] = {p}],
                \A k \in Pkgs : next(k) <=> now(k) \/ k = Top(p).pkg,
                OnceInStack(stack'[p], stages)
         PROVE  Holding(after, stack', conf, stages)
  <2> DEFINE t0 == Tree(p)
  <2>1. t0 \in Trees /\ t0 = <<Top(p).pkg, conf[p]>>
    BY <1>3, <1>take
  <2>2. \A t \in Trees : t = t0 <=> t[1] = Top(p).pkg /\ t[2] = conf[p]
    BY <2>1 DEF Trees
  <2>3. \A t \in Trees : after[t] = IF t = t0 THEN {p} ELSE lock[t]
    BY <1>take, <2>1
  <2>4. \A t \in Trees : t[1] \in Pkgs
    BY DEF Trees
  <2> HIDE DEF t0, now, next
  <2>5. ASSUME NEW t \in Trees, NEW q \in Procs
        PROVE  q \in after[t] <=> conf[q] = t[2] /\ InStack(stack'[q], t[1], stages)
    <3>1. CASE q = p
      <4>1. p \in lock[t] <=> conf[p] = t[2] /\ now(t[1])
        BY DEF Holding, now
      <4> QED
        BY <1>take, <2>2, <2>3, <2>4, <3>1, <4>1 DEF next, t0
    <3>2. CASE q # p
      <4>1. InStack(stack'[q], t[1], stages) <=> InStack(stack[q], t[1], stages)
        BY <1>2, <3>2
      <4>2. q \in lock[t] <=> conf[q] = t[2] /\ InStack(stack[q], t[1], stages)
        BY DEF Holding
      <4> QED
        BY <1>take, <2>3, <3>2, <4>1, <4>2 DEF t0
    <3> QED
      BY <3>1, <3>2
  <2>6. \A t \in Trees : \A q, r \in after[t] : q = r
    BY <2>3 DEF Holding
  <2>7. \A q \in Procs : OnceInStack(stack'[q], stages)
    BY <1>2, <1>take DEF Holding
  <2> QED
    BY <2>5, <2>6, <2>7 DEF Holding
<1>give. ASSUME Top(p).pkg \in Pkgs, stack[p] # <<>>, now(Top(p).pkg),
                after = [lock EXCEPT ![Tree(p)] = {}],
                \A k \in Pkgs : next(k) <=> now(k) /\ k # Top(p).pkg,
                OnceInStack(stack'[p], stages)
         PROVE  Holding(after, stack', conf, stages)
  <2> DEFINE t0 == Tree(p)
  <2>1. t0 \in Trees /\ t0 = <<Top(p).pkg, conf[p]>>
    BY <1>3, <1>give
  <2>2. \A t \in Trees : t = t0 <=> t[1] = Top(p).pkg /\ t[2] = conf[p]
    BY <2>1 DEF Trees
  <2>3. \A t \in Trees : after[t] = IF t = t0 THEN {} ELSE lock[t]
    BY <1>give, <2>1
  <2>4. \A t \in Trees : t[1] \in Pkgs
    BY DEF Trees
  <2> HIDE DEF t0, now, next
  <2>5. lock[t0] \subseteq {p}
    <3>1. p \in lock[t0]
      BY <1>give, <2>1, <2>2 DEF Holding, now
    <3> QED
      BY <2>1, <3>1 DEF Holding
  <2>6. ASSUME NEW t \in Trees, NEW q \in Procs
        PROVE  q \in after[t] <=> conf[q] = t[2] /\ InStack(stack'[q], t[1], stages)
    <3>1. CASE q = p
      <4>1. p \in lock[t] <=> conf[p] = t[2] /\ now(t[1])
        BY DEF Holding, now
      <4> QED
        BY <1>give, <2>2, <2>3, <2>4, <3>1, <4>1 DEF next
    <3>2. CASE q # p
      <4>1. InStack(stack'[q], t[1], stages) <=> InStack(stack[q], t[1], stages)
        BY <1>2, <3>2
      <4>2. q \in lock[t] <=> conf[q] = t[2] /\ InStack(stack[q], t[1], stages)
        BY DEF Holding
      <4> QED
        BY <2>3, <2>5, <3>2, <4>1, <4>2
    <3> QED
      BY <3>1, <3>2
  <2>7. \A t \in Trees : \A q, r \in after[t] : q = r
    BY <2>3 DEF Holding
  <2>8. \A q \in Procs : OnceInStack(stack'[q], stages)
    BY <1>2, <1>give DEF Holding
  <2> QED
    BY <2>6, <2>7, <2>8 DEF Holding
<1> DEFINE lower(k) == \E i \in 1..n : i < n /\ stack[p][i].pkg = k /\ stack[p][i].at \in stages
           lowerOnce == \A i, j \in 1..n :
               i < j /\ j < n /\ stack[p][i].at \in stages /\ stack[p][j].at \in stages
                   => stack[p][i].pkg # stack[p][j].pkg
<1>now. ASSUME stack[p] # <<>>
        PROVE  /\ \A k \in Pkgs : now(k) <=> lower(k) \/ (Top(p).pkg = k /\ Top(p).at \in stages)
               /\ lowerOnce
               /\ Top(p).at \in stages => ~lower(Top(p).pkg)
  <2>1. \A i \in 1..n : i < n \/ i = n
    BY <1>2
  <2>2. n \in 1..n /\ Top(p) = stack[p][n]
    BY <1>3, <1>now
  <2> HIDE DEF n
  <2>3. OnceInStack(stack[p], stages) /\ n = Len(stack[p])
    BY <1>5 DEF n
  <2>4. \A k \in Pkgs : now(k) <=> lower(k) \/ (Top(p).pkg = k /\ Top(p).at \in stages)
    BY <2>1, <2>2, <2>3 DEF InStack
  <2>5. lowerOnce
    BY <2>3 DEF OnceInStack
  <2>6. Top(p).at \in stages => ~lower(Top(p).pkg)
    BY <2>2, <2>3 DEF OnceInStack
  <2> QED
    BY <2>4, <2>5, <2>6
<1>moved. ASSUME stack[p] # <<>>, m = n, Below(p), NewTop(p).pkg = Top(p).pkg
          PROVE  /\ \A k \in Pkgs : next(k) <=>
                       lower(k) \/ (Top(p).pkg = k /\ NewTop(p).at \in stages)
                 /\ (NewTop(p).at \in stages => ~lower(Top(p).pkg))
                       => OnceInStack(stack'[p], stages)
  <2>1. \A i \in 1..n : i < n \/ i = n
    BY <1>2
  <2>2. n \in 1..n /\ \A i \in 1..n : i < n => stack'[p][i] = stack[p][i]
    BY <1>3, <1>moved DEF Below
  <2>3. NewTop(p) = stack'[p][n] /\ m = Len(stack'[p])
    BY DEF NewTop
  <2> HIDE DEF n, m
  <2>4. \A k \in Pkgs : next(k) <=> lower(k) \/ (Top(p).pkg = k /\ NewTop(p).at \in stages)
    BY <1>moved, <2>1, <2>2, <2>3 DEF InStack
  <2>5. ASSUME NewTop(p).at \in stages => ~lower(Top(p).pkg)
        PROVE  OnceInStack(stack'[p], stages)
    <3> SUFFICES ASSUME NEW i \in 1..n, NEW j \in 1..n, i < j,
                        stack'[p][i].at \in stages, stack'[p][j].at \in stages
                 PROVE  stack'[p][i].pkg # stack'[p][j].pkg
      BY <1>moved, <2>3 DEF OnceInStack
    <3>1. i < n /\ stack'[p][i] = stack[p][i]
      BY <1>2, <2>2 DEF n
    <3>2. CASE j < n
      BY <1>moved, <1>now, <2>2, <3>1, <3>2
    <3>3. CASE j = n
      BY <1>moved, <2>3, <2>5, <3>1, <3>3
    <3> QED
      BY <2>1, <3>2, <3>3
  <2> QED
    BY <2>4, <2>5
<1>6. CASE Begins(p) /\ after = lock
  <2>1. m = 1 /\ stack'[p][1].pkg = Root /\ n = 0
    BY <1>6 DEF Begins, Frame
  <2>2. (\A k \in Pkgs : now(k) <=> next(k)) /\ OnceInStack(stack'[p], stages)
    BY <2>1 DEF InStack, OnceInStack
  <2> QED
    BY <1>6, <2>2, <1>kept
<1>7. CASE Visits(p) /\ after = lock
  <2>1. PICK d, s : VisitsTo(p, d, s)
    BY <1>7 DEF Visits
  <2>2. /\ stack[p] # <<>> /\ m = n + 1
        /\ \A i \in 1..n : i < n => stack'[p][i] = stack[p][i]
        /\ stack'[p][n].at = Top(p).at /\ stack'[p][n].pkg = Top(p).pkg
        /\ stack'[p][n + 1].at \notin stages
    BY <2>1 DEF VisitsTo, Pushed, Below, NewTop, Frame
  <2>3. \A i \in 1..m : i \in 1..n \/ (i = n + 1 /\ stack'[p][i].at \notin stages)
    BY <1>2, <2>2
  <2>4. \A i \in 1..n : /\ i \in 1..m
                        /\ stack'[p][i].at = stack[p][i].at
                        /\ stack'[p][i].pkg = stack[p][i].pkg
    BY <1>2, <1>3, <2>2
  <2> HIDE DEF n, m
  <2>5. \A k \in Pkgs : now(k) <=> next(k)
    BY <2>3, <2>4 DEF InStack, n, m
  <2>6. OnceInStack(stack'[p], stages)
    BY <1>5, <2>3, <2>4 DEF OnceInStack, n, m
  <2> QED
    BY <1>7, <2>5, <2>6, <1>kept
<1>8. CASE Moves(p) /\ Top(p).pkg = Root /\ after = lock
  <2>1. stack[p] # <<>> /\ m = n /\ Below(p) /\ NewTop(p).pkg = Top(p).pkg
    BY <1>8 DEF Moves, Keeping, Moved
  <2>2. n = 1
    BY <1>3, <1>4, <1>8, <2>1
  <2>3. \A k : ~lower(k)
    BY <2>2
  <2>4. \A k \in Pkgs : now(k) <=> next(k)
    BY <1>8, <1>now, <1>moved, <2>1, <2>3
  <2> QED
    BY <1>8, <2>1, <2>3, <2>4, <1>moved, <1>kept
<1>9. CASE Ends(p) /\ Len(stack[p]) = 1 /\ after = lock
  <2>1. m = 0 /\ n = 1
    BY <1>9 DEF Ends
  <2>2. stack[p][1].pkg = Root
    BY <1>4, <2>1
  <2>3. (\A k \in Pkgs : now(k) <=> next(k)) /\ OnceInStack(stack'[p], stages)
    BY <2>1, <2>2 DEF InStack, OnceInStack
  <2> QED
    BY <1>9, <2>3, <1>kept
<1>10. CASE Ends(p) /\ after = [t \in Trees |-> lock[t] \ {p}]
  <2>1. m = 0
    BY <1>10 DEF Ends
  <2>2. (\A k \in Pkgs : ~next(k)) /\ OnceInStack(stack'[p], stages)
    BY <2>1 DEF InStack, OnceInStack
  <2> QED
    BY <1>2, <1>10, <2>2 DEF Holding, Trees
<1>11. CASE /\ Top(p).pkg # Root /\ Moves(p)
            /\ Crosses(p, lock, after, Tree(p), stages, Top(p).at, NewTop(p).at)
  <2>1. stack[p] # <<>> /\ m = n /\ Below(p) /\ NewTop(p).pkg = Top(p).pkg
    BY <1>11 DEF Moves, Keeping, Moved
  <2>2. Top(p).pkg \in Pkgs
    BY <1>3, <1>11, <2>1 DEF Users
  <2>3. CASE after = lock /\ (Top(p).at \in stages <=> NewTop(p).at \in stages)
    BY <2>1, <2>2, <2>3, <1>now, <1>moved, <1>kept
  <2>4. CASE /\ Top(p).at \notin stages /\ NewTop(p).at \in stages
             /\ lock[Tree(p)] = {} /\ after = [lock EXCEPT ![Tree(p)] = {p}]
    <3>1. ~now(Top(p).pkg)
      BY <1>3, <2>1, <2>2, <2>4 DEF Holding, Trees
    <3>2. ~lower(Top(p).pkg)
      BY <3>1, <2>1, <2>2, <1>now
    <3>3. \A k \in Pkgs : next(k) <=> now(k) \/ k = Top(p).pkg
      BY <2>1, <2>2, <2>4, <1>now, <1>moved
    <3> HIDE DEF next, now, lower
    <3> QED
      BY <2>1, <2>2, <2>4, <3>2, <3>3, <1>moved, <1>take
  <2>5. CASE /\ Top(p).at \in stages /\ NewTop(p).at \notin stages
             /\ after = [lock EXCEPT ![Tree(p)] = {}]
    <3>1. \A k \in Pkgs : next(k) <=> now(k) /\ k # Top(p).pkg
      BY <2>1, <2>2, <2>5, <1>now, <1>moved
    <3>2. now(Top(p).pkg)
      BY <2>1, <2>2, <2>5, <1>now
    <3> HIDE DEF next, now, lower
    <3> QED
      BY <2>1, <2>2, <2>5, <3>1, <3>2, <1>moved, <1>give
  <2> QED
    BY <1>11, <2>3, <2>4, <2>5 DEF Crosses
<1>12. CASE /\ Top(p).pkg # Root /\ Returns(p)
            /\ Crosses(p, lock, after, Tree(p), stages, Top(p).at, "gone")
  <2>1. stack[p] # <<>> /\ m = n - 1
        /\ \A i \in 1..n : i < n => stack'[p][i] = stack[p][i]
    BY <1>12 DEF Returns, Popped, Below
  <2>2. Top(p).pkg \in Pkgs
    BY <1>3, <1>12, <2>1 DEF Users
  <2>3. \A i : i \in 1..m <=> i \in 1..n /\ i < n
    BY <1>2, <2>1
  <2>4. (\A k \in Pkgs : next(k) <=> lower(k)) /\ OnceInStack(stack'[p], stages)
    <3> HIDE DEF n, m
    <3>1. \A k \in Pkgs : next(k) <=> lower(k)
      BY <2>1, <2>3 DEF InStack, m
    <3>2. OnceInStack(stack'[p], stages)
      BY <1>now, <2>1, <2>3 DEF OnceInStack, m
    <3> QED
      BY <3>1, <3>2
  <2>5. CASE after = lock /\ Top(p).at \notin stages
    BY <2>1, <2>2, <2>4, <2>5, <1>now, <1>kept
  <2>6. CASE Top(p).at \in stages /\ after = [lock EXCEPT ![Tree(p)] = {}]
    <3>1. \A k \in Pkgs : next(k) <=> now(k) /\ k # Top(p).pkg
      BY <2>1, <2>2, <2>4, <2>6, <1>now
    <3>2. now(Top(p).pkg)
      BY <2>1, <2>2, <2>6, <1>now
    <3> HIDE DEF next, now, lower
    <3> QED
      BY <2>1, <2>2, <2>4, <2>6, <3>1, <3>2, <1>give
  <2> QED
    BY <1>12, <2>5, <2>6 DEF Crosses
<1> QED
  BY <1>6, <1>7, <1>8, <1>9, <1>10, <1>11, <1>12 DEF Effect

(* The locks are held by those, and only those, who are in their stages.   *)
LEMMA FileStep ==
    ASSUME StacksTyped, StackShape, editing \in [Pkgs -> SUBSET Procs], HoldsFile,
           NEW p \in Procs, StackStep(p)
    PROVE  HoldsFile'
<1> DEFINE n == Len(stack[p])
           m == Len(stack'[p])
           now(k) == EditsFile(stack[p], k)
           next(k) == EditsFile(stack'[p], k)
<1>2. /\ \A q \in Procs : q # p => stack'[q] = stack[q]
      /\ n \in Nat /\ m \in Nat
  BY FramesAfter
<1>3. stack[p] # <<>> => /\ n \in 1..n /\ Top(p) = stack[p][n]
                         /\ Top(p).pkg \in Users /\ n > 0
  BY StackTyped DEF Frames
<1>now. \A k \in Pkgs : stack[p] # <<>> =>
            (now(k) <=> Top(p).pkg = k /\ Top(p).at \in EditLocked)
  BY <1>3 DEF EditsFile
<1>hold. /\ \A k \in Pkgs : p \in editing[k] <=> now(k)
         /\ \A k \in Pkgs : \A q, r \in editing[k] : q = r
  BY DEF HoldsFile
<1>kept. ASSUME \A k \in Pkgs : now(k) <=> next(k), editing' = editing
         PROVE  HoldsFile'
  <2>1. \A k \in Pkgs : \A q \in Procs :
            q \in editing'[k] <=> EditsFile(stack'[q], k)
    BY <1>kept, <1>2 DEF HoldsFile
  <2> QED
    BY <2>1, <1>kept DEF HoldsFile, EditsFile
<1>take. ASSUME Top(p).pkg \in Pkgs, stack[p] # <<>>,
                editing[Top(p).pkg] = {}, editing' = [editing EXCEPT ![Top(p).pkg] = {p}],
                \A k \in Pkgs : next(k) <=> k = Top(p).pkg,
                \A k \in Pkgs : ~now(k)
         PROVE  HoldsFile'
  <2>1. \A k \in Pkgs : editing'[k] = IF k = Top(p).pkg THEN {p} ELSE editing[k]
    BY <1>take
  <2> HIDE DEF next, now
  <2>2. \A k \in Pkgs : \A q \in Procs :
            q # p => (q \in editing'[k] <=> EditsFile(stack'[q], k))
    BY <1>2, <1>take, <2>1 DEF HoldsFile
  <2>3. \A k \in Pkgs : p \in editing'[k] <=> EditsFile(stack'[p], k)
    BY <1>hold, <1>take, <2>1 DEF next
  <2>4. \A k \in Pkgs : \A q, r \in editing'[k] : q = r
    BY <1>hold, <2>1
  <2> QED
    BY <2>2, <2>3, <2>4 DEF HoldsFile, EditsFile
<1>give. ASSUME Top(p).pkg \in Pkgs, stack[p] # <<>>, now(Top(p).pkg),
                editing' = [editing EXCEPT ![Top(p).pkg] = {}],
                \A k \in Pkgs : ~next(k)
         PROVE  HoldsFile'
  <2>1. \A k \in Pkgs : editing'[k] = IF k = Top(p).pkg THEN {} ELSE editing[k]
    BY <1>give
  <2> HIDE DEF next
  <2>2. \A k \in Pkgs : k # Top(p).pkg => ~now(k)
    BY <1>give, <1>now
  <2>3. editing[Top(p).pkg] \subseteq {p}
    BY <1>give, <1>hold
  <2> HIDE DEF now
  <2>4. \A k \in Pkgs : \A q \in Procs :
            q # p => (q \in editing'[k] <=> EditsFile(stack'[q], k))
    BY <1>2, <2>1, <2>3 DEF HoldsFile
  <2>5. \A k \in Pkgs : p \in editing'[k] <=> EditsFile(stack'[p], k)
    BY <1>hold, <1>give, <2>1, <2>2 DEF next
  <2>6. \A k \in Pkgs : \A q, r \in editing'[k] : q = r
    BY <1>hold, <2>1
  <2> QED
    BY <2>4, <2>5, <2>6 DEF HoldsFile, EditsFile
<1>6. CASE Begins(p)
  <2>1. m = 1 /\ stack'[p][1].pkg = Root /\ n = 0 /\ editing' = editing
    BY <1>6 DEF Begins, Frame, LocksKept
  <2> QED
    BY <2>1, <1>kept DEF EditsFile
<1>7. CASE Visits(p)
  <2>1. PICK d, s : VisitsTo(p, d, s)
    BY <1>7 DEF Visits
  <2>2. /\ stack[p] # <<>> /\ m = n + 1
        /\ stack'[p][n + 1].at = s
    BY <2>1 DEF VisitsTo, Pushed, Frame
  <2>3. \A k \in Pkgs : ~next(k)
    BY <2>1, <2>2 DEF EditsFile, EditLocked, VisitsTo
  <2>4. \A k \in Pkgs : ~now(k)
    BY <1>now, <2>1, <2>2 DEF Waiting, EditLocked, VisitsTo
  <2> QED
    BY <2>1, <2>3, <2>4, <1>kept DEF LocksKept, VisitsTo
<1>8. CASE Ends(p) /\ Len(stack[p]) = 1 /\ LocksKept
  <2>1. m = 0 /\ n = 1
    BY <1>8 DEF Ends
  <2>2. stack[p][1].pkg = Root
    BY <2>1 DEF StackShape
  <2> QED
    BY <1>8, <2>1, <2>2, <1>kept DEF EditsFile, LocksKept
<1>9. CASE Ends(p) /\ LocksGiven(p)
  <2>1. m = 0
    BY <1>9 DEF Ends
  <2>2. \A k \in Pkgs : ~next(k)
    BY <2>1 DEF EditsFile
  <2>3. \A k \in Pkgs : editing'[k] = editing[k] \ {p}
    BY <1>9 DEF LocksGiven
  <2>4. \A k \in Pkgs : \A q \in Procs :
            q # p => (q \in editing'[k] <=> EditsFile(stack'[q], k))
    BY <1>2, <2>3 DEF HoldsFile
  <2> HIDE DEF now, next
  <2>5. \A k \in Pkgs : p \in editing'[k] <=> EditsFile(stack'[p], k)
    BY <2>2, <2>3 DEF next
  <2>6. \A k \in Pkgs : \A q, r \in editing'[k] : q = r
    BY <1>hold, <2>3
  <2> QED
    BY <2>4, <2>5, <2>6 DEF HoldsFile, EditsFile
<1>10. CASE Moves(p)
  <2>1. stack[p] # <<>> /\ m = n /\ NewTop(p) = stack'[p][n] /\ NewTop(p).pkg = Top(p).pkg
    BY <1>10 DEF Moves, Keeping, Moved, NewTop
  <2>2. \A k \in Pkgs : next(k) <=> Top(p).pkg = k /\ NewTop(p).at \in EditLocked
    BY <1>3, <2>1 DEF EditsFile
  <2> HIDE DEF now, next
  <2>3. CASE Top(p).pkg = Root /\ LocksKept
    BY <1>now, <1>kept, <2>1, <2>2, <2>3 DEF LocksKept
  <2>4. CASE /\ Top(p).pkg # Root
             /\ Crosses(p, editing, editing', Top(p).pkg, EditLocked, Top(p).at, NewTop(p).at)
    <3>1. Top(p).pkg \in Pkgs
      BY <1>3, <2>1, <2>4 DEF Users
    <3> QED
      BY <1>now, <1>kept, <1>take, <1>give, <2>1, <2>2, <2>4, <3>1 DEF Crosses
  <2> QED
    BY <1>10, <2>3, <2>4 DEF Moves, Turns
<1>11. CASE Returns(p)
  <2>1. stack[p] # <<>> /\ m = n - 1 /\ (\A i \in 1..n : i < n => stack'[p][i] = stack[p][i])
        /\ Top(p).pkg # Root
        /\ Crosses(p, editing, editing', Top(p).pkg, EditLocked, Top(p).at, "gone")
    BY <1>11 DEF Returns, Popped, Below, Turns
  <2>2. \A k \in Pkgs : ~next(k)
    <3>1. m > 0 => m \in 1..n /\ m < n /\ stack'[p][m] = stack[p][m]
      BY <1>2, <2>1, SMTT(30)
    <3>2. m > 0 => stack[p][m].at \in Waiting
      BY <3>1 DEF StackShape
    <3> QED
      BY <3>1, <3>2 DEF EditsFile, Waiting, EditLocked
  <2>3. Top(p).pkg \in Pkgs
    BY <1>3, <2>1 DEF Users
  <2> HIDE DEF now, next
  <2>4. "gone" \notin EditLocked
    BY DEF EditLocked
  <2> QED
    BY <1>now, <1>kept, <1>give, <2>1, <2>2, <2>3, <2>4 DEF Crosses
<1> QED
  BY <1>6, <1>7, <1>8, <1>9, <1>10, <1>11 DEF StackStep, Ends

(* All three kinds of locks are accounted for after a step.                *)
LEMMA LocksStep ==
    ASSUME TypeOK, StackShape, Locks, conf' = conf, NEW p \in Procs, StackStep(p)
    PROVE  Locks'
<1>1. StacksTyped /\ conf \in [Procs -> Configs]
      /\ generating \in [Trees -> SUBSET Procs] /\ building \in [Trees -> SUBSET Procs]
      /\ editing \in [Pkgs -> SUBSET Procs]
  BY DEF TypeOK, StacksTyped
<1>2. Effect(p, generating, generating', Locked) /\ Effect(p, building, building', BuildLocked)
  BY DEF StackStep, Effect, Moves, Turns, Returns, Ends, Begins, Visits, VisitsTo, LocksKept, LocksGiven
<1>3. {"gone", "check", "b_check"} \cap Locked = {}
      /\ {"gone", "check", "b_check"} \cap BuildLocked = {}
  BY DEF Locked, BuildLocked
<1>4. Holding(generating', stack', conf, Locked)
  BY <1>1, <1>2, <1>3, HoldingStep DEF Locks
<1>5. Holding(building', stack', conf, BuildLocked)
  BY <1>1, <1>2, <1>3, HoldingStep DEF Locks
<1>6. HoldsFile'
  BY <1>1, FileStep DEF Locks
<1> QED
  BY <1>4, <1>5, <1>6 DEF Locks

(* Every variable keeps its type.                                          *)
LEMMA TypeStep ==
    ASSUME TypeOK, StackShape, NEW p \in Procs, Start(p) \/ Die(p) \/ Step(p)
    PROVE  TypeOK'
<1> USE DEF setup, imports, trees, builds, sources
<1>1. StackStep(p)
  BY StepCases DEF StackStep
<1>2. StacksTyped /\ StacksTyped'
  BY <1>1, FramesAfter DEF TypeOK, StacksTyped
<1>top. stack[p] # <<>> => /\ Len(stack[p]) \in 1..Len(stack[p])
                           /\ Top(p) = stack[p][Len(stack[p])]
                           /\ Top(p).pkg \in Users /\ Top(p).left \subseteq Pkgs
                           /\ Top(p).edit \in Nat
  BY <1>2, StackTyped DEF Frames
<1>tree. stack[p] # <<>> /\ Top(p).pkg # Root => Top(p).pkg \in Pkgs /\ Tree(p) \in Trees
  BY <1>top DEF Tree, Trees, Users, TypeOK
<1>3. status' \in [Procs -> {"idle", "running", "done", "failed"}]
      /\ \A q \in Procs : status'[q] = "running" <=> stack'[q] # <<>>
  <2>1. \A q \in Procs : q # p => stack'[q] = stack[q]
    BY <1>1, <1>2, FramesAfter
  <2>2. status[p] = "running" <=> stack[p] # <<>>
    BY DEF TypeOK
  <2>3. CASE Begins(p)
    <3>1. stack'[p] # <<>> /\ status' = [status EXCEPT ![p] = "running"]
      BY <2>3 DEF Begins
    <3> QED
      BY <2>1, <3>1 DEF TypeOK
  <2>4. CASE Ends(p)
    BY <2>1, <2>4 DEF Ends, TypeOK
  <2>5. CASE Moves(p) \/ Visits(p) \/ Returns(p)
    <3>1. stack'[p] # <<>> /\ stack[p] # <<>> /\ status' = status
      <4>1. stack[p] # <<>> /\ status' = status
        BY <2>5 DEF Moves, Visits, VisitsTo, Returns, Keeping, Moved, Pushed, Popped
      <4>2. Len(stack'[p]) > 0
        <5>1. CASE Moves(p)
          BY <1>top, <5>1 DEF Moves, Keeping, Moved
        <5>2. CASE Visits(p)
          BY <1>top, <5>2 DEF Visits, VisitsTo, Pushed
        <5>3. CASE Returns(p)
          <6>1. Len(stack[p]) # 1 /\ Len(stack'[p]) = Len(stack[p]) - 1
            BY <1>top, <4>1, <5>3 DEF Returns, Popped, StackShape
          <6> QED
            <7>1. Len(stack[p]) \in Nat /\ Len(stack[p]) # 0
              BY <1>2, <4>1, StackTyped
            <7>2. \A n \in Nat : n # 0 /\ n # 1 => n - 1 > 0
              OBVIOUS
            <7> QED
              BY <6>1, <7>1, <7>2
        <5> QED
          BY <2>5, <5>1, <5>2, <5>3
      <4> QED
        BY <4>1, <4>2
    <3> QED
      BY <2>1, <2>2, <3>1 DEF TypeOK
  <2> QED
    BY <1>1, <2>3, <2>4, <2>5 DEF StackStep
<1>4. \A q \in Procs : \A i \in DOMAIN stack'[q] : stack'[q][i].pkg \in Pkgs =>
          stack'[q][i].edit <= Len(Edits[stack'[q][i].pkg]) + 1
  <2>0. \A q \in Procs : DOMAIN stack[q] = 1..Len(stack[q])
    BY <1>2, StackTyped
  <2>1. \A q \in Procs : \A i \in 1..Len(stack[q]) : stack[q][i].pkg \in Pkgs =>
            stack[q][i].edit <= Len(Edits[stack[q][i].pkg]) + 1
    BY <2>0 DEF TypeOK
  <2>2. \A k \in Pkgs : Len(Edits[k]) \in Nat
    BY LenProperties
  <2>3. ASSUME NEW i \in 1..Len(stack'[p]), stack'[p][i].pkg \in Pkgs
        PROVE  stack'[p][i].edit <= Len(Edits[stack'[p][i].pkg]) + 1
    <3>1. CASE i < Len(stack[p]) /\ stack'[p][i] = stack[p][i]
      BY <2>1, <2>3, <3>1, <1>1, <1>2, FramesAfter, SMTT(30)
    <3>2. CASE i = Len(stack[p]) /\ stack[p][i] = Top(p) /\ NewTop(p).pkg = Top(p).pkg
               /\ stack'[p][i] = NewTop(p)
               /\ \/ NewTop(p).edit = Top(p).edit
                  \/ /\ NewTop(p).edit = Top(p).edit + 1
                     /\ Top(p).edit <= Len(Edits[Top(p).pkg])
      <4>1. stack[p] # <<>>
        BY <1>2, <3>2, StackTyped
      <4> QED
        BY <2>1, <2>2, <2>3, <3>2, <4>1, <1>top, SMTT(30)
    <3>3. CASE stack'[p][i].edit = 1
      BY <2>2, <2>3, <3>3
    <3> QED
      BY <1>1, <1>2, <3>1, <3>2, <3>3, FramesAfter
  <2>4. \A q \in Procs : DOMAIN stack'[q] = 1..Len(stack'[q])
    BY <1>2, LenProperties DEF StacksTyped
  <2>5. \A q \in Procs : q # p => stack'[q] = stack[q]
    BY <1>1, <1>2, FramesAfter
  <2> QED
    BY <2>1, <2>3, <2>4, <2>5
<1>5. /\ generating' \in [Trees -> SUBSET Procs] /\ building' \in [Trees -> SUBSET Procs]
      /\ editing' \in [Pkgs -> SUBSET Procs]
  <2>1. CASE LocksKept
    BY <2>1 DEF LocksKept, TypeOK
  <2>2. CASE LocksGiven(p)
    BY <2>2 DEF LocksGiven, TypeOK
  <2>3. ASSUME NEW to, stack[p] # <<>>, Top(p).pkg # Root, Turns(p, to)
        PROVE  /\ generating' \in [Trees -> SUBSET Procs]
               /\ building' \in [Trees -> SUBSET Procs]
               /\ editing' \in [Pkgs -> SUBSET Procs]
    <3>1. ASSUME NEW I, NEW t \in I, NEW lock \in [I -> SUBSET Procs], NEW after,
                 NEW stages, NEW from, Crosses(p, lock, after, t, stages, from, to)
          PROVE  after \in [I -> SUBSET Procs]
      BY <3>1 DEF Crosses
    <3>2. Tree(p) \in Trees /\ Top(p).pkg \in Pkgs
      BY <2>3, <1>tree
    <3>3. generating' \in [Trees -> SUBSET Procs]
      BY <2>3, <3>1, <3>2 DEF Turns, TypeOK
    <3>4. building' \in [Trees -> SUBSET Procs]
      BY <2>3, <3>1, <3>2 DEF Turns, TypeOK
    <3>5. editing' \in [Pkgs -> SUBSET Procs]
      BY <2>3, <3>1, <3>2 DEF Turns, TypeOK
    <3> QED
      BY <3>3, <3>4, <3>5
  <2> QED
    BY <1>1, <2>1, <2>2, <2>3
    DEF StackStep, Begins, Ends, Moves, Visits, VisitsTo, Returns, Keeping, Moved, Popped
<1> DEFINE Rest == /\ setup' = setup
                   /\ runs' \in [Procs -> 0..MaxRuns] /\ deaths' \in 0..MaxDeaths
                   /\ import' \subseteq Trees /\ saved' \subseteq Trees /\ target' \subseteq Trees
                   /\ fixed' \in [Trees -> {"absent", "partial", "complete"}]
                   /\ cmakes' \in [Trees -> SUBSET Versions]
                   /\ opened' \in [Trees -> SUBSET Versions]
                   /\ source' \in [Pkgs -> Seq(Edit)] /\ flags' \in [Pkgs -> SUBSET Edit]
                   /\ hash' \in [Pkgs -> Seq(Edit) \cup {NoHash}]
<1>6. Rest
  <2>1. CASE UNCHANGED <<setup, runs, deaths, imports, saved, target, source, flags, hash>>
    BY <2>1 DEF TypeOK
  <2>2. CASE Start(p)
    BY <2>2 DEF Start, TypeOK
  <2>3. CASE Die(p)
    BY <2>3 DEF Die, TypeOK
  <2>running. ASSUME status[p] = "running", Top(p).at \notin {"configure", "b_deps"}
              PROVE  Top(p).pkg \in Pkgs /\ Tree(p) \in Trees
    <3>1. stack[p] # <<>>
      BY <2>running DEF TypeOK
    <3>2. FrameShape(Top(p))
      BY <3>1, <1>top DEF StackShape
    <3> QED
      BY <2>running, <1>tree, <3>1, <3>2 DEF FrameShape
  <2>current. ASSUME status[p] = "running", Top(p).at \in EditLocked
              PROVE  CurrentEdit(p) \in Edit
    <3>1. Top(p).pkg \in Pkgs /\ Top(p).edit <= Len(Edits[Top(p).pkg])
          /\ Top(p).edit \in 1..Len(Edits[Top(p).pkg])
      <4>1. stack[p] # <<>> /\ FrameShape(Top(p)) /\ Top(p) \in Frames
        <5>1. stack[p] # <<>>
          BY <2>current DEF TypeOK
        <5> QED
          BY <5>1, <1>top, <1>2, StackTyped DEF StackShape
      <4>2. Top(p).pkg \in Pkgs
        BY <2>current, <2>running DEF EditLocked
      <4>3. Len(Edits[Top(p).pkg]) \in Nat
        BY <4>2, LenProperties
      <4> QED
        BY <2>current, <4>1, <4>2, <4>3 DEF FrameShape, Frames
    <3> QED
      BY <3>1, ElementOfSeq DEF CurrentEdit
  <2> USE DEF At
  <2>4. CASE Export(p)
    BY <2>4, <2>running DEF Export, TypeOK
  <2>5. CASE OpenFixed(p)
    BY <2>5, <2>running DEF OpenFixed, TypeOK
  <2>6. CASE WriteFixed(p)
    BY <2>6, <2>running DEF WriteFixed, TypeOK
  <2>7. CASE WriteEdit(p)
    <3>1. source' \in [Pkgs -> Seq(Edit)]
      <4>1. CurrentEdit(p) \in Edit /\ Top(p).pkg \in Pkgs
        BY <2>7, <2>running, <2>current DEF WriteEdit, EditLocked
      <4>2. Append(source[Top(p).pkg], CurrentEdit(p)) \in Seq(Edit)
        BY <4>1, AppendProperties DEF TypeOK
      <4> QED
        BY <2>7, <4>1, <4>2 DEF WriteEdit, TypeOK
    <3> QED
      BY <2>7, <3>1 DEF WriteEdit, TypeOK
  <2>8. CASE FlagEdit(p)
    BY <2>8, <2>running, <2>current DEF FlagEdit, EditLocked, TypeOK
  <2>9. CASE RecordHash(p)
    BY <2>9, <2>running DEF RecordHash, TypeOK
  <2>10. CASE CheckBuild(p)
    BY <2>10, <2>running DEF CheckBuild, TypeOK
  <2>11. CASE SaveStamp(p)
    BY <2>11, <2>running DEF SaveStamp, TypeOK
  <2>12. CASE Build(p)
    BY <2>12, <2>running DEF Build, TypeOK
  <2>13. ASSUME NEW d \in Pkgs, IncludeGenerate(p, d) \/ BuildNext(p, d) PROVE Rest
    BY <2>1, <2>13 DEF IncludeGenerate, BuildNext
  <2>15. CASE DoubleCheck(p)
    <3>1. Tree(p) \in Trees /\ version[p] \in Versions
      BY <2>15, <2>running DEF DoubleCheck, TypeOK
    <3>2. cmakes' = cmakes \/ cmakes' = [cmakes EXCEPT ![Tree(p)] = @ \cup {version[p]}]
      BY <2>15 DEF DoubleCheck, Configure
    <3>3. cmakes' \in [Trees -> SUBSET Versions]
      <4>1. cmakes \in [Trees -> SUBSET Versions]
        BY DEF TypeOK
      <4>2. cmakes[Tree(p)] \cup {version[p]} \in SUBSET Versions
        BY <3>1, <4>1
      <4> HIDE DEF Tree
      <4> QED
        BY <3>1, <3>2, <4>1, <4>2
    <3> QED
      BY <2>15, <3>3 DEF DoubleCheck, TypeOK
  <2>14. CASE \/ StartBuild(p) \/ Finish(p) \/ Check(p) \/ TryLock(p) \/ WaitLock(p)
              \/ WaitTimeout(p) \/ StartEdits(p) \/ EditsDone(p)
              \/ CheckEdit(p) \/ LockFile(p) \/ CheckEditAgain(p) \/ UnlockFile(p)
              \/ Release(p) \/ ExportsDone(p) \/ Include(p) \/ LockBuild(p)
              \/ DoubleCheckBuild(p) \/ BuildDepsDone(p) \/ UnlockBuild(p)
    BY <2>1, <2>14 DEF StartBuild, Finish, Check, TryLock, WaitLock, WaitTimeout,
       StartEdits, EditsDone, CheckEdit, LockFile, CheckEditAgain, UnlockFile,
       Release, ExportsDone, Include, LockBuild, DoubleCheckBuild, BuildDepsDone, UnlockBuild
  <2> QED
    BY <2>2, <2>3, <2>4, <2>5, <2>6, <2>7, <2>8, <2>9, <2>10, <2>11, <2>12, <2>13, <2>14, <2>15
    DEF Step
<1> QED
  BY <1>2, <1>3, <1>4, <1>5, <1>6 DEF TypeOK, StacksTyped

-----------------------------------------------------------------------------
(* The first layer of the invariant: types, stacks and locks.              *)
Base == TypeOK /\ StackShape /\ Locks

(* The base of the other proofs holds initially.                           *)
LEMMA BaseInit == Init => Base
<1> SUFFICES ASSUME Init PROVE Base
  OBVIOUS
<1>0. \A p \in Procs : stack[p] = <<>> /\ Len(stack[p]) = 0
  BY DEF Init
<1>1. TypeOK
  <2>1. <<>> \in Seq(Frames) /\ <<>> \in Seq(Edit)
    OBVIOUS
  <2> QED
    BY <1>0, <2>1, SetupsAssumption DEF Init, TypeOK
<1>2. StackShape
  BY <1>0 DEF StackShape
<1>3. Locks
  BY <1>0 DEF Init, Locks, Holding, HoldsFile, InStack, OnceInStack, EditsFile, Trees
<1> QED
  BY <1>1, <1>2, <1>3 DEF Base

(* The base is kept by every step.                                         *)
LEMMA BaseStep == Base /\ [Next]_vars => Base'
<1> SUFFICES ASSUME Base, [Next]_vars PROVE Base'
  OBVIOUS
<1>1. ASSUME NEW p \in Procs, Start(p) \/ Die(p) \/ Step(p) PROVE Base'
  <2>1. StackStep(p) /\ StacksTyped
    BY <1>1, StepCases DEF Base, StackStep, TypeOK, StacksTyped
  <2>2. TypeOK'
    BY <1>1, TypeStep DEF Base
  <2>3. StackShape'
    BY <2>1, ShapeStep DEF Base
  <2>4. conf' = conf
    BY <1>1 DEF setup, Start, Die, Step, StartBuild, Finish, Check, TryLock, WaitLock, WaitTimeout,
       DoubleCheck, IncludeGenerate, BuildNext, StartEdits, EditsDone, CheckEdit, LockFile,
       CheckEditAgain, WriteEdit, FlagEdit, RecordHash, UnlockFile, Export, OpenFixed,
       WriteFixed, Release, ExportsDone, Include, CheckBuild, LockBuild, DoubleCheckBuild,
       SaveStamp, BuildDepsDone, Build, UnlockBuild
  <2>5. Locks'
    BY <2>1, <2>4, LocksStep DEF Base
  <2> QED
    BY <2>2, <2>3, <2>5 DEF Base
<1>2. CASE UNCHANGED vars
  <2>1. UNCHANGED <<conf, version, stack, status, runs, deaths, imports, generating, saved,
                    target, building, source, flags, hash, editing>>
    BY <1>2 DEF vars, setup, imports, trees, builds, sources
  <2>2. TypeOK'
    BY <2>1 DEF imports, Base, TypeOK
  <2>3. StackShape'
    BY <2>1 DEF Base, StackShape
  <2>4. Locks'
    BY <2>1 DEF Base, Locks, Holding, HoldsFile
  <2> QED
    BY <2>2, <2>3, <2>4 DEF Base
<1> QED
  BY <1>1, <1>2 DEF Next

(* Every variable keeps its type; a process runs as long as it has frames. *)
THEOREM TypeCorrect == Spec => []TypeOK
<1>1. Base => TypeOK
  BY DEF Base
<1> QED
  BY <1>1, BaseInit, BaseStep, PTL DEF Spec

(* Whoever is in the stages of a lock holds it alone.                      *)
LEMMA LocksHeldNow == Base => LocksHeld
<1> SUFFICES ASSUME Base, NEW p \in Procs, NEW k \in Pkgs
             PROVE  /\ InStage(p, k, Locked) => generating[<<k, conf[p]>>] = {p}
                    /\ InStage(p, k, BuildLocked) => building[<<k, conf[p]>>] = {p}
                    /\ InStage(p, k, EditLocked) => editing[k] = {p}
  BY DEF LocksHeld
<1> DEFINE t == <<k, conf[p]>>
<1>1. StacksTyped /\ conf[p] \in Configs /\ t \in Trees /\ t[1] = k /\ t[2] = conf[p]
  BY DEF Base, TypeOK, StacksTyped, Trees
<1>2. DOMAIN stack[p] = 1..Len(stack[p])
  BY <1>1, StackTyped
<1>3. ASSUME NEW stages, NEW lock, Holding(lock, stack, conf, stages), InStage(p, k, stages),
             lock \in [Trees -> SUBSET Procs]
      PROVE  lock[t] = {p}
  <2>1. InStack(stack[p], k, stages)
    BY <1>2, <1>3 DEF InStage, InStack
  <2>2. p \in lock[t]
    BY <1>1, <1>3, <2>1 DEF Holding
  <2>3. \A q \in lock[t] : q = p
    BY <1>1, <1>3, <2>2 DEF Holding
  <2> QED
    BY <2>2, <2>3
<1>4. ASSUME InStage(p, k, EditLocked) PROVE editing[k] = {p}
  <2>1. PICK i \in 1..Len(stack[p]) : stack[p][i].pkg = k /\ stack[p][i].at \in EditLocked
    BY <1>2, <1>4 DEF InStage
  <2>2. i = Len(stack[p])
    BY <2>1 DEF Base, StackShape, Waiting, EditLocked
  <2>3. EditsFile(stack[p], k)
    BY <2>1, <2>2 DEF EditsFile
  <2> QED
    BY <2>3 DEF Base, Locks, HoldsFile
<1> QED
  BY <1>3, <1>4 DEF Base, Locks, TypeOK

(* Dependencies that are layered have no set of packages each of which     *)
(* depends on one of the set.                                              *)
LEMMA NoCircle ==
    ASSUME NEW K \in SUBSET Pkgs, K # {}
    PROVE  \E k \in K : BuildDeps(k) \cap K = {}
<1> SUFFICES ASSUME \A k \in K : BuildDeps(k) \cap K # {} PROVE FALSE
  OBVIOUS
<1> DEFINE M == {e \in Pkgs : BuildDeps(e) \cap K # {}}
<1>1. K \subseteq M /\ M \in (SUBSET Pkgs) \ {{}}
  OBVIOUS
<1>2. PICK k \in M : Direct[k] \cap M = {}
  <2> HIDE DEF M
  <2> QED
    BY <1>1, LayersAssumption
<1>3. PICK d \in BuildDeps(k) : d \in K
  BY <1>2
<1>4. CASE d \in Direct[k]
  BY <1>1, <1>2, <1>3, <1>4
<1>5. ASSUME NEW e \in Direct[k], d \in BuildDeps(e) PROVE FALSE
  <2>1. e \in Pkgs
    BY <1>2 DEF Users
  <2>2. e \in M
    BY <1>3, <1>5, <2>1
  <2> QED
    BY <1>2, <1>5, <2>2
<1> QED
  BY <1>2, <1>3, <1>4, <1>5, BuildDepsFirst

(* Who waits for a build tree has its innermost frame at it, and whoever   *)
(* holds that tree and waits, waits for a dependency of it.                *)
LEMMA NoCircularWaitNow == Base => NoCircularWait
<1> SUFFICES ASSUME Base, NEW S \in (SUBSET Procs) \ {{}},
                    \A p \in S : WaitsFor(p) \cap S # {}
             PROVE  FALSE
  BY DEF NoCircularWait
<1> DEFINE AtTree(p) == At(p, "wait") \/ At(p, "b_lock")
<1>typed. StacksTyped
  BY DEF Base, TypeOK, StacksTyped
<1>top. ASSUME NEW p \in Procs, status[p] = "running"
        PROVE  /\ stack[p] # <<>> /\ Len(stack[p]) \in 1..Len(stack[p])
               /\ Top(p) = stack[p][Len(stack[p])] /\ Top(p).pkg \in Users
               /\ FrameShape(Top(p))
  <2>1. stack[p] # <<>>
    BY <1>top DEF Base, TypeOK
  <2>2. /\ Len(stack[p]) \in 1..Len(stack[p]) /\ Top(p) = stack[p][Len(stack[p])]
        /\ Top(p).pkg \in Users
    BY <2>1, <1>typed, StackTyped DEF Frames
  <2> QED
    BY <2>1, <2>2 DEF Base, StackShape
<1>1. ASSUME NEW p \in S PROVE AtTree(p) \/ At(p, "lock")
  BY <1>1 DEF WaitsFor
<1>2. ASSUME NEW p \in S, At(p, "lock") PROVE FALSE
  <2>1. PICK q \in S : q \in editing[Top(p).pkg]
    BY <1>2 DEF WaitsFor, At
  <2>2. Top(p).pkg \in Pkgs
    BY <1>2, <1>top DEF At, FrameShape, Users
  <2>3. EditsFile(stack[q], Top(p).pkg)
    BY <2>1, <2>2 DEF Base, Locks, HoldsFile
  <2>4. status[q] = "running"
    BY <1>1 DEF At
  <2>5. Top(q).at \in EditLocked
    BY <1>top, <2>3, <2>4 DEF EditsFile
  <2> QED
    BY <1>1, <2>5 DEF At, EditLocked
<1>3. ASSUME NEW p \in S PROVE AtTree(p) /\ Top(p).pkg \in Pkgs
  BY <1>1, <1>2, <1>top DEF At, FrameShape, Users
<1>4. ASSUME NEW p \in S PROVE \E q \in S : Top(q).pkg \in BuildDeps(Top(p).pkg)
  <2>1. Tree(p) = <<Top(p).pkg, conf[p]>> /\ Tree(p) \in Trees
    BY <1>3 DEF Tree, Trees, Base, TypeOK
  <2>2. ASSUME NEW q \in S, NEW stages, "wait" \notin stages, "b_lock" \notin stages,
               InStack(stack[q], Top(p).pkg, stages)
        PROVE  Top(q).pkg \in BuildDeps(Top(p).pkg)
    <3>1. PICK i \in 1..Len(stack[q]) : /\ stack[q][i].pkg = Top(p).pkg
                                        /\ stack[q][i].at \in stages
      BY <2>2 DEF InStack
    <3>2. /\ Len(stack[q]) \in 1..Len(stack[q])
          /\ Top(q) = stack[q][Len(stack[q])]
          /\ Top(q).at \in {"wait", "b_lock"}
      BY <1>3, <1>top DEF At
    <3>3. i < Len(stack[q])
      BY <2>2, <3>1, <3>2
    <3> QED
      BY <3>1, <3>2, <3>3 DEF Base, StackShape
  <2>3. CASE At(p, "wait")
    <3>1. PICK q \in S : q \in generating[Tree(p)]
      BY <2>3 DEF WaitsFor, At
    <3>2. InStack(stack[q], Top(p).pkg, Locked)
      BY <2>1, <3>1 DEF Base, Locks, Holding
    <3> QED
      BY <2>2, <3>2 DEF Locked
  <2>4. CASE At(p, "b_lock")
    <3>1. PICK q \in S : q \in building[Tree(p)]
      BY <2>4 DEF WaitsFor, At
    <3>2. InStack(stack[q], Top(p).pkg, BuildLocked)
      BY <2>1, <3>1 DEF Base, Locks, Holding
    <3> QED
      BY <2>2, <3>2 DEF BuildLocked
  <2> QED
    BY <1>3, <2>3, <2>4
<1> DEFINE K == {Top(p).pkg : p \in S}
<1>5. K \in SUBSET Pkgs /\ K # {}
  BY <1>3
<1>6. ASSUME NEW k \in K PROVE BuildDeps(k) \cap K # {}
  <2>1. PICK p \in S : k = Top(p).pkg
    OBVIOUS
  <2>2. PICK q \in S : Top(q).pkg \in BuildDeps(Top(p).pkg)
    BY <1>4
  <2> QED
    BY <2>1, <2>2
<1> QED
  <2> HIDE DEF K
  <2> QED
    BY <1>5, <1>6, NoCircle

(* Locks of build trees and files are held alone through all nested runs   *)
(* of CMake, and no runs wait for each other in a circle (LayersAssumption *)
(* says what is linked is not circular; include directories may be).       *)
THEOREM LocksCorrect == Spec => []LocksRight
<1>1. Base => LocksRight
  BY LocksHeldNow, NoCircularWaitNow DEF LocksRight
<1> QED
  BY <1>1, BaseInit, BaseStep, PTL DEF Spec

-----------------------------------------------------------------------------
(* Import files.                                                           *)

(* What an action of a running process is about.                           *)
LEMMA TopTyped ==
    ASSUME Base, NEW p \in Procs, status[p] = "running"
    PROVE  /\ stack[p] # <<>> /\ Len(stack[p]) \in 1..Len(stack[p])
           /\ Top(p) = stack[p][Len(stack[p])] /\ Top(p) \in Frames
           /\ FrameShape(Top(p)) /\ Top(p).pkg \in Users
           /\ Top(p).at \notin {"configure", "b_deps"} =>
                 Top(p).pkg \in Pkgs /\ Tree(p) \in Trees
           /\ Tree(p) = <<Top(p).pkg, conf[p]>>
<1>1. StacksTyped /\ stack[p] # <<>> /\ conf[p] \in Configs
  BY DEF Base, TypeOK, StacksTyped
<1>2. /\ Len(stack[p]) \in 1..Len(stack[p])
      /\ Top(p) = stack[p][Len(stack[p])] /\ Top(p) \in Frames
  BY <1>1, StackTyped
<1>3. FrameShape(Top(p)) /\ Top(p).pkg \in Users
  BY <1>2 DEF Base, StackShape, Frames
<1> QED
  BY <1>1, <1>2, <1>3 DEF FrameShape, Users, Tree, Trees

(* No other frame is in the locked stages of the same tree.                *)
LEMMA LockedAlone ==
    ASSUME Base, NEW p \in Procs, status[p] = "running", Top(p).pkg \in Pkgs,
           Top(p).at \in Locked, NEW q \in Procs, NEW i \in 1..Len(stack[q]),
           q # p \/ i < Len(stack[p]), stack[q][i].at \in Locked
    PROVE  <<stack[q][i].pkg, conf[q]>> # Tree(p)
<1>1. /\ Len(stack[p]) \in 1..Len(stack[p]) /\ Top(p) = stack[p][Len(stack[p])]
      /\ Tree(p) = <<Top(p).pkg, conf[p]>> /\ Tree(p) \in Trees
  BY TopTyped DEF Trees, Base, TypeOK
<1>2. CASE q = p
  <2>1. stack[q][i].pkg # Top(p).pkg
    BY <1>1, <1>2 DEF Base, Locks, Holding, OnceInStack
  <2> QED
    BY <1>1, <2>1
<1>3. ASSUME q # p, <<stack[q][i].pkg, conf[q]>> = Tree(p) PROVE FALSE
  <2>1. stack[q][i].pkg = Top(p).pkg /\ conf[q] = conf[p]
    BY <1>1, <1>3
  <2>2. InStack(stack[p], Top(p).pkg, Locked) /\ InStack(stack[q], Top(p).pkg, Locked)
    BY <1>1, <2>1 DEF InStack
  <2>3. p \in generating[Tree(p)] /\ q \in generating[Tree(p)]
    BY <1>1, <2>1, <2>2 DEF Base, Locks, Holding
  <2> QED
    BY <1>1, <1>3, <2>3 DEF Base, Locks, Holding
<1> QED
  BY <1>2, <1>3

(* The kinds of a step exclude each other by the depth of the stack.       *)
LEMMA MovesAlone ==
    ASSUME StacksTyped, NEW p \in Procs, Moves(p)
    PROVE  ~Begins(p) /\ ~Ends(p) /\ ~Visits(p) /\ ~Returns(p)
<1>1. stack[p] # <<>> /\ Len(stack'[p]) = Len(stack[p])
  BY DEF Moves, Keeping, Moved
<1>2. Len(stack[p]) \in Nat /\ Len(stack[p]) # 0
  BY <1>1, StackTyped
<1>3. \A n \in Nat : n # n + 1 /\ n # n - 1
  OBVIOUS
<1> QED
  BY <1>1, <1>2, <1>3 DEF Begins, Ends, Visits, VisitsTo, Returns, Pushed, Popped

(* A frame that returns neither begins a run nor visits a dependency.      *)
LEMMA ReturnsAlone ==
    ASSUME StacksTyped, NEW p \in Procs, Returns(p)
    PROVE  ~Begins(p) /\ ~Visits(p) /\ (status[p] # "done" => status'[p] # "done")
<1>1. stack[p] # <<>> /\ Len(stack'[p]) = Len(stack[p]) - 1 /\ status' = status
  BY DEF Returns, Popped
<1>2. Len(stack[p]) \in Nat
  BY <1>1, StackTyped
<1>3. \A n \in Nat : n - 1 # n + 1
  OBVIOUS
<1> QED
  BY <1>1, <1>2, <1>3 DEF Begins, Visits, VisitsTo, Pushed

(* A process keeps its configuration and its version of CMake.             *)
LEMMA StepKeepsConfig ==
    ASSUME NEW p \in Procs, Start(p) \/ Die(p) \/ Step(p)
    PROVE  conf' = conf /\ version' = version
BY DEF setup, Start, Die, Step, StartBuild, Finish, Check, TryLock, WaitLock, WaitTimeout,
   DoubleCheck, IncludeGenerate, BuildNext, StartEdits, EditsDone, CheckEdit, LockFile,
   CheckEditAgain, WriteEdit, FlagEdit, RecordHash, UnlockFile, Export, OpenFixed,
   WriteFixed, Release, ExportsDone, Include, CheckBuild, LockBuild, DoubleCheckBuild,
   SaveStamp, BuildDepsDone, Build, UnlockBuild

(* A whole file is opened only for a version it was never written for.     *)
Kept == \A t \in Trees :
    fixed[t] = "complete" /\ fixed'[t] # "complete" => opened'[t] # opened[t]

(* Nothing is written, but for what is added.                              *)
Calm == /\ fixed' = fixed /\ opened' = opened /\ import \subseteq import'
        /\ \A t \in Trees : cmakes[t] \subseteq cmakes'[t]

(* A step opens a fixed import file only in a tree it holds alone, and in  *)
(* which this version of CMake was not yet.                                *)
LEMMA FreshStep ==
    ASSUME Base, Fresh, NEW p \in Procs, Start(p) \/ Die(p) \/ Step(p)
    PROVE  /\ Fresh'
           /\ Kept
<1>0. TypeOK /\ StackShape /\ StacksTyped /\ StackStep(p) /\ conf' = conf /\ version' = version
  BY StepCases, StepKeepsConfig DEF Base, TypeOK, StacksTyped, StackStep
<1>run. ASSUME Moves(p) \/ Visits(p) \/ Returns(p)
        PROVE  status[p] = "running"
  <2>1. stack[p] # <<>>
    BY <1>run DEF Moves, Visits, VisitsTo, Returns, Keeping, Moved, Pushed, Popped
  <2> QED
    BY <2>1 DEF Base, TypeOK
<1>here. \A q \in Procs : \A k \in Pkgs : <<k, conf[q]>> \in Trees
  BY <1>0 DEF Trees, TypeOK
<1>frames. ASSUME Files(fixed', opened', cmakes', import'),
                  \A q \in Procs : \A i \in 1..Len(stack[q]) :
                      q # p \/ i < Len(stack[p]) =>
                          FrameFresh(stack[q][i], conf[q], version[q], opened', cmakes',
                                     import'),
                  Moves(p) \/ Visits(p) =>
                      FrameFresh(NewTop(p), conf[p], version[p], opened', cmakes', import')
           PROVE  Fresh'
  <2>1. ASSUME NEW q \in Procs, q # p, NEW i \in 1..Len(stack'[q])
        PROVE  FrameFresh(stack'[q][i], conf[q], version[q], opened', cmakes', import')
    BY <1>0, <1>frames, <2>1, FramesAfter
  <2>2. ASSUME NEW i \in 1..Len(stack'[p])
        PROVE  FrameFresh(stack'[p][i], conf[p], version[p], opened', cmakes', import')
    <3>1. CASE i < Len(stack[p]) /\ stack'[p][i] = stack[p][i]
      <4>1. i \in 1..Len(stack[p])
        BY <1>0, <3>1, FramesAfter
      <4> QED
        BY <1>frames, <3>1, <4>1
    <3>2. CASE (Moves(p) \/ Visits(p)) /\ stack'[p][i] = NewTop(p)
      BY <1>frames, <3>2
    <3>3. CASE stack'[p][i].at \in {"check", "b_check"} \/ stack'[p][i].pkg = Root
      BY <3>3 DEF FrameFresh, Unfixed, EditLocked
    <3> QED
      BY <1>0, <3>1, <3>2, <3>3, FramesAfter
  <2> QED
    BY <1>0, <1>frames, <2>1, <2>2 DEF Fresh, FrameFresh
<1>quiet. ASSUME Calm,
                 Moves(p) =>
                     FrameFresh(NewTop(p), conf[p], version[p], opened', cmakes', import')
          PROVE  Fresh' /\ Kept
  <2>1. \A q \in Procs : \A i \in 1..Len(stack[q]) :
            FrameFresh(stack[q][i], conf[q], version[q], opened', cmakes', import')
    BY <1>quiet, <1>here DEF Calm, Fresh, FrameFresh
  <2>2. ASSUME Visits(p)
        PROVE  FrameFresh(NewTop(p), conf[p], version[p], opened', cmakes', import')
    <3>1. NewTop(p).at = Top(p).at /\ NewTop(p).pkg = Top(p).pkg
      BY <2>2 DEF Visits, VisitsTo
    <3>2. FrameFresh(Top(p), conf[p], version[p], opened', cmakes', import')
      BY <1>run, <2>1, <2>2, TopTyped
    <3> QED
      BY <3>1, <3>2 DEF FrameFresh
  <2> QED
    BY <1>frames, <1>quiet, <2>1, <2>2 DEF Calm, Fresh, Files, Kept
<1>moves. ASSUME Moves(p)
          PROVE  /\ NewTop(p).pkg = Top(p).pkg
                 /\ FrameFresh(Top(p), conf[p], version[p], opened, cmakes, import)
                 /\ Tree(p) = <<Top(p).pkg, conf[p]>>
  BY <1>run, <1>moves, TopTyped DEF Moves, Keeping, Fresh
<1> USE DEF setup, imports, trees, builds, sources, At
<1>1. CASE \/ Start(p) \/ Die(p) \/ Finish(p) \/ WaitTimeout(p) \/ Include(p) \/ UnlockBuild(p)
           \/ \E d \in Pkgs : IncludeGenerate(p, d) \/ BuildNext(p, d)
  <2>1. Calm
    BY <1>1 DEF Calm, Start, Die, Finish, WaitTimeout, Include, UnlockBuild, IncludeGenerate,
       BuildNext
  <2>2. Begins(p) \/ Ends(p) \/ Returns(p) \/ Visits(p)
    BY <1>0, <1>1, ActionCases DEF Visits
  <2> QED
    BY <1>0, <1>quiet, <2>1, <2>2, MovesAlone
<1>2. CASE CheckBuild(p)
  <2>1. Calm
    BY <1>2 DEF Calm, CheckBuild
  <2>2. Moves(p) => NewTop(p).at = "b_lock"
    BY <1>0, <1>2, ActionCases, MovesAlone DEF To
  <2> QED
    BY <1>quiet, <2>1, <2>2 DEF FrameFresh, Unfixed, EditLocked
<1>3. ASSUME Calm, NEW s, To(p, s),
             s \notin Unfixed \cup {"open", "fix"}
             \/ (s \in Unfixed \ {"open"} /\ Top(p).at \in Unfixed)
      PROVE  Fresh' /\ Kept
  BY <1>3, <1>quiet, <1>moves, <1>here DEF Calm, To, FrameFresh, Unfixed, EditLocked
<1>4. CASE \/ StartBuild(p) \/ Check(p) \/ TryLock(p) \/ WaitLock(p) \/ Release(p)
           \/ ExportsDone(p) \/ LockBuild(p) \/ DoubleCheckBuild(p) \/ SaveStamp(p)
           \/ BuildDepsDone(p) \/ Build(p)
  <2>1. Calm
    BY <1>4 DEF Calm, StartBuild, Check, TryLock, WaitLock, Release, ExportsDone, LockBuild,
       DoubleCheckBuild, SaveStamp, BuildDepsDone, Build
  <2>2. \E s \in {"b_deps", "exports", "try", "double", "wait", "include", "b_double",
                  "b_unlock", "b_save", "b_build"} : To(p, s)
    BY <1>0, <1>4, ActionCases
  <2> QED
    BY <1>3, <2>1, <2>2 DEF Unfixed, EditLocked
<1>5. CASE \/ StartEdits(p) \/ EditsDone(p) \/ LockFile(p) \/ CheckEditAgain(p)
           \/ WriteEdit(p) \/ FlagEdit(p) \/ RecordHash(p)
  <2>1. Calm /\ Top(p).at \in Unfixed
    BY <1>5 DEF Calm, StartEdits, EditsDone, LockFile, CheckEditAgain, WriteEdit, FlagEdit,
       RecordHash, Unfixed, EditLocked
  <2>2. \E s \in {"edit", "export", "again", "unlock", "write", "flag", "record"} : To(p, s)
    BY <1>0, <1>5, ActionCases
  <2> QED
    BY <1>3, <2>1, <2>2 DEF Unfixed, EditLocked
<1>6. CASE CheckEdit(p) \/ UnlockFile(p)
  <2>1. Calm /\ Top(p).at \in Unfixed
    BY <1>6 DEF Calm, CheckEdit, UnlockFile, Unfixed, EditLocked
  <2>2. Moves(p) /\ NewTop(p).at \in {"edit", "lock"}
    BY <1>0, <1>6, ActionCases DEF To, ToNextEdit
  <2> QED
    BY <1>quiet, <1>moves, <1>here, <2>1, <2>2 DEF Calm, FrameFresh, Unfixed, EditLocked
<1>7. CASE DoubleCheck(p)
  <2>1. status[p] = "running" /\ Top(p).at = "double" /\ Tree(p) \in Trees
    BY <1>0, <1>7, TopTyped DEF DoubleCheck
  <2>2. CASE Prepared(Tree(p), version[p])
    <3>1. Calm /\ To(p, "release")
      BY <1>0, <1>7, <2>2, ActionCases DEF DoubleCheck, Calm
    <3> QED
      BY <1>3, <3>1 DEF Unfixed, EditLocked
  <2>3. CASE ~Prepared(Tree(p), version[p])
    <3>1. To(p, "configure")
      BY <1>0, <1>7, <2>3, ActionCases
    <3>2. cmakes' = [cmakes EXCEPT ![Tree(p)] = @ \cup {version[p]}]
          /\ fixed' = fixed /\ opened' = opened /\ import' = import
      BY <1>7, <2>3 DEF DoubleCheck, Configure
    <3>3. Calm /\ version[p] \in cmakes'[Tree(p)]
      BY <1>0, <2>1, <3>2 DEF Calm, TypeOK
    <3>4. version[p] \notin opened[Tree(p)]
      BY <2>1, <2>3 DEF Prepared, Fresh, Files
    <3> QED
      BY <1>moves, <1>quiet, <3>1, <3>2, <3>3, <3>4 DEF To, FrameFresh
  <2> QED
    BY <2>2, <2>3
<1>8. CASE Export(p)
  <2>1. /\ Calm /\ opened' = opened /\ cmakes' = cmakes /\ import' = import \cup {Tree(p)}
        /\ Top(p).at = "export" /\ To(p, "open")
    BY <1>0, <1>8, ActionCases DEF Export, Calm
  <2> QED
    BY <1>moves, <1>quiet, <2>1 DEF To, FrameFresh, Unfixed
<1>9. CASE OpenFixed(p)
  <2>1. /\ fixed' = [fixed EXCEPT ![Tree(p)] = "partial"]
        /\ opened' = [opened EXCEPT ![Tree(p)] = @ \cup {version[p]}]
        /\ import' = import /\ cmakes' = cmakes
        /\ To(p, "fix") /\ status[p] = "running" /\ Top(p).at = "open"
    BY <1>0, <1>9, ActionCases DEF OpenFixed
  <2>2. /\ Tree(p) \in Trees /\ Tree(p) \in import /\ Top(p).pkg \in Pkgs
        /\ version[p] \notin opened[Tree(p)] /\ version[p] \in cmakes[Tree(p)]
    BY <1>moves, <2>1, TopTyped DEF To, FrameFresh, Unfixed
  <2>3. \A t \in Trees :
            /\ fixed'[t] = IF t = Tree(p) THEN "partial" ELSE fixed[t]
            /\ opened'[t] = IF t = Tree(p) THEN opened[t] \cup {version[p]} ELSE opened[t]
    BY <1>0, <2>1, <2>2 DEF TypeOK
  <2>4. ASSUME NEW q \in Procs, NEW i \in 1..Len(stack[q]), q # p \/ i < Len(stack[p])
        PROVE  FrameFresh(stack[q][i], conf[q], version[q], opened', cmakes', import')
    <3>1. FrameFresh(stack[q][i], conf[q], version[q], opened, cmakes, import)
      BY DEF Fresh
    <3>2. stack[q][i].at \in Unfixed => <<stack[q][i].pkg, conf[q]>> # Tree(p)
      BY <2>1, <2>2, <2>4, LockedAlone DEF Unfixed, Locked, EditLocked
    <3> QED
      BY <1>here, <2>1, <2>3, <3>1, <3>2 DEF FrameFresh
  <2>5. FrameFresh(NewTop(p), conf[p], version[p], opened', cmakes', import')
    <3>1. version[p] \in opened'[Tree(p)]
      BY <2>2, <2>3
    <3> QED
      BY <1>moves, <2>1, <2>2, <3>1 DEF To, FrameFresh, Unfixed, EditLocked
  <2>6. Files(fixed', opened', cmakes', import')
    <3>1. ASSUME NEW t \in Trees, t # Tree(p)
          PROVE  /\ opened'[t] \subseteq cmakes'[t]
                 /\ fixed'[t] = "absent" <=> opened'[t] = {}
                 /\ fixed'[t] # "absent" => t \in import'
      BY <2>1, <2>3, <3>1 DEF Fresh, Files
    <3>2. opened[Tree(p)] \subseteq cmakes[Tree(p)]
      BY <2>2 DEF Fresh, Files
    <3>3. /\ opened'[Tree(p)] \subseteq cmakes'[Tree(p)] /\ opened'[Tree(p)] # {}
          /\ fixed'[Tree(p)] = "partial" /\ Tree(p) \in import'
      <4>1. opened'[Tree(p)] = opened[Tree(p)] \cup {version[p]}
            /\ fixed'[Tree(p)] = "partial" /\ cmakes'[Tree(p)] = cmakes[Tree(p)]
        BY <2>1, <2>2, <2>3
      <4> HIDE DEF Tree
      <4> QED
        BY <2>1, <2>2, <3>2, <4>1
    <3> QED
      BY <3>1, <3>3 DEF Files
  <2>7. Kept
    BY <2>2, <2>3 DEF Kept
  <2> QED
    BY <1>frames, <2>4, <2>5, <2>6, <2>7
<1>10. CASE WriteFixed(p)
  <2>1. /\ fixed' = [fixed EXCEPT ![Tree(p)] = "complete"]
        /\ opened' = opened /\ import' = import /\ cmakes' = cmakes
        /\ To(p, "release") /\ status[p] = "running" /\ Top(p).at = "fix"
    BY <1>0, <1>10, ActionCases DEF WriteFixed
  <2>2. Tree(p) \in Trees /\ Tree(p) \in import /\ fixed[Tree(p)] # "absent"
    <3>1. Tree(p) \in Trees /\ FrameFresh(Top(p), conf[p], version[p], opened, cmakes, import)
      BY <1>moves, <2>1, TopTyped DEF To
    <3> QED
      <4>1. Top(p).pkg \in Pkgs /\ Tree(p) = <<Top(p).pkg, conf[p]>>
        BY <1>moves, <2>1, TopTyped DEF To
      <4>2. Tree(p) \in import /\ version[p] \in opened[Tree(p)]
        BY <2>1, <3>1, <4>1 DEF FrameFresh
      <4> QED
        BY <3>1, <4>2 DEF Fresh, Files
  <2>3. \A t \in Trees : fixed'[t] = IF t = Tree(p) THEN "complete" ELSE fixed[t]
    BY <1>0, <2>1, <2>2 DEF TypeOK
  <2>4. \A q \in Procs : \A i \in 1..Len(stack[q]) :
            FrameFresh(stack[q][i], conf[q], version[q], opened', cmakes', import')
    BY <2>1 DEF Fresh
  <2>5. FrameFresh(NewTop(p), conf[p], version[p], opened', cmakes', import')
    BY <2>1 DEF To, FrameFresh, Unfixed, EditLocked
  <2>6. Files(fixed', opened', cmakes', import')
    BY <2>1, <2>2, <2>3 DEF Fresh, Files
  <2>7. Kept
    BY <2>3 DEF Kept
  <2> QED
    BY <1>frames, <2>4, <2>5, <2>6, <2>7
<1> QED
  BY <1>1, <1>2, <1>4, <1>5, <1>6, <1>7, <1>8, <1>9, <1>10 DEF Step

(* There are no import files initially.                                    *)
LEMMA FreshInit == Init => Fresh
BY DEF Init, Fresh, Files

(* The facts about import files are kept, and whole fixed ones stay.       *)
LEMMA FreshNext ==
    Base /\ Fresh /\ [Next]_vars =>
        /\ Fresh'
        /\ Kept \/ UNCHANGED vars
<1>1. ASSUME Base, Fresh, UNCHANGED vars PROVE Fresh'
  BY <1>1 DEF vars, setup, imports, trees, Fresh
<1> QED
  BY <1>1, FreshStep DEF Next

(* A fixed import file that is whole is opened again only for a version of *)
(* CMake it was never written for.                                         *)
THEOREM ImportsStay == Spec => ImportStays
<1>1. Base /\ Fresh /\ [Next]_vars =>
          [Kept]_vars
  BY FreshNext
<1> QED
  BY <1>1, BaseInit, BaseStep, FreshInit, FreshNext, PTL DEF Spec, ImportStays, Kept

-----------------------------------------------------------------------------
(* Edits.                                                                  *)

(* What is in a sequence after an element is appended.                     *)
LEMMA RangeAppend ==
    ASSUME NEW S, NEW s \in Seq(S), NEW e \in S
    PROVE  Range(Append(s, e)) = Range(s) \cup {e}
<1>1. /\ Append(s, e) \in Seq(S) /\ Len(Append(s, e)) = Len(s) + 1
      /\ \A i \in 1..Len(s) : Append(s, e)[i] = s[i]
      /\ Append(s, e)[Len(s) + 1] = e
  BY AppendProperties
<1>2. /\ Range(s) = {s[i] : i \in 1..Len(s)} /\ Len(s) \in Nat
      /\ Range(Append(s, e)) = {Append(s, e)[i] : i \in 1..Len(s) + 1}
  BY <1>1, RangeEquality, LenProperties
<1>3. \A i : i \in 1..Len(s) + 1 <=> i \in 1..Len(s) \/ i = Len(s) + 1
  BY <1>2
<1> QED
  BY <1>1, <1>2, <1>3

(* The frames after a step are good if those that stay are, the one that   *)
(* moves, and any new one.                                                 *)
LEMMA FramesGood ==
    ASSUME Base, NEW p \in Procs, StackStep(p), NEW Good,
           \A q \in Procs : \A i \in 1..Len(stack[q]) :
               q # p \/ i < Len(stack[p]) => stack[q][i] \in Good,
           Moves(p) \/ Visits(p) => NewTop(p) \in Good,
           \A f \in Frames : (f.at \in {"check", "b_check"} /\ f.edit = 1) \/ f.pkg = Root
                             => f \in Good
    PROVE  \A q \in Procs : \A i \in 1..Len(stack'[q]) : stack'[q][i] \in Good
<1>0. StacksTyped /\ StackShape
  BY DEF Base, TypeOK, StacksTyped
<1>1. \A q \in Procs : \A i \in 1..Len(stack'[q]) : stack'[q][i] \in Frames
  BY <1>0, FramesAfter, ElementOfSeq DEF StacksTyped
<1>2. ASSUME NEW i \in 1..Len(stack'[p]) PROVE stack'[p][i] \in Good
  <2>1. CASE i < Len(stack[p]) /\ stack'[p][i] = stack[p][i]
    <3>1. i \in 1..Len(stack[p])
      BY <1>0, <2>1, FramesAfter
    <3> QED
      BY <2>1, <3>1
  <2>2. CASE (Moves(p) \/ Visits(p)) /\ stack'[p][i] = NewTop(p)
    BY <2>2
  <2>3. CASE (stack'[p][i].at \in {"check", "b_check"} /\ stack'[p][i].edit = 1)
             \/ stack'[p][i].pkg = Root
    BY <1>1, <2>3
  <2> QED
    BY <1>0, <2>1, <2>2, <2>3, FramesAfter
<1>3. ASSUME NEW q \in Procs, q # p, NEW i \in 1..Len(stack'[q])
      PROVE  stack'[q][i] \in Good
  BY <1>0, <1>3, FramesAfter
<1> QED
  BY <1>2, <1>3

(* A step keeps edits in files, and exports a tree when all are made.      *)
LEMMA EditedStep ==
    ASSUME Base, Edited, NEW p \in Procs, Start(p) \/ Die(p) \/ Step(p)
    PROVE  Edited'
<1>0. TypeOK /\ StackShape /\ StacksTyped /\ StackStep(p)
  BY StepCases DEF Base, TypeOK, StacksTyped, StackStep
<1>run. ASSUME Moves(p) \/ Visits(p) \/ Returns(p)
        PROVE  status[p] = "running" /\ FrameEdited(Top(p), source)
  <2>1. stack[p] # <<>>
    BY <1>run DEF Moves, Visits, VisitsTo, Returns, Keeping, Moved, Pushed, Popped
  <2>2. status[p] = "running"
    BY <2>1 DEF Base, TypeOK
  <2> QED
    BY <2>2, TopTyped DEF Edited
<1> DEFINE Grows == \A k \in Pkgs : Range(source[k]) \subseteq Range(source'[k])
           Good == {f \in Frames : FrameEdited(f, source')}
<1>frames. ASSUME Grows, Moves(p) => FrameEdited(NewTop(p), source')
           PROVE  \A q \in Procs : \A i \in 1..Len(stack'[q]) : FrameEdited(stack'[q][i], source')
  <2>1. ASSUME NEW q \in Procs, NEW i \in 1..Len(stack[q]) PROVE stack[q][i] \in Good
    <3>1. FrameEdited(stack[q][i], source) /\ stack[q][i] \in Frames
      BY <1>0, StackTyped DEF Edited
    <3> QED
      BY <1>frames, <3>1 DEF FrameEdited
  <2>2. ASSUME Visits(p) PROVE NewTop(p) \in Good
    <3>1. NewTop(p).at = Top(p).at /\ NewTop(p).pkg = Top(p).pkg
          /\ NewTop(p).edit = Top(p).edit /\ NewTop(p) \in Frames
      BY <2>2 DEF Visits, VisitsTo, Pushed
    <3>2. Top(p) \in Good
      BY <1>run, <2>1, <2>2, TopTyped
    <3> QED
      BY <3>1, <3>2 DEF FrameEdited
  <2>3. ASSUME Moves(p) PROVE NewTop(p) \in Good
    BY <1>frames, <2>3 DEF Moves, Keeping, Moved
  <2>4. ASSUME NEW f \in Frames, (f.at \in {"check", "b_check"} /\ f.edit = 1) \/ f.pkg = Root
        PROVE  f \in Good
    BY <2>4 DEF FrameEdited
  <2> HIDE DEF Good
  <2>5. \A q \in Procs : \A i \in 1..Len(stack'[q]) : stack'[q][i] \in Good
    BY <1>0, <2>1, <2>2, <2>3, <2>4, FramesGood
  <2> QED
    BY <2>5 DEF Good
<1>quiet. ASSUME source' = source, flags' = flags, import' = import,
                 Moves(p) => FrameEdited(NewTop(p), source)
          PROVE  Edited'
  <2>1. \A q \in Procs : \A i \in 1..Len(stack'[q]) : FrameEdited(stack'[q][i], source')
    BY <1>frames, <1>quiet
  <2> QED
    BY <1>quiet, <2>1 DEF Edited, EditedBeforeExport, FrameEdited
<1>moves. ASSUME Moves(p)
          PROVE  NewTop(p).pkg = Top(p).pkg /\ Top(p).edit \in Nat \ {0}
  BY <1>run, <1>moves, TopTyped DEF Moves, Keeping, Frames
<1>to. ASSUME NEW s, To(p, s), s \notin {"flag", "record", "unlock", "export"}
       PROVE  FrameEdited(NewTop(p), source)
  BY <1>to, <1>moves, <1>run DEF To, FrameEdited
<1>next. ASSUME ToNextEdit(p), Edits[Top(p).pkg][Top(p).edit] \in Range(source[Top(p).pkg])
         PROVE  FrameEdited(NewTop(p), source)
  <2>1. \A n \in Nat : n < Top(p).edit + 1 => n < Top(p).edit \/ n = Top(p).edit
    BY <1>next, <1>moves DEF ToNextEdit
  <2> QED
    BY <1>next, <1>moves, <1>run, <2>1 DEF ToNextEdit, FrameEdited
<1> USE DEF setup, imports, trees, builds, sources, At
<1>1. CASE \/ Start(p) \/ Die(p) \/ Finish(p) \/ WaitTimeout(p) \/ Include(p) \/ UnlockBuild(p)
           \/ \E d \in Pkgs : IncludeGenerate(p, d) \/ BuildNext(p, d)
  <2>1. source' = source /\ flags' = flags /\ import' = import
    BY <1>1 DEF Start, Die, Finish, WaitTimeout, Include, UnlockBuild, IncludeGenerate,
       BuildNext
  <2>2. Begins(p) \/ Ends(p) \/ Returns(p) \/ Visits(p)
    BY <1>0, <1>1, ActionCases DEF Visits
  <2> QED
    BY <1>0, <1>quiet, <2>1, <2>2, MovesAlone
<1>2. CASE CheckBuild(p)
  <2>1. source' = source /\ flags' = flags /\ import' = import
    BY <1>2 DEF CheckBuild
  <2>2. Moves(p) => FrameEdited(NewTop(p), source)
    BY <1>0, <1>2, <1>to, ActionCases, MovesAlone
  <2> QED
    BY <1>quiet, <2>1, <2>2
<1>3. CASE \/ StartBuild(p) \/ Check(p) \/ TryLock(p) \/ WaitLock(p) \/ DoubleCheck(p)
           \/ StartEdits(p) \/ LockFile(p) \/ OpenFixed(p) \/ WriteFixed(p) \/ Release(p)
           \/ ExportsDone(p) \/ LockBuild(p) \/ DoubleCheckBuild(p) \/ SaveStamp(p)
           \/ BuildDepsDone(p) \/ Build(p)
  <2>1. source' = source /\ flags' = flags /\ import' = import
    BY <1>3 DEF StartBuild, Check, TryLock, WaitLock, DoubleCheck, StartEdits, LockFile,
       OpenFixed, WriteFixed, Release, ExportsDone, LockBuild, DoubleCheckBuild, SaveStamp,
       BuildDepsDone, Build
  <2>2. \E s \in {"b_deps", "exports", "try", "double", "wait", "release", "configure",
                  "edit", "again", "fix", "include", "b_double", "b_unlock", "b_save",
                  "b_build"} : To(p, s)
    BY <1>0, <1>3, ActionCases
  <2> QED
    BY <1>quiet, <1>to, <2>1, <2>2
<1>4. CASE EditsDone(p)
  <2>1. source' = source /\ flags' = flags /\ import' = import
        /\ Top(p).edit > Len(Edits[Top(p).pkg]) /\ To(p, "export")
    BY <1>0, <1>4, ActionCases DEF EditsDone
  <2> QED
    BY <1>quiet, <1>moves, <1>run, <2>1 DEF To, FrameEdited
<1>edit. ASSUME status[p] = "running", Top(p).at \in {"lock"} \cup EditLocked
         PROVE  /\ Top(p).pkg \in Pkgs
                /\ Top(p).edit \in 1..Len(Edits[Top(p).pkg]) /\ CurrentEdit(p) \in Edit
  <2>1. Top(p).pkg \in Pkgs /\ Top(p).edit \in Nat \ {0}
        /\ Top(p).edit <= Len(Edits[Top(p).pkg])
    BY <1>edit, TopTyped DEF EditLocked, FrameShape, Frames
  <2>2. Edits[Top(p).pkg] \in Seq(Edit) /\ Len(Edits[Top(p).pkg]) \in Nat
    BY <2>1, LenProperties
  <2>3. Top(p).edit \in 1..Len(Edits[Top(p).pkg])
    BY <2>1, <2>2
  <2> QED
    BY <2>1, <2>2, <2>3, ElementOfSeq DEF CurrentEdit
<1>5. CASE CheckEdit(p)
  <2>1. source' = source /\ flags' = flags /\ import' = import /\ status[p] = "running"
        /\ Top(p).at = "edit"
    BY <1>5 DEF CheckEdit
  <2>2. CASE Applied(Top(p).pkg, CurrentEdit(p))
    <3>1. Top(p).pkg \in Pkgs
      BY <2>1, TopTyped
    <3>2. Edits[Top(p).pkg][Top(p).edit] \in Range(source[Top(p).pkg])
      BY <2>2, <3>1 DEF Applied, CurrentEdit, Edited
    <3> QED
      BY <1>0, <1>5, <1>quiet, <1>next, <2>1, <2>2, <3>2, ActionCases
  <2>3. CASE ~Applied(Top(p).pkg, CurrentEdit(p))
    BY <1>0, <1>5, <1>quiet, <1>to, <2>1, <2>3, ActionCases
  <2> QED
    BY <2>2, <2>3
<1>6. CASE CheckEditAgain(p)
  <2>1. source' = source /\ flags' = flags /\ import' = import /\ status[p] = "running"
        /\ Top(p).at = "again"
    BY <1>6 DEF CheckEditAgain
  <2>2. CASE Applied(Top(p).pkg, CurrentEdit(p))
    <3>1. Top(p).pkg \in Pkgs
      BY <2>1, TopTyped
    <3>2. Edits[Top(p).pkg][Top(p).edit] \in Range(source[Top(p).pkg])
      BY <2>2, <3>1 DEF Applied, CurrentEdit, Edited
    <3>3. To(p, "unlock")
      BY <1>0, <1>6, <2>2, ActionCases
    <3> QED
      BY <1>quiet, <1>moves, <1>run, <2>1, <3>2, <3>3 DEF To, FrameEdited
  <2>3. CASE ~Applied(Top(p).pkg, CurrentEdit(p))
    BY <1>0, <1>6, <1>quiet, <1>to, <2>1, <2>3, ActionCases
  <2> QED
    BY <2>2, <2>3
<1>7. CASE WriteEdit(p)
  <2> DEFINE k == Top(p).pkg
             e == CurrentEdit(p)
  <2>1. /\ source' = [source EXCEPT ![k] = Append(@, e)]
        /\ flags' = flags /\ import' = import /\ status[p] = "running"
        /\ Top(p).at = "write" /\ To(p, "flag")
    BY <1>0, <1>7, ActionCases DEF WriteEdit
  <2>2. k \in Pkgs /\ e \in Edit /\ e = Edits[k][Top(p).edit]
    BY <1>edit, <2>1 DEF EditLocked, CurrentEdit
  <2>3. \A j \in Pkgs : Range(source'[j]) = IF j = k THEN Range(source[j]) \cup {e}
                                                     ELSE Range(source[j])
    <3>1. source \in [Pkgs -> Seq(Edit)]
      BY DEF Base, TypeOK
    <3>2. Range(Append(source[k], e)) = Range(source[k]) \cup {e}
      BY <2>2, <3>1, RangeAppend
    <3> QED
      BY <2>1, <2>2, <3>1, <3>2
  <2>4. Grows
    BY <2>3
  <2>5. FrameEdited(NewTop(p), source')
    <3>1. NewTop(p).pkg = k /\ NewTop(p).edit = Top(p).edit /\ NewTop(p).at = "flag"
          /\ FrameEdited(Top(p), source)
      BY <1>moves, <1>run, <2>1 DEF To
    <3>2. e \in Range(source'[k]) /\ Range(source[k]) \subseteq Range(source'[k])
      BY <2>2, <2>3
    <3> HIDE DEF e
    <3> QED
      BY <2>2, <3>1, <3>2 DEF FrameEdited
  <2>6. \A q \in Procs : \A i \in 1..Len(stack'[q]) : FrameEdited(stack'[q][i], source')
    BY <1>frames, <2>4, <2>5
  <2>7. \A j \in Pkgs : flags'[j] \subseteq Range(source'[j])
    BY <2>1, <2>4 DEF Edited
  <2>8. EditedBeforeExport'
    BY <2>1, <2>4 DEF Edited, EditedBeforeExport, Base, TypeOK, Trees
  <2> QED
    BY <2>6, <2>7, <2>8 DEF Edited, FrameEdited
<1>8. CASE FlagEdit(p)
  <2> DEFINE k == Top(p).pkg
             e == CurrentEdit(p)
  <2>1. /\ flags' = [flags EXCEPT ![k] = @ \cup {e}]
        /\ source' = source /\ import' = import /\ status[p] = "running"
        /\ Top(p).at = "flag" /\ To(p, "record")
    BY <1>0, <1>8, ActionCases DEF FlagEdit
  <2>2. k \in Pkgs /\ e \in Range(source[k]) /\ e = Edits[k][Top(p).edit]
    BY <1>edit, <1>run, <2>1 DEF EditLocked, CurrentEdit, To, FrameEdited
  <2>3. \A j \in Pkgs : flags'[j] \subseteq Range(source'[j])
    BY <2>1, <2>2 DEF Edited, Base, TypeOK
  <2>4. FrameEdited(NewTop(p), source')
    BY <1>moves, <1>run, <2>1, <2>2 DEF To, FrameEdited
  <2>5. \A q \in Procs : \A i \in 1..Len(stack'[q]) : FrameEdited(stack'[q][i], source')
    BY <1>frames, <2>1, <2>4
  <2> QED
    BY <2>1, <2>3, <2>5 DEF Edited, EditedBeforeExport, FrameEdited
<1>9. CASE RecordHash(p)
  <2>1. /\ source' = source /\ flags' = flags /\ import' = import
        /\ Top(p).at = "record" /\ To(p, "unlock")
    BY <1>0, <1>9, ActionCases DEF RecordHash
  <2> QED
    BY <1>quiet, <1>moves, <1>run, <2>1 DEF To, FrameEdited
<1>10. CASE UnlockFile(p)
  <2>1. /\ source' = source /\ flags' = flags /\ import' = import /\ status[p] = "running"
        /\ Top(p).at = "unlock" /\ ToNextEdit(p)
    BY <1>0, <1>10, ActionCases DEF UnlockFile
  <2>2. Edits[Top(p).pkg][Top(p).edit] \in Range(source[Top(p).pkg])
    BY <1>edit, <1>run, <2>1 DEF ToNextEdit, FrameEdited, EditLocked
  <2> QED
    BY <1>quiet, <1>next, <2>1, <2>2
<1>11. CASE Export(p)
  <2>1. /\ source' = source /\ flags' = flags /\ import' = import \cup {Tree(p)}
        /\ status[p] = "running" /\ Top(p).at = "export" /\ To(p, "open")
    BY <1>0, <1>11, ActionCases DEF Export
  <2>2. \A q \in Procs : \A i \in 1..Len(stack'[q]) : FrameEdited(stack'[q][i], source')
    BY <1>frames, <1>to, <2>1
  <2>3. Top(p).pkg \in Pkgs /\ Tree(p)[1] = Top(p).pkg
    BY <2>1, TopTyped
  <2>4. Range(Edits[Top(p).pkg]) \subseteq Range(source[Top(p).pkg])
    <3>1. Range(Edits[Top(p).pkg]) = {Edits[Top(p).pkg][n] : n \in 1..Len(Edits[Top(p).pkg])}
      BY <2>3, RangeEquality
    <3>2. \A n \in 1..Len(Edits[Top(p).pkg]) : n < Top(p).edit
      <4>1. Len(Edits[Top(p).pkg]) \in Nat
        BY <2>3, LenProperties
      <4> QED
        BY <1>run, <1>moves, <2>1, <2>3, <4>1 DEF To, FrameEdited
    <3> QED
      BY <1>run, <2>1, <2>3, <3>1, <3>2 DEF To, FrameEdited
  <2>5. EditedBeforeExport'
    BY <2>1, <2>3, <2>4 DEF Edited, EditedBeforeExport
  <2> QED
    BY <2>1, <2>2, <2>5 DEF Edited, FrameEdited
<1> QED
  BY <1>1, <1>2, <1>3, <1>4, <1>5, <1>6, <1>7, <1>8, <1>9, <1>10, <1>11 DEF Step

(* There is nothing edited or exported initially.                          *)
LEMMA EditedInit == Init => Edited
BY DEF Init, Edited, EditedBeforeExport

(* The facts about edits are kept by every step.                           *)
LEMMA EditedNext == Base /\ Edited /\ [Next]_vars => Edited'
<1>1. ASSUME Base, Edited, UNCHANGED vars PROVE Edited'
  BY <1>1 DEF vars, setup, imports, trees, sources, Edited, EditedBeforeExport, FrameEdited
<1> QED
  BY <1>1, EditedStep DEF Next

(* No other frame is in the locked stages of the same file.                *)
LEMMA FileAlone ==
    ASSUME Base, NEW p \in Procs, status[p] = "running", Top(p).at \in EditLocked,
           NEW q \in Procs, NEW i \in 1..Len(stack[q]),
           q # p \/ i < Len(stack[p]), stack[q][i].at \in EditLocked
    PROVE  stack[q][i].pkg # Top(p).pkg
<1>1. /\ Len(stack[p]) \in 1..Len(stack[p]) /\ Top(p) = stack[p][Len(stack[p])]
      /\ Top(p).pkg \in Pkgs
  BY TopTyped DEF EditLocked
<1>2. i = Len(stack[q])
  BY DEF Base, StackShape, Waiting, EditLocked
<1>3. CASE q = p
  BY <1>1, <1>2, <1>3
<1>4. ASSUME q # p, stack[q][i].pkg = Top(p).pkg PROVE FALSE
  <2>1. EditsFile(stack[p], Top(p).pkg) /\ EditsFile(stack[q], Top(p).pkg)
    BY <1>1, <1>2, <1>4 DEF EditsFile
  <2>2. p \in editing[Top(p).pkg] /\ q \in editing[Top(p).pkg]
    BY <1>1, <2>1 DEF Base, Locks, HoldsFile
  <2> QED
    BY <1>1, <1>4, <2>2 DEF Base, Locks, HoldsFile
<1> QED
  BY <1>3, <1>4

(* In an ordered file, an edit is there when the file is long enough.      *)
LEMMA EditThere ==
    ASSUME NEW k \in Pkgs, NEW src, src[k] \in Seq(Edit), Ordered(k, src),
           NEW e \in 1..Len(Edits[k])
    PROVE  Edits[k][e] \in Range(src[k]) <=> e <= Len(src[k])
<1>1. /\ Range(src[k]) = {src[k][n] : n \in 1..Len(src[k])} /\ Len(src[k]) \in Nat
      /\ Len(Edits[k]) \in Nat /\ DOMAIN Edits[k] = 1..Len(Edits[k])
  BY RangeEquality, LenProperties
<1>2. ASSUME e <= Len(src[k]) PROVE Edits[k][e] \in Range(src[k])
  BY <1>1, <1>2 DEF Ordered
<1>3. ASSUME Edits[k][e] \in Range(src[k]) PROVE e <= Len(src[k])
  <2>1. PICK m \in 1..Len(src[k]) : src[k][m] = Edits[k][e]
    BY <1>1, <1>3
  <2>2. m \in 1..Len(Edits[k]) /\ Edits[k][m] = Edits[k][e]
    BY <1>1, <2>1 DEF Ordered
  <2>3. m = e
    BY <1>1, <2>2, EditsAssumption DEF IsInjective
  <2> QED
    BY <2>1, <2>3
<1> QED
  BY <1>2, <1>3

(* Files get their edits in order as long as no run is killed: an edit is  *)
(* made only by the holder of the file's lock, after it has found that     *)
(* flag and hash do not vouch for it, which by then means it is the next   *)
(* one.                                                                    *)
LEMMA OnceStep ==
    ASSUME Base, Edited, Once, NEW p \in Procs, Start(p) \/ Die(p) \/ Step(p)
    PROVE  Once'
<1>0. TypeOK /\ StackShape /\ StacksTyped /\ StackStep(p)
  BY StepCases DEF Base, TypeOK, StacksTyped, StackStep
<1>1. SUFFICES ASSUME deaths' = 0 PROVE Once'
  BY DEF Once
<1>2. deaths = 0 /\ ~Die(p)
  <2>1. CASE Die(p)
    BY <1>0, <1>1, <2>1 DEF Die, TypeOK
  <2>2. CASE Start(p) \/ Step(p)
    <3>1. deaths' = deaths
      BY <2>2 DEF Start, Step, StartBuild, Finish, Check, TryLock, WaitLock, WaitTimeout,
   DoubleCheck, IncludeGenerate, BuildNext, StartEdits, EditsDone, CheckEdit, LockFile,
   CheckEditAgain, WriteEdit, FlagEdit, RecordHash, UnlockFile, Export, OpenFixed,
   WriteFixed, Release, ExportsDone, Include, CheckBuild, LockBuild, DoubleCheckBuild,
   SaveStamp, BuildDepsDone, Build, UnlockBuild
    <3>2. CASE ~Die(p)
      BY <1>1, <3>1, <3>2
    <3>3. CASE Die(p)
      BY <1>0, <1>1, <3>3 DEF Die, TypeOK
    <3> QED
      BY <3>2, <3>3
  <2> QED
    BY <2>1, <2>2
<1>once. /\ \A k \in Pkgs : Ordered(k, source)
         /\ \A k \in Pkgs : editing[k] = {} => Settled(k, source, flags, hash)
         /\ \A q \in Procs : \A i \in 1..Len(stack[q]) :
               FrameOnce(stack[q][i], source, flags, hash)
  BY <1>2 DEF Once
<1>lens. /\ source \in [Pkgs -> Seq(Edit)]
         /\ \A k \in Pkgs : Len(source[k]) \in Nat /\ Len(Edits[k]) \in Nat
  BY <1>0, LenProperties DEF TypeOK
<1>run. ASSUME Moves(p) \/ Visits(p) \/ Returns(p)
        PROVE  status[p] = "running" /\ FrameOnce(Top(p), source, flags, hash)
  <2>1. stack[p] # <<>>
    BY <1>run DEF Moves, Visits, VisitsTo, Returns, Keeping, Moved, Pushed, Popped
  <2>2. status[p] = "running"
    BY <2>1 DEF Base, TypeOK
  <2> QED
    BY <2>2, <1>once, TopTyped
<1>moves. ASSUME Moves(p)
          PROVE  NewTop(p).pkg = Top(p).pkg /\ Top(p).edit \in Nat \ {0}
  BY <1>run, <1>moves, TopTyped DEF Moves, Keeping, Frames
<1> DEFINE Good == {f \in Frames : FrameOnce(f, source', flags', hash')}
<1>frames. ASSUME \A k \in Pkgs : Len(source'[k]) \in Nat,
                  \A q \in Procs : \A i \in 1..Len(stack[q]) :
                      q # p \/ i < Len(stack[p]) =>
                          FrameOnce(stack[q][i], source', flags', hash'),
                  Visits(p) => FrameOnce(Top(p), source', flags', hash'),
                  Moves(p) => FrameOnce(NewTop(p), source', flags', hash')
           PROVE  \A q \in Procs : \A i \in 1..Len(stack'[q]) :
                      FrameOnce(stack'[q][i], source', flags', hash')
  <2>1. ASSUME NEW q \in Procs, NEW i \in 1..Len(stack[q]), q # p \/ i < Len(stack[p])
        PROVE  stack[q][i] \in Good
    BY <1>0, <1>frames, <2>1, StackTyped
  <2>2. ASSUME Visits(p) PROVE NewTop(p) \in Good
    <3>1. NewTop(p).at = Top(p).at /\ NewTop(p).pkg = Top(p).pkg
          /\ NewTop(p).edit = Top(p).edit /\ NewTop(p) \in Frames
      BY <2>2 DEF Visits, VisitsTo, Pushed
    <3> QED
      BY <1>frames, <2>2, <3>1 DEF FrameOnce
  <2>3. ASSUME Moves(p) PROVE NewTop(p) \in Good
    BY <1>frames, <2>3 DEF Moves, Keeping, Moved
  <2>4. ASSUME NEW f \in Frames, (f.at \in {"check", "b_check"} /\ f.edit = 1) \/ f.pkg = Root
        PROVE  f \in Good
    BY <1>frames, <2>4 DEF FrameOnce
  <2> HIDE DEF Good
  <2>5. \A q \in Procs : \A i \in 1..Len(stack'[q]) : stack'[q][i] \in Good
    BY <1>0, <2>1, <2>2, <2>3, <2>4, FramesGood
  <2> QED
    BY <2>5 DEF Good
<1>quiet. ASSUME UNCHANGED <<source, flags, hash>>,
                 \A k \in Pkgs : editing'[k] = {} => Settled(k, source, flags, hash),
                 Moves(p) => FrameOnce(NewTop(p), source, flags, hash)
          PROVE  Once'
  <2>1. \A q \in Procs : \A i \in 1..Len(stack'[q]) :
            FrameOnce(stack'[q][i], source', flags', hash')
    BY <1>frames, <1>quiet, <1>once, <1>lens, <1>run
  <2> QED
    BY <1>quiet, <1>once, <2>1 DEF Once, Ordered, Settled, FrameOnce
<1>to. ASSUME NEW s, To(p, s), s \notin EditLocked
       PROVE  FrameOnce(NewTop(p), source, flags, hash)
  BY <1>to, <1>moves, <1>run DEF To, FrameOnce, EditLocked
<1>next. ASSUME ToNextEdit(p), Top(p).edit <= Len(source[Top(p).pkg])
         PROVE  FrameOnce(NewTop(p), source, flags, hash)
  BY <1>next, <1>moves, <1>lens DEF ToNextEdit, FrameOnce
<1> USE DEF setup, imports, trees, builds, sources, At
<1>edit. ASSUME status[p] = "running", Top(p).pkg \in Pkgs,
                Top(p).edit <= Len(Edits[Top(p).pkg])
         PROVE  /\ Top(p).edit \in 1..Len(Edits[Top(p).pkg])
                /\ CurrentEdit(p) = Edits[Top(p).pkg][Top(p).edit] /\ CurrentEdit(p) \in Edit
                /\ CurrentEdit(p) \in Range(source[Top(p).pkg])
                      <=> Top(p).edit <= Len(source[Top(p).pkg])
  <2>1. Top(p).edit \in 1..Len(Edits[Top(p).pkg])
    BY <1>edit, <1>lens, TopTyped DEF Frames
  <2>2. CurrentEdit(p) = Edits[Top(p).pkg][Top(p).edit] /\ CurrentEdit(p) \in Edit
    BY <1>edit, <2>1, ElementOfSeq DEF CurrentEdit
  <2>3. source[Top(p).pkg] \in Seq(Edit)
    BY <1>edit, <1>lens
  <2> QED
    BY <1>edit, <1>once, <2>1, <2>2, <2>3, EditThere
<1>locked. ASSUME status[p] = "running", Top(p).at \in EditLocked
           PROVE  /\ Top(p).pkg \in Pkgs /\ Top(p).edit <= Len(Edits[Top(p).pkg])
                  /\ editing[Top(p).pkg] = {p}
  <2>1. /\ Top(p).pkg \in Pkgs /\ Top(p).edit <= Len(Edits[Top(p).pkg])
        /\ Len(stack[p]) > 0 /\ Top(p) = stack[p][Len(stack[p])]
    BY <1>locked, TopTyped DEF EditLocked, FrameShape
  <2>2. p \in editing[Top(p).pkg]
    BY <1>locked, <2>1 DEF Base, Locks, HoldsFile, EditsFile
  <2> QED
    BY <2>1, <2>2 DEF Base, Locks, HoldsFile
<1>3. CASE \/ Start(p) \/ Finish(p) \/ WaitTimeout(p) \/ Include(p) \/ UnlockBuild(p)
           \/ \E d \in Pkgs : IncludeGenerate(p, d) \/ BuildNext(p, d)
  <2>1. UNCHANGED <<source, flags, hash>>
    BY <1>3 DEF Start, Finish, WaitTimeout, Include, UnlockBuild, IncludeGenerate, BuildNext
  <2>2. Begins(p) \/ Ends(p) \/ Returns(p) \/ Visits(p)
    BY <1>0, <1>3, ActionCases DEF Visits
  <2>3. \A k \in Pkgs : editing'[k] = {} => editing[k] = {}
    <3>1. CASE editing' = editing
      BY <3>1
    <3>2. CASE Fail(p) /\ status[p] = "running" /\ Top(p).at \in {"wait", "include"}
      <4>1. Len(stack[p]) > 0 /\ Top(p) = stack[p][Len(stack[p])]
        BY <3>2, TopTyped
      <4>2. \A k \in Pkgs : p \notin editing[k]
        BY <3>2, <4>1 DEF Base, Locks, HoldsFile, EditsFile, EditLocked
      <4> QED
        BY <3>2, <4>2 DEF Fail
    <3> QED
      BY <1>3, <3>1, <3>2 DEF Start, Finish, WaitTimeout, Include, UnlockBuild,
         IncludeGenerate, BuildNext
  <2> QED
    BY <1>0, <1>once, <1>quiet, <2>1, <2>2, <2>3, MovesAlone
<1>4. CASE CheckBuild(p)
  <2>1. UNCHANGED <<source, flags, hash, editing>>
    BY <1>4 DEF CheckBuild
  <2>2. Moves(p) => FrameOnce(NewTop(p), source, flags, hash)
    BY <1>0, <1>4, <1>to, ActionCases, MovesAlone DEF EditLocked
  <2> QED
    BY <1>once, <1>quiet, <2>1, <2>2
<1>5. CASE \/ StartBuild(p) \/ Check(p) \/ TryLock(p) \/ WaitLock(p) \/ DoubleCheck(p)
           \/ StartEdits(p) \/ EditsDone(p) \/ Export(p) \/ OpenFixed(p) \/ WriteFixed(p)
           \/ Release(p) \/ ExportsDone(p) \/ LockBuild(p) \/ DoubleCheckBuild(p)
           \/ SaveStamp(p) \/ BuildDepsDone(p) \/ Build(p)
  <2>1. UNCHANGED <<source, flags, hash, editing>>
    BY <1>5 DEF StartBuild, Check, TryLock, WaitLock, DoubleCheck, StartEdits, EditsDone,
       Export, OpenFixed, WriteFixed, Release, ExportsDone, LockBuild, DoubleCheckBuild,
       SaveStamp, BuildDepsDone, Build
  <2>2. \E s \in {"b_deps", "exports", "try", "double", "wait", "release", "configure",
                  "edit", "export", "open", "fix", "include", "b_double", "b_unlock",
                  "b_save", "b_build"} : To(p, s)
    BY <1>0, <1>5, ActionCases
  <2> QED
    BY <1>once, <1>quiet, <1>to, <2>1, <2>2 DEF EditLocked
<1>6. CASE CheckEdit(p)
  <2>1. UNCHANGED <<source, flags, hash, editing>> /\ status[p] = "running"
        /\ Top(p).pkg \in Pkgs /\ Top(p).edit <= Len(Edits[Top(p).pkg])
    BY <1>6, TopTyped DEF CheckEdit
  <2>2. CASE Applied(Top(p).pkg, CurrentEdit(p))
    <3>1. Top(p).edit <= Len(source[Top(p).pkg])
      BY <1>edit, <2>1, <2>2 DEF Applied, Edited
    <3> QED
      BY <1>0, <1>6, <1>once, <1>quiet, <1>next, <2>1, <2>2, <3>1, ActionCases
  <2>3. CASE ~Applied(Top(p).pkg, CurrentEdit(p))
    BY <1>0, <1>6, <1>once, <1>quiet, <1>to, <2>1, <2>3, ActionCases DEF EditLocked
  <2> QED
    BY <2>2, <2>3
<1>7. CASE LockFile(p)
  <2>1. UNCHANGED <<source, flags, hash>> /\ status[p] = "running" /\ Top(p).pkg \in Pkgs
        /\ editing[Top(p).pkg] = {} /\ editing' = [editing EXCEPT ![Top(p).pkg] = {p}]
        /\ To(p, "again")
    BY <1>0, <1>7, TopTyped, ActionCases DEF LockFile
  <2>2. Settled(Top(p).pkg, source, flags, hash)
    BY <1>once, <2>1
  <2>3. FrameOnce(NewTop(p), source, flags, hash)
    BY <1>moves, <1>run, <2>1, <2>2 DEF To, FrameOnce
  <2>4. \A k \in Pkgs : editing'[k] = {} => editing[k] = {}
    BY <2>1 DEF Base, TypeOK
  <2> QED
    BY <1>once, <1>quiet, <2>1, <2>3, <2>4
<1>8. CASE CheckEditAgain(p)
  <2> DEFINE k == Top(p).pkg
  <2>1. UNCHANGED <<source, flags, hash, editing>> /\ status[p] = "running"
        /\ Top(p).at = "again" /\ Top(p).at \in EditLocked
    BY <1>8 DEF CheckEditAgain, EditLocked
  <2>2. k \in Pkgs /\ Moves(p) /\ NewTop(p).edit = Top(p).edit
    BY <1>0, <1>8, <1>locked, <2>1, ActionCases DEF To
  <2>3. FrameOnce(Top(p), source, flags, hash) /\ Settled(k, source, flags, hash)
    BY <1>run, <2>1, <2>2 DEF FrameOnce
  <2>4. CurrentEdit(p) \in flags[k] <=> Top(p).edit <= Len(source[k])
    BY <1>edit, <1>locked, <2>1, <2>3 DEF Settled
  <2>5. CASE Applied(k, CurrentEdit(p))
    <3>1. NewTop(p).at = "unlock"
      BY <1>0, <1>8, <2>5, ActionCases DEF To
    <3> QED
      BY <1>moves, <1>once, <1>quiet, <2>1, <2>2, <2>3, <2>4, <2>5, <3>1
      DEF FrameOnce, Settled, Applied
  <2>6. CASE ~Applied(k, CurrentEdit(p))
    <3>1. NewTop(p).at = "write"
      BY <1>0, <1>8, <2>6, ActionCases DEF To
    <3>2. Len(source[k]) = Top(p).edit - 1
      <4>1. Top(p).edit <= Len(source[k]) + 1 /\ Top(p).edit \in Nat \ {0}
            /\ Len(source[k]) \in Nat
        BY <1>moves, <1>lens, <2>2, <2>3 DEF FrameOnce
      <4>2. CASE Top(p).edit <= Len(source[k])
        <5>1. source[k] = <<>>
          BY <2>3, <2>4, <2>6, <4>2 DEF Applied, Settled
        <5> QED
          BY <4>1, <4>2, <5>1
      <4> QED
        BY <4>1, <4>2
    <3> QED
      BY <1>moves, <1>once, <1>quiet, <2>1, <2>2, <2>3, <3>1, <3>2 DEF FrameOnce
  <2> QED
    BY <2>5, <2>6
<1>write. ASSUME NEW k \in Pkgs, k = Top(p).pkg, status[p] = "running",
                 Top(p).at \in EditLocked, editing' = editing,
                 source' \in [Pkgs -> Seq(Edit)],
                 \A j \in Pkgs : j # k => /\ source'[j] = source[j] /\ flags'[j] = flags[j]
                                          /\ hash'[j] = hash[j],
                 Len(source[k]) <= Len(source'[k]), Ordered(k, source'),
                 Moves(p), FrameOnce(NewTop(p), source', flags', hash')
          PROVE  Once'
  <2>1. \A j \in Pkgs : Len(source'[j]) \in Nat
    BY <1>write, LenProperties
  <2>2. ASSUME NEW q \in Procs, NEW i \in 1..Len(stack[q]), q # p \/ i < Len(stack[p])
        PROVE  FrameOnce(stack[q][i], source', flags', hash')
    <3>1. FrameOnce(stack[q][i], source, flags, hash) /\ stack[q][i].edit \in Nat
      BY <1>0, <1>once, StackTyped DEF Frames
    <3>2. CASE stack[q][i].pkg = k
      <4>1. stack[q][i].at \notin EditLocked
        BY <1>write, <2>2, <3>2, FileAlone
      <4> QED
        BY <1>write, <1>lens, <2>1, <3>1, <3>2, <4>1 DEF FrameOnce, EditLocked
    <3>3. CASE stack[q][i].pkg # k
      BY <1>write, <3>1, <3>3 DEF FrameOnce, Settled
    <3> QED
      BY <3>2, <3>3
  <2>3. ~Visits(p)
    BY <1>0, <1>write, MovesAlone
  <2>4. \A q \in Procs : \A i \in 1..Len(stack'[q]) :
            FrameOnce(stack'[q][i], source', flags', hash')
    BY <1>frames, <1>write, <2>1, <2>2, <2>3
  <2>5. \A j \in Pkgs : Ordered(j, source')
    BY <1>once, <1>write DEF Ordered
  <2>6. \A j \in Pkgs : editing'[j] = {} => Settled(j, source', flags', hash')
    BY <1>once, <1>write, <1>locked DEF Settled
  <2> QED
    BY <2>4, <2>5, <2>6 DEF Once, Ordered, Settled, FrameOnce
<1>9. CASE WriteEdit(p)
  <2> DEFINE k == Top(p).pkg
             e == CurrentEdit(p)
  <2>1. /\ status[p] = "running" /\ Top(p).at = "write" /\ Top(p).at \in EditLocked
        /\ UNCHANGED <<flags, hash, editing>>
        /\ source' = [source EXCEPT ![k] = Append(source[k], e)]
    BY <1>9 DEF WriteEdit, EditLocked
  <2>2. /\ k \in Pkgs /\ Moves(p) /\ NewTop(p).edit = Top(p).edit
        /\ NewTop(p).at = "flag" /\ NewTop(p).pkg = k
    BY <1>0, <1>9, <1>locked, <1>moves, <2>1, ActionCases DEF To
  <2>3. /\ Top(p).edit \in 1..Len(Edits[k]) /\ e = Edits[k][Top(p).edit] /\ e \in Edit
    BY <1>edit, <1>locked, <2>1
  <2>4. Settled(k, source, flags, hash) /\ Len(source[k]) = Top(p).edit - 1
    BY <1>run, <2>1, <2>2 DEF FrameOnce
  <2> HIDE DEF e
  <2>5. /\ source' \in [Pkgs -> Seq(Edit)] /\ source'[k] = Append(source[k], e)
        /\ \A j \in Pkgs : j # k => source'[j] = source[j]
    BY <1>lens, <2>1, <2>2, <2>3
  <2>6. /\ Len(source'[k]) = Len(source[k]) + 1 /\ source'[k][Len(source[k]) + 1] = e
        /\ \A i \in 1..Len(source[k]) : source'[k][i] = source[k][i]
        /\ Range(source'[k]) = Range(source[k]) \cup {e}
    BY <1>lens, <2>2, <2>3, <2>5, AppendProperties, RangeAppend
  <2>7. Len(source'[k]) = Top(p).edit /\ Len(source[k]) <= Len(source'[k])
        /\ Top(p).edit \in Nat /\ Top(p).edit <= Len(Edits[k])
    BY <1>lens, <2>2, <2>3, <2>4, <2>6
  <2>8. Ordered(k, source')
    <3>1. \A i \in 1..Len(source'[k]) : i \in 1..Len(source[k]) \/ i = Len(source[k]) + 1
      BY <1>lens, <2>2, <2>6
    <3>2. Len(source[k]) + 1 = Top(p).edit
      BY <1>lens, <2>2, <2>6, <2>7
    <3> QED
      BY <1>once, <2>2, <2>3, <2>6, <2>7, <3>1, <3>2 DEF Ordered
  <2>9. FrameOnce(NewTop(p), source', flags', hash')
    BY <1>moves, <2>1, <2>2, <2>3, <2>4, <2>6, <2>7 DEF FrameOnce, Settled
  <2> QED
    BY <1>write, <2>1, <2>2, <2>5, <2>7, <2>8, <2>9
<1>10. CASE FlagEdit(p)
  <2> DEFINE k == Top(p).pkg
             e == CurrentEdit(p)
  <2>1. /\ status[p] = "running" /\ Top(p).at = "flag" /\ Top(p).at \in EditLocked
        /\ UNCHANGED <<source, hash, editing>>
        /\ flags' = [flags EXCEPT ![k] = flags[k] \cup {e}]
    BY <1>10 DEF FlagEdit, EditLocked
  <2>2. /\ k \in Pkgs /\ Moves(p) /\ NewTop(p).edit = Top(p).edit
        /\ NewTop(p).at = "record" /\ NewTop(p).pkg = k
    BY <1>0, <1>10, <1>locked, <1>moves, <2>1, ActionCases DEF To
  <2>3. e = Edits[k][Top(p).edit]
    BY <1>edit, <1>locked, <2>1
  <2>4. Len(source[k]) = Top(p).edit /\ flags[k] \cup {e} = Range(source[k])
    BY <1>run, <2>1, <2>2, <2>3 DEF FrameOnce
  <2> HIDE DEF e
  <2>5. flags'[k] = Range(source[k]) /\ \A j \in Pkgs : j # k => flags'[j] = flags[j]
    BY <1>0, <2>1, <2>2, <2>4 DEF TypeOK
  <2>6. FrameOnce(NewTop(p), source', flags', hash')
    BY <1>moves, <1>lens, <2>1, <2>2, <2>4, <2>5 DEF FrameOnce
  <2>7. Ordered(k, source') /\ Len(source[k]) <= Len(source'[k])
    BY <1>once, <1>lens, <2>1, <2>2 DEF Ordered
  <2> QED
    BY <1>write, <1>lens, <2>1, <2>2, <2>5, <2>6, <2>7
<1>11. CASE RecordHash(p)
  <2> DEFINE k == Top(p).pkg
  <2>1. /\ status[p] = "running" /\ Top(p).at = "record" /\ Top(p).at \in EditLocked
        /\ UNCHANGED <<source, flags, editing>>
        /\ hash' = [hash EXCEPT ![k] = source[k]]
    BY <1>11 DEF RecordHash, EditLocked
  <2>2. /\ k \in Pkgs /\ Moves(p) /\ NewTop(p).edit = Top(p).edit
        /\ NewTop(p).at = "unlock" /\ NewTop(p).pkg = k
    BY <1>0, <1>11, <1>locked, <1>moves, <2>1, ActionCases DEF To
  <2>3. flags[k] = Range(source[k]) /\ Top(p).edit <= Len(source[k])
    BY <1>run, <2>1, <2>2 DEF FrameOnce
  <2>4. hash'[k] = source[k] /\ \A j \in Pkgs : j # k => hash'[j] = hash[j]
    BY <1>0, <2>1, <2>2 DEF TypeOK
  <2>5. FrameOnce(NewTop(p), source', flags', hash')
    BY <1>moves, <1>lens, <2>1, <2>2, <2>3, <2>4 DEF FrameOnce
  <2>6. Ordered(k, source') /\ Len(source[k]) <= Len(source'[k])
    BY <1>once, <1>lens, <2>1, <2>2 DEF Ordered
  <2> QED
    BY <1>write, <1>lens, <2>1, <2>2, <2>4, <2>5, <2>6
<1>12. CASE UnlockFile(p)
  <2> DEFINE k == Top(p).pkg
  <2>1. /\ status[p] = "running" /\ Top(p).at = "unlock" /\ Top(p).at \in EditLocked
        /\ UNCHANGED <<source, flags, hash>>
        /\ editing' = [editing EXCEPT ![k] = {}]
    BY <1>12 DEF UnlockFile, EditLocked
  <2>2. k \in Pkgs /\ ToNextEdit(p)
    BY <1>0, <1>12, <1>locked, <2>1, ActionCases
  <2>3. /\ flags[k] = Range(source[k]) /\ hash[k] = source[k]
        /\ Top(p).edit <= Len(source[k])
    BY <1>run, <2>1, <2>2 DEF FrameOnce, ToNextEdit
  <2>4. FrameOnce(NewTop(p), source, flags, hash)
    BY <1>next, <2>2, <2>3
  <2>5. \A j \in Pkgs : editing'[j] = {} => Settled(j, source, flags, hash)
    BY <1>0, <1>once, <2>1, <2>2, <2>3 DEF TypeOK, Settled
  <2> QED
    BY <1>quiet, <2>1, <2>4, <2>5
<1> QED
  BY <1>2, <1>3, <1>4, <1>5, <1>6, <1>7, <1>8, <1>9, <1>10, <1>11, <1>12 DEF Step

(* Files are without edits initially.                                      *)
LEMMA OnceInit == Init => Once
<1>1. SUFFICES ASSUME Init PROVE Once
  OBVIOUS
<1>2. \A k \in Pkgs : source[k] = <<>> /\ flags[k] = {} /\ Len(Edits[k]) \in Nat
  BY <1>1, LenProperties DEF Init
<1>3. \A k \in Pkgs : Len(source[k]) = 0 /\ Range(source[k]) = {}
  BY <1>2 DEF Range
<1>4. \A p \in Procs : Len(stack[p]) = 0
  BY <1>1 DEF Init
<1>5. ASSUME NEW k \in Pkgs PROVE Ordered(k, source)
  <2>1. Len(source[k]) = 0 /\ Len(Edits[k]) \in Nat
    BY <1>2, <1>3
  <2> QED
    BY <2>1 DEF Ordered
<1>6. \A k \in Pkgs : Settled(k, source, flags, hash)
  BY <1>2, <1>3 DEF Settled
<1>7. \A p \in Procs : 1..Len(stack[p]) = {}
  BY <1>4
<1> QED
  BY <1>5, <1>6, <1>7 DEF Once

(* The order of edits is kept by every step.                               *)
LEMMA OnceNext == Base /\ Edited /\ Once /\ [Next]_vars => Once'
<1>1. ASSUME Once, UNCHANGED vars PROVE Once'
  <2>1. UNCHANGED <<stack, deaths, source, flags, hash, editing>>
    BY <1>1 DEF vars, sources
  <2>2. \A k \in Pkgs : /\ Ordered(k, source') <=> Ordered(k, source)
                       /\ Settled(k, source', flags', hash')
                            <=> Settled(k, source, flags, hash)
    BY <2>1 DEF Ordered, Settled
  <2>3. \A p \in Procs : \A i \in 1..Len(stack[p]) :
            FrameOnce(stack[p][i], source', flags', hash')
                <=> FrameOnce(stack[p][i], source, flags, hash)
    BY <2>1 DEF FrameOnce, Settled
  <2> QED
    BY <1>1, <2>1, <2>2, <2>3 DEF Once
<1> QED
  BY <1>1, OnceStep DEF Next

(* A file with its first edits in order has a prefix of all.               *)
LEMMA EditedOnceNow == Base /\ Once => EditedOnce
<1>1. SUFFICES ASSUME Base, Once, deaths = 0, NEW k \in Pkgs
               PROVE  IsPrefix(source[k], Edits[k])
  BY DEF EditedOnce
<1> DEFINE s == source[k]
           t == Edits[k]
           n == Len(s)
<1>2. s \in Seq(Edit) /\ t \in Seq(Edit) /\ Ordered(k, source)
  BY <1>1 DEF Base, TypeOK, Once
<1>3. n \in Nat /\ Len(t) \in Nat /\ n <= Len(t)
  BY <1>2, LenProperties DEF Ordered
<1>4. \A i \in 1..n : s[i] \in Edit /\ t[i] \in Edit /\ s[i] = t[i]
  BY <1>2, <1>3, ElementOfSeq DEF Ordered
<1> HIDE DEF s, t, n
<1>5. /\ SubSeq(s, 1, n) \in Seq(Edit) /\ Len(SubSeq(s, 1, n)) = n
      /\ \A i \in 1..n : SubSeq(s, 1, n)[i] = s[i]
  BY <1>3, <1>4, SubSeqProperties
<1>6. /\ SubSeq(t, 1, n) \in Seq(Edit) /\ Len(SubSeq(t, 1, n)) = n
      /\ \A i \in 1..n : SubSeq(t, 1, n)[i] = t[i]
  BY <1>3, <1>4, SubSeqProperties
<1>7. SubSeq(s, 1, n) = SubSeq(t, 1, n)
  BY <1>4, <1>5, <1>6, SeqEqual
<1> QED
  BY <1>3, <1>7 DEF IsPrefix, s, t, n

(* Edits are made once and in order unless a run was killed, and before    *)
(* anything is exported in any case.                                       *)
THEOREM EditsCorrect == Spec => []EditsRight
<1>1. Base /\ Edited /\ Once => EditsRight
  BY EditedOnceNow DEF Edited, EditsRight
<1> QED
  BY <1>1, BaseInit, BaseStep, EditedInit, EditedNext, OnceInit, OnceNext, PTL DEF Spec

-----------------------------------------------------------------------------
(* Builds.                                                                 *)

(* A target is added when all its dependencies are there, and a loop       *)
(* leaves a dependency behind when its target is.                          *)
LEMMA BuiltStep ==
    ASSUME Base, BuiltInv, NEW p \in Procs, Start(p) \/ Die(p) \/ Step(p)
    PROVE  BuiltInv'
<1>0. TypeOK /\ StackShape /\ StacksTyped /\ StackStep(p) /\ conf' = conf
  BY StepCases, StepKeepsConfig DEF Base, TypeOK, StacksTyped, StackStep
<1>run. ASSUME Moves(p) \/ Visits(p) \/ Returns(p)
        PROVE  status[p] = "running"
  <2>1. stack[p] # <<>>
    BY <1>run DEF Moves, Visits, VisitsTo, Returns, Keeping, Moved, Pushed, Popped
  <2> QED
    BY <2>1 DEF Base, TypeOK
<1> DEFINE n == Len(stack[p])
           c == conf[p]
<1>top. ASSUME status[p] = "running"
        PROVE  /\ n \in 1..n /\ Top(p) = stack[p][n] /\ Top(p).pkg \in Users
               /\ BuiltFrame(Top(p), {}, c, target) /\ Tree(p) = <<Top(p).pkg, c>>
  <2>1. n \in 1..n /\ Top(p) = stack[p][n] /\ Top(p).pkg \in Users
        /\ Tree(p) = <<Top(p).pkg, c>>
    BY <1>top, TopTyped
  <2>2. Visited(stack[p], n) = {}
    BY <2>1 DEF Visited
  <2> QED
    BY <2>1, <2>2 DEF BuiltInv
(* What the frames that stay rely on: targets are not lost, and a frame    *)
(* leaves its parent's build with its own target made.                     *)
<1>frames. ASSUME target \subseteq target',
                  Moves(p) => BuiltFrame(NewTop(p), {}, c, target'),
                  Returns(p) => Top(p).at \notin BuildStages \/ Tree(p) \in target
           PROVE  \A q \in Procs : \A i \in 1..Len(stack'[q]) :
                      BuiltFrame(stack'[q][i], Visited(stack'[q], i), conf'[q], target')
  <2>1. ASSUME NEW q \in Procs, NEW i \in 1..Len(stack[q]), NEW V,
               Visited(stack[q], i) \subseteq V
        PROVE  BuiltFrame(stack[q][i], V, conf[q], target')
    BY <1>frames, <2>1 DEF BuiltInv, BuiltFrame
  <2>2. ASSUME NEW q \in Procs, q # p, NEW i \in 1..Len(stack'[q])
        PROVE  BuiltFrame(stack'[q][i], Visited(stack'[q], i), conf'[q], target')
    BY <1>0, <2>1, <2>2, FramesAfter
  <2>3. n \in Nat /\ Len(stack'[p]) \in Nat
    BY <1>0, FramesAfter
  <2>4. ASSUME Moves(p), NEW i \in 1..Len(stack'[p])
        PROVE  BuiltFrame(stack'[p][i], Visited(stack'[p], i), c, target')
    <3>1. /\ Len(stack'[p]) = n /\ stack'[p][n] = NewTop(p) /\ NewTop(p).pkg = Top(p).pkg
          /\ \A j \in 1..n : j < n => stack'[p][j] = stack[p][j]
          /\ Top(p) = stack[p][n]
      BY <1>run, <1>top, <2>4 DEF Moves, Keeping, Moved, Below, NewTop
    <3>2. CASE i < n
      <4>1. i + 1 \in 1..n /\ stack'[p][i] = stack[p][i]
        BY <2>3, <3>1, <3>2
      <4>2. stack'[p][i + 1].pkg = stack[p][i + 1].pkg
        BY <2>3, <3>1, <4>1
      <4>3. Visited(stack[p], i) \subseteq Visited(stack'[p], i)
        BY <3>1, <4>2 DEF Visited
      <4> QED
        BY <2>1, <3>1, <4>1, <4>3
    <3>3. CASE i = n
      BY <1>frames, <2>4, <3>1, <3>3 DEF BuiltFrame
    <3> QED
      BY <2>3, <3>1, <3>2, <3>3
  <2>5. ASSUME Visits(p), NEW i \in 1..Len(stack'[p])
        PROVE  BuiltFrame(stack'[p][i], Visited(stack'[p], i), c, target')
    <3>1. PICK d, s : VisitsTo(p, d, s)
      BY <2>5 DEF Visits
    <3>2. /\ Len(stack'[p]) = n + 1 /\ stack'[p][n] = NewTop(p)
          /\ NewTop(p).pkg = Top(p).pkg /\ NewTop(p).at = Top(p).at
          /\ NewTop(p).left = Top(p).left \ {d}
          /\ \A j \in 1..n : j < n => stack'[p][j] = stack[p][j]
          /\ Top(p) = stack[p][n]
          /\ stack'[p][n + 1].pkg = d /\ stack'[p][n + 1].at \in {"check", "b_check"}
      BY <1>run, <1>top, <2>5, <3>1 DEF VisitsTo, Pushed, Below, NewTop, Frame
    <3>3. CASE i < n
      <4>1. i \in 1..n /\ i + 1 \in 1..n /\ stack'[p][i] = stack[p][i]
        BY <2>3, <3>2, <3>3
      <4>2. stack'[p][i + 1].pkg = stack[p][i + 1].pkg
        BY <2>3, <3>2, <4>1
      <4>3. Visited(stack[p], i) \subseteq Visited(stack'[p], i)
        BY <2>3, <3>2, <3>3, <4>2 DEF Visited
      <4> QED
        BY <2>1, <4>1, <4>3
    <3>4. CASE i = n
      <4>1. BuiltFrame(Top(p), {}, c, target')
        BY <1>run, <1>top, <1>frames, <2>5 DEF BuiltFrame
      <4>2. d \in Pkgs
        BY <1>run, <1>top, <2>5, <3>1, BuildDepsClosed DEF VisitsTo
      <4>3. d \in Visited(stack'[p], n)
        BY <2>3, <3>2, <4>2 DEF Visited
      <4> QED
        BY <3>2, <3>4, <4>1, <4>3 DEF BuiltFrame
    <3>5. CASE i = n + 1
      BY <3>2, <3>5 DEF BuiltFrame
    <3> QED
      BY <2>3, <3>2, <3>3, <3>4, <3>5
  <2>6. ASSUME Returns(p), NEW i \in 1..Len(stack'[p])
        PROVE  BuiltFrame(stack'[p][i], Visited(stack'[p], i), c, target')
    <3>1. /\ Len(stack'[p]) = n - 1 /\ \A j \in 1..n : j < n => stack'[p][j] = stack[p][j]
          /\ Top(p) = stack[p][n]
      BY <1>run, <1>top, <2>6 DEF Returns, Popped, Below
    <3>2. i \in 1..n /\ i < n /\ i + 1 \in 1..n /\ stack'[p][i] = stack[p][i]
      BY <2>3, <3>1
    <3>3. CASE i + 1 < n
      <4>1. stack'[p][i + 1].pkg = stack[p][i + 1].pkg
        BY <3>1, <3>2, <3>3
      <4>2. Visited(stack[p], i) \subseteq Visited(stack'[p], i)
        BY <2>3, <3>1, <3>3, <4>1 DEF Visited
      <4> QED
        BY <2>1, <3>2, <4>2
    <3>4. CASE i + 1 = n
      <4>1. BuiltFrame(stack[p][i], {Top(p).pkg}, c, target)
        BY <3>1, <3>2, <3>4 DEF BuiltInv, Visited, BuiltFrame
      <4>2. stack[p][i].at \in BuildStages <=> Top(p).at \in BuildStages
        BY <3>1, <3>2, <3>4 DEF Base, StackShape
      <4>3. stack[p][i].at \in BuildStages => <<Top(p).pkg, c>> \in target
        BY <1>run, <1>top, <1>frames, <2>6, <4>2
      <4>4. stack[p][i].at = "b_deps" => stack[p][i].at \in BuildStages
        BY DEF BuildStages, BuildLocked
      <4> QED
        BY <1>frames, <3>2, <4>1, <4>3, <4>4 DEF BuiltFrame
    <3> QED
      BY <2>3, <3>2, <3>3, <3>4
  <2>7. ASSUME Begins(p) \/ Ends(p), NEW i \in 1..Len(stack'[p])
        PROVE  BuiltFrame(stack'[p][i], Visited(stack'[p], i), c, target')
    <3>1. stack'[p][i].at = "configure"
      BY <2>7 DEF Begins, Ends, Frame
    <3> QED
      BY <3>1 DEF BuiltFrame
  <2> QED
    BY <1>0, <2>2, <2>4, <2>5, <2>6, <2>7 DEF StackStep
<1>to. ASSUME NEW s, To(p, s), s \notin {"b_unlock", "b_build", "b_deps"}
       PROVE  BuiltFrame(NewTop(p), {}, c, target')
  BY <1>to DEF To, BuiltFrame
<1> USE DEF setup, imports, trees, builds, sources, At
<1>build. CASE Build(p)
  <2>1. /\ status[p] = "running" /\ Top(p).at = "b_build" /\ status' = status
        /\ target' = target \cup {Tree(p)}
    BY <1>build DEF Build
  <2>2. To(p, "b_unlock") /\ NewTop(p).pkg = Top(p).pkg
    BY <1>0, <1>build, ActionCases DEF To, Moves, Keeping
  <2>3. /\ \A d \in BuildDeps(Top(p).pkg) : <<d, c>> \in target
        /\ Tree(p) = <<Top(p).pkg, c>>
    BY <1>top, <2>1 DEF BuiltFrame
  <2>4. Moves(p) /\ ~Returns(p)
    BY <1>0, <2>2, MovesAlone DEF To
  <2>5. BuiltFrame(NewTop(p), {}, c, target')
    BY <2>1, <2>2, <2>3 DEF To, BuiltFrame
  <2>6. \A t \in target' : \A d \in BuildDeps(t[1]) : <<d, t[2]>> \in target'
    <3>1. ASSUME NEW t \in target, NEW d \in BuildDeps(t[1]) PROVE <<d, t[2]>> \in target'
      BY <2>1 DEF BuiltInv, Built
    <3>2. Tree(p)[1] = Top(p).pkg /\ Tree(p)[2] = c
      BY <2>3
    <3>3. ASSUME NEW d \in BuildDeps(Tree(p)[1]) PROVE <<d, Tree(p)[2]>> \in target'
      BY <2>1, <2>3, <3>2
    <3> QED
      BY <2>1, <3>1, <3>3
  <2>7. \A q \in Procs : status'[q] = "done" =>
            \A d \in BuildDeps(Root) : <<d, conf'[q]>> \in target'
    BY <1>0, <2>1 DEF BuiltInv, Built
  <2> QED
    BY <1>frames, <2>1, <2>4, <2>5, <2>6, <2>7 DEF BuiltInv, Built
<1>quiet. ASSUME target' = target,
                 \A q \in Procs : status'[q] = "done" => status[q] = "done",
                 Moves(p) => BuiltFrame(NewTop(p), {}, c, target'),
                 Returns(p) => Top(p).at \notin BuildStages \/ Tree(p) \in target
          PROVE  BuiltInv'
  BY <1>0, <1>frames, <1>quiet DEF BuiltInv, Built
<1>1. CASE Start(p)
  <2>1. target' = target /\ Begins(p) /\ status' = [status EXCEPT ![p] = "running"]
    BY <1>0, <1>1, ActionCases DEF Start
  <2> QED
    BY <1>0, <1>quiet, <2>1, MovesAlone, ReturnsAlone DEF TypeOK
<1>2. CASE Die(p) \/ WaitTimeout(p)
  <2>1. /\ target' = target /\ Ends(p) /\ status' = [status EXCEPT ![p] = "failed"]
        /\ status[p] = "running"
    BY <1>0, <1>2, ActionCases DEF Die, WaitTimeout, Fail
  <2>2. status'[p] # status[p] /\ \A q \in Procs : status'[q] = "done" => status[q] = "done"
    BY <1>0, <2>1 DEF TypeOK
  <2>3. ~Returns(p)
    BY <2>2 DEF Returns
  <2> QED
    BY <1>0, <1>quiet, <2>1, <2>2, <2>3, MovesAlone
<1>3. CASE Finish(p)
  <2>1. /\ status[p] = "running" /\ Top(p).at = "b_deps" /\ Top(p).pkg = Root
        /\ Top(p).left = {} /\ target' = target
        /\ status' = [status EXCEPT ![p] = "done"]
    BY <1>3 DEF Finish
  <2>2. \A d \in BuildDeps(Root) : <<d, c>> \in target
    BY <1>top, <2>1 DEF BuiltFrame
  <2>3. Ends(p) /\ ~Moves(p) /\ Len(stack[p]) = 1
    BY <1>0, <1>3, <1>top, <2>1, ActionCases, MovesAlone DEF StackShape
  <2>4. Returns(p) => Top(p).at \notin BuildStages \/ Tree(p) \in target
    BY <2>1 DEF Returns
  <2>5. \A q \in Procs : status'[q] = "done" =>
            \A d \in BuildDeps(Root) : <<d, conf'[q]>> \in target'
    BY <1>0, <2>1, <2>2 DEF TypeOK, BuiltInv, Built
  <2> QED
    BY <1>frames, <2>1, <2>3, <2>4, <2>5 DEF BuiltInv, Built
<1>4. CASE Include(p)
  <2>1. target' = target /\ Top(p).at = "include"
        /\ \A q \in Procs : status'[q] = "done" => status[q] = "done"
    BY <1>0, <1>4 DEF Include, Fail, TypeOK
  <2> QED
    BY <1>0, <1>4, <1>quiet, <2>1, ActionCases, MovesAlone DEF BuildStages, BuildLocked
<1>5. CASE CheckBuild(p)
  <2>1. target' = target /\ status' = status
    BY <1>5 DEF CheckBuild
  <2> QED
    BY <1>0, <1>5, <1>to, <1>quiet, <2>1, ActionCases, MovesAlone DEF To
<1>6. CASE UnlockBuild(p)
  <2>1. /\ status[p] = "running" /\ Top(p).at = "b_unlock"
        /\ target' = target /\ status' = status
    BY <1>6 DEF UnlockBuild
  <2>2. Tree(p) \in target
    BY <1>top, <2>1 DEF BuiltFrame
  <2> QED
    BY <1>0, <1>6, <1>quiet, <2>1, <2>2, ActionCases, MovesAlone
<1>7. CASE \E d \in Pkgs : IncludeGenerate(p, d) \/ BuildNext(p, d)
  <2>1. target' = target /\ status' = status /\ Visits(p)
    BY <1>0, <1>7, ActionCases DEF IncludeGenerate, BuildNext, Visits
  <2> QED
    BY <1>0, <1>quiet, <2>1, MovesAlone, ReturnsAlone
<1>8. CASE DoubleCheckBuild(p)
  <2>1. target' = target /\ status' = status /\ status[p] = "running"
    BY <1>8 DEF DoubleCheckBuild
  <2>2. /\ Moves(p) /\ NewTop(p).pkg = Top(p).pkg
        /\ (NewTop(p).at = "b_unlock" /\ Tree(p) \in target) \/ NewTop(p).at = "b_save"
    BY <1>0, <1>8, ActionCases DEF To, Moves, Keeping
  <2>3. BuiltFrame(NewTop(p), {}, c, target')
    BY <1>top, <2>1, <2>2 DEF BuiltFrame
  <2> QED
    BY <1>0, <1>quiet, <2>1, <2>2, <2>3, MovesAlone
<1>9. CASE StartBuild(p) \/ SaveStamp(p)
  <2>1. target' = target /\ status' = status
    BY <1>9 DEF StartBuild, SaveStamp
  <2>2. Moves(p) /\ NewTop(p).pkg = Top(p).pkg /\ NewTop(p).at = "b_deps"
        /\ NewTop(p).left = BuildDeps(Top(p).pkg)
    BY <1>0, <1>9, ActionCases DEF To, Moves, Keeping
  <2>3. BuiltFrame(NewTop(p), {}, c, target')
    BY <2>2 DEF BuiltFrame
  <2> QED
    BY <1>0, <1>quiet, <2>1, <2>2, <2>3, MovesAlone
<1>10. CASE BuildDepsDone(p)
  <2>1. /\ target' = target /\ status' = status /\ status[p] = "running"
        /\ Top(p).at = "b_deps" /\ Top(p).left = {}
    BY <1>10 DEF BuildDepsDone
  <2>2. Moves(p) /\ NewTop(p).pkg = Top(p).pkg /\ NewTop(p).at = "b_build"
    BY <1>0, <1>10, ActionCases DEF To, Moves, Keeping
  <2>3. BuiltFrame(NewTop(p), {}, c, target')
    BY <1>top, <2>1, <2>2 DEF BuiltFrame
  <2> QED
    BY <1>0, <1>quiet, <2>1, <2>2, <2>3, MovesAlone
<1>11. CASE CheckEdit(p) \/ UnlockFile(p)
  <2>1. target' = target /\ status' = status
    BY <1>11 DEF CheckEdit, UnlockFile
  <2>2. ToNextEdit(p) \/ To(p, "lock")
    BY <1>0, <1>11, ActionCases
  <2>3. ToNextEdit(p) => Moves(p) /\ BuiltFrame(NewTop(p), {}, c, target')
    BY DEF ToNextEdit, BuiltFrame
  <2> QED
    BY <1>0, <1>to, <1>quiet, <2>1, <2>2, <2>3, MovesAlone DEF To
<1>12. CASE \/ Check(p) \/ TryLock(p) \/ WaitLock(p) \/ DoubleCheck(p) \/ StartEdits(p)
            \/ EditsDone(p) \/ LockFile(p) \/ CheckEditAgain(p) \/ WriteEdit(p)
            \/ FlagEdit(p) \/ RecordHash(p) \/ Export(p) \/ OpenFixed(p) \/ WriteFixed(p)
            \/ Release(p) \/ ExportsDone(p) \/ LockBuild(p)
  <2>1. target' = target /\ status' = status
    BY <1>12 DEF Check, TryLock, WaitLock, DoubleCheck, StartEdits, EditsDone, LockFile,
       CheckEditAgain, WriteEdit, FlagEdit, RecordHash, Export, OpenFixed, WriteFixed,
       Release, ExportsDone, LockBuild
  <2>2. \E s \in {"exports", "try", "double", "wait", "release", "configure", "edit",
                  "export", "again", "unlock", "write", "flag", "record", "open", "fix",
                  "include", "b_double"} : To(p, s)
    BY <1>0, <1>12, ActionCases
  <2> QED
    BY <1>0, <1>to, <1>quiet, <2>1, <2>2, MovesAlone DEF To
<1> QED
  BY <1>build, <1>1, <1>2, <1>3, <1>4, <1>5, <1>6, <1>7, <1>8, <1>9, <1>10, <1>11, <1>12
  DEF Step

(* Nothing is built initially.                                             *)
LEMMA BuiltInit == Init => BuiltInv
BY DEF Init, BuiltInv, Built

(* The facts about targets are kept by every step.                         *)
LEMMA BuiltNext == Base /\ BuiltInv /\ [Next]_vars => BuiltInv'
<1>1. ASSUME BuiltInv, UNCHANGED vars PROVE BuiltInv'
  <2>1. UNCHANGED <<stack, status, conf, target>>
    BY <1>1 DEF vars, setup, builds
  <2>2. \A p \in Procs : \A i \in 1..Len(stack[p]) :
            BuiltFrame(stack'[p][i], Visited(stack'[p], i), conf'[p], target')
    BY <1>1, <2>1 DEF BuiltInv
  <2> QED
    BY <1>1, <2>1, <2>2 DEF BuiltInv, Built
<1> QED
  BY <1>1, BuiltStep DEF Next

(* A target is built after what it depends on, and a finished build has    *)
(* the whole closure of the project's dependencies.                        *)
THEOREM BuiltCorrect == Spec => []Built
<1>1. Base /\ BuiltInv => Built
  BY DEF BuiltInv
<1> QED
  BY <1>1, BaseInit, BaseStep, BuiltInit, BuiltNext, PTL DEF Spec
=============================================================================

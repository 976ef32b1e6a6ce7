--------------------------- MODULE PublishingProofs ---------------------------
(***************************************************************************)
(* Proofs about Publishing, for all specifications, trees, calls and any   *)
(* number of failures.                                                     *)
(***************************************************************************)
EXTENDS Publishing, SequenceTheorems, FiniteSetTheorems, WellFoundedInduction, TLAPS

USE PublishingAssumption

-----------------------------------------------------------------------------
(* The commands of a source.                                               *)

Effects == {"zip", "part", "dir", "remote", "head", "want"}
KnownCommand == [absent : SUBSET Effects, gives : SUBSET Effects,
                 drops : SUBSET Effects, spills : SUBSET Effects]
\* one that undoes nothing and leaves nothing behind when it fails
ClearCommand == {c \in KnownCommand : c.drops = {} /\ c.spills = {}}

LEMMA CommandClear ==
    ASSUME NEW absent \in SUBSET Effects, NEW gives \in SUBSET Effects
    PROVE  Command(absent, gives) \in ClearCommand
BY DEF Command, ClearCommand, KnownCommand

LEMMA WhenClear ==
    ASSUME NEW s, NEW fields, NEW commands \in Seq(ClearCommand)
    PROVE  When(s, fields, commands) \in Seq(ClearCommand)
BY DEF When

(* But for archives, commands only add to what is there.                   *)
LEMMA CommandsClear ==
    ASSUME NEW s, s.kind # "remote"
    PROVE  Commands(s) \in Seq(ClearCommand)
<1> DEFINE C(absent, gives) == Command(absent, gives)
<1>1. /\ C({}, {"dir"}) \in ClearCommand /\ C({"remote"}, {"remote"}) \in ClearCommand
      /\ C({}, {"head"}) \in ClearCommand /\ C({}, {"want"}) \in ClearCommand
      /\ C({"dir"}, {"dir", "head"}) \in ClearCommand /\ C({"dir"}, {"dir"}) \in ClearCommand
      /\ C({}, {"dir", "head"}) \in ClearCommand /\ C({}, {"dir", "want"}) \in ClearCommand
  BY CommandClear DEF Effects
<1> HIDE DEF C
<1>2. \A c, d \in ClearCommand : <<c>> \in Seq(ClearCommand) /\ <<c, d>> \in Seq(ClearCommand)
  OBVIOUS
<1>3. \A a, b \in Seq(ClearCommand) : a \o b \in Seq(ClearCommand)
  BY ConcatProperties
<1>4. Update \in Seq(ClearCommand) /\ Separate \in Seq(ClearCommand)
  BY <1>1, <1>2 DEF Update, Separate, C
<1>5. GitCommands(s) \in Seq(ClearCommand)
  <2>1. <<C({}, {"head"})>> \o Update \in Seq(ClearCommand)
    BY <1>1, <1>2, <1>3, <1>4
  <2>2. When(s, Git.exclusive, <<C({}, {"head"})>> \o Update) \in Seq(ClearCommand)
    BY <2>1, WhenClear
  <2>3. <<C({}, {"dir"}), C({"remote"}, {"remote"})>> \in Seq(ClearCommand)
    BY <1>1, <1>2
  <2> QED
    BY <2>2, <2>3, <1>3 DEF GitCommands, C
<1>6. HgCommands(s) \in Seq(ClearCommand) /\ BzrCommands(s) \in Seq(ClearCommand)
  <2>1. /\ When(s, Hg.exclusive, Update) \in Seq(ClearCommand)
        /\ When(s, Bzr.exclusive, Update) \in Seq(ClearCommand)
    BY <1>4, WhenClear
  <2>2. <<C({"dir"}, {"dir", "head"})>> \in Seq(ClearCommand)
    BY <1>1, <1>2
  <2> QED
    BY <2>1, <2>2, <1>3 DEF HgCommands, BzrCommands, C
<1>7. FossilCommands(s) \in Seq(ClearCommand)
  <2>1. When(s, Git.exclusive, Update) \in Seq(ClearCommand)
    BY <1>4, WhenClear
  <2>2. <<C({"dir"}, {"dir"}), C({}, {"head"})>> \in Seq(ClearCommand)
    BY <1>1, <1>2
  <2> QED
    BY <2>1, <2>2, <1>3 DEF FossilCommands, C
<1>8. CvsCommands(s) \in Seq(ClearCommand)
  <2>1. When(s, Cvs.exclusive, Update) \in Seq(ClearCommand)
    BY <1>4, WhenClear
  <2>2. <<C({}, {"dir", "head"})>> \in Seq(ClearCommand)
    BY <1>1, <1>2
  <2> QED
    BY <2>1, <2>2, <1>3 DEF CvsCommands, C
<1>9. SvnCommands \in Seq(ClearCommand)
  BY <1>1, <1>2 DEF SvnCommands, C
<1> QED
  BY <1>4, <1>5, <1>6, <1>7, <1>8, <1>9 DEF Commands

(* An archive is fetched, then unpacked and removed.                       *)
LEMMA ArchiveIs ==
    /\ Archive \in Seq(KnownCommand) /\ Len(Archive) = 2
    /\ Archive[1].gives = {"zip"} /\ Archive[1].drops = {}
    /\ Archive[2].gives = {"want"} /\ Archive[2].drops = {"zip", "part"}
BY DEF Archive, Command, KnownCommand, Effects

LEMMA CommandsKnown == \A s : Commands(s) \in Seq(KnownCommand)
<1> SUFFICES ASSUME NEW s PROVE Commands(s) \in Seq(KnownCommand)
  OBVIOUS
<1>1. CASE s.kind = "remote"
  BY <1>1, ArchiveIs DEF Commands
<1>2. CASE s.kind # "remote"
  <2>1. ClearCommand \subseteq KnownCommand
    BY DEF ClearCommand
  <2> QED
    BY <1>2, <2>1, CommandsClear, SeqMonotonic
<1> QED
  BY <1>1, <1>2

LEMMA RemoteIsArchive == \A s : s.kind = "remote" => Commands(s) = Archive
BY DEF Commands

LEMMA StepsKnown == Steps \in Seq(KnownCommand)
BY ArchiveIs, CommandsKnown DEF Steps

-----------------------------------------------------------------------------
(* A verification.                                                         *)

IsVerification(w) ==
    w = [stage |-> w.stage, files |-> w.files, spec |-> w.spec, source |-> w.source,
         github |-> w.github, at |-> w.at, try |-> w.try, disk |-> w.disk, rev |-> w.rev,
         failures |-> w.failures]

AllGiven(s) == UNION {Commands(s)[i].gives : i \in DOMAIN Commands(s)}
\* what there is after an archive was fetched, and after it was unpacked
ArchiveAt(at) == IF at = 1 THEN {} ELSE IF at = 2 THEN {"zip"} ELSE {"want"}

(* Tries before this one leave nothing a try without failures would not:   *)
(* an archive is tried once; of the other commands each that was run added *)
(* what it gives, in this try or another.                                  *)
Progress(w) ==
    IF w.source.kind = "remote"
    THEN w.try = 1 /\ w.disk = ArchiveAt(w.at)
    ELSE /\ w.disk \subseteq AllGiven(w.source)
         /\ \A i \in DOMAIN Commands(w.source) :
               i < w.at => Commands(w.source)[i].gives \subseteq w.disk

VerificationInv ==
    /\ IsVerification(v)
    /\ v.stage \in {"idle", "specification", "source"}
    /\ v.at \in Nat \ {0} /\ v.try \in Nat \ {0} /\ v.failures \in 0..MaxFailures
    /\ v.disk \subseteq Effects
    /\ v.stage # "source" => v.at = 1 /\ v.try = 1 /\ v.disk = {}
    /\ v.stage = "source" =>
          /\ v.github => FromGithub(v.source)
          /\ v.at <= Len(Steps) + 1
          /\ ~FromGithub(v.source) => Progress(v)

LEMMA IdleIs == VerificationInv /\ v' = Idle => VerificationInv'
BY DEF VerificationInv, IsVerification, Idle

LEMMA VerificationInit == Init => VerificationInv
BY DEF Init, VerificationInv, IsVerification, Idle

(* What a download that came to its end leaves is what one without any     *)
(* failure leaves.                                                         *)
LEMMA OriginalIsCheckout ==
    ASSUME VerificationInv, v.stage = "source", v.at > Len(Steps), ~FromGithub(v.source)
    PROVE  Original = Checkout(v.source, v.rev)
<1> DEFINE commands == Commands(v.source)
<1>1. ~v.github /\ Steps = commands /\ Progress(v) /\ v.at = Len(commands) + 1
  BY DEF VerificationInv, Steps
<1>2. commands \in Seq(KnownCommand)
  BY CommandsKnown
<1>3. v.disk = Gives(commands)
  <2>1. CASE v.source.kind = "remote"
    <3>0. commands = Archive
      BY <2>1, RemoteIsArchive
    <3>1. commands = Archive /\ v.at = 3
      BY <1>1, <3>0, ArchiveIs
    <3>2. v.disk = {"want"}
      BY <1>1, <2>1, <3>1 DEF Progress, ArchiveAt
    <3>3. DOMAIN Archive = {1, 2}
      BY ArchiveIs, LenProperties
    <3>4. UNION {Archive[i].gives : i \in DOMAIN Archive} = {"zip", "want"}
      BY <3>3, ArchiveIs
    <3>5. UNION {Archive[i].drops : i \in DOMAIN Archive} = {"zip", "part"}
      BY <3>3, ArchiveIs
    <3> QED
      BY <3>1, <3>2, <3>4, <3>5 DEF Gives
  <2>2. CASE v.source.kind # "remote"
    <3>1. commands \in Seq(ClearCommand)
      BY <2>2, CommandsClear
    <3>2. \A i \in DOMAIN commands : commands[i].drops = {}
      BY <3>1 DEF ClearCommand
    <3>3. UNION {commands[i].drops : i \in DOMAIN commands} = {}
      BY <3>2
    <3>4. \A i \in DOMAIN commands : i < v.at
      BY <1>1, <1>2
    <3>5. \A i \in DOMAIN commands : commands[i].gives \subseteq v.disk
      BY <1>1, <2>2, <3>4 DEF Progress
    <3>6. v.disk \subseteq UNION {commands[i].gives : i \in DOMAIN commands}
      BY <1>1, <2>2 DEF Progress, AllGiven
    <3> HIDE DEF commands
    <3>7. v.disk = UNION {commands[i].gives : i \in DOMAIN commands}
      BY <3>5, <3>6
    <3> QED
      BY <3>3, <3>7 DEF Gives
  <2> QED
    BY <2>1, <2>2
<1> QED
  BY <1>1, <1>3 DEF Original, Checkout

LEMMA VerificationUnchanged == VerificationInv /\ UNCHANGED v => VerificationInv'
BY DEF VerificationInv, Steps

LEMMA StartVerifyKeeps == VerificationInv /\ StartVerify => VerificationInv'
<1> SUFFICES ASSUME VerificationInv, StartVerify PROVE VerificationInv'
  OBVIOUS
<1>1. PICK k, files : v' = [Idle EXCEPT !.stage = "specification", !.spec = k, !.files = files]
  BY DEF StartVerify
<1>2. /\ IsVerification(v') /\ v'.stage = "specification" /\ v'.at = 1 /\ v'.try = 1
      /\ v'.disk = {} /\ v'.failures = 0
  BY <1>1 DEF IsVerification, Idle
<1> QED
  BY <1>2 DEF VerificationInv

LEMMA DownloadSpecificationKeeps ==
    ASSUME VerificationInv, DownloadSpecification PROVE VerificationInv'
<1>1. CASE v' = Idle
  BY <1>1, IdleIs
<1>2. CASE v.spec \in DOMAIN server
  <2> DEFINE source == server[v.spec].source
  <2>1. /\ v.stage = "specification" /\ v.at = 1 /\ v.try = 1 /\ v.disk = {}
        /\ v' = [v EXCEPT !.stage = "source", !.spec = server[v.spec].spec,
                          !.source = source, !.github = FromGithub(source)]
    BY <1>2 DEF DownloadSpecification, VerificationInv
  <2> HIDE DEF source
  <2>2. /\ IsVerification(v') /\ v'.stage = "source" /\ v'.source = source
        /\ v'.github = FromGithub(source)
        /\ v'.at = 1 /\ v'.try = 1 /\ v'.disk = {} /\ v'.failures = v.failures
    BY <2>1 DEF VerificationInv, IsVerification
  <2>3. Steps' \in Seq(KnownCommand)
    BY ArchiveIs, CommandsKnown DEF Steps
  <2>4. Len(Steps') \in Nat
    BY <2>3
  <2>5. Progress(v')
    <3>1. Commands(source) \in Seq(KnownCommand)
      BY CommandsKnown
    <3> QED
      BY <2>2, <3>1 DEF Progress, ArchiveAt
  <2> QED
    BY <2>2, <2>4, <2>5 DEF VerificationInv
<1> QED
  BY <1>1, <1>2 DEF DownloadSpecification, Fails, Verdict

LEMMA RunCommandKeeps ==
    ASSUME VerificationInv, RunCommand PROVE VerificationInv'
<1> DEFINE c == Steps[v.at]
<1>1. v.stage = "source" /\ v.at <= Len(Steps) /\ v.at \in Nat \ {0} /\ v.disk \subseteq Effects
  BY DEF RunCommand, VerificationInv
<1>2. c \in KnownCommand
  BY <1>1, StepsKnown
<1>3. PICK rev : v' = [v EXCEPT !.at = @ + 1, !.disk = (@ \cup c.gives) \ c.drops, !.rev = rev]
  BY DEF RunCommand
<1>4. /\ IsVerification(v') /\ v'.stage = "source" /\ v'.source = v.source
      /\ v'.github = v.github /\ v'.try = v.try /\ v'.failures = v.failures
      /\ v'.at = v.at + 1 /\ v'.disk = (v.disk \cup c.gives) \ c.drops
  <2> HIDE DEF c
  <2> QED
    BY <1>1, <1>3 DEF VerificationInv, IsVerification
<1>5. Steps' = Steps /\ Len(Steps) \in Nat
  BY <1>4, StepsKnown DEF Steps
<1>6. v'.disk \subseteq Effects
  BY <1>1, <1>2, <1>4 DEF KnownCommand
<1>7. ASSUME ~FromGithub(v.source) PROVE Progress(v')
  <2>1. ~v.github /\ Steps = Commands(v.source) /\ Progress(v)
    BY <1>1, <1>7 DEF VerificationInv, Steps
  <2>2. CASE v.source.kind = "remote"
    <3>0. Steps = Archive
      BY <2>1, <2>2, RemoteIsArchive
    <3>1. Steps = Archive /\ v.at \in {1, 2} /\ v.try = 1 /\ v.disk = ArchiveAt(v.at)
      BY <1>1, <2>1, <2>2, <3>0, ArchiveIs DEF Progress
    <3>2. CASE v.at = 1
      BY <1>4, <2>2, <3>1, <3>2, ArchiveIs DEF Progress, ArchiveAt
    <3>3. CASE v.at = 2
      BY <1>4, <2>2, <3>1, <3>3, ArchiveIs DEF Progress, ArchiveAt
    <3> QED
      BY <3>1, <3>2, <3>3
  <2>3. CASE v.source.kind # "remote"
    <3> DEFINE commands == Commands(v.source)
    <3>1. commands \in Seq(ClearCommand) /\ v.at \in DOMAIN commands /\ c = commands[v.at]
      BY <1>1, <2>1, <2>3, CommandsClear
    <3>2. c.drops = {}
      BY <3>1 DEF ClearCommand
    <3>3. v'.disk = v.disk \cup c.gives
      BY <1>4, <3>2
    <3>4. c.gives \subseteq AllGiven(v.source)
      BY <3>1 DEF AllGiven
    <3>5. /\ v.disk \subseteq AllGiven(v.source)
          /\ \A i \in DOMAIN commands : i < v.at => commands[i].gives \subseteq v.disk
      BY <2>1, <2>3 DEF Progress
    <3>6. \A i \in DOMAIN commands : i < v.at + 1 => i < v.at \/ i = v.at
      BY <1>1, <3>1
    <3> HIDE DEF c, commands
    <3>7. \A i \in DOMAIN commands : i < v.at + 1 => commands[i].gives \subseteq v'.disk
      BY <3>1, <3>3, <3>5, <3>6
    <3> QED
      BY <1>4, <2>3, <3>3, <3>4, <3>5, <3>7 DEF Progress, commands
  <2> QED
    BY <2>2, <2>3
<1> HIDE DEF c
<1> QED
  BY <1>1, <1>4, <1>5, <1>6, <1>7 DEF VerificationInv

LEMMA CommandFailsKeeps ==
    ASSUME VerificationInv, CommandFails PROVE VerificationInv'
<1> DEFINE c == Steps[v.at]
<1>1. v.stage = "source" /\ v.at <= Len(Steps) /\ v.at \in Nat \ {0}
  BY DEF CommandFails, VerificationInv
<1>2. c \in KnownCommand
  BY <1>1, StepsKnown
<1>3. CASE v' = Idle
  BY <1>3, IdleIs
<1>4. ASSUME NEW left \in SUBSET c.spills, NEW cost \in {0, 1}, v.failures + cost <= MaxFailures,
             v.github, v' = [v EXCEPT !.github = FALSE, !.at = 1, !.disk = @ \cup left,
                                      !.failures = @ + cost]
      PROVE  VerificationInv'
  <2> HIDE DEF c
  <2>1. /\ IsVerification(v') /\ v'.stage = "source" /\ v'.source = v.source
        /\ v'.github = FALSE /\ v'.try = v.try /\ v'.failures = v.failures + cost
        /\ v'.at = 1 /\ v'.disk = v.disk \cup left
    BY <1>1, <1>4 DEF VerificationInv, IsVerification
  <2>2. FromGithub(v.source)
    BY <1>1, <1>4 DEF VerificationInv
  <2>3. Steps' \in Seq(KnownCommand)
    BY ArchiveIs, CommandsKnown DEF Steps
  <2>4. v'.disk \subseteq Effects
    BY <1>2, <2>1 DEF VerificationInv, KnownCommand
  <2> QED
    BY <1>4, <2>1, <2>2, <2>3, <2>4 DEF VerificationInv
<1>5. ASSUME NEW left \in SUBSET c.spills, NEW cost \in {0, 1}, v.failures + cost <= MaxFailures,
             ~v.github, Retried(v.try, Tries(v.source)) # "failed",
             v' = [v EXCEPT !.stage = Retried(v.try, Tries(v.source)), !.at = 1, !.try = @ + 1,
                            !.disk = @ \cup left, !.failures = @ + cost]
      PROVE  VerificationInv'
  <2>1. Retried(v.try, Tries(v.source)) = "source" /\ v.try < Tries(v.source)
    BY <1>5 DEF Retried
  <2> HIDE DEF c
  <2>2. /\ IsVerification(v') /\ v'.stage = "source" /\ v'.source = v.source
        /\ v'.github = v.github /\ v'.try = v.try + 1 /\ v'.failures = v.failures + cost
        /\ v'.at = 1 /\ v'.disk = v.disk \cup left
    BY <1>1, <1>5, <2>1 DEF VerificationInv, IsVerification
  <2>3. Steps' \in Seq(KnownCommand)
    BY ArchiveIs, CommandsKnown DEF Steps
  <2>4. v'.disk \subseteq Effects
    BY <1>2, <2>2 DEF VerificationInv, KnownCommand
  <2>5. v.source.kind # "remote"
    BY <2>1 DEF Tries, VerificationInv
  <2>6. left = {}
    <3>1. Steps = Commands(v.source) /\ Commands(v.source) \in Seq(ClearCommand)
      BY <1>5, <2>5, CommandsClear DEF Steps
    <3>2. c \in ClearCommand
      BY <1>1, <3>1 DEF c
    <3> QED
      BY <3>2, <1>5 DEF ClearCommand
  <2>7. ~FromGithub(v.source) => Progress(v')
    <3>1. Commands(v.source) \in Seq(KnownCommand)
      BY CommandsKnown
    <3> QED
      BY <1>1, <2>2, <2>5, <2>6, <3>1 DEF VerificationInv, Progress
  <2> QED
    BY <1>5, <2>2, <2>3, <2>4, <2>7 DEF VerificationInv
<1> QED
  BY <1>3, <1>4, <1>5 DEF CommandFails, Fails, Verdict

(* No step of the author, of the server or of a client disturbs it.        *)
LEMMA VerificationStep == VerificationInv /\ [Next]_vars => VerificationInv'
<1> SUFFICES ASSUME VerificationInv, [Next]_vars PROVE VerificationInv'
  OBVIOUS
<1>1. CASE Edit \/ Push \/ BeautifyStrict \/ BuildInPlace \/ Call \/ Install \/ UNCHANGED vars
  <2>1. UNCHANGED v
    BY <1>1 DEF Edit, Push, BeautifyStrict, BuildInPlace, Call, Install, vars
  <2> QED
    BY <2>1, VerificationUnchanged
<1>2. CASE StartVerify
  BY <1>2, StartVerifyKeeps
<1>3. CASE DownloadSpecification
  BY <1>3, DownloadSpecificationKeeps
<1>4. CASE RunCommand
  BY <1>4, RunCommandKeeps
<1>5. CASE CommandFails
  BY <1>5, CommandFailsKeeps
<1>6. CASE Compare
  BY <1>6, IdleIs DEF Compare, Fails, Verdict
<1> QED
  BY <1>1, <1>2, <1>3, <1>4, <1>5, <1>6 DEF Next

-----------------------------------------------------------------------------
(* Packages of the server.                                                 *)

ServerInv ==
    \A k \in DOMAIN server : Len(k) = 2 /\ <<CppanFile>> \in DOMAIN server[k].files

(* Every archive has a specification, whatever the patterns say.           *)
LEMMA ArchivedSpecification ==
    \A y, p, tree : <<CppanFile>> \in DOMAIN Archived(y, p, tree)
BY DEF Archived, Packed, FindSources

LEMMA MakeKeeps ==
    ASSUME NEW y, NEW project, NEW version, Make(y, <<project, version>>), ServerInv
    PROVE  ServerInv'
<1> DEFINE key == <<project, version>>
<1>1. PICK p, source, tree : server' = With(server, key, PackageOf(y, p, source, tree))
  BY DEF Make
<1>2. Len(key) = 2 /\ <<CppanFile>> \in DOMAIN PackageOf(y, p, source, tree).files
  BY ArchivedSpecification DEF PackageOf
<1> DEFINE package == PackageOf(y, p, source, tree)
<1>3. server' = With(server, key, package) /\ Len(key) = 2 /\ <<CppanFile>> \in DOMAIN package.files
  BY <1>1, <1>2
<1> HIDE DEF key, package
<1> QED
  BY <1>3 DEF With, ServerInv

LEMMA ServeKeeps ==
    ASSUME NEW r, Serve(r), ServerInv
    PROVE  ServerInv'
<1>1. \/ \E y, version : Make(y, <<r.project, version>>)
      \/ \E gone : server' = [k \in (DOMAIN server) \ gone |-> server[k]]
  BY DEF Serve
<1>2. CASE \E y, version : Make(y, <<r.project, version>>)
  BY <1>2, MakeKeeps
<1>3. CASE \E gone : server' = [k \in (DOMAIN server) \ gone |-> server[k]]
  BY <1>3 DEF ServerInv
<1> QED
  BY <1>1, <1>2, <1>3

LEMMA ServerStep == ServerInv /\ [Next]_vars => ServerInv'
<1> SUFFICES ASSUME ServerInv, [Next]_vars PROVE ServerInv'
  OBVIOUS
<1>1. CASE Call
  BY <1>1, ServeKeeps DEF Call
<1>2. CASE ~Call
  <2>1. UNCHANGED server
    BY <1>2 DEF Next, Edit, Push, BeautifyStrict, BuildInPlace, StartVerify,
                DownloadSpecification, RunCommand, CommandFails, Compare, Install, vars
  <2> QED
    BY <2>1 DEF ServerInv
<1> QED
  BY <1>1, <1>2

-----------------------------------------------------------------------------
(* Types.                                                                  *)

AuthorInv == tip \in DOMAIN Revisions /\ written \in Specifications
SeenInv == seen.kind \in {"nothing", "built", "verified", "installed"}

LEMMA AuthorStep == AuthorInv /\ [Next]_vars => AuthorInv'
<1> SUFFICES ASSUME AuthorInv, [Next]_vars PROVE AuthorInv'
  OBVIOUS
<1>1. \/ UNCHANGED <<tip, written>>
      \/ tip' = tip + 1 /\ tip < Len(Revisions) /\ UNCHANGED written
      \/ written' \in Specifications /\ UNCHANGED tip
  BY DEF Next, Edit, Push, BeautifyStrict, BuildInPlace, Call, StartVerify,
         DownloadSpecification, RunCommand, CommandFails, Compare, Install, vars
<1>2. DOMAIN Revisions = 1..Len(Revisions) /\ Len(Revisions) \in Nat
  BY LenProperties
<1> QED
  BY <1>1, <1>2 DEF AuthorInv

LEMMA SeenStep == SeenInv /\ [Next]_vars => SeenInv'
<1> SUFFICES ASSUME SeenInv, [Next]_vars PROVE SeenInv'
  OBVIOUS
<1>1. \/ UNCHANGED seen
      \/ seen' = Nothing
      \/ \E packages : seen' = [kind |-> "built", packages |-> packages]
      \/ \E verdict, original : Verdict(verdict, original)
      \/ \E p, include : seen' = [kind |-> "installed", package |-> p, include |-> include]
  BY DEF Next, Edit, Push, BeautifyStrict, BuildInPlace, Call, StartVerify,
         DownloadSpecification, RunCommand, CommandFails, Fails, Compare, Install, vars
<1> QED
  BY <1>1 DEF SeenInv, Nothing, Verdict

(* Every package of the server has two names and a specification among its *)
(* files, and a verification is at a command of its source, of which only  *)
(* known effects are there (client/main.cpp, api_call; verifier.cpp).      *)
THEOREM TypeCorrect == Spec => []TypeOK
<1>1. Init => VerificationInv /\ ServerInv /\ AuthorInv /\ SeenInv
  BY VerificationInit DEF Init, ServerInv, AuthorInv, SeenInv, Nothing
<1>2. VerificationInv /\ ServerInv /\ AuthorInv /\ SeenInv => TypeOK
  BY DEF VerificationInv, ServerInv, AuthorInv, SeenInv, TypeOK, Effects
<1> QED
  BY <1>1, <1>2, VerificationStep, ServerStep, AuthorStep, SeenStep, PTL DEF Spec

-----------------------------------------------------------------------------
(* Verdicts.                                                               *)

LEMMA CompareRight ==
    ASSUME VerificationInv, Compare PROVE VerifyRight'
<1>1. CASE CannotPack(v.spec, Original)
  BY <1>1 DEF Compare, Fails, Verdict, VerifyRight
<1>2. CASE ~CannotPack(v.spec, Original)
  <2> DEFINE original == Pack(v.spec, Original)
             same == WithoutSpecification(original) = WithoutSpecification(v.files)
  <2>1. Verdict(IF same THEN "same" ELSE "different", original)
    BY <1>2 DEF Compare
  <2> HIDE DEF original, same
  <2>2. /\ seen'.verdict = (IF same THEN "same" ELSE "different")
        /\ seen'.original = original /\ seen'.package = v.files /\ seen'.spec = v.spec
        /\ seen'.source = v.source /\ seen'.rev = v.rev
    BY <2>1 DEF Verdict
  <2>3. SUFFICES ASSUME ~FromGithub(v.source)
                 PROVE  /\ ~CannotPack(v.spec, Checkout(v.source, v.rev))
                        /\ original = Pack(v.spec, Checkout(v.source, v.rev))
                        /\ same <=> WithoutSpecification(original) = WithoutSpecification(v.files)
    BY <2>2 DEF VerifyRight, Clean
  <2>4. v.stage = "source" /\ v.at > Len(Steps)
    BY DEF Compare, VerificationInv
  <2>5. Original = Checkout(v.source, v.rev)
    BY <2>3, <2>4, OriginalIsCheckout
  <2> QED
    BY <1>2, <2>5 DEF original, same
<1> QED
  BY <1>1, <1>2

(* A verification that comes to a verdict compared the package with what a *)
(* checkout without any failure gives, whatever commands failed before, in *)
(* which tries, and whatever they left (source.cpp, downloadRepository).   *)
THEOREM VerifyCorrect == Spec => []VerifyRight
<1>1. Init => VerificationInv /\ VerifyRight
  BY VerificationInit DEF Init, VerifyRight, Nothing
<1>2. ASSUME VerificationInv, VerifyRight, [Next]_vars PROVE VerifyRight'
  <2>1. CASE Compare
    BY <1>2, <2>1, CompareRight
  <2>2. CASE UNCHANGED vars
    BY <1>2, <2>2 DEF VerifyRight, vars, Clean
  <2>3. CASE Next /\ ~Compare
    <3>1. \/ seen' = Nothing
          \/ \E packages : seen' = [kind |-> "built", packages |-> packages]
          \/ Fails
          \/ \E p, include : seen' = [kind |-> "installed", package |-> p, include |-> include]
      BY <2>3 DEF Next, Edit, Push, BeautifyStrict, BuildInPlace, Call, StartVerify,
                  DownloadSpecification, RunCommand, CommandFails, Install
    <3> QED
      BY <3>1 DEF VerifyRight, Nothing, Fails, Verdict
  <2> QED
    BY <1>2, <2>1, <2>2, <2>3
<1> QED
  BY <1>1, <1>2, VerificationStep, PTL DEF Spec

-----------------------------------------------------------------------------
(* Installed packages.                                                     *)

ShippedSame(p, tree, files) ==
    \A n \in ToSet(IncludeDirectories \o SourceDirectories) :
        Exists(files, <<n>>) <=> There(tree, p.root, n)

\* what is loaded in both places, by the name of the only project
Only(y, name, ctx) == LoadProject(ProjectMaps(Prepare(y))[name], name, ContextOf(y, ctx))

(* A specification of one project has one, wherever it is loaded.          *)
LEMMA OnlyProject ==
    ASSUME NEW y, NEW name, NEW ctx, DOMAIN ProjectMaps(Prepare(y)) = {name}
    PROVE  LET projects == LoadProjects(y, ctx)
           IN  projects[CHOOSE q \in DOMAIN projects : TRUE] = Only(y, name, ctx)
<1> DEFINE x == Only(y, name, ctx)
<1>1. LoadProjects(y, ctx) = ByPath({x})
  <2>1. {LoadProject(ProjectMaps(Prepare(y))[k], k, ContextOf(y, ctx)) :
            k \in DOMAIN ProjectMaps(Prepare(y))} = {x}
    BY DEF Only
  <2> QED
    BY <2>1 DEF LoadProjects
<1> HIDE DEF x
<1>2. ByPath({x}) = [path \in {x.path} |-> x]
  BY DEF ByPath
<1>3. (CHOOSE q \in {x.path} : TRUE) = x.path
  OBVIOUS
<1> QED
  BY <1>1, <1>2, <1>3 DEF x

LEMMA NamesAre ==
    /\ IncludeDirectories = <<"include", "includes">>
    /\ \A i \in DOMAIN IncludeDirectories :
          IncludeDirectories[i] \in ToSet(IncludeDirectories \o SourceDirectories)
    /\ \A i \in DOMAIN SourceDirectories :
          SourceDirectories[i] \in ToSet(IncludeDirectories \o SourceDirectories)
BY DEF IncludeDirectories, SourceDirectories, ToSet

(* The same directories are found first where the same are there.          *)
LEMMA FirstSame ==
    ASSUME NEW tree, NEW root, NEW files, NEW names, \E n \in Nat : DOMAIN names = 1..n,
           \A i \in DOMAIN names : There(files, <<>>, names[i]) <=> There(tree, root, names[i])
    PROVE  FirstThere(files, <<>>, names) = FirstThere(tree, root, names)
<1>1. \A j \in DOMAIN names : \A k \in 1..(j - 1) : k \in DOMAIN names
  OBVIOUS
<1> QED
  BY <1>1 DEF FirstThere

LEMMA ThereIsExists == \A files, n : There(files, <<>>, n) <=> Exists(files, <<n>>)
<1> SUFFICES ASSUME NEW files, NEW n PROVE There(files, <<>>, n) <=> Exists(files, <<n>>)
  OBVIOUS
<1>1. <<>> \o <<n>> = <<n>>
  OBVIOUS
<1> QED
  BY <1>1 DEF There

LEMMA DefaultSame ==
    ASSUME NEW p, NEW tree, NEW files, ShippedSame(p, tree, files)
    PROVE  DefaultInclude(files, <<>>) = DefaultInclude(tree, p.root)
<1>1. DOMAIN IncludeDirectories = 1..2 /\ DOMAIN SourceDirectories = 1..5
  BY DEF IncludeDirectories, SourceDirectories
<1>2. FirstThere(files, <<>>, IncludeDirectories) = FirstThere(tree, p.root, IncludeDirectories)
  <2> DEFINE names == IncludeDirectories
  <2>1. \A i \in DOMAIN names : There(files, <<>>, names[i]) <=> There(tree, p.root, names[i])
    BY NamesAre, ThereIsExists DEF ShippedSame
  <2> HIDE DEF names
  <2>2. \E n \in Nat : DOMAIN names = 1..n
    <3>1. DOMAIN names = 1..2 /\ 2 \in Nat
      BY <1>1 DEF names
    <3> QED
      BY <3>1
  <2>3. FirstThere(files, <<>>, names) = FirstThere(tree, p.root, names)
    BY <2>1, <2>2, FirstSame
  <2> QED
    BY <2>3 DEF names
<1>3. FirstThere(files, <<>>, SourceDirectories) = FirstThere(tree, p.root, SourceDirectories)
  <2> DEFINE names == SourceDirectories
  <2>1. \A i \in DOMAIN names : There(files, <<>>, names[i]) <=> There(tree, p.root, names[i])
    BY NamesAre, ThereIsExists DEF ShippedSame
  <2> HIDE DEF names
  <2>2. \E n \in Nat : DOMAIN names = 1..n
    <3>1. DOMAIN names = 1..5 /\ 5 \in Nat
      BY <1>1 DEF names
    <3> QED
      BY <3>1
  <2>3. FirstThere(files, <<>>, names) = FirstThere(tree, p.root, names)
    BY <2>1, <2>2, FirstSame
  <2> QED
    BY <2>3 DEF names
<1> QED
  BY <1>2, <1>3 DEF DefaultInclude

(* In the storage the root is the directory of the package.                *)
LEMMA StoredRoot ==
    ASSUME NEW p, NEW files, NEW ctx, ctx.tree = files, ~ctx.is_local,
           p.plain.root_directory \in Seq(STRING),
           p.plain.root_directory = <<>> \/ ~Exists(files, p.plain.root_directory)
    PROVE  RootDirectory(p, ctx) = <<>>
<1>1. LocalRoot(ctx.tree, ctx.is_local) = <<>>
  BY DEF LocalRoot
<1>2. <<>> \o p.plain.root_directory = p.plain.root_directory
  BY ConcatEmptySeq
<1> QED
  BY <1>1, <1>2 DEF RootDirectory

(* What is read of a project, but for its dependencies, does not depend on *)
(* where it is loaded.                                                     *)
LEMMA ReadSame ==
    ASSUME NEW y, NEW c, NEW d
    PROVE  /\ ReadProject(y, c).plain = ReadProject(y, d).plain
           /\ ReadProject(y, c).include = ReadProject(y, d).include
BY DEF ReadProject

(* The include directories of a package that keeps its layout are guessed  *)
(* from its archive as they were from the tree.                            *)
LEMMA IncludeSame ==
    ASSUME NEW y, NEW tree, KeepsLayout(y, ProjectOf(y, tree), tree)
    PROVE  LET files == Archived(y, ProjectOf(y, tree), tree)
               projects == LoadProjects(y, Stored(files))
           IN  projects[CHOOSE q \in DOMAIN projects : TRUE].include = ProjectOf(y, tree).include
<1> DEFINE p == ProjectOf(y, tree)
           files == Archived(y, p, tree)
<1>1. PICK name : DOMAIN ProjectMaps(Prepare(y)) = {name}
  BY DEF KeepsLayout
<1> DEFINE q == Only(y, name, Stored(files))
           map == ProjectMaps(Prepare(y))[name]
           here == ContextOf(y, Context(tree))
           there == ContextOf(y, Stored(files))
<1>2. p = Only(y, name, Context(tree))
  BY <1>1, OnlyProject DEF ProjectOf, DefaultProject
<1>3. SUFFICES q.include = p.include
  BY <1>1, OnlyProject
<1>4. /\ here.tree = tree /\ here.defaults
      /\ there.tree = files /\ there.defaults /\ ~there.is_local
  <2> HIDE DEF files
  <2> QED
    BY DEF ContextOf, Context, Stored
<1>5. /\ p.read = ReadProject(map, here) /\ p.root = RootDirectory(p.read, here)
      /\ p.include = Include(p.read, p.root, here)
  BY <1>2 DEF Only, LoadProject, Located
<1>6. /\ q.read = ReadProject(map, there) /\ q.root = RootDirectory(q.read, there)
      /\ q.include = Include(q.read, q.root, there)
  BY DEF Only, LoadProject, Located
<1>7. /\ p.read.plain.root_directory \in Seq(STRING)
      /\ p.read.plain.root_directory = <<>> \/ ~Exists(files, p.read.plain.root_directory)
      /\ ShippedSame(p, tree, files)
  BY DEF KeepsLayout, ShippedSame
<1> HIDE DEF p, q, files, map, here, there
<1>8. q.read.plain = p.read.plain /\ q.read.include = p.read.include
  BY <1>5, <1>6, ReadSame
<1>9. q.root = <<>>
  BY <1>4, <1>6, <1>7, <1>8, StoredRoot
<1>10. DefaultInclude(files, <<>>) = DefaultInclude(tree, p.root)
  BY <1>7, DefaultSame
<1> DEFINE none == \A visibility \in Visibilities : p.read.include[visibility] = {}
<1>11. CASE none
  <2>1. /\ p.include = [DefaultInclude(tree, p.root) EXCEPT !.public = @ \cup {<<"${BDIR}">>},
                                                         !.private = @ \cup {<<"${BDIR_PRIVATE}">>}]
        /\ q.include = [DefaultInclude(files, <<>>) EXCEPT !.public = @ \cup {<<"${BDIR}">>},
                                                        !.private = @ \cup {<<"${BDIR_PRIVATE}">>}]
    BY <1>4, <1>5, <1>6, <1>8, <1>9, <1>11 DEF Include
  <2> QED
    BY <2>1, <1>10
<1>12. CASE ~none
  <2>1. /\ p.include = [p.read.include EXCEPT !.public = @ \cup {<<"${BDIR}">>},
                                             !.private = @ \cup {<<"${BDIR_PRIVATE}">>}]
        /\ q.include = [q.read.include EXCEPT !.public = @ \cup {<<"${BDIR}">>},
                                             !.private = @ \cup {<<"${BDIR_PRIVATE}">>}]
    BY <1>5, <1>6, <1>8, <1>12 DEF Include
  <2> QED
    BY <2>1, <1>8
<1> QED
  BY <1>11, <1>12

(* The packages of the server are made from their specifications.          *)
IsMade(package) ==
    \E y, source, tree : package = PackageOf(y, ProjectOf(y, tree), source, tree)
PackagesMade == \A k \in DOMAIN server : IsMade(server[k])

LEMMA MakeMakes ==
    ASSUME NEW y, NEW key, Make(y, key), PackagesMade
    PROVE  PackagesMade'
<1>1. PICK source, tree : server' = With(server, key, PackageOf(y, ProjectOf(y, tree), source, tree))
  BY DEF Make
<1> DEFINE package == PackageOf(y, ProjectOf(y, tree), source, tree)
<1>2. server' = With(server, key, package) /\ IsMade(package)
  BY <1>1 DEF IsMade
<1> HIDE DEF package
<1> QED
  BY <1>2 DEF With, PackagesMade

LEMMA MadeStep == PackagesMade /\ [Next]_vars => PackagesMade'
<1> SUFFICES ASSUME PackagesMade, [Next]_vars PROVE PackagesMade'
  OBVIOUS
<1>1. CASE Call
  <2>1. PICK r : Serve(r)
    BY <1>1 DEF Call
  <2>2. \/ \E y, key : Make(y, key)
        \/ \E gone : server' = [k \in (DOMAIN server) \ gone |-> server[k]]
    BY <2>1 DEF Serve
  <2>3. CASE \E gone : server' = [k \in (DOMAIN server) \ gone |-> server[k]]
    BY <2>3 DEF PackagesMade
  <2> QED
    BY <2>2, <2>3, MakeMakes
<1>2. CASE ~Call
  <2>1. UNCHANGED server
    BY <1>2 DEF Next, Edit, Push, BeautifyStrict, BuildInPlace, StartVerify,
                DownloadSpecification, RunCommand, CommandFails, Compare, Install, vars
  <2> QED
    BY <2>1 DEF PackagesMade
<1> QED
  BY <1>1, <1>2

LEMMA InstallRight ==
    ASSUME PackagesMade, Install PROVE InstalledSame'
<1>1. PICK k \in DOMAIN server :
         seen' = [kind |-> "installed", package |-> server[k],
                  include |-> LET projects == LoadProjects(server[k].spec, Stored(server[k].files))
                              IN  projects[CHOOSE q \in DOMAIN projects : TRUE].include]
  BY DEF Install
<1>2. PICK y, source, tree : server[k] = PackageOf(y, ProjectOf(y, tree), source, tree)
  BY <1>1 DEF PackagesMade, IsMade
<1>3. /\ server[k].spec = y /\ server[k].files = Archived(y, ProjectOf(y, tree), tree)
      /\ server[k].include = ProjectOf(y, tree).include
      /\ server[k].keeps = KeepsLayout(y, ProjectOf(y, tree), tree)
  BY <1>2 DEF PackageOf
<1>4. ASSUME server[k].keeps
      PROVE  (LET projects == LoadProjects(server[k].spec, Stored(server[k].files))
              IN  projects[CHOOSE q \in DOMAIN projects : TRUE].include) = server[k].include
  <2>1. KeepsLayout(y, ProjectOf(y, tree), tree)
    BY <1>3, <1>4
  <2> QED
    BY <1>3, <2>1, IncludeSame
<1> DEFINE include == LET projects == LoadProjects(server[k].spec, Stored(server[k].files))
                      IN  projects[CHOOSE q \in DOMAIN projects : TRUE].include
           package == server[k]
<1>5. /\ seen' = [kind |-> "installed", package |-> package, include |-> include]
      /\ package.keeps => include = package.include
  BY <1>1, <1>4
<1> HIDE DEF include, package
<1> QED
  BY <1>5 DEF InstalledSame

(* Two guesses of the include directories agree: the server's, from the    *)
(* tree of the source, and the client's, from the archive that was made of *)
(* its root directory, whenever that archive keeps what they are guessed   *)
(* from (project.cpp, load).                                               *)
THEOREM InstalledCorrect == Spec => []InstalledSame
<1>1. Init => PackagesMade /\ InstalledSame
  BY DEF Init, PackagesMade, InstalledSame, Nothing
<1>2. ASSUME PackagesMade, InstalledSame, [Next]_vars PROVE InstalledSame'
  <2>1. CASE Install
    BY <1>2, <2>1, InstallRight
  <2>2. CASE UNCHANGED vars
    BY <1>2, <2>2 DEF InstalledSame, vars
  <2>3. CASE Next /\ ~Install
    <3>1. \/ seen' = Nothing
          \/ \E packages : seen' = [kind |-> "built", packages |-> packages]
          \/ \E verdict, original : Verdict(verdict, original)
      BY <2>3 DEF Next, Edit, Push, BeautifyStrict, BuildInPlace, Call, StartVerify,
                  DownloadSpecification, RunCommand, CommandFails, Fails, Compare
    <3> QED
      BY <3>1 DEF InstalledSame, Nothing, Verdict
  <2> QED
    BY <1>2, <2>1, <2>2, <2>3
<1> QED
  BY <1>1, <1>2, MadeStep, PTL DEF Spec
-----------------------------------------------------------------------------
(* Maps.                                                                   *)
LEMMA Laid ==
    ASSUME NEW f, NEW g
    PROVE  /\ DOMAIN Over(f, g) = (DOMAIN f) \cup (DOMAIN g)
           /\ \A x \in DOMAIN f : Over(f, g)[x] = f[x]
           /\ \A x \in DOMAIN g : x \notin DOMAIN f => Over(f, g)[x] = g[x]
BY DEF Over

LEMMA LaidEither ==
    ASSUME NEW f, NEW g, NEW x \in DOMAIN Over(f, g)
    PROVE  \/ x \in DOMAIN f /\ Over(f, g)[x] = f[x]
           \/ x \in DOMAIN g /\ x \notin DOMAIN f /\ Over(f, g)[x] = g[x]
BY DEF Over

IsMap(f) == f = [x \in DOMAIN f |-> f[x]]

LEMMA LaidNothing ==
    ASSUME NEW f, IsMap(f) PROVE Over(f, <<>>) = f /\ Over(<<>>, f) = f
BY DEF Over, IsMap

LEMMA NoMap == IsMap(<<>>) /\ DOMAIN <<>> = {} /\ \A f : IsMap(f) /\ DOMAIN f = {} => f = <<>>
BY DEF IsMap

LEMMA LaidIsMap == \A f, g : IsMap(Over(f, g))
BY DEF IsMap, Over

LEMMA WhatIsFull ==
    ASSUME NEW all, NEW empty
    PROVE  /\ IsMap(NotEmpty(all, empty))
           /\ DOMAIN NotEmpty(all, empty) = {k \in DOMAIN all : ~empty[k]}
           /\ \A k \in DOMAIN all : ~empty[k] => NotEmpty(all, empty)[k] = all[k]
BY DEF IsMap, NotEmpty

-----------------------------------------------------------------------------
(* Rounds: what is defined from one number to the next is defined.         *)

(* The natural numbers are well-ordered.                                   *)
LEMMA NatOrder ==
    \E R : IsWellFoundedOn(R, Nat) /\ \A x, y \in Nat : y < x => <<y, x>> \in R
<1> DEFINE R == OpToRel(<, Nat)
<1>1. IsWellFoundedOn(R, Nat)
  BY NatLessThanWellFounded
<1>2. \A x, y \in Nat : y < x => <<y, x>> \in R
  BY DEF OpToRel
<1> HIDE DEF R
<1> QED
  BY <1>1, <1>2

(* What holds of 0, and of a number up to n whenever it holds of the one   *)
(* before it, holds of n.                                                  *)
LEMMA UpTo ==
    ASSUME NEW n \in Nat, NEW T, 0 \in T, \A k \in 1..n : k - 1 \in T => k \in T
    PROVE  n \in T
<1> SUFFICES ASSUME n \notin T PROVE FALSE
  OBVIOUS
<1> DEFINE Bad == {j \in Nat : j \notin T}
<1>1. PICK R : IsWellFoundedOn(R, Nat) /\ \A x, y \in Nat : y < x => <<y, x>> \in R
  BY NatOrder
<1>2. PICK k \in Bad : \A i \in Bad : ~(<<i, k>> \in R)
  BY <1>1, WFMin
<1>3. \A i \in Bad : k <= i
  <2>1. \A i \in Bad : ~(i < k)
    BY <1>1, <1>2
  <2> QED
    BY <2>1
<1>4. k \in 1..n /\ k - 1 \in Nat
  BY <1>3
<1> QED
  BY <1>3, <1>4

(* The rounds in which what is needed is added.                            *)
Rounds(g, projects, specific, n) ==
    \A k \in 0..n : g[k] = IF k = 0 THEN projects ELSE AddReferenced(g[k - 1], specific)

LEMMA RoundsUpTo ==
    ASSUME NEW projects, NEW specific, NEW n \in Nat PROVE \E g : Rounds(g, projects, specific, n)
<1> DEFINE T == {k \in Nat : \E g : Rounds(g, projects, specific, k)}
<1>1. 0 \in T
  <2>1. Rounds([k \in {0} |-> projects], projects, specific, 0)
    BY DEF Rounds
  <2> QED
    BY <2>1
<1>2. ASSUME NEW k \in 1..n, k - 1 \in T PROVE k \in T
  <2>1. PICK g : Rounds(g, projects, specific, k - 1)
    BY <1>2
  <2> DEFINE f == [i \in 0..k |-> IF i = k THEN AddReferenced(g[k - 1], specific) ELSE g[i]]
  <2>2. Rounds(f, projects, specific, k)
    <3> SUFFICES ASSUME NEW i \in 0..k
                 PROVE  f[i] = IF i = 0 THEN projects ELSE AddReferenced(f[i - 1], specific)
      BY DEF Rounds
    <3>1. CASE i = k
      BY <3>1
    <3>2. CASE i # k
      <4>1. i \in 0..(k - 1) /\ f[i] = g[i] /\ (i # 0 => f[i - 1] = g[i - 1])
        BY <3>2
      <4> QED
        BY <2>1, <4>1 DEF Rounds
    <3> QED
      BY <3>1, <3>2
  <2> QED
    BY <2>2
<1> HIDE DEF T
<1>3. n \in T
  BY <1>1, <1>2, UpTo
<1> QED
  BY <1>3 DEF T

LEMMA RoundsAgree ==
    ASSUME NEW projects, NEW specific, NEW f, NEW g, NEW m \in Nat, NEW n \in Nat, m <= n,
           Rounds(f, projects, specific, m), Rounds(g, projects, specific, n)
    PROVE  f[m] = g[m]
<1> DEFINE T == {k \in Nat : k <= m => f[k] = g[k]}
<1>1. 0 \in T
  BY DEF Rounds
<1>2. ASSUME NEW k \in 1..m, k - 1 \in T PROVE k \in T
  <2>1. /\ f[k] = AddReferenced(f[k - 1], specific)
        /\ g[k] = AddReferenced(g[k - 1], specific)
    BY DEF Rounds
  <2> QED
    BY <1>2, <2>1
<1> HIDE DEF T
<1>3. m \in T
  BY <1>1, <1>2, UpTo
<1> QED
  BY <1>3 DEF T

LEMMA RoundsDefined ==
    ASSUME NEW projects, NEW specific
    PROVE  \E g : /\ AllRounds(projects, specific) = g[Cardinality(DOMAIN specific)]
                  /\ \A n \in Nat : Rounds(g, projects, specific, n)
<1> DEFINE Def(g) == [n \in Nat |-> IF n = 0 THEN projects ELSE AddReferenced(g[n - 1], specific)]
           f == [n \in Nat |-> (CHOOSE g : Rounds(g, projects, specific, n))[n]]
<1>1. ASSUME NEW n \in Nat
      PROVE  f[n] = IF n = 0 THEN projects ELSE AddReferenced(f[n - 1], specific)
  <2> DEFINE of(k) == CHOOSE g : Rounds(g, projects, specific, k)
  <2>1. \A k \in Nat : Rounds(of(k), projects, specific, k) /\ f[k] = of(k)[k]
    BY RoundsUpTo
  <2> HIDE DEF of, f
  <2>2. CASE n = 0
    BY <2>1, <2>2 DEF Rounds
  <2>3. CASE n # 0
    <3>1. of(n)[n] = AddReferenced(of(n)[n - 1], specific)
      BY <2>1, <2>3 DEF Rounds
    <3>2. n - 1 \in Nat /\ n - 1 <= n
      BY <2>3
    <3>3. of(n - 1)[n - 1] = of(n)[n - 1]
      <4>1. /\ Rounds(of(n - 1), projects, specific, n - 1)
            /\ Rounds(of(n), projects, specific, n)
        BY <2>1, <3>2
      <4> QED
        BY <3>2, <4>1, RoundsAgree
    <3> QED
      BY <2>1, <2>3, <3>1, <3>2, <3>3
  <2> QED
    BY <2>2, <2>3
<1>2. f = Def(f)
  <2>1. f = [n \in Nat |-> f[n]]
    OBVIOUS
  <2> HIDE DEF f
  <2> QED
    BY <1>1, <2>1
<1>3. AllRounds(projects, specific) = (CHOOSE g : g = Def(g))[Cardinality(DOMAIN specific)]
  BY DEF AllRounds
<1> HIDE DEF f
<1>4. PICK g : g = Def(g) /\ AllRounds(projects, specific) = g[Cardinality(DOMAIN specific)]
  BY <1>2, <1>3
<1>5. \A n \in Nat : g[n] = IF n = 0 THEN projects ELSE AddReferenced(g[n - 1], specific)
  BY <1>4
<1>6. \A n \in Nat : Rounds(g, projects, specific, n)
  BY <1>5 DEF Rounds
<1> QED
  BY <1>4, <1>6

(* What a round adds, and that there are enough rounds.                    *)
Closed(projects, specific) ==
    \A p \in DOMAIN projects :
        (DOMAIN projects[p].read.deps) \cap (DOMAIN specific) \subseteq DOMAIN projects
Drawn(f, projects, specific) ==
    /\ DOMAIN projects \subseteq DOMAIN f
    /\ DOMAIN f \subseteq (DOMAIN projects) \cup (DOMAIN specific)
    /\ \A p \in DOMAIN f : f[p] = Over(projects, specific)[p]

LEMMA OneMore ==
    ASSUME NEW projects, NEW specific, NEW f, Drawn(f, projects, specific)
    PROVE  LET after == AddReferenced(f, specific)
           IN  /\ Drawn(after, projects, specific) /\ DOMAIN f \subseteq DOMAIN after
               /\ Closed(f, specific) => Closed(after, specific)
               /\ ~Closed(f, specific) =>
                    \E q \in DOMAIN specific : q \in DOMAIN after /\ q \notin DOMAIN f
<1> DEFINE needed == UNION {DOMAIN f[p].read.deps : p \in DOMAIN f}
           new == [n \in needed \cap DOMAIN specific |-> specific[n]]
           after == AddReferenced(f, specific)
<1>1. after = Over(f, new)
  BY DEF AddReferenced
<1>2. DOMAIN new = needed \cap DOMAIN specific /\ \A n \in DOMAIN new : new[n] = specific[n]
  OBVIOUS
<1>3. /\ DOMAIN after = (DOMAIN f) \cup (needed \cap DOMAIN specific)
      /\ \A p \in DOMAIN f : after[p] = f[p]
      /\ \A p \in needed \cap DOMAIN specific : p \notin DOMAIN f => after[p] = specific[p]
  <2> HIDE DEF new, after, needed
  <2>1. /\ DOMAIN Over(f, new) = (DOMAIN f) \cup (DOMAIN new)
        /\ \A x \in DOMAIN f : Over(f, new)[x] = f[x]
        /\ \A x \in DOMAIN new : x \notin DOMAIN f => Over(f, new)[x] = new[x]
    BY Laid
  <2> QED
    BY <1>1, <1>2, <2>1
<1> HIDE DEF after
<1>4. \A p \in DOMAIN f : DOMAIN f[p].read.deps \subseteq needed
  OBVIOUS
<1>5. \A q \in needed : \E p \in DOMAIN f : q \in DOMAIN f[p].read.deps
  OBVIOUS
<1> HIDE DEF needed, new
<1>6. Drawn(after, projects, specific)
  <2>1. \A p \in DOMAIN specific : p \notin DOMAIN projects => Over(projects, specific)[p] = specific[p]
    BY Laid
  <2> QED
    BY <1>3, <2>1 DEF Drawn
<1>7. ASSUME Closed(f, specific) PROVE Closed(after, specific)
  <2>1. needed \cap DOMAIN specific \subseteq DOMAIN f
    BY <1>5, <1>7 DEF Closed
  <2>2. DOMAIN after = DOMAIN f /\ \A p \in DOMAIN f : after[p] = f[p]
    BY <1>3, <2>1
  <2> QED
    BY <1>7, <2>2 DEF Closed
<1>8. ASSUME ~Closed(f, specific)
      PROVE  \E q \in DOMAIN specific : q \in DOMAIN after /\ q \notin DOMAIN f
  <2>1. PICK p \in DOMAIN f, q \in DOMAIN specific : q \in DOMAIN f[p].read.deps /\ q \notin DOMAIN f
    BY <1>8 DEF Closed
  <2> QED
    BY <1>3, <1>4, <2>1
<1> QED
  BY <1>3, <1>6, <1>7, <1>8 DEF after

(* As many rounds as there are projects to be added are enough: each but   *)
(* the last adds one at least.                                             *)
LEMMA RoundsEnough ==
    ASSUME NEW projects, NEW specific, IsFiniteSet(DOMAIN specific)
    PROVE  LET result == AllRounds(projects, specific)
           IN  Drawn(result, projects, specific) /\ Closed(result, specific)
<1> DEFINE S == DOMAIN specific
           N == Cardinality(S)
<1>1. N \in Nat
  BY FS_CardinalityType
<1>2. PICK g : AllRounds(projects, specific) = g[N] /\ \A n \in Nat : Rounds(g, projects, specific, n)
  BY RoundsDefined
<1>3. g[0] = projects /\ \A n \in Nat \ {0} : g[n] = AddReferenced(g[n - 1], specific)
  <2>1. Rounds(g, projects, specific, 0)
    BY <1>2
  <2>2. ASSUME NEW n \in Nat \ {0} PROVE g[n] = AddReferenced(g[n - 1], specific)
    <3>1. Rounds(g, projects, specific, n)
      BY <1>2
    <3> QED
      BY <3>1 DEF Rounds
  <2> QED
    BY <2>1, <2>2 DEF Rounds
<1> DEFINE T == {k \in Nat :
                   /\ Drawn(g[k], projects, specific)
                   /\ Closed(g[k], specific) \/ k <= Cardinality(S \cap DOMAIN g[k])}
<1> HIDE DEF S, N, T
<1>t. \A k : k \in T <=>
             /\ k \in Nat /\ Drawn(g[k], projects, specific)
             /\ Closed(g[k], specific) \/ k <= Cardinality(S \cap DOMAIN g[k])
  BY DEF T
<1>4. IsFiniteSet(S) /\ \A R : IsFiniteSet(S \cap R) /\ Cardinality(S \cap R) \in Nat
  BY FS_Subset, FS_CardinalityType DEF S
<1>5. 0 \in T
  <2>1. Drawn(projects, projects, specific)
    <3>1. \A x \in DOMAIN projects : Over(projects, specific)[x] = projects[x]
      BY Laid
    <3> QED
      BY <3>1 DEF Drawn
  <2>2. 0 <= Cardinality(S \cap DOMAIN projects)
    BY <1>4
  <2> QED
    BY <1>3, <1>t, <2>1, <2>2
<1>6. ASSUME NEW k \in 1..N, k - 1 \in T PROVE k \in T
  <2> DEFINE f == g[k - 1]
             after == g[k]
  <2>1. after = AddReferenced(f, specific) /\ k - 1 \in Nat
    BY <1>3
  <2>2. Drawn(f, projects, specific) /\ (Closed(f, specific) \/ k - 1 <= Cardinality(S \cap DOMAIN f))
    BY <1>6, <1>t
  <2> HIDE DEF f, after
  <2>3. /\ Drawn(after, projects, specific) /\ DOMAIN f \subseteq DOMAIN after
        /\ Closed(f, specific) => Closed(after, specific)
        /\ ~Closed(f, specific) => \E q \in S : q \in DOMAIN after /\ q \notin DOMAIN f
    BY <2>1, <2>2, OneMore DEF S
  <2>4. ASSUME ~Closed(f, specific) PROVE k <= Cardinality(S \cap DOMAIN after)
    <3>1. PICK q \in S : q \in DOMAIN after /\ q \notin DOMAIN f
      BY <2>3, <2>4
    <3>2. Cardinality((S \cap DOMAIN f) \cup {q}) = Cardinality(S \cap DOMAIN f) + 1
      BY <1>4, <3>1, FS_AddElement
    <3>3. (S \cap DOMAIN f) \cup {q} \subseteq S \cap DOMAIN after
      BY <2>3, <3>1
    <3>4. Cardinality((S \cap DOMAIN f) \cup {q}) <= Cardinality(S \cap DOMAIN after)
      BY <1>4, <3>3, FS_Subset
    <3>5. k - 1 <= Cardinality(S \cap DOMAIN f)
      BY <2>2, <2>4
    <3> DEFINE a == Cardinality(S \cap DOMAIN f)
               b == Cardinality(S \cap DOMAIN after)
    <3>6. a \in Nat /\ b \in Nat
      BY <1>4, Zenon
    <3>6b. k \in Nat
      BY <1>1
    <3>7. a + 1 <= b
      BY <3>2, <3>4
    <3> HIDE DEF a, b
    <3>8. k - 1 <= a
      BY <3>5 DEF a
    <3>9. k <= b
      BY <3>6, <3>7, <3>8, <3>6b
    <3> QED
      BY <3>9 DEF b
  <2>5. /\ k \in Nat /\ Drawn(g[k], projects, specific)
        /\ Closed(g[k], specific) \/ k <= Cardinality(S \cap DOMAIN g[k])
    BY <2>3, <2>4 DEF after
  <2> QED
    BY <2>5, <1>t
<1>7. N \in T
  BY <1>1, <1>5, <1>6, UpTo
<1>8. ASSUME N <= Cardinality(S \cap DOMAIN g[N]) PROVE Closed(g[N], specific)
  <2>1. Cardinality(S \cap DOMAIN g[N]) <= Cardinality(S)
    BY <1>4, FS_Subset
  <2>2. Cardinality(S \cap DOMAIN g[N]) = Cardinality(S)
    <3>1. Cardinality(S \cap DOMAIN g[N]) \in Nat /\ N = Cardinality(S)
      BY <1>4 DEF N
    <3> QED
      BY <1>1, <1>8, <2>1, <3>1
  <2>3. S = S \cap DOMAIN g[N]
    BY <1>4, <2>2, FS_Subset
  <2> QED
    BY <2>3 DEF Closed, S
<1>9. Drawn(g[N], projects, specific) /\ Closed(g[N], specific)
  BY <1>7, <1>8, <1>t
<1> QED
  BY <1>2, <1>9 DEF N, S
-----------------------------------------------------------------------------
(* The directories of a specification, one after the other.                *)
Adds(g, vs, dirs, ctx, n) ==
    \A k \in 0..n : g[k] = IF k = 0 THEN NothingAdded ELSE AddDirectory(g[k - 1], vs[k], dirs, ctx)

LEMMA AddsUpTo ==
    ASSUME NEW vs, NEW dirs, NEW ctx, NEW n \in Nat PROVE \E g : Adds(g, vs, dirs, ctx, n)
<1> DEFINE T == {k \in Nat : \E g : Adds(g, vs, dirs, ctx, k)}
<1>1. 0 \in T
  <2>1. Adds([k \in {0} |-> NothingAdded], vs, dirs, ctx, 0)
    BY DEF Adds
  <2> QED
    BY <2>1
<1>2. ASSUME NEW k \in 1..n, k - 1 \in T PROVE k \in T
  <2>1. PICK g : Adds(g, vs, dirs, ctx, k - 1)
    BY <1>2
  <2> DEFINE f == [i \in 0..k |-> IF i = k THEN AddDirectory(g[k - 1], vs[k], dirs, ctx) ELSE g[i]]
  <2>2. Adds(f, vs, dirs, ctx, k)
    <3> SUFFICES ASSUME NEW i \in 0..k
                 PROVE  f[i] = IF i = 0 THEN NothingAdded ELSE AddDirectory(f[i - 1], vs[i], dirs, ctx)
      BY DEF Adds
    <3>1. CASE i = k
      BY <3>1
    <3>2. CASE i # k
      <4>1. i \in 0..(k - 1) /\ f[i] = g[i] /\ (i # 0 => f[i - 1] = g[i - 1])
        BY <3>2
      <4> QED
        BY <2>1, <4>1 DEF Adds
    <3> QED
      BY <3>1, <3>2
  <2> QED
    BY <2>2
<1> HIDE DEF T
<1>3. n \in T
  BY <1>1, <1>2, UpTo
<1> QED
  BY <1>3 DEF T

LEMMA AddsAgree ==
    ASSUME NEW vs, NEW dirs, NEW ctx, NEW f, NEW g, NEW m \in Nat, NEW n \in Nat, m <= n,
           Adds(f, vs, dirs, ctx, m), Adds(g, vs, dirs, ctx, n)
    PROVE  f[m] = g[m]
<1> DEFINE T == {k \in Nat : k <= m => f[k] = g[k]}
<1>1. 0 \in T
  BY DEF Adds
<1>2. ASSUME NEW k \in 1..m, k - 1 \in T PROVE k \in T
  <2>1. /\ f[k] = AddDirectory(f[k - 1], vs[k], dirs, ctx)
        /\ g[k] = AddDirectory(g[k - 1], vs[k], dirs, ctx)
    BY DEF Adds
  <2> QED
    BY <1>2, <2>1
<1> HIDE DEF T
<1>3. m \in T
  BY <1>1, <1>2, UpTo
<1> QED
  BY <1>3 DEF T

LEMMA AddsDefined ==
    ASSUME NEW vs, NEW dirs, NEW ctx
    PROVE  \E g : /\ AddDirectories(vs, dirs, ctx) = g[Len(vs)]
                  /\ g[0] = NothingAdded
                  /\ \A n \in Nat \ {0} : g[n] = AddDirectory(g[n - 1], vs[n], dirs, ctx)
<1> DEFINE Def(g) == [n \in Nat |-> IF n = 0 THEN NothingAdded ELSE AddDirectory(g[n - 1], vs[n], dirs, ctx)]
           f == [n \in Nat |-> (CHOOSE g : Adds(g, vs, dirs, ctx, n))[n]]
<1>1. ASSUME NEW n \in Nat
      PROVE  f[n] = IF n = 0 THEN NothingAdded ELSE AddDirectory(f[n - 1], vs[n], dirs, ctx)
  <2> DEFINE of(k) == CHOOSE g : Adds(g, vs, dirs, ctx, k)
  <2>1. \A k \in Nat : Adds(of(k), vs, dirs, ctx, k) /\ f[k] = of(k)[k]
    BY AddsUpTo
  <2> HIDE DEF of, f
  <2>2. CASE n = 0
    BY <2>1, <2>2 DEF Adds
  <2>3. CASE n # 0
    <3>1. of(n)[n] = AddDirectory(of(n)[n - 1], vs[n], dirs, ctx)
      BY <2>1, <2>3 DEF Adds
    <3>2. n - 1 \in Nat /\ n - 1 <= n
      BY <2>3
    <3>3. of(n - 1)[n - 1] = of(n)[n - 1]
      <4>1. Adds(of(n - 1), vs, dirs, ctx, n - 1) /\ Adds(of(n), vs, dirs, ctx, n)
        BY <2>1, <3>2
      <4> QED
        BY <3>2, <4>1, AddsAgree
    <3> QED
      BY <2>1, <2>3, <3>1, <3>2, <3>3
  <2> QED
    BY <2>2, <2>3
<1>2. f = Def(f)
  <2>1. f = [n \in Nat |-> f[n]]
    OBVIOUS
  <2> HIDE DEF f
  <2> QED
    BY <1>1, <2>1
<1>3. AddDirectories(vs, dirs, ctx) = (CHOOSE g : g = Def(g))[Len(vs)]
  BY DEF AddDirectories
<1> HIDE DEF f
<1>4. PICK g : g = Def(g) /\ AddDirectories(vs, dirs, ctx) = g[Len(vs)]
  BY <1>2, <1>3
<1>5. \A n \in Nat : g[n] = IF n = 0 THEN NothingAdded ELSE AddDirectory(g[n - 1], vs[n], dirs, ctx)
  BY <1>4
<1> QED
  BY <1>4, <1>5

-----------------------------------------------------------------------------
(* Where the paths of dependencies come from.                              *)
Hinted(q, ctx) == \E k \in ctx.known : k[1] = q
From(q, names, ctx) == Hinted(q, ctx) \/ \E n \in names : q = AbsoluteName(n, ctx)

LEMMA DependencyFrom ==
    ASSUME NEW n, NEW d, NEW ctx, NEW names, n \in names
    PROVE  From(Dependency(AbsoluteName(n, ctx), d, ctx).path, names, ctx)
<1>1. CASE IsKnown(d, ctx)
  BY <1>1 DEF Dependency, IsKnown, From, Hinted
<1>2. CASE ~IsKnown(d, ctx)
  BY <1>2 DEF Dependency, From
<1> QED
  BY <1>1, <1>2

LEMMA GroupFrom ==
    ASSUME NEW g, NEW ctx, NEW q \in DOMAIN ReadGroup(g, ctx)
    PROVE  From(q, NamesOfGroup(g), ctx)
<1>1. CASE g.kind = "list"
  <2>1. PICK i \in DOMAIN g.of : q = ReadSingle(g.of[i], ctx).path
    BY <1>1 DEF ReadGroup, ReadList
  <2> QED
    BY <1>1, <2>1, DependencyFrom DEF ReadSingle, NamesOfGroup
<1>2. CASE g.kind # "list"
  <2>1. PICK n \in DOMAIN g.of : q = Dependency(AbsoluteName(n, ctx), g.of[n], ctx).path
    BY <1>2 DEF ReadGroup, ReadNames, ByPath
  <2> QED
    BY <1>2, <2>1, DependencyFrom DEF NamesOfGroup
<1> QED
  BY <1>1, <1>2

LEMMA GroupsFrom ==
    ASSUME NEW groups, NEW ctx, NEW q \in DOMAIN ReadGroups(groups, ctx)
    PROVE  \E g \in DOMAIN groups : From(q, NamesOfGroup(groups[g]), ctx)
<1> DEFINE read(g) == IF g \in DOMAIN groups THEN ReadGroup(groups[g], ctx) ELSE <<>>
           private == [p \in DOMAIN read("private") |-> [read("private")[p] EXCEPT !.private = TRUE]]
<1>1. ReadGroups(groups, ctx) = Over(read("public"), private)
  BY DEF ReadGroups
<1>2. q \in DOMAIN read("public") \/ q \in DOMAIN read("private")
  <2>1. DOMAIN private = DOMAIN read("private")
    OBVIOUS
  <2>2. DOMAIN Over(read("public"), private) = (DOMAIN read("public")) \cup (DOMAIN private)
    <3> HIDE DEF read, private
    <3> QED
      BY DEF Over
  <2> QED
    BY <1>1, <2>1, <2>2, Zenon
<1>3. \A g : q \in DOMAIN read(g) => g \in DOMAIN groups /\ q \in DOMAIN ReadGroup(groups[g], ctx)
  BY NoMap
<1> HIDE DEF read
<1> QED
  BY <1>2, <1>3, GroupFrom

LEMMA NodeFrom ==
    ASSUME NEW deps, NEW node, NEW ctx, IsWritten(node),
           NEW q \in DOMAIN AddDependencies(deps, node, ctx), q \notin DOMAIN deps
    PROVE  From(q, NamesIn(node), ctx)
<1>1. CASE node.kind \in {"list", "map"}
  <2>1. q \in DOMAIN ReadGroup(node, ctx)
    <3>1. AddDependencies(deps, node, ctx) \in {Over(ReadGroup(node, ctx), deps), Over(deps, ReadGroup(node, ctx))}
      BY <1>1 DEF AddDependencies, ReadGroup
    <3> QED
      BY <3>1, LaidEither
  <2> QED
    BY <1>1, <2>1, GroupFrom DEF NamesIn
<1>2. CASE node.kind = "groups"
  <2>1. q \in DOMAIN ReadGroups(node.of, ctx)
    <3>1. AddDependencies(deps, node, ctx) = Over(deps, ReadGroups(node.of, ctx))
      BY <1>2 DEF AddDependencies
    <3> QED
      BY <3>1, LaidEither
  <2>2. PICK g \in DOMAIN node.of : From(q, NamesOfGroup(node.of[g]), ctx)
    BY <2>1, GroupsFrom
  <2> QED
    BY <1>2, <2>2 DEF NamesIn, From
<1> QED
  BY <1>1, <1>2 DEF IsWritten

LEMMA DependenciesFrom ==
    ASSUME NEW m, NEW ctx,
           \A k \in {"dependencies", "deps"} :
               IsWritten(Key(m, k, NoDependencies)),
           NEW q \in DOMAIN Dependencies(m, ctx)
    PROVE  From(q, AllNames(m), ctx)
<1> DEFINE first == AddDependencies(<<>>, Key(m, "dependencies", NoDependencies), ctx)
<1>1. CASE q \in DOMAIN first
  <2>1. From(q, NamesIn(Key(m, "dependencies", NoDependencies)), ctx)
    BY <1>1, NoMap, NodeFrom
  <2> QED
    BY <2>1 DEF From, AllNames
<1>2. CASE q \notin DOMAIN first
  <2>1. From(q, NamesIn(Key(m, "deps", NoDependencies)), ctx)
    <3> HIDE DEF first
    <3>1. Dependencies(m, ctx) = AddDependencies(first, Key(m, "deps", NoDependencies), ctx)
      BY DEF Dependencies, first
    <3> QED
      BY <1>2, <3>1, NodeFrom
  <2> QED
    BY <2>1 DEF From, AllNames
<1> QED
  BY <1>1, <1>2
-----------------------------------------------------------------------------
(* What is loaded.                                                         *)
IsContext(ctx) ==
    DOMAIN ctx = {"root_project", "subdir", "relative", "local_deps", "is_local", "defaults",
                  "tree", "known"}

LEMMA ContextsAre ==
    /\ \A tree : IsContext(Context(tree)) /\ IsContext(InPlace(tree))
    /\ \A tree : Context(tree).known = {} /\ InPlace(tree).known = {} /\ Context(tree).subdir = ""
    /\ \A y, ctx : IsContext(ctx) =>
          /\ IsContext(ContextOf(y, ctx)) /\ ContextOf(y, ctx).known = ctx.known
          /\ ContextOf(y, ctx).subdir = ctx.subdir
    /\ \A K, ctx : IsContext(ctx) =>
          IsContext([ctx EXCEPT !.known = K]) /\ [ctx EXCEPT !.known = K].known = K
    /\ \A name, K, ctx : IsContext(ctx) =>
          /\ IsContext([ctx EXCEPT !.subdir = name, !.known = K])
          /\ [ctx EXCEPT !.subdir = name, !.known = K].known = K
BY DEF IsContext, Context, InPlace, ContextOf

LEMMA Loaded ==
    ASSUME NEW y, NEW ctx
    PROVE  /\ DOMAIN LoadProjects(y, ctx) = {AbsoluteName(k, ContextOf(y, ctx)) : k \in Keys(y)}
           /\ \A p \in DOMAIN LoadProjects(y, ctx) : \E k \in Keys(y) :
                /\ AbsoluteName(k, ContextOf(y, ctx)) = p
                /\ LoadProjects(y, ctx)[p]
                     = LoadProject(ProjectMaps(Prepare(y))[k], k, ContextOf(y, ctx))
<1> DEFINE maps == ProjectMaps(Prepare(y))
           c == ContextOf(y, ctx)
           of(k) == LoadProject(maps[k], k, c)
           all == {of(k) : k \in Keys(y)}
<1>1. \A k : of(k).path = AbsoluteName(k, c)
  BY DEF LoadProject, Located
<1>2. LoadProjects(y, ctx) = ByPath(all)
  BY DEF LoadProjects, Keys
<1> HIDE DEF maps, c, of
<1>3. DOMAIN ByPath(all) = {AbsoluteName(k, c) : k \in Keys(y)}
  BY <1>1 DEF ByPath
<1>4. ASSUME NEW p \in DOMAIN ByPath(all)
      PROVE  ByPath(all)[p] \in all /\ ByPath(all)[p].path = p
  <2>1. \E x \in all : x.path = p
    BY DEF ByPath
  <2>2. ByPath(all)[p] = CHOOSE x \in all : x.path = p
    BY DEF ByPath
  <2> QED
    BY <2>1, <2>2
<1>5. ASSUME NEW p \in DOMAIN ByPath(all)
      PROVE  \E k \in Keys(y) : AbsoluteName(k, c) = p /\ ByPath(all)[p] = of(k)
  <2> DEFINE x == ByPath(all)[p]
  <2>1. x \in all /\ x.path = p
    BY <1>4
  <2> HIDE DEF x
  <2>2. PICK k \in Keys(y) : x = of(k)
    BY <2>1
  <2> QED
    BY <1>1, <2>1, <2>2 DEF x
<1> QED
  BY <1>2, <1>3, <1>5 DEF c, of, maps

LEMMA LoadedFinite ==
    ASSUME NEW y, NEW ctx, IsFiniteSet(Keys(y)) PROVE IsFiniteSet(DOMAIN LoadProjects(y, ctx))
<1> DEFINE T == {AbsoluteName(k, ContextOf(y, ctx)) : k \in Keys(y)}
           f == [k \in Keys(y) |-> AbsoluteName(k, ContextOf(y, ctx))]
<1>1. f \in Surjection(Keys(y), T)
  BY DEF Surjection
<1>2. IsFiniteSet(T)
  BY <1>1, FS_Surjection
<1> QED
  BY <1>2, Loaded

(* Nothing that can be refused depends on the local packages known.        *)
LEMMA RefusedAnyway ==
    ASSUME NEW y, NEW ctx, IsContext(ctx), NEW K
    PROVE  LoadThrows(y, [ctx EXCEPT !.known = K]) <=> LoadThrows(y, ctx)
<1> DEFINE c == ContextOf(y, ctx)
           d == ContextOf(y, [ctx EXCEPT !.known = K])
<1>1. /\ c.root_project = d.root_project /\ c.subdir = d.subdir /\ c.relative = d.relative
      /\ c.local_deps = d.local_deps
  BY DEF ContextOf, IsContext
<1> HIDE DEF c, d
<1>2. \A n : Unnamed(n, c) <=> Unnamed(n, d)
  BY <1>1 DEF Unnamed
<1>3. \A n : AbsoluteName(n, c) = AbsoluteName(n, d)
  BY <1>1 DEF AbsoluteName
<1>4. \A m : ProjectThrows(m, c) <=> ProjectThrows(m, d)
  BY <1>1, <1>2, <1>3 DEF ProjectThrows
<1> QED
  BY <1>2, <1>4 DEF LoadThrows, c, d

(* A local package that a project needs is one that was known.             *)
LEMMA LocalsHinted ==
    ASSUME NEW y, NEW ctx, IsContext(ctx), WellFormed(y), ~LoadThrows(y, ctx),
           NEW p \in DOMAIN LoadProjects(y, ctx), NEW q \in DOMAIN LoadProjects(y, ctx)[p].read.deps,
           IsLocal(q)
    PROVE  Hinted(q, ctx)
<1> DEFINE maps == ProjectMaps(Prepare(y))
           c == ContextOf(y, ctx)
<1>1. PICK k \in Keys(y) : LoadProjects(y, ctx)[p] = LoadProject(maps[k], k, c)
  BY Loaded
<1>2. LoadProjects(y, ctx)[p].read.deps = Dependencies(maps[k], c)
  <2>1. \A m, d : LoadProject(m, k, d).read.deps = Dependencies(m, d)
    BY DEF LoadProject, Located, ReadProject
  <2> QED
    BY <1>1, <2>1
<1>3. \A j \in {"dependencies", "deps"} :
          IsWritten(Key(maps[k], j, NoDependencies))
  BY DEF WellFormed, Keys, Range
<1>4. From(q, AllNames(maps[k]), c)
  BY <1>2, <1>3, DependenciesFrom
<1>5. \A n \in AllNames(maps[k]) : ~IsLocal(AbsoluteName(n, c))
  BY DEF LoadThrows, ProjectThrows, Keys
<1>6. c.known = ctx.known
  BY ContextsAre
<1> HIDE DEF maps, c
<1> QED
  BY <1>4, <1>5, <1>6 DEF From, Hinted
-----------------------------------------------------------------------------
(* Whatever directories are added, their local packages need only packages *)
(* that were added before.                                                 *)
HintedIn(projects, known) ==
    \A p \in DOMAIN projects :
        /\ DOMAIN projects[p].read.insertions = Insertions
        /\ \A q \in DOMAIN projects[p].read.deps : IsLocal(q) => \E k \in known : k[1] = q
InOrder(acc) ==
    /\ IsFiniteSet(DOMAIN acc.specific)
    /\ \A k \in acc.known : k[1] \in (DOMAIN acc.all) \cup (DOMAIN acc.specific)
    /\ HintedIn(acc.all, acc.known) /\ HintedIn(acc.specific, acc.known)

LEMMA LoadedHinted ==
    ASSUME NEW y, NEW ctx, IsContext(ctx), WellFormed(y), ~LoadThrows(y, ctx)
    PROVE  HintedIn(LoadProjects(y, ctx), ctx.known)
<1> DEFINE projects == LoadProjects(y, ctx)
<1>1. \A p \in DOMAIN projects : \A q \in DOMAIN projects[p].read.deps : IsLocal(q) => Hinted(q, ctx)
  BY LocalsHinted
<1>2. ASSUME NEW p \in DOMAIN projects PROVE DOMAIN projects[p].read.insertions = Insertions
  <2>1. PICK k \in Keys(y) : projects[p] = LoadProject(ProjectMaps(Prepare(y))[k], k, ContextOf(y, ctx))
    BY Loaded
  <2>2. \A m, c : DOMAIN LoadProject(m, k, c).read.insertions = Insertions
    BY DEF LoadProject, Located, ReadProject
  <2> QED
    BY <2>1, <2>2
<1> HIDE DEF projects
<1> QED
  BY <1>1, <1>2 DEF HintedIn, Hinted, projects

LEMMA LaidHinted ==
    ASSUME NEW f, NEW g, NEW known, HintedIn(f, known), HintedIn(g, known)
    PROVE  HintedIn(Over(f, g), known)
BY LaidEither DEF HintedIn

LEMMA ProjectsInOrder ==
    ASSUME NEW acc, InOrder(acc), NEW sub, IsFiniteSet(DOMAIN sub), HintedIn(sub, acc.known), NEW all
    PROVE  InOrder(AddProjects(acc, sub, all))
<1> DEFINE new == {<<p, KnownVersion(sub[p].read.version)>> : p \in DOMAIN sub}
           next == AddProjects(acc, sub, all)
<1>1. /\ next.known = acc.known \cup new
      /\ next.all = IF all THEN Over(acc.all, sub) ELSE acc.all
      /\ next.specific = IF all THEN acc.specific ELSE Over(acc.specific, sub)
  BY DEF AddProjects
<1>2. \A k \in new : k[1] \in DOMAIN sub
  OBVIOUS
<1> HIDE DEF new, next
<1>3. \A f : HintedIn(f, acc.known) => HintedIn(f, next.known)
  BY <1>1 DEF HintedIn
<1>4. HintedIn(next.all, next.known) /\ HintedIn(next.specific, next.known)
  <2>1. HintedIn(acc.all, next.known) /\ HintedIn(acc.specific, next.known) /\ HintedIn(sub, next.known)
    BY <1>3 DEF InOrder
  <2>2. HintedIn(Over(acc.all, sub), next.known) /\ HintedIn(Over(acc.specific, sub), next.known)
    BY <2>1, LaidHinted
  <2> QED
    BY <1>1, <2>1, <2>2
<1>5. /\ DOMAIN Over(acc.all, sub) = (DOMAIN acc.all) \cup (DOMAIN sub)
      /\ DOMAIN Over(acc.specific, sub) = (DOMAIN acc.specific) \cup (DOMAIN sub)
  BY DEF Over
<1>6. IsFiniteSet(DOMAIN next.specific)
  <2>1. IsFiniteSet((DOMAIN acc.specific) \cup (DOMAIN sub))
    BY FS_Union DEF InOrder
  <2> QED
    BY <1>1, <1>5, <2>1 DEF InOrder
<1>7. \A k \in next.known : k[1] \in (DOMAIN next.all) \cup (DOMAIN next.specific)
  <2>1. ASSUME NEW k \in next.known PROVE k[1] \in (DOMAIN acc.all) \cup (DOMAIN acc.specific) \cup (DOMAIN sub)
    BY <1>1, <1>2 DEF InOrder
  <2> QED
    BY <1>1, <1>5, <2>1
<1> QED
  BY <1>4, <1>6, <1>7 DEF InOrder, next

LEMMA AddedInOrder ==
    ASSUME NEW y \in Specifications, NEW ctx, IsContext(ctx), ~ConfigThrows(y, SubDirectories, ctx)
    PROVE  InOrder(AddDirectories(Directories(y), SubDirectories, ctx))
<1> DEFINE vs == Directories(y)
           N == Len(vs)
<1>1. vs \in Seq(ToSet(vs)) /\ N \in Nat /\ DOMAIN vs = 1..N
  BY SpecificationsAssumption
<1>2. PICK g : /\ AddDirectories(vs, SubDirectories, ctx) = g[N]
               /\ g[0] = NothingAdded
               /\ \A n \in Nat \ {0} : g[n] = AddDirectory(g[n - 1], vs[n], SubDirectories, ctx)
  BY AddsDefined
<1> DEFINE T == {n \in Nat : InOrder(g[n])}
<1>3. 0 \in T
  <2>1. InOrder(NothingAdded)
    BY FS_EmptySet, NoMap DEF InOrder, NothingAdded, HintedIn
  <2> QED
    BY <1>2, <2>1
<1>4. ASSUME NEW n \in 1..N, n - 1 \in T PROVE n \in T
  <2> DEFINE acc == g[n - 1]
             w == vs[n]
             c == [ctx EXCEPT !.subdir = w.name]
             d == [ctx EXCEPT !.subdir = w.name, !.known = acc.known]
             y2 == SubDirectories[w.dir]
             sub == LoadProjects(y2, d)
  <2>1. n \in Nat \ {0} /\ g[n] = AddDirectory(acc, w, SubDirectories, ctx) /\ InOrder(acc)
    BY <1>2, <1>4
  <2>2. CASE w.dir \notin DOMAIN SubDirectories
    BY <2>1, <2>2 DEF AddDirectory
  <2>3. CASE w.dir \in DOMAIN SubDirectories
    <3>1. g[n] = AddProjects(acc, sub, w.all)
      BY <2>1, <2>3 DEF AddDirectory
    <3>2. w \in ToSet(vs)
      BY <1>1 DEF ToSet
    <3>3. ~LoadThrows(y2, c)
      BY <2>3, <3>2 DEF ConfigThrows
    <3>4. IsContext(c) /\ IsContext(d) /\ d.known = acc.known /\ d = [c EXCEPT !.known = acc.known]
      BY DEF IsContext
    <3>5. y2 \in Range(SubDirectories)
      BY <2>3 DEF Range
    <3>6. WellFormed(y2) /\ IsFiniteSet(Keys(y2))
      BY <3>5, SpecificationsAssumption DEF Keys
    <3> HIDE DEF acc, c, d, y2
    <3>7. ~LoadThrows(y2, d)
      BY <3>3, <3>4, RefusedAnyway
    <3>8. HintedIn(sub, acc.known)
      BY <3>4, <3>6, <3>7, LoadedHinted
    <3>9. IsFiniteSet(DOMAIN sub)
      BY <3>6, LoadedFinite
    <3> HIDE DEF sub
    <3>10. InOrder(g[n])
      BY <2>1, <3>1, <3>8, <3>9, ProjectsInOrder
    <3> QED
      BY <2>1, <3>10
  <2> QED
    BY <2>2, <2>3
<1> HIDE DEF T
<1>5. N \in T
  BY <1>1, <1>3, <1>4, UpTo
<1> QED
  BY <1>2, <1>5 DEF T

(* The same of all that is offered to a specification that is built.       *)
LEMMA OfferedHinted ==
    ASSUME NEW y \in Specifications, NEW ctx, IsContext(ctx), ~ConfigThrows(y, SubDirectories, ctx)
    PROVE  LET added == AddDirectories(Directories(y), SubDirectories, ctx)
               own == WithOwn(y, ctx, added)
           IN  /\ IsFiniteSet(DOMAIN added.specific)
               /\ Offered(y, ctx) = Over(own, added.specific)
               /\ HintedIn(Offered(y, ctx), added.known)
               /\ \A k \in added.known : k[1] \in DOMAIN Offered(y, ctx)
<1> DEFINE added == AddDirectories(Directories(y), SubDirectories, ctx)
           d == [ctx EXCEPT !.known = added.known]
           mine == LoadProjects(y, d)
           own == WithOwn(y, ctx, added)
<1>1. InOrder(added)
  BY AddedInOrder
<1>2. own = Over(added.all, mine) /\ Offered(y, ctx) = Over(own, added.specific)
  BY DEF WithOwn, Offered
<1>3. IsContext(d) /\ d.known = added.known
  BY ContextsAre
<1>4. ~LoadThrows(y, d)
  BY RefusedAnyway DEF ConfigThrows
<1>5. WellFormed(y)
  BY SpecificationsAssumption
<1> HIDE DEF added, d
<1>6. HintedIn(mine, added.known)
  BY <1>3, <1>4, <1>5, LoadedHinted
<1> HIDE DEF mine, own
<1>7. HintedIn(Offered(y, ctx), added.known)
  <2>1. HintedIn(own, added.known)
    BY <1>1, <1>2, <1>6, LaidHinted DEF InOrder
  <2> QED
    BY <1>1, <1>2, <2>1, LaidHinted DEF InOrder
<1>8. (DOMAIN added.all) \cup (DOMAIN added.specific) \subseteq DOMAIN Offered(y, ctx)
  <2>1. DOMAIN added.all \subseteq DOMAIN own
    BY <1>2 DEF Over
  <2> QED
    BY <1>2, <2>1 DEF Over
<1> QED
  BY <1>1, <1>2, <1>7, <1>8 DEF added, own, InOrder
-----------------------------------------------------------------------------
(* Packages that are built in place.                                       *)
Met(projects) ==
    \A p \in DOMAIN projects : \A q \in DOMAIN projects[p].read.deps :
        ~IsLocal(q) /\ (~IsAbsolute(q) => q \in DOMAIN projects /\ projects[q].name = q)
AllThere(packages) ==
    \A p \in DOMAIN packages : \A d \in DOMAIN packages[p] : IsLocal(d) => d \in DOMAIN packages

LEMMA PackagesThere ==
    ASSUME NEW projects, Met(projects) PROVE AllThere(LocalPackages(Here, projects))
<1> DEFINE named(p) == PackageName(Here, projects[p])
           packages == LocalPackages(Here, projects)
           names == {named(p) : p \in DOMAIN projects}
           of(name) == CHOOSE p \in DOMAIN projects : named(p) = name
<1>1. packages = [name \in names |-> LocalDependencies(Here, projects[of(name)])]
  BY DEF LocalPackages
<1> HIDE DEF packages
<1> SUFFICES ASSUME NEW name \in names, NEW d \in DOMAIN LocalDependencies(Here, projects[of(name)]),
                    IsLocal(d)
             PROVE  d \in names
  BY <1>1 DEF AllThere, packages
<1> DEFINE o == of(name)
<1>2. o \in DOMAIN projects
  <2>1. \E p \in DOMAIN projects : named(p) = name
    OBVIOUS
  <2> HIDE DEF named
  <2> QED
    BY <2>1
<1> HIDE DEF o
<1> DEFINE deps == projects[o].read.deps
           relative == {q \in DOMAIN deps : ~IsAbsolute(q)}
           others == [q \in (DOMAIN deps \ relative) |-> deps[q]]
           moved == [q \in {Here \o r : r \in relative} |->
                        LocalDependency(Here, deps[CHOOSE r \in relative : Here \o r = q])]
<1>3. LocalDependencies(Here, projects[o]) = Over(others, moved)
  BY DEF LocalDependencies
<1>4. DOMAIN others = DOMAIN deps \ relative /\ DOMAIN moved = {Here \o r : r \in relative}
  OBVIOUS
<1>5. d \in DOMAIN others \/ d \in DOMAIN moved
  <2>1. d \in DOMAIN Over(others, moved)
    BY <1>3 DEF o
  <2> HIDE DEF others, moved
  <2> QED
    BY <2>1, LaidEither
<1>6. d \notin DOMAIN deps
  BY <1>2 DEF Met
<1>7. PICK r \in relative : d = Here \o r
  BY <1>4, <1>5, <1>6
<1>8. r \in DOMAIN projects /\ projects[r].name = r
  BY <1>2 DEF Met
<1> QED
  BY <1>7, <1>8 DEF PackageName

(* A specification that was rewritten needs nothing but absolute names.    *)
Plain(y) ==
    /\ Directories(y) = <<>> /\ WellFormed(y)
    /\ \A m \in Range(ProjectMaps(Prepare(y))) : \A n \in AllNames(m) :
          n \in DOMAIN Elements /\ IsAbsolute(Elements[n])

LEMMA NothingToAdd ==
    ASSUME NEW y, NEW dirs, NEW ctx, Directories(y) = <<>>, NEW d, d = [ctx EXCEPT !.known = {}]
    PROVE  /\ DOMAIN LoadConfig(y, dirs, ctx) = DOMAIN LoadProjects(y, d)
           /\ \A p \in DOMAIN LoadProjects(y, d) : LoadConfig(y, dirs, ctx)[p] = LoadProjects(y, d)[p]
<1> DEFINE own == LoadProjects(y, d)
           with == WithOwn(y, ctx, NothingAdded)
<1>1. AddDirectories(<<>>, dirs, ctx) = NothingAdded
  <2> DEFINE vs == <<>>
  <2>1. Len(vs) = 0
    OBVIOUS
  <2> HIDE DEF vs
  <2>2. \E g : AddDirectories(vs, dirs, ctx) = g[Len(vs)] /\ g[0] = NothingAdded
    BY AddsDefined
  <2> QED
    BY <2>1, <2>2 DEF vs
<1>2. LoadConfig(y, dirs, ctx) = AllRounds(with, <<>>)
  <2>1. LoadConfig(y, dirs, ctx) = AllRounds(with, NothingAdded.specific)
    BY <1>1 DEF LoadConfig
  <2> QED
    BY <2>1 DEF NothingAdded
<1>3. with = Over(<<>>, own)
  BY DEF WithOwn, NothingAdded
<1> HIDE DEF own, with
<1>4. DOMAIN with = DOMAIN own /\ \A p \in DOMAIN own : with[p] = own[p]
  <2>1. DOMAIN Over(<<>>, own) = (DOMAIN <<>>) \cup (DOMAIN own)
    BY DEF Over
  <2>2. \A x \in DOMAIN own : x \notin DOMAIN <<>> => Over(<<>>, own)[x] = own[x]
    BY Laid
  <2> QED
    BY <1>3, <2>1, <2>2, NoMap
<1>5. Drawn(AllRounds(with, <<>>), with, <<>>)
  BY RoundsEnough, FS_EmptySet, NoMap
<1>6. \A p \in DOMAIN with : Over(with, <<>>)[p] = with[p]
  BY Laid
<1>7. DOMAIN LoadConfig(y, dirs, ctx) = DOMAIN own
  BY <1>2, <1>4, <1>5, NoMap DEF Drawn
<1>8. ASSUME NEW p \in DOMAIN own PROVE LoadConfig(y, dirs, ctx)[p] = own[p]
  BY <1>2, <1>4, <1>5, <1>6, <1>7 DEF Drawn
<1> QED
  BY <1>7, <1>8 DEF own

AtTop(ctx) == ctx.subdir = ""
LEMMA PlainNeeds ==
    ASSUME NEW y, Plain(y), NEW ctx, IsContext(ctx), AtTop(ctx),
           NEW d, d = [ctx EXCEPT !.known = {}],
           ~ConfigThrows(y, SubDirectories, ctx)
    PROVE  LET projects == LoadConfig(y, SubDirectories, ctx)
           IN  \A p \in DOMAIN projects : \A q \in DOMAIN projects[p].read.deps :
                  IsAbsolute(q) /\ HasName(q) /\ ~IsLocal(q)
<1> DEFINE own == LoadProjects(y, d)
           projects == LoadConfig(y, SubDirectories, ctx)
           c == ContextOf(y, d)
<1>1. DOMAIN projects = DOMAIN own /\ \A p \in DOMAIN own : projects[p] = own[p]
  BY NothingToAdd DEF Plain
<1>2. /\ IsContext(d) /\ d.known = {} /\ ~LoadThrows(y, d) /\ d.subdir = ""
      /\ c.subdir = "" /\ c.known = {}
  <2>1. IsContext(d) /\ d.known = {} /\ d.subdir = ""
    BY DEF IsContext, AtTop
  <2>2. c.subdir = "" /\ c.known = {}
    BY <2>1 DEF IsContext, ContextOf
  <2> QED
    BY <2>1, <2>2, RefusedAnyway DEF ConfigThrows
<1> HIDE DEF c, projects
<1>3. ASSUME NEW p \in DOMAIN own, NEW q \in DOMAIN own[p].read.deps
      PROVE  IsAbsolute(q) /\ HasName(q) /\ ~IsLocal(q)
  <2> DEFINE maps == ProjectMaps(Prepare(y))
  <2>1. PICK k \in Keys(y) : own[p] = LoadProject(maps[k], k, c)
    BY Loaded DEF c
  <2>2. own[p].read.deps = Dependencies(maps[k], c)
    <3>1. \A m, e : LoadProject(m, k, e).read.deps = Dependencies(m, e)
      BY DEF LoadProject, Located, ReadProject
    <3> QED
      BY <2>1, <3>1
  <2>3. maps[k] \in Range(maps)
    BY DEF Keys, Range
  <2>4. \A j \in {"dependencies", "deps"} :
            IsWritten(Key(maps[k], j, NoDependencies))
    BY <2>3 DEF WellFormed, Plain
  <2>5. From(q, AllNames(maps[k]), c)
    BY <2>2, <2>4, DependenciesFrom
  <2>6. PICK n \in AllNames(maps[k]) : q = AbsoluteName(n, c)
    BY <1>2, <2>5 DEF From, Hinted
  <2>7. n \in DOMAIN Elements /\ IsAbsolute(Elements[n])
    BY <2>3 DEF Plain
  <2>8. q = Elements[n]
    BY <1>2, <2>6, <2>7 DEF AbsoluteName
  <2>9. ~IsLocal(q)
    <3> HIDE DEF own
    <3>1. ~Hinted(q, d)
      BY <1>2 DEF Hinted
    <3> QED
      BY <1>2, <3>1, LocalsHinted DEF Plain, own
  <2> QED
    BY <2>7, <2>8, <2>9 DEF HasName
<1> QED
  BY <1>1, <1>3 DEF projects
-----------------------------------------------------------------------------
(* What is written of a project.                                           *)
PlainNames ==
    {"license", "output_name", "type", "rc_enabled", "prefer_binaries", "empty", "cxx_standard",
     "root_directory", "header_only"}
RestKeys ==
    {"source", "version", "name", "library_type", "only", "files", "exclude_from_package",
     "include_directories", "options", "patch", "dependencies"}

LEMMA KeysOfRest == \A p : DOMAIN Rest(p) = RestKeys /\ DOMAIN NotWritten(p) = RestKeys
BY DEF Rest, NotWritten, RestKeys

LEMMA PlainKeysFirst ==
    /\ \A k \in DOMAIN PlainKeys : PlainKeys[k][1] \in PlainNames
    /\ \A j, k \in DOMAIN PlainKeys : PlainKeys[j][1] = PlainKeys[k][1] => j = k
<1>1. DOMAIN PlainKeys = {"license", "output_name", "type", "rc_enabled", "prefer_binaries", "empty",
                          "standard", "root_directory", "header_only"}
  BY DEF PlainKeys
<1>2. /\ PlainKeys["license"][1] = "license" /\ PlainKeys["output_name"][1] = "output_name"
      /\ PlainKeys["type"][1] = "type" /\ PlainKeys["rc_enabled"][1] = "rc_enabled"
      /\ PlainKeys["prefer_binaries"][1] = "prefer_binaries" /\ PlainKeys["empty"][1] = "empty"
      /\ PlainKeys["standard"][1] = "cxx_standard" /\ PlainKeys["root_directory"][1] = "root_directory"
      /\ PlainKeys["header_only"][1] = "header_only"
  BY DEF PlainKeys
<1> QED
  BY <1>1, <1>2 DEF PlainNames

LEMMA KeysApart ==
    /\ PlainNames \cap RestKeys = {} /\ PlainNames \cap Insertions = {} /\ Insertions \cap RestKeys = {}
BY DEF PlainNames, RestKeys, Insertions

LEMMA SavedDomains ==
    ASSUME NEW p
    PROVE  /\ DOMAIN SavePlain(p.plain) \subseteq PlainNames
           /\ DOMAIN SaveInsertions(p.insertions) \subseteq DOMAIN p.insertions
           /\ DOMAIN SaveRest(p) = {k \in RestKeys : ~NotWritten(p)[k]}
<1>1. DOMAIN SavePlain(p.plain) \subseteq PlainNames
  BY PlainKeysFirst DEF SavePlain
<1>2. DOMAIN SaveInsertions(p.insertions) \subseteq DOMAIN p.insertions
  BY DEF SaveInsertions, NotEmpty
<1>3. DOMAIN SaveRest(p) = {k \in RestKeys : ~NotWritten(p)[k]}
  BY KeysOfRest DEF SaveRest, NotEmpty
<1> QED
  BY <1>1, <1>2, <1>3

LEMMA SavedKeys ==
    ASSUME NEW p, DOMAIN p.insertions = Insertions
    PROVE  /\ IsMap(SaveProject(p))
           /\ DOMAIN SaveProject(p) \subseteq PlainNames \cup Insertions \cup RestKeys
           /\ \A k \in RestKeys : /\ k \in DOMAIN SaveProject(p) <=> ~NotWritten(p)[k]
                                  /\ ~NotWritten(p)[k] => SaveProject(p)[k] = Rest(p)[k]
           /\ \A k \in Insertions : /\ k \in DOMAIN SaveProject(p) <=> k \in DOMAIN SaveInsertions(p.insertions)
                                    /\ k \in DOMAIN SaveInsertions(p.insertions) =>
                                          SaveProject(p)[k] = SaveInsertions(p.insertions)[k]
           /\ \A k \in PlainNames : /\ k \in DOMAIN SaveProject(p) <=> k \in DOMAIN SavePlain(p.plain)
                                    /\ k \in DOMAIN SavePlain(p.plain) =>
                                          SaveProject(p)[k] = SavePlain(p.plain)[k]
<1> DEFINE plain == SavePlain(p.plain)
           ins == SaveInsertions(p.insertions)
           rest == SaveRest(p)
           inner == Over(ins, rest)
           saved == SaveProject(p)
<1>1. /\ DOMAIN plain \subseteq PlainNames /\ DOMAIN ins \subseteq Insertions
      /\ DOMAIN rest = {k \in RestKeys : ~NotWritten(p)[k]}
  BY SavedDomains
<1>2. \A k \in RestKeys : ~NotWritten(p)[k] => rest[k] = Rest(p)[k]
  BY KeysOfRest, WhatIsFull DEF SaveRest
<1>3. saved = Over(plain, inner)
  BY DEF SaveProject
<1> HIDE DEF plain, ins, rest, saved
<1>4. /\ DOMAIN inner = (DOMAIN ins) \cup (DOMAIN rest)
      /\ \A x \in DOMAIN ins : inner[x] = ins[x]
      /\ \A x \in DOMAIN rest : x \notin DOMAIN ins => inner[x] = rest[x]
  BY Laid
<1> HIDE DEF inner
<1>5. /\ DOMAIN saved = (DOMAIN plain) \cup (DOMAIN inner)
      /\ \A x \in DOMAIN plain : saved[x] = plain[x]
      /\ \A x \in DOMAIN inner : x \notin DOMAIN plain => saved[x] = inner[x]
  <2>1. /\ DOMAIN Over(plain, inner) = (DOMAIN plain) \cup (DOMAIN inner)
        /\ \A x \in DOMAIN plain : Over(plain, inner)[x] = plain[x]
        /\ \A x \in DOMAIN inner : x \notin DOMAIN plain => Over(plain, inner)[x] = inner[x]
    BY Laid
  <2> QED
    BY <1>3, <2>1
<1>6. IsMap(saved)
  BY <1>3, LaidIsMap
<1>7. \A k \in RestKeys : /\ k \in DOMAIN saved <=> ~NotWritten(p)[k]
                          /\ ~NotWritten(p)[k] => saved[k] = Rest(p)[k]
  BY <1>1, <1>2, <1>4, <1>5, KeysApart
<1>8. \A k \in Insertions : /\ k \in DOMAIN saved <=> k \in DOMAIN ins
                            /\ k \in DOMAIN ins => saved[k] = ins[k]
  BY <1>1, <1>4, <1>5, KeysApart
<1>9. \A k \in PlainNames : /\ k \in DOMAIN saved <=> k \in DOMAIN plain
                            /\ k \in DOMAIN plain => saved[k] = plain[k]
  BY <1>1, <1>4, <1>5, KeysApart
<1>10. DOMAIN saved \subseteq PlainNames \cup Insertions \cup RestKeys
  BY <1>1, <1>4, <1>5
<1> QED
  BY <1>6, <1>7, <1>8, <1>9, <1>10 DEF saved, ins, plain

(* Nothing is shared in a specification that was written: it is prepared   *)
(* already.                                                                *)
LEMMA Prepared ==
    ASSUME NEW P, IsMap(P), \A k \in DOMAIN P : IsMap(P[k])
    PROVE  LET y == [projects |-> P] IN Prepare(y) = y /\ ProjectMaps(y) = P /\ Directories(y) = <<>>
<1> DEFINE y == [projects |-> P]
           common == Key(y, "common_settings", <<>>)
           root == Without(y, {"common_settings"})
           share(p, from) == Over(MergeInsertions(p, from), RemoveInsertions(from))
           inherited == [k \in {"source", "version"} \cap DOMAIN root |-> root[k]]
<1>1. DOMAIN y = {"projects"} /\ y.projects = P
  OBVIOUS
<1>2. common = <<>>
  BY <1>1 DEF Key
<1>3. root = y
  BY <1>1 DEF Without
<1>4. RemoveInsertions(y) = y
  BY <1>1 DEF RemoveInsertions, Insertions
<1>5. inherited = <<>>
  <2>1. IsMap(inherited) /\ DOMAIN inherited = {}
    BY <1>3 DEF IsMap
  <2> HIDE DEF inherited
  <2> QED
    BY <2>1, NoMap
<1>6. ASSUME NEW from, (DOMAIN from) \cap Insertions = {}, NEW p, IsMap(p)
      PROVE  MergeInsertions(p, from) = p
  <2> DEFINE ours == [k \in (DOMAIN from \cap Insertions) |-> from[k] \o Key(p, k, <<>>)]
  <2>1. IsMap(ours) /\ DOMAIN ours = {}
    BY <1>6 DEF IsMap
  <2>2. MergeInsertions(p, from) = Over(ours, p)
    BY DEF MergeInsertions
  <2> HIDE DEF ours
  <2>3. ours = <<>>
    BY <2>1, NoMap
  <2> QED
    BY <1>6, <2>2, <2>3, LaidNothing
<1>7. RemoveInsertions(<<>>) = <<>>
  <2>1. IsMap(RemoveInsertions(<<>>)) /\ DOMAIN RemoveInsertions(<<>>) = {}
    BY NoMap DEF IsMap, RemoveInsertions
  <2> QED
    BY <2>1, NoMap
<1>8. ASSUME NEW p, IsMap(p)
      PROVE  Over(MergeInsertions(share(p, common), root), inherited) = p
  <2>1. share(p, common) = p
    BY <1>2, <1>6, <1>7, <1>8, NoMap, LaidNothing
  <2>2. MergeInsertions(p, root) = p
    BY <1>1, <1>3, <1>6, <1>8 DEF Insertions
  <2> QED
    BY <1>5, <1>8, <2>1, <2>2, LaidNothing
<1> DEFINE all == [n \in DOMAIN P |-> Over(MergeInsertions(share(P[n], common), root), inherited)]
<1>9. Prepare(y) = [RemoveInsertions(root) EXCEPT !.projects =
                       [n \in DOMAIN @ |-> Over(MergeInsertions(share(@[n], common), root), inherited)]]
  BY <1>1 DEF Prepare
<1>10. Prepare(y) = [RemoveInsertions(root) EXCEPT !.projects = all]
  BY <1>1, <1>3, <1>4, <1>9
<1>11. all = P
  <2>1. P = [n \in DOMAIN P |-> P[n]]
    BY DEF IsMap
  <2> HIDE DEF share, common, root, inherited
  <2> QED
    BY <1>8, <2>1
<1>12. Prepare(y) = y
  <2> HIDE DEF all, root
  <2> QED
    BY <1>1, <1>3, <1>4, <1>10, <1>11
<1>13. ProjectMaps(y) = P /\ Directories(y) = <<>>
  BY <1>1 DEF ProjectMaps, Directories, Key
<1> QED
  BY <1>12, <1>13
-----------------------------------------------------------------------------
(* A specification that was written needs absolute names only.             *)
Inserts(projects) == \A p \in DOMAIN projects : DOMAIN projects[p].read.insertions = Insertions

LEMMA NamedAgain == \A path : HasName(path) => NameOf(path) \in DOMAIN Elements /\ Elements[NameOf(path)] = path
BY DEF HasName, NameOf

LEMMA NamesSaved ==
    ASSUME NEW deps, NEW n \in NamesIn(SaveDependencies(deps))
    PROVE  \E q \in DOMAIN deps : n = NameOf(q)
<1> DEFINE node == SaveDependencies(deps)
<1>1. node.kind = "groups" /\ DOMAIN node.of = {"private", "public"}
      /\ \A g \in DOMAIN node.of : node.of[g] = SaveGroup(deps, g = "private")
  BY DEF SaveDependencies
<1> HIDE DEF node
<1>2. PICK g \in DOMAIN node.of : n \in NamesOfGroup(SaveGroup(deps, g = "private"))
  BY <1>1 DEF NamesIn, node
<1>3. \A private : \A x \in NamesOfGroup(SaveGroup(deps, private)) :
          \E q \in InGroup(deps, private) : x = NameOf(q)
  BY DEF NamesOfGroup, SaveGroup
<1> QED
  BY <1>2, <1>3 DEF InGroup

LEMMA WrittenKeys ==
    ASSUME NEW r, DOMAIN r.insertions = Insertions
    PROVE  /\ Key(SaveProject(r), "dependencies", NoDependencies)
                = IF r.deps = <<>> THEN NoDependencies ELSE SaveDependencies(r.deps)
           /\ Key(SaveProject(r), "deps", NoDependencies) = NoDependencies
<1>1. "dependencies" \in RestKeys /\ "deps" \notin PlainNames \cup Insertions \cup RestKeys
  BY DEF RestKeys, PlainNames, Insertions
<1>2. (NotWritten(r)["dependencies"] <=> r.deps = <<>>) /\ Rest(r)["dependencies"] = SaveDependencies(r.deps)
  BY DEF NotWritten, Rest
<1> QED
  BY <1>1, <1>2, SavedKeys DEF Key

LEMMA SavedWritten == IsWritten(NoDependencies) /\ \A deps : IsWritten(SaveDependencies(deps))
<1>1. IsWritten(NoDependencies)
  <2>1. <<>> \in Seq(ToSet(<<>>))
    OBVIOUS
  <2> QED
    BY <2>1 DEF IsWritten, IsList, NoDependencies
<1>2. ASSUME NEW deps PROVE IsWritten(SaveDependencies(deps))
  <2> DEFINE node == SaveDependencies(deps)
  <2>1. /\ node.kind = "groups" /\ DOMAIN node.of = {"private", "public"}
        /\ \A g \in DOMAIN node.of : node.of[g] = SaveGroup(deps, g = "private")
    BY DEF SaveDependencies
  <2>2. \A private : SaveGroup(deps, private).kind = "map"
    BY DEF SaveGroup
  <2> HIDE DEF node
  <2>3. \A g \in DOMAIN node.of : IsList(node.of[g])
    BY <2>1, <2>2 DEF IsList
  <2> QED
    BY <2>1, <2>3 DEF IsWritten, IsList, node
<1> QED
  BY <1>1, <1>2

LEMMA StrictPlain ==
    ASSUME NEW projects, StrictNames(projects), Inserts(projects) PROVE Plain(SaveConfig(projects))
<1> DEFINE key(p) == IF p # <<>> THEN NameOf(p)
                     ELSE IF projects[p].read.name # "" THEN projects[p].read.name ELSE "name0"
           of(k) == CHOOSE p \in DOMAIN projects : key(p) = k
           P == [k \in {key(p) : p \in DOMAIN projects} |-> SaveProject(projects[of(k)].read)]
           y == SaveConfig(projects)
<1>1. y = [projects |-> P]
  BY DEF SaveConfig
<1>2. ASSUME NEW k \in DOMAIN P
      PROVE  \E p \in DOMAIN projects : P[k] = SaveProject(projects[p].read)
  <2>1. \E p \in DOMAIN projects : key(p) = k
    OBVIOUS
  <2>2. P[k] = SaveProject(projects[of(k)].read)
    OBVIOUS
  <2> HIDE DEF key, P
  <2> QED
    BY <2>1, <2>2
<1>3. IsMap(P)
  <2> DEFINE value(k) == SaveProject(projects[of(k)].read)
  <2> HIDE DEF key, value
  <2>1. P = [k \in {key(p) : p \in DOMAIN projects} |-> value(k)]
    BY DEF value
  <2> QED
    BY <2>1 DEF IsMap
<1> HIDE DEF P, y
<1>4. \A k \in DOMAIN P : IsMap(P[k])
  BY <1>2, SavedKeys DEF Inserts
<1>5. Prepare(y) = y /\ ProjectMaps(y) = P /\ Directories(y) = <<>>
  BY <1>1, <1>3, <1>4, Prepared
<1>6. ASSUME NEW m \in Range(P)
      PROVE  /\ \A j \in {"dependencies", "deps"} :
                    IsWritten(Key(m, j, NoDependencies))
             /\ \A n \in AllNames(m) : n \in DOMAIN Elements /\ IsAbsolute(Elements[n])
  <2>1. PICK p \in DOMAIN projects : m = SaveProject(projects[p].read)
    BY <1>2 DEF Range
  <2> DEFINE r == projects[p].read
  <2>2. DOMAIN r.insertions = Insertions /\ \A q \in DOMAIN r.deps : IsAbsolute(q) /\ HasName(q)
    BY DEF Inserts, StrictNames
  <2> HIDE DEF r
  <2>3. /\ Key(m, "dependencies", NoDependencies)
             = IF r.deps = <<>> THEN NoDependencies ELSE SaveDependencies(r.deps)
        /\ Key(m, "deps", NoDependencies) = NoDependencies
    BY <2>1, <2>2, WrittenKeys DEF r
  <2>4. IsWritten(NoDependencies) /\ IsWritten(SaveDependencies(r.deps))
    BY SavedWritten
  <2>5. NamesIn(NoDependencies) = {}
    BY NoMap DEF NamesIn, NamesOfGroup, NoDependencies
  <2>6. \A n \in AllNames(m) : n \in NamesIn(SaveDependencies(r.deps))
    BY <2>3, <2>5 DEF AllNames
  <2>7. \A n \in AllNames(m) : n \in DOMAIN Elements /\ IsAbsolute(Elements[n])
    BY <2>2, <2>6, NamesSaved, NamedAgain
  <2> QED
    BY <2>3, <2>4, <2>7
<1> QED
  BY <1>5, <1>6 DEF Plain, WellFormed, y

LEMMA DrawnMet ==
    ASSUME NEW y \in Specifications, NEW tree, ~ConfigThrows(y, SubDirectories, InPlace(tree)),
           NeedsMet(Offered(y, InPlace(tree)))
    PROVE  Met(LoadConfig(y, SubDirectories, InPlace(tree)))
<1> DEFINE ctx == InPlace(tree)
           added == AddDirectories(Directories(y), SubDirectories, ctx)
           own == WithOwn(y, ctx, added)
           offered == Offered(y, ctx)
           projects == LoadConfig(y, SubDirectories, ctx)
<1>1. projects = AllRounds(own, added.specific)
  BY DEF LoadConfig
<1>2. IsContext(ctx)
  BY ContextsAre
<1>3. /\ IsFiniteSet(DOMAIN added.specific) /\ offered = Over(own, added.specific)
      /\ HintedIn(offered, added.known) /\ \A k \in added.known : k[1] \in DOMAIN offered
  BY <1>2, OfferedHinted
<1> HIDE DEF added, own, offered, projects
<1>4. Drawn(projects, own, added.specific) /\ Closed(projects, added.specific)
  BY <1>1, <1>3, RoundsEnough
<1>5. /\ DOMAIN offered = (DOMAIN own) \cup (DOMAIN added.specific)
      /\ \A p \in DOMAIN projects : p \in DOMAIN offered /\ projects[p] = offered[p]
  BY <1>3, <1>4 DEF Drawn, Over
<1>6. NeedsMet(offered)
  BY DEF offered
<1> SUFFICES ASSUME NEW p \in DOMAIN projects, NEW q \in DOMAIN projects[p].read.deps
             PROVE  ~IsLocal(q) /\ (~IsAbsolute(q) => q \in DOMAIN projects /\ projects[q].name = q)
  BY DEF Met, projects, ctx
<1>7. ~IsLocal(q)
  <2>1. IsLocal(q) => q \in DOMAIN offered
    BY <1>3, <1>5 DEF HintedIn
  <2> QED
    BY <1>6, <2>1 DEF NeedsMet
<1>8. ASSUME ~IsAbsolute(q) PROVE q \in DOMAIN projects /\ projects[q].name = q
  <2>1. q \in DOMAIN offered /\ offered[q].name = q
    BY <1>5, <1>6, <1>8 DEF NeedsMet
  <2>2. q \in DOMAIN projects
    BY <1>4, <1>5, <2>1 DEF Closed, Drawn
  <2> QED
    BY <1>5, <2>1, <2>2
<1> QED
  BY <1>7, <1>8

LEMMA PlainMet ==
    ASSUME NEW y, Plain(y), NEW tree, ~ConfigThrows(y, SubDirectories, InPlace(tree))
    PROVE  Met(LoadConfig(y, SubDirectories, InPlace(tree)))
<1>1. IsContext(InPlace(tree)) /\ AtTop(InPlace(tree))
  BY ContextsAre DEF AtTop, InPlace, Context
<1> QED
  BY <1>1, PlainNeeds DEF Met

(* What a specification is rewritten to is plain.                          *)
LEMMA WrittenFirst ==
    ASSUME NEW y \in Specifications, NEW tree, ~ConfigThrows(y, SubDirectories, Context(tree)),
           StrictNames(LoadConfig(y, SubDirectories, Context(tree)))
    PROVE  Plain(SaveConfig(LoadConfig(y, SubDirectories, Context(tree))))
<1> DEFINE ctx == Context(tree)
           added == AddDirectories(Directories(y), SubDirectories, ctx)
           own == WithOwn(y, ctx, added)
           offered == Offered(y, ctx)
           projects == LoadConfig(y, SubDirectories, ctx)
<1>1. projects = AllRounds(own, added.specific)
  BY DEF LoadConfig
<1>2. IsContext(ctx)
  BY ContextsAre
<1>3. /\ IsFiniteSet(DOMAIN added.specific) /\ offered = Over(own, added.specific)
      /\ HintedIn(offered, added.known)
  BY <1>2, OfferedHinted
<1>4. StrictNames(projects)
  OBVIOUS
<1> HIDE DEF added, own, offered, projects
<1>5. Drawn(projects, own, added.specific)
  BY <1>1, <1>3, RoundsEnough
<1>6. \A p \in DOMAIN projects : p \in DOMAIN offered /\ projects[p] = offered[p]
  BY <1>3, <1>5 DEF Drawn, Over
<1>7. Inserts(projects)
  BY <1>3, <1>6 DEF HintedIn, Inserts
<1> QED
  BY <1>4, <1>7, StrictPlain DEF projects

LEMMA WrittenAgain ==
    ASSUME NEW y, Plain(y), NEW tree, ~ConfigThrows(y, SubDirectories, Context(tree))
    PROVE  Plain(SaveConfig(LoadConfig(y, SubDirectories, Context(tree))))
<1> DEFINE ctx == Context(tree)
           d == [ctx EXCEPT !.known = {}]
           projects == LoadConfig(y, SubDirectories, ctx)
<1>1. IsContext(ctx) /\ AtTop(ctx)
  BY ContextsAre DEF AtTop
<1>2. d = ctx
  <2>1. \A rec, K : rec.known = K /\ IsContext(rec) /\ IsMap(rec) => [rec EXCEPT !.known = K] = rec
    BY DEF IsContext, IsMap
  <2>2. ctx.known = {} /\ IsMap(ctx)
    BY DEF Context, IsMap
  <2> HIDE DEF ctx
  <2> QED
    BY <1>1, <2>1, <2>2
<1> HIDE DEF ctx
<1>3. \A p \in DOMAIN projects : \A q \in DOMAIN projects[p].read.deps : IsAbsolute(q) /\ HasName(q)
  BY <1>1, PlainNeeds DEF ctx
<1>4. DOMAIN projects = DOMAIN LoadProjects(y, d)
      /\ \A p \in DOMAIN projects : projects[p] = LoadProjects(y, d)[p]
  BY NothingToAdd DEF Plain
<1>5. HintedIn(LoadProjects(y, ctx), ctx.known)
  BY <1>1, LoadedHinted DEF Plain, ConfigThrows, ctx
<1> HIDE DEF projects
<1>6. Inserts(projects)
  BY <1>2, <1>4, <1>5 DEF HintedIn, Inserts
<1>7. StrictNames(projects)
  BY <1>3 DEF StrictNames
<1> QED
  BY <1>6, <1>7, StrictPlain DEF projects, ctx

SpecInv == spec \in Specifications \/ Plain(spec)

LEMMA SpecStep ==
    ASSUME NeedsAreThere, AuthorInv, SpecInv, [Next]_vars PROVE SpecInv'
<1>1. CASE BeautifyStrict
  <2> DEFINE tree == Revisions[tip]
  <2>1. /\ ~ConfigThrows(spec, SubDirectories, Context(tree))
        /\ spec' = SaveConfig(LoadConfig(spec, SubDirectories, Context(tree)))
    BY <1>1 DEF BeautifyStrict
  <2>2. tree \in ToSet(Revisions)
    BY DEF ToSet, AuthorInv
  <2> HIDE DEF tree
  <2>3. CASE spec \in Specifications
    <3>1. StrictNames(LoadConfig(spec, SubDirectories, Context(tree)))
      BY <2>1, <2>2, <2>3 DEF NeedsAreThere
    <3> QED
      BY <2>1, <2>3, <3>1, WrittenFirst DEF SpecInv
  <2>4. CASE Plain(spec)
    BY <2>1, <2>4, WrittenAgain DEF SpecInv
  <2> QED
    BY <2>3, <2>4 DEF SpecInv
<1>2. CASE Edit
  <2>1. spec' \in Specifications
    BY <1>2 DEF Edit
  <2> QED
    BY <2>1 DEF SpecInv
<1>3. CASE UNCHANGED spec
  BY <1>3 DEF SpecInv
<1>4. BeautifyStrict \/ Edit \/ UNCHANGED spec
  BY DEF Next, vars, Push, BuildInPlace, Call, StartVerify, DownloadSpecification, RunCommand,
         CommandFails, Compare, Install
<1> QED
  BY <1>1, <1>2, <1>3, <1>4

(* If an author sees to it that what is needed is there, every local       *)
(* package that a package built in place needs is built with it: the       *)
(* projects of other directories are added in as many rounds as it takes   *)
(* (config.cpp, load; package_store.cpp, read_packages_from_file).         *)
THEOREM KnownCorrect == ASSUME NeedsAreThere PROVE Spec => []DepsKnown
<1>1. Init => AuthorInv /\ SpecInv /\ DepsKnown
  BY DEF Init, AuthorInv, SpecInv, DepsKnown, Nothing
<1>2. ASSUME AuthorInv, SpecInv, DepsKnown, [Next]_vars PROVE DepsKnown'
  <2>1. CASE BuildInPlace
    <3> DEFINE projects == LoadConfig(spec, SubDirectories, InPlace(Revisions[tip]))
    <3>1. seen' = [kind |-> "built", packages |-> LocalPackages(Here, projects)]
      BY <2>1 DEF BuildInPlace
    <3>2. ~ConfigThrows(spec, SubDirectories, InPlace(Revisions[tip])) /\ Revisions[tip] \in ToSet(Revisions)
      BY <1>2, <2>1 DEF BuildInPlace, ToSet, AuthorInv
    <3>3. Met(projects)
      <4>1. CASE spec \in Specifications
        BY <3>2, <4>1, DrawnMet DEF NeedsAreThere
      <4>2. CASE Plain(spec)
        BY <3>2, <4>2, PlainMet
      <4> QED
        BY <1>2, <4>1, <4>2 DEF SpecInv
    <3> HIDE DEF projects
    <3>4. AllThere(LocalPackages(Here, projects))
      BY <3>3, PackagesThere
    <3> QED
      BY <3>1, <3>4 DEF DepsKnown, AllThere
  <2>2. CASE UNCHANGED vars
    BY <1>2, <2>2 DEF DepsKnown, vars
  <2>3. CASE Next /\ ~BuildInPlace
    <3>1. \/ seen' = Nothing
          \/ \E verdict, original : Verdict(verdict, original)
          \/ \E package, include : seen' = [kind |-> "installed", package |-> package, include |-> include]
      BY <2>3 DEF Next, Edit, Push, BeautifyStrict, Call, StartVerify, DownloadSpecification,
                  RunCommand, CommandFails, Fails, Compare, Install
    <3> QED
      BY <3>1 DEF DepsKnown, Nothing, Verdict
  <2> QED
    BY <1>2, <2>1, <2>2, <2>3
<1> QED
  BY <1>1, <1>2, AuthorStep, SpecStep, PTL DEF Spec
-----------------------------------------------------------------------------
(* Dependencies that were read.                                            *)
DependencyKeys == {"path", "version", "reference", "conditions", "idirs_only", "private"}
IsDependency(q, d) == IsMap(d) /\ DOMAIN d = DependencyKeys /\ d.path = q /\ d.private \in BOOLEAN
Shaped(deps) == IsMap(deps) /\ \A q \in DOMAIN deps : IsDependency(q, deps[q])

LEMMA DependencyShaped ==
    \A path, d, ctx : IsDependency(Dependency(path, d, ctx).path, Dependency(path, d, ctx))
<1> SUFFICES ASSUME NEW path, NEW d, NEW ctx
             PROVE  IsDependency(Dependency(path, d, ctx).path, Dependency(path, d, ctx))
  OBVIOUS
<1> DEFINE to == IF IsKnown(d, ctx) THEN Elements[d.local] ELSE path
           version == IF IsKnown(d, ctx) THEN LocalVersion ELSE Key(d, "version", "*")
           reference == Written(d, <<"reference", "ref">>, "")
           conditions == Key(d, "condition", {}) \cup Key(d, "conditions", {})
           idirs_only == Key(d, "include_directories_only", FALSE)
           read == Dependency(path, d, ctx)
<1>1. read = [path |-> to, version |-> version, reference |-> reference, conditions |-> conditions,
              idirs_only |-> idirs_only, private |-> FALSE]
  BY DEF Dependency
<1> HIDE DEF to, version, reference, conditions, idirs_only, read
<1>2. IsMap(read) /\ DOMAIN read = DependencyKeys /\ read.private = FALSE
  BY <1>1 DEF IsMap, DependencyKeys
<1> QED
  BY <1>2 DEF IsDependency, read

LEMMA LastIndex ==
    ASSUME NEW list, NEW S, list \in Seq(S), NEW of, of \subseteq DOMAIN list, of # {}
    PROVE  \E i \in of : \A j \in of : j <= i
<1> DEFINE N == Len(list)
           T == {N - i : i \in of}
<1>1. N \in Nat /\ of \subseteq 1..N
  OBVIOUS
<1>2. T \subseteq Nat /\ T # {}
  BY <1>1
<1>3. PICK R : IsWellFoundedOn(R, Nat) /\ \A x, y \in Nat : y < x => <<y, x>> \in R
  BY NatOrder
<1> HIDE DEF T, N
<1>4. PICK k \in T : \A i \in T : ~(<<i, k>> \in R)
  BY <1>2, <1>3, WFMin
<1>5. \A i \in T : ~(i < k)
  BY <1>2, <1>3, <1>4
<1>6. PICK i \in of : k = N - i
  BY DEF T
<1>7. \A j \in of : N - j \in T
  BY DEF T
<1>8. ASSUME NEW j \in of PROVE j <= i
  <2>1. ~(N - j < N - i)
    BY <1>5, <1>6, <1>7
  <2>2. i \in Nat /\ j \in Nat
    BY <1>1
  <2> QED
    BY <1>1, <2>1, <2>2
<1> QED
  BY <1>8

LEMMA ListShaped ==
    ASSUME NEW list, list \in Seq(ToSet(list)), NEW ctx PROVE Shaped(ReadList(list, ctx))
<1> DEFINE read == [i \in DOMAIN list |-> ReadSingle(list[i], ctx)]
           of(path) == {i \in DOMAIN list : read[i].path = path}
           paths == {read[i].path : i \in DOMAIN list}
           last(path) == CHOOSE i \in of(path) : \A j \in of(path) : j <= i
<1>1. ReadList(list, ctx) = [path \in paths |-> read[last(path)]]
  BY DEF ReadList
<1>2. \A i \in DOMAIN list : IsDependency(read[i].path, read[i])
  BY DependencyShaped DEF ReadSingle
<1> HIDE DEF read
<1>3. ASSUME NEW path \in paths PROVE IsDependency(path, read[last(path)])
  <2>1. of(path) # {} /\ of(path) \subseteq DOMAIN list
    OBVIOUS
  <2>2. \E i \in of(path) : \A j \in of(path) : j <= i
    <3> HIDE DEF of
    <3> QED
      BY <2>1, LastIndex
  <2>3. last(path) \in of(path)
    <3> HIDE DEF of
    <3> QED
      BY <2>2
  <2> QED
    BY <1>2, <2>3
<1> HIDE DEF paths, last, of
<1> QED
  BY <1>1, <1>3 DEF Shaped, IsMap

LEMMA NamesShaped ==
    ASSUME NEW names, NEW ctx PROVE Shaped(ReadNames(names, ctx))
<1> DEFINE things == {Dependency(AbsoluteName(n, ctx), names[n], ctx) : n \in DOMAIN names}
<1>1. ReadNames(names, ctx) = ByPath(things)
  BY DEF ReadNames
<1>2. \A x \in things : IsDependency(x.path, x)
  BY DependencyShaped
<1> HIDE DEF things
<1>3. ByPath(things) = [path \in {x.path : x \in things} |-> CHOOSE x \in things : x.path = path]
  BY DEF ByPath
<1>4. IsMap(ByPath(things)) /\ DOMAIN ByPath(things) = {x.path : x \in things}
  BY DEF ByPath, IsMap
<1>5. ASSUME NEW path \in {x.path : x \in things} PROVE IsDependency(path, ByPath(things)[path])
  <2>1. \E x \in things : x.path = path
    OBVIOUS
  <2>2. ByPath(things)[path] = CHOOSE x \in things : x.path = path
    BY <1>3
  <2>3. ByPath(things)[path] \in things /\ ByPath(things)[path].path = path
    BY <2>1, <2>2
  <2> QED
    BY <1>2, <2>3
<1> QED
  BY <1>1, <1>4, <1>5 DEF Shaped

LEMMA GroupShaped ==
    ASSUME NEW g, IsList(g), NEW ctx PROVE Shaped(ReadGroup(g, ctx))
BY ListShaped, NamesShaped DEF IsList, ReadGroup

LEMMA LaidShaped ==
    ASSUME NEW f, NEW g, Shaped(f), Shaped(g) PROVE Shaped(Over(f, g))
BY LaidEither, LaidIsMap DEF Shaped

LEMMA NothingShaped == Shaped(<<>>)
BY NoMap DEF Shaped

LEMMA PrivateShaped ==
    ASSUME NEW deps, Shaped(deps)
    PROVE  Shaped([p \in DOMAIN deps |-> [deps[p] EXCEPT !.private = TRUE]])
<1> DEFINE f == [p \in DOMAIN deps |-> [deps[p] EXCEPT !.private = TRUE]]
<1>1. ASSUME NEW q \in DOMAIN deps PROVE IsDependency(q, [deps[q] EXCEPT !.private = TRUE])
  <2> DEFINE d == deps[q]
  <2>1. IsDependency(q, d)
    BY DEF Shaped
  <2> HIDE DEF d
  <2>3. IsDependency(q, [d EXCEPT !.private = TRUE])
    BY <2>1 DEF IsDependency, IsMap, DependencyKeys
  <2> QED
    BY <2>3 DEF d
<1>2. \A q \in DOMAIN f : IsDependency(q, f[q])
  BY <1>1
<1>3. IsMap(f)
  BY DEF IsMap
<1> HIDE DEF f
<1>4. Shaped(f)
  BY <1>2, <1>3 DEF Shaped
<1> QED
  BY <1>4 DEF f

LEMMA GroupsShaped ==
    ASSUME NEW groups, \A g \in DOMAIN groups : IsList(groups[g]), NEW ctx
    PROVE  Shaped(ReadGroups(groups, ctx))
<1> DEFINE read(g) == IF g \in DOMAIN groups THEN ReadGroup(groups[g], ctx) ELSE <<>>
           private == [p \in DOMAIN read("private") |-> [read("private")[p] EXCEPT !.private = TRUE]]
<1>1. ReadGroups(groups, ctx) = Over(read("public"), private)
  BY DEF ReadGroups
<1>2. \A g : Shaped(read(g))
  BY GroupShaped, NothingShaped
<1> HIDE DEF read
<1>3. Shaped(private)
  BY <1>2, PrivateShaped
<1> HIDE DEF private
<1> QED
  BY <1>1, <1>2, <1>3, LaidShaped

LEMMA NodeShaped ==
    ASSUME NEW deps, Shaped(deps), NEW node, IsWritten(node), NEW ctx
    PROVE  Shaped(AddDependencies(deps, node, ctx))
<1>1. CASE node.kind = "list"
  <2>1. AddDependencies(deps, node, ctx) = Over(ReadList(node.of, ctx), deps)
    BY <1>1 DEF AddDependencies
  <2>2. Shaped(ReadList(node.of, ctx))
    BY <1>1, ListShaped DEF IsWritten, IsList
  <2> QED
    BY <2>1, <2>2, LaidShaped
<1>2. CASE node.kind = "map"
  <2>1. AddDependencies(deps, node, ctx) = Over(deps, ReadNames(node.of, ctx))
    BY <1>2 DEF AddDependencies
  <2> QED
    BY <2>1, NamesShaped, LaidShaped
<1>3. CASE node.kind = "groups"
  <2>1. AddDependencies(deps, node, ctx) = Over(deps, ReadGroups(node.of, ctx))
    BY <1>3 DEF AddDependencies
  <2>2. Shaped(ReadGroups(node.of, ctx))
    BY <1>3, GroupsShaped DEF IsWritten
  <2> QED
    BY <2>1, <2>2, LaidShaped
<1> QED
  BY <1>1, <1>2, <1>3 DEF IsWritten

LEMMA DependenciesShaped ==
    ASSUME NEW m, NEW ctx, \A k \in {"dependencies", "deps"} : IsWritten(Key(m, k, NoDependencies))
    PROVE  Shaped(Dependencies(m, ctx))
BY NodeShaped, NothingShaped DEF Dependencies
-----------------------------------------------------------------------------
(* What is read does not depend on the files of the source.                *)
Alike(a, b) ==
    /\ a.root_project = b.root_project /\ a.subdir = b.subdir /\ a.relative = b.relative
    /\ a.known = b.known /\ a.local_deps = b.local_deps

LEMMA AlikeNames ==
    ASSUME NEW a, NEW b, Alike(a, b)
    PROVE  /\ \A n : AbsoluteName(n, a) = AbsoluteName(n, b) /\ (Unnamed(n, a) <=> Unnamed(n, b))
           /\ \A path, d : Dependency(path, d, a) = Dependency(path, d, b)
<1>1. \A n : AbsoluteName(n, a) = AbsoluteName(n, b) /\ (Unnamed(n, a) <=> Unnamed(n, b))
  BY DEF Alike, AbsoluteName, Unnamed
<1>2. \A d : IsKnown(d, a) <=> IsKnown(d, b)
  BY DEF Alike, IsKnown
<1>3. \A path, d : Dependency(path, d, a) = Dependency(path, d, b)
  BY <1>2 DEF Dependency
<1> QED
  BY <1>1, <1>3

LEMMA AlikeLists ==
    ASSUME NEW a, NEW b, Alike(a, b), NEW list PROVE ReadList(list, a) = ReadList(list, b)
<1> DEFINE read(c) == [i \in DOMAIN list |-> ReadSingle(list[i], c)]
           from(f) == [path \in {f[i].path : i \in DOMAIN list} |->
                          f[CHOOSE i \in {k \in DOMAIN list : f[k].path = path} :
                                \A j \in {k \in DOMAIN list : f[k].path = path} : j <= i]]
<1>1. \A d : ReadSingle(d, a) = ReadSingle(d, b)
  <2>1. /\ \A n : AbsoluteName(n, a) = AbsoluteName(n, b)
        /\ \A path, d : Dependency(path, d, a) = Dependency(path, d, b)
    BY AlikeNames
  <2> QED
    BY <2>1 DEF ReadSingle
<1>2. read(a) = read(b)
  BY <1>1
<1>3. \A c : ReadList(list, c) = from(read(c))
  BY DEF ReadList
<1> HIDE DEF read, from
<1> QED
  BY <1>2, <1>3

LEMMA AlikeReads ==
    ASSUME NEW a, NEW b, Alike(a, b)
    PROVE  /\ \A g : ReadGroup(g, a) = ReadGroup(g, b)
           /\ \A names : ReadNames(names, a) = ReadNames(names, b)
           /\ \A groups : ReadGroups(groups, a) = ReadGroups(groups, b)
<1>1. ASSUME NEW names PROVE ReadNames(names, a) = ReadNames(names, b)
  <2> DEFINE things(c) == {Dependency(AbsoluteName(n, c), names[n], c) : n \in DOMAIN names}
  <2>1. things(a) = things(b)
    BY AlikeNames
  <2>2. \A c : ReadNames(names, c) = ByPath(things(c))
    BY DEF ReadNames
  <2> HIDE DEF things
  <2> QED
    BY <2>1, <2>2
<1>2. ASSUME NEW g PROVE ReadGroup(g, a) = ReadGroup(g, b)
  BY <1>1, AlikeLists DEF ReadGroup
<1>3. ASSUME NEW groups PROVE ReadGroups(groups, a) = ReadGroups(groups, b)
  <2> DEFINE read(g, c) == IF g \in DOMAIN groups THEN ReadGroup(groups[g], c) ELSE <<>>
             as_private(deps) == [p \in DOMAIN deps |-> [deps[p] EXCEPT !.private = TRUE]]
  <2>1. \A c : ReadGroups(groups, c) = Over(read("public", c), as_private(read("private", c)))
    BY DEF ReadGroups
  <2>2. \A g : read(g, a) = read(g, b)
    BY <1>2
  <2> HIDE DEF read, as_private
  <2> QED
    BY <2>1, <2>2
<1> QED
  BY <1>1, <1>2, <1>3

LEMMA AlikeDependencies ==
    ASSUME NEW a, NEW b, Alike(a, b), NEW m PROVE Dependencies(m, a) = Dependencies(m, b)
<1>1. ASSUME NEW deps, NEW node PROVE AddDependencies(deps, node, a) = AddDependencies(deps, node, b)
  <2>1. /\ ReadList(node.of, a) = ReadList(node.of, b) /\ ReadNames(node.of, a) = ReadNames(node.of, b)
        /\ ReadGroups(node.of, a) = ReadGroups(node.of, b)
    BY AlikeLists, AlikeReads
  <2> QED
    BY <2>1 DEF AddDependencies
<1> QED
  BY <1>1 DEF Dependencies

LEMMA AlikeProjects ==
    ASSUME NEW a, NEW b, Alike(a, b), NEW m
    PROVE  ReadProject(m, a) = ReadProject(m, b) /\ (ProjectThrows(m, a) <=> ProjectThrows(m, b))
<1>1. ReadProject(m, a) = ReadProject(m, b)
  BY AlikeDependencies DEF ReadProject
<1>2. ProjectThrows(m, a) <=> ProjectThrows(m, b)
  <2>1. \A n : /\ AbsoluteName(n, a) = AbsoluteName(n, b)
               /\ Unnamed(n, a) <=> Unnamed(n, b)
    BY AlikeNames
  <2>2. a.local_deps = b.local_deps
    BY DEF Alike
  <2> QED
    BY <2>1, <2>2 DEF ProjectThrows
<1> QED
  BY <1>1, <1>2
-----------------------------------------------------------------------------
(* What was written is read back.                                          *)
LEMMA RestBack ==
    ASSUME NEW r, DOMAIN r.insertions = Insertions, NEW k \in RestKeys, NEW default
    PROVE  Key(SaveProject(r), k, default) = IF NotWritten(r)[k] THEN default ELSE Rest(r)[k]
BY SavedKeys DEF Key

LEMMA PlainKeysOther ==
    \A k \in DOMAIN PlainKeys :
        /\ 1 \in DOMAIN PlainKeys[k]
        /\ \A i \in DOMAIN PlainKeys[k] : i # 1 => PlainKeys[k][i] \in {"c++", "root_dir"}
<1>1. DOMAIN PlainKeys = {"license", "output_name", "type", "rc_enabled", "prefer_binaries", "empty",
                          "standard", "root_directory", "header_only"}
  BY DEF PlainKeys
<1>2. /\ PlainKeys["license"] = <<"license">> /\ PlainKeys["output_name"] = <<"output_name">>
      /\ PlainKeys["type"] = <<"type">> /\ PlainKeys["rc_enabled"] = <<"rc_enabled">>
      /\ PlainKeys["prefer_binaries"] = <<"prefer_binaries">> /\ PlainKeys["empty"] = <<"empty">>
      /\ PlainKeys["standard"] = <<"cxx_standard", "c++">>
      /\ PlainKeys["root_directory"] = <<"root_directory", "root_dir">>
      /\ PlainKeys["header_only"] = <<"header_only">>
  BY DEF PlainKeys
<1>3. \A x : DOMAIN <<x>> = {1}
  OBVIOUS
<1>4. \A x, y : DOMAIN <<x, y>> = {1, 2} /\ <<x, y>>[2] = y
  OBVIOUS
<1> QED
  BY <1>1, <1>2, <1>3, <1>4

LEMMA PlainBack ==
    ASSUME NEW r, DOMAIN r.insertions = Insertions, IsMap(r.plain), DOMAIN r.plain = DOMAIN PlainKeys
    PROVE  [k \in DOMAIN PlainKeys |-> Written(SaveProject(r), PlainKeys[k], PlainDefaults[k])] = r.plain
<1> DEFINE s == SaveProject(r)
           plain == r.plain
           saved == SavePlain(plain)
<1>1. \A k \in PlainNames : /\ k \in DOMAIN s <=> k \in DOMAIN saved
                            /\ k \in DOMAIN saved => s[k] = saved[k]
  BY SavedKeys
<1>2. DOMAIN s \subseteq PlainNames \cup Insertions \cup RestKeys
  BY SavedKeys
<1> HIDE DEF s
<1>3. ASSUME NEW k \in DOMAIN PlainKeys
      PROVE  /\ PlainKeys[k][1] \in DOMAIN saved <=> plain[k] # PlainDefaults[k]
             /\ PlainKeys[k][1] \in DOMAIN saved => saved[PlainKeys[k][1]] = plain[k]
  <2> DEFINE first(j) == PlainKeys[j][1]
             full == {j \in DOMAIN PlainKeys : plain[j] # PlainDefaults[j]}
  <2>1. saved = [key \in {first(j) : j \in full} |-> plain[CHOOSE j \in DOMAIN PlainKeys : first(j) = key]]
    BY DEF SavePlain
  <2>2. \A i, j \in DOMAIN PlainKeys : first(i) = first(j) => i = j
    BY PlainKeysFirst
  <2> HIDE DEF first, saved
  <2>3. first(k) \in DOMAIN saved <=> k \in full
    BY <2>1, <2>2
  <2>4. (CHOOSE j \in DOMAIN PlainKeys : first(j) = first(k)) = k
    BY <2>2
  <2>5. first(k) \in DOMAIN saved => saved[first(k)] = plain[k]
    BY <2>1, <2>4
  <2> QED
    BY <2>3, <2>5 DEF first
<1> HIDE DEF saved, plain
<1>4. ASSUME NEW k \in DOMAIN PlainKeys PROVE Written(s, PlainKeys[k], PlainDefaults[k]) = plain[k]
  <2> DEFINE keys == PlainKeys[k]
             present == Present(keys, s)
  <2>1. /\ keys[1] \in PlainNames /\ 1 \in DOMAIN keys
        /\ \A i \in DOMAIN keys : i # 1 => keys[i] \in {"c++", "root_dir"}
    BY PlainKeysFirst, PlainKeysOther
  <2>2. "c++" \notin DOMAIN s /\ "root_dir" \notin DOMAIN s
    BY <1>2 DEF PlainNames, Insertions, RestKeys
  <2> HIDE DEF keys
  <2>3. \A i : i \in present => i = 1
    BY <2>1, <2>2 DEF Present
  <2>4. 1 \in present <=> keys[1] \in DOMAIN s
    BY <2>1 DEF Present
  <2>5. CASE keys[1] \in DOMAIN s
    <3>1. present = {1}
      BY <2>3, <2>4, <2>5
    <3>2. FirstPresent(keys, s) = keys[1]
      <4>1. (CHOOSE i \in {1} : \A j \in {1} : i <= j) = 1
        OBVIOUS
      <4> QED
        BY <3>1, <4>1 DEF FirstPresent
    <3>3. s[keys[1]] = plain[k]
      BY <1>1, <1>3, <2>1, <2>5 DEF keys
    <3> QED
      BY <3>1, <3>2, <3>3 DEF Written, keys
  <2>6. CASE keys[1] \notin DOMAIN s
    <3>1. present = {}
      BY <2>3, <2>4, <2>6
    <3>2. plain[k] = PlainDefaults[k]
      BY <1>1, <1>3, <2>1, <2>6 DEF keys
    <3> QED
      BY <3>1, <3>2 DEF Written, keys
  <2> QED
    BY <2>5, <2>6
<1>5. plain = [k \in DOMAIN PlainKeys |-> plain[k]]
  BY DEF IsMap, plain
<1> QED
  BY <1>4, <1>5 DEF s, plain

(* Sources.                                                                *)
IsLoaded(src) == \E i \in DOMAIN Kinds : \E node : src = SourceOf(node, Kinds[i])

LEMMA FirstIndex ==
    ASSUME NEW S, S \subseteq Nat, S # {} PROVE \E i \in S : \A j \in S : i <= j
<1>1. PICK R : IsWellFoundedOn(R, Nat) /\ \A x, y \in Nat : y < x => <<y, x>> \in R
  BY NatOrder
<1>2. PICK k \in S : \A i \in S : ~(<<i, k>> \in R)
  BY <1>1, WFMin
<1>3. \A i \in S : ~(i < k)
  BY <1>1, <1>2
<1> QED
  BY <1>3

LEMMA KindsAre ==
    /\ DOMAIN Kinds \subseteq Nat
    /\ \A i \in DOMAIN Kinds : Kinds[i] \in {"git", "hg", "bzr", "fossil", "cvs", "svn", "remote", "files"}
    /\ \A i, j \in DOMAIN Kinds : Kinds[i] = Kinds[j] => i = j
    /\ \A i \in DOMAIN Kinds : Kind[Kinds[i]].fields \subseteq {"tag", "branch", "commit", "revision", "module"}
<1>1. DOMAIN Kinds = 1..8
  BY DEF Kinds
<1>2. /\ Kinds[1] = "git" /\ Kinds[2] = "hg" /\ Kinds[3] = "bzr" /\ Kinds[4] = "fossil"
      /\ Kinds[5] = "cvs" /\ Kinds[6] = "svn" /\ Kinds[7] = "remote" /\ Kinds[8] = "files"
  BY DEF Kinds
<1>3. 1..8 = {1, 2, 3, 4, 5, 6, 7, 8}
  OBVIOUS
<1>4. /\ Kind["git"].fields \subseteq {"tag", "branch", "commit", "revision", "module"}
      /\ Kind["hg"].fields \subseteq {"tag", "branch", "commit", "revision", "module"}
      /\ Kind["bzr"].fields \subseteq {"tag", "branch", "commit", "revision", "module"}
      /\ Kind["fossil"].fields \subseteq {"tag", "branch", "commit", "revision", "module"}
      /\ Kind["cvs"].fields \subseteq {"tag", "branch", "commit", "revision", "module"}
      /\ Kind["svn"].fields \subseteq {"tag", "branch", "commit", "revision", "module"}
      /\ Kind["remote"].fields \subseteq {"tag", "branch", "commit", "revision", "module"}
      /\ Kind["files"].fields \subseteq {"tag", "branch", "commit", "revision", "module"}
  BY DEF Kind, Git, Hg, Bzr, Fossil, Cvs, Svn, Remote
<1> HIDE DEF Kinds
<1> QED
  BY <1>1, <1>2, <1>3, <1>4

LEMMA SourceLoaded == \A node : LoadSource(node) = Throws \/ IsLoaded(LoadSource(node))
<1> SUFFICES ASSUME NEW node, Present(Kinds, node) # {} PROVE IsLoaded(LoadSource(node))
  BY DEF LoadSource
<1>1. Present(Kinds, node) \subseteq DOMAIN Kinds /\ Present(Kinds, node) \subseteq Nat
  BY KindsAre DEF Present
<1>2. PICK i \in Present(Kinds, node) : FirstPresent(Kinds, node) = Kinds[i]
  <2> DEFINE S == Present(Kinds, node)
  <2> HIDE DEF S
  <2>1. \E i \in S : \A j \in S : i <= j
    BY <1>1, FirstIndex DEF S
  <2>2. FirstPresent(Kinds, node) = Kinds[CHOOSE i \in S : \A j \in S : i <= j]
    BY DEF FirstPresent, S
  <2> QED
    BY <2>1, <2>2 DEF S
<1>3. LoadSource(node) = SourceOf(node, Kinds[i])
  BY <1>2 DEF LoadSource
<1> QED
  BY <1>1, <1>3 DEF IsLoaded

LEMMA SourceBack ==
    ASSUME NEW src, IsLoaded(src), src.kind # "files" PROVE LoadSource(SaveSource(src)) = src
<1>1. PICK i, node : i \in DOMAIN Kinds /\ src = SourceOf(node, Kinds[i])
  BY DEF IsLoaded
<1> DEFINE kind == Kinds[i]
           fields == src.fields
           full == NotEmpty(fields, [f \in DOMAIN fields |-> fields[f] = <<>>])
           saved == SaveSource(src)
<1>2. /\ src = [kind |-> kind, urls |-> src.urls, fields |-> fields]
      /\ src.kind = kind /\ DOMAIN fields = Kind[kind].fields /\ IsMap(fields)
  BY <1>1 DEF SourceOf, IsMap
<1>3. saved = Over([k \in {kind} |-> src.urls], full)
  <2>1. KeyOf(src.kind) = kind
    BY <1>2 DEF KeyOf
  <2> HIDE DEF kind
  <2> QED
    BY <2>1 DEF SaveSource
<1> DEFINE one == [k \in {kind} |-> src.urls]
<1>4. DOMAIN one = {kind} /\ one[kind] = src.urls
  OBVIOUS
<1>5. /\ DOMAIN full = {f \in DOMAIN fields : fields[f] # <<>>}
      /\ \A f \in DOMAIN full : full[f] = fields[f]
  BY DEF NotEmpty
<1>6. kind \notin DOMAIN fields /\ \A j \in DOMAIN Kinds : Kinds[j] \notin DOMAIN fields
  BY <1>1, <1>2, KindsAre
<1> HIDE DEF one, full, saved, fields, kind
<1>7. /\ DOMAIN saved = {kind} \cup DOMAIN full /\ saved[kind] = src.urls
      /\ \A f \in DOMAIN full : saved[f] = fields[f]
  <2>1. /\ DOMAIN Over(one, full) = (DOMAIN one) \cup (DOMAIN full)
        /\ \A x \in DOMAIN one : Over(one, full)[x] = one[x]
        /\ \A x \in DOMAIN full : x \notin DOMAIN one => Over(one, full)[x] = full[x]
    BY Laid
  <2> QED
    BY <1>3, <1>4, <1>5, <1>6, <2>1 DEF one
<1>8. \A j : j \in Present(Kinds, saved) <=> j = i
  BY <1>1, <1>5, <1>6, <1>7, KindsAre DEF Present, kind
<1>9. FirstPresent(Kinds, saved) = kind
  <2>1. Present(Kinds, saved) = {i}
    BY <1>8
  <2>2. (CHOOSE k \in {i} : \A j \in {i} : k <= j) = i
    BY <1>1, KindsAre
  <2> QED
    BY <2>1, <2>2 DEF FirstPresent, kind
<1>10. LoadSource(saved) = SourceOf(saved, kind)
  BY <1>8, <1>9 DEF LoadSource
<1>11. \A f \in Kind[kind].fields : Key(saved, f, <<>>) = fields[f]
  BY <1>2, <1>5, <1>6, <1>7 DEF Key
<1>12. [f \in Kind[kind].fields |-> Key(saved, f, <<>>)] = fields
  <2>1. fields = [f \in Kind[kind].fields |-> fields[f]]
    BY <1>2 DEF IsMap
  <2> QED
    BY <1>11, <2>1
<1>13. SourceOf(saved, kind) = [kind |-> kind, urls |-> src.urls, fields |-> fields]
  BY <1>7, <1>12 DEF SourceOf
<1> QED
  BY <1>2, <1>10, <1>13 DEF saved

LEMMA VersionBack ==
    \A src, version : LoadVersion(src, LoadVersion(src, version)) = LoadVersion(src, version)
<1> SUFFICES ASSUME NEW src, NEW version
             PROVE  LoadVersion(src, LoadVersion(src, version)) = LoadVersion(src, version)
  OBVIOUS
<1>1. CASE src.kind \in {"git", "hg", "bzr", "fossil", "cvs", "svn"}
  <2>1. PICK found : \A x : LoadVersion(src, x) = IF x # <<>> \/ found \in BadVersions THEN x ELSE found
    <3>1. CASE src.kind = "git"
      BY <3>1 DEF LoadVersion
    <3>2. CASE src.kind = "hg"
      BY <3>2 DEF LoadVersion
    <3>3. CASE src.kind = "bzr"
      BY <3>3 DEF LoadVersion
    <3>4. CASE src.kind = "fossil"
      BY <3>4 DEF LoadVersion
    <3>5. CASE src.kind = "cvs"
      BY <3>5 DEF LoadVersion
    <3>6. CASE src.kind = "svn"
      BY <3>6 DEF LoadVersion
    <3> QED
      BY <1>1, <3>1, <3>2, <3>3, <3>4, <3>5, <3>6
  <2> QED
    BY <2>1
<1>2. CASE src.kind \notin {"git", "hg", "bzr", "fossil", "cvs", "svn"}
  <2>1. \A x : LoadVersion(src, x) = x
    BY <1>2 DEF LoadVersion
  <2> QED
    BY <2>1
<1> QED
  BY <1>1, <1>2
-----------------------------------------------------------------------------
(* Files, options and dependencies.                                        *)
LEMMA EntriesBack ==
    ASSUME NEW entries, \A e \in entries : IsMap(e) /\ e.at \in Seq(STRING)
    PROVE  UNION {{[e EXCEPT !.at = g.root \o @] : e \in g.files} : g \in Group(entries)} = entries
<1>1. \A e \in entries : [e EXCEPT !.at = <<>> \o @] = e
  <2> SUFFICES ASSUME NEW e \in entries PROVE [e EXCEPT !.at = <<>> \o @] = e
    OBVIOUS
  <2>1. <<>> \o e.at = e.at
    OBVIOUS
  <2>2. \A at : at = e.at => [e EXCEPT !.at = at] = e
    BY DEF IsMap
  <2> QED
    BY <2>1, <2>2
<1>2. Group(entries) = {[root |-> <<>>, files |-> entries]}
  BY DEF Group
<1> DEFINE g == [root |-> <<>>, files |-> entries]
<1>3. UNION {{[e EXCEPT !.at = h.root \o @] : e \in h.files} : h \in {g}}
        = {[e EXCEPT !.at = g.root \o @] : e \in g.files}
  OBVIOUS
<1>4. {[e EXCEPT !.at = g.root \o @] : e \in g.files} = entries
  BY <1>1
<1> QED
  BY <1>2, <1>3, <1>4

Flagged(d) == d.idirs_only \in BOOLEAN
LEMMA SavedFields ==
    ASSUME NEW d, Flagged(d)
    PROVE  /\ "local" \notin DOMAIN Saved(d)
           /\ Key(Saved(d), "version", "*") = d.version
           /\ Written(Saved(d), <<"reference", "ref">>, "") = d.reference
           /\ Key(Saved(d), "condition", {}) = {} /\ Key(Saved(d), "conditions", {}) = d.conditions
           /\ Key(Saved(d), "include_directories_only", FALSE) = d.idirs_only
<1> DEFINE all == [version |-> d.version, reference |-> d.reference, conditions |-> d.conditions,
                   include_directories_only |-> TRUE]
           empty == [version |-> FALSE, reference |-> d.reference = "", conditions |-> d.conditions = {},
                     include_directories_only |-> ~d.idirs_only]
           s == Saved(d)
<1>1. s = NotEmpty(all, empty)
  BY DEF Saved
<1>2. /\ DOMAIN all = {"version", "reference", "conditions", "include_directories_only"}
      /\ all["version"] = d.version /\ all["reference"] = d.reference /\ all["conditions"] = d.conditions
      /\ all["include_directories_only"] = TRUE
  OBVIOUS
<1>3. /\ ~empty["version"] /\ (empty["reference"] <=> d.reference = "")
      /\ (empty["conditions"] <=> d.conditions = {})
      /\ (empty["include_directories_only"] <=> ~d.idirs_only)
  OBVIOUS
<1> HIDE DEF all, empty, s
<1>4. DOMAIN s = {k \in DOMAIN all : ~empty[k]} /\ \A k \in DOMAIN s : s[k] = all[k]
  BY <1>1 DEF NotEmpty
<1>5. /\ "local" \notin DOMAIN s /\ "condition" \notin DOMAIN s /\ "ref" \notin DOMAIN s
      /\ "version" \in DOMAIN s /\ ("reference" \in DOMAIN s <=> d.reference # "")
      /\ ("conditions" \in DOMAIN s <=> d.conditions # {})
      /\ ("include_directories_only" \in DOMAIN s <=> d.idirs_only)
  BY <1>2, <1>3, <1>4
<1>6. Key(s, "version", "*") = d.version /\ Key(s, "condition", {}) = {}
      /\ Key(s, "conditions", {}) = d.conditions
  BY <1>2, <1>4, <1>5 DEF Key
<1>7. Key(s, "include_directories_only", FALSE) = d.idirs_only
  BY <1>2, <1>4, <1>5 DEF Key, Flagged
<1>8. Written(s, <<"reference", "ref">>, "") = d.reference
  <2> DEFINE keys == <<"reference", "ref">>
  <2>1. DOMAIN keys = {1, 2} /\ keys[1] = "reference" /\ keys[2] = "ref"
    OBVIOUS
  <2> HIDE DEF keys
  <2>2. CASE "reference" \in DOMAIN s
    <3>1. Present(keys, s) = {1}
      BY <1>5, <2>1, <2>2 DEF Present
    <3>2. FirstPresent(keys, s) = keys[1]
      <4>1. (CHOOSE i \in {1} : \A j \in {1} : i <= j) = 1
        OBVIOUS
      <4> QED
        BY <3>1, <4>1 DEF FirstPresent
    <3> QED
      BY <1>2, <1>4, <2>1, <2>2, <3>1, <3>2 DEF Written, keys
  <2>3. CASE "reference" \notin DOMAIN s
    <3>1. Present(keys, s) = {}
      BY <1>5, <2>1, <2>3 DEF Present
    <3> QED
      BY <1>5, <2>3, <3>1 DEF Written, keys
  <2> QED
    BY <2>2, <2>3
<1> QED
  BY <1>5, <1>6, <1>7, <1>8 DEF s

Top(c) == c.subdir = "" /\ ~c.local_deps

Restored(x, q, d) ==
    /\ IsMap(x) /\ DOMAIN x = DependencyKeys /\ x.private = FALSE /\ x.path = q
    /\ \A k \in DependencyKeys \ {"private"} : x[k] = d[k]
LEMMA SingleBack ==
    ASSUME NEW q, NEW d, IsDependency(q, d), Flagged(d), NEW c, Top(c)
    PROVE  Restored(Dependency(q, Saved(d), c), q, d)
<1> DEFINE x == Dependency(q, Saved(d), c)
<1>1. ~IsKnown(Saved(d), c)
  BY DEF IsKnown, Top
<1>2. x = [path |-> q, version |-> d.version, reference |-> d.reference, conditions |-> d.conditions,
           idirs_only |-> d.idirs_only, private |-> FALSE]
  <2>1. {} \cup d.conditions = d.conditions
    OBVIOUS
  <2>2. /\ Key(Saved(d), "version", "*") = d.version
        /\ Written(Saved(d), <<"reference", "ref">>, "") = d.reference
        /\ Key(Saved(d), "condition", {}) = {} /\ Key(Saved(d), "conditions", {}) = d.conditions
        /\ Key(Saved(d), "include_directories_only", FALSE) = d.idirs_only
    BY SavedFields
  <2>3. \A node : ~IsKnown(node, c) =>
           Dependency(q, node, c) =
              [path |-> q, version |-> Key(node, "version", "*"),
               reference |-> Written(node, <<"reference", "ref">>, ""),
               conditions |-> Key(node, "condition", {}) \cup Key(node, "conditions", {}),
               idirs_only |-> Key(node, "include_directories_only", FALSE), private |-> FALSE]
    BY DEF Dependency
  <2> QED
    BY <1>1, <2>1, <2>2, <2>3
<1> HIDE DEF x
<1>3. IsMap(x) /\ DOMAIN x = DependencyKeys
  BY <1>2 DEF IsMap, DependencyKeys
<1>4. /\ x.path = q /\ x.version = d.version /\ x.reference = d.reference /\ x.conditions = d.conditions
      /\ x.idirs_only = d.idirs_only /\ x.private = FALSE
  BY <1>2
<1>5. d.path = q
  BY DEF IsDependency
<1>6. \A k \in DependencyKeys \ {"private"} : x[k] = d[k]
  BY <1>4, <1>5 DEF DependencyKeys
<1> QED
  BY <1>3, <1>4, <1>6 DEF x, Restored

LEMMA NameBack ==
    ASSUME NEW q, HasName(q), IsAbsolute(q), NEW c, c.subdir = ""
    PROVE  AbsoluteName(NameOf(q), c) = q /\ ~Unnamed(NameOf(q), c)
<1>1. Elements[NameOf(q)] = q
  BY NamedAgain
<1> QED
  BY <1>1 DEF AbsoluteName, Unnamed

Kept(deps) == \A q \in DOMAIN deps : IsAbsolute(q) /\ HasName(q) /\ Flagged(deps[q])

Regrouped(read, deps, private, c) ==
    /\ DOMAIN read = {q \in DOMAIN deps : deps[q].private = private}
    /\ \A q \in DOMAIN read : read[q] = Dependency(q, Saved(deps[q]), c)
LEMMA GroupBack ==
    ASSUME NEW deps, Shaped(deps), Kept(deps), NEW private \in BOOLEAN, NEW c, Top(c)
    PROVE  Regrouped(ReadGroup(SaveGroup(deps, private), c), deps, private, c)
<1> DEFINE of == InGroup(deps, private)
           names == [n \in {NameOf(q) : q \in of} |-> Saved(deps[Elements[n]])]
           one(n) == Dependency(AbsoluteName(n, c), names[n], c)
           things == {one(n) : n \in DOMAIN names}
           read == ReadGroup(SaveGroup(deps, private), c)
<1>1. read = ByPath(things)
  BY DEF ReadGroup, SaveGroup, ReadNames
<1>2. of \subseteq DOMAIN deps /\ of = {q \in DOMAIN deps : deps[q].private = private}
  BY DEF InGroup
<1>3. ASSUME NEW q \in of
      PROVE  NameOf(q) \in DOMAIN names /\ one(NameOf(q)) = Dependency(q, Saved(deps[q]), c)
  <2>1. Elements[NameOf(q)] = q /\ AbsoluteName(NameOf(q), c) = q
    BY <1>2, NamedAgain, NameBack DEF Kept, Top
  <2> HIDE DEF of
  <2>2. names[NameOf(q)] = Saved(deps[q])
    BY <2>1
  <2> HIDE DEF names
  <2>3. one(NameOf(q)) = Dependency(q, Saved(deps[q]), c)
    BY <2>1, <2>2
  <2> QED
    BY <2>3 DEF names
<1>4. \A n \in DOMAIN names : \E q \in of : n = NameOf(q)
  OBVIOUS
<1> HIDE DEF of, names, one, read
<1>5. \A q \in of : Dependency(q, Saved(deps[q]), c).path = q
  <2> SUFFICES ASSUME NEW q \in of PROVE Dependency(q, Saved(deps[q]), c).path = q
    OBVIOUS
  <2> DEFINE d == deps[q]
  <2>1. IsDependency(q, d) /\ Flagged(d)
    BY <1>2 DEF Shaped, Kept
  <2> HIDE DEF d
  <2>2. Restored(Dependency(q, Saved(d), c), q, d)
    BY <2>1, SingleBack
  <2>3. Dependency(q, Saved(d), c).path = q
    BY <2>2 DEF Restored
  <2> QED
    BY <2>3 DEF d
<1>6. things = {Dependency(q, Saved(deps[q]), c) : q \in of}
  BY <1>3, <1>4
<1>7. DOMAIN ByPath(things) = of /\ IsMap(ByPath(things))
  <2>1. \A y \in things : y.path \in of
    BY <1>5, <1>6
  <2>2. \A q \in of : \E y \in things : y.path = q
    BY <1>5, <1>6
  <2> HIDE DEF things
  <2>3. DOMAIN ByPath(things) = {y.path : y \in things} /\ IsMap(ByPath(things))
    BY DEF ByPath, IsMap
  <2>4. {y.path : y \in things} = of
    BY <2>1, <2>2
  <2> QED
    BY <2>3, <2>4
<1>8. ASSUME NEW q \in of PROVE ByPath(things)[q] = Dependency(q, Saved(deps[q]), c)
  <2> DEFINE x == ByPath(things)[q]
  <2>1. \E y \in things : y.path = q
    BY <1>5, <1>6
  <2>2. x = CHOOSE y \in things : y.path = q
    BY <1>7 DEF ByPath
  <2> HIDE DEF x, things
  <2>3. x \in things /\ x.path = q
    BY <2>1, <2>2
  <2>4. PICK r \in of : x = Dependency(r, Saved(deps[r]), c)
    BY <1>6, <2>3
  <2>5. r = q
    BY <1>5, <2>3, <2>4
  <2> QED
    BY <2>4, <2>5 DEF x
<1> QED
  BY <1>1, <1>2, <1>7, <1>8 DEF read, Regrouped

LEMMA RestoredIs ==
    ASSUME NEW x, NEW q, NEW d, Restored(x, q, d), IsDependency(q, d)
    PROVE  /\ d.private = FALSE => x = d
           /\ d.private = TRUE => [x EXCEPT !.private = TRUE] = d
<1>1. /\ DOMAIN x = DependencyKeys /\ DOMAIN d = DependencyKeys /\ IsMap(x) /\ IsMap(d)
      /\ "private" \in DependencyKeys /\ x["private"] = FALSE
      /\ \A k \in DependencyKeys \ {"private"} : x[k] = d[k]
  BY DEF Restored, IsDependency, DependencyKeys
<1>2. d = [k \in DependencyKeys |-> d[k]] /\ x = [k \in DependencyKeys |-> x[k]]
  BY <1>1 DEF IsMap
<1>3. ASSUME d.private = FALSE PROVE x = d
  <2>1. \A k \in DependencyKeys : x[k] = d[k]
    BY <1>1, <1>3
  <2> QED
    BY <1>2, <2>1
<1>4. ASSUME d.private = TRUE PROVE [x EXCEPT !.private = TRUE] = d
  <2> DEFINE y == [x EXCEPT !.private = TRUE]
  <2>1. y = [k \in DependencyKeys |-> IF k = "private" THEN TRUE ELSE x[k]]
    BY <1>1, <1>2
  <2> HIDE DEF y
  <2>2. \A k \in DependencyKeys : y[k] = d[k]
    BY <1>1, <1>4, <2>1
  <2>3. y = [k \in DependencyKeys |-> y[k]]
    BY <2>1
  <2>4. y = d
    BY <1>2, <2>2, <2>3
  <2> QED
    BY <2>4 DEF y
<1> QED
  BY <1>3, <1>4

LEMMA GroupsBack ==
    ASSUME NEW deps, Shaped(deps), Kept(deps), NEW c, Top(c)
    PROVE  ReadGroups(SaveDependencies(deps).of, c) = deps
<1> DEFINE groups == SaveDependencies(deps).of
           read(g) == IF g \in DOMAIN groups THEN ReadGroup(groups[g], c) ELSE <<>>
           of(private) == {q \in DOMAIN deps : deps[q].private = private}
           as_private(f) == [p \in DOMAIN f |-> [f[p] EXCEPT !.private = TRUE]]
           pub == read("public")
           own == read("private")
<1>1. ReadGroups(groups, c) = Over(pub, as_private(own))
  BY DEF ReadGroups
<1>2. /\ pub = ReadGroup(SaveGroup(deps, FALSE), c)
      /\ own = ReadGroup(SaveGroup(deps, TRUE), c)
  <2>1. groups = [g \in {"private", "public"} |-> SaveGroup(deps, g = "private")]
    BY DEF SaveDependencies
  <2>2. ("public" = "private") = FALSE /\ ("private" = "private") = TRUE
    OBVIOUS
  <2>3. groups["public"] = SaveGroup(deps, FALSE) /\ groups["private"] = SaveGroup(deps, TRUE)
    BY <2>1, <2>2
  <2>4. DOMAIN groups = {"private", "public"}
    BY <2>1
  <2> HIDE DEF groups
  <2> QED
    BY <2>3, <2>4
<1> HIDE DEF groups, pub, own
<1>3. /\ DOMAIN pub = of(FALSE) /\ \A q \in of(FALSE) : pub[q] = Dependency(q, Saved(deps[q]), c)
      /\ DOMAIN own = of(TRUE) /\ \A q \in of(TRUE) : own[q] = Dependency(q, Saved(deps[q]), c)
  <2>1. Regrouped(pub, deps, FALSE, c) /\ Regrouped(own, deps, TRUE, c)
    BY <1>2, GroupBack
  <2> QED
    BY <2>1 DEF Regrouped
<1>4. ASSUME NEW q \in DOMAIN deps
      PROVE  /\ IsDependency(q, deps[q]) /\ Restored(Dependency(q, Saved(deps[q]), c), q, deps[q])
  <2> DEFINE d == deps[q]
  <2>1. IsDependency(q, d) /\ Flagged(d)
    BY DEF Shaped, Kept
  <2> HIDE DEF d
  <2>2. Restored(Dependency(q, Saved(d), c), q, d)
    BY <2>1, SingleBack
  <2> QED
    BY <2>1, <2>2 DEF d
<1>5. ASSUME NEW q \in of(FALSE) PROVE pub[q] = deps[q]
  BY <1>3, <1>4, RestoredIs
<1>6. ASSUME NEW q \in of(TRUE) PROVE as_private(own)[q] = deps[q]
  <2>1. as_private(own)[q] = [own[q] EXCEPT !.private = TRUE]
    BY <1>3
  <2>2. [own[q] EXCEPT !.private = TRUE] = deps[q]
    BY <1>3, <1>4, RestoredIs
  <2> QED
    BY <2>1, <2>2
<1>7. DOMAIN as_private(own) = of(TRUE)
  BY <1>3
<1>8. DOMAIN deps = of(FALSE) \cup of(TRUE)
  BY <1>4 DEF IsDependency
<1> HIDE DEF as_private, of
<1> DEFINE all == Over(pub, as_private(own))
<1>9. /\ DOMAIN all = (DOMAIN pub) \cup (DOMAIN as_private(own))
      /\ \A q \in DOMAIN pub : all[q] = pub[q]
      /\ \A q \in DOMAIN as_private(own) : q \notin DOMAIN pub => all[q] = as_private(own)[q]
  BY Laid
<1>10. \A q \in DOMAIN deps : all[q] = deps[q]
  BY <1>3, <1>5, <1>6, <1>7, <1>8, <1>9
<1>11. IsMap(all) /\ IsMap(deps)
  BY LaidIsMap DEF Shaped
<1>12. DOMAIN all = DOMAIN deps
  BY <1>3, <1>7, <1>8, <1>9
<1> HIDE DEF all
<1>13. all = deps
  BY <1>10, <1>11, <1>12 DEF IsMap
<1> QED
  BY <1>1, <1>13 DEF all, groups

LEMMA DependenciesBack ==
    ASSUME NEW r, DOMAIN r.insertions = Insertions, Shaped(r.deps), Kept(r.deps), NEW c, Top(c)
    PROVE  Dependencies(SaveProject(r), c) = r.deps
<1>1. /\ Key(SaveProject(r), "dependencies", NoDependencies)
           = IF r.deps = <<>> THEN NoDependencies ELSE SaveDependencies(r.deps)
      /\ Key(SaveProject(r), "deps", NoDependencies) = NoDependencies
  BY WrittenKeys
<1>2. \A deps : IsMap(deps) => AddDependencies(deps, NoDependencies, c) = deps
  <2>1. ReadList(<<>>, c) = <<>>
    <3>1. IsMap(ReadList(<<>>, c)) /\ DOMAIN ReadList(<<>>, c) = {}
      BY NoMap DEF ReadList, IsMap
    <3> QED
      BY <3>1, NoMap
  <2>2. \A deps : AddDependencies(deps, NoDependencies, c) = Over(ReadList(<<>>, c), deps)
    BY DEF AddDependencies, NoDependencies
  <2> QED
    BY <2>1, <2>2, LaidNothing
<1>3. CASE r.deps = <<>>
  BY <1>1, <1>2, <1>3, NoMap DEF Dependencies
<1>4. CASE r.deps # <<>>
  <2> DEFINE node == SaveDependencies(r.deps)
  <2>1. node.kind = "groups" /\ ReadGroups(node.of, c) = r.deps
    BY GroupsBack DEF SaveDependencies
  <2>2. AddDependencies(<<>>, node, c) = Over(<<>>, r.deps)
    BY <2>1 DEF AddDependencies
  <2>3. IsMap(r.deps) /\ Over(<<>>, r.deps) = r.deps
    BY LaidNothing DEF Shaped
  <2> QED
    BY <1>1, <1>2, <1>4, <2>2, <2>3 DEF Dependencies
<1> QED
  BY <1>3, <1>4
-----------------------------------------------------------------------------
(* A project that was read, and what is read of it when it was written.    *)
ReadFields ==
    {"plain", "source", "version", "name", "library", "only", "include", "sources", "exclude",
     "options", "patch", "insertions", "deps"}
WasRead(r) ==
    /\ IsMap(r.plain) /\ DOMAIN r.plain = DOMAIN PlainKeys
    /\ r.source = NoSource \/ IsLoaded(r.source)
    /\ IsValidUrl(r.source) => LoadVersion(r.source, r.version) = r.version
    /\ r.library \in {"static", "module", "shared"} /\ (r.library # "static" => "shared" \in r.only)
    /\ IsMap(r.include) /\ DOMAIN r.include = Visibilities
    /\ \A e \in r.sources \cup r.exclude : IsMap(e)
    /\ \A o \in r.options : o.visibility \in Visibilities
    /\ IsMap(r.patch) /\ DOMAIN r.patch = {"replace", "regex_replace", "files"}
    /\ \A f \in r.patch.files : IsMap(f)
    /\ IsMap(r.insertions) /\ DOMAIN r.insertions = Insertions
    /\ Shaped(r.deps)

LEMMA ReadMaps ==
    \A m, c : IsMap(ReadProject(m, c)) /\ DOMAIN ReadProject(m, c) = ReadFields
<1> SUFFICES ASSUME NEW m, NEW c
             PROVE  IsMap(ReadProject(m, c)) /\ DOMAIN ReadProject(m, c) = ReadFields
  OBVIOUS
<1>1. PICK a, b, d, e, f, g, h, i, j, k, l, n, o :
         ReadProject(m, c) = [plain |-> a, source |-> b, version |-> d, name |-> e, library |-> f,
                              only |-> g, include |-> h, sources |-> i, exclude |-> j, options |-> k,
                              patch |-> l, insertions |-> n, deps |-> o]
  BY DEF ReadProject
<1> QED
  BY <1>1 DEF IsMap, ReadFields

LEMMA EntriesAreMaps ==
    /\ \A y, key : \A e \in ReadSources(y, key) : IsMap(e)
    /\ \A y : /\ IsMap(ReadPatch(y)) /\ DOMAIN ReadPatch(y) = {"replace", "regex_replace", "files"}
              /\ \A f \in ReadPatch(y).files : IsMap(f)
<1>1. ASSUME NEW y, NEW key, NEW e \in ReadSources(y, key) PROVE IsMap(e)
  <2>1. PICK g \in Key(y, key, {}) : e \in {[d EXCEPT !.at = g.root \o @] : d \in g.files}
    BY DEF ReadSources
  <2>2. PICK d \in g.files : e = [d EXCEPT !.at = g.root \o @]
    BY <2>1
  <2> QED
    BY <2>2 DEF IsMap
<1>2. ASSUME NEW y
      PROVE  /\ IsMap(ReadPatch(y)) /\ DOMAIN ReadPatch(y) = {"replace", "regex_replace", "files"}
             /\ \A f \in ReadPatch(y).files : IsMap(f)
  <2> DEFINE patch == Key(y, "patch", <<>>)
             replace == Key(patch, "replace", {})
             regex == Key(patch, "regex_replace", {})
             files == {[f EXCEPT !.text = IF @ = <<>> THEN @ ELSE Front(@)] : f \in Key(patch, "files", {})}
  <2>1. ReadPatch(y) = [replace |-> replace, regex_replace |-> regex, files |-> files]
    BY DEF ReadPatch
  <2>2. \A f \in files : IsMap(f)
    BY DEF IsMap
  <2> HIDE DEF files, replace, regex
  <2> QED
    BY <2>1, <2>2 DEF IsMap
<1> QED
  BY <1>1, <1>2

LEMMA ReadIs ==
    ASSUME NEW m, NEW c, SourceOfProject(m) # Throws,
           \A k \in {"dependencies", "deps"} : IsWritten(Key(m, k, NoDependencies))
    PROVE  WasRead(ReadProject(m, c))
<1> DEFINE r == ReadProject(m, c)
<1>1. /\ r.plain = [k \in DOMAIN PlainKeys |-> Written(m, PlainKeys[k], PlainDefaults[k])]
      /\ r.source = SourceOfProject(m)
      /\ r.version = IF "source" \in DOMAIN m THEN LoadVersion(SourceOfProject(m), Key(m, "version", <<>>))
                     ELSE Key(m, "version", <<>>)
      /\ r.library = ReadLibrary(m) /\ r.only = ReadOnly(m)
  BY DEF ReadProject
<1>2. /\ r.include = [k \in Visibilities |-> Key(Key(m, "include_directories", <<>>), k, {})]
      /\ r.sources = ReadSources(m, "files") /\ r.exclude = ReadSources(m, "exclude_from_package")
      /\ r.options = ReadOptions(m) /\ r.patch = ReadPatch(m)
      /\ r.insertions = [k \in Insertions |-> Key(m, k, <<>>)] /\ r.deps = Dependencies(m, c)
  BY DEF ReadProject
<1> HIDE DEF r
<1>3. /\ IsMap(r.plain) /\ DOMAIN r.plain = DOMAIN PlainKeys /\ IsMap(r.include) /\ DOMAIN r.include = Visibilities
      /\ IsMap(r.insertions) /\ DOMAIN r.insertions = Insertions
  BY <1>1, <1>2 DEF IsMap
<1>4. r.source = NoSource \/ IsLoaded(r.source)
  BY <1>1, SourceLoaded DEF SourceOfProject
<1>5. ASSUME IsValidUrl(r.source) PROVE LoadVersion(r.source, r.version) = r.version
  <2>1. ~IsValidUrl(NoSource)
    BY DEF IsValidUrl, NoSource
  <2>2. "source" \in DOMAIN m
    BY <1>1, <1>5, <2>1 DEF SourceOfProject
  <2> QED
    BY <1>1, <2>2, VersionBack
<1>6. r.library \in {"static", "module", "shared"} /\ (r.library # "static" => "shared" \in r.only)
  BY <1>1 DEF ReadLibrary, ReadOnly
<1>7. \A e \in r.sources \cup r.exclude : IsMap(e)
  BY <1>2, EntriesAreMaps
<1>8. \A o \in r.options : o.visibility \in Visibilities
  BY <1>2 DEF ReadOptions
<1>9. IsMap(r.patch) /\ DOMAIN r.patch = {"replace", "regex_replace", "files"} /\ \A f \in r.patch.files : IsMap(f)
  BY <1>2, EntriesAreMaps
<1>10. Shaped(r.deps)
  BY <1>2, DependenciesShaped
<1> QED
  BY <1>3, <1>4, <1>5, <1>6, <1>7, <1>8, <1>9, <1>10 DEF WasRead, r

LEMMA OneOfEach ==
    ASSUME NEW rules, \A a, b \in rules : a.from = b.from => a = b PROVE OneEach(rules) = rules
<1> DEFINE one(from) == CHOOSE r \in rules : r.from = from
<1>1. \A r \in rules : one(r.from) = r
  <2> SUFFICES ASSUME NEW r \in rules PROVE one(r.from) = r
    OBVIOUS
  <2>1. one(r.from) \in rules /\ one(r.from).from = r.from
    OBVIOUS
  <2> QED
    BY <2>1
<1>2. OneEach(rules) = {one(from) : from \in {r.from : r \in rules}}
  BY DEF OneEach
<1> HIDE DEF one
<1>3. \A x \in OneEach(rules) : x \in rules
  BY <1>1, <1>2
<1>4. \A x \in rules : x \in OneEach(rules)
  BY <1>1, <1>2
<1> QED
  BY <1>3, <1>4

LEMMA PatchBack ==
    ASSUME NEW patch, IsMap(patch), DOMAIN patch = {"replace", "regex_replace", "files"},
           PatchStays(patch)
    PROVE  SavePatch(patch) = patch
<1>1. /\ OneEach(patch.replace) = patch.replace
      /\ OneEach(patch.regex_replace) = patch.regex_replace
      /\ OneEach(patch.files) = patch.files
  BY OneOfEach DEF PatchStays
<1>2. patch.files = {} \/ patch.replace = {}
  BY DEF PatchStays
<1>3. SavePatch(patch) = [replace |-> patch.replace, regex_replace |-> patch.regex_replace,
                          files |-> patch.files]
  BY <1>1, <1>2 DEF SavePatch
<1>4. patch = [replace |-> patch.replace, regex_replace |-> patch.regex_replace,
               files |-> patch.files]
  BY DEF IsMap
<1> QED
  BY <1>3, <1>4

LEMMA ReadBack ==
    ASSUME NEW r, WasRead(r), IsMap(r), DOMAIN r = ReadFields, StaysWritten(r), NEW c, Top(c)
    PROVE  ReadProject(SaveProject(r), c) = r
<1> DEFINE s == SaveProject(r)
           back == ReadProject(s, c)
<1>ins. DOMAIN r.insertions = Insertions
  BY DEF WasRead
<1>rest. \A k \in RestKeys : \A default : Key(s, k, default) = IF NotWritten(r)[k] THEN default ELSE Rest(r)[k]
  BY <1>ins, RestBack
<1>keys. RestKeys = {"source", "version", "name", "library_type", "only", "files", "exclude_from_package",
                     "include_directories", "options", "patch", "dependencies"}
  BY DEF RestKeys
<1>1. back.plain = r.plain
  <2>1. back.plain = [k \in DOMAIN PlainKeys |-> Written(s, PlainKeys[k], PlainDefaults[k])]
    BY DEF ReadProject
  <2> QED
    BY <1>ins, <2>1, PlainBack DEF WasRead
<1>2. /\ "source" \in DOMAIN s <=> IsValidUrl(r.source)
      /\ SourceOfProject(s) = r.source /\ back.source = r.source
  <2>1. /\ "source" \in DOMAIN s <=> ~NotWritten(r)["source"]
        /\ ~NotWritten(r)["source"] => s["source"] = Rest(r)["source"]
    BY <1>ins, <1>keys, SavedKeys
  <2>2. (NotWritten(r)["source"] <=> ~IsValidUrl(r.source)) /\ Rest(r)["source"] = SaveSource(r.source)
    BY DEF NotWritten, Rest
  <2>3. ~IsValidUrl(NoSource)
    BY DEF IsValidUrl, NoSource
  <2> HIDE DEF s
  <2>4. CASE IsValidUrl(r.source)
    <3>1. IsLoaded(r.source)
      BY <2>3, <2>4 DEF WasRead
    <3>2. LoadSource(SaveSource(r.source)) = r.source
      BY <2>3, <2>4, <3>1, SourceBack DEF StaysWritten
    <3>3. "source" \in DOMAIN s /\ s.source = SaveSource(r.source)
      BY <2>1, <2>2, <2>4
    <3> QED
      BY <2>4, <3>2, <3>3 DEF SourceOfProject, ReadProject
  <2>5. CASE ~IsValidUrl(r.source)
    <3>1. "source" \notin DOMAIN s /\ r.source = NoSource
      BY <2>1, <2>2, <2>5 DEF StaysWritten
    <3> QED
      BY <2>5, <3>1 DEF SourceOfProject, ReadProject
  <2> QED
    BY <2>4, <2>5
<1>3. back.version = r.version
  <2>1. Key(s, "version", <<>>) = r.version
    <3>1. (NotWritten(r)["version"] <=> r.version = <<>>) /\ Rest(r)["version"] = r.version
      BY DEF NotWritten, Rest
    <3> HIDE DEF s
    <3> QED
      BY <1>rest, <1>keys, <3>1
  <2>2. back.version = IF "source" \in DOMAIN s THEN LoadVersion(SourceOfProject(s), Key(s, "version", <<>>))
                       ELSE Key(s, "version", <<>>)
    BY DEF ReadProject
  <2> HIDE DEF s, back
  <2> QED
    BY <1>2, <2>1, <2>2 DEF WasRead
<1>4. back.name = r.name
  <2>1. (NotWritten(r)["name"] <=> r.name = "") /\ Rest(r)["name"] = r.name
    BY DEF NotWritten, Rest
  <2>2. back.name = Key(s, "name", "")
    BY DEF ReadProject
  <2> HIDE DEF s
  <2>3. Key(s, "name", "") = IF NotWritten(r)["name"] THEN "" ELSE Rest(r)["name"]
    BY <1>rest, <1>keys
  <2>4. Key(s, "name", "") = r.name
    BY <2>1, <2>3
  <2> HIDE DEF back
  <2> QED
    BY <2>2, <2>4
<1>5. back.library = r.library /\ back.only = r.only
  <2>1. /\ NotWritten(r)["library_type"] <=> r.library = "static"
        /\ Rest(r)["library_type"] = r.library
        /\ NotWritten(r)["only"] <=> r.only = {}
        /\ Rest(r)["only"] = r.only
    BY DEF NotWritten, Rest
  <2>2. back.library = ReadLibrary(s) /\ back.only = ReadOnly(s)
    BY DEF ReadProject
  <2> HIDE DEF s, back
  <2>3. /\ Key(s, "library_type", "") = IF r.library = "static" THEN "" ELSE r.library
        /\ Key(s, "only", {}) = r.only
    BY <1>rest, <1>keys, <2>1
  <2>4. r.library \in {"static", "module", "shared"} /\ (r.library # "static" => "shared" \in r.only)
    BY DEF WasRead
  <2>5. ReadLibrary(s) = r.library
    BY <2>3, <2>4 DEF ReadLibrary
  <2>6. ReadOnly(s) = r.only
    <3>1. CASE r.library = "static"
      <4>1. ReadOnly(s) = r.only \cup {}
        BY <2>3, <2>5, <3>1 DEF ReadOnly
      <4> QED
        BY <4>1
    <3>2. CASE r.library # "static"
      <4>1. ReadOnly(s) = r.only \cup {"shared"}
        BY <2>3, <2>4, <2>5, <3>2 DEF ReadOnly
      <4> QED
        BY <2>4, <3>2, <4>1
    <3> QED
      BY <3>1, <3>2
  <2> QED
    BY <2>2, <2>5, <2>6
<1>6. back.include = r.include
  <2> DEFINE include == SaveInclude(r.include)
             read == Key(s, "include_directories", <<>>)
  <2>1. /\ NotWritten(r)["include_directories"] <=> include = <<>>
        /\ Rest(r)["include_directories"] = include
    BY DEF NotWritten, Rest
  <2>2. read = include
    <3> HIDE DEF s, include
    <3> QED
      BY <1>rest, <1>keys, <2>1
  <2>3. back.include = [k \in Visibilities |-> Key(read, k, {})]
    BY DEF ReadProject
  <2>4. DOMAIN include = {k \in DOMAIN r.include : r.include[k] # {}}
        /\ \A k \in DOMAIN include : include[k] = r.include[k]
    BY DEF SaveInclude, NotEmpty, WasRead
  <2> HIDE DEF include, read, s, back
  <2>5. \A k \in Visibilities : Key(read, k, {}) = r.include[k]
    BY <2>2, <2>4 DEF Key, WasRead
  <2>6. r.include = [k \in Visibilities |-> r.include[k]]
    BY DEF WasRead, IsMap
  <2> QED
    BY <2>3, <2>5, <2>6
<1>7. back.sources = r.sources /\ back.exclude = r.exclude
  <2> DEFINE read(key) == UNION {{[e EXCEPT !.at = g.root \o @] : e \in g.files} : g \in Key(s, key, {})}
  <2>1. /\ NotWritten(r)["files"] <=> r.sources = {}
        /\ Rest(r)["files"] = Group(r.sources)
        /\ NotWritten(r)["exclude_from_package"] <=> r.exclude = {}
        /\ Rest(r)["exclude_from_package"] = Group(r.exclude)
    BY DEF NotWritten, Rest
  <2>2. back.sources = read("files") /\ back.exclude = read("exclude_from_package")
    BY DEF ReadProject, ReadSources
  <2> HIDE DEF s, back
  <2>3. /\ Key(s, "files", {}) = IF r.sources = {} THEN {} ELSE Group(r.sources)
        /\ Key(s, "exclude_from_package", {}) = IF r.exclude = {} THEN {} ELSE Group(r.exclude)
    BY <1>rest, <1>keys, <2>1
  <2>4. \A e \in r.sources \cup r.exclude : IsMap(e) /\ e.at \in Seq(STRING)
    BY DEF WasRead, StaysWritten
  <2>5. read("files") = r.sources
    <3>1. CASE r.sources = {}
      BY <2>3, <3>1
    <3>2. CASE r.sources # {}
      BY <2>3, <2>4, <3>2, EntriesBack
    <3> QED
      BY <3>1, <3>2
  <2>6. read("exclude_from_package") = r.exclude
    <3>1. CASE r.exclude = {}
      BY <2>3, <3>1
    <3>2. CASE r.exclude # {}
      BY <2>3, <2>4, <3>2, EntriesBack
    <3> QED
      BY <3>1, <3>2
  <2> QED
    BY <2>2, <2>5, <2>6
<1>8. back.options = r.options
  <2>1. (NotWritten(r)["options"] <=> r.options = {}) /\ Rest(r)["options"] = r.options
    BY DEF NotWritten, Rest
  <2>2. back.options = ReadOptions(s)
    BY DEF ReadProject
  <2> HIDE DEF s, back
  <2>3. Key(s, "options", {}) = r.options
    BY <1>rest, <1>keys, <2>1
  <2> QED
    BY <2>2, <2>3 DEF ReadOptions, WasRead
<1>9. back.patch = r.patch
  <2>1. NotWritten(r)["patch"] = FALSE /\ Rest(r)["patch"] = SavePatch(r.patch)
    BY DEF NotWritten, Rest
  <2>2. back.patch = ReadPatch(s)
    BY DEF ReadProject
  <2> HIDE DEF s, back
  <2>a. WasRead(r) /\ PatchStays(r.patch)
    BY DEF StaysWritten
  <2>b. SavePatch(r.patch) = r.patch
    BY <2>a, PatchBack DEF WasRead
  <2>3. Key(s, "patch", <<>>) = r.patch
    BY <1>rest, <1>keys, <2>1, <2>b
  <2>4. /\ DOMAIN r.patch = {"replace", "regex_replace", "files"} /\ IsMap(r.patch)
        /\ \A f \in r.patch.files : IsMap(f) /\ f.text = <<>>
    BY <2>a DEF WasRead, PatchStays
  <2> DEFINE patch == r.patch
             files == {[f EXCEPT !.text = IF @ = <<>> THEN @ ELSE Front(@)] : f \in patch.files}
  <2>5. Key(patch, "replace", {}) = patch.replace /\ Key(patch, "regex_replace", {}) = patch.regex_replace
        /\ Key(patch, "files", {}) = patch.files
    BY <2>4 DEF Key
  <2>6. ReadPatch(s) = [replace |-> patch.replace, regex_replace |-> patch.regex_replace, files |-> files]
    BY <2>3, <2>5 DEF ReadPatch
  <2>7. files = patch.files
    <3>1. \A f \in patch.files : [f EXCEPT !.text = IF @ = <<>> THEN @ ELSE Front(@)] = f
      <4> SUFFICES ASSUME NEW f \in patch.files PROVE [f EXCEPT !.text = IF @ = <<>> THEN @ ELSE Front(@)] = f
        OBVIOUS
      <4>1. IsMap(f) /\ f.text = <<>>
        BY <2>4
      <4>2. \A t : t = f.text => [f EXCEPT !.text = t] = f
        BY <4>1 DEF IsMap
      <4> QED
        BY <4>1, <4>2
    <3> QED
      BY <3>1
  <2> HIDE DEF files
  <2>8. patch = [replace |-> patch.replace, regex_replace |-> patch.regex_replace, files |-> patch.files]
    BY <2>4 DEF IsMap
  <2> QED
    BY <2>2, <2>6, <2>7, <2>8
<1>10. back.insertions = r.insertions
  <2>1. back.insertions = [k \in Insertions |-> Key(s, k, <<>>)]
    BY DEF ReadProject
  <2>2. /\ \A k \in Insertions : k \in DOMAIN s <=> k \in DOMAIN SaveInsertions(r.insertions)
        /\ \A k \in Insertions : k \in DOMAIN SaveInsertions(r.insertions) =>
              s[k] = SaveInsertions(r.insertions)[k]
    BY <1>ins, SavedKeys
  <2>3. /\ DOMAIN SaveInsertions(r.insertions) = {k \in Insertions : r.insertions[k] # <<>>}
        /\ \A k \in DOMAIN SaveInsertions(r.insertions) : SaveInsertions(r.insertions)[k] = r.insertions[k]
    BY <1>ins DEF SaveInsertions, NotEmpty
  <2> HIDE DEF s, back
  <2>4. \A k \in Insertions : Key(s, k, <<>>) = r.insertions[k]
    BY <2>2, <2>3 DEF Key
  <2>5. r.insertions = [k \in Insertions |-> r.insertions[k]]
    BY <1>ins DEF WasRead, IsMap
  <2> QED
    BY <2>1, <2>4, <2>5
<1>11. back.deps = r.deps
  <2>1. Shaped(r.deps) /\ Kept(r.deps)
    BY DEF WasRead, StaysWritten, Kept, Flagged
  <2>2. back.deps = Dependencies(s, c)
    BY DEF ReadProject
  <2> QED
    BY <1>ins, <2>1, <2>2, DependenciesBack
<1>12. IsMap(back) /\ DOMAIN back = ReadFields
  BY ReadMaps
<1> HIDE DEF back, s
<1>13. \A k \in ReadFields : back[k] = r[k]
  BY <1>1, <1>2, <1>3, <1>4, <1>5, <1>6, <1>7, <1>8, <1>9, <1>10, <1>11 DEF ReadFields
<1> QED
  BY <1>12, <1>13 DEF IsMap, back, s
-----------------------------------------------------------------------------
(* A specification that loads is rewritten to one that says the same.      *)
Strictly == Context(Revisions[1])
StrictIn(y) == ContextOf(y, Strictly)
Sound(p, r) ==
    /\ IsAbsolute(p) /\ HasName(p)
    /\ WasRead(r) /\ IsMap(r) /\ DOMAIN r = ReadFields /\ StaysWritten(r)
    /\ r.source # Throws
    /\ \A o \in r.options : o.level \in Levels
    /\ \A q \in DOMAIN r.deps : ~IsLocal(q)
Fit(y) == ~LoadThrows(y, Strictly) /\ WellFormed(y) /\ Rewritable(y)

LEMMA ContextsAlike ==
    \A y, tree : /\ Alike(ContextOf(y, Context(tree)), StrictIn(y))
                 /\ Top(ContextOf(y, Context(tree)))
                 /\ ContextOf(y, Context(tree)).known = {}
BY DEF Alike, Top, StrictIn, Strictly, ContextOf, Context

LEMMA SavedLoads ==
    ASSUME NEW p, NEW r, Sound(p, r), NEW c, Top(c) PROVE ~ProjectThrows(SaveProject(r), c)
<1> DEFINE s == SaveProject(r)
<1>1. DOMAIN r.insertions = Insertions /\ ReadProject(s, c) = r
  BY ReadBack DEF Sound, WasRead
<1>2. SourceOfProject(s) # Throws
  <2>1. ReadProject(s, c).source = SourceOfProject(s)
    BY DEF ReadProject
  <2> HIDE DEF s
  <2>2. SourceOfProject(s) = r.source
    BY <1>1, <2>1
  <2> QED
    BY <2>2 DEF Sound
<1>3. Key(s, "only", {}) = r.only /\ Key(s, "options", {}) = r.options
  <2>1. /\ NotWritten(r)["only"] <=> r.only = {}
        /\ Rest(r)["only"] = r.only
        /\ NotWritten(r)["options"] <=> r.options = {}
        /\ Rest(r)["options"] = r.options
    BY DEF NotWritten, Rest
  <2>2. "only" \in RestKeys /\ "options" \in RestKeys
    BY DEF RestKeys
  <2>3. /\ Key(s, "only", {}) = IF NotWritten(r)["only"] THEN {} ELSE Rest(r)["only"]
        /\ Key(s, "options", {}) = IF NotWritten(r)["options"] THEN {} ELSE Rest(r)["options"]
    BY <1>1, <2>2, RestBack
  <2> HIDE DEF s
  <2> QED
    BY <2>1, <2>3
<1>4. ASSUME NEW n \in AllNames(s) PROVE ~Unnamed(n, c) /\ ~IsLocal(AbsoluteName(n, c))
  <2>1. /\ Key(s, "dependencies", NoDependencies)
             = IF r.deps = <<>> THEN NoDependencies ELSE SaveDependencies(r.deps)
        /\ Key(s, "deps", NoDependencies) = NoDependencies
    BY <1>1, WrittenKeys
  <2>2. NamesIn(NoDependencies) = {}
    BY NoMap DEF NamesIn, NamesOfGroup, NoDependencies
  <2> HIDE DEF s
  <2>3. n \in NamesIn(SaveDependencies(r.deps))
    BY <2>1, <2>2 DEF AllNames
  <2>4. PICK q \in DOMAIN r.deps : n = NameOf(q)
    BY <2>3, NamesSaved
  <2>5. IsAbsolute(q) /\ HasName(q) /\ ~IsLocal(q) /\ c.subdir = ""
    BY DEF Sound, StaysWritten, Top
  <2>6. AbsoluteName(NameOf(q), c) = q /\ ~Unnamed(NameOf(q), c)
    BY <2>5, NameBack
  <2> QED
    BY <2>4, <2>5, <2>6
<1>5. r.only # {"static", "shared"} /\ ~c.local_deps /\ \A o \in r.options : o.level \in Levels
  BY DEF Sound, StaysWritten, Top
<1> HIDE DEF s
<1> QED
  BY <1>2, <1>3, <1>4, <1>5 DEF ProjectThrows, s

(* What the strict writer makes of projects that are sound.                *)
LEMMA StrictAgain ==
    ASSUME NEW R, IsMap(R), \A p \in DOMAIN R : Sound(p, R[p]),
           NEW projects, DOMAIN projects = DOMAIN R, \A p \in DOMAIN R : projects[p].read = R[p]
    PROVE  Fit(SaveConfig(projects)) /\ Read(SaveConfig(projects)) = R
<1> DEFINE key(p) == IF p # <<>> THEN NameOf(p)
                     ELSE IF projects[p].read.name # "" THEN projects[p].read.name ELSE "name0"
           of(k) == CHOOSE p \in DOMAIN projects : key(p) = k
           P == [k \in {key(p) : p \in DOMAIN projects} |-> SaveProject(projects[of(k)].read)]
           y == SaveConfig(projects)
           c == StrictIn(y)
<1>1. y = [projects |-> P]
  BY DEF SaveConfig
<1>2. ASSUME NEW p \in DOMAIN R
      PROVE  key(p) = NameOf(p) /\ Elements[NameOf(p)] = p /\ NameOf(p) \in DOMAIN Elements
  <2>1. IsAbsolute(p) /\ HasName(p)
    BY DEF Sound
  <2>2. p # <<>>
    BY <2>1 DEF IsAbsolute
  <2> QED
    BY <2>1, <2>2, NamedAgain
<1>3. DOMAIN P = {NameOf(p) : p \in DOMAIN R}
  <2>1. {key(p) : p \in DOMAIN projects} = {NameOf(p) : p \in DOMAIN R}
    <3>1. \A p \in DOMAIN R : key(p) = NameOf(p)
      BY <1>2
    <3> HIDE DEF key
    <3> QED
      BY <3>1
  <2> HIDE DEF key, of
  <2> QED
    BY <2>1
<1>4. ASSUME NEW p \in DOMAIN R PROVE P[NameOf(p)] = SaveProject(R[p])
  <2>1. of(NameOf(p)) = p
    <3>1. \A q \in DOMAIN R : key(q) = NameOf(q) /\ Elements[NameOf(q)] = q
      BY <1>2
    <3> HIDE DEF key
    <3> QED
      BY <3>1
  <2>2. NameOf(p) \in {key(q) : q \in DOMAIN projects}
    BY <1>2
  <2> DEFINE value(k) == SaveProject(projects[of(k)].read)
  <2>3. P = [k \in {key(q) : q \in DOMAIN projects} |-> value(k)]
    OBVIOUS
  <2>4. value(NameOf(p)) = SaveProject(R[p])
    <3> HIDE DEF key, of
    <3> QED
      BY <2>1
  <2> HIDE DEF key, of, value, P
  <2> QED
    BY <2>2, <2>3, <2>4
<1>5. IsMap(P)
  <2> DEFINE value(k) == SaveProject(projects[of(k)].read)
  <2> HIDE DEF key, value
  <2>1. P = [k \in {key(p) : p \in DOMAIN projects} |-> value(k)]
    BY DEF value
  <2> QED
    BY <2>1 DEF IsMap
<1> HIDE DEF P, y, key, of
<1>6. \A p \in DOMAIN R : DOMAIN R[p].insertions = Insertions
  BY DEF Sound, WasRead
<1>7. \A k \in DOMAIN P : IsMap(P[k])
  BY <1>3, <1>4, <1>6, SavedKeys
<1>8. Prepare(y) = y /\ ProjectMaps(y) = P /\ Directories(y) = <<>>
  BY <1>1, <1>5, <1>7, Prepared
<1>9. Keys(y) = DOMAIN P /\ ProjectMaps(Prepare(y)) = P
  BY <1>8 DEF Keys
<1>10. Top(c)
  BY ContextsAlike DEF StrictIn, Strictly
<1> HIDE DEF c
<1>11. ASSUME NEW p \in DOMAIN R
       PROVE  /\ AbsoluteName(NameOf(p), c) = p /\ ~Unnamed(NameOf(p), c)
              /\ ReadProject(P[NameOf(p)], c) = R[p] /\ ~ProjectThrows(P[NameOf(p)], c)
  <2>1. Sound(p, R[p])
    OBVIOUS
  <2>2. c.subdir = "" /\ IsAbsolute(p) /\ HasName(p)
    BY <1>10, <2>1 DEF Top, Sound
  <2>3. AbsoluteName(NameOf(p), c) = p /\ ~Unnamed(NameOf(p), c)
    BY <2>2, NameBack
  <2> DEFINE r == R[p]
  <2>4. Sound(p, r)
    BY <2>1
  <2> HIDE DEF r
  <2>5. WasRead(r) /\ IsMap(r) /\ DOMAIN r = ReadFields /\ StaysWritten(r)
    BY <2>4 DEF Sound
  <2>6. ReadProject(SaveProject(r), c) = r
    BY <1>10, <2>5, ReadBack
  <2>7. ~ProjectThrows(SaveProject(r), c)
    BY <1>10, <2>4, SavedLoads
  <2> QED
    BY <1>4, <2>3, <2>6, <2>7 DEF r
<1>12. ~LoadThrows(y, Strictly)
  <2>1. \A k \in DOMAIN P : ~ProjectThrows(P[k], c) /\ ~Unnamed(k, c)
    BY <1>3, <1>11
  <2> QED
    BY <1>9, <2>1 DEF LoadThrows, c, StrictIn
<1>13. WellFormed(y)
  <2> SUFFICES ASSUME NEW k \in DOMAIN P, NEW j \in {"dependencies", "deps"}
               PROVE  IsWritten(Key(P[k], j, NoDependencies))
    BY <1>9 DEF WellFormed, Range
  <2>1. PICK p \in DOMAIN R : k = NameOf(p)
    BY <1>3
  <2> DEFINE r == R[p]
  <2>2. P[k] = SaveProject(r) /\ DOMAIN r.insertions = Insertions
    BY <1>4, <1>6, <2>1
  <2> HIDE DEF r
  <2>3. \/ Key(SaveProject(r), j, NoDependencies) = NoDependencies
        \/ Key(SaveProject(r), j, NoDependencies) = SaveDependencies(r.deps)
    BY <2>2, WrittenKeys
  <2> QED
    BY <2>2, <2>3, SavedWritten
<1>14. DOMAIN LoadProjects(y, Strictly) = DOMAIN R
  <2>1. DOMAIN LoadProjects(y, Strictly) = {AbsoluteName(k, c) : k \in Keys(y)}
    BY Loaded DEF c, StrictIn
  <2>2. \A p \in DOMAIN R : AbsoluteName(NameOf(p), c) = p
    BY <1>11
  <2>3. Keys(y) = {NameOf(p) : p \in DOMAIN R}
    BY <1>3, <1>9
  <2> QED
    BY <2>1, <2>2, <2>3, ZenonT(60)
<1>15. ASSUME NEW p \in DOMAIN R PROVE LoadProjects(y, Strictly)[p].read = R[p]
  <2>1. PICK k \in Keys(y) : /\ AbsoluteName(k, c) = p
                             /\ LoadProjects(y, Strictly)[p] = LoadProject(P[k], k, c)
    BY <1>9, <1>14, Loaded DEF c, StrictIn
  <2>2. PICK q \in DOMAIN R : k = NameOf(q)
    BY <1>3, <1>9
  <2>3. q = p
    BY <1>11, <2>1, <2>2
  <2>4. \A m, n, d : LoadProject(m, n, d).read = ReadProject(m, d)
    BY DEF LoadProject, Located
  <2> QED
    BY <1>11, <2>1, <2>2, <2>3, <2>4
<1>16. Read(y) = R
  <2> DEFINE loaded == LoadProjects(y, Strictly)
  <2>1. Read(y) = [p \in DOMAIN loaded |-> loaded[p].read]
    BY DEF Read, Strict, Strictly
  <2>2. DOMAIN loaded = DOMAIN R /\ \A p \in DOMAIN R : loaded[p].read = R[p]
    BY <1>14, <1>15
  <2> HIDE DEF loaded
  <2> QED
    BY <2>1, <2>2 DEF IsMap
<1>17. Rewritable(y)
  <2>1. \A k, l \in Keys(y) : NameIn(y, k) = NameIn(y, l) => k = l
    <3>1. \A k \in Keys(y) : \E p \in DOMAIN R : k = NameOf(p) /\ AbsoluteName(k, c) = p
      BY <1>3, <1>9, <1>11
    <3>2. \A k : NameIn(y, k) = AbsoluteName(k, c)
      BY DEF NameIn, c, StrictIn, Strictly
    <3> QED
      BY <3>1, <3>2
  <2>2. \A p \in DOMAIN R : IsAbsolute(p) /\ HasName(p) /\ StaysWritten(R[p])
    BY DEF Sound
  <2> QED
    BY <1>8, <1>16, <2>1, <2>2 DEF Rewritable
<1> QED
  BY <1>12, <1>13, <1>16, <1>17 DEF Fit, y

(* The projects of a specification that is fit are sound, whatever the     *)
(* files are.                                                              *)
LEMMA FitSound ==
    ASSUME NEW y, Fit(y), NEW tree
    PROVE  /\ DOMAIN LoadProjects(y, Context(tree)) = DOMAIN Read(y)
           /\ \A p \in DOMAIN Read(y) : LoadProjects(y, Context(tree))[p].read = Read(y)[p]
           /\ \A p \in DOMAIN Read(y) : Sound(p, Read(y)[p])
<1> DEFINE maps == ProjectMaps(Prepare(y))
           c == StrictIn(y)
<1>1. ASSUME NEW t
      PROVE  /\ DOMAIN LoadProjects(y, Context(t)) = {AbsoluteName(k, c) : k \in Keys(y)}
             /\ \A p \in DOMAIN LoadProjects(y, Context(t)) : \E k \in Keys(y) :
                   /\ AbsoluteName(k, c) = p
                   /\ LoadProjects(y, Context(t))[p].read = ReadProject(maps[k], c)
  <2> DEFINE d == ContextOf(y, Context(t))
  <2>1. Alike(d, c)
    BY ContextsAlike
  <2>2. /\ DOMAIN LoadProjects(y, Context(t)) = {AbsoluteName(k, d) : k \in Keys(y)}
        /\ \A p \in DOMAIN LoadProjects(y, Context(t)) : \E k \in Keys(y) :
              AbsoluteName(k, d) = p /\ LoadProjects(y, Context(t))[p] = LoadProject(maps[k], k, d)
    BY Loaded
  <2> HIDE DEF d, c, maps
  <2>3. \A n : AbsoluteName(n, d) = AbsoluteName(n, c)
    BY <2>1, AlikeNames
  <2>4. \A m : ReadProject(m, d) = ReadProject(m, c)
    BY <2>1, AlikeProjects
  <2>5. \A m, n : LoadProject(m, n, d).read = ReadProject(m, d)
    BY DEF LoadProject, Located
  <2>6. DOMAIN LoadProjects(y, Context(t)) = {AbsoluteName(k, c) : k \in Keys(y)}
    BY <2>2, <2>3
  <2>7. ASSUME NEW p \in DOMAIN LoadProjects(y, Context(t))
        PROVE  \E k \in Keys(y) : /\ AbsoluteName(k, c) = p
                                  /\ LoadProjects(y, Context(t))[p].read = ReadProject(maps[k], c)
    BY <2>2, <2>3, <2>4, <2>5
  <2> QED
    BY <2>6, <2>7
<1>2. /\ Read(y) = [p \in DOMAIN LoadProjects(y, Strictly) |-> LoadProjects(y, Strictly)[p].read]
      /\ DOMAIN Read(y) = {AbsoluteName(k, c) : k \in Keys(y)}
  <2>1. Read(y) = [p \in DOMAIN LoadProjects(y, Strictly) |-> LoadProjects(y, Strictly)[p].read]
    BY DEF Read, Strict, Strictly
  <2> QED
    BY <1>1, <2>1 DEF Strictly
<1> HIDE DEF maps, c
<1>3. ASSUME NEW p \in DOMAIN Read(y)
      PROVE  \E k \in Keys(y) : AbsoluteName(k, c) = p /\ Read(y)[p] = ReadProject(maps[k], c)
  <2>1. p \in DOMAIN LoadProjects(y, Strictly) /\ Read(y)[p] = LoadProjects(y, Strictly)[p].read
    BY <1>2
  <2> QED
    BY <1>1, <2>1 DEF Strictly
<1>4. \A k, l \in Keys(y) : AbsoluteName(k, c) = AbsoluteName(l, c) => k = l
  BY DEF Fit, Rewritable, NameIn, c, StrictIn, Strictly
<1>5. ASSUME NEW p \in DOMAIN Read(y) PROVE LoadProjects(y, Context(tree))[p].read = Read(y)[p]
  <2>1. PICK k \in Keys(y) : AbsoluteName(k, c) = p /\ Read(y)[p] = ReadProject(maps[k], c)
    BY <1>3
  <2>2. p \in DOMAIN LoadProjects(y, Context(tree))
    BY <1>1, <1>2
  <2>3. PICK l \in Keys(y) : /\ AbsoluteName(l, c) = p
                             /\ LoadProjects(y, Context(tree))[p].read = ReadProject(maps[l], c)
    BY <1>1, <2>2
  <2>4. k = l
    BY <1>4, <2>1, <2>3
  <2> QED
    BY <2>1, <2>3, <2>4
<1>6. ASSUME NEW p \in DOMAIN Read(y) PROVE Sound(p, Read(y)[p])
  <2>1. PICK k \in Keys(y) : AbsoluteName(k, c) = p /\ Read(y)[p] = ReadProject(maps[k], c)
    BY <1>3
  <2> DEFINE m == maps[k]
             r == ReadProject(m, c)
  <2>2. ~ProjectThrows(m, c)
    BY DEF Fit, LoadThrows, Keys, maps, c, StrictIn
  <2>3. \A j \in {"dependencies", "deps"} : IsWritten(Key(m, j, NoDependencies))
    BY DEF Fit, WellFormed, Keys, Range, maps
  <2>4. /\ r.source = SourceOfProject(m) /\ r.options = ReadOptions(m) /\ r.deps = Dependencies(m, c)
    BY DEF ReadProject
  <2>5. Read(y)[p] = r
    BY <2>1
  <2> HIDE DEF m, r
  <2>6. /\ SourceOfProject(m) # Throws /\ \A o \in Key(m, "options", {}) : o.level \in Levels
        /\ \A n \in AllNames(m) : ~IsLocal(AbsoluteName(n, c))
    BY <2>2 DEF ProjectThrows
  <2>7. WasRead(r) /\ IsMap(r) /\ DOMAIN r = ReadFields
    BY <2>3, <2>6, ReadIs, ReadMaps DEF r
  <2>8. c.known = {}
    BY ContextsAlike DEF c, StrictIn, Strictly
  <2>9. \A q \in DOMAIN r.deps : ~IsLocal(q)
    <3> SUFFICES ASSUME NEW q \in DOMAIN r.deps PROVE ~IsLocal(q)
      OBVIOUS
    <3>1. From(q, AllNames(m), c)
      BY <2>3, <2>4, DependenciesFrom
    <3> QED
      BY <2>6, <2>8, <3>1 DEF From, Hinted
  <2>10. \A o \in r.options : o.level \in Levels
    BY <2>4, <2>6 DEF ReadOptions
  <2>11. IsAbsolute(p) /\ HasName(p) /\ StaysWritten(r)
    BY <2>5 DEF Fit, Rewritable
  <2>12. Sound(p, r)
    BY <2>4, <2>6, <2>7, <2>9, <2>10, <2>11 DEF Sound
  <2> QED
    BY <2>5, <2>12
<1> QED
  BY <1>1, <1>2, <1>5, <1>6

LEMMA Rewritten ==
    ASSUME NEW y, Fit(y), NEW tree,
           NEW z, z = SaveConfig(LoadConfig(y, SubDirectories, Context(tree)))
    PROVE  Fit(z) /\ Read(z) = Read(y)
<1> DEFINE ctx == Context(tree)
           d == [ctx EXCEPT !.known = {}]
           projects == LoadConfig(y, SubDirectories, ctx)
           R == Read(y)
<1>1. d = ctx
  <2>1. \A rec, K : rec.known = K /\ IsContext(rec) /\ IsMap(rec) => [rec EXCEPT !.known = K] = rec
    BY DEF IsContext, IsMap
  <2>2. ctx.known = {} /\ IsMap(ctx) /\ IsContext(ctx)
    BY DEF Context, IsMap, IsContext
  <2> HIDE DEF ctx
  <2> QED
    BY <2>1, <2>2
<1>2. Directories(y) = <<>>
  BY DEF Fit, Rewritable
<1>3. /\ DOMAIN projects = DOMAIN LoadProjects(y, d)
      /\ \A p \in DOMAIN LoadProjects(y, d) : projects[p] = LoadProjects(y, d)[p]
  <2> HIDE DEF ctx
  <2> QED
    BY <1>2, NothingToAdd
<1>4. /\ DOMAIN LoadProjects(y, ctx) = DOMAIN R
      /\ \A p \in DOMAIN R : LoadProjects(y, ctx)[p].read = R[p]
      /\ \A p \in DOMAIN R : Sound(p, R[p])
  BY FitSound
<1>5. IsMap(R)
  BY DEF Read, IsMap
<1> HIDE DEF ctx, d, projects, R
<1>6. DOMAIN projects = DOMAIN R /\ \A p \in DOMAIN R : projects[p].read = R[p]
  BY <1>1, <1>3, <1>4
<1>7. Fit(SaveConfig(projects)) /\ Read(SaveConfig(projects)) = R
  BY <1>4, <1>5, <1>6, StrictAgain
<1> QED
  BY <1>7 DEF projects, ctx, R

StrictInv ==
    "projects" \in DOMAIN written /\ ~LoadThrows(written, Strictly) /\ Rewritable(written)
        => Fit(spec) /\ Read(spec) = Read(written)

LEMMA AuthorFits ==
    ASSUME NEW y \in Specifications, ~LoadThrows(y, Strictly), Rewritable(y)
    PROVE  Fit(y)
BY SpecificationsAssumption DEF Fit

LEMMA StrictStep ==
    ASSUME AuthorInv, StrictInv, [Next]_vars PROVE StrictInv'
<1>1. CASE BeautifyStrict
  <2> DEFINE tree == Revisions[tip]
  <2>1. /\ written' = written
        /\ spec' = SaveConfig(LoadConfig(spec, SubDirectories, Context(tree)))
    BY <1>1 DEF BeautifyStrict
  <2> HIDE DEF tree
  <2>2. Fit(spec) => Fit(spec') /\ Read(spec') = Read(spec)
    BY <2>1, Rewritten
  <2> QED
    BY <2>1, <2>2 DEF StrictInv, Strictly, Fit
<1>2. CASE Edit
  <2>1. written' \in Specifications /\ spec' = written'
    BY <1>2 DEF Edit
  <2>2. ~LoadThrows(written', Strictly) /\ Rewritable(written') => Fit(written')
    BY <2>1, AuthorFits
  <2> QED
    BY <2>1, <2>2 DEF StrictInv
<1>3. CASE UNCHANGED <<written, spec>>
  BY <1>3 DEF StrictInv
<1>4. BeautifyStrict \/ Edit \/ UNCHANGED <<written, spec>>
  BY DEF Next, vars, Push, BuildInPlace, Call, StartVerify, DownloadSpecification, RunCommand,
         CommandFails, Compare, Install
<1> QED
  BY <1>1, <1>2, <1>3, <1>4

(* The projects that are read from a specification stay the same, however  *)
(* often it is rewritten: what Project::save writes, load reads back       *)
(* (project.cpp, load and save; config.cpp, save), but for what Rewritable *)
(* says is lost.                                                           *)
THEOREM StrictCorrect == Spec => []StrictSame
<1>1. Init => AuthorInv /\ StrictInv
  <2> SUFFICES ASSUME Init PROVE AuthorInv /\ StrictInv
    OBVIOUS
  <2>1. written \in Specifications /\ spec = written /\ AuthorInv
    BY DEF Init, AuthorInv
  <2> QED
    BY <2>1, AuthorFits DEF StrictInv
<1>2. StrictInv => StrictSame
  BY DEF StrictInv, StrictSame, ReadsSame, Fit, Strictly
<1> QED
  BY <1>1, <1>2, AuthorStep, StrictStep, PTL DEF Spec
=============================================================================

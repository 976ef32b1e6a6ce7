------------------------------ MODULE Sources ------------------------------
(***************************************************************************)
(* Where the files of a package come from: source.cpp.                     *)
(*                                                                         *)
(* A source is its kind, its urls (one, but for "files"), and the fields   *)
(* of its kind that were given.  A text is a sequence of words, <<>> when  *)
(* it was not given; "{v}" stands for every place holder of a version, and *)
(* a revision is a text like the others.                                   *)
(***************************************************************************)
EXTENDS Integers, TLC, SequencesExt

CONSTANTS
    ValidUrls,      \* texts http.cpp and the pattern of cvs accept
    GithubUrls,     \* those that contain github.com
    BadVersions     \* texts Version(String) refuses

Throws == [throws |-> TRUE]
Key(node, key, default) == IF key \in DOMAIN node THEN node[key] ELSE default
\* the map f, and g where f has nothing; of a map what is not empty
Over(f, g) == [x \in (DOMAIN f) \cup (DOMAIN g) |-> IF x \in DOMAIN f THEN f[x] ELSE g[x]]
NotEmpty(all, empty) == [key \in {k \in DOMAIN all : ~empty[k]} |-> all[key]]
\* of some keys those that are written, and the first of them
Present(keys, node) == {i \in DOMAIN keys : keys[i] \in DOMAIN node}
FirstPresent(keys, node) == keys[CHOOSE i \in Present(keys, node) : \A j \in Present(keys, node) : i <= j]

(***************************************************************************)
(* The kinds, in the order they are looked for.  A field is formatted when *)
(* a version is applied to it, and one of the exclusive ones is needed.    *)
(***************************************************************************)
Git    == [fields |-> {"tag", "branch", "commit"}, formatted |-> {"tag", "branch"},
           exclusive |-> {"tag", "branch", "commit"}]
Hg     == [fields |-> Git.fields \cup {"revision"}, formatted |-> Git.formatted,
           exclusive |-> Git.exclusive \cup {"revision"}]
Bzr    == [fields |-> {"tag", "revision"}, formatted |-> {}, exclusive |-> {"tag", "revision"}]
Fossil == Git
Cvs    == [fields |-> {"tag", "branch", "revision", "module"}, formatted |-> {},
           exclusive |-> {"tag", "branch", "revision"}]
Svn    == [fields |-> {"tag", "branch", "revision"}, formatted |-> {"tag", "branch"},
           exclusive |-> {"tag", "branch", "revision"}]
Remote == [fields |-> {}, formatted |-> {}, exclusive |-> {}]

Kinds == <<"git", "hg", "bzr", "fossil", "cvs", "svn", "remote", "files">>
Kind == [git |-> Git, hg |-> Hg, bzr |-> Bzr, fossil |-> Fossil, cvs |-> Cvs, svn |-> Svn,
         remote |-> Remote, files |-> Remote]

NoSource == [kind |-> "git", urls |-> {}, fields |-> [f \in Git.fields |-> <<>>]]

(***************************************************************************)
(* Reading and writing.  Reading takes a text below the key of a kind.     *)
(* The urls of "files" are always written as a sequence, which is another  *)
(* key here: a map that has it cannot be read again (source.cpp:1012, and  *)
(* 1073).                                                                  *)
(***************************************************************************)
KeyOf(kind) == IF kind = "files" THEN "files[]" ELSE kind
SourceOf(node, kind) ==
    [kind |-> kind, urls |-> node[kind],
     fields |-> [f \in Kind[kind].fields |-> Key(node, f, <<>>)]]
LoadSource(node) ==
    IF Present(Kinds, node) = {} THEN Throws ELSE SourceOf(node, FirstPresent(Kinds, node))
SaveSource(s) ==
    Over([k \in {KeyOf(s.kind)} |-> s.urls], NotEmpty(s.fields, [f \in DOMAIN s.fields |-> s.fields[f] = <<>>]))

IsValidUrl(s) == s.urls # {} /\ s.urls \subseteq ValidUrls
IsValidSource(s) ==
    /\ s.urls # {}
    /\ LET given == {f \in Kind[s.kind].exclusive : s.fields[f] # <<>>}
       IN  Kind[s.kind].exclusive # {} => \E f \in given : given = {f}

(***************************************************************************)
(* Versions.  A version that was not given is taken from the source; what  *)
(* is no version is left as it was.                                        *)
(***************************************************************************)
FirstOf(s, order, default) ==
    LET given == SelectSeq(order, LAMBDA f : s.fields[f] # <<>>)
        named == given[1] = "revision" /\ s.kind # "cvs"
    IN  IF given = <<>> THEN default
        ELSE (IF named THEN <<"revision: ">> ELSE <<>>) \o s.fields[given[1]]
GitVersion(s)    == FirstOf(s, <<"branch", "tag">>, <<"master">>)
HgVersion(s)     == FirstOf(s, <<"branch", "tag", "revision">>, <<"default">>)
BzrVersion(s)    == FirstOf(s, <<"tag", "revision">>, <<"trunk">>)
FossilVersion(s) == FirstOf(s, <<"branch", "tag">>, <<"trunk">>)
CvsVersion(s)    == FirstOf(s, <<"branch", "tag", "revision">>, <<"trunk">>)
SvnVersion(s)    == FirstOf(s, <<"branch", "tag", "revision">>, <<"trunk">>)
LoadVersion(s, version) ==
    LET found == CASE s.kind = "git"    -> GitVersion(s)
                   [] s.kind = "hg"     -> HgVersion(s)
                   [] s.kind = "bzr"    -> BzrVersion(s)
                   [] s.kind = "fossil" -> FossilVersion(s)
                   [] s.kind = "cvs"    -> CvsVersion(s)
                   [] s.kind = "svn"    -> SvnVersion(s)
                   [] OTHER             -> version
    IN  IF version # <<>> \/ found \in BadVersions THEN version ELSE found

Formatted(text, version) == FlattenSeq([i \in DOMAIN text |->
                                IF text[i] = "{v}" THEN version ELSE <<text[i]>>])
ApplyVersion(s, version) ==
    [s EXCEPT !.urls = {Formatted(u, version) : u \in @},
              !.fields = [f \in DOMAIN @ |-> IF f \in Kind[s.kind].formatted
                                             THEN Formatted(@[f], version) ELSE @[f]]]

(***************************************************************************)
(* Downloading.  A command needs that some effects are not there yet, has  *)
(* effects on the directory, and a failure of it may leave some behind:    *)
(*   zip, part   an archive, and some of what is in it,                    *)
(*   dir         the directory a version control system makes,             *)
(*   remote      a remote that was added to it,                            *)
(*   head        the files of the default branch, or those fetched last,   *)
(*   want        the files that were asked for.                            *)
(***************************************************************************)
Command(absent, gives) == [absent |-> absent, gives |-> gives, drops |-> {}, spills |-> {}]
Given(s, f) == Key(s.fields, f, <<>>) # <<>>
When(s, fields, commands) == IF \E f \in fields : Given(s, f) THEN commands ELSE <<>>

Archive == <<Command({}, {"zip"}),
             [absent |-> {}, gives |-> {"want"}, drops |-> {"zip", "part"}, spills |-> {"part"}]>>
Separate == <<Command({}, {"want"})>>
Update == <<Command({}, {"want"})>>
GitCommands(s) ==
    <<Command({}, {"dir"}), Command({"remote"}, {"remote"})>>
    \o When(s, Git.exclusive, <<Command({}, {"head"})>> \o Update)
HgCommands(s) == <<Command({"dir"}, {"dir", "head"})>> \o When(s, Hg.exclusive, Update)
BzrCommands(s) == <<Command({"dir"}, {"dir", "head"})>> \o When(s, Bzr.exclusive, Update)
FossilCommands(s) ==
    <<Command({"dir"}, {"dir"}), Command({}, {"head"})>> \o When(s, Git.exclusive, Update)
CvsCommands(s) == <<Command({}, {"dir", "head"})>> \o When(s, Cvs.exclusive, Update)
SvnCommands == <<Command({}, {"dir", "want"})>>
Commands(s) ==
    CASE s.kind = "git"    -> GitCommands(s)
      [] s.kind = "hg"     -> HgCommands(s)
      [] s.kind = "bzr"    -> BzrCommands(s)
      [] s.kind = "fossil" -> FossilCommands(s)
      [] s.kind = "cvs"    -> CvsCommands(s)
      [] s.kind = "svn"    -> SvnCommands
      [] s.kind = "remote" -> Archive
      [] OTHER             -> Separate

FromGithub(s) == s.kind = "git" /\ s.urls \cap GithubUrls # {}
\* the urls of archives are checked, those of repositories are not
Checked(s) == s.kind \in {"remote", "files"} => IsValidUrl(s)
Tries(s) == IF s.kind \in {"remote", "files"} THEN 1 ELSE 3
=============================================================================

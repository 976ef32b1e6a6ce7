---------------------------- MODULE PublishingMC ----------------------------
(* An author of some specifications, a source of two revisions and a tag, *)
(* and every failure of the commands that download it.                     *)
EXTENDS Publishing

MCElements ==
    ("" :> <<>>) @@ ("a" :> <<"a">>) @@ ("b" :> <<"b">>) @@ ("c" :> <<"c">>) @@ ("d" :> <<"d">>) @@ ("lib" :> <<"lib">>)
    @@ ("dir" :> <<"dir">>) @@ ("dir.a" :> <<"dir", "a">>) @@ ("dir.b" :> <<"dir", "b">>)
    @@ ("dir.c" :> <<"dir", "c">>) @@ ("dir.d" :> <<"dir", "d">>) @@ ("dir2" :> <<"dir2">>)
    @@ ("dir2.d" :> <<"dir2", "d">>) @@ ("origin" :> <<"origin">>)
    @@ ("name0" :> <<"name0">>)
    @@ ("org.x" :> <<"org", "x">>) @@ ("org.y" :> <<"org", "y">>) @@ ("org.z" :> <<"org", "z">>)
    @@ ("pvt.me" :> <<"pvt", "me">>) @@ ("pvt.me.a" :> <<"pvt", "me", "a">>)
    @@ ("pvt.me.b" :> <<"pvt", "me", "b">>) @@ ("pvt.me.lib" :> <<"pvt", "me", "lib">>)
MCSourceNames == {"a.cpp", "b.cpp"}
MCHeaderNames == {"a.h", "b.h"}
MCValidUrls == {<<"git.site">>, <<"hg.site">>, <<"github.com">>,
                <<"http.site/", "1">>, <<"http.site/", "{v}">>}
MCGithubUrls == {<<"github.com">>}
MCBranches == {<<"master">>, <<"default">>, <<"trunk">>}

\* the branch gets a directory of headers, the tag has one of sources only
MCRevisions == <<
    (<<"src", "a.cpp">> :> "1") @@ (<<"src", "a.h">> :> "1") @@ (<<"LICENSE">> :> "mit"),
    (<<"src", "a.cpp">> :> "2") @@ (<<"include", "a.h">> :> "2") @@ (<<"LICENSE">> :> "mit")>>
MCTagContents == (<<"r", "1">> :> ((<<"lib", "src", "b.cpp">> :> "1") @@ (<<"lib", "src", "b.h">> :> "1")))

Rule(from, to) == [from |-> from, to |-> to]
FilePatch(name, text) == [from |-> name, text |-> text]

\* dependencies that are private, public, or both
Groups ==
    [kind |-> "groups", of |->
        [private |-> [kind |-> "map", of |-> ("org.x" :> [version |-> "1", ref |-> "x"])
                                             @@ ("org.y" :> [condition |-> {"WIN32"}])],
         public |-> [kind |-> "list", of |->
            <<[name |-> "org.x", version |-> "2", include_directories_only |-> TRUE],
              [package |-> "org.z"]>>]]]
FromGit ==
    [source |-> [git |-> {<<"git.site">>}, branch |-> <<"master">>],
     projects |-> "pvt.me.lib" :> [dependencies |-> Groups]]
\* a tag, and everything a project can have that is written back
FromHg ==
    [common_settings |-> [pre_sources |-> <<"common">>],
     source |-> [hg |-> {<<"hg.site">>}, tag |-> <<"r", "{v}">>], version |-> <<"1">>,
     projects |-> "pvt.me.lib" :> [pre_sources |-> <<"own">>, type |-> "library",
     files |-> {[root |-> <<"lib">>, files |-> {Entry(<<"src", "b.cpp">>, "file"), Entry(<<"src", "b.h">>, "file")}],
                [root |-> <<>>, files |-> {Entry(<<"include">>, "below")}]},
     options |-> {[level |-> "any", kind |-> "definitions", condition |-> "", visibility |-> "public",
                   value |-> "X"]},
     patch |-> [replace |-> {Rule("one", "1"), Rule("two", "2")}, regex_replace |-> {Rule("o.*", "1")}]]]
FromArchive == [source |-> [remote |-> {<<"http.site/", "{v}">>}], version |-> <<"1">>]
Rooted ==
    [root_project |-> "pvt.me",
     source |-> [git |-> {<<"git.site">>}, branch |-> <<"master">>],
     pre_sources |-> <<"root">>,
     projects |->
       ("a" :> [pre_sources |-> <<"a">>, static_only |-> TRUE,
                dependencies |-> [kind |-> "map", of |-> "b" :> [version |-> "*"]]])
       @@ ("b" :> [files |-> {[root |-> <<"src">>, files |-> {Entry(<<>>, "below")}]}])]
\* two directories, of which one is loaded for those that need it
Directory(name, all) == [dir |-> name, name |-> name, all |-> all]
Split ==
    [add_directories |-> <<Directory("dir", FALSE), Directory("dir2", FALSE)>>,
     dependencies |-> [kind |-> "list", of |->
        <<[package |-> "org.x", local |-> "dir.a", version |-> "*"]>>]]
MCSubDirectories ==
    ("dir" :> [projects |->
        ("a" :> [dependencies |-> [kind |-> "map", of |-> "b" :> [version |-> "*"]]])
        @@ ("b" :> [dependencies |-> [kind |-> "map", of |-> "c" :> [version |-> "*"]]])
        @@ ("c" :> <<>>) @@ ("d" :> <<>>)])
    @@ ("dir2" :> [projects |-> "d" :> [license |-> "MIT"]])
\* the only source with two ways to download it
OnGithub == [source |-> [git |-> {<<"github.com">>}, tag |-> <<"r", "{v}">>], version |-> <<"1">>]
\* the headers of the branch, which is published under a number, are not in the archive
OnlySources ==
    [common_settings |-> [license |-> "LICENSE"],
     source |-> [git |-> {<<"git.site">>}, branch |-> <<"master">>], version |-> <<"1">>,
     projects |-> "pvt.me.lib" :>
        [files |-> {[root |-> <<"src">>, files |-> {Entry(<<"a.cpp">>, "file")}]},
         patch |-> [regex_replace |-> {Rule("o.*", "1")}, files |-> {FilePatch("a.cpp", <<>>)}]]]
\* two projects that are not written back: one loses its rules, one its source
Losing ==
    [version |-> <<"1">>, projects |->
        ("pvt.me.a" :> [patch |-> [replace |-> {Rule("one", "1")}, files |-> {FilePatch("a.cpp", <<>>)}]])
        @@ ("pvt.me.b" :> [source |-> [files |-> {<<"http.site/", "1">>}]])]
MCSpecifications ==
    {FromGit, OnlySources, FromHg, FromArchive, OnGithub, Rooted, Split, Losing}
MCCalls == {<<"add", "version", "lib", CppanFile>>,
            <<"add", "version", "origin", "lib", CppanFile>>,
            <<"add", "version", "pvt.me.lib", "1", "master">>,
            <<"update", "version", "origin", "lib", "1">>,
            <<"update", "version", "origin", "lib", "master">>,
            <<"remove", "version", "pvt.me.lib", "1">>,
            <<"remove", "project", "origin", "lib">>}
MCRemotes == "origin" :> "me"

(* The author sees to what the theorem about building asks, and loses what *)
(* cannot be written back by one of the specifications.                    *)
ASSUME AuthorAssumption ==
    /\ NeedsAreThere
    /\ {y \in Specifications : "projects" \in DOMAIN y /\ ~Rewritable(y)} = {Losing}
=============================================================================

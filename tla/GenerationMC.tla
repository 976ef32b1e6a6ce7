---------------------------- MODULE GenerationMC ----------------------------
(* gui uses png, png any release of z; gui and app use each other.         *)
EXTENDS Generation

CONSTANTS z1, z2, png, gui, app

Chain(z) == [p \in Pkgs |->
    CASE p \in {z1, z2} -> {} [] p = png -> {z} [] p = gui -> {png, app} [] p = app -> {gui}]
MCWorlds == <<Chain(z1), Chain(z2)>>
MCDependents == [p \in Pkgs |->
    CASE p \in {z1, z2} -> {png} [] p = png -> {gui} [] p = gui -> {app} [] p = app -> {gui}]
MCProjects == {<<{app}, {app}>>, <<{png}, {gui}>>}
=============================================================================

------------------------------ MODULE DatabasesMC ------------------------------
(* Small values for the constants of Databases: every kind of startup      *)
(* action, an action that is repeated, and one that repeats a part.        *)
EXTENDS Databases, TLC

CONSTANTS p1, p2

MCActions == << <<>>, <<"schema">>, <<"exp">>, <<"packages_db">>, <<"exp">>,
                <<"exp", "src">> >>
Symmetry == Permutations(Procs)
MCTables == {"StartupActions", "InstalledPackages"}
MCDataTables == {"Projects", "ProjectVersions"}
=============================================================================

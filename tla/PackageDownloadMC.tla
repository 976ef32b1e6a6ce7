-------------------------- MODULE PackageDownloadMC --------------------------
(* Small values for the constants of PackageDownload.                      *)
EXTENDS PackageDownload

CONSTANTS p1, p2, k1, k2, k3, source, old_source

(* Every publication has the specification and a source file; the first   *)
(* one has a source file that the later ones drop.                         *)
MCFiles == {Spec_yml, source, old_source}
MCArchive == [h \in Hash |-> IF h = 1 THEN Files ELSE {Spec_yml, source}]

OneRound == <<{k1, k2}>>
TwoFiles == {Spec_yml, source}
MixedRounds == <<{k1, k2}, {k3}>>
SingleRound == <<{k1}>>
=============================================================================

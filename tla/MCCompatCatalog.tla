-------------------------- MODULE MCCompatCatalog --------------------------
(* The current compatibility and a candidate that may need a report or not; two
   free paths, and one build besides that of the current one. *)
EXTENDS CompatCatalog, TLC

CONSTANTS c1, f1, f2, x1, v1, v2, d1, d2

MCCompat == {Base, c1}
MCPath == {BaseLock, BaseAcceptance, f1, f2}
MCVersion == {v1, v2}
MCArtifact == {BaseArtifact, x1}
MCProvider == {"github-actions", "github"}
MCStamp == {d1, d2}

MCSymmetry == Permutations({f1, f2}) \cup Permutations(MCVersion) \cup Permutations(MCStamp)
=============================================================================

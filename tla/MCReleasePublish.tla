-------------------------- MODULE MCReleasePublish --------------------------
(* Two runs on two commits, whose payloads and scripts may differ or not. *)
EXTENDS ReleasePublish, TLC

CONSTANTS r1, r2, p1, p2, s1, s2

MCTwoRuns == {r1, r2}
MCPayload == {p1, p2}
MCRecipe == {s1, s2}

MCAllTriggers == {"push", "current", "exact", "repair"}

MCSymmetry == Permutations(Run) \cup Permutations(Payload) \cup Permutations(Recipe)
=============================================================================

--------------------------- MODULE MCSubagentLive ---------------------------
(* Two threads, one recent item each, and requests that replace each other. *)
EXTENDS SubagentLive, TLC

CONSTANTS t1, t2, i1, i2, q1, q2

MCThreads == {t1, t2}
MCItems == {i1, i2}
MCRequests == {q1, q2}

MCTotals == Token
MCAnyLoaded == SUBSET Thread

MCSymmetry == Permutations(Thread) \cup Permutations(Item) \cup Permutations(Request)
=============================================================================

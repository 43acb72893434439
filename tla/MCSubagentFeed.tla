--------------------------- MODULE MCSubagentFeed ---------------------------
(* Two sub-agents: one can be archived or dropped while the other works. *)
EXTENDS SubagentFeed

CONSTANTS t1, t2

MCOneThread == {t1}
MCTwoThreads == {t1, t2}
MCNone == {}
MCNothingLoaded == {{}}
=============================================================================

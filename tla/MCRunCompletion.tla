-------------------------- MODULE MCRunCompletion --------------------------
(* Two exact runs (of one thread or of two), two joiners and two different
   receipts, so that duplicates and conflicts both occur. *)
EXTENDS RunCompletion

CONSTANTS r1, r2, w1, w2, ok, bad

MCRef == {r1, r2}
MCWaiter == {w1, w2}
MCTerminal == {ok, bad}
=============================================================================

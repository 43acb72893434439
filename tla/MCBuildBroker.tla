---------------------------- MODULE MCBuildBroker ----------------------------
(* Two targets: one can be built while the other is not. *)
EXTENDS BuildBroker

CONSTANTS t1, t2, r1

MCTarget == {t1, t2}
MCOneRun == {r1}
=============================================================================

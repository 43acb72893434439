-------------------------- MODULE MCUpstreamWatch --------------------------
(* Two upstream releases after the one that is supported; two issues, so that
   a second blocker could be opened. *)
EXTENDS UpstreamWatch

CONSTANTS i1, i2

MCIssue == {i1, i2}
=============================================================================

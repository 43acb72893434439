---------------------------- MODULE MCNativeJoin ----------------------------
(* One root and two children, the fewest agents that can wait in a circle
   and that make a batch of two; one child where it is used again. *)
EXTENDS NativeJoin

CONSTANTS a1, a2

MCChild == {a1, a2}
MCOnlyChild == {a1}
MCInterrupt == {"Interrupted"}

MCNobody == {}
MCOnce == [a \in Agent |-> 1]
MCRootTwice == [a \in Agent |-> IF a = Root THEN 2 ELSE 0]
=============================================================================

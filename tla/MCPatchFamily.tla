--------------------------- MODULE MCPatchFamily ---------------------------
(* Two bindings, r1 and r2, that share an addition and an exact patch, and a
   release r3 to which the adapter of r1 applies and that of r2 does not.  One
   more adapter applies everywhere and leaves a path alone that both touch. *)
EXTENDS PatchFamily, TLC

CONSTANTS r1, r2, r3, added, old, hook, b0, b1, b2, b3, n0, n1,
          addition, exact, adapter1, adapter2, adapter3, x1

MCVersion == {r1, r2, r3}
MCSourcePath == {added, old, hook}
MCText == {addition, exact, adapter1, adapter2, adapter3}
MCArtifact == {x1}
MCSlot == 1..3

MCHook == (r1 :> b1) @@ (r2 :> b2) @@ (r3 :> b3)
MCTrees == [v \in MCVersion |-> (added :> None) @@ (old :> b0) @@ (hook :> MCHook[v])]

MCTouch ==
  (addition :> (added :> [onto |-> {None}, gives |-> n0])) @@
  (exact :> (old :> [onto |-> {b0}, gives |-> b1])) @@
  (adapter1 :> (hook :> [onto |-> {b1, b3}, gives |-> n0] @@
                added :> [onto |-> {n0}, gives |-> n1])) @@
  (adapter2 :> (hook :> [onto |-> {b2}, gives |-> n0])) @@
  (adapter3 :> (added :> [onto |-> {n0}, gives |-> n1]))

MCBound(v, adapter) ==
  [id |-> v,
   patches |-> <<[file |-> <<"additions", 1>>, sha |-> addition],
                 [file |-> <<"patches", 2>>, sha |-> exact],
                 [file |-> <<v, 3>>, sha |-> adapter]>>,
   present |-> [p \in {old, hook} |-> MCTrees[v][p]],
   absent |-> {added},
   artifact |-> Placeholder]

MCBounds == (r1 :> MCBound(r1, adapter1)) @@ (r2 :> MCBound(r2, adapter2)) @@ (r3 :> None)

MCSeed ==
  [index |-> <<[id |-> r1, sha |-> MCBounds[r1]], [id |-> r2, sha |-> MCBounds[r2]]>>,
   bound |-> MCBounds,
   files |-> [f \in ({"additions", "patches"} \cup MCVersion) \X MCSlot |->
                CASE f = <<"additions", 1>> -> addition
                  [] f = <<"patches", 2>> -> exact
                  [] f = <<r1, 3>> -> adapter1
                  [] f = <<r2, 3>> -> adapter2
                  [] OTHER -> None]]
=============================================================================

------------------------- MODULE MCModuleContainer -------------------------
(***************************************************************************)
(* A pool of 8 solvables that one more repo can grow to 9, so that a Map  *)
(* built at 8 (one byte) misses the new Id.  Id 0 is the @System          *)
(* platform; modules n1:s1 (1), n2:s1 (3) and n2:s2 (8, only after the   *)
(* growth), so n2 has two streams.  Modules 1 and 3 have disjoint         *)
(* artifacts, so a testQuery that kept the first filter would miss the    *)
(* second.                                                                *)
(***************************************************************************)
EXTENDS ModuleContainer, TLC

CONSTANTS n1, n2, s1, s2, p1, p2

MCMaxPool == 9
MCIds == 0 .. MCMaxPool - 1
MCModIds == {1, 3, 8}
MCSystemIds == {0}
MCNames == {n1, n2}
MCStreams == {s1, s2}
MCModName == [id \in MCIds |-> IF id = 1 THEN n1 ELSE n2]
MCModStream == [id \in MCIds |-> IF id = 8 THEN s2 ELSE s1]
MCPkgs == {p1, p2}
MCArtifacts == [id \in MCIds |-> IF id \in {1, 8} THEN {p1} ELSE {p2}]
====

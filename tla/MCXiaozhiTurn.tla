--------------------------- MODULE MCXiaozhiTurn ---------------------------
(* Instances of XiaozhiTurn for TLC.                                       *)
EXTENDS XiaozhiTurn, TLC

CONSTANTS a1, a2, h1, h2

NoSlots   == {}
OneTask   == {a1}
TwoTasks  == {a1, a2}
OneSayer  == {h1}
TwoSayers == {h1, h2}

\* slots of one kind are interchangeable
SlotSymmetry == Permutations(Tasks) \cup Permutations(Sayers)
=============================================================================

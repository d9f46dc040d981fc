-------------------------------- MODULE MCAdmin --------------------------------
(***************************************************************************)
(* Small instances of AdminIntegrity for TLC.                              *)
(***************************************************************************)
EXTENDS AdminIntegrity, TLC

CONSTANTS c1, c2, m1, m2, g1, g2, k1, a, b

MCSelects == {{m1}, {m2}}

MCTargets == {{}, {<<c1, m1>>}, {<<c1, m1>>, <<c2, m1>>}}

MCKeyModels == {{}, {m2}}

MCKeyGroups == {<<>>, <<a>>, <<b, a>>}

GroupSymmetry == Permutations(GroupIds)
===============================================================================

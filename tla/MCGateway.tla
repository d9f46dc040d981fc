------------------------------- MODULE MCGateway -------------------------------
(***************************************************************************)
(* Small instances of Gateway for TLC.                                     *)
(***************************************************************************)
EXTENDS Gateway, TLC

CONSTANTS c1, c2, m1, g1, k1, a

MCProvider == (c1 :> "gemini" @@ c2 :> "openai_compatible")

MCSelects == {{m1}}

MCTargets == {{<<c1, m1>>}, {<<c2, m1>>}}

MCKeyModels == {{}}

MCKeyGroups == {<<>>, <<a>>}
===============================================================================

--------------------------- MODULE MCRoutingService ---------------------------
(***************************************************************************)
(* Small instances of RoutingService for TLC.                              *)
(***************************************************************************)
EXTENDS RoutingService, TLC

CONSTANTS k1, k2, k3, r1, r2, r3, m1, m2

MCCreatedAt == (k1 :> 1 @@ k2 :> 2)
MCServes == (k1 :> {} @@ k2 :> {m1})

Plain(m) ==
  [model |-> m, scope |-> Creds, primary |-> "least_used", fallback |-> NoFallback]

Ranked(m, primary, fallback) ==
  [Plain(m) EXCEPT !.primary = primary, !.fallback = fallback]

MCInputs == {Plain(m1), Ranked(m1, "smartest", "round_robin")}

MCAnswers ==
  {[status |-> 200, body |-> "plain"], [status |-> 429, body |-> "daily"],
   [status |-> 500, body |-> "plain"]}

MCSettings ==
  {[attempts |-> 2, loopDeadline |-> 2, timeout |-> 1],
   [attempts |-> 1, loopDeadline |-> 1, timeout |-> 2]}

(* The overlap instance: three requests, and an upstream that only ever    *)
(* succeeds, drops the connection or never answers.                        *)
OverlapInputs == {Plain(m1)}

OverlapAnswers == {[status |-> 200, body |-> "plain"]}

OverlapSettings == {[attempts |-> 2, loopDeadline |-> 1, timeout |-> 2]}

RequestSymmetry == Permutations(Requests)
===============================================================================

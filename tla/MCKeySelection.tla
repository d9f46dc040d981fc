---------------------------- MODULE MCKeySelection ----------------------------
(***************************************************************************)
(* Three credentials, and what their rows can hold as far as the order can *)
(* tell: every state, counts that differ and that agree, rates that order  *)
(* two keys otherwise than their counts do, known and unknown latencies.   *)
(***************************************************************************)
EXTENDS CandidatePool, TLC

CONSTANTS k1, k2, k3

MCCreatedAt == (k1 :> 1 @@ k2 :> 2 @@ k3 :> 3)

Used == {<<0, 0>>, <<1, 1>>, <<2, 1>>}  \* use_count, error_count

Profile(state, until, use, lastUsed, latency) ==
  [state |-> state, until |-> until, uses |-> use[1], errors |-> use[2],
   lastUsed |-> lastUsed, latency |-> latency]

MCProfiles ==
  {Profile("ready", 0, u, l, t) : u \in Used, l \in {0, 1}, t \in {NoLatency, 1}}
  \cup {Profile("cooling", d, u, 1, 1) : d \in {2, 3}, u \in {<<1, 1>>, <<2, 1>>}}
  \cup {Profile("cooling", 1, <<1, 0>>, 1, 1),
        Profile("disabled", 0, <<1, 0>>, 1, NoLatency)}

(* Ready keys of which one has more errors, in many more picks.            *)
MCErrorProfiles == {Profile("ready", 0, u, 1, 1) : u \in {<<1, 1>>, <<8, 2>>}}
===============================================================================

---------------------------- MODULE FallbackContract ----------------------------
(***************************************************************************)
(* What RoutingService.route promises its callers, without its means: no   *)
(* clock, no table of key states, no pool, no budget.  A request is sent   *)
(* with one key after another, never with the same key twice; it returns   *)
(* one answer, which is of the last key it was sent with; that answer is   *)
(* what the request log holds; and nothing is ever taken back.             *)
(***************************************************************************)
EXTENDS Naturals, Sequences

CONSTANTS Requests, Keys, NoKey

VARIABLES
  state,   \* "idle", "waiting" for the upstream, "answered", "lost" in a crash
  sent,    \* the keys the request was sent with, in order
  answer,  \* what the caller got: outcome, key, number of attempts
  logged   \* the answers the request log holds for the request

vars == <<state, sent, answer, logged>>

NoAnswer == [outcome |-> "none", key |-> NoKey, attempts |-> 0]

Refusal(outcome) == [NoAnswer EXCEPT !.outcome = outcome]

AnswerOf(keys, outcome) ==
  [outcome |-> outcome, key |-> keys[Len(keys)], attempts |-> Len(keys)]

Init ==
  /\ state = [r \in Requests |-> "idle"]
  /\ sent = [r \in Requests |-> <<>>]
  /\ answer = [r \in Requests |-> NoAnswer]
  /\ logged = [r \in Requests |-> {}]

(* No key serves the request, or its time is up before it could be sent.   *)
Refuse(r) ==
  /\ state[r] = "idle"
  /\ state' = [state EXCEPT ![r] = "answered"]
  /\ \E outcome \in {"no_keys", "error"} :
       answer' = [answer EXCEPT ![r] = Refusal(outcome)]
  /\ UNCHANGED <<sent, logged>>

(* The first attempt, or one more with a key not used yet.                 *)
Send(r, k) ==
  /\ state[r] \in {"idle", "waiting"}
  /\ \A i \in 1..Len(sent[r]) : sent[r][i] # k
  /\ state' = [state EXCEPT ![r] = "waiting"]
  /\ sent' = [sent EXCEPT ![r] = Append(@, k)]
  /\ UNCHANGED <<answer, logged>>

Finish(r, outcome) ==
  /\ state[r] = "waiting"
  /\ state' = [state EXCEPT ![r] = "answered"]
  /\ answer' = [answer EXCEPT ![r] = AnswerOf(sent[r], outcome)]
  /\ logged' = [logged EXCEPT ![r] = {AnswerOf(sent[r], outcome)}]
  /\ UNCHANGED sent

(* The process dies: every request that waits is lost, unanswered.         *)
Lose ==
  /\ \E r \in Requests : state[r] = "waiting"
  /\ state' = [r \in Requests |-> IF state[r] = "waiting" THEN "lost" ELSE state[r]]
  /\ UNCHANGED <<sent, answer, logged>>

Next ==
  \/ \E r \in Requests :
       \/ Refuse(r)
       \/ \E k \in Keys : Send(r, k)
       \/ \E outcome \in {"success", "error", "timeout", "aborted"} :
            Finish(r, outcome)
  \/ Lose

Spec == Init /\ [][Next]_vars
===============================================================================

----------------------------- MODULE CandidatePool -----------------------------
(***************************************************************************)
(* The retry loop's use of orderCandidates on one snapshot, without the    *)
(* rest of the system: the pool is an array sorted by the primary strategy *)
(* and sorted again by the fallback before every later attempt.  Compared  *)
(* with KeySelection!Best on the set of what remains, and with what each   *)
(* strategy is documented to prefer.                                       *)
(***************************************************************************)
EXTENDS KeySelection, Sequences, SequencesExt, FiniteSets

CONSTANTS
  Profiles,  \* what the row of a pair can hold at the snapshot
  Now        \* the time of the snapshot, against which cooldowns are read

ASSUME PoolAssumption ==
  /\ IsFiniteSet(Creds)
  /\ Profiles \subseteq
       [state : KeyStates, until : Nat, uses : Nat, lastUsed : Nat,
        errors : Nat, latency : Nat \cup {NoLatency}]
  /\ Now \in Nat

NoFallback == "none"

VARIABLES
  primary, fallback,  \* the plan
  queue,              \* pool: KeyCandidate[]
  taken               \* the entries shifted so far

vars == <<primary, fallback, queue, taken>>

Keyed(c, p) ==
  [cred |-> c, state |-> p.state, until |-> p.until, uses |-> p.uses,
   lastUsed |-> p.lastUsed, errors |-> p.errors, latency |-> p.latency]

(* orderCandidates: Array.prototype.sort leaves no entry behind one that   *)
(* the comparator puts after it.                                           *)
OrderCandidates(candidates, strategy) ==
  CHOOSE q \in SetToSeqs(candidates) :
    \A i, j \in DOMAIN q : i < j => ~Precedes(strategy, Now, q[j], q[i])

Init ==
  /\ primary \in Strategies
  /\ fallback \in Strategies \cup {NoFallback}
  /\ \E p \in [Creds -> Profiles] :
       queue = OrderCandidates({Keyed(c, p[c]) : c \in Creds}, primary)
  /\ taken = <<>>

StrategyNow == IF taken # <<>> /\ fallback # NoFallback THEN fallback ELSE primary

(* Slip: the pool is never sorted again by the fallback.                   *)
ShiftAsSorted ==
  /\ queue # <<>>
  /\ taken' = Append(taken, Head(queue))
  /\ queue' = Tail(queue)
  /\ UNCHANGED <<primary, fallback>>

Shift ==
  /\ queue # <<>>
  /\ LET pool == IF taken # <<>> /\ fallback # NoFallback
                 THEN OrderCandidates(ToSet(queue), fallback)
                 ELSE queue
     IN /\ taken' = Append(taken, Head(pool))
        /\ queue' = Tail(pool)
  /\ UNCHANGED <<primary, fallback>>

Next == Shift

Spec == Init /\ [][Next]_vars

-------------------------------------------------------------------------------
(* The comparator orders any two candidates of the pool one way only, so   *)
(* that sort is deterministic: the same snapshot gives the same routing.   *)
OrderIsDecided ==
  \A a, b \in ToSet(queue) : a # b =>
    (Precedes(StrategyNow, Now, a, b) <=> ~Precedes(StrategyNow, Now, b, a))

(* The entry the array yields is the Best of the set of what remains.      *)
ShiftYieldsBest ==
  [][taken'[Len(taken')] = Best(StrategyNow, Now, ToSet(queue))]_vars

(* README, "Best-key selection": ready keys first; among the keys still    *)
(* cooling down, the soonest-expiring first, whatever the strategies are.  *)
HealthBeforeStrategy ==
  \A i, j \in DOMAIN taken : i < j /\ taken[i].state # "ready" =>
    /\ taken[j].state # "ready"
    /\ taken[j].state = "cooling" /\ taken[j].until > Now =>
         taken[i].state = "cooling" /\ taken[i].until \in (Now + 1)..taken[j].until

(* An older key goes first where the strategy sees no difference, and a    *)
(* newer one goes first only where the strategy prefers it: fewer picks,   *)
(* a longer rest, a lower known latency, a lower error rate.               *)
BetterFor(strategy, a, b) ==
  LET quicker == a.latency # NoLatency /\ (b.latency = NoLatency \/ a.latency < b.latency)
      picks(c) == IF c.uses = 0 THEN 1 ELSE c.uses
      rateOfA == a.errors * picks(b)
      rateOfB == b.errors * picks(a)
  IN CASE strategy = "least_used"  -> a.uses < b.uses
       [] strategy = "round_robin" -> a.lastUsed < b.lastUsed
       [] strategy = "fastest"     -> quicker \/ (a.latency = b.latency /\ a.uses < b.uses)
       [] strategy = "smartest"    ->
            \/ rateOfA < rateOfB
            \/ rateOfA = rateOfB /\ quicker
            \/ rateOfA = rateOfB /\ a.latency = b.latency /\ a.uses < b.uses

FirstPickFollowsStrategy ==
  taken # <<>> /\ taken[1].state = "ready" =>
    \A b \in ToSet(queue) : b.state = "ready" =>
      \/ BetterFor(primary, taken[1], b)
      \/ /\ ~BetterFor(primary, b, taken[1])
         /\ CreatedAt[taken[1].cred] < CreatedAt[b.cred]

-------------------------------------------------------------------------------
(* What the documentation says and the code does not do.                   *)

(* "`smartest` (fewest errors, then fastest)" (README.md:216): the first   *)
(* ready key that this role picks has no more errors than another one.     *)
SmartestHasFewestErrors ==
  taken # <<>> /\ primary = "smartest" /\ taken[1].state = "ready" =>
    \A b \in ToSet(queue) : b.state = "ready" => taken[1].errors <= b.errors
===============================================================================

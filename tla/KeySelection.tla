----------------------------- MODULE KeySelection -----------------------------
(***************************************************************************)
(* domain/routing/keySelection.ts: the deterministic best-to-worst order   *)
(* of the credentials that can serve a request.  orderCandidates sorts an  *)
(* array and the routing loop shifts its head; here the remaining          *)
(* candidates are a set and Best picks the head of the sorted array.       *)
(* CandidatePool says that the two agree.                                  *)
(***************************************************************************)
EXTENDS Integers

CONSTANTS
  Creds,      \* ids of the provider credentials
  CreatedAt   \* KeyCandidate.createdAt: the rowid of the credential's row

(* Rowids are unique, so the localeCompare of the ids that follows a tie   *)
(* in createdAt is never reached.                                          *)
ASSUME CredsAssumption ==
  /\ CreatedAt \in [Creds -> Nat]
  /\ \A c, d \in Creds : CreatedAt[c] = CreatedAt[d] => c = d

Strategies == {"round_robin", "least_used", "fastest", "smartest"}

KeyStates == {"ready", "cooling", "disabled"}

(* avgLatencyMs = null: never measured, compared as infinity.              *)
NoLatency == -1

(* KeyCandidate. A null cooldownUntil or lastUsedAt is 0, as in the        *)
(* code's `?? 0`.                                                          *)
Candidate ==
  [cred : Creds, state : KeyStates, until : Nat, uses : Nat,
   lastUsed : Nat, errors : Nat, latency : Nat \cup {NoLatency}]

-------------------------------------------------------------------------------
(* compareByStrategy(strategy, a, b) < 0, one operator per criterion, each *)
(* ending in the oldest credential first.                                  *)

Older(a, b) == CreatedAt[a.cred] < CreatedAt[b.cred]

(* Slip: keys with equal counts are left as they come.                     *)
LessUsedUntied(a, b) == a.uses < b.uses

LessUsed(a, b) ==
  \/ a.uses < b.uses
  \/ a.uses = b.uses /\ Older(a, b)

LongerIdle(a, b) ==
  \/ a.lastUsed < b.lastUsed
  \/ a.lastUsed = b.lastUsed /\ Older(a, b)

Quicker(a, b) ==
  /\ a.latency # NoLatency
  /\ b.latency = NoLatency \/ a.latency < b.latency

Faster(a, b) ==
  \/ Quicker(a, b)
  \/ a.latency = b.latency /\ LessUsed(a, b)

(* errorRate: errorCount / max(useCount, 1), compared by cross product.    *)
Picks(c) == IF c.uses = 0 THEN 1 ELSE c.uses

(* Slip: the errors are compared as counts, not as rates.                  *)
FewerErrors(a, b) ==
  \/ a.errors < b.errors
  \/ a.errors = b.errors /\ Faster(a, b)

Smarter(a, b) ==
  LET ea == a.errors * Picks(b)
      eb == b.errors * Picks(a)
  IN  \/ ea < eb
      \/ ea = eb /\ Faster(a, b)

Prefers(strategy, a, b) ==
  CASE strategy = "round_robin" -> LongerIdle(a, b)
    [] strategy = "fastest"     -> Faster(a, b)
    [] strategy = "smartest"    -> Smarter(a, b)
    [] OTHER                    -> LessUsed(a, b)

-------------------------------------------------------------------------------
(* rank 0: ready; rank 1: cooling, still locked; rank 2: anything else.    *)
Rank(c, now) ==
  CASE c.state = "ready"                    -> 0
    [] c.state = "cooling" /\ c.until > now -> 1
    [] OTHER                                -> 2

(* Slip: keys of one rank are left to the strategy.                        *)
PrecedesInRank(strategy, now, a, b) ==
  \/ Rank(a, now) < Rank(b, now)
  \/ Rank(a, now) = Rank(b, now) /\ Prefers(strategy, a, b)

(* The comparator of orderCandidates: by rank, cooling keys by the         *)
(* soonest recovery, and then by the strategy.                             *)
Precedes(strategy, now, a, b) ==
  \/ Rank(a, now) < Rank(b, now)
  \/ /\ Rank(a, now) = Rank(b, now)
     /\ Rank(a, now) = 1
     /\ a.until < b.until
  \/ /\ Rank(a, now) = Rank(b, now)
     /\ Rank(a, now) = 1 => a.until = b.until
     /\ Prefers(strategy, a, b)

(* The head of the sorted pool.                                            *)
Best(strategy, now, pool) ==
  CHOOSE a \in pool : \A b \in pool \ {a} : Precedes(strategy, now, a, b)
===============================================================================

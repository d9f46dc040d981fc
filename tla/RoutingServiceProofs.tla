------------------------- MODULE RoutingServiceProofs -------------------------
(***************************************************************************)
(* Type correctness, NeverTwiceTheSameKey and WithinBudget of              *)
(* RoutingService, and that it implements FallbackContract, for any sets   *)
(* of requests, models and credentials, any plans, answers and settings,   *)
(* and any cooldown lengths.                                               *)
(***************************************************************************)
EXTENDS RoutingService, KeySelectionProofs

-------------------------------------------------------------------------------
(* What the statements on a row return.                                    *)

LEMMA ReadyType ==
  ASSUME NEW s \in Row
  PROVE  Ready(s) \in Row
BY DEF Ready, Row, KeyStates

LEMMA CoolingType ==
  ASSUME NEW s \in Row, NEW until \in Nat, NEW reason \in CooldownReasons
  PROVE  Cooling(s, until, reason) \in Row
BY DEF Cooling, Row, KeyStates

LEMMA IncrementUseType ==
  ASSUME NEW s \in Row, NEW now \in Nat
  PROVE  IncrementUse(s, now) \in Row
<1>1. s.uses \in Nat /\ s.uses + 1 \in Nat
  BY DEF Row
<1>2. [s EXCEPT !.uses = s.uses + 1] \in Row
  BY <1>1 DEF Row
<1>3. IncrementUse(s, now) = [[s EXCEPT !.uses = s.uses + 1] EXCEPT !.lastUsed = now]
  BY DEF IncrementUse, Row
<1> QED
  BY <1>2, <1>3 DEF Row

LEMMA IncrementErrorType ==
  ASSUME NEW s \in Row
  PROVE  IncrementError(s) \in Row
BY DEF IncrementError, Row

LEMMA MovingAverageType ==
  ASSUME NEW prev \in Nat \cup {NoLatency}, NEW sample \in Nat
  PROVE  MovingAverage(prev, sample) \in Nat
<1>1. CASE prev = NoLatency
  BY <1>1 DEF MovingAverage
<1>2. CASE prev # NoLatency
  <2>1. 7 * prev + 3 * sample + 5 \in Nat
    BY <1>2
  <2>2. (7 * prev + 3 * sample + 5) \div 10 \in Nat
    BY <2>1
  <2> QED
    BY <1>2, <2>2 DEF MovingAverage
<1> QED
  BY <1>1, <1>2

LEMMA RecordSuccessType ==
  ASSUME NEW s \in Row, NEW sample \in Nat
  PROVE  RecordSuccess(s, sample) \in Row
<1>1. MovingAverage(s.latency, sample) \in Nat
  BY MovingAverageType DEF Row
<1> QED
  BY <1>1 DEF RecordSuccess, Row

(* A cooldown is set to end later than it starts: daily quota at the next  *)
(* midnight, anything else after the short cooldown.                       *)
LEMMA CooldownLengthPositive ==
  ASSUME NEW reason, NEW now \in Nat
  PROVE  CooldownLength(reason, now) \in Nat \ {0}
<1>1. now % DayLength \in 0..(DayLength - 1)
  BY PolicyAssumption
<1>2. UntilMidnight(now) \in Nat \ {0}
  BY <1>1, PolicyAssumption DEF UntilMidnight
<1> QED
  BY <1>2, PolicyAssumption DEF CooldownLength

LEMMA PenalisedType ==
  ASSUME NEW s \in Row, NEW a \in Answer, NEW now \in Nat
  PROVE  Penalised(s, a, now) \in Row
<1> DEFINE reason == CooldownReason(a)
           until == now + CooldownLength(reason, now)
<1>1. reason \in CooldownReasons \cup {"none"}
  BY DEF CooldownReason, CooldownReasons
<1>2. until \in Nat
  BY CooldownLengthPositive
<1> HIDE DEF reason, until
<1>3. CASE reason = "none"
  BY <1>3, IncrementErrorType DEF Penalised, reason
<1>4. CASE reason # "none"
  <2>1. Cooling(s, until, reason) \in Row
    BY <1>1, <1>2, <1>4, CoolingType
  <2> QED
    BY <1>4, <2>1, IncrementErrorType DEF Penalised, reason, until
<1> QED
  BY <1>3, <1>4

LEMMA ClassificationType ==
  ASSUME NEW a \in Answer
  PROVE  ClassifyUpstreamError(a) \in Classifications
BY DEF ClassifyUpstreamError, Classifications

(* The rows after promotion are rows.                                      *)
LEMMA PromotedType ==
  ASSUME NEW in, NEW now \in Nat, row \in [Pairs -> Row]
  PROVE  Promoted(in, now) \in [Pairs -> Row]
BY ReadyType DEF Promoted

(* What the candidates of a request are: one per capable credential.       *)
LEMMA CandidatesArePool ==
  ASSUME NEW in \in Input, NEW rows \in [Pairs -> Row]
  PROVE  /\ IsPool(Candidates(in, rows))
         /\ IsFiniteSet(Candidates(in, rows))
<1>1. Capable(in) \subseteq Creds
  BY DEF Capable, Input
<1>2. ASSUME NEW c \in Capable(in)
      PROVE  KeyCandidate(c, rows[<<in.model, c>>]) \in Candidate
  <2>1. rows[<<in.model, c>>] \in Row
    BY <1>1, <1>2 DEF Pairs, Input
  <2> QED
    BY <1>1, <2>1 DEF KeyCandidate, Candidate, Row
<1>3. IsPool(Candidates(in, rows))
  <2>1. Candidates(in, rows) \subseteq Candidate
    BY <1>2 DEF Candidates
  <2>2. ASSUME NEW a \in Candidates(in, rows), NEW b \in Candidates(in, rows),
               a.cred = b.cred
        PROVE  a = b
    <3>1. PICK c \in Capable(in) : a = KeyCandidate(c, rows[<<in.model, c>>])
      BY DEF Candidates
    <3>2. PICK d \in Capable(in) : b = KeyCandidate(d, rows[<<in.model, d>>])
      BY DEF Candidates
    <3>3. a.cred = c /\ b.cred = d
      BY <3>1, <3>2 DEF KeyCandidate
    <3> QED
      BY <2>2, <3>1, <3>2, <3>3
  <2> QED
    BY <2>1, <2>2 DEF IsPool
<1>4. IsFiniteSet(Capable(in))
  BY <1>1, FiniteAssumption, FS_Subset
<1>5. IsFiniteSet(Candidates(in, rows))
  <2> DEFINE f == [c \in Capable(in) |-> KeyCandidate(c, rows[<<in.model, c>>])]
  <2>1. f \in Surjection(Capable(in), Candidates(in, rows))
    BY DEF Candidates, Surjection
  <2> QED
    BY <1>4, <2>1, FS_Surjection
<1> QED
  BY <1>3, <1>5

-------------------------------------------------------------------------------
(* The inductive invariant: NeverTwiceTheSameKey and WithinBudget, request *)
(* by request, with what they need from one step to the next.  A new       *)
(* request has tried nothing, a waiting one has tried something; pools are *)
(* finite, so that Best picks an element of them; an attempt was sent      *)
(* before now, and the per-attempt timeout is not zero.                    *)

CallOK(r) ==
  /\ \A i, j \in DOMAIN tried[r] : tried[r][i] = tried[r][j] => i = j
  /\ \A k \in pool[r] : \A i \in DOMAIN tried[r] : k.cred # tried[r][i]
  /\ \A k, l \in pool[r] : k.cred = l.cred => k = l
  /\ IsFiniteSet(pool[r])
  /\ pc[r] = "new" => tried[r] = <<>>
  /\ pc[r] = "fetching" =>
       /\ tried[r] # <<>>
       /\ Len(tried[r]) <= budget[r].attempts
       /\ sentAt[r] < budget[r].deadline
       /\ timer[r] <= budget[r].deadline
       /\ timer[r] <= sentAt[r] + budget[r].timeout
       /\ budget[r].timeout >= 1

OnTime(r) ==
  pc[r] = "fetching" => sentAt[r] <= clock /\ clock <= timer[r] + MaxLag

IInv == TypeOK /\ \A r \in Requests : CallOK(r) /\ OnTime(r)

(* The types of what the retry loop writes.                                *)
LoopTypes ==
  /\ row \in [Pairs -> Row]
  /\ pc \in [Requests -> {"new", "fetching", "done", "lost"}]
  /\ budget \in [Requests -> Budget]
  /\ pool \in [Requests -> SUBSET Candidate]
  /\ tried \in [Requests -> Seq(Creds)]
  /\ sentAt \in [Requests -> Nat]
  /\ timer \in [Requests -> Nat]
  /\ last \in [Requests -> Result]
  /\ logs \in [Requests -> Seq(LogRow)]

(* Every other request is where it was.                                    *)
OthersKept(r) ==
  \A q \in Requests \ {r} :
    /\ pc'[q] = pc[q] /\ budget'[q] = budget[q] /\ pool'[q] = pool[q]
    /\ tried'[q] = tried[q] /\ sentAt'[q] = sentAt[q] /\ timer'[q] = timer[q]

LEMMA OthersStayOK ==
  ASSUME NEW r \in Requests, \A q \in Requests : CallOK(q), OthersKept(r),
         CallOK(r)'
  PROVE  \A q \in Requests : CallOK(q)'
<1>1. ASSUME NEW q \in Requests \ {r}
      PROVE  CallOK(q)'
  BY <1>1 DEF OthersKept, CallOK
<1> QED
  BY <1>1

LEMMA PersistLogType ==
  ASSUME NEW result \in Result, NEW total \in Nat
  PROVE  PersistLog(result, total) \in LogRow
BY DEF PersistLog, LogRow, Result

LEMMA NoBudgetType == NoBudget \in Budget
BY DEF NoBudget, Budget

LEMMA NoResultType ==
  /\ NoResult \in Result
  /\ NoKeys \in Result
  /\ Exhausted \in Result
BY DEF NoResult, NoKeys, Exhausted, Result, Outcomes, Classifications, Exceptions

(* A request that returns, whatever it returns.                            *)
LEMMA ReturnOK ==
  ASSUME LoopTypes, NEW r \in Requests, CallOK(r), NEW result \in Result,
         Return(r, result), UNCHANGED tried
  PROVE  /\ pc' \in [Requests -> {"new", "fetching", "done", "lost"}]
         /\ budget' \in [Requests -> Budget]
         /\ pool' \in [Requests -> SUBSET Candidate]
         /\ tried' \in [Requests -> Seq(Creds)]
         /\ sentAt' \in [Requests -> Nat]
         /\ timer' \in [Requests -> Nat]
         /\ last' \in [Requests -> Result]
         /\ CallOK(r)'
         /\ OthersKept(r)
         /\ pc'[r] = "done"
<1> USE DEF Return, Forget
<1>1. /\ pc' \in [Requests -> {"new", "fetching", "done", "lost"}]
      /\ pool' \in [Requests -> SUBSET Candidate]
      /\ tried' \in [Requests -> Seq(Creds)]
      /\ sentAt' \in [Requests -> Nat]
      /\ timer' \in [Requests -> Nat]
      /\ last' \in [Requests -> Result]
  BY DEF LoopTypes
<1>2. budget' \in [Requests -> Budget]
  BY NoBudgetType DEF LoopTypes
<1>3. pc'[r] = "done" /\ pool'[r] = {} /\ tried'[r] = tried[r]
  BY DEF LoopTypes
<1>4. CallOK(r)'
  BY <1>3, FS_EmptySet DEF CallOK
<1>5. OthersKept(r)
  BY DEF OthersKept, LoopTypes
<1> QED
  BY <1>1, <1>2, <1>3, <1>4, <1>5

(* The next attempt: one more credential, taken off the pool.              *)
LEMMA SendNextOK ==
  ASSUME LoopTypes, NEW r \in Requests, CallOK(r), NEW b \in Budget,
         NEW remaining, IsPool(remaining), IsFiniteSet(remaining),
         \A k \in remaining : \A i \in DOMAIN tried[r] : k.cred # tried[r][i],
         NEW rows \in [Pairs -> Row], NEW result \in Result, NEW now \in Nat,
         b.timeout >= 1, SendNext(r, b, remaining, rows, result, now)
  PROVE  /\ LoopTypes'
         /\ CallOK(r)'
         /\ OthersKept(r)
         /\ sentAt'[r] = now
         /\ now < timer'[r]
<1> DEFINE k == Best(Strategy(r), b.now, remaining)
<1>1. /\ Len(tried[r]) < b.attempts /\ now < b.deadline /\ remaining # {}
      /\ pool' = [pool EXCEPT ![r] = remaining \ {k}]
      /\ tried' = [tried EXCEPT ![r] = Append(@, k.cred)]
      /\ row' = [rows EXCEPT ![<<input[r].model, k.cred>>] =
                   IncrementUse(@, now)]
      /\ pc' = [pc EXCEPT ![r] = "fetching"]
      /\ budget' = [budget EXCEPT ![r] = b]
      /\ sentAt' = [sentAt EXCEPT ![r] = now]
      /\ timer' = [timer EXCEPT ![r] = now + AttemptTimeout(b, now)]
      /\ last' = [last EXCEPT ![r] = result]
      /\ logs' = logs
  BY DEF SendNext, MayAttempt
<1>2. /\ b.now \in Nat /\ b.attempts \in Nat /\ b.deadline \in Nat
      /\ b.timeout \in Nat
  BY DEF Budget
<1>3. k \in remaining
  BY <1>1, <1>2, BestIsFirst
<1>4. /\ remaining \subseteq Candidate
      /\ \A c, d \in remaining : c.cred = d.cred => c = d
  BY DEF IsPool
<1>5. k \in Candidate /\ k.cred \in Creds
  BY <1>3, <1>4 DEF Candidate
<1> HIDE DEF k
<1>6. /\ AttemptTimeout(b, now) \in Nat
      /\ AttemptTimeout(b, now) >= 1
      /\ AttemptTimeout(b, now) <= b.deadline - now
      /\ AttemptTimeout(b, now) <= b.timeout
  BY <1>1, <1>2 DEF AttemptTimeout, MinOf, MaxOf
<1>7. tried[r] \in Seq(Creds)
  BY DEF LoopTypes
<1>8. /\ pc'[r] = "fetching" /\ budget'[r] = b /\ sentAt'[r] = now
      /\ timer'[r] = now + AttemptTimeout(b, now)
      /\ pool'[r] = remaining \ {k} /\ tried'[r] = Append(tried[r], k.cred)
  BY <1>1 DEF LoopTypes
<1>9. LoopTypes'
  <2>1. row' \in [Pairs -> Row]
    <3>1. ASSUME NEW p \in Pairs
          PROVE  rows[p] \in Row /\ IncrementUse(rows[p], now) \in Row
      BY IncrementUseType
    <3> QED
      BY <1>1, <3>1
  <2>2. pool' \in [Requests -> SUBSET Candidate]
    BY <1>1, <1>4 DEF LoopTypes
  <2>3. tried' \in [Requests -> Seq(Creds)]
    <3>1. Append(tried[r], k.cred) \in Seq(Creds)
      BY <1>5, <1>7
    <3> QED
      BY <1>1, <3>1 DEF LoopTypes
  <2>4. timer' \in [Requests -> Nat]
    <3>1. now + AttemptTimeout(b, now) \in Nat
      BY <1>6
    <3> QED
      BY <1>1, <3>1 DEF LoopTypes
  <2>5. /\ pc' \in [Requests -> {"new", "fetching", "done", "lost"}]
        /\ budget' \in [Requests -> Budget]
        /\ sentAt' \in [Requests -> Nat]
        /\ last' \in [Requests -> Result]
        /\ logs' \in [Requests -> Seq(LogRow)]
    BY <1>1 DEF LoopTypes
  <2> QED
    BY <2>1, <2>2, <2>3, <2>4, <2>5 DEF LoopTypes
<1>10. CallOK(r)'
  <2>1. \A i \in DOMAIN tried[r] : k.cred # tried[r][i]
    BY <1>3
  <2>2. /\ Len(tried'[r]) = Len(tried[r]) + 1
        /\ DOMAIN tried'[r] = 1..(Len(tried[r]) + 1)
        /\ \A i \in 1..Len(tried[r]) : tried'[r][i] = tried[r][i]
        /\ tried'[r][Len(tried[r]) + 1] = k.cred
        /\ DOMAIN tried[r] = 1..Len(tried[r])
        /\ Len(tried[r]) \in Nat
    BY <1>5, <1>7, <1>8
  <2>3. \A i \in DOMAIN tried'[r] :
          \/ i \in DOMAIN tried[r] /\ tried'[r][i] = tried[r][i]
          \/ i = Len(tried[r]) + 1 /\ tried'[r][i] = k.cred
    BY <2>2
  <2>4. \A i, j \in DOMAIN tried'[r] : tried'[r][i] = tried'[r][j] => i = j
    BY <2>1, <2>3 DEF CallOK
  <2>5. \A c \in pool'[r] : \A i \in DOMAIN tried'[r] : c.cred # tried'[r][i]
    BY <1>3, <1>4, <1>8, <2>3
  <2>6. \A c, d \in pool'[r] : c.cred = d.cred => c = d
    BY <1>4, <1>8
  <2>7. IsFiniteSet(pool'[r])
    BY <1>8, FS_Subset
  <2>8. tried'[r] # <<>> /\ Len(tried'[r]) <= b.attempts
    BY <1>1, <1>2, <2>2
  <2>9. /\ sentAt'[r] < b.deadline /\ timer'[r] <= b.deadline
        /\ timer'[r] <= sentAt'[r] + b.timeout
    BY <1>1, <1>2, <1>6, <1>8
  <2> QED
    BY <1>8, <2>4, <2>5, <2>6, <2>7, <2>8, <2>9 DEF CallOK
<1>11. OthersKept(r)
  BY <1>1 DEF OthersKept, LoopTypes
<1>12. now < timer'[r]
  BY <1>6, <1>8
<1> QED
  BY <1>8, <1>9, <1>10, <1>11, <1>12

LEMMA LeaveLoopOK ==
  ASSUME LoopTypes, NEW r \in Requests, CallOK(r), NEW b \in Budget,
         NEW rows \in [Pairs -> Row], NEW result \in Result,
         LeaveLoop(r, b, rows, result)
  PROVE  /\ LoopTypes'
         /\ CallOK(r)'
         /\ OthersKept(r)
         /\ pc'[r] = "done"
<1>1. row' = rows /\ UNCHANGED tried
  BY DEF LeaveLoop
<1>2. b.attempts \in Nat
  BY DEF Budget
<1>3. CASE result = NoResult
  <2>1. Return(r, Exhausted) /\ logs' = logs
    BY <1>3 DEF LeaveLoop
  <2> QED
    BY <1>1, <2>1, ReturnOK, NoResultType DEF LoopTypes
<1>4. CASE result # NoResult
  <2>1. /\ Return(r, result)
        /\ logs' = [logs EXCEPT ![r] = Append(@, PersistLog(result, b.attempts))]
    BY <1>4 DEF LeaveLoop
  <2>2. logs' \in [Requests -> Seq(LogRow)]
    BY <1>2, <2>1, PersistLogType DEF LoopTypes
  <2> QED
    BY <1>1, <2>1, <2>2, ReturnOK DEF LoopTypes
<1> QED
  BY <1>3, <1>4

(* The head of the loop: in both cases every request stays as it should,   *)
(* and one that waits for an answer either was waiting before or has just  *)
(* been sent, with a timer that is ahead.                                  *)
LEMMA RetryLoopOK ==
  ASSUME LoopTypes, \A q \in Requests : CallOK(q), NEW r \in Requests,
         NEW b \in Budget, b.timeout >= 1,
         NEW remaining, IsPool(remaining), IsFiniteSet(remaining),
         \A k \in remaining : \A i \in DOMAIN tried[r] : k.cred # tried[r][i],
         NEW rows \in [Pairs -> Row], NEW result \in Result, NEW now \in Nat,
         RetryLoop(r, b, remaining, rows, result, now)
  PROVE  /\ LoopTypes'
         /\ \A q \in Requests : CallOK(q)'
         /\ \A q \in Requests : pc'[q] = "fetching" =>
              \/ q = r /\ sentAt'[q] = now /\ now < timer'[q]
              \/ /\ pc[q] = "fetching"
                 /\ sentAt'[q] = sentAt[q] /\ timer'[q] = timer[q]
<1>1. CASE SendNext(r, b, remaining, rows, result, now)
  <2>1. /\ LoopTypes' /\ CallOK(r)' /\ OthersKept(r)
        /\ sentAt'[r] = now /\ now < timer'[r]
    BY <1>1, SendNextOK
  <2>2. \A q \in Requests : CallOK(q)'
    BY <2>1, OthersStayOK
  <2> QED
    BY <2>1, <2>2 DEF OthersKept
<1>2. CASE LeaveLoop(r, b, rows, result)
  <2>1. LoopTypes' /\ CallOK(r)' /\ OthersKept(r) /\ pc'[r] = "done"
    BY <1>2, LeaveLoopOK
  <2>2. \A q \in Requests : CallOK(q)'
    BY <2>1, OthersStayOK
  <2> QED
    BY <2>1, <2>2 DEF OthersKept
<1> QED
  BY <1>1, <1>2 DEF RetryLoop

(* The parts of the invariant, for the steps that follow.                  *)
LEMMA Parts ==
  ASSUME IInv
  PROVE  /\ TypeOK /\ LoopTypes
         /\ \A q \in Requests : CallOK(q) /\ OnTime(q)
BY DEF IInv, TypeOK, LoopTypes

(* A waiting request has a current credential and pair.                    *)
LEMMA CurrentType ==
  ASSUME IInv, NEW r \in Requests, pc[r] = "fetching"
  PROVE  /\ Current(r) \in Creds
         /\ CurrentPair(r) \in Pairs
         /\ Len(tried[r]) \in Nat
<1>1. tried[r] \in Seq(Creds) /\ tried[r] # <<>> /\ input[r].model \in Models
  BY DEF IInv, TypeOK, CallOK, Input
<1>2. Len(tried[r]) \in DOMAIN tried[r] /\ Len(tried[r]) \in Nat
  BY <1>1
<1> QED
  BY <1>1, <1>2 DEF Current, CurrentPair, Pairs

(* The pool of a waiting request is one that Best can pick from.           *)
LEMMA PoolOK ==
  ASSUME IInv, NEW r \in Requests
  PROVE  /\ IsPool(pool[r]) /\ IsFiniteSet(pool[r])
         /\ \A k \in pool[r] : \A i \in DOMAIN tried[r] : k.cred # tried[r][i]
         /\ budget[r] \in Budget
BY DEF IInv, TypeOK, CallOK, IsPool

-------------------------------------------------------------------------------
(* The invariant holds at the start and is kept, step by step.             *)

LEMMA InitIInv == Init => IInv
<1> SUFFICES ASSUME Init PROVE IInv
  OBVIOUS
<1>1. TypeOK
  <2>1. settings \in Settings /\ input \in [Requests -> Input]
    BY RoutingAssumption DEF Init
  <2>2. row \in [Pairs -> Row]
    BY DEF Init, FreshRow, Row, KeyStates
  <2>3. /\ budget \in [Requests -> Budget]
        /\ last \in [Requests -> Result]
    BY NoBudgetType, NoResultType DEF Init
  <2> QED
    BY <2>1, <2>2, <2>3 DEF Init, TypeOK
<1>2. ASSUME NEW r \in Requests
      PROVE  CallOK(r) /\ OnTime(r)
  BY FS_EmptySet DEF Init, CallOK, OnTime
<1> QED
  BY <1>1, <1>2 DEF IInv

(* The steps that leave the calls alone and only move the table, the       *)
(* settings or the credentials keep what is said of the calls.             *)
LEMMA CallsKept ==
  ASSUME IInv, UNCHANGED callVars
  PROVE  \A q \in Requests : CallOK(q)'
BY DEF IInv, CallOK, callVars

LEMMA StartStep ==
  ASSUME IInv, NEW r \in Requests, NEW lag \in 0..MaxLag, NEW gone \in BOOLEAN,
         Start(r, lag, gone)
  PROVE  IInv'
<1> DEFINE now == clock + lag
           rows == Promoted(input[r], now)
           candidates == Candidates(input[r], rows)
           b == [now |-> now,
                 attempts |-> MinOf(settings.attempts, Cardinality(candidates)),
                 deadline |-> clock + settings.loopDeadline,
                 timeout |-> settings.timeout]
<1>1. /\ pc[r] = "new" /\ (lag > 0 => NoTimerDue) /\ clock' = now
      /\ IF gone THEN LeaveLoop(r, b, rows, NoResult)
                 ELSE RetryLoop(r, b, candidates, rows, NoResult, now)
      /\ UNCHANGED <<live, settings, input, usage>>
  BY DEF Start
<1>2. now \in Nat
  BY RoutingAssumption DEF IInv, TypeOK
<1>3. rows \in [Pairs -> Row]
  BY <1>2, PromotedType DEF IInv, TypeOK
<1>4. IsPool(candidates) /\ IsFiniteSet(candidates)
  <2>1. input[r] \in Input
    BY DEF IInv, TypeOK
  <2> HIDE DEF rows
  <2> QED
    BY <1>3, <2>1, CandidatesArePool
<1>5. b \in Budget /\ b.timeout >= 1
  <2> HIDE DEF candidates, now
  <2>1. Cardinality(candidates) \in Nat
    BY <1>4, FS_CardinalityType
  <2>2. /\ settings.attempts \in Nat /\ settings.loopDeadline \in Nat
        /\ settings.timeout \in Nat /\ settings.timeout >= 1 /\ clock \in Nat
    BY DEF IInv, TypeOK, Settings
  <2> QED
    BY <1>2, <2>1, <2>2 DEF Budget, MinOf
<1>6. tried[r] = <<>>
  BY <1>1 DEF IInv, CallOK
<1> HIDE DEF b, candidates, rows, now
<1>7. /\ LoopTypes'
      /\ \A q \in Requests : CallOK(q)'
      /\ \A q \in Requests : pc'[q] = "fetching" =>
           \/ q = r /\ sentAt'[q] = now /\ now < timer'[q]
           \/ /\ pc[q] = "fetching"
              /\ sentAt'[q] = sentAt[q] /\ timer'[q] = timer[q]
  <2>1. LoopTypes /\ \A q \in Requests : CallOK(q)
    BY Parts
  <2>2. CASE gone
    <3>1. LoopTypes' /\ CallOK(r)' /\ OthersKept(r) /\ pc'[r] = "done"
      BY <1>1, <1>3, <1>5, <2>1, <2>2, LeaveLoopOK, NoResultType
    <3>2. \A q \in Requests : CallOK(q)'
      BY <2>1, <3>1, OthersStayOK
    <3> QED
      BY <3>1, <3>2 DEF OthersKept
  <2>3. CASE ~gone
    <3>1. \A k \in candidates : \A i \in DOMAIN tried[r] : k.cred # tried[r][i]
      BY <1>6
    <3>2. RetryLoop(r, b, candidates, rows, NoResult, now)
      BY <1>1, <2>3
    <3> QED
      BY <1>2, <1>3, <1>4, <1>5, <2>1, <3>1, <3>2, RetryLoopOK, NoResultType
  <2> QED
    BY <2>2, <2>3
<1>8. TypeOK'
  BY <1>1, <1>2, <1>7 DEF IInv, TypeOK, LoopTypes
<1>9. ASSUME NEW q \in Requests
      PROVE  OnTime(q)'
  <2> SUFFICES ASSUME pc'[q] = "fetching"
               PROVE  sentAt'[q] <= clock' /\ clock' <= timer'[q] + MaxLag
    BY DEF OnTime
  <2>1. timer'[q] \in Nat /\ sentAt'[q] \in Nat /\ clock \in Nat /\ MaxLag \in Nat
    BY <1>7, RoutingAssumption DEF LoopTypes, IInv, TypeOK
  <2>2. CASE q = r /\ sentAt'[q] = now /\ now < timer'[q]
    BY <1>1, <1>2, <2>1, <2>2
  <2>3. CASE /\ pc[q] = "fetching"
             /\ sentAt'[q] = sentAt[q] /\ timer'[q] = timer[q]
    <3>1. sentAt[q] <= clock /\ clock <= timer[q] + MaxLag
      BY <2>3 DEF IInv, OnTime
    <3>2. lag > 0 => clock < timer[q]
      BY <1>1, <2>3 DEF NoTimerDue
    <3> QED
      BY <1>1, <2>1, <2>3, <3>1, <3>2 DEF now
  <2> QED
    BY <1>7, <2>2, <2>3
<1> QED
  BY <1>7, <1>8, <1>9 DEF IInv

(* A step on a waiting request that goes round the retry loop.             *)
LEMMA RoundStep ==
  ASSUME IInv, NEW r \in Requests, pc[r] = "fetching",
         NEW rows \in [Pairs -> Row], NEW result \in Result,
         RetryLoop(r, budget[r], pool[r], rows, result, clock),
         UNCHANGED <<clock, live, settings, input>>,
         usage' \in [Requests -> Seq(UsageEvent)]
  PROVE  IInv'
<1>1. clock \in Nat /\ budget[r].timeout >= 1
  BY DEF IInv, TypeOK, CallOK
<1>2. /\ LoopTypes'
      /\ \A q \in Requests : CallOK(q)'
      /\ \A q \in Requests : pc'[q] = "fetching" =>
           \/ q = r /\ sentAt'[q] = clock /\ clock < timer'[q]
           \/ /\ pc[q] = "fetching"
              /\ sentAt'[q] = sentAt[q] /\ timer'[q] = timer[q]
  BY <1>1, Parts, PoolOK, RetryLoopOK
<1>3. TypeOK'
  BY <1>2 DEF IInv, TypeOK, LoopTypes
<1>4. ASSUME NEW q \in Requests
      PROVE  OnTime(q)'
  <2>1. timer'[q] \in Nat /\ MaxLag \in Nat /\ clock' = clock
    BY <1>2, RoutingAssumption DEF LoopTypes
  <2>2. CASE sentAt'[q] = clock /\ clock < timer'[q]
    BY <1>1, <2>1, <2>2 DEF OnTime
  <2>3. CASE /\ pc[q] = "fetching"
             /\ sentAt'[q] = sentAt[q] /\ timer'[q] = timer[q]
    BY <2>1, <2>3 DEF IInv, OnTime
  <2> QED
    BY <1>2, <2>2, <2>3 DEF OnTime
<1> QED
  BY <1>2, <1>3, <1>4 DEF IInv

(* A step that makes one request return and leaves the clock alone.        *)
LEMMA ReturnStep ==
  ASSUME IInv, NEW r \in Requests, NEW result \in Result,
         Return(r, result), UNCHANGED <<clock, live, settings, input, tried>>,
         row' \in [Pairs -> Row],
         logs' \in [Requests -> Seq(LogRow)],
         usage' \in [Requests -> Seq(UsageEvent)]
  PROVE  IInv'
<1>1. LoopTypes /\ CallOK(r)
  BY Parts
<1>2. /\ pc' \in [Requests -> {"new", "fetching", "done", "lost"}]
      /\ budget' \in [Requests -> Budget]
      /\ pool' \in [Requests -> SUBSET Candidate]
      /\ tried' \in [Requests -> Seq(Creds)]
      /\ sentAt' \in [Requests -> Nat]
      /\ timer' \in [Requests -> Nat]
      /\ last' \in [Requests -> Result]
      /\ CallOK(r)'
      /\ OthersKept(r)
      /\ pc'[r] = "done"
  BY <1>1, ReturnOK
<1>3. TypeOK'
  BY <1>2 DEF IInv, TypeOK
<1>4. \A q \in Requests : CallOK(q)'
  BY <1>2, Parts, OthersStayOK
<1>5. \A q \in Requests : OnTime(q)'
  BY <1>2 DEF IInv, OnTime, OthersKept
<1> QED
  BY <1>3, <1>4, <1>5 DEF IInv

LEMMA StartWithoutKeysStep ==
  ASSUME IInv, NEW r \in Requests, StartWithoutKeys(r)
  PROVE  IInv'
<1>1. /\ Return(r, NoKeys)
      /\ UNCHANGED <<clock, live, settings, input, tried>>
      /\ row' = row /\ logs' = logs /\ usage' = usage
  BY DEF StartWithoutKeys, sharedVars
<1> QED
  BY <1>1, ReturnStep, NoResultType DEF IInv, TypeOK

LEMMA AnswersAreAnswers ==
  ASSUME NEW a \in Answers
  PROVE  a \in Answer /\ a.status \in Nat
BY RoutingAssumption DEF Answer

(* A usage event is appended.                                              *)
LEMMA UsageType ==
  ASSUME IInv, NEW r \in Requests, NEW a \in Answers, pc[r] = "fetching",
         usage' = [usage EXCEPT ![r] =
                     Append(@, [cred |-> Current(r), status |-> a.status])]
  PROVE  usage' \in [Requests -> Seq(UsageEvent)]
<1>1. [cred |-> Current(r), status |-> a.status] \in UsageEvent
  BY CurrentType, AnswersAreAnswers DEF UsageEvent
<1> QED
  BY <1>1 DEF IInv, TypeOK

LEMMA SucceedsStep ==
  ASSUME IInv, NEW r \in Requests, NEW a \in Answers, Succeeds(r, a)
  PROVE  IInv'
<1> DEFINE result ==
             [outcome |-> "success", status |-> a.status, cred |-> Current(r),
              attempts |-> Len(tried[r]), class |-> "none", thrown |-> "none"]
<1>1. /\ pc[r] = "fetching"
      /\ row' = [row EXCEPT ![CurrentPair(r)] =
                   RecordSuccess(@, clock - sentAt[r])]
      /\ usage' = [usage EXCEPT ![r] =
                     Append(@, [cred |-> Current(r), status |-> a.status])]
      /\ logs' = [logs EXCEPT ![r] =
                    Append(@, PersistLog(result, budget[r].attempts))]
      /\ Return(r, result)
      /\ UNCHANGED <<clock, live, settings, input, tried>>
  BY DEF Succeeds
<1>2. result \in Result
  BY <1>1, CurrentType, AnswersAreAnswers DEF Result, Outcomes, Exceptions
<1> HIDE DEF result
<1>3. row' \in [Pairs -> Row]
  <2>1. clock - sentAt[r] \in Nat
    BY <1>1 DEF IInv, TypeOK, OnTime
  <2>2. CurrentPair(r) \in Pairs
    BY <1>1, CurrentType
  <2>3. RecordSuccess(row[CurrentPair(r)], clock - sentAt[r]) \in Row
    BY <2>1, <2>2, RecordSuccessType DEF IInv, TypeOK
  <2> QED
    BY <1>1, <2>3 DEF IInv, TypeOK
<1>4. usage' \in [Requests -> Seq(UsageEvent)]
  BY <1>1, UsageType
<1>5. logs' \in [Requests -> Seq(LogRow)]
  <2>1. budget[r].attempts \in Nat
    BY DEF IInv, TypeOK, Budget
  <2>2. PersistLog(result, budget[r].attempts) \in LogRow
    BY <1>2, <2>1, PersistLogType
  <2> QED
    BY <1>1, <2>2 DEF IInv, TypeOK
<1> QED
  BY <1>1, <1>2, <1>3, <1>4, <1>5, ReturnStep

LEMMA FailsStep ==
  ASSUME IInv, NEW r \in Requests, NEW a \in Answers, Fails(r, a)
  PROVE  IInv'
<1> DEFINE result ==
             [outcome |-> "error", status |-> a.status, cred |-> Current(r),
              attempts |-> Len(tried[r]), class |-> ClassifyUpstreamError(a),
              thrown |-> "none"]
           rows == [row EXCEPT ![CurrentPair(r)] = Penalised(@, a, clock)]
<1>1. /\ pc[r] = "fetching"
      /\ usage' = [usage EXCEPT ![r] =
                     Append(@, [cred |-> Current(r), status |-> a.status])]
      /\ RetryLoop(r, budget[r], pool[r], rows, result, clock)
      /\ UNCHANGED <<clock, live, settings, input>>
  BY DEF Fails
<1>2. result \in Result
  BY <1>1, CurrentType, AnswersAreAnswers, ClassificationType
  DEF Result, Outcomes, Exceptions
<1>3. rows \in [Pairs -> Row]
  <2>1. CurrentPair(r) \in Pairs
    BY <1>1, CurrentType
  <2>2. Penalised(row[CurrentPair(r)], a, clock) \in Row
    BY <2>1, AnswersAreAnswers, PenalisedType DEF IInv, TypeOK
  <2> QED
    BY <2>2 DEF IInv, TypeOK
<1>4. usage' \in [Requests -> Seq(UsageEvent)]
  BY <1>1, UsageType
<1> HIDE DEF result, rows
<1> QED
  BY <1>1, <1>2, <1>3, <1>4, RoundStep

LEMMA CatchStep ==
  ASSUME IInv, NEW r \in Requests, NEW name \in Exceptions, Catch(r, name)
  PROVE  IInv'
<1> DEFINE timedOut == name = "AbortError"
           result ==
             [outcome |-> IF timedOut THEN "timeout" ELSE "error",
              status |-> 502, cred |-> Current(r), attempts |-> Len(tried[r]),
              class |-> IF timedOut THEN "timeout" ELSE "transient",
              thrown |-> name]
           rows == [row EXCEPT ![CurrentPair(r)] = IncrementError(@)]
<1>1. /\ pc[r] = "fetching"
      /\ RetryLoop(r, budget[r], pool[r], rows, result, clock)
      /\ UNCHANGED <<clock, live, settings, input, usage>>
  BY DEF Catch
<1>2. result \in Result
  BY <1>1, CurrentType DEF Result, Outcomes, Classifications
<1>3. rows \in [Pairs -> Row]
  <2>1. CurrentPair(r) \in Pairs
    BY <1>1, CurrentType
  <2>2. IncrementError(row[CurrentPair(r)]) \in Row
    BY <2>1, IncrementErrorType DEF IInv, TypeOK
  <2> QED
    BY <2>2 DEF IInv, TypeOK
<1>4. usage' \in [Requests -> Seq(UsageEvent)]
  BY <1>1 DEF IInv, TypeOK
<1> HIDE DEF result, rows
<1> QED
  BY <1>1, <1>2, <1>3, <1>4, RoundStep

LEMMA ClientAbortsStep ==
  ASSUME IInv, NEW r \in Requests, ClientAborts(r)
  PROVE  IInv'
<1> DEFINE result ==
             [outcome |-> "aborted", status |-> 0, cred |-> Current(r),
              attempts |-> Len(tried[r]), class |-> "none",
              thrown |-> "AbortError"]
<1>1. /\ pc[r] = "fetching"
      /\ logs' = [logs EXCEPT ![r] =
                    Append(@, PersistLog(result, budget[r].attempts))]
      /\ Return(r, result)
      /\ UNCHANGED <<clock, live, settings, input, tried>>
      /\ row' = row /\ usage' = usage
  BY DEF ClientAborts, sharedVars
<1>2. result \in Result
  BY <1>1, CurrentType DEF Result, Outcomes, Exceptions
<1> HIDE DEF result
<1>3. logs' \in [Requests -> Seq(LogRow)]
  <2>1. budget[r].attempts \in Nat
    BY DEF IInv, TypeOK, Budget
  <2>2. PersistLog(result, budget[r].attempts) \in LogRow
    BY <1>2, <2>1, PersistLogType
  <2> QED
    BY <1>1, <2>2 DEF IInv, TypeOK
<1>4. row' \in [Pairs -> Row] /\ usage' \in [Requests -> Seq(UsageEvent)]
  BY <1>1 DEF IInv, TypeOK
<1> QED
  BY <1>1, <1>2, <1>3, <1>4, ReturnStep

LEMMA AdministerStep ==
  ASSUME IInv, Administer
  PROVE  IInv'
<1>1. UNCHANGED <<clock, input, callVars>>
  BY DEF Administer, DeleteCredential, ClearAllCooldowns, SaveSettings
<1>2. \A q \in Requests : CallOK(q)' /\ OnTime(q)'
  BY <1>1, CallsKept DEF IInv, OnTime, callVars
<1>3. live' \in SUBSET Creds /\ settings' \in Settings /\ row' \in [Pairs -> Row]
  <2>1. ASSUME NEW c \in Creds, DeleteCredential(c)
        PROVE  <1>3
    BY <2>1 DEF DeleteCredential, IInv, TypeOK
  <2>2. CASE ClearAllCooldowns
    BY <2>2, ReadyType DEF ClearAllCooldowns, IInv, TypeOK
  <2>3. ASSUME NEW s \in SettingsChoices, SaveSettings(s)
        PROVE  <1>3
    BY <2>3, RoutingAssumption DEF SaveSettings, IInv, TypeOK
  <2> QED
    BY <2>1, <2>2, <2>3 DEF Administer
<1>4. TypeOK'
  BY <1>1, <1>3 DEF IInv, TypeOK, callVars
<1> QED
  BY <1>2, <1>4 DEF IInv

LEMMA TickStep ==
  ASSUME IInv, Tick
  PROVE  IInv'
<1>1. /\ NoTimerDue /\ clock' = clock + 1
      /\ UNCHANGED <<live, settings, row, input, callVars>>
  BY DEF Tick
<1>2. TypeOK'
  BY <1>1 DEF IInv, TypeOK, callVars
<1>3. ASSUME NEW q \in Requests
      PROVE  OnTime(q)'
  <2>1. /\ clock \in Nat /\ timer[q] \in Nat /\ sentAt[q] \in Nat
        /\ MaxLag \in Nat
    BY RoutingAssumption DEF IInv, TypeOK
  <2>2. pc[q] = "fetching" => clock < timer[q]
    BY <1>1 DEF NoTimerDue
  <2> QED
    BY <1>1, <2>1, <2>2 DEF IInv, OnTime, callVars
<1>4. \A q \in Requests : CallOK(q)'
  BY <1>1, CallsKept
<1> QED
  BY <1>2, <1>3, <1>4 DEF IInv

LEMMA CrashStep ==
  ASSUME IInv, Crash
  PROVE  IInv'
<1> DEFINE inFlight == {r \in Requests : pc[r] = "fetching"}
<1>1. /\ pc' = [r \in Requests |-> IF r \in inFlight THEN "lost" ELSE pc[r]]
      /\ budget' = [r \in Requests |-> NoBudget]
      /\ pool' = [r \in Requests |-> {}]
      /\ sentAt' = [r \in Requests |-> 0]
      /\ timer' = [r \in Requests |-> 0]
      /\ last' = [r \in Requests |-> IF r \in inFlight THEN NoResult ELSE last[r]]
      /\ UNCHANGED <<sharedVars, input, tried, logs, usage>>
  BY DEF Crash
<1>2. /\ pc' \in [Requests -> {"new", "fetching", "done", "lost"}]
      /\ budget' \in [Requests -> Budget]
      /\ pool' \in [Requests -> SUBSET Candidate]
      /\ sentAt' \in [Requests -> Nat]
      /\ timer' \in [Requests -> Nat]
      /\ last' \in [Requests -> Result]
  BY <1>1, NoBudgetType, NoResultType DEF IInv, TypeOK
<1>3. TypeOK'
  BY <1>1, <1>2 DEF IInv, TypeOK, sharedVars
<1>4. ASSUME NEW q \in Requests
      PROVE  CallOK(q)' /\ OnTime(q)'
  <2>1. /\ pc'[q] # "fetching" /\ (pc'[q] = "new" => pc[q] = "new")
        /\ pool'[q] = {} /\ tried'[q] = tried[q]
    BY <1>1
  <2> QED
    BY <2>1, FS_EmptySet DEF IInv, CallOK, OnTime
<1> QED
  BY <1>3, <1>4 DEF IInv

(* The invariant is inductive.                                             *)
LEMMA IInvInductive ==
  ASSUME IInv, [Next]_vars
  PROVE  IInv'
<1>1. ASSUME NEW r \in Requests, Begin(r)
      PROVE  IInv'
  BY <1>1, StartStep, StartWithoutKeysStep DEF Begin
<1>2. ASSUME NEW r \in Requests, Settle(r)
      PROVE  IInv'
  <2>1. ASSUME NEW a \in Answers, Succeeds(r, a)
        PROVE  IInv'
    BY <2>1, SucceedsStep
  <2>2. ASSUME NEW a \in Answers, Fails(r, a)
        PROVE  IInv'
    BY <2>2, FailsStep
  <2>3. CASE Throws(r)
    BY <2>3, CatchStep DEF Throws, Exceptions
  <2>4. CASE TimesOut(r)
    BY <2>4, CatchStep DEF TimesOut, Exceptions
  <2>5. CASE ClientAborts(r)
    BY <2>5, ClientAbortsStep
  <2> QED
    BY <1>2, <2>1, <2>2, <2>3, <2>4, <2>5 DEF Settle
<1>3. CASE Administer
  BY <1>3, AdministerStep
<1>4. CASE Tick
  BY <1>4, TickStep
<1>5. CASE Crash
  BY <1>5, CrashStep
<1>6. CASE UNCHANGED vars
  <2>1. UNCHANGED <<clock, live, settings, row, input, callVars>>
    BY <1>6 DEF vars, sharedVars
  <2>2. TypeOK'
    BY <2>1 DEF IInv, TypeOK, callVars
  <2>3. \A q \in Requests : CallOK(q)' /\ OnTime(q)'
    BY <2>1, CallsKept DEF IInv, OnTime, callVars
  <2> QED
    BY <2>2, <2>3 DEF IInv
<1> QED
  BY <1>1, <1>2, <1>3, <1>4, <1>5, <1>6 DEF Next

(* A request's attempt is counted against the budget it read, and its      *)
(* timer is set within it: what WithinBudget says, from the invariant.     *)
LEMMA IInvBudget == IInv => WithinBudget
BY DEF IInv, CallOK, OnTime, WithinBudget

LEMMA IInvDistinct == IInv => NeverTwiceTheSameKey
BY DEF IInv, CallOK, NeverTwiceTheSameKey

-------------------------------------------------------------------------------
(* The theorems about every behaviour of the specification.                *)

LEMMA SpecIInv == Spec => []IInv
<1>1. Init => IInv
  BY InitIInv
<1>2. IInv /\ [Next]_vars => IInv'
  BY IInvInductive
<1> QED
  BY <1>1, <1>2, PTL DEF Spec

(* The table, the calls, the logs and the usage events keep their types:   *)
(* counters and cooldowns never go below zero, every log row and usage     *)
(* event names a known credential.                                         *)
THEOREM TypeCorrect == Spec => []TypeOK
<1>1. IInv => TypeOK
  BY DEF IInv
<1> QED
  BY <1>1, SpecIInv, PTL

(* The retry loop never sends one request twice with the same credential,  *)
(* for any number of credentials and overlapping requests.                 *)
THEOREM NeverTwice == Spec => []NeverTwiceTheSameKey
BY IInvDistinct, SpecIInv, PTL

(* The retry loop stays within the attempts and the deadline it read, and  *)
(* its timers within both, for any settings and any lag of the event loop. *)
THEOREM BudgetKept == Spec => []WithinBudget
BY IInvBudget, SpecIInv, PTL

-------------------------------------------------------------------------------
(* RoutingService implements FallbackContract: the initial states map to   *)
(* initial states, and every step of the detailed specification maps to a  *)
(* step of the contract or to a stutter.  What the mapping needs beyond    *)
(* IInv is that a request which has not returned is not in the log.        *)

LoggedOnReturn == \A r \in Requests : pc[r] # "done" => logs[r] = <<>>

-------------------------------------------------------------------------------
(* The mapping, request by request.                                        *)

LEMMA Mapped ==
  ASSUME NEW r \in Requests
  PROVE  /\ AbsState[r] = Phase(pc[r])
         /\ AbsAnswer[r] = Seen(IF pc[r] = "done" THEN last[r] ELSE NoResult)
BY DEF AbsState, AbsAnswer

(* A step that leaves the four parts of the calls alone stutters.          *)
LEMMA Stutters ==
  ASSUME UNCHANGED <<pc, tried, last, logs>>
  PROVE  UNCHANGED Contract!vars
BY DEF Contract!vars, AbsState, AbsAnswer, AbsLogged

(* The next attempt is Send with a key the request has not used.           *)
LEMMA SendMaps ==
  ASSUME IInv, NEW r \in Requests, pc[r] \in {"new", "fetching"},
         NEW b, NEW remaining, IsPool(remaining), IsFiniteSet(remaining),
         b \in Budget,
         \A k \in remaining : \A i \in DOMAIN tried[r] : k.cred # tried[r][i],
         NEW rows, NEW result, NEW now,
         SendNext(r, b, remaining, rows, result, now)
  PROVE  \E k \in Creds : Contract!Send(r, k)
<1> DEFINE k == Best(Strategy(r), b.now, remaining)
<1>1. /\ remaining # {}
      /\ tried' = [tried EXCEPT ![r] = Append(tried[r], k.cred)]
      /\ pc' = [pc EXCEPT ![r] = "fetching"]
      /\ last' = [last EXCEPT ![r] = result]
      /\ UNCHANGED logs
  BY DEF SendNext, MayAttempt
<1>2. k \in remaining
  BY <1>1, BestIsFirst DEF Budget
<1>3. k.cred \in Creds
  BY <1>2 DEF IsPool, Candidate
<1> HIDE DEF k
<1>4. /\ pc \in [Requests -> {"new", "fetching", "done", "lost"}]
      /\ tried[r] \in Seq(Creds)
  BY DEF IInv, TypeOK
<1>5. AbsState[r] \in {"idle", "waiting"}
  BY Mapped DEF Phase
<1>6. AbsState' = [AbsState EXCEPT ![r] = "waiting"]
  BY <1>1, <1>4 DEF AbsState, Phase
<1>7. UNCHANGED <<AbsAnswer, AbsLogged>>
  <2>1. ASSUME NEW q \in Requests
        PROVE  Seen(IF pc'[q] = "done" THEN last'[q] ELSE NoResult)
                 = Seen(IF pc[q] = "done" THEN last[q] ELSE NoResult)
    BY <1>1, <1>4 DEF IInv, TypeOK
  <2> QED
    BY <1>1, <2>1 DEF AbsAnswer, AbsLogged
<1>8. \A i \in 1..Len(tried[r]) : tried[r][i] # k.cred
  BY <1>2, <1>4
<1> QED
  BY <1>1, <1>3, <1>5, <1>6, <1>7, <1>8 DEF Contract!Send

(* A request that returns without an attempt is refused.                   *)
LEMMA RefuseMaps ==
  ASSUME IInv, NEW r \in Requests, pc[r] = "new",
         NEW result \in {NoKeys, Exhausted},
         Return(r, result), UNCHANGED <<tried, logs>>
  PROVE  Contract!Refuse(r)
<1>1. /\ pc' = [pc EXCEPT ![r] = "done"]
      /\ last' = [last EXCEPT ![r] = result]
      /\ pc \in [Requests -> {"new", "fetching", "done", "lost"}]
      /\ last \in [Requests -> Result]
  BY DEF Return, IInv, TypeOK
<1>2. /\ AbsState[r] = "idle"
      /\ AbsState' = [AbsState EXCEPT ![r] = "answered"]
  BY <1>1 DEF AbsState, Phase
<1>3. Seen(result) \in {Contract!Refusal("no_keys"), Contract!Refusal("error")}
  BY DEF Seen, NoKeys, Exhausted, Contract!Refusal, Contract!NoAnswer
<1>4. AbsAnswer' = [AbsAnswer EXCEPT ![r] = Seen(result)]
  BY <1>1 DEF AbsAnswer
<1>5. UNCHANGED AbsLogged
  BY DEF AbsLogged
<1> QED
  BY <1>2, <1>3, <1>4, <1>5 DEF Contract!Refuse

(* A waiting request that returns what it got from its current key and     *)
(* logs it has finished.                                                   *)
LEMMA FinishMaps ==
  ASSUME IInv, LoggedOnReturn, NEW r \in Requests, pc[r] = "fetching",
         NEW result \in Result, NEW total \in Nat,
         result.outcome \in {"success", "error", "timeout", "aborted"},
         result.cred = Current(r), result.attempts = Len(tried[r]),
         Return(r, result), UNCHANGED tried,
         logs' = [logs EXCEPT ![r] = Append(logs[r], PersistLog(result, total))]
  PROVE  \E outcome \in {"success", "error", "timeout", "aborted"} :
           Contract!Finish(r, outcome)
<1>1. /\ pc' = [pc EXCEPT ![r] = "done"]
      /\ last' = [last EXCEPT ![r] = result]
      /\ pc \in [Requests -> {"new", "fetching", "done", "lost"}]
      /\ last \in [Requests -> Result]
      /\ logs \in [Requests -> Seq(LogRow)]
  BY DEF Return, IInv, TypeOK
<1>2. /\ AbsState[r] = "waiting"
      /\ AbsState' = [AbsState EXCEPT ![r] = "answered"]
  BY <1>1 DEF AbsState, Phase
<1>3. Seen(result) = Contract!AnswerOf(tried[r], result.outcome)
  BY DEF Seen, Current, Contract!AnswerOf
<1>4. SeenInLog(PersistLog(result, total)) = Seen(result)
  BY DEF Seen, SeenInLog, PersistLog
<1>5. AbsAnswer' = [AbsAnswer EXCEPT ![r] = Seen(result)]
  BY <1>1 DEF AbsAnswer
<1>6. AbsLogged' = [AbsLogged EXCEPT ![r] = {Seen(result)}]
  <2>1. logs'[r] = <<PersistLog(result, total)>>
    <3>1. logs[r] = <<>> /\ PersistLog(result, total) \in LogRow
      BY PersistLogType DEF LoggedOnReturn
    <3>2. logs'[r] = Append(<<>>, PersistLog(result, total))
      BY <1>1, <3>1
    <3> QED
      BY <3>1, <3>2
  <2>2. {SeenInLog(logs'[r][i]) : i \in DOMAIN logs'[r]} = {Seen(result)}
    BY <1>4, <2>1
  <2>3. \A q \in Requests \ {r} : logs'[q] = logs[q]
    BY <1>1
  <2> QED
    BY <2>2, <2>3 DEF AbsLogged
<1> QED
  BY <1>2, <1>3, <1>5, <1>6 DEF Contract!Finish

-------------------------------------------------------------------------------
(* The log invariant, for the two ways to leave the loop.                  *)

LEMMA OneReturns ==
  ASSUME IInv, LoggedOnReturn, NEW r \in Requests, NEW result,
         Return(r, result),
         \/ UNCHANGED logs
         \/ \E entry : logs' = [logs EXCEPT ![r] = Append(logs[r], entry)]
  PROVE  LoggedOnReturn'
BY DEF Return, LoggedOnReturn, IInv, TypeOK

(* Leaving the loop: refused before the first attempt, finished after it.  *)
LEMMA LeaveLoopMaps ==
  ASSUME IInv, LoggedOnReturn, NEW r \in Requests, NEW b, b.attempts \in Nat,
         NEW rows, NEW result \in Result, LeaveLoop(r, b, rows, result),
         \/ pc[r] = "new" /\ result = NoResult
         \/ /\ pc[r] = "fetching"
            /\ result.outcome \in {"success", "error", "timeout", "aborted"}
            /\ result.cred = Current(r) /\ result.attempts = Len(tried[r])
  PROVE  Contract!Next /\ LoggedOnReturn'
<1>1. CASE pc[r] = "new" /\ result = NoResult
  <2>1. Return(r, Exhausted) /\ UNCHANGED <<tried, logs>>
    BY <1>1 DEF LeaveLoop
  <2>2. Contract!Refuse(r)
    BY <1>1, <2>1, RefuseMaps
  <2> QED
    BY <2>1, <2>2, OneReturns DEF Contract!Next
<1>2. CASE /\ pc[r] = "fetching"
           /\ result.outcome \in {"success", "error", "timeout", "aborted"}
           /\ result.cred = Current(r) /\ result.attempts = Len(tried[r])
  <2>1. result # NoResult
    BY <1>2 DEF NoResult
  <2>2. /\ Return(r, result) /\ UNCHANGED tried
        /\ logs' = [logs EXCEPT ![r] =
                      Append(logs[r], PersistLog(result, b.attempts))]
    BY <2>1 DEF LeaveLoop
  <2>3. \E outcome \in {"success", "error", "timeout", "aborted"} :
          Contract!Finish(r, outcome)
    BY <1>2, <2>2, FinishMaps
  <2> QED
    BY <2>2, <2>3, OneReturns DEF Contract!Next
<1> QED
  BY <1>1, <1>2

(* Once round the loop.                                                    *)
LEMMA RetryLoopMaps ==
  ASSUME IInv, LoggedOnReturn, NEW r \in Requests, NEW b \in Budget,
         NEW remaining, IsPool(remaining), IsFiniteSet(remaining),
         \A k \in remaining : \A i \in DOMAIN tried[r] : k.cred # tried[r][i],
         NEW rows, NEW result \in Result, NEW now,
         RetryLoop(r, b, remaining, rows, result, now),
         \/ pc[r] = "new" /\ result = NoResult
         \/ /\ pc[r] = "fetching"
            /\ result.outcome \in {"success", "error", "timeout", "aborted"}
            /\ result.cred = Current(r) /\ result.attempts = Len(tried[r])
  PROVE  Contract!Next /\ LoggedOnReturn'
<1>1. CASE SendNext(r, b, remaining, rows, result, now)
  <2>1. \E k \in Creds : Contract!Send(r, k)
    BY <1>1, SendMaps
  <2>2. LoggedOnReturn'
    BY <1>1 DEF SendNext, LoggedOnReturn, IInv, TypeOK
  <2> QED
    BY <2>1, <2>2 DEF Contract!Next
<1>2. CASE LeaveLoop(r, b, rows, result)
  BY <1>2, LeaveLoopMaps DEF Budget
<1> QED
  BY <1>1, <1>2 DEF RetryLoop

-------------------------------------------------------------------------------
(* Every step of the detailed specification.                               *)

LEMMA StartMaps ==
  ASSUME IInv, LoggedOnReturn, NEW r \in Requests, NEW lag \in 0..MaxLag,
         NEW gone \in BOOLEAN, Start(r, lag, gone)
  PROVE  Contract!Next /\ LoggedOnReturn'
<1> DEFINE now == clock + lag
           rows == Promoted(input[r], now)
           candidates == Candidates(input[r], rows)
           b == [now |-> now,
                 attempts |-> MinOf(settings.attempts, Cardinality(candidates)),
                 deadline |-> clock + settings.loopDeadline,
                 timeout |-> settings.timeout]
<1>1. /\ pc[r] = "new"
      /\ IF gone THEN LeaveLoop(r, b, rows, NoResult)
                 ELSE RetryLoop(r, b, candidates, rows, NoResult, now)
  BY DEF Start
<1>2. now \in Nat /\ clock \in Nat /\ settings \in Settings
  BY RoutingAssumption DEF IInv, TypeOK
<1>3. rows \in [Pairs -> Row] /\ input[r] \in Input
  BY <1>2, PromotedType DEF IInv, TypeOK
<1>4. IsPool(candidates) /\ IsFiniteSet(candidates)
  <2> HIDE DEF rows
  <2> QED
    BY <1>3, CandidatesArePool
<1>5. b \in Budget
  <2>1. Cardinality(candidates) \in Nat
    BY <1>4, FS_CardinalityType
  <2> HIDE DEF candidates, now
  <2> QED
    BY <1>2, <2>1 DEF Budget, MinOf, Settings
<1>6. \A k \in candidates : \A i \in DOMAIN tried[r] : k.cred # tried[r][i]
  <2>1. tried[r] = <<>>
    BY <1>1 DEF IInv, CallOK
  <2> QED
    BY <2>1
<1> HIDE DEF candidates, b, rows, now
<1>7. b.attempts \in Nat
  BY <1>5 DEF Budget
<1> QED
  BY <1>1, <1>4, <1>5, <1>6, <1>7, NoResultType, LeaveLoopMaps, RetryLoopMaps

(* The steps of a waiting request that go round the loop.                  *)
LEMMA RoundMaps ==
  ASSUME IInv, LoggedOnReturn, NEW r \in Requests, pc[r] = "fetching",
         NEW rows, NEW result \in Result,
         result.outcome \in {"success", "error", "timeout", "aborted"},
         result.cred = Current(r), result.attempts = Len(tried[r]),
         RetryLoop(r, budget[r], pool[r], rows, result, clock)
  PROVE  Contract!Next /\ LoggedOnReturn'
BY PoolOK, RetryLoopMaps

LEMMA FailsMaps ==
  ASSUME IInv, LoggedOnReturn, NEW r \in Requests, NEW a \in Answers, Fails(r, a)
  PROVE  Contract!Next /\ LoggedOnReturn'
<1> DEFINE result ==
             [outcome |-> "error", status |-> a.status, cred |-> Current(r),
              attempts |-> Len(tried[r]), class |-> ClassifyUpstreamError(a),
              thrown |-> "none"]
           rows == [row EXCEPT ![CurrentPair(r)] = Penalised(@, a, clock)]
<1>1. /\ pc[r] = "fetching"
      /\ RetryLoop(r, budget[r], pool[r], rows, result, clock)
  BY DEF Fails
<1>2. result \in Result
  BY <1>1, CurrentType, AnswersAreAnswers, ClassificationType
     DEF Result, Outcomes, Exceptions
<1>3. /\ result.outcome = "error" /\ result.cred = Current(r)
      /\ result.attempts = Len(tried[r])
  OBVIOUS
<1> HIDE DEF result, rows
<1> QED
  BY <1>1, <1>2, <1>3, RoundMaps

LEMMA CatchMaps ==
  ASSUME IInv, LoggedOnReturn, NEW r \in Requests, NEW name \in Exceptions,
         Catch(r, name)
  PROVE  Contract!Next /\ LoggedOnReturn'
<1> DEFINE timedOut == name = "AbortError"
           result == [outcome |-> IF timedOut THEN "timeout" ELSE "error",
                      status |-> 502, cred |-> Current(r),
                      attempts |-> Len(tried[r]),
                      class |-> IF timedOut THEN "timeout" ELSE "transient",
                      thrown |-> name]
           rows == [row EXCEPT ![CurrentPair(r)] = IncrementError(@)]
<1>1. /\ pc[r] = "fetching"
      /\ RetryLoop(r, budget[r], pool[r], rows, result, clock)
  BY DEF Catch
<1>2. result \in Result
  BY <1>1, CurrentType DEF Result, Outcomes, Classifications
<1>3. /\ result.outcome \in {"timeout", "error"} /\ result.cred = Current(r)
      /\ result.attempts = Len(tried[r])
  OBVIOUS
<1> HIDE DEF result, rows
<1> QED
  BY <1>1, <1>2, <1>3, RoundMaps

LEMMA SucceedsMaps ==
  ASSUME IInv, LoggedOnReturn, NEW r \in Requests, NEW a \in Answers, Succeeds(r, a)
  PROVE  Contract!Next /\ LoggedOnReturn'
<1> DEFINE result ==
             [outcome |-> "success", status |-> a.status, cred |-> Current(r),
              attempts |-> Len(tried[r]), class |-> "none", thrown |-> "none"]
<1>1. /\ pc[r] = "fetching" /\ Return(r, result) /\ UNCHANGED tried
      /\ logs' = [logs EXCEPT ![r] =
                    Append(logs[r], PersistLog(result, budget[r].attempts))]
  BY DEF Succeeds
<1>2. result \in Result
  BY <1>1, CurrentType, AnswersAreAnswers
     DEF Result, Outcomes, Exceptions
<1>3. budget[r].attempts \in Nat
  BY DEF IInv, TypeOK, Budget
<1>4. /\ result.outcome = "success" /\ result.cred = Current(r)
      /\ result.attempts = Len(tried[r])
  OBVIOUS
<1> HIDE DEF result
<1> QED
  BY <1>1, <1>2, <1>3, <1>4, FinishMaps, OneReturns DEF Contract!Next

LEMMA ClientAbortsMaps ==
  ASSUME IInv, LoggedOnReturn, NEW r \in Requests, ClientAborts(r)
  PROVE  Contract!Next /\ LoggedOnReturn'
<1> DEFINE result ==
             [outcome |-> "aborted", status |-> 0, cred |-> Current(r),
              attempts |-> Len(tried[r]), class |-> "none",
              thrown |-> "AbortError"]
<1>1. /\ pc[r] = "fetching" /\ Return(r, result) /\ UNCHANGED tried
      /\ logs' = [logs EXCEPT ![r] =
                    Append(logs[r], PersistLog(result, budget[r].attempts))]
  BY DEF ClientAborts
<1>2. result \in Result
  BY <1>1, CurrentType DEF Result, Outcomes, Exceptions
<1>3. budget[r].attempts \in Nat
  BY DEF IInv, TypeOK, Budget
<1>4. /\ result.outcome = "aborted" /\ result.cred = Current(r)
      /\ result.attempts = Len(tried[r])
  OBVIOUS
<1> HIDE DEF result
<1> QED
  BY <1>1, <1>2, <1>3, <1>4, FinishMaps, OneReturns DEF Contract!Next

LEMMA CrashMaps ==
  ASSUME IInv, LoggedOnReturn, Crash
  PROVE  Contract!Next /\ LoggedOnReturn'
<1>1. /\ \E r \in Requests : pc[r] = "fetching"
      /\ pc' = [r \in Requests |-> IF pc[r] = "fetching" THEN "lost" ELSE pc[r]]
      /\ last' = [r \in Requests |->
                    IF pc[r] = "fetching" THEN NoResult ELSE last[r]]
      /\ UNCHANGED <<tried, logs>>
  <2> DEFINE inFlight == {r \in Requests : pc[r] = "fetching"}
  <2>1. \A r \in Requests : r \in inFlight <=> pc[r] = "fetching"
    OBVIOUS
  <2> QED
    BY <2>1 DEF Crash
<1>2. pc \in [Requests -> {"new", "fetching", "done", "lost"}]
  BY DEF IInv, TypeOK
<1>3. \E r \in Requests : AbsState[r] = "waiting"
  BY <1>1 DEF AbsState, Phase
<1>4. AbsState' = [r \in Requests |->
                     IF AbsState[r] = "waiting" THEN "lost" ELSE AbsState[r]]
  <2>1. ASSUME NEW r \in Requests
        PROVE  Phase(pc'[r])
                 = IF Phase(pc[r]) = "waiting" THEN "lost" ELSE Phase(pc[r])
    BY <1>1, <1>2 DEF Phase
  <2> QED
    BY <2>1 DEF AbsState
<1>5. UNCHANGED <<AbsAnswer, AbsLogged>>
  <2>1. ASSUME NEW r \in Requests
        PROVE  Seen(IF pc'[r] = "done" THEN last'[r] ELSE NoResult)
                 = Seen(IF pc[r] = "done" THEN last[r] ELSE NoResult)
    BY <1>1, <1>2
  <2> QED
    BY <1>1, <2>1 DEF AbsAnswer, AbsLogged
<1>6. LoggedOnReturn'
  BY <1>1 DEF LoggedOnReturn
<1> QED
  BY <1>1, <1>3, <1>4, <1>5, <1>6 DEF Contract!Lose, Contract!Next

LEMMA StepMaps ==
  ASSUME IInv, LoggedOnReturn, [Next]_vars
  PROVE  [Contract!Next]_Contract!vars /\ LoggedOnReturn'
<1>1. ASSUME NEW r \in Requests, Begin(r)
      PROVE  Contract!Next /\ LoggedOnReturn'
  <2>1. CASE StartWithoutKeys(r)
    <3>1. pc[r] = "new" /\ Return(r, NoKeys) /\ UNCHANGED <<tried, logs>>
      BY <2>1 DEF StartWithoutKeys
    <3> QED
      BY <3>1, RefuseMaps, OneReturns DEF Contract!Next
  <2> QED
    BY <1>1, <2>1, StartMaps DEF Begin
<1>2. ASSUME NEW r \in Requests, Settle(r)
      PROVE  Contract!Next /\ LoggedOnReturn'
  BY <1>2, SucceedsMaps, FailsMaps, CatchMaps, ClientAbortsMaps
     DEF Settle, Throws, TimesOut, Exceptions
<1>3. CASE Administer \/ Tick \/ UNCHANGED vars
  <2>1. UNCHANGED <<pc, tried, last, logs>>
    BY <1>3 DEF Administer, DeleteCredential, ClearAllCooldowns, SaveSettings,
                Tick, vars, callVars
  <2> QED
    BY <2>1, Stutters DEF LoggedOnReturn
<1> QED
  BY <1>1, <1>2, <1>3, CrashMaps DEF Next

(* route keeps its contract for any number of requests and credentials,    *)
(* whatever they overlap with.                                             *)
THEOREM RouteKeepsItsContract == Spec => ImplementsContract
<1>1. Init => Contract!Init /\ LoggedOnReturn
  <2> SUFFICES ASSUME Init PROVE Contract!Init /\ LoggedOnReturn
    OBVIOUS
  <2>1. AbsState = [r \in Requests |-> "idle"]
    BY DEF Init, AbsState, Phase
  <2>2. AbsAnswer = [r \in Requests |-> Contract!NoAnswer]
    BY DEF Init, AbsAnswer, Seen, NoResult, Contract!NoAnswer
  <2>3. AbsLogged = [r \in Requests |-> {}]
    BY DEF Init, AbsLogged
  <2> QED
    BY <2>1, <2>2, <2>3 DEF Init, Contract!Init, LoggedOnReturn
<1>2. Spec => [](IInv /\ LoggedOnReturn)
  <2>1. LoggedOnReturn /\ IInv /\ [Next]_vars => LoggedOnReturn'
    BY StepMaps
  <2> QED
    BY <1>1, <2>1, SpecIInv, PTL DEF Spec
<1>3. IInv /\ LoggedOnReturn /\ [Next]_vars => [Contract!Next]_Contract!vars
  BY StepMaps
<1> QED
  BY <1>1, <1>2, <1>3, PTL DEF Spec, Contract!Spec, ImplementsContract
===============================================================================

-------------------------- MODULE RoutingRecordsProofs --------------------------
(***************************************************************************)
(* What RoutingService leaves behind while requests overlap: the counters  *)
(* that selection works with, the log and the usage events, the cooldowns, *)
(* the choice of the first key, the moment a request gives up, and the     *)
(* spread of overlapping requests over the keys.                           *)
(***************************************************************************)
EXTENDS RoutingServiceProofs

-------------------------------------------------------------------------------
(* Sets of calls.                                                          *)

LEMMA CallSets ==
  ASSUME NEW p
  PROVE  /\ IsFiniteSet(InFlight(p)) /\ Cardinality(InFlight(p)) \in Nat
         /\ IsFiniteSet(SentTo(p)) /\ Cardinality(SentTo(p)) \in Nat
<1>1. InFlight(p) \in SUBSET Requests /\ SentTo(p) \in SUBSET Requests
  BY DEF InFlight, SentTo
<1> QED
  BY <1>1, FiniteAssumption, FS_Subset, FS_CardinalityType

(* A call that waits for a pair has been sent to it.                       *)
LEMMA InFlightWasSent ==
  ASSUME IInv, NEW p \in Pairs
  PROVE  InFlight(p) \subseteq SentTo(p)
<1> SUFFICES ASSUME NEW r \in InFlight(p)
             PROVE  r \in SentTo(p)
  OBVIOUS
<1>1. r \in Requests /\ pc[r] = "fetching" /\ CurrentPair(r) = p
  BY DEF InFlight
<1>2. tried[r] \in Seq(Creds) /\ tried[r] # <<>>
  BY <1>1 DEF IInv, TypeOK, CallOK
<1>3. Len(tried[r]) \in DOMAIN tried[r]
  BY <1>2
<1>4. p[1] = input[r].model /\ p[2] = tried[r][Len(tried[r])]
  BY <1>1 DEF CurrentPair, Current
<1> QED
  BY <1>1, <1>3, <1>4 DEF SentTo

LEMMA LeavesFlight ==
  ASSUME NEW r, NEW p
  PROVE  /\ IsFiniteSet(InFlight(p) \ {r})
         /\ Cardinality(InFlight(p) \ {r}) \in Nat
         /\ Cardinality(InFlight(p) \ {r}) =
              IF r \in InFlight(p) THEN Cardinality(InFlight(p)) - 1
                                   ELSE Cardinality(InFlight(p))
BY CallSets, FS_RemoveElement, FS_CardinalityType

-------------------------------------------------------------------------------
(* The counters, in two halves: the call r has its answer, if it waited    *)
(* for one, counted in rows and is no longer in flight (Settled); then it  *)
(* is sent once more, or returns.                                          *)

Settled(rows, r) ==
  \A p \in Pairs :
    /\ rows[p].uses = Cardinality(SentTo(p))
    /\ rows[p].errors + Cardinality(InFlight(p) \ {r}) <= rows[p].uses

(* The call is sent with the credential k.                                 *)
SentWith(r, k, rows, now) ==
  /\ tried' = [tried EXCEPT ![r] = Append(@, k)]
  /\ pc' = [pc EXCEPT ![r] = "fetching"]
  /\ row' = [rows EXCEPT ![<<input[r].model, k>>] = IncrementUse(@, now)]

LEMMA SentWithOK ==
  ASSUME IInv, NEW r \in Requests, NEW k \in Creds, NEW rows, NEW now,
         SentWith(r, k, rows, now), UNCHANGED input,
         \A i \in DOMAIN tried[r] : tried[r][i] # k
  PROVE  /\ r \notin SentTo(<<input[r].model, k>>)
         /\ Current(r)' = k /\ CurrentPair(r)' = <<input[r].model, k>>
         /\ \A p \in Pairs :
              /\ SentTo(p)' = IF p = <<input[r].model, k>>
                              THEN SentTo(p) \cup {r} ELSE SentTo(p)
              /\ InFlight(p)' = IF p = <<input[r].model, k>>
                                THEN (InFlight(p) \ {r}) \cup {r}
                                ELSE InFlight(p) \ {r}
<1>1. /\ tried \in [Requests -> Seq(Creds)] /\ tried[r] \in Seq(Creds)
      /\ pc \in [Requests -> {"new", "fetching", "done", "lost"}]
  BY DEF IInv, TypeOK
<1>2. /\ tried'[r] = Append(tried[r], k) /\ pc'[r] = "fetching"
      /\ \A q \in Requests \ {r} : tried'[q] = tried[q] /\ pc'[q] = pc[q]
  BY <1>1 DEF SentWith
<1>3. /\ Len(tried'[r]) = Len(tried[r]) + 1 /\ Len(tried[r]) \in Nat
      /\ DOMAIN tried'[r] = 1..(Len(tried[r]) + 1)
      /\ DOMAIN tried[r] = 1..Len(tried[r])
      /\ \A i \in 1..Len(tried[r]) : tried'[r][i] = tried[r][i]
      /\ tried'[r][Len(tried[r]) + 1] = k
  BY <1>1, <1>2
<1>4. Current(r)' = k /\ CurrentPair(r)' = <<input[r].model, k>>
  BY <1>3 DEF Current, CurrentPair
<1>5. r \notin SentTo(<<input[r].model, k>>)
  BY DEF SentTo
<1>6. ASSUME NEW p \in Pairs
      PROVE  /\ SentTo(p)' = IF p = <<input[r].model, k>>
                             THEN SentTo(p) \cup {r} ELSE SentTo(p)
             /\ InFlight(p)' = IF p = <<input[r].model, k>>
                               THEN (InFlight(p) \ {r}) \cup {r}
                               ELSE InFlight(p) \ {r}
  <2>1. p = <<p[1], p[2]>>
    BY DEF Pairs
  <2>2. ASSUME NEW q \in Requests \ {r}
        PROVE  /\ q \in SentTo(p)' <=> q \in SentTo(p)
               /\ q \in InFlight(p)' <=> q \in InFlight(p)
    BY <1>2 DEF SentTo, InFlight, CurrentPair, Current
  <2>3. r \in SentTo(p)' <=> p = <<input[r].model, k>> \/ r \in SentTo(p)
    <3>1. (\E i \in DOMAIN tried'[r] : tried'[r][i] = p[2])
            <=> p[2] = k \/ \E i \in DOMAIN tried[r] : tried[r][i] = p[2]
      BY <1>3
    <3> QED
      BY <2>1, <3>1 DEF SentTo
  <2>4. r \in InFlight(p)' <=> p = <<input[r].model, k>>
    BY <1>2, <1>4 DEF InFlight
  <2>5. /\ SentTo(p)' \subseteq Requests /\ SentTo(p) \subseteq Requests
        /\ InFlight(p)' \subseteq Requests /\ InFlight(p) \subseteq Requests
    BY DEF SentTo, InFlight
  <2> QED
    BY <2>2, <2>3, <2>4, <2>5
<1> QED
  BY <1>4, <1>5, <1>6

(* Sent once more: one more attempt, one more call in flight.              *)
LEMMA CountedBySend ==
  ASSUME IInv, NEW r \in Requests, NEW k \in Creds,
         NEW rows \in [Pairs -> Row], NEW now \in Nat,
         Settled(rows, r), SentWith(r, k, rows, now), UNCHANGED input,
         \A i \in DOMAIN tried[r] : tried[r][i] # k
  PROVE  CountersMatchAttempts'
<1> SUFFICES ASSUME NEW p \in Pairs
             PROVE  /\ row'[p].uses = Cardinality(SentTo(p)')
                    /\ row'[p].errors + Cardinality(InFlight(p)') <= row'[p].uses
  BY DEF CountersMatchAttempts
<1>1. /\ r \notin SentTo(<<input[r].model, k>>)
      /\ SentTo(p)' = IF p = <<input[r].model, k>>
                      THEN SentTo(p) \cup {r} ELSE SentTo(p)
      /\ InFlight(p)' = IF p = <<input[r].model, k>>
                        THEN (InFlight(p) \ {r}) \cup {r} ELSE InFlight(p) \ {r}
  BY SentWithOK
<1>2. /\ rows[p].uses = Cardinality(SentTo(p))
      /\ rows[p].errors + Cardinality(InFlight(p) \ {r}) <= rows[p].uses
      /\ rows[p].uses \in Nat /\ rows[p].errors \in Nat /\ rows[p] \in Row
  BY DEF Settled, Row
<1>3. /\ Cardinality(InFlight(p) \ {r}) \in Nat
      /\ IsFiniteSet(InFlight(p) \ {r})
  BY LeavesFlight
<1>4. CASE p = <<input[r].model, k>>
  <2>1. row'[p] = IncrementUse(rows[p], now)
    BY <1>4 DEF SentWith
  <2>2. row'[p].uses = rows[p].uses + 1 /\ row'[p].errors = rows[p].errors
    BY <1>2, <2>1 DEF IncrementUse, Row
  <2>3. Cardinality(SentTo(p)') = Cardinality(SentTo(p)) + 1
    BY <1>1, <1>4, CallSets, FS_AddElement
  <2>4. Cardinality(InFlight(p)') = Cardinality(InFlight(p) \ {r}) + 1
    BY <1>1, <1>3, <1>4, FS_AddElement
  <2> QED
    BY <1>2, <1>3, <2>2, <2>3, <2>4
<1>5. CASE p # <<input[r].model, k>>
  <2>1. row'[p] = rows[p]
    BY <1>5 DEF SentWith
  <2> QED
    BY <1>1, <1>2, <1>5, <2>1
<1> QED
  BY <1>4, <1>5

(* Returned: nothing is sent, and the call is no longer in flight.         *)
LEMMA CountedByReturn ==
  ASSUME IInv, NEW r \in Requests, NEW result, Return(r, result),
         Settled(row', r), UNCHANGED <<input, tried>>
  PROVE  CountersMatchAttempts'
<1>1. pc' = [pc EXCEPT ![r] = "done"]
      /\ pc \in [Requests -> {"new", "fetching", "done", "lost"}]
  BY DEF Return, IInv, TypeOK
<1>2. ASSUME NEW p \in Pairs
      PROVE  SentTo(p)' = SentTo(p) /\ InFlight(p)' = InFlight(p) \ {r}
  BY <1>1 DEF SentTo, InFlight, CurrentPair, Current
<1> QED
  BY <1>2 DEF Settled, CountersMatchAttempts

-------------------------------------------------------------------------------
(* The table as the step of call r has it before the call is sent on or    *)
(* returns: the answer is counted, no key is disabled, and a cooldown has  *)
(* ended only if its time had passed.                                      *)

NoneDisabled(rows) == \A p \in Pairs : rows[p].state # "disabled"

EndsInTime(rows, now) ==
  \A p \in Pairs : row[p].state = "cooling" /\ rows[p].state # "cooling" =>
                     row[p].until <= now

RowsOK(rows, r, now) ==
  Settled(rows, r) /\ NoneDisabled(rows) /\ EndsInTime(rows, now)

(* The counters of a call that is not in flight are settled already.       *)
LEMMA KeptSettled ==
  ASSUME IInv, CountersMatchAttempts, NEW r, NEW rows,
         \A p \in Pairs : rows[p].uses = row[p].uses /\ rows[p].errors = row[p].errors
  PROVE  Settled(rows, r)
<1> SUFFICES ASSUME NEW p \in Pairs
             PROVE  /\ rows[p].uses = Cardinality(SentTo(p))
                    /\ rows[p].errors + Cardinality(InFlight(p) \ {r}) <= rows[p].uses
  BY DEF Settled
<1>1. /\ row[p].uses = Cardinality(SentTo(p))
      /\ row[p].errors + Cardinality(InFlight(p)) <= row[p].uses
      /\ row[p].uses \in Nat /\ row[p].errors \in Nat
  BY DEF CountersMatchAttempts, IInv, TypeOK, Row
<1>2. /\ Cardinality(InFlight(p)) \in Nat
      /\ Cardinality(InFlight(p) \ {r}) \in Nat
  BY LeavesFlight, CallSets
<1>3. Cardinality(InFlight(p) \ {r}) <= Cardinality(InFlight(p))
  <2>1. InFlight(p) \ {r} \in SUBSET InFlight(p)
    OBVIOUS
  <2> QED
    BY <2>1, CallSets, FS_Subset
<1> QED
  BY <1>1, <1>2, <1>3

(* Promotion moves no counter and ends only what has lapsed.               *)
LEMMA PromotedOK ==
  ASSUME IInv, CountersMatchAttempts, NoneDisabled(row), NEW r, NEW in,
         NEW now \in Nat
  PROVE  RowsOK(Promoted(in, now), r, now)
<1> DEFINE rows == Promoted(in, now)
<1>1. ASSUME NEW p \in Pairs
      PROVE  /\ \/ rows[p] = row[p]
                \/ rows[p] = Ready(row[p]) /\ Lapsed(row[p], now)
             /\ row[p] \in Row
  <2>1. rows[p] = IF p[1] = in.model /\ p[2] \in Capable(in) /\ Lapsed(row[p], now)
                  THEN Ready(row[p]) ELSE row[p]
    BY DEF Promoted
  <2>2. row[p] \in Row
    BY DEF IInv, TypeOK
  <2> HIDE DEF rows
  <2> QED
    BY <2>1, <2>2
<1> HIDE DEF rows
<1>2. ASSUME NEW p \in Pairs
      PROVE  /\ rows[p].uses = row[p].uses /\ rows[p].errors = row[p].errors
             /\ rows[p].state # "disabled"
             /\ row[p].state = "cooling" /\ rows[p].state # "cooling" =>
                  row[p].until <= now
  <2>1. CASE rows[p] = row[p]
    BY <2>1 DEF NoneDisabled
  <2>2. CASE rows[p] = Ready(row[p]) /\ Lapsed(row[p], now)
    BY <1>1, <2>2 DEF Ready, Lapsed, Row
  <2> QED
    BY <1>1, <2>1, <2>2
<1>3. Settled(rows, r)
  BY <1>2, KeptSettled
<1> QED
  BY <1>2, <1>3 DEF RowsOK, NoneDisabled, EndsInTime, rows

(* An answered attempt: whatever the answer does to its row, it counts at  *)
(* most one error more, or starts counting afresh.                         *)
LEMMA AnsweredOK ==
  ASSUME IInv, CountersMatchAttempts, NoneDisabled(row),
         NEW r \in Requests, pc[r] = "fetching", NEW s \in Row, NEW now,
         s.uses = row[CurrentPair(r)].uses,
         s.errors \in {0, row[CurrentPair(r)].errors + 1},
         s.state \in {"cooling", row[CurrentPair(r)].state}
  PROVE  RowsOK([row EXCEPT ![CurrentPair(r)] = s], r, now)
<1> DEFINE c == CurrentPair(r)
           rows == [row EXCEPT ![c] = s]
<1>1. c \in Pairs /\ row \in [Pairs -> Row]
  BY CurrentType DEF IInv, TypeOK
<1>2. rows[c] = s /\ \A p \in Pairs \ {c} : rows[p] = row[p]
  BY <1>1
<1>3. \A p \in Pairs : r \in InFlight(p) <=> p = c
  BY DEF InFlight
<1> HIDE DEF rows, c
<1>4. ASSUME NEW p \in Pairs
      PROVE  /\ rows[p].uses = Cardinality(SentTo(p))
             /\ rows[p].errors + Cardinality(InFlight(p) \ {r}) <= rows[p].uses
  <2>1. /\ row[p].uses = Cardinality(SentTo(p))
        /\ row[p].errors + Cardinality(InFlight(p)) <= row[p].uses
        /\ row[p].uses \in Nat /\ row[p].errors \in Nat
    BY <1>1 DEF CountersMatchAttempts, Row
  <2>2. /\ Cardinality(InFlight(p)) \in Nat
        /\ Cardinality(InFlight(p) \ {r}) =
             IF p = c THEN Cardinality(InFlight(p)) - 1
                      ELSE Cardinality(InFlight(p))
    BY <1>3, CallSets, LeavesFlight
  <2>3. CASE p = c
    BY <1>2, <2>1, <2>2, <2>3 DEF c
  <2>4. CASE p # c
    BY <1>2, <2>1, <2>2, <2>4
  <2> QED
    BY <2>3, <2>4
<1>5. NoneDisabled(rows) /\ EndsInTime(rows, now)
  BY <1>1, <1>2 DEF NoneDisabled, EndsInTime, c
<1> QED
  BY <1>4, <1>5 DEF RowsOK, Settled, rows, c

(* The three things an answer does to a row.                               *)
LEMMA PenalisedCounts ==
  ASSUME NEW s \in Row, NEW a \in Answer, NEW now \in Nat
  PROVE  /\ Penalised(s, a, now).uses = s.uses
         /\ Penalised(s, a, now).errors = s.errors + 1
         /\ Penalised(s, a, now).state \in {"cooling", s.state}
BY DEF Penalised, IncrementError, Cooling, Row

LEMMA IncrementErrorCounts ==
  ASSUME NEW s \in Row
  PROVE  /\ IncrementError(s).uses = s.uses
         /\ IncrementError(s).errors = s.errors + 1
         /\ IncrementError(s).state = s.state
BY DEF IncrementError, Row

LEMMA RecordSuccessCounts ==
  ASSUME NEW s \in Row, NEW sample
  PROVE  /\ RecordSuccess(s, sample).uses = s.uses
         /\ RecordSuccess(s, sample).errors = 0
         /\ RecordSuccess(s, sample).state = s.state
BY DEF RecordSuccess, Row

LEMMA FailedRows ==
  ASSUME IInv, CountersMatchAttempts, NoneDisabled(row), NEW r \in Requests,
         pc[r] = "fetching", NEW a \in Answers
  PROVE  RowsOK([row EXCEPT ![CurrentPair(r)] = Penalised(@, a, clock)], r, clock)
<1>1. CurrentPair(r) \in Pairs /\ row \in [Pairs -> Row] /\ clock \in Nat
  BY CurrentType DEF IInv, TypeOK
<1>2. row[CurrentPair(r)] \in Row /\ a \in Answer
  BY <1>1, AnswersAreAnswers
<1> QED
  BY <1>1, <1>2, PenalisedType, PenalisedCounts, AnsweredOK

LEMMA CaughtRows ==
  ASSUME IInv, CountersMatchAttempts, NoneDisabled(row), NEW r \in Requests,
         pc[r] = "fetching"
  PROVE  RowsOK([row EXCEPT ![CurrentPair(r)] = IncrementError(@)], r, clock)
<1>1. CurrentPair(r) \in Pairs /\ row \in [Pairs -> Row]
  BY CurrentType DEF IInv, TypeOK
<1>2. row[CurrentPair(r)] \in Row
  BY <1>1
<1> QED
  BY <1>1, <1>2, IncrementErrorType, IncrementErrorCounts, AnsweredOK

LEMMA SucceededRows ==
  ASSUME IInv, CountersMatchAttempts, NoneDisabled(row), NEW r \in Requests,
         pc[r] = "fetching"
  PROVE  RowsOK([row EXCEPT ![CurrentPair(r)] =
                   RecordSuccess(@, clock - sentAt[r])], r, clock)
<1>1. CurrentPair(r) \in Pairs /\ row \in [Pairs -> Row]
  BY CurrentType DEF IInv, TypeOK
<1>2. row[CurrentPair(r)] \in Row /\ clock - sentAt[r] \in Nat
  BY <1>1 DEF IInv, OnTime, TypeOK
<1> QED
  BY <1>1, <1>2, RecordSuccessType, RecordSuccessCounts, AnsweredOK

-------------------------------------------------------------------------------
(* The table over every step: the counters stay true, no key is ever       *)
(* disabled, and cooldowns end in time or because they were cleared.       *)

TableOK == CountersMatchAttempts /\ NoneDisabled(row)

CooldownStep ==
  \A p \in Pairs :
    row[p].state = "cooling" /\ row'[p].state # "cooling" =>
      row[p].until <= clock' \/ CooldownsCleared

(* The next attempt is sent with the best of the candidates left.          *)
LEMMA SendNextPicks ==
  ASSUME NEW r \in Requests, NEW b \in Budget, NEW remaining,
         IsPool(remaining), IsFiniteSet(remaining), NEW rows, NEW result, NEW now,
         SendNext(r, b, remaining, rows, result, now)
  PROVE  \E k \in remaining :
           /\ k \in Candidate /\ k.cred \in Creds
           /\ \A c \in remaining \ {k} : Precedes(Strategy(r), b.now, k, c)
           /\ pool' = [pool EXCEPT ![r] = remaining \ {k}]
           /\ SentWith(r, k.cred, rows, now)
<1> DEFINE k == Best(Strategy(r), b.now, remaining)
<1>1. /\ remaining # {}
      /\ pool' = [pool EXCEPT ![r] = remaining \ {k}]
      /\ SentWith(r, k.cred, rows, now)
  BY DEF SendNext, MayAttempt, SentWith
<1>2. /\ k \in remaining
      /\ \A c \in remaining \ {k} : Precedes(Strategy(r), b.now, k, c)
  BY <1>1, BestIsFirst DEF Budget
<1>3. k \in Candidate /\ k.cred \in Creds
  BY <1>2 DEF IsPool, Candidate
<1> HIDE DEF k
<1> QED
  BY <1>1, <1>2, <1>3

LEMMA LeaveTable ==
  ASSUME IInv, NEW r \in Requests, NEW b, NEW rows, NEW result, NEW now,
         RowsOK(rows, r, now), LeaveLoop(r, b, rows, result), UNCHANGED input
  PROVE  TableOK' /\ EndsInTime(row', now)
<1>1. row' = rows /\ UNCHANGED tried /\ \E any : Return(r, any)
  BY DEF LeaveLoop
<1>2. CountersMatchAttempts'
  BY <1>1, CountedByReturn DEF RowsOK
<1> QED
  BY <1>1, <1>2 DEF RowsOK, TableOK, NoneDisabled

(* Once round the loop, whichever way it goes.                             *)
LEMMA TableRound ==
  ASSUME IInv, NEW r \in Requests, NEW b \in Budget, NEW remaining,
         IsPool(remaining), IsFiniteSet(remaining),
         \A k \in remaining : \A i \in DOMAIN tried[r] : k.cred # tried[r][i],
         NEW rows \in [Pairs -> Row], NEW result, NEW now \in Nat,
         RowsOK(rows, r, now), RetryLoop(r, b, remaining, rows, result, now),
         UNCHANGED input
  PROVE  TableOK' /\ EndsInTime(row', now)
<1>1. CASE SendNext(r, b, remaining, rows, result, now)
  <2>1. PICK k \in remaining : k.cred \in Creds /\ SentWith(r, k.cred, rows, now)
    BY <1>1, SendNextPicks
  <2>2. CountersMatchAttempts'
    BY <2>1, CountedBySend DEF RowsOK
  <2>3. \A p \in Pairs : row'[p].state = rows[p].state
    <3>1. ASSUME NEW p \in Pairs
          PROVE  IncrementUse(rows[p], now).state = rows[p].state
      <4>1. rows[p] \in Row
        OBVIOUS
      <4> QED
        BY <4>1 DEF IncrementUse, Row
    <3> QED
      BY <2>1, <3>1 DEF SentWith
  <2> QED
    BY <2>2, <2>3 DEF RowsOK, TableOK, NoneDisabled, EndsInTime
<1>2. CASE LeaveLoop(r, b, rows, result)
  BY <1>2, LeaveTable
<1> QED
  BY <1>1, <1>2 DEF RetryLoop

(* What a new call works with, once its candidates are read.               *)
LEMMA StartParts ==
  ASSUME IInv, NEW r \in Requests, NEW lag \in 0..MaxLag, NEW gone \in BOOLEAN,
         Start(r, lag, gone)
  PROVE  \E b \in Budget :
           LET rows == Promoted(input[r], clock')
               candidates == Candidates(input[r], rows)
           IN /\ pc[r] = "new" /\ tried[r] = <<>> /\ clock' \in Nat
              /\ input[r] \in Input /\ rows \in [Pairs -> Row]
              /\ IsPool(candidates) /\ IsFiniteSet(candidates)
              /\ b.now = clock' /\ b.attempts <= Cardinality(candidates)
              /\ \/ LeaveLoop(r, b, rows, NoResult)
                 \/ RetryLoop(r, b, candidates, rows, NoResult, clock')
              /\ UNCHANGED <<live, settings, input, usage>>
<1> DEFINE now == clock + lag
           rows == Promoted(input[r], now)
           candidates == Candidates(input[r], rows)
           b == [now |-> now,
                 attempts |-> MinOf(settings.attempts, Cardinality(candidates)),
                 deadline |-> clock + settings.loopDeadline,
                 timeout |-> settings.timeout]
<1>1. /\ pc[r] = "new" /\ clock' = now
      /\ \/ LeaveLoop(r, b, rows, NoResult)
         \/ RetryLoop(r, b, candidates, rows, NoResult, now)
      /\ UNCHANGED <<live, settings, input, usage>>
  BY DEF Start
<1>2. now \in Nat /\ clock \in Nat /\ settings \in Settings
  BY RoutingAssumption DEF IInv, TypeOK
<1>3. rows \in [Pairs -> Row] /\ input[r] \in Input
  BY <1>2, PromotedType DEF IInv, TypeOK
<1>4. IsPool(candidates) /\ IsFiniteSet(candidates)
  <2> HIDE DEF rows
  <2> QED
    BY <1>3, CandidatesArePool
<1>5. b \in Budget /\ b.now = now /\ b.attempts <= Cardinality(candidates)
  <2>1. Cardinality(candidates) \in Nat
    BY <1>4, FS_CardinalityType
  <2> HIDE DEF candidates, now
  <2> QED
    BY <1>2, <2>1 DEF Budget, MinOf, Settings
<1>6. tried[r] = <<>>
  BY <1>1 DEF IInv, CallOK
<1> HIDE DEF b
<1> QED
  BY <1>1, <1>2, <1>3, <1>4, <1>5, <1>6

LEMMA StartTable ==
  ASSUME IInv, TableOK, NEW r \in Requests, NEW lag \in 0..MaxLag,
         NEW gone \in BOOLEAN, Start(r, lag, gone)
  PROVE  TableOK' /\ CooldownStep
<1> DEFINE rows == Promoted(input[r], clock')
           candidates == Candidates(input[r], rows)
<1>1. PICK b \in Budget :
        /\ tried[r] = <<>> /\ clock' \in Nat /\ rows \in [Pairs -> Row]
        /\ IsPool(candidates) /\ IsFiniteSet(candidates)
        /\ \/ LeaveLoop(r, b, rows, NoResult)
           \/ RetryLoop(r, b, candidates, rows, NoResult, clock')
        /\ UNCHANGED input
  BY StartParts
<1>2. RowsOK(rows, r, clock')
  BY <1>1, PromotedOK DEF TableOK
<1>3. \A k \in candidates : \A i \in DOMAIN tried[r] : k.cred # tried[r][i]
  BY <1>1
<1> HIDE DEF rows, candidates
<1>4. TableOK' /\ EndsInTime(row', clock')
  BY <1>1, <1>2, <1>3, TableRound, LeaveTable
<1> QED
  BY <1>4 DEF EndsInTime, CooldownStep

LEMMA FailsTable ==
  ASSUME IInv, TableOK, NEW r \in Requests, NEW a \in Answers, Fails(r, a)
  PROVE  TableOK' /\ CooldownStep
<1> DEFINE rows == [row EXCEPT ![CurrentPair(r)] = Penalised(@, a, clock)]
<1>1. /\ pc[r] = "fetching" /\ UNCHANGED <<clock, input>>
      /\ \E result : RetryLoop(r, budget[r], pool[r], rows, result, clock)
  BY DEF Fails
<1>2. CurrentPair(r) \in Pairs /\ row \in [Pairs -> Row] /\ clock \in Nat
  BY <1>1, CurrentType DEF IInv, TypeOK
<1>3. rows \in [Pairs -> Row]
  BY <1>2, PenalisedType, AnswersAreAnswers
<1>4. RowsOK(rows, r, clock)
  BY <1>1, FailedRows DEF TableOK
<1> HIDE DEF rows
<1>5. TableOK' /\ EndsInTime(row', clock)
  BY <1>1, <1>2, <1>3, <1>4, PoolOK, TableRound
<1> QED
  BY <1>1, <1>5 DEF EndsInTime, CooldownStep

LEMMA CatchTable ==
  ASSUME IInv, TableOK, NEW r \in Requests, NEW name, Catch(r, name)
  PROVE  TableOK' /\ CooldownStep
<1> DEFINE rows == [row EXCEPT ![CurrentPair(r)] = IncrementError(@)]
<1>1. /\ pc[r] = "fetching" /\ UNCHANGED <<clock, input>>
      /\ \E result : RetryLoop(r, budget[r], pool[r], rows, result, clock)
  BY DEF Catch
<1>2. CurrentPair(r) \in Pairs /\ row \in [Pairs -> Row] /\ clock \in Nat
  BY <1>1, CurrentType DEF IInv, TypeOK
<1>3. rows \in [Pairs -> Row]
  BY <1>2, IncrementErrorType
<1>4. RowsOK(rows, r, clock)
  BY <1>1, CaughtRows DEF TableOK
<1> HIDE DEF rows
<1>5. TableOK' /\ EndsInTime(row', clock)
  BY <1>1, <1>2, <1>3, <1>4, PoolOK, TableRound
<1> QED
  BY <1>1, <1>5 DEF EndsInTime, CooldownStep

(* A step that makes one request return.                                   *)
LEMMA ReturnTable ==
  ASSUME IInv, NEW r \in Requests, NEW result, Return(r, result),
         UNCHANGED <<clock, input, tried>>, RowsOK(row', r, clock)
  PROVE  TableOK' /\ CooldownStep
<1>1. CountersMatchAttempts'
  BY CountedByReturn DEF RowsOK
<1> QED
  BY <1>1 DEF RowsOK, TableOK, NoneDisabled, EndsInTime, CooldownStep

LEMMA SucceedsTable ==
  ASSUME IInv, TableOK, NEW r \in Requests, NEW a \in Answers, Succeeds(r, a)
  PROVE  TableOK' /\ CooldownStep
<1>1. /\ pc[r] = "fetching" /\ UNCHANGED <<clock, input, tried>>
      /\ row' = [row EXCEPT ![CurrentPair(r)] =
                   RecordSuccess(@, clock - sentAt[r])]
      /\ \E result : Return(r, result)
  BY DEF Succeeds
<1>2. RowsOK(row', r, clock)
  BY <1>1, SucceededRows DEF TableOK
<1> QED
  BY <1>1, <1>2, ReturnTable

(* Steps that write no row and send nothing: StartWithoutKeys and          *)
(* ClientAborts.                                                           *)
LEMMA SilentReturnTable ==
  ASSUME IInv, TableOK, NEW r \in Requests, NEW result, Return(r, result),
         UNCHANGED <<clock, input, tried, row>>
  PROVE  TableOK' /\ CooldownStep
<1>1. Settled(row', r)
  BY KeptSettled DEF TableOK
<1>2. RowsOK(row', r, clock)
  BY <1>1 DEF RowsOK, TableOK, NoneDisabled, EndsInTime
<1> QED
  BY <1>2, ReturnTable

(* Steps that leave the calls alone: only clearing writes rows, and it     *)
(* moves no counter.                                                       *)
LEMMA AroundTable ==
  ASSUME IInv, TableOK, UNCHANGED <<input, callVars>>,
         row' = row \/ ClearAllCooldowns
  PROVE  TableOK' /\ CooldownStep
<1>1. ASSUME NEW p \in Pairs
      PROVE  /\ SentTo(p)' = SentTo(p) /\ InFlight(p)' = InFlight(p)
             /\ row'[p].uses = row[p].uses /\ row'[p].errors = row[p].errors
             /\ row'[p].state \in {row[p].state, "ready"}
             /\ row'[p] # row[p] => CooldownsCleared
  <2>1. SentTo(p)' = SentTo(p) /\ InFlight(p)' = InFlight(p)
    BY DEF SentTo, InFlight, CurrentPair, Current, callVars
  <2>2. row[p] \in Row
    BY DEF IInv, TypeOK
  <2>3. CASE ClearAllCooldowns
    <3>1. \A q \in Pairs : row'[q] =
            IF row[q].state = "cooling" THEN Ready(row[q]) ELSE row[q]
      BY <2>3 DEF ClearAllCooldowns
    <3>2. \A q \in Pairs : row[q] \in Row
      BY DEF IInv, TypeOK
    <3>3. CooldownsCleared
      BY <3>1, <3>2 DEF CooldownsCleared, Ready, Row
    <3> QED
      BY <2>1, <2>2, <3>1, <3>3 DEF Ready, Row
  <2> QED
    BY <2>1, <2>3
<1>2. CountersMatchAttempts'
  BY <1>1 DEF TableOK, CountersMatchAttempts
<1>3. NoneDisabled(row)'
  BY <1>1 DEF TableOK, NoneDisabled
<1>4. CooldownStep
  BY <1>1 DEF CooldownStep
<1> QED
  BY <1>2, <1>3, <1>4 DEF TableOK

(* A crash: nothing is in flight any more, so nothing is left unanswered.  *)
LEMMA CrashTable ==
  ASSUME IInv, TableOK, Crash
  PROVE  TableOK' /\ CooldownStep
<1>1. /\ \A r \in Requests : pc'[r] # "fetching"
      /\ UNCHANGED <<sharedVars, input, tried>>
  BY DEF Crash
<1>2. ASSUME NEW p \in Pairs
      PROVE  /\ SentTo(p)' = SentTo(p) /\ InFlight(p)' = {}
             /\ row'[p] = row[p] /\ row[p].errors <= row[p].uses
             /\ row[p].errors \in Nat
  <2>1. SentTo(p)' = SentTo(p) /\ InFlight(p)' = {} /\ row' = row
    BY <1>1 DEF SentTo, InFlight, sharedVars
  <2>2. row[p].errors \in Nat /\ row[p].uses \in Nat
    BY DEF IInv, TypeOK, Row
  <2>3. row[p].errors + Cardinality(InFlight(p)) <= row[p].uses
    BY DEF TableOK, CountersMatchAttempts
  <2>4. Cardinality(InFlight(p)) \in Nat
    BY CallSets
  <2> QED
    BY <2>1, <2>2, <2>3, <2>4
<1>3. CountersMatchAttempts'
  BY <1>2, FS_EmptySet DEF TableOK, CountersMatchAttempts
<1> QED
  BY <1>2, <1>3 DEF TableOK, NoneDisabled, CooldownStep

LEMMA TableStep ==
  ASSUME IInv, TableOK, [Next]_vars
  PROVE  TableOK' /\ CooldownStep
<1>1. ASSUME NEW r \in Requests, Begin(r)
      PROVE  TableOK' /\ CooldownStep
  <2>1. CASE StartWithoutKeys(r)
    BY <2>1, SilentReturnTable DEF StartWithoutKeys, sharedVars
  <2> QED
    BY <1>1, <2>1, StartTable DEF Begin
<1>2. ASSUME NEW r \in Requests, Settle(r)
      PROVE  TableOK' /\ CooldownStep
  <2>1. CASE ClientAborts(r)
    BY <2>1, SilentReturnTable DEF ClientAborts, sharedVars
  <2> QED
    BY <1>2, <2>1, SucceedsTable, FailsTable, CatchTable
       DEF Settle, Throws, TimesOut
<1>3. CASE Administer
  BY <1>3, AroundTable
     DEF Administer, DeleteCredential, ClearAllCooldowns, SaveSettings
<1>4. CASE Tick \/ UNCHANGED vars
  BY <1>4, AroundTable DEF Tick, vars, sharedVars, callVars
<1> QED
  BY <1>1, <1>2, <1>3, <1>4, CrashTable DEF Next

LEMMA InitTable == Init => TableOK
<1> SUFFICES ASSUME Init, NEW p \in Pairs
             PROVE  /\ row[p].uses = Cardinality(SentTo(p))
                    /\ row[p].errors + Cardinality(InFlight(p)) <= row[p].uses
                    /\ row[p].state # "disabled"
  BY DEF TableOK, CountersMatchAttempts, NoneDisabled
<1>1. row[p] = FreshRow /\ SentTo(p) = {} /\ InFlight(p) = {}
  BY DEF Init, SentTo, InFlight
<1> QED
  BY <1>1, FS_EmptySet DEF FreshRow

LEMMA SpecTable == Spec => [](IInv /\ TableOK)
<1>1. IInv /\ TableOK /\ [Next]_vars => TableOK'
  BY TableStep
<1> QED
  BY <1>1, InitTable, SpecIInv, PTL DEF Spec

(* use_count is the number of attempts sent with the pair, and error_count *)
(* never counts one that is still unanswered, however many requests        *)
(* overlap, succeed, fail, are aborted or die with the process.            *)
THEOREM CountersStayTrue == Spec => []CountersMatchAttempts
<1>1. TableOK => CountersMatchAttempts
  BY DEF TableOK
<1> QED
  BY <1>1, SpecTable, PTL

(* Whatever overlaps with it, a cooldown ends only in its time or because  *)
(* the administrator cleared it: no success, promotion or stale snapshot   *)
(* of another request ends it.                                             *)
THEOREM CooldownsLast == Spec => CooldownsEndInTime
<1>1. IInv /\ TableOK /\ [Next]_vars =>
        [\A p \in Pairs :
           row[p].state = "cooling" /\ row'[p].state # "cooling" =>
             row[p].until <= clock' \/ CooldownsCleared]_vars
  BY TableStep DEF CooldownStep
<1> QED
  BY <1>1, SpecTable, PTL DEF Spec, CooldownsEndInTime

-------------------------------------------------------------------------------
(* The log, the usage events and the answer.  What RecordsMatchAnswer says *)
(* of one call, and, which it needs from one step to the next, that a call *)
(* which has not returned has no usage event of a success.                 *)

AnswerRecorded(r) ==
  /\ IF pc[r] = "done" /\ tried[r] # <<>>
     THEN /\ Len(logs[r]) = 1
          /\ logs[r][1] = PersistLog(last[r], logs[r][1].total)
          /\ last[r].cred = Current(r)
          /\ last[r].attempts = Len(tried[r])
          /\ last[r].attempts <= logs[r][1].total
     ELSE logs[r] = <<>>
  /\ \A i \in DOMAIN usage[r] :
       usage[r][i].status \in 200..299 =>
         /\ last[r].outcome = "success"
         /\ i = Len(usage[r])
         /\ usage[r][i].cred = Current(r)

NoneServed(r) == \A i \in DOMAIN usage[r] : usage[r][i].status \notin 200..299

BooksOK ==
  \A r \in Requests : AnswerRecorded(r) /\ (pc[r] # "done" => NoneServed(r))

LEMMA AppendIs ==
  ASSUME NEW S, NEW s \in Seq(S), NEW e \in S
  PROVE  /\ Len(Append(s, e)) = Len(s) + 1 /\ Len(s) \in Nat
         /\ DOMAIN s = 1..Len(s) /\ DOMAIN Append(s, e) = 1..(Len(s) + 1)
         /\ \A i \in 1..Len(s) : Append(s, e)[i] = s[i]
         /\ Append(s, e)[Len(s) + 1] = e
OBVIOUS

(* The books of the other calls are left alone.                            *)
OtherBooksKept(r) ==
  \A q \in Requests \ {r} :
    /\ pc'[q] = pc[q] /\ tried'[q] = tried[q] /\ last'[q] = last[q]
    /\ logs'[q] = logs[q] /\ usage'[q] = usage[q]

LEMMA OneCallsBooks ==
  ASSUME BooksOK, NEW r \in Requests, OtherBooksKept(r), AnswerRecorded(r)',
         pc'[r] # "done" => NoneServed(r)'
  PROVE  BooksOK'
<1>1. ASSUME NEW q \in Requests \ {r}
      PROVE  AnswerRecorded(q)' /\ (pc'[q] # "done" => NoneServed(q)')
  <2>1. /\ pc'[q] = pc[q] /\ tried'[q] = tried[q] /\ last'[q] = last[q]
        /\ logs'[q] = logs[q] /\ usage'[q] = usage[q]
    BY DEF OtherBooksKept
  <2> QED
    BY <2>1 DEF BooksOK, AnswerRecorded, NoneServed, Current
<1> QED
  BY <1>1 DEF BooksOK

(* A call that is sent on has still nothing in the log.                    *)
LEMMA SendBooks ==
  ASSUME IInv, BooksOK, NEW r \in Requests, pc[r] # "done",
         NEW b, NEW remaining, NEW rows, NEW result, NEW now,
         SendNext(r, b, remaining, rows, result, now),
         NoneServed(r)', \A q \in Requests \ {r} : usage'[q] = usage[q]
  PROVE  BooksOK'
<1>1. /\ pc' = [pc EXCEPT ![r] = "fetching"] /\ last' = [last EXCEPT ![r] = result]
      /\ \E k : tried' = [tried EXCEPT ![r] = k]
      /\ logs' = logs
      /\ pc \in [Requests -> {"new", "fetching", "done", "lost"}]
      /\ last \in [Requests -> Result] /\ tried \in [Requests -> Seq(Creds)]
  BY DEF SendNext, IInv, TypeOK
<1>2. OtherBooksKept(r) /\ pc'[r] = "fetching"
  BY <1>1 DEF OtherBooksKept
<1>3. logs'[r] = <<>>
  BY <1>1 DEF BooksOK, AnswerRecorded
<1>4. AnswerRecorded(r)'
  BY <1>2, <1>3 DEF AnswerRecorded, NoneServed
<1> QED
  BY <1>2, <1>4, OneCallsBooks

(* A call that returns the answer of its current key, and logs it.         *)
LEMMA FinishBooks ==
  ASSUME IInv, BooksOK, NEW r \in Requests, pc[r] = "fetching",
         NEW result \in Result, NEW total \in Nat,
         result.cred = Current(r), result.attempts = Len(tried[r]),
         Len(tried[r]) <= total,
         Return(r, result), UNCHANGED tried,
         logs' = [logs EXCEPT ![r] = Append(@, PersistLog(result, total))],
         \A q \in Requests \ {r} : usage'[q] = usage[q],
         \/ NoneServed(r)'
         \/ /\ result.outcome = "success"
            /\ \E e \in UsageEvent :
                 e.cred = Current(r) /\ usage'[r] = Append(usage[r], e)
  PROVE  BooksOK'
<1>1. /\ pc' = [pc EXCEPT ![r] = "done"] /\ last' = [last EXCEPT ![r] = result]
      /\ pc \in [Requests -> {"new", "fetching", "done", "lost"}]
      /\ last \in [Requests -> Result] /\ logs \in [Requests -> Seq(LogRow)]
      /\ usage \in [Requests -> Seq(UsageEvent)]
  BY DEF Return, IInv, TypeOK
<1>2. /\ OtherBooksKept(r) /\ pc'[r] = "done" /\ last'[r] = result
      /\ tried'[r] = tried[r] /\ Current(r)' = Current(r)
  BY <1>1 DEF OtherBooksKept, Current
<1>3. Len(logs'[r]) = 1 /\ logs'[r][1] = PersistLog(result, total)
  <2>1. logs[r] = <<>> /\ PersistLog(result, total) \in LogRow
    BY PersistLogType DEF BooksOK, AnswerRecorded
  <2>2. logs'[r] = Append(logs[r], PersistLog(result, total))
    BY <1>1
  <2>3. Len(logs[r]) = 0 /\ logs[r] \in Seq(LogRow)
    BY <1>1, <2>1
  <2> QED
    BY <2>1, <2>2, <2>3, AppendIs
<1>4. logs'[r][1].total = total
  BY <1>3 DEF PersistLog
<1>5. /\ Len(logs'[r]) = 1
      /\ logs'[r][1] = PersistLog(last'[r], logs'[r][1].total)
      /\ last'[r].cred = Current(r)' /\ last'[r].attempts = Len(tried'[r])
      /\ last'[r].attempts <= logs'[r][1].total
      /\ tried'[r] # <<>>
  <2>1. tried'[r] # <<>>
    BY <1>2 DEF IInv, CallOK
  <2> QED
    BY <1>2, <1>3, <1>4, <2>1
<1>6. \A i \in DOMAIN usage'[r] :
        usage'[r][i].status \in 200..299 =>
          /\ last'[r].outcome = "success"
          /\ i = Len(usage'[r])
          /\ usage'[r][i].cred = Current(r)'
  <2>1. CASE NoneServed(r)'
    BY <2>1 DEF NoneServed
  <2>2. ASSUME result.outcome = "success", NEW e \in UsageEvent,
               e.cred = Current(r), usage'[r] = Append(usage[r], e)
        PROVE  <1>6
    <3>1. /\ usage[r] \in Seq(UsageEvent)
          /\ Len(usage'[r]) = Len(usage[r]) + 1 /\ Len(usage[r]) \in Nat
          /\ DOMAIN usage'[r] = 1..(Len(usage[r]) + 1)
          /\ DOMAIN usage[r] = 1..Len(usage[r])
          /\ \A i \in 1..Len(usage[r]) : usage'[r][i] = usage[r][i]
          /\ usage'[r][Len(usage[r]) + 1] = e
      BY <1>1, <2>2, AppendIs
    <3>2. \A i \in 1..Len(usage[r]) : usage[r][i].status \notin 200..299
      BY <3>1 DEF BooksOK, NoneServed
    <3>3. \A i \in 1..Len(usage[r]) : usage'[r][i].status \notin 200..299
      BY <3>1, <3>2
    <3>4. \A i \in DOMAIN usage'[r] :
            i \in 1..Len(usage[r]) \/ i = Len(usage[r]) + 1
      BY <3>1
    <3> QED
      BY <1>2, <2>2, <3>1, <3>3, <3>4
  <2> QED
    BY <2>1, <2>2
<1>7. AnswerRecorded(r)'
  BY <1>2, <1>5, <1>6 DEF AnswerRecorded
<1> QED
  BY <1>2, <1>7, OneCallsBooks

(* A call that returns without having been sent leaves no record.          *)
LEMMA RefuseBooks ==
  ASSUME IInv, BooksOK, NEW r \in Requests, pc[r] = "new", NEW result,
         Return(r, result), UNCHANGED <<tried, logs, usage>>
  PROVE  BooksOK'
<1>1. /\ pc' = [pc EXCEPT ![r] = "done"] /\ last' = [last EXCEPT ![r] = result]
      /\ pc \in [Requests -> {"new", "fetching", "done", "lost"}]
      /\ last \in [Requests -> Result]
  BY DEF Return, IInv, TypeOK
<1>2. OtherBooksKept(r) /\ pc'[r] = "done"
  BY <1>1 DEF OtherBooksKept
<1>3. tried'[r] = <<>> /\ logs'[r] = <<>> /\ NoneServed(r)
  BY DEF IInv, CallOK, BooksOK, AnswerRecorded
<1>4. AnswerRecorded(r)'
  BY <1>2, <1>3 DEF AnswerRecorded, NoneServed
<1> QED
  BY <1>2, <1>4, OneCallsBooks

(* Once round the loop after a failed attempt.                             *)
LEMMA RoundBooks ==
  ASSUME IInv, BooksOK, NEW r \in Requests, pc[r] = "fetching",
         NEW rows, NEW result \in Result, result.outcome # "none",
         result.cred = Current(r), result.attempts = Len(tried[r]),
         RetryLoop(r, budget[r], pool[r], rows, result, clock),
         NoneServed(r)', \A q \in Requests \ {r} : usage'[q] = usage[q]
  PROVE  BooksOK'
<1>1. CASE SendNext(r, budget[r], pool[r], rows, result, clock)
  BY <1>1, SendBooks
<1>2. CASE LeaveLoop(r, budget[r], rows, result)
  <2>1. result # NoResult
    BY DEF NoResult
  <2>2. /\ Return(r, result) /\ UNCHANGED tried
        /\ logs' = [logs EXCEPT ![r] =
                      Append(@, PersistLog(result, budget[r].attempts))]
    BY <1>2, <2>1 DEF LeaveLoop
  <2>3. budget[r].attempts \in Nat /\ Len(tried[r]) <= budget[r].attempts
    BY DEF IInv, TypeOK, Budget, CallOK
  <2> QED
    BY <2>2, <2>3, FinishBooks
<1> QED
  BY <1>1, <1>2 DEF RetryLoop

LEMMA StartBooks ==
  ASSUME IInv, BooksOK, NEW r \in Requests, NEW lag \in 0..MaxLag,
         NEW gone \in BOOLEAN, Start(r, lag, gone)
  PROVE  BooksOK'
<1>1. PICK b, rows, candidates, now :
        /\ b \in Budget
        /\ pc[r] = "new" /\ usage' = usage
        /\ \/ LeaveLoop(r, b, rows, NoResult)
           \/ SendNext(r, b, candidates, rows, NoResult, now)
  BY StartParts DEF RetryLoop
<1>2. NoneServed(r)'
  BY <1>1 DEF BooksOK, NoneServed
<1>3. CASE LeaveLoop(r, b, rows, NoResult)
  BY <1>1, <1>3, RefuseBooks DEF LeaveLoop
<1>4. CASE SendNext(r, b, candidates, rows, NoResult, now)
  BY <1>1, <1>2, <1>4, SendBooks
<1> QED
  BY <1>1, <1>3, <1>4

LEMMA FailsBooks ==
  ASSUME IInv, BooksOK, NEW r \in Requests, NEW a \in Answers, Fails(r, a)
  PROVE  BooksOK'
<1> DEFINE result ==
             [outcome |-> "error", status |-> a.status, cred |-> Current(r),
              attempts |-> Len(tried[r]), class |-> ClassifyUpstreamError(a),
              thrown |-> "none"]
           rows == [row EXCEPT ![CurrentPair(r)] = Penalised(@, a, clock)]
           e == [cred |-> Current(r), status |-> a.status]
<1>1. /\ pc[r] = "fetching" /\ a.status \notin 200..299
      /\ usage' = [usage EXCEPT ![r] = Append(@, e)]
      /\ RetryLoop(r, budget[r], pool[r], rows, result, clock)
  BY DEF Fails, IsSuccess
<1>2. result \in Result
  BY <1>1, CurrentType, AnswersAreAnswers, ClassificationType
     DEF Result, Outcomes, Exceptions
<1>3. /\ result.outcome # "none" /\ result.cred = Current(r)
      /\ result.attempts = Len(tried[r])
  OBVIOUS
<1> HIDE DEF result, rows
<1>4. usage \in [Requests -> Seq(UsageEvent)] /\ e \in UsageEvent
  BY <1>1, CurrentType, AnswersAreAnswers DEF UsageEvent, IInv, TypeOK
<1>5. NoneServed(r)'
  <2>1. usage'[r] = Append(usage[r], e) /\ e.status \notin 200..299
    BY <1>1, <1>4
  <2>2. \A i \in DOMAIN usage[r] : usage[r][i].status \notin 200..299
    BY <1>1 DEF BooksOK, NoneServed
  <2> HIDE DEF e
  <2>3. \A i \in DOMAIN usage'[r] :
          \/ i \in DOMAIN usage[r] /\ usage'[r][i] = usage[r][i]
          \/ usage'[r][i] = e
    <3>1. usage[r] \in Seq(UsageEvent)
      BY <1>4
    <3>2. /\ DOMAIN usage[r] = 1..Len(usage[r]) /\ Len(usage[r]) \in Nat
          /\ DOMAIN usage'[r] = 1..(Len(usage[r]) + 1)
          /\ \A i \in 1..Len(usage[r]) : usage'[r][i] = usage[r][i]
          /\ usage'[r][Len(usage[r]) + 1] = e
      BY <1>4, <2>1, <3>1, AppendIs
    <3> QED
      BY <3>2
  <2> QED
    BY <2>1, <2>2, <2>3 DEF NoneServed
<1>6. \A q \in Requests \ {r} : usage'[q] = usage[q]
  BY <1>1, <1>4
<1> QED
  BY <1>1, <1>2, <1>3, <1>5, <1>6, RoundBooks

LEMMA CatchBooks ==
  ASSUME IInv, BooksOK, NEW r \in Requests, NEW name \in Exceptions,
         Catch(r, name)
  PROVE  BooksOK'
<1> DEFINE timedOut == name = "AbortError"
           result == [outcome |-> IF timedOut THEN "timeout" ELSE "error",
                      status |-> 502, cred |-> Current(r),
                      attempts |-> Len(tried[r]),
                      class |-> IF timedOut THEN "timeout" ELSE "transient",
                      thrown |-> name]
           rows == [row EXCEPT ![CurrentPair(r)] = IncrementError(@)]
<1>1. /\ pc[r] = "fetching" /\ usage' = usage
      /\ RetryLoop(r, budget[r], pool[r], rows, result, clock)
  BY DEF Catch
<1>2. result \in Result
  BY <1>1, CurrentType DEF Result, Outcomes, Classifications
<1>3. /\ result.outcome # "none" /\ result.cred = Current(r)
      /\ result.attempts = Len(tried[r])
  OBVIOUS
<1> HIDE DEF result, rows
<1>4. NoneServed(r)'
  BY <1>1 DEF BooksOK, NoneServed
<1> QED
  BY <1>1, <1>2, <1>3, <1>4, RoundBooks

LEMMA SucceedsBooks ==
  ASSUME IInv, BooksOK, NEW r \in Requests, NEW a \in Answers, Succeeds(r, a)
  PROVE  BooksOK'
<1> DEFINE result ==
             [outcome |-> "success", status |-> a.status, cred |-> Current(r),
              attempts |-> Len(tried[r]), class |-> "none", thrown |-> "none"]
           e == [cred |-> Current(r), status |-> a.status]
<1>1. /\ pc[r] = "fetching" /\ Return(r, result) /\ UNCHANGED tried
      /\ usage' = [usage EXCEPT ![r] = Append(@, e)]
      /\ logs' = [logs EXCEPT ![r] =
                    Append(@, PersistLog(result, budget[r].attempts))]
  BY DEF Succeeds
<1>2. result \in Result /\ e \in UsageEvent /\ e.cred = Current(r)
  BY <1>1, CurrentType, AnswersAreAnswers
     DEF Result, Outcomes, Exceptions, UsageEvent
<1>3. /\ budget[r].attempts \in Nat /\ Len(tried[r]) <= budget[r].attempts
      /\ usage \in [Requests -> Seq(UsageEvent)]
  BY <1>1 DEF IInv, TypeOK, Budget, CallOK
<1>4. /\ result.outcome = "success" /\ result.cred = Current(r)
      /\ result.attempts = Len(tried[r])
  OBVIOUS
<1> HIDE DEF result, e
<1>5. /\ usage'[r] = Append(usage[r], e)
      /\ \A q \in Requests \ {r} : usage'[q] = usage[q]
  BY <1>1, <1>3
<1> QED
  BY <1>1, <1>2, <1>3, <1>4, <1>5, FinishBooks

LEMMA ClientAbortsBooks ==
  ASSUME IInv, BooksOK, NEW r \in Requests, ClientAborts(r)
  PROVE  BooksOK'
<1> DEFINE result ==
             [outcome |-> "aborted", status |-> 0, cred |-> Current(r),
              attempts |-> Len(tried[r]), class |-> "none",
              thrown |-> "AbortError"]
<1>1. /\ pc[r] = "fetching" /\ Return(r, result) /\ UNCHANGED <<tried, usage>>
      /\ logs' = [logs EXCEPT ![r] =
                    Append(@, PersistLog(result, budget[r].attempts))]
  BY DEF ClientAborts
<1>2. result \in Result
  BY <1>1, CurrentType DEF Result, Outcomes, Exceptions
<1>3. budget[r].attempts \in Nat /\ Len(tried[r]) <= budget[r].attempts
  BY <1>1 DEF IInv, TypeOK, Budget, CallOK
<1>4. result.cred = Current(r) /\ result.attempts = Len(tried[r])
  OBVIOUS
<1> HIDE DEF result
<1>5. NoneServed(r)'
  BY <1>1 DEF BooksOK, NoneServed
<1> QED
  BY <1>1, <1>2, <1>3, <1>4, <1>5, FinishBooks

(* A crash forgets the calls in flight, which had nothing in the log.      *)
LEMMA CrashBooks ==
  ASSUME IInv, BooksOK, Crash
  PROVE  BooksOK'
<1> SUFFICES ASSUME NEW r \in Requests
             PROVE  AnswerRecorded(r)' /\ (pc'[r] # "done" => NoneServed(r)')
  BY DEF BooksOK
<1>1. /\ UNCHANGED <<tried, logs, usage>>
      /\ IF pc[r] = "fetching" THEN pc'[r] = "lost"
         ELSE pc'[r] = pc[r] /\ last'[r] = last[r]
  <2> DEFINE inFlight == {q \in Requests : pc[q] = "fetching"}
  <2>1. r \in inFlight <=> pc[r] = "fetching"
    OBVIOUS
  <2> QED
    BY <2>1 DEF Crash
<1> QED
  BY <1>1 DEF BooksOK, AnswerRecorded, NoneServed, Current

LEMMA BooksStep ==
  ASSUME IInv, BooksOK, [Next]_vars
  PROVE  BooksOK'
<1>1. ASSUME NEW r \in Requests, Begin(r)
      PROVE  BooksOK'
  <2>1. CASE StartWithoutKeys(r)
    BY <2>1, RefuseBooks DEF StartWithoutKeys
  <2> QED
    BY <1>1, <2>1, StartBooks DEF Begin
<1>2. ASSUME NEW r \in Requests, Settle(r)
      PROVE  BooksOK'
  BY <1>2, SucceedsBooks, FailsBooks, CatchBooks, ClientAbortsBooks
     DEF Settle, Throws, TimesOut, Exceptions
<1>3. CASE Administer \/ Tick \/ UNCHANGED vars
  <2>1. UNCHANGED <<pc, tried, last, logs, usage>>
    BY <1>3 DEF Administer, DeleteCredential, ClearAllCooldowns, SaveSettings,
                Tick, vars, callVars
  <2> QED
    BY <2>1 DEF BooksOK, AnswerRecorded, NoneServed, Current
<1> QED
  BY <1>1, <1>2, <1>3, CrashBooks DEF Next

LEMMA InitBooks == Init => BooksOK
BY DEF Init, BooksOK, AnswerRecorded, NoneServed

(* A call that was sent upstream and returned has one log row, every row   *)
(* is the answer of its call, from the last key it was sent with; and only *)
(* a successful answer has a usage event of a success, its last one.       *)
THEOREM AnswersAreRecorded == Spec => []RecordsMatchAnswer
<1>1. IInv /\ BooksOK /\ [Next]_vars => BooksOK'
  BY BooksStep
<1>2. IInv /\ BooksOK => RecordsMatchAnswer
  <2> SUFFICES ASSUME IInv, BooksOK, NEW r \in Requests
               PROVE  /\ Len(logs[r]) <= 1
                      /\ \A i \in DOMAIN logs[r] :
                           pc[r] = "done" /\ logs[r][i] = PersistLog(last[r], logs[r][i].total)
    BY DEF BooksOK, AnswerRecorded, RecordsMatchAnswer
  <2>1. CASE pc[r] = "done" /\ tried[r] # <<>>
    <3>1. Len(logs[r]) = 1 /\ logs[r][1] = PersistLog(last[r], logs[r][1].total)
      BY <2>1 DEF BooksOK, AnswerRecorded
    <3>2. DOMAIN logs[r] = 1..Len(logs[r])
      <4>1. logs[r] \in Seq(LogRow)
        BY DEF IInv, TypeOK
      <4> QED
        BY <4>1
    <3> QED
      BY <2>1, <3>1, <3>2
  <2>2. CASE ~(pc[r] = "done" /\ tried[r] # <<>>)
    BY <2>2 DEF BooksOK, AnswerRecorded
  <2> QED
    BY <2>1, <2>2
<1> QED
  BY <1>1, <1>2, InitBooks, SpecIInv, PTL DEF Spec

-------------------------------------------------------------------------------
(* What a step may do to the calls at all: only the acting call moves, it  *)
(* is sent with one more key or not at all, and an answer is final.        *)

OnlyMoves(r) == \A q \in Requests \ {r} : pc'[q] = pc[q] /\ tried'[q] = tried[q]
                                           /\ last'[q] = last[q]

MoreTried(r) ==
  tried'[r] = tried[r] \/ \E k \in Creds : tried'[r] = Append(tried[r], k)

LEMMA ReturnMoves ==
  ASSUME IInv, NEW r \in Requests, NEW result, Return(r, result), UNCHANGED tried
  PROVE  OnlyMoves(r) /\ MoreTried(r) /\ pc'[r] = "done" /\ last'[r] = result
BY DEF Return, OnlyMoves, MoreTried, IInv, TypeOK

LEMMA SendMoves ==
  ASSUME IInv, NEW r \in Requests, NEW b \in Budget, NEW remaining,
         IsPool(remaining), IsFiniteSet(remaining), NEW rows, NEW result, NEW now,
         SendNext(r, b, remaining, rows, result, now)
  PROVE  OnlyMoves(r) /\ MoreTried(r) /\ pc'[r] = "fetching"
<1>0. PICK k \in remaining :
        k.cred \in Creds /\ SentWith(r, k.cred, rows, now)
  BY SendNextPicks
<1>1. tried' = [tried EXCEPT ![r] = Append(@, k.cred)] /\ k.cred \in Creds
  BY <1>0 DEF SentWith
<1>2. pc' = [pc EXCEPT ![r] = "fetching"] /\ last' = [last EXCEPT ![r] = result]
  BY DEF SendNext
<1> QED
  BY <1>1, <1>2 DEF OnlyMoves, MoreTried, IInv, TypeOK

LEMMA RoundMoves ==
  ASSUME IInv, NEW r \in Requests, NEW rows, NEW result,
         RetryLoop(r, budget[r], pool[r], rows, result, clock)
  PROVE  OnlyMoves(r) /\ MoreTried(r)
<1>1. CASE SendNext(r, budget[r], pool[r], rows, result, clock)
  BY <1>1, PoolOK, SendMoves
<1>2. CASE LeaveLoop(r, budget[r], rows, result)
  BY <1>2, ReturnMoves DEF LeaveLoop
<1> QED
  BY <1>1, <1>2 DEF RetryLoop

LEMMA StartMoves ==
  ASSUME IInv, NEW r \in Requests, NEW lag \in 0..MaxLag, NEW gone \in BOOLEAN,
         Start(r, lag, gone)
  PROVE  OnlyMoves(r) /\ MoreTried(r)
<1>1. PICK b \in Budget :
        LET rows == Promoted(input[r], clock')
            candidates == Candidates(input[r], rows)
        IN /\ IsPool(candidates) /\ IsFiniteSet(candidates)
           /\ \/ LeaveLoop(r, b, rows, NoResult)
              \/ RetryLoop(r, b, candidates, rows, NoResult, clock')
  BY StartParts
<1> QED
  BY <1>1, SendMoves, ReturnMoves DEF RetryLoop, LeaveLoop

LEMMA SettleMoves ==
  ASSUME IInv, NEW r \in Requests, Settle(r)
  PROVE  OnlyMoves(r) /\ MoreTried(r) /\ pc[r] = "fetching"
<1>1. ASSUME NEW a \in Answers, Succeeds(r, a)
      PROVE  OnlyMoves(r) /\ MoreTried(r) /\ pc[r] = "fetching"
  BY <1>1, ReturnMoves DEF Succeeds
<1>2. ASSUME NEW a \in Answers, Fails(r, a)
      PROVE  OnlyMoves(r) /\ MoreTried(r) /\ pc[r] = "fetching"
  BY <1>2, RoundMoves DEF Fails
<1>3. ASSUME NEW name, Catch(r, name)
      PROVE  OnlyMoves(r) /\ MoreTried(r) /\ pc[r] = "fetching"
  BY <1>3, RoundMoves DEF Catch
<1>4. CASE ClientAborts(r)
  BY <1>4, ReturnMoves DEF ClientAborts
<1> QED
  BY <1>1, <1>2, <1>3, <1>4 DEF Settle, Throws, TimesOut

-------------------------------------------------------------------------------
(* Giving up.  What a waiting call may still be sent with is enough for    *)
(* the attempts its budget allows.                                         *)

EnoughLeft ==
  \A r \in Requests : pc[r] = "fetching" =>
    budget[r].attempts <= Len(tried[r]) + Cardinality(pool[r])

GivingUpStep ==
  \A r \in Requests :
    pc[r] = "fetching" /\ pc'[r] = "done" /\ last'[r].outcome = "error" =>
      \/ Len(tried[r]) = budget[r].attempts
      \/ clock >= budget[r].deadline

LEMMA SendEnough ==
  ASSUME IInv, EnoughLeft, NEW r \in Requests, NEW b \in Budget, NEW remaining,
         IsPool(remaining), IsFiniteSet(remaining), NEW rows, NEW result, NEW now,
         b.attempts <= Len(tried[r]) + Cardinality(remaining),
         SendNext(r, b, remaining, rows, result, now)
  PROVE  EnoughLeft'
<1>0. PICK k \in remaining :
        /\ k.cred \in Creds
        /\ pool' = [pool EXCEPT ![r] = remaining \ {k}]
        /\ SentWith(r, k.cred, rows, now)
  BY SendNextPicks
<1>1. /\ k.cred \in Creds
      /\ pool' = [pool EXCEPT ![r] = remaining \ {k}]
      /\ tried' = [tried EXCEPT ![r] = Append(@, k.cred)]
  BY <1>0 DEF SentWith
<1>2. /\ pc' = [pc EXCEPT ![r] = "fetching"]
      /\ budget' = [budget EXCEPT ![r] = b]
  BY DEF SendNext
<1>3. /\ pc \in [Requests -> {"new", "fetching", "done", "lost"}]
      /\ tried \in [Requests -> Seq(Creds)] /\ tried[r] \in Seq(Creds)
      /\ pool \in [Requests -> SUBSET Candidate]
      /\ budget \in [Requests -> Budget]
  BY DEF IInv, TypeOK
<1>4. ASSUME NEW q \in Requests \ {r}
      PROVE  /\ pc'[q] = pc[q] /\ budget'[q] = budget[q]
             /\ tried'[q] = tried[q] /\ pool'[q] = pool[q]
  BY <1>1, <1>2, <1>3
<1>5. budget'[r].attempts <= Len(tried'[r]) + Cardinality(pool'[r])
  <2>1. Len(tried'[r]) = Len(tried[r]) + 1 /\ Len(tried[r]) \in Nat
    BY <1>1, <1>3, AppendIs
  <2>2. /\ Cardinality(pool'[r]) = Cardinality(remaining) - 1
        /\ Cardinality(remaining) \in Nat
    BY <1>1, <1>3, FS_RemoveElement, FS_CardinalityType
  <2>3. budget'[r] = b /\ b.attempts \in Nat
    BY <1>2, <1>3 DEF Budget
  <2> QED
    BY <2>1, <2>2, <2>3
<1> QED
  BY <1>4, <1>5 DEF EnoughLeft

(* A step in which the others keep their plans and r no longer waits.      *)
LEMMA ReturnEnough ==
  ASSUME IInv, EnoughLeft, NEW r \in Requests, NEW result, Return(r, result),
         UNCHANGED tried
  PROVE  EnoughLeft'
<1>1. /\ pc'[r] = "done"
      /\ \A q \in Requests \ {r} :
           pc'[q] = pc[q] /\ budget'[q] = budget[q] /\ pool'[q] = pool[q]
  BY DEF Return, Forget, IInv, TypeOK
<1> QED
  BY <1>1 DEF EnoughLeft

(* After a failed attempt: another is sent, or the budget is used up.      *)
LEMMA RoundEnough ==
  ASSUME IInv, EnoughLeft, NEW r \in Requests, pc[r] = "fetching", NEW rows,
         NEW result, RetryLoop(r, budget[r], pool[r], rows, result, clock)
  PROVE  EnoughLeft' /\ GivingUpStep
<1>1. /\ budget[r].attempts <= Len(tried[r]) + Cardinality(pool[r])
      /\ Len(tried[r]) <= budget[r].attempts /\ Len(tried[r]) \in Nat
      /\ budget[r] \in Budget /\ IsPool(pool[r]) /\ IsFiniteSet(pool[r])
  BY PoolOK, CurrentType DEF EnoughLeft, IInv, CallOK
<1>2. \A q \in Requests \ {r} : pc'[q] = pc[q]
  BY RoundMoves DEF OnlyMoves
<1>3. CASE SendNext(r, budget[r], pool[r], rows, result, clock)
  <2>1. pc'[r] = "fetching"
    BY <1>1, <1>3, SendMoves
  <2> QED
    BY <1>1, <1>2, <1>3, <2>1, SendEnough DEF GivingUpStep
<1>4. CASE /\ ~MayAttempt(r, budget[r], pool[r], clock)
           /\ LeaveLoop(r, budget[r], rows, result)
  <2>1. EnoughLeft'
    BY <1>4, ReturnEnough DEF LeaveLoop
  <2>2. \/ Len(tried[r]) = budget[r].attempts
        \/ clock >= budget[r].deadline
    <3>1. /\ budget[r].attempts \in Nat /\ budget[r].deadline \in Nat
          /\ clock \in Nat
      BY <1>1 DEF Budget, IInv, TypeOK
    <3>2. CASE pool[r] = {}
      BY <1>1, <3>1, <3>2, FS_EmptySet
    <3> QED
      BY <1>1, <1>4, <3>1, <3>2 DEF MayAttempt
  <2> QED
    BY <1>2, <2>1, <2>2 DEF GivingUpStep
<1> QED
  BY <1>3, <1>4 DEF RetryLoop

LEMMA StartEnough ==
  ASSUME IInv, EnoughLeft, NEW r \in Requests, NEW lag \in 0..MaxLag,
         NEW gone \in BOOLEAN, Start(r, lag, gone)
  PROVE  EnoughLeft' /\ GivingUpStep
<1> DEFINE rows == Promoted(input[r], clock')
           candidates == Candidates(input[r], rows)
<1>1. PICK b \in Budget :
        /\ pc[r] = "new" /\ tried[r] = <<>>
        /\ IsPool(candidates) /\ IsFiniteSet(candidates)
        /\ b.attempts <= Cardinality(candidates)
        /\ \/ LeaveLoop(r, b, rows, NoResult)
           \/ SendNext(r, b, candidates, rows, NoResult, clock')
  BY StartParts DEF RetryLoop
<1>2. GivingUpStep
  BY <1>1, StartMoves DEF OnlyMoves, GivingUpStep
<1>3. b.attempts <= Len(tried[r]) + Cardinality(candidates)
  <2>1. Len(tried[r]) = 0 /\ Cardinality(candidates) \in Nat
    BY <1>1, FS_CardinalityType
  <2> QED
    BY <1>1, <2>1
<1> HIDE DEF rows, candidates
<1>4. EnoughLeft'
  BY <1>1, <1>3, SendEnough, ReturnEnough DEF LeaveLoop
<1> QED
  BY <1>2, <1>4

LEMMA EnoughStep ==
  ASSUME IInv, EnoughLeft, [Next]_vars
  PROVE  EnoughLeft' /\ GivingUpStep
<1>1. ASSUME NEW r \in Requests, Begin(r)
      PROVE  EnoughLeft' /\ GivingUpStep
  <2>1. CASE StartWithoutKeys(r)
    BY <2>1, ReturnEnough, ReturnMoves
       DEF StartWithoutKeys, OnlyMoves, GivingUpStep
  <2> QED
    BY <1>1, <2>1, StartEnough DEF Begin
<1>2. ASSUME NEW r \in Requests, Settle(r)
      PROVE  EnoughLeft' /\ GivingUpStep
  <2>1. ASSUME NEW a \in Answers, Succeeds(r, a)
        PROVE  EnoughLeft' /\ GivingUpStep
    BY <2>1, ReturnEnough, ReturnMoves DEF Succeeds, OnlyMoves, GivingUpStep
  <2>2. CASE ClientAborts(r)
    BY <2>2, ReturnEnough, ReturnMoves DEF ClientAborts, OnlyMoves, GivingUpStep
  <2>3. ASSUME NEW a \in Answers, Fails(r, a)
        PROVE  EnoughLeft' /\ GivingUpStep
    BY <2>3, RoundEnough DEF Fails
  <2>4. ASSUME NEW name, Catch(r, name)
        PROVE  EnoughLeft' /\ GivingUpStep
    BY <2>4, RoundEnough DEF Catch
  <2> QED
    BY <1>2, <2>1, <2>2, <2>3, <2>4 DEF Settle, Throws, TimesOut
<1>3. CASE Administer \/ Tick \/ UNCHANGED vars
  <2>1. UNCHANGED <<pc, tried, budget, pool>>
    BY <1>3 DEF Administer, DeleteCredential, ClearAllCooldowns, SaveSettings,
                Tick, vars, callVars
  <2> QED
    BY <2>1 DEF EnoughLeft, GivingUpStep
<1>4. CASE Crash
  <2>1. \A r \in Requests :
          pc'[r] # "fetching" /\ (pc[r] = "fetching" => pc'[r] # "done")
    BY <1>4 DEF Crash
  <2> QED
    BY <2>1 DEF EnoughLeft, GivingUpStep
<1> QED
  BY <1>1, <1>2, <1>3, <1>4 DEF Next

(* No candidate is given up early: a call returns an upstream failure only *)
(* once its attempts or its time are used up.                              *)
THEOREM NothingGivenUpEarly == Spec => NoEarlyGivingUp
<1>1. Init => EnoughLeft
  BY DEF Init, EnoughLeft
<1>2. IInv /\ EnoughLeft /\ [Next]_vars => EnoughLeft'
  BY EnoughStep
<1>3. IInv /\ EnoughLeft /\ [Next]_vars =>
        [\A r \in Requests :
           pc[r] = "fetching" /\ pc'[r] = "done" /\ last'[r].outcome = "error" =>
             \/ Len(tried[r]) = budget[r].attempts
             \/ clock >= budget[r].deadline]_vars
  BY EnoughStep DEF GivingUpStep
<1> QED
  BY <1>1, <1>2, <1>3, SpecIInv, PTL DEF Spec, NoEarlyGivingUp

-------------------------------------------------------------------------------
(* The first key.                                                          *)

FirstPickStep ==
  \A r \in Requests : pc[r] = "new" /\ pc'[r] = "fetching" =>
    LET m == input[r].model
        k == Current(r)'
    IN /\ k \in Capable(input[r])
       /\ Locked(<<m, k>>, clock') =>
            \A c \in Capable(input[r]) :
              /\ Locked(<<m, c>>, clock')
              /\ row[<<m, k>>].until <= row[<<m, c>>].until

(* The best of the candidates of a new call: it is one still cooling down  *)
(* only if all of them are, none of them due sooner.                       *)
LEMMA HealthiestFirst ==
  ASSUME IInv, NoneDisabled(row), NEW in \in Input, NEW s, NEW now \in Nat,
         NEW k \in Candidates(in, Promoted(in, now)),
         \A c \in Candidates(in, Promoted(in, now)) \ {k} : Precedes(s, now, k, c),
         Locked(<<in.model, k.cred>>, now), NEW c \in Capable(in)
  PROVE  /\ Locked(<<in.model, c>>, now)
         /\ row[<<in.model, k.cred>>].until <= row[<<in.model, c>>].until
<1> DEFINE rows == Promoted(in, now)
           m == in.model
           d == KeyCandidate(c, rows[<<m, c>>])
<1>1. PICK e \in Capable(in) : k = KeyCandidate(e, rows[<<m, e>>])
  BY DEF Candidates
<1>2. k.cred = e /\ d.cred = c /\ d \in Candidates(in, rows)
  BY <1>1 DEF KeyCandidate, Candidates
<1>3. \A x \in Capable(in) :
        /\ <<m, x>> \in Pairs /\ row[<<m, x>>] \in Row
        /\ row[<<m, x>>].state \in {"ready", "cooling"}
        /\ row[<<m, x>>].until \in Nat
  BY DEF Capable, Input, Pairs, IInv, TypeOK, Row, KeyStates, NoneDisabled
<1>4. \A x \in Capable(in) :
        /\ rows[<<m, x>>] = IF Lapsed(row[<<m, x>>], now)
                            THEN Ready(row[<<m, x>>]) ELSE row[<<m, x>>]
        /\ rows[<<m, x>>].until \in Nat
  <2>1. \A x \in Capable(in) :
          rows[<<m, x>>] = IF Lapsed(row[<<m, x>>], now)
                           THEN Ready(row[<<m, x>>]) ELSE row[<<m, x>>]
    BY <1>3 DEF Promoted
  <2>2. rows \in [Pairs -> Row]
    BY PromotedType DEF IInv, TypeOK
  <2> HIDE DEF rows
  <2> QED
    BY <1>3, <2>1, <2>2 DEF Row
<1> HIDE DEF rows
<1>5. rows[<<m, e>>] = row[<<m, e>>] /\ Rank(k, now) = 1
  <2>1. ~Lapsed(row[<<m, e>>], now)
    BY <1>2, <1>3 DEF Locked, Lapsed
  <2>2. rows[<<m, e>>] = row[<<m, e>>]
    BY <1>4, <2>1
  <2> QED
    BY <1>1, <1>2, <2>2 DEF Locked, KeyCandidate, Rank
<1>6. CASE c = e
  BY <1>2, <1>3, <1>6
<1>7. CASE c # e
  <2>1. Precedes(s, now, k, d)
    BY <1>2, <1>7 DEF rows
  <2>2. Lapsed(row[<<m, c>>], now) => rows[<<m, c>>].state = "ready"
    BY <1>3, <1>4 DEF Ready, Row
  <2>3. d.state = rows[<<m, c>>].state /\ d.until = rows[<<m, c>>].until
    BY DEF KeyCandidate
  <2> HIDE DEF d
  <2>4. Rank(d, now) \in 0..2 /\ d.until \in Nat /\ k.until \in Nat
    BY <1>1, <1>4, <2>3 DEF Rank, KeyCandidate
  <2>5. Rank(d, now) # 0 /\ (Rank(d, now) = 1 => k.until <= d.until)
    BY <1>5, <2>1, <2>4 DEF Precedes
  <2>6. ~Lapsed(row[<<m, c>>], now)
    BY <2>2, <2>3, <2>5 DEF Rank
  <2>7. rows[<<m, c>>] = row[<<m, c>>]
    BY <1>4, <2>6
  <2>8. d.state = "cooling" /\ d.until > now /\ Rank(d, now) = 1
    BY <1>3, <2>3, <2>5, <2>6, <2>7 DEF Lapsed, Rank
  <2>9. k.until = row[<<m, e>>].until
    BY <1>1, <1>5 DEF KeyCandidate
  <2> QED
    BY <1>2, <2>3, <2>5, <2>7, <2>8, <2>9 DEF Locked
<1> QED
  BY <1>6, <1>7

LEMMA StartPicks ==
  ASSUME IInv, NoneDisabled(row), NEW r \in Requests, NEW lag \in 0..MaxLag,
         NEW gone \in BOOLEAN, Start(r, lag, gone)
  PROVE  FirstPickStep
<1> DEFINE rows == Promoted(input[r], clock')
           candidates == Candidates(input[r], rows)
           m == input[r].model
<1>1. PICK b \in Budget :
        /\ pc[r] = "new" /\ tried[r] = <<>> /\ clock' \in Nat
        /\ input[r] \in Input
        /\ IsPool(candidates) /\ IsFiniteSet(candidates) /\ b.now = clock'
        /\ \/ LeaveLoop(r, b, rows, NoResult)
           \/ SendNext(r, b, candidates, rows, NoResult, clock')
        /\ UNCHANGED input
  BY StartParts DEF RetryLoop
<1>2. CASE LeaveLoop(r, b, rows, NoResult)
  <2>1. pc'[r] = "done"
    BY <1>2, ReturnMoves DEF LeaveLoop
  <2> QED
    BY <2>1, StartMoves DEF OnlyMoves, FirstPickStep
<1>3. CASE SendNext(r, b, candidates, rows, NoResult, clock')
  <2>1. PICK k \in candidates :
          /\ k.cred \in Creds
          /\ \A c \in candidates \ {k} : Precedes(Strategy(r), clock', k, c)
          /\ SentWith(r, k.cred, rows, clock')
    BY <1>1, <1>3, SendNextPicks
  <2>2. k.cred \in Capable(input[r])
    <3>1. PICK c \in Capable(input[r]) : k = KeyCandidate(c, rows[<<m, c>>])
      BY DEF Candidates
    <3> QED
      BY <3>1 DEF KeyCandidate
  <2>3. Current(r)' = k.cred
    <3>1. \A i \in DOMAIN tried[r] : tried[r][i] # k.cred
      BY <1>1
    <3> QED
      BY <1>1, <2>1, <3>1, SentWithOK
  <2>4. ASSUME Locked(<<m, k.cred>>, clock'), NEW c \in Capable(input[r])
        PROVE  /\ Locked(<<m, c>>, clock')
               /\ row[<<m, k.cred>>].until <= row[<<m, c>>].until
    BY <1>1, <2>1, <2>4, HealthiestFirst
  <2>5. \A q \in Requests \ {r} : pc'[q] = pc[q]
    BY StartMoves DEF OnlyMoves
  <2> QED
    BY <2>2, <2>3, <2>4, <2>5 DEF FirstPickStep
<1> QED
  BY <1>1, <1>2, <1>3

LEMMA FirstPickKept ==
  ASSUME IInv, TableOK, [Next]_vars
  PROVE  FirstPickStep
<1>1. ASSUME NEW r \in Requests, Begin(r)
      PROVE  FirstPickStep
  <2>1. CASE StartWithoutKeys(r)
    BY <2>1, ReturnMoves DEF StartWithoutKeys, OnlyMoves, FirstPickStep
  <2> QED
    BY <1>1, <2>1, StartPicks DEF Begin, TableOK
<1>2. ASSUME NEW r \in Requests, Settle(r)
      PROVE  FirstPickStep
  BY <1>2, SettleMoves DEF OnlyMoves, FirstPickStep
<1>3. CASE Administer \/ Tick \/ UNCHANGED vars
  <2>1. UNCHANGED pc
    BY <1>3 DEF Administer, DeleteCredential, ClearAllCooldowns, SaveSettings,
                Tick, vars, callVars
  <2> QED
    BY <2>1 DEF FirstPickStep
<1>4. CASE Crash
  <2>1. \A r \in Requests : pc'[r] # "fetching"
    BY <1>4 DEF Crash
  <2> QED
    BY <2>1 DEF FirstPickStep
<1> QED
  BY <1>1, <1>2, <1>3, <1>4 DEF Next

(* The first key of a request is a stored credential within the plan, and  *)
(* one still cooling down only if every other capable one is, none of them *)
(* due sooner: judged on the table of that moment, for any strategy.       *)
THEOREM HealthiestKeyFirst == Spec => FirstPickIsHealthiest
<1>1. IInv /\ TableOK /\ [Next]_vars =>
        [\A r \in Requests : pc[r] = "new" /\ pc'[r] = "fetching" =>
           LET m == input[r].model
               k == Current(r)'
           IN /\ k \in Capable(input[r])
              /\ Locked(<<m, k>>, clock') =>
                   \A c \in Capable(input[r]) :
                     /\ Locked(<<m, c>>, clock')
                     /\ row[<<m, k>>].until <= row[<<m, c>>].until]_vars
  BY FirstPickKept DEF FirstPickStep
<1> QED
  BY <1>1, SpecTable, PTL DEF Spec, FirstPickIsHealthiest

-------------------------------------------------------------------------------
(* The spread of overlapping requests.  While the requests of a model are  *)
(* plain ones and none has failed, its keys are all ready, so the next one *)
(* goes to a key with the fewest uses, which are the requests sent to it.  *)

Serving(m) == {c \in Creds : Serves[c] = {} \/ m \in Serves[c]}

PlainCall(r) ==
  /\ input[r].scope = Creds
  /\ input[r].primary = "least_used"
  /\ Len(tried[r]) = 1
  /\ pc[r] = "done" => last[r].outcome = "success"

OnlyPlainCalls(m) ==
  /\ live = Creds
  /\ \A r \in Requests : tried[r] # <<>> /\ input[r].model = m => PlainCall(r)

KeysReady(m) == \A c \in Serving(m) : row[<<m, c>>].state = "ready"

Spread(m) ==
  \A c, d \in Serving(m) :
    Cardinality(SentTo(<<m, c>>)) <= Cardinality(SentTo(<<m, d>>)) + 1

SpreadOK == \A m \in Models : OnlyPlainCalls(m) => KeysReady(m) /\ Spread(m)

(* A call that is not plain stays so: what is true of the calls now was    *)
(* true of them before.                                                    *)
LEMMA PlainBefore ==
  ASSUME IInv, NEW m \in Models, OnlyPlainCalls(m)', live' \subseteq live,
         UNCHANGED input,
         \A q \in Requests :
           /\ MoreTried(q)
           /\ pc[q] = "done" => UNCHANGED <<pc[q], last[q], tried[q]>>
  PROVE  OnlyPlainCalls(m)
<1>1. live = Creds
  BY DEF OnlyPlainCalls, IInv, TypeOK
<1>2. ASSUME NEW q \in Requests, tried[q] # <<>>, input[q].model = m
      PROVE  PlainCall(q)
  <2>1. tried[q] \in Seq(Creds) /\ Len(tried[q]) \in Nat /\ Len(tried[q]) # 0
    BY <1>2 DEF IInv, TypeOK
  <2>2. \/ tried'[q] = tried[q]
        \/ Len(tried'[q]) = Len(tried[q]) + 1 /\ tried'[q] # <<>>
    <3>1. CASE tried'[q] = tried[q]
      BY <3>1
    <3>2. ASSUME NEW k \in Creds, tried'[q] = Append(tried[q], k)
          PROVE  Len(tried'[q]) = Len(tried[q]) + 1 /\ tried'[q] # <<>>
      BY <2>1, <3>2
    <3> QED
      BY <3>1, <3>2 DEF MoreTried
  <2>3. PlainCall(q)'
    BY <1>2, <2>2 DEF OnlyPlainCalls
  <2>4. tried'[q] = tried[q]
    BY <2>1, <2>2, <2>3 DEF PlainCall
  <2> QED
    BY <2>3, <2>4 DEF PlainCall
<1> QED
  BY <1>1, <1>2 DEF OnlyPlainCalls

(* A step that sends nothing for the model and sets none of its rows back. *)
LEMMA SpreadKept ==
  ASSUME SpreadOK, NEW m \in Models, OnlyPlainCalls(m),
         \A c \in Creds :
           /\ SentTo(<<m, c>>)' = SentTo(<<m, c>>)
           /\ row[<<m, c>>].state = "ready" => row'[<<m, c>>].state = "ready"
  PROVE  KeysReady(m)' /\ Spread(m)'
BY DEF SpreadOK, KeysReady, Spread, Serving

(* A plain first attempt goes to a key of the model with the fewest uses.  *)
LEMMA LeastUsedFirst ==
  ASSUME IInv, NEW in \in Input, NEW now \in Nat, live = Creds,
         in.scope = Creds, KeysReady(in.model),
         NEW k \in Candidates(in, Promoted(in, now)),
         \A c \in Candidates(in, Promoted(in, now)) \ {k} :
           Precedes("least_used", now, k, c)
  PROVE  /\ k.cred \in Serving(in.model)
         /\ \A d \in Serving(in.model) :
              row[<<in.model, k.cred>>].uses <= row[<<in.model, d>>].uses
<1> DEFINE rows == Promoted(in, now)
           m == in.model
<1>1. Capable(in) = Serving(m)
  BY DEF Capable, Serving, Input
<1>2. ASSUME NEW c \in Serving(m)
      PROVE  /\ rows[<<m, c>>] = row[<<m, c>>]
             /\ row[<<m, c>>].state = "ready" /\ row[<<m, c>>].uses \in Nat
  <2>1. <<m, c>> \in Pairs /\ row[<<m, c>>].state = "ready"
    BY DEF Pairs, Input, Serving, KeysReady
  <2>2. row[<<m, c>>] \in Row
    BY <2>1 DEF IInv, TypeOK
  <2> QED
    BY <2>1, <2>2 DEF Promoted, Lapsed, Row
<1>3. PICK e \in Serving(m) : k = KeyCandidate(e, rows[<<m, e>>])
  BY <1>1 DEF Candidates
<1>4. k.cred = e /\ k.uses = row[<<m, e>>].uses /\ Rank(k, now) = 0
  BY <1>2, <1>3 DEF KeyCandidate, Rank
<1>5. ASSUME NEW d \in Serving(m)
      PROVE  row[<<m, e>>].uses <= row[<<m, d>>].uses
  <2> DEFINE x == KeyCandidate(d, rows[<<m, d>>])
  <2>1. x \in Candidates(in, rows)
    BY <1>1 DEF Candidates
  <2>2. x.cred = d /\ x.uses = row[<<m, d>>].uses /\ Rank(x, now) = 0
    BY <1>2 DEF KeyCandidate, Rank
  <2> HIDE DEF x
  <2>3. CASE d = e
    BY <1>2, <2>3
  <2>4. CASE d # e
    <3>1. Precedes("least_used", now, k, x)
      BY <1>4, <2>1, <2>2, <2>4
    <3>2. LessUsed(k, x)
      BY <1>4, <2>2, <3>1 DEF Precedes, Prefers
    <3> QED
      BY <1>2, <1>4, <2>2, <3>2 DEF LessUsed
  <2> QED
    BY <2>3, <2>4
<1> QED
  BY <1>3, <1>4, <1>5

(* Sending a plain call keeps the spread of its model.                     *)
LEMMA SendSpreads ==
  ASSUME IInv, TableOK, SpreadOK, NEW r \in Requests, NEW now \in Nat,
         tried[r] = <<>>, UNCHANGED input, NEW m \in Models,
         m = input[r].model, OnlyPlainCalls(m), OnlyPlainCalls(m)',
         NEW k \in Candidates(input[r], Promoted(input[r], now)),
         \A c \in Candidates(input[r], Promoted(input[r], now)) \ {k} :
           Precedes(Strategy(r), now, k, c),
         SentWith(r, k.cred, Promoted(input[r], now), now)
  PROVE  KeysReady(m)' /\ Spread(m)'
<1> DEFINE rows == Promoted(input[r], now)
<1>1. KeysReady(m) /\ Spread(m) /\ input[r] \in Input
  BY DEF SpreadOK, IInv, TypeOK
<1>2. PlainCall(r)'
  <2>1. tried'[r] = Append(<<>>, k.cred)
    BY DEF SentWith, IInv, TypeOK
  <2>2. Append(<<>>, k.cred) # <<>>
    OBVIOUS
  <2> QED
    BY <2>1, <2>2 DEF OnlyPlainCalls
<1>3. live = Creds /\ input[r].scope = Creds /\ Strategy(r) = "least_used"
  BY <1>2 DEF PlainCall, Strategy, OnlyPlainCalls
<1>4. /\ k.cred \in Serving(m)
      /\ \A d \in Serving(m) : row[<<m, k.cred>>].uses <= row[<<m, d>>].uses
  BY <1>1, <1>3, LeastUsedFirst
<1>5. k.cred \in Creds /\ \A i \in DOMAIN tried[r] : tried[r][i] # k.cred
  BY <1>4 DEF Serving
<1>6. ASSUME NEW c \in Serving(m)
      PROVE  /\ <<m, c>> \in Pairs
             /\ SentTo(<<m, c>>)' = IF c = k.cred THEN SentTo(<<m, c>>) \cup {r}
                                    ELSE SentTo(<<m, c>>)
             /\ r \notin SentTo(<<m, c>>)
  <2>1. <<m, c>> \in Pairs
    BY <1>1 DEF Serving, Pairs
  <2>2. SentTo(<<m, c>>)' = IF <<m, c>> = <<m, k.cred>>
                            THEN SentTo(<<m, c>>) \cup {r}
                            ELSE SentTo(<<m, c>>)
    <3> HIDE DEF rows
    <3> QED
      BY <1>5, <2>1, SentWithOK DEF rows
  <2> QED
    BY <2>1, <2>2 DEF SentTo
<1>7. KeysReady(m)'
  <2>1. ASSUME NEW c \in Serving(m)
        PROVE  row'[<<m, c>>].state = "ready"
    <3>1. row[<<m, c>>].state = "ready" /\ row[<<m, c>>] \in Row
      BY <1>1, <1>6 DEF KeysReady, IInv, TypeOK
    <3>2. rows[<<m, c>>] = row[<<m, c>>]
      BY <1>6, <3>1 DEF Promoted, Lapsed
    <3>3. rows \in [Pairs -> Row]
      BY PromotedType DEF IInv, TypeOK
    <3>4. row'[<<m, c>>] \in {row[<<m, c>>], IncrementUse(row[<<m, c>>], now)}
      <4> HIDE DEF rows
      <4> QED
        BY <1>6, <3>2, <3>3 DEF SentWith, rows
    <3> QED
      BY <3>1, <3>4 DEF IncrementUse, Row
  <2> QED
    BY <2>1 DEF KeysReady, Serving
<1>8. Spread(m)'
  <2> SUFFICES ASSUME NEW c \in Serving(m), NEW d \in Serving(m)
               PROVE  Cardinality(SentTo(<<m, c>>)')
                        <= Cardinality(SentTo(<<m, d>>)') + 1
    BY DEF Spread, Serving
  <2>1. \A x \in Serving(m) :
          /\ Cardinality(SentTo(<<m, x>>)) \in Nat
          /\ row[<<m, x>>].uses = Cardinality(SentTo(<<m, x>>))
          /\ Cardinality(SentTo(<<m, x>>)') =
               IF x = k.cred THEN Cardinality(SentTo(<<m, x>>)) + 1
               ELSE Cardinality(SentTo(<<m, x>>))
    <3> SUFFICES ASSUME NEW x \in Serving(m)
                 PROVE  /\ Cardinality(SentTo(<<m, x>>)) \in Nat
                        /\ row[<<m, x>>].uses = Cardinality(SentTo(<<m, x>>))
                        /\ Cardinality(SentTo(<<m, x>>)') =
                             IF x = k.cred THEN Cardinality(SentTo(<<m, x>>)) + 1
                             ELSE Cardinality(SentTo(<<m, x>>))
      OBVIOUS
    <3>1. /\ IsFiniteSet(SentTo(<<m, x>>))
          /\ Cardinality(SentTo(<<m, x>>)) \in Nat
      BY CallSets
    <3>2. row[<<m, x>>].uses = Cardinality(SentTo(<<m, x>>))
      BY <1>6 DEF TableOK, CountersMatchAttempts
    <3>3. CASE x = k.cred
      <4>1. SentTo(<<m, x>>)' = SentTo(<<m, x>>) \cup {r}
        BY <1>6, <3>3
      <4>2. r \notin SentTo(<<m, x>>)
        BY <1>6
      <4>3. Cardinality(SentTo(<<m, x>>)') = Cardinality(SentTo(<<m, x>>)) + 1
        BY <3>1, <4>1, <4>2, FS_AddElement
      <4> QED
        BY <3>1, <3>2, <3>3, <4>3
    <3>4. CASE x # k.cred
      BY <1>6, <3>1, <3>2, <3>4
    <3> QED
      BY <3>3, <3>4
  <2>2. Cardinality(SentTo(<<m, c>>)) <= Cardinality(SentTo(<<m, d>>)) + 1
    BY <1>1 DEF Spread
  <2>3. Cardinality(SentTo(<<m, k.cred>>)) <= Cardinality(SentTo(<<m, d>>))
    BY <1>4, <2>1
  <2> QED
    BY <1>4, <2>1, <2>2, <2>3
<1> QED
  BY <1>7, <1>8

(* Every step goes on from where the calls are.                            *)
CallsGoOn ==
  /\ live' \subseteq live /\ UNCHANGED input
  /\ \A q \in Requests :
       /\ MoreTried(q)
       /\ pc[q] = "done" => UNCHANGED <<pc[q], last[q], tried[q]>>

LEMMA NextGoesOn ==
  ASSUME IInv, [Next]_vars
  PROVE  CallsGoOn
<1>1. ASSUME NEW r \in Requests, OnlyMoves(r), MoreTried(r), pc[r] # "done",
             UNCHANGED <<live, input>>
      PROVE  CallsGoOn
  BY <1>1 DEF CallsGoOn, OnlyMoves, MoreTried
<1>2. ASSUME NEW r \in Requests, Begin(r)
      PROVE  CallsGoOn
  <2>1. CASE StartWithoutKeys(r)
    BY <1>1, <2>1, ReturnMoves DEF StartWithoutKeys, sharedVars
  <2>2. ASSUME NEW lag \in 0..MaxLag, NEW gone \in BOOLEAN, Start(r, lag, gone)
        PROVE  CallsGoOn
    BY <1>1, <2>2, StartMoves DEF Start
  <2> QED
    BY <1>2, <2>1, <2>2 DEF Begin
<1>3. ASSUME NEW r \in Requests, Settle(r)
      PROVE  CallsGoOn
  <2>1. UNCHANGED <<live, input>>
    BY <1>3 DEF Settle, Succeeds, Fails, Throws, TimesOut, Catch, ClientAborts,
                sharedVars
  <2> QED
    BY <1>1, <1>3, <2>1, SettleMoves
<1>4. CASE Administer \/ Tick \/ UNCHANGED vars
  <2>1. live' \subseteq live /\ UNCHANGED <<input, pc, last, tried>>
    BY <1>4 DEF Administer, DeleteCredential, ClearAllCooldowns, SaveSettings,
                Tick, vars, sharedVars, callVars
  <2> QED
    BY <2>1 DEF CallsGoOn, MoreTried
<1>5. CASE Crash
  <2>1. UNCHANGED <<live, input, tried>>
    BY <1>5 DEF Crash, sharedVars
  <2>2. \A q \in Requests : pc[q] = "done" => UNCHANGED <<pc[q], last[q]>>
    BY <1>5 DEF Crash
  <2> QED
    BY <2>1, <2>2 DEF CallsGoOn, MoreTried
<1> QED
  BY <1>2, <1>3, <1>4, <1>5 DEF Next

(* The rows and the sent calls of the other models.                        *)
OtherModelsKept(m) ==
  \A p \in Pairs : p[1] # m => row'[p] = row[p] /\ SentTo(p)' = SentTo(p)

LEMMA OthersSpread ==
  ASSUME IInv, SpreadOK, CallsGoOn, NEW own \in Models, OtherModelsKept(own),
         OnlyPlainCalls(own) /\ OnlyPlainCalls(own)' =>
           KeysReady(own)' /\ Spread(own)'
  PROVE  SpreadOK'
<1> SUFFICES ASSUME NEW m \in Models, OnlyPlainCalls(m)'
             PROVE  KeysReady(m)' /\ Spread(m)'
  BY DEF SpreadOK
<1>1. OnlyPlainCalls(m)
  BY PlainBefore DEF CallsGoOn
<1>2. CASE m = own
  BY <1>1, <1>2
<1>3. CASE m # own
  <2>1. \A c \in Creds : /\ SentTo(<<m, c>>)' = SentTo(<<m, c>>)
                         /\ row'[<<m, c>>] = row[<<m, c>>]
    BY <1>3 DEF OtherModelsKept, Pairs
  <2> QED
    BY <1>1, <2>1, SpreadKept
<1> QED
  BY <1>2, <1>3

LEMMA SameSent ==
  ASSUME UNCHANGED <<input, tried>>
  PROVE  \A p \in Pairs : SentTo(p)' = SentTo(p)
BY DEF SentTo

LEMMA StartSpread ==
  ASSUME IInv, TableOK, SpreadOK, CallsGoOn, NEW r \in Requests,
         NEW lag \in 0..MaxLag, NEW gone \in BOOLEAN, Start(r, lag, gone)
  PROVE  SpreadOK'
<1> DEFINE rows == Promoted(input[r], clock')
           candidates == Candidates(input[r], rows)
<1>0. PICK m \in Models : m = input[r].model
  BY DEF IInv, TypeOK, Input
<1>1. PICK b \in Budget :
        /\ tried[r] = <<>> /\ clock' \in Nat /\ rows \in [Pairs -> Row]
        /\ IsPool(candidates) /\ IsFiniteSet(candidates) /\ b.now = clock'
        /\ \/ LeaveLoop(r, b, rows, NoResult)
           \/ SendNext(r, b, candidates, rows, NoResult, clock')
        /\ UNCHANGED input
  BY StartParts DEF RetryLoop
<1>2. \A p \in Pairs : /\ p[1] # m => rows[p] = row[p]
                       /\ row[p].state = "ready" => rows[p] = row[p]
  BY <1>0 DEF Promoted, Lapsed
<1>4. CASE LeaveLoop(r, b, rows, NoResult)
  <2>1. row' = rows /\ \A p \in Pairs : SentTo(p)' = SentTo(p)
    BY <1>1, <1>4, SameSent DEF LeaveLoop
  <2> HIDE DEF rows
  <2>2. OtherModelsKept(m)
    BY <1>2, <2>1 DEF OtherModelsKept
  <2>3. \A c \in Creds :
          /\ SentTo(<<m, c>>)' = SentTo(<<m, c>>)
          /\ row[<<m, c>>].state = "ready" => row'[<<m, c>>].state = "ready"
    BY <1>2, <2>1 DEF Pairs
  <2>4. OnlyPlainCalls(m) => KeysReady(m)' /\ Spread(m)'
    BY <2>3, SpreadKept
  <2> QED
    BY <2>2, <2>4, OthersSpread
<1>5. CASE SendNext(r, b, candidates, rows, NoResult, clock')
  <2>1. PICK k \in candidates :
          /\ k.cred \in Creds
          /\ \A c \in candidates \ {k} : Precedes(Strategy(r), clock', k, c)
          /\ SentWith(r, k.cred, rows, clock')
    BY <1>1, <1>5, SendNextPicks
  <2>2. \A i \in DOMAIN tried[r] : tried[r][i] # k.cred
    BY <1>1
  <2>3. OtherModelsKept(m)
    <3> HIDE DEF rows, candidates
    <3>1. ASSUME NEW p \in Pairs, p[1] # m
          PROVE  row'[p] = rows[p] /\ SentTo(p)' = SentTo(p)
      <4>1. p # <<m, k.cred>>
        BY <3>1
      <4> QED
        BY <1>0, <1>1, <2>1, <2>2, <4>1, SentWithOK DEF SentWith
    <3> QED
      BY <1>2, <3>1 DEF OtherModelsKept
  <2>4. OnlyPlainCalls(m) /\ OnlyPlainCalls(m)' => KeysReady(m)' /\ Spread(m)'
    BY <1>0, <1>1, <2>1, SendSpreads
  <2> QED
    BY <2>3, <2>4, OthersSpread
<1> QED
  BY <1>1, <1>4, <1>5

(* A failed attempt: its call is no plain one any more.                    *)
LEMMA FailureSpread ==
  ASSUME IInv, SpreadOK, CallsGoOn, NEW r \in Requests, pc[r] = "fetching",
         NEW s \in Row, NEW result, result.outcome # "success",
         result # NoResult,
         RetryLoop(r, budget[r], pool[r], [row EXCEPT ![CurrentPair(r)] = s],
                   result, clock)
  PROVE  SpreadOK'
<1> DEFINE rows == [row EXCEPT ![CurrentPair(r)] = s]
<1>0. PICK m \in Models : m = input[r].model
  BY DEF IInv, TypeOK, Input
<1>1. /\ tried[r] \in Seq(Creds) /\ tried[r] # <<>> /\ Len(tried[r]) \in Nat
      /\ CurrentPair(r) \in Pairs /\ CurrentPair(r)[1] = m
      /\ row \in [Pairs -> Row] /\ UNCHANGED input /\ input'[r].model = m
  BY <1>0, CurrentType DEF IInv, TypeOK, CallOK, CurrentPair, CallsGoOn
<1>2. \A p \in Pairs : p[1] # m => rows[p] = row[p]
  BY <1>1
<1>3. rows \in [Pairs -> Row]
  BY <1>1
<1> HIDE DEF rows
<1>4. ~OnlyPlainCalls(m)' /\ OtherModelsKept(m)
  <2>1. CASE SendNext(r, budget[r], pool[r], rows, result, clock)
    <3>1. PICK k \in pool[r] :
            k.cred \in Creds /\ SentWith(r, k.cred, rows, clock)
      BY <2>1, PoolOK, SendNextPicks
    <3>2. tried'[r] = Append(tried[r], k.cred)
      BY <3>1 DEF SentWith, IInv, TypeOK
    <3>3. Len(tried'[r]) = Len(tried[r]) + 1 /\ Len(tried[r]) # 0
      BY <1>1, <3>1, <3>2
    <3>4. tried'[r] # <<>> /\ Len(tried'[r]) # 1
      BY <1>1, <3>3
    <3>5. ~OnlyPlainCalls(m)'
      <4>1. ~PlainCall(r)'
        BY <3>4 DEF PlainCall
      <4> QED
        BY <1>1, <3>4, <4>1 DEF OnlyPlainCalls
    <3>6. ASSUME NEW p \in Pairs, p[1] # m
          PROVE  row'[p] = rows[p] /\ SentTo(p)' = SentTo(p)
      <4>1. p # <<m, k.cred>>
        BY <3>6
      <4>2. \A i \in DOMAIN tried[r] : tried[r][i] # k.cred
        BY <3>1, PoolOK
      <4>3. row'[p] = rows[p]
        BY <1>0, <1>3, <3>1, <4>1 DEF SentWith
      <4>4. SentTo(p)' = SentTo(p)
        BY <1>0, <1>1, <3>1, <4>1, <4>2, SentWithOK
      <4> QED
        BY <4>3, <4>4
    <3> QED
      BY <1>2, <3>5, <3>6 DEF OtherModelsKept
  <2>2. CASE LeaveLoop(r, budget[r], rows, result)
    <3>1. row' = rows /\ tried' = tried /\ Return(r, result)
      BY <2>2 DEF LeaveLoop
    <3>2. pc'[r] = "done" /\ last'[r] = result
      BY <3>1, ReturnMoves
    <3>3. ~OnlyPlainCalls(m)'
      BY <1>1, <3>1, <3>2 DEF OnlyPlainCalls, PlainCall
    <3> QED
      BY <1>1, <1>2, <3>1, <3>3, SameSent DEF OtherModelsKept
  <2> QED
    BY <2>1, <2>2 DEF RetryLoop, rows
<1> QED
  BY <1>4, OthersSpread

(* Every other step sends nothing and sets no row back.                    *)
LEMMA RestSpread ==
  ASSUME IInv, SpreadOK, CallsGoOn, UNCHANGED tried,
         \A p \in Pairs : row[p].state = "ready" => row'[p].state = "ready"
  PROVE  SpreadOK'
<1> SUFFICES ASSUME NEW m \in Models, OnlyPlainCalls(m)'
             PROVE  KeysReady(m)' /\ Spread(m)'
  BY DEF SpreadOK
<1>1. OnlyPlainCalls(m)
  BY PlainBefore DEF CallsGoOn
<1>2. \A c \in Creds :
        /\ SentTo(<<m, c>>)' = SentTo(<<m, c>>)
        /\ row[<<m, c>>].state = "ready" => row'[<<m, c>>].state = "ready"
  BY SameSent DEF CallsGoOn, Pairs
<1> QED
  BY <1>1, <1>2, SpreadKept

LEMMA SpreadStep ==
  ASSUME IInv, TableOK, SpreadOK, [Next]_vars
  PROVE  SpreadOK'
<1>1. CallsGoOn /\ row \in [Pairs -> Row]
  BY NextGoesOn DEF IInv, TypeOK
<1>2. ASSUME NEW r \in Requests, Begin(r)
      PROVE  SpreadOK'
  <2>1. CASE StartWithoutKeys(r)
    BY <1>1, <2>1, RestSpread DEF StartWithoutKeys, sharedVars
  <2> QED
    BY <1>1, <1>2, <2>1, StartSpread DEF Begin
<1>3. ASSUME NEW r \in Requests, Settle(r)
      PROVE  SpreadOK'
  <2>1. pc[r] = "fetching"
    BY <1>3, SettleMoves
  <2>2. CurrentPair(r) \in Pairs /\ row[CurrentPair(r)] \in Row /\ clock \in Nat
    BY <1>1, <2>1, CurrentType DEF IInv, TypeOK
  <2>3. ASSUME NEW a \in Answers, Succeeds(r, a)
        PROVE  SpreadOK'
    <3>1. /\ row' = [row EXCEPT ![CurrentPair(r)] =
                       RecordSuccess(@, clock - sentAt[r])]
          /\ UNCHANGED tried
      BY <2>3 DEF Succeeds
    <3>2. \A p \in Pairs : row[p].state = "ready" => row'[p].state = "ready"
      BY <1>1, <2>2, <3>1, RecordSuccessCounts
    <3> QED
      BY <1>1, <3>1, <3>2, RestSpread
  <2>4. ASSUME NEW a \in Answers, Fails(r, a)
        PROVE  SpreadOK'
    <3>1. Penalised(row[CurrentPair(r)], a, clock) \in Row
      BY <2>2, PenalisedType, AnswersAreAnswers
    <3>2. \E result :
            /\ result.outcome # "success" /\ result # NoResult
            /\ RetryLoop(r, budget[r], pool[r],
                         [row EXCEPT ![CurrentPair(r)] =
                            Penalised(row[CurrentPair(r)], a, clock)],
                         result, clock)
      BY <2>4 DEF Fails, NoResult
    <3> QED
      BY <1>1, <2>1, <3>1, <3>2, FailureSpread
  <2>5. ASSUME NEW name, Catch(r, name)
        PROVE  SpreadOK'
    <3>1. IncrementError(row[CurrentPair(r)]) \in Row
      BY <2>2, IncrementErrorType
    <3>2. \E result :
            /\ result.outcome # "success" /\ result # NoResult
            /\ RetryLoop(r, budget[r], pool[r],
                         [row EXCEPT ![CurrentPair(r)] =
                            IncrementError(row[CurrentPair(r)])],
                         result, clock)
      BY <2>5 DEF Catch, NoResult
    <3> QED
      BY <1>1, <2>1, <3>1, <3>2, FailureSpread
  <2>6. CASE ClientAborts(r)
    BY <1>1, <2>6, RestSpread DEF ClientAborts, sharedVars
  <2> QED
    BY <1>3, <2>3, <2>4, <2>5, <2>6 DEF Settle, Throws, TimesOut
<1>4. CASE ClearAllCooldowns
  <2>1. \A p \in Pairs : row[p].state = "ready" => row'[p].state = "ready"
    BY <1>4 DEF ClearAllCooldowns
  <2> QED
    BY <1>1, <1>4, <2>1, RestSpread DEF ClearAllCooldowns, callVars
<1>5. CASE \/ \E c \in Creds : DeleteCredential(c)
           \/ \E s \in SettingsChoices : SaveSettings(s)
           \/ Tick \/ Crash \/ UNCHANGED vars
  <2>1. UNCHANGED <<row, tried>>
    BY <1>5 DEF DeleteCredential, SaveSettings, Tick, Crash, vars, sharedVars,
                callVars
  <2> QED
    BY <1>1, <2>1, RestSpread
<1> QED
  BY <1>2, <1>3, <1>4, <1>5 DEF Next, Administer

LEMMA InitSpread == Init => SpreadOK
<1> SUFFICES ASSUME Init, NEW m \in Models
             PROVE  KeysReady(m) /\ Spread(m)
  BY DEF SpreadOK
<1>1. \A c \in Serving(m) : <<m, c>> \in Pairs
  BY DEF Serving, Pairs
<1>2. KeysReady(m)
  BY <1>1 DEF Init, KeysReady, FreshRow
<1>3. \A p : SentTo(p) = {}
  BY DEF Init, SentTo
<1> QED
  BY <1>2, <1>3, FS_EmptySet DEF Spread

(* Requests that overlap spread over the keys: while every request so far  *)
(* used plain least-used rotation on a model and none has failed, no key   *)
(* of the model has been sent two more of them than another.               *)
THEOREM OverlapSpreads == Spec => []OverlappingRequestsSpread
<1>1. IInv /\ TableOK /\ SpreadOK /\ [Next]_vars => SpreadOK'
  BY SpreadStep
<1>2. SpreadOK => OverlappingRequestsSpread
  BY DEF SpreadOK, OnlyPlainCalls, PlainCall, Spread, Serving,
         OverlappingRequestsSpread
<1> QED
  BY <1>1, <1>2, InitSpread, SpecTable, PTL DEF Spec
===============================================================================

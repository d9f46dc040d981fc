---------------------------- MODULE RoutingService ----------------------------
(***************************************************************************)
(* application/gateway/routing.service.ts: RoutingService.route, run by    *)
(* any number of concurrent requests over the shared credential state.     *)
(*                                                                         *)
(* The server is one Node process with a synchronous database, so whatever *)
(* route does between two awaits is one step.  It awaits only inside       *)
(* callUpstream (fetch and the body that follows), which gives a request   *)
(* these steps: Start, up to the first fetch; Succeeds, Fails, Throws and  *)
(* TimesOut, each from the settled fetch to the next fetch or the return;  *)
(* and ClientAborts.  The dashboard acts in between, time passes, and the  *)
(* process may crash and restart on the same database.                     *)
(***************************************************************************)
EXTENDS KeySelection, ErrorPolicy, Sequences, FiniteSets

CONSTANTS
  Requests,        \* calls of route
  Models,          \* model ids
  Serves,          \* allowed_models of each credential; {} serves every model
  Inputs,          \* RouteRequestInput: what a request may ask for
  Answers,         \* answers the upstream may give
  SettingsChoices, \* settings the administrator may save
  NoCred,          \* credentialId = null
  MaxLag,          \* bound on the time Start takes before its first fetch
  Horizon          \* bound on the clock

NoFallback == "none"

Input ==
  [model : Models, scope : SUBSET Creds, primary : Strategies,
   fallback : Strategies \cup {NoFallback}]

Settings == [attempts : Nat \ {0}, loopDeadline : Nat \ {0}, timeout : Nat \ {0}]

ASSUME RoutingAssumption ==
  /\ Serves \in [Creds -> SUBSET Models]
  /\ Inputs \subseteq Input
  /\ Answers \subseteq Answer
  /\ SettingsChoices \subseteq Settings
  /\ NoCred \notin Creds
  /\ MaxLag \in Nat
  /\ Horizon \in Nat

ASSUME FiniteAssumption == IsFiniteSet(Requests) /\ IsFiniteSet(Creds)

VARIABLES
  clock,    \* Date.now()
  live,     \* ids in provider_credentials
  settings, \* SettingsService.values, the part route reads
  row,      \* model_credential_state; an absent row is FreshRow
  input,    \* the request's input
  pc,       \* where the request is
  budget,   \* what the request read at its start: now, settings, deadline
  pool,     \* candidates not tried yet, as they were read at the start
  tried,    \* credentials the request was sent with, in order
  sentAt,   \* attemptStartedAt
  timer,    \* when the timeout of the current attempt fires
  last,     \* lastResult; once done, what route returned
  logs,     \* request_logs of the request
  usage     \* usage_events of the request

sharedVars == <<clock, live, settings, row>>
callVars == <<pc, budget, pool, tried, sentAt, timer, last, logs, usage>>
vars == <<sharedVars, input, callVars>>

-------------------------------------------------------------------------------
(* Rows of model_credential_state and the statements that write them.      *)

Pairs == Models \X Creds

Row ==
  [state : KeyStates, until : Nat, reason : CooldownReasons \cup {"none"},
   lastUsed : Nat, uses : Nat, errors : Nat, latency : Nat \cup {NoLatency}]

FreshRow ==
  [state |-> "ready", until |-> 0, reason |-> "none", lastUsed |-> 0,
   uses |-> 0, errors |-> 0, latency |-> NoLatency]

Ready(s) == [s EXCEPT !.state = "ready", !.until = 0, !.reason = "none"]

Cooling(s, until, reason) ==
  [s EXCEPT !.state = "cooling", !.until = until, !.reason = reason]

(* Slip: the attempt is not counted until something answers.               *)
TouchOnly(s, now) == [s EXCEPT !.lastUsed = now]

IncrementUse(s, now) == [s EXCEPT !.uses = @ + 1, !.lastUsed = now]

IncrementError(s) == [s EXCEPT !.errors = @ + 1]

(* Math.round(0.7 * prev + 0.3 * sample), or the first sample.             *)
MovingAverage(prev, sample) ==
  IF prev = NoLatency THEN sample ELSE (7 * prev + 3 * sample + 5) \div 10

(* Slip: a success also ends the key's cooldown.                           *)
RecordSuccessAndRecover(s, sample) ==
  [Ready(s) EXCEPT !.errors = 0, !.latency = MovingAverage(@, sample)]

(* recordSuccess and recordLatency: a cooldown is left as it is.           *)
RecordSuccess(s, sample) ==
  [s EXCEPT !.errors = 0, !.latency = MovingAverage(@, sample)]

-------------------------------------------------------------------------------
(* What a request works with.                                              *)

Outcomes == {"none", "success", "error", "timeout", "aborted", "no_keys"}

Exceptions == {"none", "AbortError", "TimeoutError", "TypeError"}

Budget == [now : Nat, attempts : Nat, deadline : Nat, timeout : Nat]

NoBudget == [now |-> 0, attempts |-> 0, deadline |-> 0, timeout |-> 0]

(* UpstreamResult; thrown is the exception of the attempt's timeline.      *)
Result ==
  [outcome : Outcomes, status : Nat, cred : Creds \cup {NoCred},
   attempts : Nat, class : Classifications \cup {"none", "timeout", "exhausted"},
   thrown : Exceptions]

NoResult ==
  [outcome |-> "none", status |-> 0, cred |-> NoCred, attempts |-> 0,
   class |-> "none", thrown |-> "none"]

NoKeys ==
  [outcome |-> "no_keys", status |-> 503, cred |-> NoCred, attempts |-> 0,
   class |-> "none", thrown |-> "none"]

Exhausted ==
  [outcome |-> "error", status |-> 502, cred |-> NoCred, attempts |-> 0,
   class |-> "exhausted", thrown |-> "none"]

LogRow ==
  [outcome : Outcomes, status : Nat, cred : Creds \cup {NoCred},
   attempt : Nat, total : Nat]

UsageEvent == [cred : Creds, status : Nat]

PersistLog(result, total) ==
  [outcome |-> result.outcome, status |-> result.status, cred |-> result.cred,
   attempt |-> result.attempts, total |-> total]

Current(r) == tried[r][Len(tried[r])]

CurrentPair(r) == <<input[r].model, Current(r)>>

-------------------------------------------------------------------------------
Init ==
  /\ clock = 0
  /\ live = Creds
  /\ settings \in SettingsChoices
  /\ row = [p \in Pairs |-> FreshRow]
  /\ input \in [Requests -> Inputs]
  /\ pc = [r \in Requests |-> "new"]
  /\ budget = [r \in Requests |-> NoBudget]
  /\ pool = [r \in Requests |-> {}]
  /\ tried = [r \in Requests |-> <<>>]
  /\ sentAt = [r \in Requests |-> 0]
  /\ timer = [r \in Requests |-> 0]
  /\ last = [r \in Requests |-> NoResult]
  /\ logs = [r \in Requests |-> <<>>]
  /\ usage = [r \in Requests |-> <<>>]

(* The credentials that may serve the request.                             *)
Capable(in) ==
  {c \in live \cap in.scope : Serves[c] = {} \/ in.model \in Serves[c]}

Lapsed(s, now) == s.state = "cooling" /\ s.until <= now

(* Slip: expired cooldowns are left to the ranking.                        *)
NotPromoted(in, now) == row

(* The rows once the expired cooldowns of the candidates are promoted.     *)
Promoted(in, now) ==
  [p \in Pairs |->
     IF p[1] = in.model /\ p[2] \in Capable(in) /\ Lapsed(row[p], now)
     THEN Ready(row[p]) ELSE row[p]]

KeyCandidate(c, s) ==
  [cred |-> c, state |-> s.state, until |-> s.until, uses |-> s.uses,
   lastUsed |-> s.lastUsed, errors |-> s.errors, latency |-> s.latency]

Candidates(in, rows) ==
  {KeyCandidate(c, rows[<<in.model, c>>]) : c \in Capable(in)}

MinOf(a, b) == IF a < b THEN a ELSE b
MaxOf(a, b) == IF a < b THEN b ELSE a

(* The locals of a call of route are gone once it returns.                 *)
Forget(r) ==
  /\ budget' = [budget EXCEPT ![r] = NoBudget]
  /\ pool' = [pool EXCEPT ![r] = {}]
  /\ sentAt' = [sentAt EXCEPT ![r] = 0]
  /\ timer' = [timer EXCEPT ![r] = 0]

Return(r, result) ==
  /\ pc' = [pc EXCEPT ![r] = "done"]
  /\ last' = [last EXCEPT ![r] = result]
  /\ Forget(r)

(* Slip: the last attempt is counted before it is made.                    *)
MayAttemptButLast(r, b, remaining, now) ==
  /\ Len(tried[r]) + 1 < b.attempts
  /\ now < b.deadline
  /\ remaining # {}

(* Slip: an attempt is sent at the deadline itself.                        *)
MayAttemptAtDeadline(r, b, remaining, now) ==
  /\ Len(tried[r]) < b.attempts
  /\ now <= b.deadline
  /\ remaining # {}

(* The head of the retry loop, from which the call sends the next attempt  *)
(* or leaves the loop: b, remaining, rows and result are the budget, the   *)
(* pool, the table and lastResult as the step has them by then.            *)
MayAttempt(r, b, remaining, now) ==
  /\ Len(tried[r]) < b.attempts
  /\ now < b.deadline
  /\ remaining # {}

Strategy(r) ==
  IF tried[r] # <<>> /\ input[r].fallback # NoFallback
  THEN input[r].fallback ELSE input[r].primary

(* Slip: the timer ignores what is left until the deadline.                *)
UncappedTimeout(b, now) == MaxOf(b.timeout, 1)

(* Slip: the timer is not armed within the time modelled.                  *)
UnarmedTimeout(b, now) == Horizon + 1

AttemptTimeout(b, now) == MaxOf(MinOf(b.deadline - now, b.timeout), 1)

(* Slip: the head of the pool is read and not taken off.                   *)
SendNextPeeking(r, b, remaining, rows, result, now) ==
  /\ MayAttempt(r, b, remaining, now)
  /\ LET k == Best(Strategy(r), b.now, remaining) IN
       /\ pool' = [pool EXCEPT ![r] = remaining]
       /\ tried' = [tried EXCEPT ![r] = Append(@, k.cred)]
       /\ row' = [rows EXCEPT ![<<input[r].model, k.cred>>] =
                    IncrementUse(@, now)]
  /\ pc' = [pc EXCEPT ![r] = "fetching"]
  /\ budget' = [budget EXCEPT ![r] = b]
  /\ sentAt' = [sentAt EXCEPT ![r] = now]
  /\ timer' = [timer EXCEPT ![r] = now + AttemptTimeout(b, now)]
  /\ last' = [last EXCEPT ![r] = result]
  /\ UNCHANGED logs

SendNext(r, b, remaining, rows, result, now) ==
  /\ MayAttempt(r, b, remaining, now)
  /\ LET k == Best(Strategy(r), b.now, remaining) IN
       /\ pool' = [pool EXCEPT ![r] = remaining \ {k}]
       /\ tried' = [tried EXCEPT ![r] = Append(@, k.cred)]
       /\ row' = [rows EXCEPT ![<<input[r].model, k.cred>>] =
                    IncrementUse(@, now)]
  /\ pc' = [pc EXCEPT ![r] = "fetching"]
  /\ budget' = [budget EXCEPT ![r] = b]
  /\ sentAt' = [sentAt EXCEPT ![r] = now]
  /\ timer' = [timer EXCEPT ![r] = now + AttemptTimeout(b, now)]
  /\ last' = [last EXCEPT ![r] = result]
  /\ UNCHANGED logs

(* Slip: lastResult is still the one of the attempt before.                *)
LeaveLoopWithStaleResult(r, b, rows, result) ==
  /\ IF last[r] = NoResult
     THEN /\ Return(r, Exhausted)
          /\ UNCHANGED logs
     ELSE /\ Return(r, last[r])
          /\ logs' = [logs EXCEPT ![r] =
                        Append(@, PersistLog(last[r], b.attempts))]
  /\ row' = rows
  /\ UNCHANGED tried

LeaveLoop(r, b, rows, result) ==
  /\ IF result = NoResult
     THEN /\ Return(r, Exhausted)
          /\ UNCHANGED logs
     ELSE /\ Return(r, result)
          /\ logs' = [logs EXCEPT ![r] =
                        Append(@, PersistLog(result, b.attempts))]
  /\ row' = rows
  /\ UNCHANGED tried

RetryLoop(r, b, remaining, rows, result, now) ==
  \/ SendNext(r, b, remaining, rows, result, now)
  \/ /\ ~MayAttempt(r, b, remaining, now)
     /\ LeaveLoop(r, b, rows, result)

-------------------------------------------------------------------------------
(* Timers run before the requests that arrived since, so time passes only  *)
(* while no timer is due, and Start may let at most MaxLag of it pass.     *)
NoTimerDue == \A r \in Requests : pc[r] = "fetching" => clock < timer[r]

(* route from its first line to the first fetch.  Reading and decrypting   *)
(* the credentials may take a while (lag), counted against the deadline;   *)
(* gone is a client whose socket was destroyed before the call.            *)
Start(r, lag, gone) ==
  LET now == clock + lag
      rows == Promoted(input[r], now)
      candidates == Candidates(input[r], rows)
      b == [now |-> now,
            attempts |-> MinOf(settings.attempts, Cardinality(candidates)),
            deadline |-> clock + settings.loopDeadline,
            timeout |-> settings.timeout]
  IN /\ pc[r] = "new"
     /\ lag > 0 => NoTimerDue
     /\ clock + MaxLag + settings.loopDeadline <= Horizon
     /\ Capable(input[r]) # {}
     /\ clock' = now
     /\ IF gone
        THEN LeaveLoop(r, b, rows, NoResult)
        ELSE RetryLoop(r, b, candidates, rows, NoResult, now)
     /\ UNCHANGED <<live, settings, input, usage>>

(* No credential serves the request: 503, and nothing is logged.           *)
StartWithoutKeys(r) ==
  /\ pc[r] = "new"
  /\ Capable(input[r]) = {}
  /\ Return(r, NoKeys)
  /\ UNCHANGED <<sharedVars, input, tried, logs, usage>>

(* The upstream answered 2xx.                                              *)
Succeeds(r, a) ==
  LET result == [outcome |-> "success", status |-> a.status, cred |-> Current(r),
                 attempts |-> Len(tried[r]), class |-> "none", thrown |-> "none"]
  IN /\ pc[r] = "fetching"
     /\ IsSuccess(a)
     /\ row' = [row EXCEPT ![CurrentPair(r)] = RecordSuccess(@, clock - sentAt[r])]
     /\ usage' = [usage EXCEPT ![r] =
                    Append(@, [cred |-> Current(r), status |-> a.status])]
     /\ logs' = [logs EXCEPT ![r] =
                   Append(@, PersistLog(result, budget[r].attempts))]
     /\ Return(r, result)
     /\ UNCHANGED <<clock, live, settings, input, tried>>

(* Slip: the failure is counted with the cooldown and again after it.      *)
PenalisedTwice(s, a, now) ==
  LET reason == CooldownReason(a) IN
  IncrementError(IF reason = "none" THEN s
                 ELSE IncrementError(
                        Cooling(s, now + CooldownLength(reason, now), reason)))

(* The row of a credential whose answer was a failure.                     *)
Penalised(s, a, now) ==
  LET reason == CooldownReason(a) IN
  IncrementError(IF reason = "none" THEN s
                 ELSE Cooling(s, now + CooldownLength(reason, now), reason))

(* The upstream answered anything else.                                    *)
Fails(r, a) ==
  LET result == [outcome |-> "error", status |-> a.status, cred |-> Current(r),
                 attempts |-> Len(tried[r]), class |-> ClassifyUpstreamError(a),
                 thrown |-> "none"]
  IN /\ pc[r] = "fetching"
     /\ ~IsSuccess(a)
     /\ usage' = [usage EXCEPT ![r] =
                    Append(@, [cred |-> Current(r), status |-> a.status])]
     /\ RetryLoop(r, budget[r], pool[r],
                  [row EXCEPT ![CurrentPair(r)] = Penalised(@, a, clock)],
                  result, clock)
     /\ UNCHANGED <<clock, live, settings, input>>

(* The catch block, for a client that is still there.  Only an AbortError  *)
(* counts as a timeout.                                                    *)
Catch(r, name) ==
  LET timedOut == name = "AbortError"
      result == [outcome |-> IF timedOut THEN "timeout" ELSE "error",
                 status |-> 502, cred |-> Current(r), attempts |-> Len(tried[r]),
                 class |-> IF timedOut THEN "timeout" ELSE "transient",
                 thrown |-> name]
  IN /\ pc[r] = "fetching"
     /\ RetryLoop(r, budget[r], pool[r],
                  [row EXCEPT ![CurrentPair(r)] = IncrementError(@)],
                  result, clock)
     /\ UNCHANGED <<clock, live, settings, input, usage>>

(* fetch rejects: refused, reset, unresolved, or a body cut short.         *)
Throws(r) == Catch(r, "TypeError")

(* The timer aborts the fetch with a DOMException named TimeoutError, and  *)
(* fetch rejects with that reason.                                         *)
TimesOut(r) ==
  /\ clock >= timer[r]
  /\ Catch(r, "TimeoutError")

(* The client's socket closes: the fetch is aborted, the request is logged *)
(* and ClientDisconnectedError is thrown.                                  *)
ClientAborts(r) ==
  LET result == [outcome |-> "aborted", status |-> 0, cred |-> Current(r),
                 attempts |-> Len(tried[r]), class |-> "none",
                 thrown |-> "AbortError"]
  IN /\ pc[r] = "fetching"
     /\ logs' = [logs EXCEPT ![r] =
                   Append(@, PersistLog(result, budget[r].attempts))]
     /\ Return(r, result)
     /\ UNCHANGED <<sharedVars, input, tried, usage>>

-------------------------------------------------------------------------------
(* What happens around the calls.                                          *)

(* DELETE /credentials/:id; its rows of model_credential_state stay.       *)
DeleteCredential(c) ==
  /\ c \in live
  /\ live' = live \ {c}
  /\ UNCHANGED <<clock, settings, row, input, callVars>>

(* POST /cooldowns/clear                                                   *)
ClearAllCooldowns ==
  /\ row' = [p \in Pairs |->
               IF row[p].state = "cooling" THEN Ready(row[p]) ELSE row[p]]
  /\ UNCHANGED <<clock, live, settings, input, callVars>>

(* PUT /settings                                                           *)
SaveSettings(s) ==
  /\ settings' = s
  /\ UNCHANGED <<clock, live, row, input, callVars>>

Tick ==
  /\ clock < Horizon
  /\ NoTimerDue
  /\ clock' = clock + 1
  /\ UNCHANGED <<live, settings, row, input, callVars>>

(* The process dies and restarts: the calls under way are lost.            *)
Crash ==
  LET inFlight == {r \in Requests : pc[r] = "fetching"} IN
  /\ inFlight # {}
  /\ pc' = [r \in Requests |-> IF r \in inFlight THEN "lost" ELSE pc[r]]
  /\ budget' = [r \in Requests |-> NoBudget]
  /\ pool' = [r \in Requests |-> {}]
  /\ sentAt' = [r \in Requests |-> 0]
  /\ timer' = [r \in Requests |-> 0]
  /\ last' = [r \in Requests |-> IF r \in inFlight THEN NoResult ELSE last[r]]
  /\ UNCHANGED <<sharedVars, input, tried, logs, usage>>

Begin(r) ==
  \/ \E lag \in 0..MaxLag, gone \in BOOLEAN : Start(r, lag, gone)
  \/ StartWithoutKeys(r)

Settle(r) ==
  \/ \E a \in Answers : Succeeds(r, a)
  \/ \E a \in Answers : Fails(r, a)
  \/ Throws(r)
  \/ TimesOut(r)
  \/ ClientAborts(r)

Administer ==
  \/ \E c \in Creds : DeleteCredential(c)
  \/ ClearAllCooldowns
  \/ \E s \in SettingsChoices : SaveSettings(s)

Next ==
  \/ \E r \in Requests : Begin(r) \/ Settle(r)
  \/ Administer
  \/ Tick
  \/ Crash

Spec == Init /\ [][Next]_vars

(* The event loop keeps running: time goes on and a due timer is run.      *)
FairSpec ==
  /\ Spec
  /\ WF_vars(Tick)
  /\ \A r \in Requests : WF_vars(TimesOut(r))
-------------------------------------------------------------------------------
(* Properties.                                                             *)

TypeOK ==
  /\ clock \in Nat
  /\ live \in SUBSET Creds
  /\ settings \in Settings
  /\ row \in [Pairs -> Row]
  /\ input \in [Requests -> Input]
  /\ pc \in [Requests -> {"new", "fetching", "done", "lost"}]
  /\ budget \in [Requests -> Budget]
  /\ pool \in [Requests -> SUBSET Candidate]
  /\ tried \in [Requests -> Seq(Creds)]
  /\ sentAt \in [Requests -> Nat]
  /\ timer \in [Requests -> Nat]
  /\ last \in [Requests -> Result]
  /\ logs \in [Requests -> Seq(LogRow)]
  /\ usage \in [Requests -> Seq(UsageEvent)]

(* A request never goes back to a credential it has already been sent      *)
(* with: the credentials tried are distinct, and none of them is still     *)
(* among the candidates, each of which stands for its own credential.      *)
NeverTwiceTheSameKey ==
  \A r \in Requests :
    /\ \A i, j \in DOMAIN tried[r] : tried[r][i] = tried[r][j] => i = j
    /\ \A k \in pool[r] : \A i \in DOMAIN tried[r] : k.cred # tried[r][i]
    /\ \A k, l \in pool[r] : k.cred = l.cred => k = l

(* A request makes at most as many attempts as the settings it read allow, *)
(* and only while its deadline is ahead; its timer is set no later than    *)
(* the deadline and one per-attempt timeout, so no answer is waited for    *)
(* past the deadline by more than another request's synchronous work.      *)
WithinBudget ==
  \A r \in Requests : pc[r] = "fetching" =>
    /\ Len(tried[r]) <= budget[r].attempts
    /\ sentAt[r] < budget[r].deadline
    /\ timer[r] <= budget[r].deadline
    /\ timer[r] <= sentAt[r] + budget[r].timeout
    /\ clock <= timer[r] + MaxLag

(* The calls waiting for an answer from the pair p.                        *)
InFlight(p) == {r \in Requests : pc[r] = "fetching" /\ CurrentPair(r) = p}

(* The calls that have been sent to the pair p.                            *)
SentTo(p) ==
  {r \in Requests :
     input[r].model = p[1] /\ \E i \in DOMAIN tried[r] : tried[r][i] = p[2]}

(* The counters that selection works with stay true under any overlap of   *)
(* requests: use_count is the number of attempts ever sent with the pair,  *)
(* and error_count never counts an attempt that has not been answered.     *)
CountersMatchAttempts ==
  \A p \in Pairs :
    /\ row[p].uses = Cardinality(SentTo(p))
    /\ row[p].errors + Cardinality(InFlight(p)) <= row[p].uses

(* Requests that overlap spread over the keys: while every request so far  *)
(* used plain least-used rotation on one model and none has failed, the    *)
(* numbers of requests sent to two keys that serve the model differ by at  *)
(* most one, even though none of the answers may have arrived.             *)
OverlappingRequestsSpread ==
  \A m \in Models :
    LET serving == {c \in Creds : Serves[c] = {} \/ m \in Serves[c]} IN
    (/\ live = Creds
     /\ \A r \in Requests : tried[r] # <<>> /\ input[r].model = m =>
          /\ input[r].scope = Creds
          /\ input[r].primary = "least_used"
          /\ Len(tried[r]) = 1
          /\ pc[r] = "done" => last[r].outcome = "success")
    => \A c, d \in serving :
         Cardinality(SentTo(<<m, c>>)) <= Cardinality(SentTo(<<m, d>>)) + 1

(* What the log, the usage events and the answer say agree: a request that *)
(* was sent upstream and returned has one log row, and any row has the     *)
(* outcome, status, key and attempt of the answer the client got, from the *)
(* last key tried; and a 2xx usage event exists only for the successful    *)
(* last attempt.  Of a request that was never sent, which has no row, see  *)
(* KeylessRequestsAreLogged.                                               *)
RecordsMatchAnswer ==
  \A r \in Requests :
    /\ Len(logs[r]) <= 1
    /\ \A i \in DOMAIN logs[r] :
         pc[r] = "done" /\ logs[r][i] = PersistLog(last[r], logs[r][i].total)
    /\ pc[r] = "done" /\ tried[r] # <<>> =>
         /\ Len(logs[r]) = 1
         /\ last[r].cred = Current(r)
         /\ last[r].attempts = Len(tried[r])
         /\ last[r].attempts <= logs[r][1].total
    /\ \A i \in DOMAIN usage[r] :
         usage[r][i].status \in 200..299 =>
           /\ last[r].outcome = "success"
           /\ i = Len(usage[r])
           /\ usage[r][i].cred = Current(r)

(* All cooling rows became ready in one step: the administrator cleared.   *)
CooldownsCleared == \A p \in Pairs : row'[p].state # "cooling"

(* A cooldown ends only when its time has passed or the administrator      *)
(* clears it, whatever requests, successes and stale snapshots overlap.    *)
CooldownsEndInTime ==
  [][\A p \in Pairs :
       row[p].state = "cooling" /\ row'[p].state # "cooling" =>
         row[p].until <= clock' \/ CooldownsCleared]_vars

Locked(p, now) == row[p].state = "cooling" /\ row[p].until > now

(* The first key of a request is judged on the state of that moment: it is *)
(* a stored credential within the plan, and it is one still cooling down   *)
(* only if every other capable one is, none of them due sooner.            *)
FirstPickIsHealthiest ==
  [][\A r \in Requests : pc[r] = "new" /\ pc'[r] = "fetching" =>
       LET m == input[r].model
           k == Current(r)'
       IN /\ k \in Capable(input[r])
          /\ Locked(<<m, k>>, clock') =>
               \A c \in Capable(input[r]) :
                 /\ Locked(<<m, c>>, clock')
                 /\ row[<<m, k>>].until <= row[<<m, c>>].until]_vars

(* A request returns an upstream failure only when its attempts or its     *)
(* time are used up: no untried candidate is given up early.               *)
NoEarlyGivingUp ==
  [][\A r \in Requests :
       pc[r] = "fetching" /\ pc'[r] = "done" /\ last'[r].outcome = "error" =>
         \/ Len(tried[r]) = budget[r].attempts
         \/ clock >= budget[r].deadline]_vars

(* Every request that reached the upstream is answered, unless the process *)
(* dies: an upstream that never answers cannot hold it.                    *)
EveryRequestIsAnswered ==
  \A r \in Requests : pc[r] = "fetching" ~> pc[r] \in {"done", "lost"}

(* The abstract specification, read off the detailed state: an answer is   *)
(* what last holds once the call has returned.                             *)
Phase(p) ==
  CASE p = "new" -> "idle" [] p = "fetching" -> "waiting"
    [] p = "done" -> "answered" [] p = "lost" -> "lost"

Seen(result) ==
  [outcome |-> result.outcome, key |-> result.cred, attempts |-> result.attempts]

SeenInLog(entry) ==
  [outcome |-> entry.outcome, key |-> entry.cred, attempts |-> entry.attempt]

AbsState == [r \in Requests |-> Phase(pc[r])]

AbsAnswer ==
  [r \in Requests |-> Seen(IF pc[r] = "done" THEN last[r] ELSE NoResult)]

AbsLogged ==
  [r \in Requests |-> {SeenInLog(logs[r][i]) : i \in DOMAIN logs[r]}]

Contract == INSTANCE FallbackContract WITH
  Keys <- Creds, NoKey <- NoCred,
  state <- AbsState, sent <- tried, answer <- AbsAnswer, logged <- AbsLogged

(* route keeps the contract its two callers rely on, whatever overlaps     *)
(* with it: fresh keys only, one answer, of the last key, and the log row  *)
(* of a request that reached the upstream is that answer.                  *)
ImplementsContract == Contract!Spec

-------------------------------------------------------------------------------
(* What the documentation says and the code does not do.                   *)

(* README, "Key Selection and Cooldowns": a key that exceeded its daily    *)
(* quota cools down until midnight Pacific.                                *)
DailyQuotaHoldsUntilMidnight ==
  [][\A p \in Pairs :
       row[p].reason = "daily_quota" /\ clock' < row[p].until =>
         \/ row'[p].state = "cooling" /\ row'[p].until >= row[p].until
         \/ CooldownsCleared]_vars

(* The catch block labels an attempt that its timer aborted "timeout".     *)
TimeoutsAreReported ==
  \A r \in Requests :
    last[r].thrown = "TimeoutError" => last[r].outcome = "timeout"

(* README, "Logs: every request with outcome ...": a request that was      *)
(* answered no_keys, an outcome of the table's CHECK, has a log row.       *)
KeylessRequestsAreLogged ==
  \A r \in Requests : last[r].outcome = "no_keys" => logs[r] # <<>>
===============================================================================

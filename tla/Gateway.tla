-------------------------------- MODULE Gateway --------------------------------
(***************************************************************************)
(* The two client surfaces (http/routes/gateway.routes.ts and              *)
(* openai.routes.ts) and the limiter they share                            *)
(* (domain/routing/clientKeyRateLimit.ts), while the dashboard edits what  *)
(* they read (AdminIntegrity).                                             *)
(*                                                                         *)
(* A handler looks up the client key, decides, and calls route, which      *)
(* reads the credentials before it awaits: one step.  What route does with *)
(* the credentials it was left is RoutingService.                          *)
(***************************************************************************)
EXTENDS AdminIntegrity, Integers

CONSTANTS
  Provider,     \* the provider of each credential, which no edit changes
  Limits,       \* clientKeyRatePerMinute the administrator may save
  Window,       \* 60_000
  Horizon,      \* bound on the clock
  MaxCalls,     \* bound on the calls in `calls` of one client key
  MaxRestarts   \* bound on the restarts

Providers == {"gemini", "openai_compatible"}

Bucket == [count : Nat \ {0}, resetAt : Nat]

ASSUME GatewayAssumption ==
  /\ Provider \in [Creds -> Providers]
  /\ Limits \subseteq Nat
  /\ Window \in Nat \ {0}
  /\ Horizon \in Nat
  /\ MaxCalls \in Nat
  /\ MaxRestarts \in Nat
  /\ NoRow \notin Bucket

VARIABLES
  clock,  \* Date.now()
  limit,  \* settings.all().clientKeyRatePerMinute
  bucket, \* buckets; NoRow where the map has no entry
  reply,  \* what the last step answered; NoRow if it was not a client's
  calls,  \* history: the calls that this process let through under a limit
          \* within the last Window, oldest first
  earlier \* history: the same of the processes before this one, in turn

gatewayVars == <<clock, limit, bucket, reply, calls, earlier>>
vars == <<adminVars, gatewayVars>>

Reply ==
  [status : {"listed", "routed", "limited", "bad_request", "forbidden", "no_native_key"},
   key : ClientKeys, model : Models \cup {NoRow}, tries : SUBSET Creds]

Call == [at : Nat, limit : Nat]

Init ==
  /\ AdminInit
  /\ clock = 0
  /\ limit \in Limits
  /\ bucket = [k \in ClientKeys |-> NoRow]
  /\ reply = NoRow
  /\ calls = [k \in ClientKeys |-> <<>>]
  /\ earlier = [k \in ClientKeys |-> <<>>]

-------------------------------------------------------------------------------
(* allowClientKeyRequest.                                                  *)

(* Slip: a window that ends now is still open.                             *)
WindowOpenAtEnd(k) == bucket[k] # NoRow /\ bucket[k].resetAt >= clock

WindowOpen(k) == bucket[k] # NoRow /\ bucket[k].resetAt > clock

(* Slip: one request more than the limit.                                  *)
AllowsOneMore(k) == limit # 0 /\ WindowOpen(k) => bucket[k].count <= limit

Allows(k) == limit # 0 /\ WindowOpen(k) => bucket[k].count < limit

(* Slip: the request that opens a window is not counted.                   *)
CountedAfterFirst(k) ==
  CASE limit = 0 -> bucket[k]
    [] limit # 0 /\ WindowOpen(k) -> [bucket[k] EXCEPT !.count = @ + 1]
    [] OTHER -> [count |-> 0, resetAt |-> clock + Window]

Counted(k) ==
  CASE limit = 0 -> bucket[k]
    [] limit # 0 /\ WindowOpen(k) -> [bucket[k] EXCEPT !.count = @ + 1]
    [] OTHER -> [count |-> 1, resetAt |-> clock + Window]

-------------------------------------------------------------------------------
(* The handlers.  A key that is not stored is answered 401, and another    *)
(* action than the two 404, before anything changes.                       *)

Authenticated(k) == Idle /\ k \in StoredKeys

Answer(status, k, m, tries) ==
  reply' = [status |-> status, key |-> k, model |-> m, tries |-> tries]

(* enforceClientKeyRate, which lets the request through or answers 429.    *)
Refuse(k) ==
  /\ Authenticated(k)
  /\ ~Allows(k)
  /\ Answer("limited", k, NoRow, {})
  /\ UNCHANGED <<adminVars, clock, limit, bucket, calls, earlier>>

Admit(k) ==
  /\ Authenticated(k)
  /\ Allows(k)
  /\ Len(calls[k]) < MaxCalls
  /\ bucket' = [bucket EXCEPT ![k] = Counted(k)]
  /\ calls' = [calls EXCEPT ![k] =
                 IF limit = 0 THEN @ ELSE Append(@, [at |-> clock, limit |-> limit])]
  /\ UNCHANGED <<adminVars, clock, limit, earlier>>

(* The generation handler of the Gemini surface calls no limiter.          *)
AdmitUncounted(k) ==
  /\ Authenticated(k)
  /\ UNCHANGED <<adminVars, clock, limit, bucket, calls, earlier>>

(* isModelAllowed, then route under this plan.                             *)
Decide(k, m, plan) ==
  IF IsModelAllowed(k, m) THEN Answer("routed", k, m, Capable(plan, m))
  ELSE Answer("forbidden", k, m, {})

ListModels(k) == Admit(k) /\ Answer("listed", k, NoRow, {})

(* Slip: the plan of the key's groups is not handed on.                    *)
ChatWithoutPlan(k, m) == Admit(k) /\ Decide(k, m, NoPlan)

(* A body that does not parse or asks for a stream is answered 400.        *)
RejectBody(k) == Admit(k) /\ Answer("bad_request", k, NoRow, {})

ChatCompletions(k, m) == Admit(k) /\ Decide(k, m, ResolveRoutePlan(k, m))

GenerateContent(k, m) == AdmitUncounted(k) /\ Decide(k, m, ResolveRoutePlan(k, m))

(* The scope of countTokens: the plan's credentials, or all, that are      *)
(* native.                                                                 *)
Native == {c \in stored : Provider[c] = "gemini"}

(* Slip: every native credential, whatever the plan.                       *)
AnyNative(k, m) == Native

NativeScope(k, m) ==
  LET plan == ResolveRoutePlan(k, m) IN
  IF plan = NoPlan THEN Native ELSE plan \cap Native

(* The 503 comes before the permission check.                              *)
CountTokens(k, m) ==
  /\ AdmitUncounted(k)
  /\ IF NativeScope(k, m) = {} THEN Answer("no_native_key", k, m, {})
     ELSE Decide(k, m, NativeScope(k, m))

ClientCalls ==
  \E k \in ClientKeys :
    \/ Refuse(k) \/ ListModels(k) \/ RejectBody(k)
    \/ \E m \in Models : ChatCompletions(k, m) \/ GenerateContent(k, m) \/ CountTokens(k, m)

-------------------------------------------------------------------------------
(* What the surfaces run beside.                                           *)

Administer ==
  AdminNext /\ reply' = NoRow /\ UNCHANGED <<clock, limit, bucket, calls, earlier>>

SaveLimit ==
  /\ Idle
  /\ limit' \in Limits
  /\ reply' = NoRow
  /\ UNCHANGED <<adminVars, clock, bucket, calls, earlier>>

(* The calls that are still within the Window at this time.                *)
Since(time, past) ==
  LET gone == {i \in DOMAIN past : past[i].at <= time - Window}
  IN  SubSeq(past, 1 + Max({0} \cup gone), Len(past))

Tick ==
  /\ clock < Horizon
  /\ clock' = clock + 1
  /\ calls' = [k \in ClientKeys |-> Since(clock', calls[k])]
  /\ earlier' = [k \in ClientKeys |->
                   [i \in DOMAIN earlier[k] |-> Since(clock', earlier[k][i])]]
  /\ reply' = NoRow
  /\ UNCHANGED <<adminVars, limit, bucket>>

(* The buckets are in memory and forgotten; the tables stay.               *)
Restart ==
  /\ \A k \in ClientKeys : Len(earlier[k]) < MaxRestarts
  /\ bucket' = [k \in ClientKeys |-> NoRow]
  /\ earlier' = [k \in ClientKeys |-> Append(earlier[k], calls[k])]
  /\ calls' = [k \in ClientKeys |-> <<>>]
  /\ reply' = NoRow
  /\ (Idle /\ UNCHANGED adminVars) \/ CutOff
  /\ UNCHANGED <<clock, limit>>

Next == ClientCalls \/ Administer \/ SaveLimit \/ Tick \/ Restart

Spec == Init /\ [][Next]_vars

-------------------------------------------------------------------------------
(* Types; an open window has counted the request that opened it.           *)
TypeOK ==
  /\ AdminTypeOK
  /\ clock \in Nat
  /\ limit \in Limits
  /\ bucket \in [ClientKeys -> Bucket \cup {NoRow}]
  /\ reply \in Reply \cup {NoRow}
  /\ calls \in [ClientKeys -> Seq(Call)]
  /\ earlier \in [ClientKeys -> Seq(Seq(Call))]

(* The highest limit in force for some calls.                              *)
Peak(past) == Max({0} \cup {past[i].limit : i \in DOMAIN past})

(* A fixed window may let a key through almost twice its limit in some     *)
(* minute, across the end of a window, and never more, however often the   *)
(* limit was changed or switched off meanwhile (clientKeyRateLimit.ts:20): *)
(* once the next window opens, the call that opened the last is past.      *)
(* This is so of each process: a restart forgets the count, and what the   *)
(* processes of one minute let through adds up.                            *)
LessThanTwiceTheLimit ==
  \A k \in ClientKeys : \A past \in {calls[k]} \cup ToSet(earlier[k]) :
    past # <<>> => Len(past) < 2 * Peak(past)

(* A key is refused only if it used up the present limit within the last   *)
(* minute, in calls of this process: no window outlives its minute, and a  *)
(* limit that was raised counts at once (clientKeyRateLimit.ts:20-29).     *)
RefusedOnlyAtTheLimit ==
  reply # NoRow /\ reply.status = "limited" =>
    Len(calls[reply.key]) >= limit

(* A request is handed to route with stored credentials that serve its     *)
(* model, and for a key that lives by its groups with none that the groups *)
(* it was saved with do not target, on either surface and for either       *)
(* action (gateway.routes.ts:76-120, openai.routes.ts:81-104).             *)
CallsStayInScope ==
  reply # NoRow /\ Idle =>
  LET k == reply.key IN
  \A c \in reply.tries :
    /\ c \in stored /\ CanServe(c, reply.model)
    /\ Restricted(k) /\ reply.model \notin key[k].models /\ granted[k] \cap torn = {} =>
         \E g \in granted[k] \cap StoredGroups : c \in Targets(g, reply.model)

(* countTokens reaches exactly the native credentials that a generation    *)
(* of the same key and model would (gateway.routes.ts:77-100).             *)
CountTokensMatchesGeneration ==
  Idle =>
  \A k \in StoredKeys, m \in Models :
    LET counting == IF IsModelAllowed(k, m) /\ NativeScope(k, m) # {}
                    THEN Capable(NativeScope(k, m), m) ELSE {}
    IN  counting = Reach(k, m) \cap Native

(* "enforced on all four gateway handlers" (CLEANUPS.md:94): a call that   *)
(* is not refused while there is a limit is counted.                       *)
EveryHandlerIsLimited ==
  reply # NoRow /\ reply.status # "limited" /\ limit # 0 =>
    \E i \in DOMAIN calls[reply.key] : calls[reply.key][i].at = clock
===============================================================================

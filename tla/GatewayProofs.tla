----------------------------- MODULE GatewayProofs -----------------------------
(***************************************************************************)
(* Gateway for every set of limits, every window and any number of keys:   *)
(* what the limiter lets through, and what a client call is routed with,   *)
(* while the administrator edits keys, groups and the limit itself.        *)
(***************************************************************************)
EXTENDS Gateway, AdminProofs, SequenceTheorems

-------------------------------------------------------------------------------
(* The surfaces leave the configuration to its handlers.                   *)

AdminInv == IInv /\ KeysInv /\ stored \subseteq Creds

LEMMA AdminSteps ==
  ASSUME Next
  PROVE  [AdminNext]_adminVars
<1>1. ASSUME ClientCalls
      PROVE  UNCHANGED adminVars
  BY <1>1 DEF ClientCalls, Refuse, ListModels, RejectBody, ChatCompletions, GenerateContent,
     CountTokens, Admit, AdmitUncounted
<1>2. ASSUME Administer
      PROVE  AdminNext
  BY <1>2 DEF Administer
<1>3. ASSUME SaveLimit \/ Tick
      PROVE  UNCHANGED adminVars
  BY <1>3 DEF SaveLimit, Tick
<1>4. ASSUME Restart
      PROVE  UNCHANGED adminVars \/ CutOff
  BY <1>4 DEF Restart
<1> QED
  BY <1>1, <1>2, <1>3, <1>4 DEF Next, AdminNext

(* Only known credentials are stored.                                      *)
LEMMA StoredStay ==
  ASSUME stored \subseteq Creds, [AdminNext]_adminVars
  PROVE  stored' \subseteq Creds
<1>1. ASSUME EditCredentials
      PROVE  stored' \subseteq Creds
  BY <1>1 DEF EditCredentials, CreateCredential, UpdateCredential, DeleteCredential
<1>2. ASSUME EditGroups \/ EditClientKeys \/ NextWrite \/ CutOff
      PROVE  UNCHANGED stored
  BY <1>2 DEF EditGroups, CreateGroup, UpdateGroup, DeleteGroup, EditClientKeys, CreateClientKey,
     UpdateClientKey, DeleteClientKey, Save, NextWrite, CutOff, configVars
<1>3. ASSUME UNCHANGED adminVars
      PROVE  UNCHANGED stored
  BY <1>3 DEF adminVars, configVars
<1> QED
  BY <1>1, <1>2, <1>3 DEF AdminNext

LEMMA SpecAdmin == Spec => []AdminInv
<1>1. Init => AdminInv
  BY InitOK, InitKeys DEF Init, AdminInit, AdminInv
<1>2. AdminInv /\ [Next]_vars => AdminInv'
  <2>1. [Next]_vars => [AdminNext]_adminVars
    BY AdminSteps DEF vars
  <2> QED
    BY <2>1, NextOK, NextKeys, StoredStay DEF AdminInv
<1> QED
  BY <1>1, <1>2, PTL DEF Spec

-------------------------------------------------------------------------------
(* What a call is routed with.                                             *)

(* The credentials countTokens may use are the native ones of the plan.    *)
LEMMA CapableInNative ==
  ASSUME AdminInv, NEW k \in StoredKeys, NEW m \in Models
  PROVE  /\ Capable(NativeScope(k, m), m) = Capable(ResolveRoutePlan(k, m), m) \cap Native
         /\ NativeScope(k, m) = {} => Capable(ResolveRoutePlan(k, m), m) \cap Native = {}
<1> DEFINE plan == ResolveRoutePlan(k, m)
           scope == NativeScope(k, m)
<1>1. plan = NoPlan \/ plan \in SUBSET Creds
  <2>1. key[k].groups \in Seq(Names)
    BY DEF AdminInv, KeysInv, KeysTyped, StoredKeys, ClientKey
  <2> QED
    BY <2>1, PlanIs DEF ResolveRoutePlan
<1>2. scope = IF plan = NoPlan THEN Native ELSE plan \cap Native
  BY DEF NativeScope
<1> HIDE DEF plan, scope
<1>3. Native \subseteq stored
  BY DEF Native
<1>4. scope # NoPlan
  BY <1>1, <1>2, <1>3, AccessAssumption DEF AdminInv
<1>5. Capable(scope, m) = Capable(plan, m) \cap Native
  BY <1>2, <1>3, <1>4 DEF Capable
<1>6. scope = {} => Capable(plan, m) \cap Native = {}
  BY <1>2, <1>3 DEF Capable
<1> QED
  BY <1>5, <1>6 DEF plan, scope

(* countTokens reaches exactly the native credentials that a generation    *)
(* of the same key and model would (gateway.routes.ts:77-100).             *)
THEOREM CountingMatches == Spec => []CountTokensMatchesGeneration
<1>1. ASSUME AdminInv
      PROVE  CountTokensMatchesGeneration
  <2> SUFFICES ASSUME NEW k \in StoredKeys, NEW m \in Models
               PROVE  (IF IsModelAllowed(k, m) /\ NativeScope(k, m) # {}
                       THEN Capable(NativeScope(k, m), m) ELSE {}) = Reach(k, m) \cap Native
    BY DEF CountTokensMatchesGeneration
  <2> QED
    BY <1>1, CapableInNative DEF Reach
<1> QED
  BY <1>1, SpecAdmin, PTL

(* What CallsStayInScope asks of one credential.                           *)
Scoped(k, m, c) ==
  /\ c \in stored /\ CanServe(c, m)
  /\ Restricted(k) /\ m \notin key[k].models /\ granted[k] \cap torn = {} =>
       \E g \in granted[k] \cap StoredGroups : c \in Targets(g, m)

LEMMA RouteScoped ==
  ASSUME AdminInv, Idle, NEW k \in StoredKeys, NEW m \in Models, IsModelAllowed(k, m),
         NEW c \in Capable(ResolveRoutePlan(k, m), m)
  PROVE  Scoped(k, m, c)
<1>1. c \in stored /\ CanServe(c, m)
  BY DEF Capable
<1>2. ASSUME Restricted(k), m \notin key[k].models, granted[k] \cap torn = {}
      PROVE  \E g \in granted[k] \cap StoredGroups : c \in Targets(g, m)
  <2>1. /\ ResolveRoutePlan(k, m) \in SUBSET Creds
        /\ \A d \in ResolveRoutePlan(k, m) :
             \E g \in granted[k] \cap StoredGroups : d \in Targets(g, m)
    BY <1>2, InScope DEF AdminInv
  <2>2. c \in ResolveRoutePlan(k, m)
    BY <2>1, AccessAssumption DEF Capable
  <2> QED
    BY <2>1, <2>2
<1> QED
  BY <1>1, <1>2 DEF Scoped

(* A client call answers with credentials in scope, or none.               *)
LEMMA CallScoped ==
  ASSUME AdminInv, ClientCalls
  PROVE  Idle /\ UNCHANGED adminVars /\
         \E k \in StoredKeys : \E m :
           reply'.key = k /\ reply'.model = m /\ \A c \in reply'.tries : Scoped(k, m, c)
<1> DEFINE Goal ==
             Idle /\ UNCHANGED adminVars /\
             \E k \in StoredKeys : \E m :
               reply'.key = k /\ reply'.model = m /\ \A c \in reply'.tries : Scoped(k, m, c)
<1>1. ASSUME NEW k, NEW m, NEW status, NEW tries, Authenticated(k), UNCHANGED adminVars,
             Answer(status, k, m, tries), \A c \in tries : Scoped(k, m, c)
      PROVE  Goal
  <2>1. Idle /\ k \in StoredKeys
    BY <1>1 DEF Authenticated
  <2>2. reply'.key = k /\ reply'.model = m /\ reply'.tries = tries
    BY <1>1 DEF Answer
  <2> QED
    BY <1>1, <2>1, <2>2
<1> HIDE DEF Goal
<1>2. ASSUME NEW k \in ClientKeys, Refuse(k) \/ ListModels(k) \/ RejectBody(k)
      PROVE  Goal
  BY <1>1, <1>2 DEF Refuse, ListModels, RejectBody, Admit
<1>3. ASSUME NEW k, NEW m \in Models, Authenticated(k), UNCHANGED adminVars,
             NEW plan, Decide(k, m, plan),
             plan = ResolveRoutePlan(k, m) \/ plan = NativeScope(k, m)
      PROVE  Goal
  <2>1. Idle /\ k \in StoredKeys
    BY <1>3 DEF Authenticated
  <2>2. CASE ~IsModelAllowed(k, m)
    BY <1>1, <1>3, <2>2 DEF Decide
  <2>3. CASE IsModelAllowed(k, m)
    <3>1. Answer("routed", k, m, Capable(plan, m))
      BY <1>3, <2>3 DEF Decide
    <3>2. Capable(plan, m) \subseteq Capable(ResolveRoutePlan(k, m), m)
      BY <1>3, <2>1, CapableInNative
    <3>3. \A c \in Capable(plan, m) : Scoped(k, m, c)
      BY <2>1, <2>3, <3>2, RouteScoped
    <3> QED
      BY <1>1, <1>3, <3>1, <3>3
  <2> QED
    BY <2>2, <2>3
<1>4. ASSUME NEW k \in ClientKeys, NEW m \in Models,
             ChatCompletions(k, m) \/ GenerateContent(k, m) \/ CountTokens(k, m)
      PROVE  Goal
  <2>1. Authenticated(k) /\ UNCHANGED adminVars
    BY <1>4 DEF ChatCompletions, GenerateContent, CountTokens, Admit, AdmitUncounted
  <2>2. CASE ChatCompletions(k, m) \/ GenerateContent(k, m)
    BY <1>3, <2>1, <2>2 DEF ChatCompletions, GenerateContent
  <2>3. CASE CountTokens(k, m)
    <3>1. CASE NativeScope(k, m) = {}
      BY <1>1, <2>1, <2>3, <3>1 DEF CountTokens
    <3>2. CASE NativeScope(k, m) # {}
      BY <1>3, <2>1, <2>3, <3>2 DEF CountTokens
    <3> QED
      BY <3>1, <3>2
  <2> QED
    BY <1>4, <2>2, <2>3
<1>5. Goal
  BY <1>2, <1>4 DEF ClientCalls
<1> QED
  BY <1>5 DEF Goal

(* A request is handed to route with stored credentials that serve its     *)
(* model, and for a key that lives by its groups with none that the groups *)
(* it was saved with do not target (gateway.routes.ts:76-120,              *)
(* openai.routes.ts:81-104).                                               *)
THEOREM CallsInScope == Spec => []CallsStayInScope
<1>1. ASSUME Init, reply # NoRow
      PROVE  FALSE
  BY <1>1 DEF Init
<1>2. ASSUME AdminInv, CallsStayInScope, [Next]_vars
      PROVE  CallsStayInScope'
  <2>1. CASE ClientCalls
    <3> PICK k \in StoredKeys :
          \E m : reply'.key = k /\ reply'.model = m /\ \A c \in reply'.tries : Scoped(k, m, c)
      BY <1>2, <2>1, CallScoped
    <3>1. PICK m : reply'.key = k /\ reply'.model = m /\ \A c \in reply'.tries : Scoped(k, m, c)
      OBVIOUS
    <3>2. UNCHANGED <<stored, selects, group, key, granted, torn>>
      BY <1>2, <2>1, CallScoped DEF adminVars, configVars, historyVars
    <3>3. \A c : Scoped(k, m, c)' = Scoped(k, m, c)
      BY <3>2 DEF Scoped, CanServe, Restricted, StoredGroups, Targets
    <3>4. \A c \in reply'.tries : Scoped(k, m, c)'
      BY <3>1, <3>3
    <3> QED
      BY <3>1, <3>4 DEF CallsStayInScope, Scoped
  <2>2. CASE Administer \/ SaveLimit \/ Tick \/ Restart
    BY <2>2 DEF CallsStayInScope, Administer, SaveLimit, Tick, Restart
  <2>3. CASE UNCHANGED vars
    <3>1. UNCHANGED <<stored, selects, group, key, rest, granted, torn, reply>>
      BY <2>3 DEF vars, adminVars, configVars, historyVars, gatewayVars
    <3> QED
      BY <1>2, <3>1 DEF CallsStayInScope, Idle, CanServe, Restricted, StoredGroups, Targets
  <2> QED
    BY <1>2, <2>1, <2>2, <2>3 DEF Next
<1>3. Init => CallsStayInScope
  BY <1>1 DEF CallsStayInScope
<1> QED
  BY <1>2, <1>3, SpecAdmin, PTL DEF Spec

-------------------------------------------------------------------------------
(* The limiter.                                                            *)

(* A bounded set of numbers has a greatest one.                            *)
LEMMA GreatestNumber ==
  ASSUME NEW T \in SUBSET Nat, T # {}, NEW b \in Nat, \A x \in T : x <= b
  PROVE  Max(T) \in T /\ \A x \in T : x <= Max(T)
<1> DEFINE bounds == {n \in Nat : \A x \in T : x <= n}
<1>1. PICK n \in bounds : \A i \in bounds : n <= i
  <2>1. bounds \in SUBSET Nat /\ bounds # {}
    OBVIOUS
  <2> HIDE DEF bounds
  <2> QED
    BY <2>1, LeastNumber
<1>2. n \in T
  <2> SUFFICES ASSUME n \notin T
               PROVE  FALSE
    OBVIOUS
  <2>1. n # 0
    <3>1. PICK x \in T : TRUE
      OBVIOUS
    <3> QED
      BY <1>1, <3>1
  <2>2. \A x \in T : x <= n - 1
    BY <1>1
  <2>3. n - 1 \in bounds
    BY <1>1, <2>1, <2>2
  <2> QED
    BY <1>1, <2>3
<1>3. \E m \in T : \A x \in T : m >= x
  BY <1>1, <1>2
<1>4. Max(T) \in T /\ \A x \in T : Max(T) >= x
  BY <1>3 DEF Max
<1> QED
  BY <1>4

LEMMA CallTyped ==
  ASSUME NEW c \in Call
  PROVE  c.at \in Nat /\ c.limit \in Nat
BY DEF Call

(* No call was let through under a limit above the peak.                   *)
LEMMA PeakIs ==
  ASSUME NEW s \in Seq(Call)
  PROVE  Peak(s) \in Nat /\ \A i \in DOMAIN s : s[i].limit <= Peak(s)
<1> DEFINE Bounded(n) == \E b \in Nat : \A i \in 1..n : s[i].limit <= b
           bad == {n \in 0..Len(s) : ~Bounded(n)}
<1> DOMAIN s = 1..Len(s) /\ Len(s) \in Nat /\ \A i \in DOMAIN s : s[i].limit \in Nat
  <2>1. \A i \in DOMAIN s : s[i] \in Call
    OBVIOUS
  <2> QED
    BY <2>1, CallTyped
<1>1. Bounded(0)
  OBVIOUS
<1>2. ASSUME NEW n \in 1..Len(s), Bounded(n - 1)
      PROVE  Bounded(n)
  <2>1. PICK b \in Nat : \A i \in 1..n - 1 : s[i].limit <= b
    BY <1>2
  <2>2. s[n].limit \in Nat
    OBVIOUS
  <2>3. \A i \in 1..n : i = n \/ i \in 1..n - 1
    OBVIOUS
  <2>4. CASE s[n].limit <= b
    BY <2>1, <2>3, <2>4
  <2>5. CASE b < s[n].limit
    <3>1. \A i \in 1..n - 1 : s[i].limit \in Nat
      OBVIOUS
    <3>2. \A i \in 1..n : s[i].limit <= s[n].limit
      BY <2>1, <2>2, <2>3, <2>5, <3>1
    <3> QED
      BY <2>2, <3>2
  <2>6. b \in Nat /\ (s[n].limit <= b \/ b < s[n].limit)
    BY <2>2
  <2> HIDE DEF Bounded
  <2> QED
    BY <2>4, <2>5, <2>6
<1> HIDE DEF Bounded
<1>3. bad = {}
  <2> SUFFICES ASSUME bad # {}
               PROVE  FALSE
    OBVIOUS
  <2>1. PICK n \in bad : \A i \in bad : n <= i
    <3>1. bad \in SUBSET Nat
      OBVIOUS
    <3> HIDE DEF bad
    <3> QED
      BY <3>1, LeastNumber
  <2>2. n \in 1..Len(s) /\ n - 1 \notin bad /\ n - 1 \in 0..Len(s)
    BY <1>1, <2>1
  <2> QED
    BY <1>2, <2>2
<1>4. PICK b \in Nat : \A i \in 1..Len(s) : s[i].limit <= b
  <2>1. Bounded(Len(s))
    BY <1>3
  <2> QED
    BY <2>1 DEF Bounded
<1> DEFINE T == {0} \cup {s[i].limit : i \in DOMAIN s}
<1>5. T \in SUBSET Nat /\ T # {} /\ \A x \in T : x <= b
  BY <1>4
<1>6. Peak(s) = Max(T) /\ \A i \in DOMAIN s : s[i].limit \in T
  BY DEF Peak
<1> HIDE DEF T
<1> QED
  BY <1>5, <1>6, GreatestNumber

(* A bucket whose window is open at this time, and the calls it counts.    *)
Open(b, t) == b # NoRow /\ b.resetAt > t

Fresh(b, t) == IF Open(b, t) THEN b.count ELSE 0

(* How many of these calls came before that window.                        *)
Older(b, s, t) == Len(s) - Fresh(b, t)

(* What a bucket says of the calls of the last Window: those it counts are *)
(* the last ones, each let through under a limit that its place in the     *)
(* window did not exceed, from the one that opened it on.  The window      *)
(* before has lost the call that opened it, so its calls had a place       *)
(* further on than the one they have here.                                 *)
Accounts(b, s, t) ==
  /\ b = NoRow => s = <<>>
  /\ Fresh(b, t) <= Len(s)
  /\ \A i \in DOMAIN s : t - Window < s[i].at /\ s[i].at <= t
  /\ \A i, j \in DOMAIN s : i <= j => s[i].at <= s[j].at
  /\ \A i \in DOMAIN s :
       IF i <= Older(b, s, t) THEN s[i].limit > i ELSE s[i].limit >= i - Older(b, s, t)
  /\ Open(b, t) => s[Older(b, s, t) + 1].at = b.resetAt - Window

LimiterTyped ==
  /\ clock \in Nat
  /\ limit \in Limits
  /\ bucket \in [ClientKeys -> Bucket \cup {NoRow}]
  /\ calls \in [ClientKeys -> Seq(Call)]
  /\ earlier \in [ClientKeys -> Seq(Seq(Call))]

(* Some bucket accounts for these calls: the one of a process that ended   *)
(* goes on doing so as time passes, though nobody has it any more.         *)
Accounted(s, t) == \E b \in Bucket \cup {NoRow} : Accounts(b, s, t)

LimiterInv ==
  /\ LimiterTyped
  /\ \A k \in ClientKeys : Accounts(bucket[k], calls[k], clock)
  /\ \A k \in ClientKeys : \A i \in DOMAIN earlier[k] : Accounted(earlier[k][i], clock)

LEMMA CallsTyped ==
  ASSUME NEW s \in Seq(Call)
  PROVE  /\ Len(s) \in Nat /\ DOMAIN s = 1..Len(s)
         /\ \A i \in DOMAIN s : s[i].at \in Nat /\ s[i].limit \in Nat
<1>1. \A i \in DOMAIN s : s[i] \in Call
  OBVIOUS
<1> QED
  BY <1>1, CallTyped

LEMMA BucketTyped ==
  ASSUME NEW b \in Bucket \cup {NoRow}, NEW t \in Nat
  PROVE  /\ Fresh(b, t) \in Nat
         /\ Open(b, t) => b.count \in Nat \ {0} /\ b.resetAt \in Nat /\ t < b.resetAt
         /\ b \in Bucket => b # NoRow /\ b.count \in Nat \ {0} /\ b.resetAt \in Nat
BY GatewayAssumption DEF Bucket, Open, Fresh

(* A call that the limiter lets through and counts.                        *)
LEMMA CountedOK ==
  ASSUME NEW b \in Bucket \cup {NoRow}, NEW s \in Seq(Call), NEW t \in Nat, Accounts(b, s, t),
         NEW l \in Nat \ {0}, Open(b, t) => b.count < l,
         NEW c \in Bucket,
         c = IF Open(b, t) THEN [b EXCEPT !.count = @ + 1]
             ELSE [count |-> 1, resetAt |-> t + Window]
  PROVE  Accounts(c, Append(s, [at |-> t, limit |-> l]), t)
<1> DEFINE call == [at |-> t, limit |-> l]
           u == Append(s, call)
<1>1. call \in Call /\ call.at = t /\ call.limit = l
  BY DEF Call
<1> HIDE DEF call
<1>2. /\ Len(s) \in Nat /\ DOMAIN s = 1..Len(s)
      /\ \A i \in DOMAIN s : s[i].at \in Nat /\ s[i].limit \in Nat
  BY CallsTyped
<1>3. /\ u \in Seq(Call) /\ Len(u) = Len(s) + 1 /\ DOMAIN u = 1..Len(s) + 1
      /\ u[Len(s) + 1] = call
      /\ \A i \in DOMAIN s : u[i] = s[i]
  BY <1>1
<1> HIDE DEF u
<1>4. c # NoRow /\ Window \in Nat \ {0}
  BY BucketTyped, GatewayAssumption
<1>5. /\ Open(c, t)
      /\ Fresh(c, t) = Fresh(b, t) + 1
      /\ c.resetAt = IF Open(b, t) THEN b.resetAt ELSE t + Window
  <2>1. CASE Open(b, t)
    <3>1. b \in Bucket
      BY <2>1 DEF Open
    <3>2. c = [count |-> b.count + 1, resetAt |-> b.resetAt]
      BY <2>1, <3>1 DEF Bucket
    <3> QED
      BY <1>4, <2>1, <3>2 DEF Open, Fresh
  <2>2. CASE ~Open(b, t)
    <3>1. c = [count |-> 1, resetAt |-> t + Window]
      BY <2>2
    <3> QED
      BY <1>4, <2>2, <3>1 DEF Open, Fresh
  <2> QED
    BY <2>1, <2>2
<1>6. Fresh(b, t) \in Nat /\ Fresh(b, t) < l /\ Fresh(b, t) <= Len(s)
  BY BucketTyped DEF Fresh, Accounts
<1>7. Older(c, u, t) = Older(b, s, t) /\ Older(b, s, t) = Len(s) - Fresh(b, t)
  BY <1>2, <1>3, <1>5, <1>6 DEF Older
<1>8. \A i \in DOMAIN u : i \in DOMAIN s \/ (i = Len(s) + 1 /\ u[i] = call)
  BY <1>2, <1>3
<1>9. \A i \in DOMAIN u : t - Window < u[i].at /\ u[i].at <= t
  BY <1>1, <1>3, <1>4, <1>8 DEF Accounts
<1>10. \A i, j \in DOMAIN u : i <= j => u[i].at <= u[j].at
  <2> SUFFICES ASSUME NEW i \in DOMAIN u, NEW j \in DOMAIN u, i <= j
               PROVE  u[i].at <= u[j].at
    OBVIOUS
  <2>1. CASE j \in DOMAIN s
    BY <1>2, <1>3, <2>1 DEF Accounts
  <2>2. CASE j \notin DOMAIN s
    BY <1>1, <1>8, <1>9, <2>2
  <2> QED
    BY <2>1, <2>2
<1>11. \A i \in DOMAIN u :
         IF i <= Older(c, u, t) THEN u[i].limit > i ELSE u[i].limit >= i - Older(c, u, t)
  <2> SUFFICES ASSUME NEW i \in DOMAIN u
               PROVE  IF i <= Older(b, s, t) THEN u[i].limit > i ELSE u[i].limit >= i - Older(b, s, t)
    BY <1>7
  <2>1. CASE i \in DOMAIN s
    BY <1>3, <2>1 DEF Accounts
  <2>2. CASE i \notin DOMAIN s
    BY <1>1, <1>2, <1>6, <1>7, <1>8, <2>2
  <2> QED
    BY <2>1, <2>2
<1>12. u[Older(c, u, t) + 1].at = c.resetAt - Window
  <2>1. CASE Open(b, t)
    <3>1. Fresh(b, t) # 0
      BY <2>1, BucketTyped DEF Fresh
    <3>2. Older(b, s, t) + 1 \in DOMAIN s
      BY <1>2, <1>6, <1>7, <3>1
    <3> QED
      BY <1>3, <1>5, <1>7, <2>1, <3>2 DEF Accounts
  <2>2. CASE ~Open(b, t)
    <3>1. Older(c, u, t) = Len(s)
      BY <1>2, <1>7, <2>2 DEF Fresh
    <3> QED
      BY <1>1, <1>3, <1>4, <1>5, <2>2, <3>1
  <2> QED
    BY <2>1, <2>2
<1>13. Fresh(c, t) <= Len(u)
  BY <1>2, <1>3, <1>5, <1>6
<1>14. Accounts(c, u, t)
  BY <1>4, <1>9, <1>10, <1>11, <1>12, <1>13 DEF Accounts
<1> QED
  BY <1>14 DEF u, call

(* What is left of the calls once some of them are past.                   *)
LEMMA SinceIs ==
  ASSUME NEW s \in Seq(Call), NEW t \in Nat,
         \A i, j \in DOMAIN s : i <= j => s[i].at <= s[j].at
  PROVE  \E d \in 0..Len(s) :
           /\ Since(t, s) \in Seq(Call)
           /\ Len(Since(t, s)) = Len(s) - d
           /\ DOMAIN Since(t, s) = 1..Len(s) - d
           /\ \A i \in 1..Len(s) - d : Since(t, s)[i] = s[i + d]
           /\ \A i \in DOMAIN s : i <= d <=> s[i].at <= t - Window
<1> DEFINE gone == {i \in DOMAIN s : s[i].at <= t - Window}
           T == {0} \cup gone
           d == Max(T)
           u == SubSeq(s, 1 + d, Len(s))
<1>1. /\ Len(s) \in Nat /\ DOMAIN s = 1..Len(s)
      /\ \A i \in DOMAIN s : s[i].at \in Nat
      /\ Window \in Nat
  BY CallsTyped, GatewayAssumption
<1>2. T \in SUBSET Nat /\ T # {} /\ \A x \in T : x <= Len(s)
  BY <1>1
<1>3. Since(t, s) = u
  BY DEF Since
<1>4. T \subseteq 0..Len(s) /\ \A i \in DOMAIN s : i \in T <=> s[i].at <= t - Window
  BY <1>1
<1> HIDE DEF T
<1>5. d \in T /\ \A x \in T : x <= d
  BY <1>1, <1>2, GreatestNumber
<1> HIDE DEF d
<1>6. d \in 0..Len(s)
  BY <1>4, <1>5
<1>7. ASSUME NEW i \in DOMAIN s
      PROVE  i <= d <=> s[i].at <= t - Window
  <2>1. CASE s[i].at <= t - Window
    BY <1>4, <1>5, <2>1
  <2>2. CASE i <= d
    <3>1. d \in DOMAIN s
      BY <1>1, <1>6, <2>2
    <3>2. s[i].at <= s[d].at /\ s[d].at <= t - Window
      BY <1>4, <1>5, <2>2, <3>1
    <3> QED
      BY <1>1, <2>2, <3>1, <3>2
  <2> QED
    BY <2>1, <2>2
<1>8. /\ u \in Seq(Call)
      /\ Len(u) = Len(s) - d
      /\ \A i \in 1..Len(s) - d : u[i] = s[i + d]
  <2>1. \A i \in 1 + d..Len(s) : s[i] \in Call
    BY <1>1, <1>6
  <2>2. /\ u \in Seq(Call)
        /\ Len(u) = IF 1 + d <= Len(s) THEN Len(s) - (1 + d) + 1 ELSE 0
        /\ \A i \in 1..Len(s) - (1 + d) + 1 : u[i] = s[1 + d + i - 1]
    BY <1>1, <1>6, <2>1, SubSeqProperties
  <2> HIDE DEF u
  <2>3. ASSUME NEW i \in 1..Len(s) - d
        PROVE  u[i] = s[i + d]
    <3>1. 1 + d + i - 1 = i + d /\ Len(s) - (1 + d) + 1 = Len(s) - d
      BY <1>1, <1>6
    <3> QED
      BY <2>2, <3>1
  <2>4. Len(u) = Len(s) - d
    <3>1. Len(u) = IF 1 + d <= Len(s) THEN Len(s) - (1 + d) + 1 ELSE 0
      BY <2>2
    <3>2. Len(s) \in Nat /\ d \in Nat /\ d <= Len(s)
      BY <1>1, <1>6
    <3> HIDE DEF u
    <3> QED
      BY <3>1, <3>2
  <2>5. u \in Seq(Call)
    BY <2>2
  <2> QED
    BY <2>3, <2>4, <2>5
<1> HIDE DEF u
<1>9. DOMAIN u = 1..Len(s) - d
  BY <1>8
<1> QED
  BY <1>3, <1>6, <1>7, <1>8, <1>9

(* Time passes, by one tick.                                               *)
LEMMA TickOK ==
  ASSUME NEW b \in Bucket \cup {NoRow}, NEW s \in Seq(Call), NEW t \in Nat, Accounts(b, s, t),
         NEW now \in Nat, now = t + 1
  PROVE  Since(now, s) \in Seq(Call) /\ Accounts(b, Since(now, s), now)
<1> DEFINE u == Since(now, s)
           old == Older(b, s, t)
<1>1. /\ Len(s) \in Nat /\ DOMAIN s = 1..Len(s)
      /\ \A i \in DOMAIN s : s[i].at \in Nat /\ s[i].limit \in Nat
      /\ Window \in Nat
  BY CallsTyped, GatewayAssumption
<1>2. PICK d \in 0..Len(s) :
        /\ u \in Seq(Call)
        /\ Len(u) = Len(s) - d
        /\ DOMAIN u = 1..Len(s) - d
        /\ \A i \in 1..Len(s) - d : u[i] = s[i + d]
        /\ \A i \in DOMAIN s : i <= d <=> s[i].at <= now - Window
  <2>1. \A i, j \in DOMAIN s : i <= j => s[i].at <= s[j].at
    BY DEF Accounts
  <2> QED
    BY <2>1, SinceIs
<1> HIDE DEF u
<1>3. \A i \in DOMAIN u : i + d \in DOMAIN s /\ u[i] = s[i + d] /\ i \in Nat /\ i + d > d
  BY <1>1, <1>2
<1>4. /\ Fresh(b, t) \in Nat /\ Fresh(b, t) <= Len(s)
      /\ Open(b, t) => Fresh(b, t) # 0 /\ b.resetAt \in Nat /\ t < b.resetAt
      /\ ~Open(b, t) => Fresh(b, t) = 0
      /\ old = Len(s) - Fresh(b, t)
  BY BucketTyped DEF Accounts, Fresh, Older
<1> HIDE DEF old
<1>5. old \in 0..Len(s)
  BY <1>1, <1>4
<1>6. /\ \A i \in DOMAIN s : IF i <= old THEN s[i].limit > i ELSE s[i].limit >= i - old
      /\ \A i \in DOMAIN s : s[i].at <= t
      /\ \A i, j \in DOMAIN s : i <= j => s[i].at <= s[j].at
      /\ Open(b, t) => s[old + 1].at = b.resetAt - Window
  BY DEF Accounts, old
<1>7. b = NoRow => u = <<>>
  BY <1>1, <1>2 DEF Accounts
<1>8. \A i \in DOMAIN u : now - Window < u[i].at /\ u[i].at <= now
  <2> SUFFICES ASSUME NEW i \in DOMAIN u
               PROVE  now - Window < u[i].at /\ u[i].at <= now
    OBVIOUS
  <2>1. i + d \in DOMAIN s /\ u[i] = s[i + d] /\ ~(i + d <= d)
    BY <1>2, <1>3
  <2>2. ~(s[i + d].at <= now - Window) /\ s[i + d].at <= t /\ s[i + d].at \in Nat
    BY <1>1, <1>2, <1>6, <2>1
  <2> QED
    BY <1>1, <2>1, <2>2
<1>9. \A i, j \in DOMAIN u : i <= j => u[i].at <= u[j].at
  <2> SUFFICES ASSUME NEW i \in DOMAIN u, NEW j \in DOMAIN u, i <= j
               PROVE  u[i].at <= u[j].at
    OBVIOUS
  <2>1. i + d \in DOMAIN s /\ j + d \in DOMAIN s /\ i + d <= j + d
    BY <1>3
  <2> QED
    BY <1>3, <1>6, <2>1
<1>10. Open(b, now) => Open(b, t)
  <2>1. b # NoRow => b.resetAt \in Nat
    BY BucketTyped
  <2> QED
    BY <2>1 DEF Open
<1>11. \A i \in DOMAIN u :
         i + d \in DOMAIN s /\ u[i] = s[i + d] /\ i \in Nat /\ s[i + d].limit \in Nat
  BY <1>1, <1>3
<1>12. \A i \in DOMAIN u :
         IF i + d <= old THEN s[i + d].limit > i + d ELSE s[i + d].limit >= i + d - old
  <2> SUFFICES ASSUME NEW i \in DOMAIN u
               PROVE  IF i + d <= old THEN s[i + d].limit > i + d ELSE s[i + d].limit >= i + d - old
    OBVIOUS
  <2>1. PICK j \in DOMAIN s : j = i + d
    BY <1>11
  <2>2. IF j <= old THEN s[j].limit > j ELSE s[j].limit >= j - old
    BY <1>6
  <2>3. i \in Nat /\ d \in Nat /\ j \in Nat /\ old \in Nat /\ s[j].limit \in Nat
    BY <1>1, <1>2, <1>5, <1>11
  <2> QED
    BY <2>1, <2>2, <2>3
<1>13. ASSUME Open(b, now)
       PROVE  Accounts(b, u, now)
  <2>1. Fresh(b, now) = Fresh(b, t) /\ Open(b, t) /\ b.resetAt > now /\ Fresh(b, t) # 0
    BY <1>4, <1>10, <1>13 DEF Fresh, Open
  <2>2. old + 1 \in DOMAIN s
    BY <1>1, <1>4, <2>1
  <2>3. ~(s[old + 1].at <= now - Window)
    BY <1>1, <1>4, <1>6, <2>1
  <2>4. d <= old
    BY <1>2, <1>5, <2>2, <2>3
  <2>5. /\ Older(b, u, now) = old - d
        /\ Fresh(b, now) <= Len(u)
    BY <1>1, <1>2, <1>4, <1>5, <2>1, <2>4 DEF Older
  <2>6. \A i \in DOMAIN u : IF i <= old - d THEN u[i].limit > i ELSE u[i].limit >= i - (old - d)
    <3> SUFFICES ASSUME NEW i \in DOMAIN u
                 PROVE  IF i <= old - d THEN u[i].limit > i ELSE u[i].limit >= i - (old - d)
      OBVIOUS
    <3>1. /\ i + d \in DOMAIN s /\ u[i] = s[i + d] /\ i \in Nat /\ s[i + d].limit \in Nat
          /\ IF i + d <= old THEN s[i + d].limit > i + d ELSE s[i + d].limit >= i + d - old
      BY <1>11, <1>12
    <3> QED
      BY <1>5, <2>4, <3>1
  <2>7. u[old - d + 1].at = b.resetAt - Window
    <3>1. old - d + 1 \in 1..Len(s) - d /\ old - d + 1 + d = old + 1
      BY <1>1, <1>5, <2>2, <2>4
    <3> QED
      BY <1>2, <1>6, <2>1, <3>1
  <2> QED
    BY <1>7, <1>8, <1>9, <2>5, <2>6, <2>7 DEF Accounts
<1>14. ASSUME ~Open(b, now)
       PROVE  Accounts(b, u, now)
  <2>1. Fresh(b, now) = 0 /\ Older(b, u, now) = Len(u) /\ Fresh(b, now) <= Len(u)
    BY <1>1, <1>2, <1>14 DEF Fresh, Older
  <2>2. Open(b, t) => d > old
    <3> SUFFICES ASSUME Open(b, t)
                 PROVE  d > old
      OBVIOUS
    <3>1. b.resetAt = now
      BY <1>4, <1>14 DEF Open
    <3>2. old + 1 \in DOMAIN s
      BY <1>1, <1>4
    <3>3. s[old + 1].at <= now - Window
      BY <1>1, <1>6, <3>1
    <3>4. old + 1 <= d
      BY <1>2, <3>2, <3>3
    <3> QED
      BY <1>5, <3>4
  <2>3. \A i \in DOMAIN u : u[i].limit > i
    <3> SUFFICES ASSUME NEW i \in DOMAIN u
                 PROVE  u[i].limit > i
      OBVIOUS
    <3>1. /\ i + d \in DOMAIN s /\ u[i] = s[i + d] /\ i \in Nat /\ s[i + d].limit \in Nat
          /\ IF i + d <= old THEN s[i + d].limit > i + d ELSE s[i + d].limit >= i + d - old
      BY <1>11, <1>12
    <3>2. CASE Open(b, t)
      BY <1>5, <2>2, <3>1, <3>2
    <3>3. CASE ~Open(b, t)
      <4>1. old = Len(s)
        BY <1>1, <1>4, <3>3
      <4> QED
        BY <1>1, <3>1, <4>1
    <3> QED
      BY <3>2, <3>3
  <2>4. \A i \in DOMAIN u : i <= Len(u)
    BY <1>1, <1>2
  <2> QED
    BY <1>7, <1>8, <1>9, <1>14, <2>1, <2>3, <2>4 DEF Accounts
<1> QED
  BY <1>2, <1>13, <1>14 DEF u

(* A call that is let through.                                             *)
LEMMA AdmitOK ==
  ASSUME LimiterInv, NEW k \in ClientKeys, Admit(k)
  PROVE  LimiterInv'
<1> DEFINE call == [at |-> clock, limit |-> limit]
<1>1. /\ clock' = clock /\ limit' = limit
      /\ bucket' = [bucket EXCEPT ![k] = Counted(k)]
      /\ calls' = [calls EXCEPT ![k] = IF limit = 0 THEN @ ELSE Append(@, call)]
      /\ Allows(k) /\ earlier' = earlier
  BY DEF Admit
<1>2. /\ clock \in Nat /\ limit \in Nat /\ limit \in Limits
      /\ bucket \in [ClientKeys -> Bucket \cup {NoRow}] /\ calls \in [ClientKeys -> Seq(Call)]
      /\ \A j \in ClientKeys : Accounts(bucket[j], calls[j], clock)
  BY GatewayAssumption DEF LimiterInv, LimiterTyped
<1>3. CASE limit = 0
  <2>1. Counted(k) = bucket[k]
    BY <1>3 DEF Counted
  <2>2. bucket' = [bucket EXCEPT ![k] = bucket[k]] /\ calls' = [calls EXCEPT ![k] = calls[k]]
    BY <1>1, <1>3, <2>1
  <2>3. bucket' = bucket
    BY <1>2, <2>2
  <2>4. calls' = calls
    BY <1>2, <2>2
  <2> QED
    BY <1>1, <1>2, <2>3, <2>4 DEF LimiterInv, LimiterTyped
<1>4. CASE limit # 0
  <2> DEFINE c == Counted(k)
             s == Append(calls[k], call)
  <2>1. /\ c = IF Open(bucket[k], clock) THEN [bucket[k] EXCEPT !.count = @ + 1]
               ELSE [count |-> 1, resetAt |-> clock + Window]
        /\ Open(bucket[k], clock) => bucket[k].count < limit
    BY <1>1, <1>4 DEF Counted, Allows, WindowOpen, Open
  <2>2. c \in Bucket
    <3>1. CASE Open(bucket[k], clock)
      <4>1. bucket[k] \in Bucket
        BY <1>2, <3>1 DEF Open
      <4>2. c = [count |-> bucket[k].count + 1, resetAt |-> bucket[k].resetAt]
        BY <2>1, <3>1, <4>1 DEF Bucket
      <4>3. bucket[k].count + 1 \in Nat \ {0} /\ bucket[k].resetAt \in Nat
        BY <4>1, BucketTyped
      <4> QED
        BY <4>2, <4>3 DEF Bucket
    <3>2. CASE ~Open(bucket[k], clock)
      <4>1. c = [count |-> 1, resetAt |-> clock + Window] /\ clock + Window \in Nat
        BY <1>2, <2>1, <3>2, GatewayAssumption
      <4> QED
        BY <4>1 DEF Bucket
    <3> QED
      BY <3>1, <3>2
  <2>3. call \in Call
    BY <1>2 DEF Call
  <2>4. s \in Seq(Call)
    BY <1>2, <2>3
  <2>5. Accounts(c, s, clock)
    <3> HIDE DEF c
    <3> QED
      BY <1>2, <1>4, <2>1, <2>2, CountedOK
  <2> HIDE DEF c, s
  <2>6. bucket' = [bucket EXCEPT ![k] = c] /\ calls' = [calls EXCEPT ![k] = s]
    BY <1>1, <1>2, <1>4 DEF c, s
  <2>7. \A j \in ClientKeys : Accounts(bucket'[j], calls'[j], clock)
    <3> SUFFICES ASSUME NEW j \in ClientKeys
                 PROVE  Accounts(bucket'[j], calls'[j], clock)
      OBVIOUS
    <3>1. CASE j = k
      <4>1. bucket'[j] = c /\ calls'[j] = s
        BY <1>2, <2>6, <3>1
      <4> QED
        BY <2>5, <4>1
    <3>2. CASE j # k
      <4>1. bucket'[j] = bucket[j] /\ calls'[j] = calls[j]
        BY <1>2, <2>6, <3>2
      <4> QED
        BY <1>2, <4>1
    <3> QED
      BY <3>1, <3>2
  <2>8. bucket' \in [ClientKeys -> Bucket \cup {NoRow}] /\ calls' \in [ClientKeys -> Seq(Call)]
    BY <1>2, <2>2, <2>4, <2>6
  <2> QED
    BY <1>1, <1>2, <2>7, <2>8 DEF LimiterInv, LimiterTyped
<1> QED
  BY <1>3, <1>4

LEMMA TicksOK ==
  ASSUME LimiterInv, Tick
  PROVE  LimiterInv'
<1> DEFINE now == clock + 1
<1>1. /\ clock' = now /\ limit' = limit /\ bucket' = bucket
      /\ calls' = [k \in ClientKeys |-> Since(now, calls[k])]
      /\ earlier' = [k \in ClientKeys |->
                       [i \in DOMAIN earlier[k] |-> Since(now, earlier[k][i])]]
  BY DEF Tick
<1>2. /\ clock \in Nat /\ now \in Nat /\ limit \in Limits
      /\ bucket \in [ClientKeys -> Bucket \cup {NoRow}] /\ calls \in [ClientKeys -> Seq(Call)]
      /\ earlier \in [ClientKeys -> Seq(Seq(Call))]
      /\ \A j \in ClientKeys : Accounts(bucket[j], calls[j], clock)
      /\ \A j \in ClientKeys : \A i \in DOMAIN earlier[j] : Accounted(earlier[j][i], clock)
  BY DEF LimiterInv, LimiterTyped
<1>3. now = clock + 1
  OBVIOUS
<1> HIDE DEF now
<1>4. ASSUME NEW k \in ClientKeys
      PROVE  calls'[k] \in Seq(Call) /\ Accounts(bucket'[k], calls'[k], now)
  <2>1. Since(now, calls[k]) \in Seq(Call) /\ Accounts(bucket[k], Since(now, calls[k]), now)
    BY <1>2, <1>3, TickOK
  <2> QED
    BY <1>1, <2>1
<1>5. calls' \in [ClientKeys -> Seq(Call)]
  BY <1>1, <1>4
<1>6. ASSUME NEW k \in ClientKeys
      PROVE  /\ earlier'[k] \in Seq(Seq(Call))
             /\ \A i \in DOMAIN earlier'[k] : Accounted(earlier'[k][i], now)
  <2> DEFINE n == Len(earlier[k])
  <2>1. n \in Nat /\ DOMAIN earlier[k] = 1..n /\ \A i \in 1..n : earlier[k][i] \in Seq(Call)
    BY <1>2
  <2>2. earlier'[k] = [i \in 1..n |-> Since(now, earlier[k][i])]
    BY <1>1, <2>1
  <2> HIDE DEF n
  <2>3. ASSUME NEW i \in 1..n
        PROVE  Since(now, earlier[k][i]) \in Seq(Call) /\ Accounted(Since(now, earlier[k][i]), now)
    <3>1. PICK b \in Bucket \cup {NoRow} : Accounts(b, earlier[k][i], clock)
      BY <1>2, <2>1 DEF Accounted
    <3>2. Since(now, earlier[k][i]) \in Seq(Call) /\ Accounts(b, Since(now, earlier[k][i]), now)
      BY <1>2, <1>3, <2>1, <3>1, TickOK
    <3> QED
      BY <3>2 DEF Accounted
  <2>4. earlier'[k] \in [1..n -> Seq(Call)]
    BY <2>2, <2>3
  <2> QED
    BY <2>1, <2>2, <2>3, <2>4
<1>7. earlier' \in [ClientKeys -> Seq(Seq(Call))]
  BY <1>1, <1>6
<1> QED
  BY <1>1, <1>2, <1>4, <1>5, <1>6, <1>7 DEF LimiterInv, LimiterTyped

(* No call yet, or none since the process started.                         *)
LEMMA EmptyOK ==
  ASSUME NEW t \in Nat
  PROVE  Accounts(NoRow, <<>>, t)
BY DEF Accounts, Older, Fresh, Open

LEMMA LimiterStep ==
  ASSUME LimiterInv, [Next]_vars
  PROVE  LimiterInv'
<1>1. ASSUME clock' = clock, limit' \in Limits, bucket' = bucket, calls' = calls,
             earlier' = earlier
      PROVE  LimiterInv'
  BY <1>1 DEF LimiterInv, LimiterTyped
<1>2. limit \in Limits
  BY DEF LimiterInv, LimiterTyped
<1>3. ASSUME ClientCalls
      PROVE  LimiterInv'
  <2>1. PICK k \in ClientKeys :
          \/ Refuse(k) \/ ListModels(k) \/ RejectBody(k)
          \/ \E m \in Models : ChatCompletions(k, m) \/ GenerateContent(k, m) \/ CountTokens(k, m)
    BY <1>3 DEF ClientCalls
  <2>2. Admit(k) \/ (clock' = clock /\ limit' = limit /\ bucket' = bucket /\ calls' = calls
                      /\ earlier' = earlier)
    BY <2>1 DEF Refuse, ListModels, RejectBody, ChatCompletions, GenerateContent, CountTokens,
       AdmitUncounted
  <2> QED
    BY <1>1, <1>2, <2>2, AdmitOK
<1>4. ASSUME Administer
      PROVE  LimiterInv'
  BY <1>1, <1>2, <1>4 DEF Administer
<1>5. ASSUME SaveLimit
      PROVE  LimiterInv'
  BY <1>1, <1>5 DEF SaveLimit
<1>6. ASSUME Restart
      PROVE  LimiterInv'
  <2>1. /\ clock' = clock /\ limit' = limit
        /\ bucket' = [k \in ClientKeys |-> NoRow]
        /\ calls' = [k \in ClientKeys |-> <<>>]
        /\ earlier' = [k \in ClientKeys |-> Append(earlier[k], calls[k])]
    BY <1>6 DEF Restart
  <2>2. clock \in Nat /\ \A k \in ClientKeys : Accounts(bucket'[k], calls'[k], clock)
    BY <2>1, EmptyOK DEF LimiterInv, LimiterTyped
  <2>3. bucket' \in [ClientKeys -> Bucket \cup {NoRow}] /\ calls' \in [ClientKeys -> Seq(Call)]
    BY <2>1
  <2>4. ASSUME NEW k \in ClientKeys
        PROVE  /\ earlier'[k] \in Seq(Seq(Call))
               /\ \A i \in DOMAIN earlier'[k] : Accounted(earlier'[k][i], clock)
    <3> DEFINE n == Len(earlier[k])
               u == Append(earlier[k], calls[k])
    <3>1. earlier[k] \in Seq(Seq(Call)) /\ calls[k] \in Seq(Call)
      BY DEF LimiterInv, LimiterTyped
    <3>2. /\ u \in Seq(Seq(Call)) /\ n \in Nat
          /\ DOMAIN u = 1..n + 1 /\ DOMAIN earlier[k] = 1..n
          /\ u[n + 1] = calls[k] /\ \A i \in 1..n : u[i] = earlier[k][i]
      BY <3>1
    <3>3. earlier'[k] = u
      BY <2>1
    <3> HIDE DEF n, u
    <3>4. Accounted(calls[k], clock)
      BY DEF LimiterInv, LimiterTyped, Accounted
    <3>5. \A i \in 1..n : Accounted(u[i], clock)
      BY <3>2 DEF LimiterInv
    <3>6. \A i \in 1..n + 1 : i = n + 1 \/ i \in 1..n
      BY <3>2
    <3> QED
      BY <3>2, <3>3, <3>4, <3>5, <3>6
  <2>5. earlier' \in [ClientKeys -> Seq(Seq(Call))]
    BY <2>1, <2>4
  <2> QED
    BY <1>2, <2>1, <2>2, <2>3, <2>4, <2>5 DEF LimiterInv, LimiterTyped
<1>7. ASSUME UNCHANGED vars
      PROVE  LimiterInv'
  BY <1>1, <1>2, <1>7 DEF vars, gatewayVars
<1> QED
  BY <1>3, <1>4, <1>5, <1>6, <1>7, TicksOK DEF Next

LEMMA LimiterInit ==
  ASSUME Init
  PROVE  LimiterInv
<1>1. /\ clock = 0 /\ limit \in Limits
      /\ bucket = [k \in ClientKeys |-> NoRow]
      /\ calls = [k \in ClientKeys |-> <<>>]
      /\ earlier = [k \in ClientKeys |-> <<>>]
  BY DEF Init
<1>2. \A k \in ClientKeys : Accounts(bucket[k], calls[k], clock)
  BY <1>1, EmptyOK
<1>3. /\ bucket \in [ClientKeys -> Bucket \cup {NoRow}] /\ calls \in [ClientKeys -> Seq(Call)]
      /\ earlier \in [ClientKeys -> Seq(Seq(Call))]
      /\ \A k \in ClientKeys : DOMAIN earlier[k] = {}
  BY <1>1
<1> QED
  BY <1>1, <1>2, <1>3 DEF LimiterInv, LimiterTyped

LEMMA SpecLimiter == Spec => []LimiterInv
BY LimiterInit, LimiterStep, PTL DEF Spec

(* The calls that a bucket accounts for are less than twice their highest  *)
(* limit: those of the window before were one too few to fill it, and      *)
(* those of this one did not exceed its limit.                             *)
LEMMA LessThanTwice ==
  ASSUME NEW b \in Bucket \cup {NoRow}, NEW s \in Seq(Call), s # <<>>, NEW t \in Nat,
         Accounts(b, s, t)
  PROVE  Len(s) < 2 * Peak(s)
<1> DEFINE n == Len(s)
           fresh == Fresh(b, t)
           older == Older(b, s, t)
           peak == Peak(s)
<1>1. /\ n \in Nat /\ DOMAIN s = 1..n /\ n # 0
      /\ \A i \in DOMAIN s : s[i].limit \in Nat
  BY CallsTyped
<1>2. fresh \in Nat /\ fresh <= n /\ older = n - fresh
  BY BucketTyped DEF Accounts, Older
<1>3. \A i \in DOMAIN s : IF i <= older THEN s[i].limit > i ELSE s[i].limit >= i - older
  BY DEF Accounts
<1>4. peak \in Nat /\ \A i \in DOMAIN s : s[i].limit <= peak
  BY PeakIs
<1> HIDE DEF n, fresh, older, peak
<1>5. older # 0 => older < peak
  <2> SUFFICES ASSUME older # 0
               PROVE  older < peak
    OBVIOUS
  <2>1. older \in DOMAIN s /\ older \in Nat
    BY <1>1, <1>2
  <2>2. s[older].limit > older /\ s[older].limit <= peak /\ s[older].limit \in Nat
    BY <1>1, <1>3, <1>4, <2>1
  <2> QED
    BY <1>4, <2>1, <2>2
<1>6. fresh <= peak
  <2> SUFFICES ASSUME fresh # 0
               PROVE  fresh <= peak
    BY <1>2, <1>4
  <2>1. n \in DOMAIN s /\ ~(n <= older) /\ n - older = fresh
    <3>1. older \in Nat /\ older < n
      BY <1>1, <1>2
    <3> QED
      BY <1>1, <1>2, <3>1
  <2>2. s[n].limit >= n - older /\ s[n].limit <= peak /\ s[n].limit \in Nat
    BY <1>1, <1>3, <1>4, <2>1
  <2> QED
    BY <1>2, <1>4, <2>1, <2>2
<1>7. n < 2 * peak
  <2>1. CASE older = 0
    <3>1. n = fresh
      BY <1>1, <1>2, <2>1
    <3> QED
      BY <1>1, <1>4, <1>6, <3>1
  <2>2. CASE older # 0
    <3>1. n = older + fresh /\ older \in Nat
      BY <1>1, <1>2
    <3> QED
      BY <1>2, <1>4, <1>5, <1>6, <2>2, <3>1
  <2> QED
    BY <2>1, <2>2
<1> QED
  BY <1>7 DEF n, peak

(* A fixed window may let a key through almost twice its limit in some     *)
(* minute, across the end of a window, and no process ever more, whatever  *)
(* limits the administrator set meanwhile (clientKeyRateLimit.ts:20-29).   *)
(* What the process before a restart let through in the same minute comes  *)
(* on top, within the same bound of its own.                               *)
THEOREM LimitHolds == Spec => []LessThanTwiceTheLimit
<1>1. ASSUME LimiterInv
      PROVE  LessThanTwiceTheLimit
  <2> SUFFICES ASSUME NEW k \in ClientKeys, NEW past \in {calls[k]} \cup ToSet(earlier[k]),
                      past # <<>>
               PROVE  Len(past) < 2 * Peak(past)
    BY DEF LessThanTwiceTheLimit
  <2>1. /\ clock \in Nat
        /\ bucket[k] \in Bucket \cup {NoRow} /\ calls[k] \in Seq(Call)
        /\ earlier[k] \in Seq(Seq(Call))
    BY <1>1 DEF LimiterInv, LimiterTyped
  <2>2. CASE past = calls[k]
    BY <1>1, <2>1, <2>2, LessThanTwice DEF LimiterInv
  <2>3. CASE past \in ToSet(earlier[k])
    <3>1. PICK i \in DOMAIN earlier[k] : past = earlier[k][i]
      BY <2>3 DEF ToSet
    <3>2. past \in Seq(Call)
      BY <2>1, <3>1
    <3>3. PICK b \in Bucket \cup {NoRow} : Accounts(b, past, clock)
      BY <1>1, <3>1 DEF LimiterInv, Accounted
    <3> QED
      BY <2>1, <3>2, <3>3, LessThanTwice
  <2> QED
    BY <2>2, <2>3
<1> QED
  BY <1>1, SpecLimiter, PTL

(* A key is refused only if it used up the present limit within the last   *)
(* minute, in calls of this process, and a limit that was raised counts at *)
(* once (clientKeyRateLimit.ts:20-29).                                     *)
THEOREM RefusedFairly == Spec => []RefusedOnlyAtTheLimit
<1>1. Init => RefusedOnlyAtTheLimit
  BY DEF Init, RefusedOnlyAtTheLimit
<1>2. ASSUME LimiterInv, RefusedOnlyAtTheLimit, [Next]_vars
      PROVE  RefusedOnlyAtTheLimit'
  <2>1. ASSUME NEW k \in ClientKeys, Refuse(k)
        PROVE  RefusedOnlyAtTheLimit'
    <3>1. /\ reply'.key = k /\ calls' = calls /\ limit' = limit
          /\ limit # 0 /\ WindowOpen(k) /\ ~(bucket[k].count < limit)
      BY <2>1 DEF Refuse, Answer, Allows
    <3>2. bucket[k] \in Bucket \cup {NoRow} /\ calls[k] \in Seq(Call) /\ clock \in Nat /\ limit \in Nat
      BY <1>2, GatewayAssumption DEF LimiterInv, LimiterTyped
    <3>3. Open(bucket[k], clock) /\ Fresh(bucket[k], clock) = bucket[k].count
      BY <3>1 DEF WindowOpen, Open, Fresh
    <3>4. Fresh(bucket[k], clock) <= Len(calls[k])
      BY <1>2 DEF LimiterInv, Accounts
    <3>5. bucket[k].count \in Nat /\ Len(calls[k]) \in Nat
      <4>1. bucket[k].count \in Nat
        BY <3>2, <3>3, BucketTyped
      <4>2. Len(calls[k]) \in Nat
        BY <3>2
      <4> QED
        BY <4>1, <4>2
    <3>6. Len(calls[k]) >= limit
      BY <3>1, <3>2, <3>3, <3>4, <3>5
    <3> QED
      BY <3>1, <3>6 DEF RefusedOnlyAtTheLimit
  <2>2. ASSUME reply' = NoRow \/ reply'.status # "limited"
        PROVE  RefusedOnlyAtTheLimit'
    BY <2>2 DEF RefusedOnlyAtTheLimit
  <2>3. ASSUME ClientCalls
        PROVE  RefusedOnlyAtTheLimit'
    <3>1. PICK k \in ClientKeys :
            \/ Refuse(k) \/ ListModels(k) \/ RejectBody(k)
            \/ \E m \in Models : ChatCompletions(k, m) \/ GenerateContent(k, m) \/ CountTokens(k, m)
      BY <2>3 DEF ClientCalls
    <3>2. Refuse(k) \/ reply'.status # "limited"
      BY <3>1 DEF ListModels, RejectBody, ChatCompletions, GenerateContent, CountTokens, Decide, Answer
    <3> QED
      BY <2>1, <2>2, <3>2
  <2>4. ASSUME Administer \/ SaveLimit \/ Tick \/ Restart
        PROVE  reply' = NoRow
    BY <2>4 DEF Administer, SaveLimit, Tick, Restart
  <2>5. ASSUME UNCHANGED vars
        PROVE  RefusedOnlyAtTheLimit'
    BY <1>2, <2>5 DEF vars, gatewayVars, RefusedOnlyAtTheLimit
  <2> QED
    BY <1>2, <2>2, <2>3, <2>4, <2>5 DEF Next
<1> QED
  BY <1>1, <1>2, SpecLimiter, PTL DEF Spec

-------------------------------------------------------------------------------
(* What a client is answered has its type.                                 *)
ReplyTyped == reply \in Reply \cup {NoRow}

LEMMA AnswerTyped ==
  ASSUME NEW status \in {"listed", "routed", "limited", "bad_request", "forbidden",
                         "no_native_key"},
         NEW k \in ClientKeys, NEW m \in Models \cup {NoRow}, NEW tries \in SUBSET Creds,
         Answer(status, k, m, tries)
  PROVE  ReplyTyped'
BY DEF Answer, ReplyTyped, Reply

LEMMA DecisionTyped ==
  ASSUME stored \subseteq Creds, NEW k \in ClientKeys, NEW m \in Models, NEW plan,
         Decide(k, m, plan)
  PROVE  ReplyTyped'
<1>1. Capable(plan, m) \in SUBSET Creds /\ {} \in SUBSET Creds
  BY DEF Capable
<1> QED
  BY <1>1, AnswerTyped DEF Decide

LEMMA RepliesTyped ==
  ASSUME stored \subseteq Creds, ReplyTyped, [Next]_vars
  PROVE  ReplyTyped'
<1>1. {} \in SUBSET Creds /\ NoRow \in Models \cup {NoRow} /\ Models \subseteq Models \cup {NoRow}
  OBVIOUS
<1>2. CASE ClientCalls
  <2> PICK k \in ClientKeys :
        \/ Refuse(k) \/ ListModels(k) \/ RejectBody(k)
        \/ \E m \in Models : ChatCompletions(k, m) \/ GenerateContent(k, m) \/ CountTokens(k, m)
    BY <1>2 DEF ClientCalls
  <2>1. CASE Refuse(k) \/ ListModels(k) \/ RejectBody(k)
    BY <1>1, <2>1, AnswerTyped DEF Refuse, ListModels, RejectBody
  <2>2. ASSUME NEW m \in Models,
               ChatCompletions(k, m) \/ GenerateContent(k, m) \/ CountTokens(k, m)
        PROVE  ReplyTyped'
    BY <1>1, <2>2, AnswerTyped, DecisionTyped DEF ChatCompletions, GenerateContent, CountTokens
  <2> QED
    BY <2>1, <2>2
<1>3. CASE Administer \/ SaveLimit \/ Tick \/ Restart
  BY <1>3 DEF Administer, SaveLimit, Tick, Restart, ReplyTyped
<1>4. CASE UNCHANGED vars
  BY <1>4 DEF vars, gatewayVars, ReplyTyped
<1> QED
  BY <1>2, <1>3, <1>4 DEF Next

(* The surfaces keep the types of what they count and answer, beside every *)
(* edit of the administrator: an open window has counted the request that  *)
(* opened it, and a reply names only known credentials                     *)
(* (clientKeyRateLimit.ts:20-29, gateway.routes.ts:52).                    *)
THEOREM GatewayKeepsItsTypes == Spec => []TypeOK
<1>1. Init => ColumnsTyped /\ ReplyTyped
  BY InitTyped DEF Init, ReplyTyped
<1>2. AdminInv /\ ColumnsTyped /\ ReplyTyped /\ [Next]_vars => ColumnsTyped' /\ ReplyTyped'
  <2>1. [Next]_vars => [AdminNext]_adminVars
    BY AdminSteps DEF vars
  <2> QED
    BY <2>1, NextTyped, RepliesTyped DEF AdminInv, IInv
<1>3. AdminInv /\ LimiterInv /\ ColumnsTyped /\ ReplyTyped => TypeOK
  BY TypesOfTheTables DEF AdminInv, LimiterInv, LimiterTyped, ReplyTyped, TypeOK
<1> QED
  BY <1>1, <1>2, <1>3, SpecAdmin, SpecLimiter, PTL DEF Spec
===============================================================================

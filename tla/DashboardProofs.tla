---------------------------- MODULE DashboardProofs ----------------------------
(***************************************************************************)
(* Theorems about the parts of MCDashboard.  AdminSession: how long a      *)
(* session lasts, that it does not come back and what signs a page out,    *)
(* for any number of sessions, requests and passwords and any time to      *)
(* live.  Views and Forms: what a view shows, and what the forms keep and  *)
(* overwrite, for any questions, values and number of requests under way.  *)
(***************************************************************************)
EXTENDS AdminSession, Views, Forms, SequenceTheorems, TLAPS

-------------------------------------------------------------------------------
(* What a step does to the server's tables, whichever action it is: it is  *)
(* one of four handlers, a tick, or a step of the page only.               *)

EndsOne(r) ==
  /\ expiry' = [s \in Sids |-> IF s = r.cookie THEN None ELSE expiry[s]]
  /\ UNCHANGED <<issued, lastUse>>

ServerStep ==
  \/ UNCHANGED <<now, serverVars>>
  \/ now' = now + 1 /\ UNCHANGED serverVars
  \/ UNCHANGED now /\ \E r \in pending : Authorize(r) \/ EndsOne(r)
  \/ UNCHANGED now /\ \E s \in Sids : CreateSession(s)

(* Every action of SessionNext is such a step.                             *)
LEMMA StepsOfTheServer ==
  ASSUME [SessionNext]_sessionVars
  PROVE  ServerStep
<1>1. CASE UNCHANGED sessionVars
  BY <1>1 DEF sessionVars, ServerStep
<1>2. CASE OpenPage \/ Use \/ TellStatus \/ StatusTold
  BY <1>2 DEF OpenPage, Use, TellStatus, StatusTold, ServerStep
<1>3. CASE \E p \in Passwords : Submit(p)
  BY <1>3 DEF Submit, ServerStep
<1>4. ASSUME NEW r \in pending, Handle(r)
      PROVE  ServerStep
  <2>1. UNCHANGED now
    BY <1>4 DEF Handle
  <2>2. CASE HandleAuthorized(r)
    BY <2>1, <2>2 DEF HandleAuthorized, ServerStep
  <2>3. CASE HandleSetup(r)
    BY <2>1, <2>3 DEF HandleSetup, Provision, ServerStep, serverVars
  <2>4. CASE HandleLogin(r)
    BY <2>1, <2>4 DEF HandleLogin, ServerStep, serverVars
  <2>5. CASE HandleLogout(r)
    BY <2>1, <2>5 DEF HandleLogout, EndsOne, ServerStep
  <2> QED
    BY <1>4, <2>2, <2>3, <2>4, <2>5 DEF Handle
<1>5. CASE \E r \in pending : Fail(r) \/ Deliver(r)
  BY <1>5 DEF Fail, Deliver, ServerStep
<1>6. CASE \E s \in Sids : AnotherSignsIn(s)
  BY <1>6 DEF AnotherSignsIn, Provision, ServerStep
<1>7. CASE TimePasses
  BY <1>7 DEF TimePasses, ServerStep
<1> QED
  BY <1>1, <1>2, <1>3, <1>4, <1>5, <1>6, <1>7 DEF SessionNext

-------------------------------------------------------------------------------
(* SessionsSlide is not inductive by itself: that a session which is not   *)
(* renewed ends within its time to live needs that it was used before now. *)

TablesTyped ==
  /\ now \in Nat
  /\ expiry \in [Sids -> Nat \cup {None}]
  /\ lastUse \in [Sids -> Nat]

UsedBefore == \A s \in Sids : lastUse[s] <= now

SlideInv == TablesTyped /\ UsedBefore /\ SessionsSlide

LEMMA SlideInit == SessionInit => SlideInv
BY SessionAssumption
   DEF SessionInit, SlideInv, TablesTyped, UsedBefore, SessionsSlide, Stored

(* A request that is let through renews its session in the second half.    *)
LEMMA AuthorizeSlides ==
  ASSUME SlideInv, NEW r, Authorize(r), UNCHANGED now
  PROVE  SlideInv'
<1> USE SessionAssumption
<1>1. None \notin Nat
  OBVIOUS
<1>2. CASE ~Admitted(r)
  BY <1>1, <1>2 DEF Authorize, SlideInv, TablesTyped, UsedBefore, SessionsSlide, Stored
<1>3. CASE Admitted(r) /\ r.cookie \notin Sids
  <2>1. expiry' = expiry /\ lastUse' = lastUse
    <3>1. /\ expiry' = [expiry EXCEPT ![r.cookie] = Renewed(r.cookie)]
          /\ lastUse' = [lastUse EXCEPT ![r.cookie] = now]
      BY <1>3 DEF Authorize
    <3>2. expiry \in [Sids -> Nat \cup {None}] /\ lastUse \in [Sids -> Nat]
      BY DEF SlideInv, TablesTyped
    <3>3. expiry' = expiry
      BY <1>3, <3>1, <3>2
    <3>4. lastUse' = lastUse
      BY <1>3, <3>1, <3>2
    <3> QED
      BY <3>3, <3>4
  <2> QED
    BY <2>1 DEF SlideInv, TablesTyped, UsedBefore, SessionsSlide, Stored
<1>4. CASE Admitted(r) /\ r.cookie \in Sids
  <2> DEFINE c == r.cookie
  <2>1. expiry[c] # None /\ expiry[c] \in Nat /\ expiry[c] >= now
    BY <1>4 DEF Admitted, Valid, Live, Stored, SlideInv, TablesTyped
  <2>2. /\ expiry' = [expiry EXCEPT ![c] = Renewed(c)]
        /\ lastUse' = [lastUse EXCEPT ![c] = now]
    BY <1>4 DEF Authorize
  <2>3. lastUse[c] \in Nat /\ now \in Nat /\ lastUse[c] <= now /\ expiry[c] <= lastUse[c] + TTL
    <3>1. Stored(c)
      BY <1>4, <2>1 DEF Sids, Stored
    <3> HIDE DEF c
    <3>2. c \in Sids
      BY <1>4 DEF c
    <3> QED
      BY <2>1, <3>1, <3>2 DEF SlideInv, TablesTyped, UsedBefore, SessionsSlide, Stored
  <2>4. Renewed(c) \in Nat /\ 2 * Renewed(c) >= 2 * now + TTL /\ Renewed(c) <= now + TTL
    BY <2>1, <2>3 DEF Renewed
  <2>5. TablesTyped' /\ UsedBefore'
    BY <1>4, <2>2, <2>4 DEF SlideInv, TablesTyped, UsedBefore
  <2>6. ASSUME NEW s \in Sids, Stored(s)'
        PROVE  2 * expiry'[s] >= 2 * lastUse'[s] + TTL /\ expiry'[s] <= lastUse'[s] + TTL
    <3>1. CASE s = c
      BY <3>1, <2>2, <2>4 DEF SlideInv, TablesTyped
    <3>2. CASE s # c
      <4>1. expiry'[s] = expiry[s] /\ lastUse'[s] = lastUse[s]
        BY <3>2, <2>2 DEF SlideInv, TablesTyped
      <4> QED
        BY <4>1, <2>6 DEF SlideInv, SessionsSlide, Stored
    <3> QED
      BY <3>1, <3>2
  <2> QED
    BY <2>5, <2>6 DEF SlideInv, SessionsSlide
<1> QED
  BY <1>2, <1>3, <1>4

LEMMA CreateSlides ==
  ASSUME SlideInv, NEW s \in Sids, CreateSession(s), UNCHANGED now
  PROVE  SlideInv'
<1> USE SessionAssumption
<1>1. now + TTL \in Nat /\ now \in Nat
  BY DEF SlideInv, TablesTyped
<1>2. /\ expiry' = [t \in Sids |->
           IF t = s THEN now + TTL
           ELSE IF Stored(t) /\ expiry[t] <= now THEN None ELSE expiry[t]]
      /\ lastUse' = [lastUse EXCEPT ![s] = now]
  BY DEF CreateSession
<1>3. TablesTyped' /\ UsedBefore'
  BY <1>1, <1>2 DEF SlideInv, TablesTyped, UsedBefore
<1>4. ASSUME NEW t \in Sids, Stored(t)'
      PROVE  2 * expiry'[t] >= 2 * lastUse'[t] + TTL /\ expiry'[t] <= lastUse'[t] + TTL
  <2>1. CASE t = s
    BY <2>1, <1>1, <1>2 DEF SlideInv, TablesTyped
  <2>2. CASE t # s
    <3>1. lastUse'[t] = lastUse[t] /\ expiry'[t] = expiry[t] /\ expiry[t] # None /\ t # None
      BY <2>2, <1>2, <1>4 DEF SlideInv, TablesTyped, Stored
    <3> QED
      BY <3>1 DEF SlideInv, SessionsSlide, Stored
  <2> QED
    BY <2>1, <2>2
<1> QED
  BY <1>3, <1>4 DEF SlideInv, SessionsSlide

LEMMA StepSlides ==
  ASSUME SlideInv, [SessionNext]_sessionVars
  PROVE  SlideInv'
<1>1. ServerStep
  BY StepsOfTheServer
<1>2. CASE UNCHANGED <<now, serverVars>>
  BY <1>2 DEF serverVars, SlideInv, TablesTyped, UsedBefore, SessionsSlide, Stored
<1>3. CASE now' = now + 1 /\ UNCHANGED serverVars
  BY <1>3 DEF serverVars, SlideInv, TablesTyped, UsedBefore, SessionsSlide, Stored
<1>4. CASE UNCHANGED now /\ \E r \in pending : Authorize(r)
  BY <1>4, AuthorizeSlides
<1>5. CASE UNCHANGED now /\ \E r \in pending : EndsOne(r)
  BY <1>5, SessionAssumption
     DEF EndsOne, SlideInv, TablesTyped, UsedBefore, SessionsSlide, Stored
<1>6. CASE UNCHANGED now /\ \E s \in Sids : CreateSession(s)
  BY <1>6, CreateSlides
<1> QED
  BY <1>1, <1>2, <1>3, <1>4, <1>5, <1>6 DEF ServerStep

(* AdminSessionService.validateSession keeps its promise for every time to *)
(* live: a stored session ends between half of it and all of it after the  *)
(* last request that was let through.                                      *)
THEOREM SessionsLastAsPromised == SessionSpec => []SessionsSlide
<1>1. SlideInv /\ UNCHANGED sessionVars => SlideInv'
  BY StepSlides
<1>2. SlideInv => SessionsSlide
  BY DEF SlideInv
<1> QED
  BY <1>1, <1>2, SlideInit, StepSlides, PTL DEF SessionSpec

-------------------------------------------------------------------------------
(* Sessions that have ended.                                               *)

Counted == TablesTyped /\ issued \in 0..MaxSids

LEMMA CountedInit == SessionInit => Counted
BY SessionAssumption DEF SessionInit, Counted, TablesTyped

(* One more request, and the sessions so far that have ended stay so.      *)
LEMMA StepEnds ==
  ASSUME SlideInv, Counted, [SessionNext]_sessionVars
  PROVE  Counted' /\ \A s \in 1..issued : ~Live(s) => ~Live(s)'
<1> USE SessionAssumption
<1> SUFFICES issued' \in 0..MaxSids /\ \A s \in Sids : s <= issued /\ ~Live(s) => ~Live(s)'
  BY StepSlides DEF SlideInv, Counted, Sids
<1>1. ServerStep
  BY StepsOfTheServer
<1>2. CASE UNCHANGED <<now, serverVars>>
  BY <1>2 DEF serverVars, Live, Stored, Counted
<1>3. CASE now' = now + 1 /\ UNCHANGED serverVars
  BY <1>3 DEF serverVars, Live, Stored, Counted, TablesTyped
<1>4. CASE UNCHANGED now /\ \E r \in pending : Authorize(r)
  <2> PICK r \in pending : Authorize(r)
    BY <1>4
  <2>1. CASE Admitted(r)
    <3>1. Live(r.cookie)
      BY <2>1 DEF Admitted, Valid
    <3> QED
      BY <1>4, <2>1, <3>1 DEF Authorize, Live, Stored, Counted, TablesTyped
  <2>2. CASE ~Admitted(r)
    BY <1>4, <2>2 DEF Authorize, Live, Stored, Counted, TablesTyped
  <2> QED
    BY <2>1, <2>2
<1>5. CASE UNCHANGED now /\ \E r \in pending : EndsOne(r)
  BY <1>5 DEF EndsOne, Live, Stored, Counted, TablesTyped
<1>6. CASE UNCHANGED now /\ \E t \in Sids : CreateSession(t)
  <2> PICK t \in Sids : CreateSession(t)
    BY <1>6
  <2>1. t = issued + 1 /\ issued' = t
    BY DEF CreateSession
  <2> QED
    BY <1>6, <2>1 DEF CreateSession, Live, Stored, Counted, TablesTyped, Sids
<1> QED
  BY <1>1, <1>2, <1>3, <1>4, <1>5, <1>6 DEF ServerStep

(* requireAdmin never revives a session: one that was signed out, deleted  *)
(* or has expired is refused to every later request.                       *)
THEOREM EndedForGood == SessionSpec => EndedSessionsStayEnded
<1>1. SlideInv /\ Counted /\ [SessionNext]_sessionVars =>
        SlideInv' /\ Counted' /\ [\A s \in 1..issued : ~Live(s) => ~Live(s)']_sessionVars
  BY StepEnds, StepSlides
<1> QED
  BY <1>1, SlideInit, CountedInit, PTL DEF SessionSpec, EndedSessionsStayEnded

-------------------------------------------------------------------------------
(* A page that is signed in.  What ends its session for the page is the    *)
(* answer to a request, so the invariant is about the requests under way.  *)

Requests ==
  [op : Ops, cookie : Sids \cup {None}, csrf : Sids \cup {None}, typed : Passwords \cup {None},
   reply : Replies, given : Sids \cup {None}]

Known(s) == s = None \/ s \in 1..issued

(* Apart from a wrong password, a request is refused only if its session   *)
(* has ended.                                                              *)
RequestOK(r) ==
  /\ r \in Requests
  /\ Known(r.cookie) /\ Known(r.given)
  /\ r.op = "change" => r.csrf = r.cookie
  /\ r.reply = "401" => r.op = "login" \/ ~Live(r.cookie)

(* The page asks only once whether it is still signed in, before any       *)
(* sign-in that it waits for or had.                                       *)
AskedBefore(r, q) ==
  r.op = "probe" =>
    /\ q.op = "probe" => q = r
    /\ q.op \in {"setup", "login"} /\ q.reply = "200" => q.given # r.cookie

SignedInSince == authed => \A r \in pending : r.op = "probe" => r.cookie # jar

PageInv ==
  /\ jar \in Sids \cup {None} /\ Known(jar)
  /\ \A r \in pending : RequestOK(r)
  /\ \A r, q \in pending : AskedBefore(r, q)
  /\ SignedInSince

LEMMA RequestTyped ==
  ASSUME NEW op \in Ops, NEW cookie \in Sids \cup {None}, NEW csrf \in Sids \cup {None},
         NEW typed_ \in Passwords \cup {None}
  PROVE  LET r == Request(op, cookie, csrf, typed_) IN
         /\ r \in Requests
         /\ r.op = op /\ r.cookie = cookie /\ r.csrf = csrf
         /\ r.reply = "waiting" /\ r.given = None
BY DEF Request, Requests, Replies

With(r, reply, given) == [r EXCEPT !.reply = reply, !.given = given]

LEMMA AnswerTyped ==
  ASSUME NEW r \in Requests, NEW reply \in Replies, NEW given \in Sids \cup {None},
         NEW x, x = With(r, reply, given)
  PROVE  /\ x \in Requests
         /\ x.op = r.op /\ x.cookie = r.cookie /\ x.csrf = r.csrf
         /\ x.reply = reply /\ x.given = given
BY DEF Requests, With

LEMMA FieldsTyped ==
  ASSUME NEW r \in Requests
  PROVE  /\ r.op \in Ops /\ r.cookie \in Sids \cup {None} /\ r.csrf \in Sids \cup {None}
         /\ r.typed \in Passwords \cup {None} /\ r.given \in Sids \cup {None}
BY DEF Requests

(* Sessions are numbered upwards, and one that has ended stays so: what    *)
(* is known of a request stays true until it is answered.                  *)
LEMMA IssuedGrows ==
  ASSUME Counted, [SessionNext]_sessionVars
  PROVE  issued \in Nat /\ issued' \in Nat /\ issued <= issued'
<1>1. ServerStep
  BY StepsOfTheServer
<1> QED
  BY <1>1, SessionAssumption DEF ServerStep, serverVars, Authorize, EndsOne, CreateSession, Counted, Sids

LEMMA KnownStays ==
  ASSUME Counted, [SessionNext]_sessionVars, NEW s, Known(s)
  PROVE  Known(s)'
BY IssuedGrows DEF Known

LEMMA RequestStays ==
  ASSUME SlideInv, Counted, [SessionNext]_sessionVars, NEW r, RequestOK(r)
  PROVE  RequestOK(r)'
<1>1. ~Live(r.cookie) => ~Live(r.cookie)'
  <2>1. CASE r.cookie = None
    BY <2>1 DEF Live, Stored
  <2>2. CASE r.cookie \in 1..issued
    BY <2>2, StepEnds
  <2> QED
    BY <2>1, <2>2 DEF RequestOK, Known
<1>2. Known(r.cookie)' /\ Known(r.given)'
  BY KnownStays DEF RequestOK
<1> QED
  BY <1>1, <1>2 DEF RequestOK

(* A request is sent or its answer delivered.                              *)
LEMMA SentOrDelivered ==
  ASSUME SlideInv, Counted, PageInv, [SessionNext]_sessionVars,
         NEW x, RequestOK(x)', x.op # "probe", x.reply = "waiting",
         pending' \subseteq pending \cup {x},
         jar' \in Sids \cup {None}, Known(jar'), SignedInSince'
  PROVE  PageInv'
<1>1. \A r \in pending' : RequestOK(r)'
  BY RequestStays DEF PageInv
<1>2. \A r, q \in pending' : AskedBefore(r, q)
  BY DEF PageInv, AskedBefore
<1>3. Known(jar)'
  BY KnownStays DEF Known
<1> QED
  BY <1>1, <1>2, <1>3 DEF PageInv, AskedBefore

(* A request is answered.                                                  *)
LEMMA Answered ==
  ASSUME SlideInv, Counted, PageInv, [SessionNext]_sessionVars,
         NEW r \in pending, NEW x, RequestOK(x)', x.op = r.op, x.cookie = r.cookie,
         x.reply = "200" /\ x.op \in {"setup", "login"} => x.given = issued + 1,
         pending' = (pending \ {r}) \cup {x}, UNCHANGED <<jar, authed>>
  PROVE  PageInv'
<1>1. \A q \in pending' : RequestOK(q)'
  BY RequestStays DEF PageInv
<1>2. issued \in Nat
  BY IssuedGrows
<1>3. ASSUME NEW p \in pending', NEW q \in pending'
      PROVE  AskedBefore(p, q)
  <2>1. CASE p # x /\ q # x
    BY <2>1 DEF PageInv
  <2>2. CASE p = x /\ q = x
    <3>1. x.op = "probe" => ~(x.op \in {"setup", "login"})
      OBVIOUS
    <3> QED
      BY <2>2, <3>1 DEF AskedBefore
  <2>3. CASE p = x /\ q # x
    <3>1. q \in pending /\ q # r /\ AskedBefore(r, q)
      BY <2>3 DEF PageInv
    <3> QED
      BY <2>3, <3>1 DEF AskedBefore
  <2>4. CASE p # x /\ q = x
    <3>1. p \in pending /\ p # r /\ AskedBefore(p, r) /\ Known(p.cookie)
      BY <2>4 DEF PageInv, RequestOK
    <3>2. p.cookie # issued + 1
      BY <1>2, <3>1, SessionAssumption DEF Known
    <3> QED
      BY <2>4, <3>1, <3>2 DEF AskedBefore
  <2> QED
    BY <2>1, <2>2, <2>3, <2>4
<1>4. SignedInSince'
  BY DEF PageInv, SignedInSince
<1>5. Known(jar)'
  BY KnownStays DEF PageInv, Known
<1> QED
  BY <1>1, <1>3, <1>4, <1>5 DEF PageInv, AskedBefore

LEMMA PageInit == SessionInit => PageInv
<1> SUFFICES ASSUME SessionInit
             PROVE  PageInv
  OBVIOUS
<1> DEFINE r == Read("probe", None)
<1>1. /\ r \in Requests /\ r.op = "probe" /\ r.cookie = None /\ r.given = None /\ r.reply = "waiting"
  BY RequestTyped DEF Read, Ops
<1> HIDE DEF r
<1>2. pending = {r} /\ jar = None /\ authed = FALSE
  BY DEF SessionInit, r
<1> QED
  BY <1>1, <1>2 DEF PageInv, RequestOK, AskedBefore, SignedInSince, Known

(* The requests that a page sends carry the cookie that it holds, and,     *)
(* over plain http, the token of the same session.                         *)
LEMMA RequestsOfThePage ==
  ASSUME SlideInv, Counted, [SessionNext]_sessionVars, Secure = FALSE,
         NEW op \in Ops, NEW cookie \in Sids \cup {None}, NEW typed_ \in Passwords \cup {None},
         NEW csrf \in {cookie, None}, op = "change" => csrf = cookie, Known(cookie),
         NEW x, x = Request(op, cookie, csrf, typed_)
  PROVE  RequestOK(x)'
<1>1. /\ x \in Requests /\ x.op = op /\ x.cookie = cookie /\ x.csrf = csrf
      /\ x.reply = "waiting" /\ x.given = None
  BY RequestTyped
<1>2. RequestOK(x)
  BY <1>1 DEF RequestOK, Known
<1> QED
  BY <1>1, <1>2, RequestStays

LEMMA HandledOK ==
  ASSUME SlideInv, Counted, PageInv, [SessionNext]_sessionVars, Secure = FALSE,
         NEW r \in pending, Handle(r) \/ Fail(r)
  PROVE  PageInv'
<1>1. RequestOK(r) /\ r \in Requests
  BY DEF PageInv, RequestOK
<1>2. UNCHANGED <<jar, authed>>
  BY DEF Handle, Fail
<1>3. ASSUME NEW reply \in Replies, NEW given \in Sids \cup {None}, Answer(r, reply, given),
             Known(given)',
             reply = "200" /\ r.op \in {"setup", "login"} => given = issued + 1,
             reply = "401" => r.op = "login" \/ ~Live(r.cookie)'
      PROVE  PageInv'
  <2> PICK x : x = With(r, reply, given)
    OBVIOUS
  <2>1. /\ x \in Requests /\ x.op = r.op /\ x.cookie = r.cookie /\ x.csrf = r.csrf
        /\ x.reply = reply /\ x.given = given
    BY <1>1, AnswerTyped
  <2>2. pending' = (pending \ {r}) \cup {x}
    BY <1>3 DEF Answer, With
  <2>3. RequestOK(x)'
    BY <1>1, <1>3, <2>1, RequestStays DEF RequestOK
  <2> QED
    BY <1>2, <1>3, <2>1, <2>2, <2>3, Answered
<1>4. Known(None)' /\ {"200", "401", "409", "failed"} \subseteq Replies
  BY DEF Known, Replies
<1>5. CASE Fail(r)
  <2>1. Answer(r, "failed", None)
    BY <1>5 DEF Fail
  <2> QED
    BY <1>3, <1>4, <2>1
<1>6. CASE Handle(r) /\ HandleAuthorized(r)
  <2>1. /\ r.op \in {"probe", "reload", "change"}
        /\ Answer(r, IF Admitted(r) THEN "200" ELSE "401", None)
    BY <1>6 DEF HandleAuthorized
  <2>2. ~Admitted(r) => ~Live(r.cookie)
    BY <1>1 DEF Admitted, Valid, RequestOK, Live, Stored
  <2>3. ~Admitted(r) => ~Live(r.cookie)'
    <3>1. ASSUME ~Live(r.cookie)
          PROVE  ~Live(r.cookie)'
      <4>1. CASE r.cookie = None
        BY <4>1 DEF Live, Stored
      <4>2. CASE r.cookie \in 1..issued
        BY <3>1, <4>2, StepEnds
      <4> QED
        BY <1>1, <4>1, <4>2 DEF RequestOK, Known
    <3> QED
      BY <2>2, <3>1
  <2>4. CASE Admitted(r)
    <3>1. Answer(r, "200", None)
      BY <2>1, <2>4
    <3> QED
      BY <1>3, <1>4, <2>1, <3>1
  <2>5. CASE ~Admitted(r)
    <3>1. Answer(r, "401", None)
      BY <2>1, <2>5
    <3> QED
      BY <1>3, <1>4, <2>3, <2>5, <3>1
  <2> QED
    BY <2>4, <2>5
<1>7. ASSUME NEW s \in Sids, CreateSession(s), Answer(r, "200", s)
      PROVE  PageInv'
  <2>1. s = issued + 1 /\ issued' = s
    BY <1>7 DEF CreateSession
  <2>2. Known(s)'
    BY <2>1 DEF Known, Sids
  <2> QED
    BY <1>3, <1>4, <1>7, <2>1, <2>2
<1>8. CASE Handle(r) /\ HandleSetup(r)
  <2>1. (\E s \in Sids : CreateSession(s) /\ Answer(r, "200", s)) \/ Answer(r, "409", None)
    BY <1>8 DEF HandleSetup
  <2> QED
    BY <1>3, <1>4, <1>7, <2>1
<1>9. CASE Handle(r) /\ HandleLogin(r)
  <2>1. /\ r.op = "login"
        /\ (\E s \in Sids : CreateSession(s) /\ Answer(r, "200", s)) \/ Answer(r, "401", None)
    BY <1>9 DEF HandleLogin
  <2> QED
    BY <1>3, <1>4, <1>7, <2>1
<1>10. CASE Handle(r) /\ HandleLogout(r)
  <2>1. r.op = "logout" /\ Answer(r, "200", None)
    BY <1>10 DEF HandleLogout
  <2> QED
    BY <1>3, <1>4, <2>1
<1> QED
  BY <1>5, <1>6, <1>8, <1>9, <1>10 DEF Handle

LEMMA DeliveredOK ==
  ASSUME SlideInv, Counted, PageInv, [SessionNext]_sessionVars, Secure = FALSE,
         NEW r \in pending, Deliver(r)
  PROVE  PageInv'
<1>1. RequestOK(r) /\ r \in Requests
  BY DEF PageInv, RequestOK
<1>2. /\ r.op \in Ops /\ r.cookie \in Sids \cup {None} /\ r.typed \in Passwords \cup {None}
      /\ r.given \in Sids \cup {None} /\ Known(r.given) /\ None \in Passwords \cup {None}
  BY <1>1, FieldsTyped DEF RequestOK
<1>3. ASSUME NEW cookie \in Sids \cup {None}, Known(cookie)
      PROVE  \E ask : /\ ask = Read("reload", cookie)
                      /\ RequestOK(ask)' /\ ask.op = "reload" /\ ask.reply = "waiting"
  <2> PICK ask : ask = Read("reload", cookie)
    OBVIOUS
  <2>1. "reload" \in Ops /\ None \in {cookie, None} /\ "reload" # "change"
    BY DEF Ops
  <2>2. ask = Request("reload", cookie, None, None)
    BY DEF Read
  <2>3. RequestOK(ask)'
    BY <1>2, <1>3, <2>1, <2>2, RequestsOfThePage
  <2>4. ask.op = "reload" /\ ask.reply = "waiting"
    BY <2>2 DEF Request
  <2> QED
    BY <2>3, <2>4
<1>4. PICK held \in Sids \cup {None} : held = jar /\ Known(held)
  BY DEF PageInv
<1>5. Known(None) /\ None \in Sids \cup {None}
  BY DEF Known
<1>6. ASSUME pending' = pending \ {r}, jar' \in {None, jar}, ~authed' \/ (authed' = authed /\ jar' = jar)
      PROVE  PageInv'
  <2>1. SignedInSince'
    BY <1>6 DEF PageInv, SignedInSince
  <2>2. PICK ask : RequestOK(ask)' /\ ask.op = "reload" /\ ask.reply = "waiting"
    BY <1>3, <1>4
  <2> QED
    BY <1>4, <1>5, <1>6, <2>1, <2>2, SentOrDelivered
<1>7. CASE DeliverRefusal(r)
  BY <1>6, <1>7 DEF DeliverRefusal, SignedOut
<1>8. CASE DeliverProbe(r)
  <2>1. jar' = jar /\ r.op = "probe"
    BY <1>8 DEF DeliverProbe
  <2>2. CASE SignedOut(pending \ {r})
    BY <1>6, <2>1, <2>2 DEF SignedOut
  <2>3. CASE SignedIn(pending \ {r}, jar)
    <3> PICK ask : /\ ask = Read("reload", held)
                   /\ RequestOK(ask)' /\ ask.op = "reload" /\ ask.reply = "waiting"
      BY <1>3, <1>4
    <3>1. pending' \subseteq (pending \ {r}) \cup {ask}
      BY <1>4, <2>3 DEF SignedIn
    <3>2. \A q \in pending \ {r} : q.op # "probe"
      BY <2>1 DEF PageInv, AskedBefore
    <3>4. SignedInSince'
      BY <3>1, <3>2 DEF SignedInSince
    <3> QED
      BY <1>4, <2>1, <3>1, <3>4, SentOrDelivered
  <2> QED
    BY <1>8, <2>2, <2>3 DEF DeliverProbe
<1>9. CASE DeliverUse(r)
  BY <1>6, <1>9 DEF DeliverUse
<1>10. ASSUME r.op \in {"setup", "login"}, r.reply = "200"
       PROVE  \A q \in pending : q.op = "probe" => q.cookie # r.given
  BY <1>10 DEF PageInv, AskedBefore
<1>11. CASE DeliverSetup(r)
  <2>1. r.op = "setup" /\ authed' = authed
    BY <1>11 DEF DeliverSetup
  <2>2. CASE r.reply = "200"
    <3> PICK x : x = Request("login", r.given, r.given, r.typed)
      OBVIOUS
    <3>1. jar' = r.given /\ pending' = (pending \ {r}) \cup {x}
      BY <1>11, <2>2 DEF DeliverSetup
    <3>2. RequestOK(x)' /\ x.op = "login" /\ x.reply = "waiting"
      <4>1. "login" \in Ops /\ "login" # "change" /\ r.given \in {r.given, None}
        BY DEF Ops
      <4>2. RequestOK(x)'
        BY <1>2, <4>1, RequestsOfThePage
      <4>3. x.op = "login" /\ x.reply = "waiting"
        BY DEF Request
      <4> QED
        BY <4>2, <4>3
    <3>3. SignedInSince'
      BY <1>10, <2>1, <2>2, <3>1, <3>2 DEF SignedInSince
    <3> QED
      BY <1>2, <3>1, <3>2, <3>3, SentOrDelivered
  <2>3. CASE r.reply # "200"
    BY <1>6, <1>11, <2>3 DEF DeliverSetup
  <2> QED
    BY <2>2, <2>3
<1>12. CASE DeliverLogin(r)
  <2>1. r.op = "login"
    BY <1>12 DEF DeliverLogin
  <2>2. CASE r.reply = "200"
    <3>2. PICK ask : /\ ask = Read("reload", r.given)
                     /\ RequestOK(ask)' /\ ask.op = "reload" /\ ask.reply = "waiting"
      BY <1>2, <1>3
    <3>1. jar' = r.given /\ pending' \subseteq (pending \ {r}) \cup {ask}
      BY <1>12, <2>2, <3>2 DEF DeliverLogin, SignedIn
    <3>3. SignedInSince'
      BY <1>10, <2>1, <2>2, <3>1, <3>2 DEF SignedInSince
    <3> QED
      BY <1>2, <3>1, <3>2, <3>3, SentOrDelivered
  <2>3. CASE r.reply # "200"
    BY <1>6, <1>12, <2>3 DEF DeliverLogin
  <2> QED
    BY <2>2, <2>3
<1>13. CASE DeliverLogout(r)
  BY <1>6, <1>13 DEF DeliverLogout, SignedOut
<1> QED
  BY <1>7, <1>8, <1>9, <1>11, <1>12, <1>13 DEF Deliver

LEMMA PageStep ==
  ASSUME SlideInv, Counted, PageInv, [SessionNext]_sessionVars, Secure = FALSE
  PROVE  PageInv'
<1> PICK held \in Sids \cup {None} : held = jar
  BY DEF PageInv
<1>1. held \in Sids \cup {None} /\ Known(held) /\ None \in Passwords \cup {None}
  BY DEF PageInv
<1>2. /\ {"probe", "reload", "change", "logout", "setup", "login"} \subseteq Ops
      /\ held \in {held, None} /\ None \in {held, None}
  BY DEF Ops
<1>3. ASSUME NEW op \in {"reload", "change", "logout", "setup", "login"},
             NEW p \in Passwords \cup {None}, NEW csrf \in {held, None}, op = "change" => csrf = held,
             pending' \subseteq pending \cup {Request(op, held, csrf, p)}, UNCHANGED <<jar, authed>>
      PROVE  PageInv'
  <2> PICK x : x = Request(op, held, csrf, p)
    OBVIOUS
  <2>1. RequestOK(x)'
    BY <1>1, <1>2, <1>3, RequestsOfThePage
  <2>2. pending' \subseteq pending \cup {x}
    BY <1>3
  <2>3. x.op # "probe" /\ x.reply = "waiting"
    BY <1>3 DEF Request
  <2>4. SignedInSince'
    BY <1>3, <2>2, <2>3 DEF PageInv, SignedInSince
  <2> QED
    BY <1>1, <1>3, <2>1, <2>2, <2>3, <2>4, SentOrDelivered
<1>4. ASSUME UNCHANGED <<jar, authed, pending>>
      PROVE  PageInv'
  BY <1>1, <1>2, <1>3, <1>4
<1>5. CASE OpenPage
  <2> PICK x : x = Request("probe", held, None, None)
    OBVIOUS
  <2>1. RequestOK(x)'
    BY <1>1, <1>2, RequestsOfThePage
  <2>4. x.op = "probe"
    BY DEF Request
  <2>2. pending' = {x} /\ jar' = jar /\ authed' = FALSE
    BY <1>5 DEF OpenPage, Probe, Read
  <2>3. Known(held)'
    BY <1>1, KnownStays
  <2> QED
    BY <1>1, <2>1, <2>2, <2>3, <2>4 DEF PageInv, AskedBefore, SignedInSince
<1>6. CASE Use
  <2>1. CsrfHeader = held /\ UNCHANGED <<jar, authed>>
    BY <1>6 DEF CsrfHeader, Use
  <2>2. \E op \in {"reload", "change", "logout"}, csrf \in {held, None} :
          (op = "change" => csrf = held) /\ Send(Request(op, held, csrf, None))
    BY <1>6, <2>1 DEF Use, Read
  <2> QED
    BY <1>1, <1>3, <2>1, <2>2 DEF Send
<1>7. ASSUME NEW p \in Passwords, Submit(p)
      PROVE  PageInv'
  BY <1>1, <1>3, <1>7 DEF Submit, Send, CsrfHeader
<1>8. CASE TellStatus \/ StatusTold \/ TimePasses \/ \E s \in Sids : AnotherSignsIn(s)
  BY <1>4, <1>8 DEF TellStatus, StatusTold, TimePasses, AnotherSignsIn, pageVars
<1>9. CASE UNCHANGED sessionVars
  BY <1>4, <1>9 DEF sessionVars, pageVars
<1> QED
  BY <1>5, <1>6, <1>7, <1>8, <1>9, HandledOK, DeliveredOK DEF SessionNext

(* What signs a page out.                                                  *)
LEMMA SignOutIsDue ==
  ASSUME PageInv, SessionNext, authed, ~authed'
  PROVE  \/ OpenPage
         \/ \E r \in pending :
              /\ Deliver(r)
              /\ r.op \in {"logout", "login"} \/ r.cookie # jar \/ ~Live(jar)
<1>1. OpenPage \/ \E r \in pending : Deliver(r)
  BY DEF SessionNext, Use, TellStatus, StatusTold, Submit, Handle, Fail, AnotherSignsIn, TimePasses,
     pageVars
<1>2. ASSUME NEW r \in pending, Deliver(r)
      PROVE  r.op \in {"logout", "login"} \/ r.cookie # jar \/ ~Live(jar)
  <2>1. DeliverRefusal(r) \/ DeliverProbe(r) \/ DeliverLogout(r)
    BY <1>2 DEF Deliver, DeliverUse, DeliverSetup, DeliverLogin, SignedIn
  <2>2. CASE DeliverRefusal(r)
    BY <2>2 DEF DeliverRefusal, PageInv, RequestOK
  <2>3. CASE DeliverProbe(r)
    BY <2>3 DEF DeliverProbe, PageInv, SignedInSince
  <2>4. CASE DeliverLogout(r)
    BY <2>4 DEF DeliverLogout
  <2> QED
    BY <2>1, <2>2, <2>3, <2>4
<1> QED
  BY <1>1, <1>2

(* useAuth.tsx and client.ts, over plain http: a page is signed out only   *)
(* by its user, by the end of the session it holds, or by the answer to a  *)
(* request that it sent under another cookie.  The last is no comfort to   *)
(* the user, whose session is live; what the theorem excludes is a lost or *)
(* failed answer, and a refusal of the live session itself.  Over https    *)
(* the token of a change is not found, and the first change is refused.    *)
THEOREM PageStaysSignedIn == SessionSpec /\ Secure = FALSE => SignedInStaysSignedIn
<1> DEFINE Due ==
             authed /\ ~authed' =>
               \/ OpenPage
               \/ \E r \in pending :
                    /\ Deliver(r)
                    /\ r.op \in {"logout", "login"} \/ r.cookie # jar \/ ~Live(jar)
<1>1. SlideInv /\ Counted /\ PageInv /\ Secure = FALSE /\ [SessionNext]_sessionVars =>
        SlideInv' /\ Counted' /\ PageInv' /\ [Due]_sessionVars
  BY StepSlides, StepEnds, PageStep, SignOutIsDue
<1>2. (Secure = FALSE)' <=> Secure = FALSE
  OBVIOUS
<1> QED
  BY <1>1, <1>2, SlideInit, CountedInit, PageInit, PTL DEF SessionSpec, SignedInStaysSignedIn

-------------------------------------------------------------------------------
(* The views.  That the last answer is on the screen needs that its        *)
(* request is known among those under way.                                 *)

Numbered ==
  /\ latest \in Nat
  /\ \A w \in waiting : w.seq \in 1..latest
  /\ \A w, x \in waiting : w.seq = x.seq => w = x

LatestIsAsked == \A w \in waiting : w.seq = latest => w.question = asked

(* Nothing older is under way if the last request was sent alone.          *)
OneAtATime == view # "logs" /\ ~overlapped => \A w \in waiting : w.seq = latest

ErrorsShown ==
  /\ view # "models" => error = FALSE
  /\ view # "logs" /\ ~overlapped /\ error => failed

ViewInv ==
  /\ loading \in BOOLEAN /\ overlapped \in BOOLEAN /\ failed \in BOOLEAN /\ error \in BOOLEAN
  /\ Numbered /\ LatestIsAsked /\ OneAtATime /\ ErrorsShown
  /\ ViewsShowTheLatestAnswer

LEMMA ViewInit == ViewsInit => ViewInv
<1> SUFFICES ASSUME ViewsInit
             PROVE  ViewInv
  OBVIOUS
<1>1. /\ latest = 0 /\ waiting = {}
      /\ error = FALSE /\ overlapped = FALSE /\ failed = FALSE
      /\ loading = (view = "logs")
  BY DEF ViewsInit
<1>2. Numbered /\ LatestIsAsked /\ OneAtATime /\ ErrorsShown
  BY <1>1 DEF Numbered, LatestIsAsked, OneAtATime, ErrorsShown
<1>3. ViewsShowTheLatestAnswer
  <2>1. ~(latest > 0)
    BY <1>1
  <2> QED
    BY <2>1 DEF ViewsShowTheLatestAnswer
<1>4. loading \in BOOLEAN
  BY <1>1, Zenon
<1> QED
  BY <1>1, <1>2, <1>3, <1>4 DEF ViewInv

(* A view asks a question, or two, of which the last is what its filter    *)
(* says by then, unless it is the usage matrix.                            *)
LEMMA LoadOK ==
  ASSUME ViewInv, NEW questions, NEW n \in Nat \ {0}, Len(questions) = n,
         DOMAIN questions = 1..n, Load(questions), view' = view,
         view # "usage" => questions[n] = Current'
  PROVE  ViewInv'
<1>1. latest \in Nat /\ latest' = latest + n
  BY DEF ViewInv, Numbered, Load
<1>2. waiting' = waiting \cup {[seq |-> latest + i, question |-> questions[i]] : i \in 1..n}
  BY DEF Load
<1>3. ASSUME NEW w \in waiting'
      PROVE  \/ w \in waiting /\ w.seq \in 1..latest
             \/ \E i \in 1..n : w = [seq |-> latest + i, question |-> questions[i]]
                                /\ w.seq = latest + i /\ w.question = questions[i]
  BY <1>2 DEF ViewInv, Numbered
<1>4. Numbered'
  <2>1. latest' \in Nat /\ \A w \in waiting' : w.seq \in 1..latest'
    BY <1>1, <1>3
  <2>2. ASSUME NEW w \in waiting', NEW x \in waiting', w.seq = x.seq
        PROVE  w = x
    <3>1. CASE w \in waiting /\ w.seq \in 1..latest
      <4>1. x \in waiting
        BY <1>1, <1>3, <2>2, <3>1
      <4> QED
        BY <2>2, <3>1, <4>1 DEF ViewInv, Numbered
    <3>2. CASE x \in waiting /\ x.seq \in 1..latest
      <4>1. w \in waiting
        BY <1>1, <1>3, <2>2, <3>2
      <4> QED
        BY <2>2, <3>2, <4>1 DEF ViewInv, Numbered
    <3>3. ASSUME NEW i \in 1..n, NEW j \in 1..n,
                 w = [seq |-> latest + i, question |-> questions[i]], w.seq = latest + i,
                 x = [seq |-> latest + j, question |-> questions[j]], x.seq = latest + j
          PROVE  w = x
      <4>1. i = j
        BY <1>1, <2>2, <3>3
      <4> QED
        BY <3>3, <4>1
    <3> QED
      BY <1>3, <3>1, <3>2, <3>3
  <2> QED
    BY <2>1, <2>2 DEF Numbered
<1>5. LatestIsAsked'
  <2> SUFFICES ASSUME NEW w \in waiting', w.seq = latest'
               PROVE  w.question = asked'
    BY DEF LatestIsAsked
  <2>1. PICK i \in 1..n : w.seq = latest + i /\ w.question = questions[i]
    BY <1>1, <1>3
  <2>2. i = n
    BY <1>1, <2>1
  <2> QED
    BY <2>1, <2>2 DEF Load
<1>6. /\ overlapped' = (waiting # {} \/ n > 1) /\ failed' = FALSE
      /\ loading' = (view # "usage") /\ error' = FALSE
  BY DEF Load
<1>7. OneAtATime'
  <2> SUFFICES ASSUME ~overlapped', NEW w \in waiting'
               PROVE  w.seq = latest'
    BY DEF OneAtATime
  <2>1. ~(waiting # {} \/ n > 1)
    BY <1>6, Zenon
  <2>2. PICK i \in 1..n : w.seq = latest + i
    BY <1>3, <2>1
  <2>3. n = 1
    BY <2>1
  <2> QED
    BY <1>1, <2>2, <2>3
<1>8. \E w \in waiting' : w.seq = latest'
  <2>1. [seq |-> latest + n, question |-> questions[n]] \in waiting'
    BY <1>2
  <2> QED
    BY <1>1, <2>1
<1>9. view' # "usage" => asked' = Current'
  BY DEF Load
<1> QED
  BY <1>4, <1>5, <1>6, <1>7, <1>8, <1>9 DEF ViewInv, ErrorsShown, ViewsShowTheLatestAnswer

(* A request is answered, or fails.                                        *)
LEMMA ArriveOK ==
  ASSUME ViewInv, NEW w \in waiting, Arrive(w)
  PROVE  ViewInv'
<1>1. /\ waiting' = waiting \ {w}
      /\ shown' = IF Superseded(w) THEN shown ELSE w.question
      /\ loading' = (loading /\ Superseded(w))
      /\ UNCHANGED <<view, choice, text, page, latest, error, asked, overlapped, failed>>
  BY DEF Arrive
<1>2. Current' = Current
  BY <1>1 DEF Current, Question
<1>3. w.seq \in 1..latest /\ (w.seq = latest => \A x \in waiting' : x.seq # latest)
  BY <1>1 DEF ViewInv, Numbered
<1>4. Numbered' /\ LatestIsAsked' /\ OneAtATime' /\ ErrorsShown'
  BY <1>1, <1>2 DEF ViewInv, Numbered, LatestIsAsked, OneAtATime, ErrorsShown
<1>5. CASE w.seq = latest
  <2>1. shown' = asked' /\ loading' = FALSE
    BY <1>1, <1>5 DEF Superseded, ViewInv, LatestIsAsked
  <2>2. view' = "logs" \/ ~overlapped' => (~failed' => error' = FALSE)
    BY <1>1 DEF ViewInv, ErrorsShown
  <2> QED
    BY <1>1, <1>2, <1>3, <1>4, <1>5, <2>1, <2>2 DEF ViewInv, ViewsShowTheLatestAnswer
<1>6. CASE w.seq # latest
  <2>1. view = "logs" \/ ~overlapped => view = "logs" /\ Superseded(w)
    BY <1>6 DEF ViewInv, OneAtATime, Superseded
  <2>2. (\A x \in waiting : x.seq # latest) <=> (\A x \in waiting' : x.seq # latest)
    BY <1>1, <1>6
  <2> QED
    BY <1>1, <1>2, <1>4, <2>1, <2>2 DEF ViewInv, ViewsShowTheLatestAnswer
<1> QED
  BY <1>5, <1>6

LEMMA BreakOK ==
  ASSUME ViewInv, NEW w \in waiting, Break(w)
  PROVE  ViewInv'
<1>1. /\ waiting' = waiting \ {w}
      /\ loading' = (loading /\ Superseded(w))
      /\ error' = (error \/ view = "models")
      /\ failed' = (failed \/ w.seq = latest)
      /\ UNCHANGED <<view, choice, text, page, latest, shown, asked, overlapped>>
  BY DEF Break
<1>2. Current' = Current
  BY <1>1 DEF Current, Question
<1>3. w.seq \in 1..latest /\ (w.seq = latest => \A x \in waiting' : x.seq # latest)
  BY <1>1 DEF ViewInv, Numbered
<1>4. Numbered' /\ LatestIsAsked' /\ OneAtATime' /\ ErrorsShown'
  BY <1>1, <1>2 DEF ViewInv, Numbered, LatestIsAsked, OneAtATime, ErrorsShown
<1>5. CASE w.seq = latest
  <2>1. failed' = TRUE /\ loading' = FALSE
    BY <1>1, <1>5 DEF Superseded, ViewInv
  <2> QED
    BY <1>1, <1>2, <1>3, <1>4, <1>5, <2>1 DEF ViewInv, ViewsShowTheLatestAnswer
<1>6. CASE w.seq # latest
  <2>1. view = "logs" \/ ~overlapped => view = "logs" /\ Superseded(w)
    BY <1>6 DEF ViewInv, OneAtATime, Superseded
  <2>2. (\A x \in waiting : x.seq # latest) <=> (\A x \in waiting' : x.seq # latest)
    BY <1>1, <1>6
  <2> QED
    BY <1>1, <1>2, <1>4, <1>6, <2>1, <2>2 DEF ViewInv, ViewsShowTheLatestAnswer
<1> QED
  BY <1>5, <1>6

LEMMA ViewStep ==
  ASSUME ViewInv, [ViewsNext]_viewVars
  PROVE  ViewInv'
<1>1. ASSUME NEW q, Load(<<q>>), view # "usage" => q = Current', view' = view
      PROVE  ViewInv'
  <2>1. PICK qs : qs = <<q>>
    OBVIOUS
  <2>2. Len(qs) = 1 /\ DOMAIN qs = 1..1 /\ Load(qs) /\ (view # "usage" => qs[1] = Current')
    BY <1>1, <2>1
  <2>3. 1 \in Nat \ {0} /\ view' = view
    BY <1>1
  <2> QED
    BY <2>2, <2>3, LoadOK
<1>2. ASSUME NEW p, NEW q, Load(<<p>> \o <<q>>), q = Current', view' = view
      PROVE  ViewInv'
  <2>1. PICK qs : qs = <<p>> \o <<q>>
    OBVIOUS
  <2>2. <<p>> \in Seq({p, q}) /\ <<q>> \in Seq({p, q}) /\ Len(<<p>>) = 1 /\ Len(<<q>>) = 1
    OBVIOUS
  <2>3. qs \in Seq({p, q}) /\ Len(qs) = 2 /\ qs[2] = <<q>>[1]
    BY <2>1, <2>2, ConcatProperties
  <2>4. DOMAIN qs = 1..2 /\ qs[2] = Current' /\ Load(qs)
    BY <1>2, <2>1, <2>3
  <2> QED
    BY <1>2, <2>3, <2>4, LoadOK
<1>3. ASSUME Quietly, UNCHANGED <<view, choice, text, page, shown>>
      PROVE  ViewInv'
  BY <1>3 DEF Quietly, ViewInv, Numbered, LatestIsAsked, OneAtATime, ErrorsShown,
     ViewsShowTheLatestAnswer, Current, Question
<1>4. CASE Mount
  BY <1>1, <1>4 DEF Mount, Current, Question
<1>5. ASSUME NEW c \in Choices, Choose(c)
      PROVE  ViewInv'
  BY <1>1, <1>5 DEF Choose, Current, Question
<1>6. ASSUME NEW t \in Texts, Type(t)
      PROVE  ViewInv'
  <2>1. CASE page # 0
    BY <1>1, <1>6, <2>1 DEF Type, Current, Question
  <2>2. CASE page = 0
    BY <1>3, <1>6, <2>2 DEF Type
  <2> QED
    BY <2>1, <2>2
<1>7. CASE Settle
  <2>1. CASE view = "logs" /\ typed = text
    BY <1>3, <1>7, <2>1 DEF Settle
  <2>2. CASE ~(view = "logs" /\ typed = text)
    <3> DEFINE p == Question(choice, typed, page)
               q == Question(choice, typed, 0)
    <3>1. q = Current' /\ view' = view
      BY <1>7, <2>2 DEF Settle, Current, Question
    <3>2. Load(IF page = 0 THEN <<q>> ELSE <<p>> \o <<q>>)
      <4>1. <<>> \o <<q>> = <<q>>
        OBVIOUS
      <4> QED
        BY <1>7, <2>2, <4>1 DEF Settle
    <3> HIDE DEF p, q
    <3> QED
      BY <1>1, <1>2, <3>1, <3>2
  <2> QED
    BY <2>1, <2>2
<1>8. ASSUME NEW p \in Pages, Turn(p)
      PROVE  ViewInv'
  BY <1>1, <1>8 DEF Turn, Current, Question
<1>9. CASE AskAgain
  BY <1>1, <1>9 DEF AskAgain, Current, Question
<1>10. CASE ClearCooldowns \/ \E c \in Choices : ClearingFails(c)
  BY <1>3, <1>10 DEF ClearCooldowns, ClearingFails, Refreshed
<1>11. ASSUME NEW c \in Choices, RefreshAll(c)
       PROVE  ViewInv'
  BY <1>1, <1>11 DEF RefreshAll, Refreshed
<1>12. CASE \E w \in waiting : Arrive(w) \/ Break(w)
  BY <1>12, ArriveOK, BreakOK
<1>13. CASE UNCHANGED viewVars
  BY <1>3, <1>13 DEF viewVars, Quietly
<1> QED
  BY <1>4, <1>5, <1>6, <1>7, <1>8, <1>9, <1>10, <1>11, <1>12, <1>13 DEF ViewsNext

(* LogsPage.tsx, by its request number: whatever the order in which the    *)
(* answers arrive, the log comes to show the answer to its last question,  *)
(* which is what its filter says, and says that it is loading for just as  *)
(* long.  The model list and the usage matrix, which have no such number,  *)
(* do if the last request was not sent while another was under way; the    *)
(* last question of the matrix may then be that of a refresh, for days     *)
(* that are no longer chosen.                                              *)
THEOREM LatestAnswerStays == ViewsSpec => []ViewsShowTheLatestAnswer
<1>1. ViewInv => ViewsShowTheLatestAnswer
  BY DEF ViewInv
<1> QED
  BY <1>1, ViewInit, ViewStep, PTL DEF ViewsSpec

-------------------------------------------------------------------------------
(* The forms.  What one of them saves was filled in after the page's own   *)
(* last save unless the page knew of one under way, which takes three      *)
(* facts: of the state that the page reads, of the open form, and of the   *)
(* saves under way.                                                        *)

Saving ==
  [no : Nat, kind : Kinds, value : SUBSET Values, reply : {Waiting, "200"}, at : Nat,
   cleanedAt : Nat, behind : BOOLEAN]

Loading == [no : Nat, answer : State \cup {Waiting}]

FormsTyped ==
  /\ kinds \subseteq Kinds
  /\ "settings" \in kinds => kinds = {"settings"}
  /\ stored \in [Kinds -> [value : SUBSET Values, rev : Nat, mine : BOOLEAN]]
  /\ count \in Nat /\ sent \in Nat /\ opened \in Nat
  /\ state \in State
  /\ loads \subseteq Loading
  /\ form \in Form \cup {NoForm}
  /\ saves \subseteq Saving
  /\ muddled \in BOOLEAN

(* The page's own work of this kind was stored by this time.               *)
Upto(at, k) == stored[k].mine => stored[k].rev <= at

(* Only the kinds of the scene are saved by the page.                      *)
Own ==
  /\ \A k \in Kinds : stored[k].mine => k \in kinds
  /\ form # NoForm => form.kind \in kinds
  /\ \A s \in saves : s.kind \in kinds

(* The selection of the credential since this time.                        *)
Selected(at, value) == stored["credential"].rev <= at => value \subseteq stored["credential"].value

Reads(answer) == answer.at <= count /\ Selected(answer.at, answer.of["credential"])

Ages ==
  /\ \A k \in Kinds : stored[k].rev <= count
  /\ Reads(state)
  /\ \A l \in loads : l.answer # Waiting => Reads(l.answer)
  /\ \A s \in saves : s.kind = "group" /\ s.reply = Waiting =>
       s.cleanedAt <= count /\ Selected(s.cleanedAt, s.value)

(* With nothing under way, the state has the page's own work.              *)
StateIsFresh ==
  ~muddled =>
    /\ \A l, m \in loads : l = m
    /\ saves = {} => \A k \in Kinds \ {"settings"} :
         /\ loads = {} => Upto(state.at, k)
         /\ \A l \in loads : l.answer # Waiting => Upto(l.answer.at, k)

(* A form that is not behind has at most its own save under way.           *)
FormIsFresh ==
  form # NoForm =>
    /\ form.safe => saves = {}
    /\ ~form.behind =>
         /\ \A s \in saves : s.no = form.no /\ s.kind = form.kind
         /\ ~form.busy => saves = {}
         /\ saves = {} => Upto(form.at, form.kind)

SavesAreFresh ==
  \A s \in saves : ~s.behind =>
    /\ s.reply = Waiting => saves = {s}
    /\ Upto(s.at, s.kind)
    /\ s.reply = Waiting /\ s.kind = "group" => Upto(s.cleanedAt, "credential")

FormsInv == FormsTyped /\ Own /\ Ages /\ StateIsFresh /\ FormIsFresh /\ SavesAreFresh

(* What a step writes into the records.                                    *)
Marked(s) == [s EXCEPT !.behind = TRUE]

Handled(s, at) ==
  [s EXCEPT !.reply = "200", !.at = at, !.cleanedAt = 0, !.behind = FALSE,
            !.value = IF s.kind = "settings" THEN @ ELSE {}]

Filled(f, value, safe) == [f EXCEPT !.value = value, !.safe = safe]

Busied(f) == [f EXCEPT !.busy = TRUE, !.safe = FALSE]

TakenOver(f, s, behind) ==
  [f EXCEPT !.value = s.value, !.at = s.at, !.behind = behind, !.busy = FALSE, !.safe = FALSE]

Failing(f, safe) == [f EXCEPT !.busy = FALSE, !.behind = TRUE, !.safe = safe]

LEMMA SavingFields ==
  ASSUME NEW s \in Saving
  PROVE  /\ s.no \in Nat /\ s.kind \in Kinds /\ s.value \in SUBSET Values /\ s.at \in Nat
         /\ s.reply \in {Waiting, "200"} /\ s.cleanedAt \in Nat /\ s.behind \in BOOLEAN
BY DEF Saving

LEMMA MarkedIs ==
  ASSUME NEW s \in Saving, NEW x, x = Marked(s)
  PROVE  /\ x \in Saving /\ x.behind = TRUE
         /\ x.no = s.no /\ x.kind = s.kind /\ x.value = s.value /\ x.reply = s.reply
         /\ x.at = s.at /\ x.cleanedAt = s.cleanedAt
BY DEF Saving, Marked

LEMMA HandledIs ==
  ASSUME NEW s \in Saving, NEW at, at \in Nat, NEW x, x = Handled(s, at)
  PROVE  /\ x \in Saving /\ x.behind = FALSE /\ x.reply = "200"
         /\ x.no = s.no /\ x.kind = s.kind /\ x.at = at
BY DEF Saving, Handled

LEMMA FormFields ==
  ASSUME NEW f \in Form
  PROVE  /\ f.no \in Nat /\ f.kind \in Kinds /\ f.value \in SUBSET Values /\ f.at \in Nat
         /\ f.behind \in BOOLEAN /\ f.busy \in BOOLEAN /\ f.safe \in BOOLEAN
BY DEF Form

LEMMA FilledIs ==
  ASSUME NEW f \in Form, NEW value \in SUBSET Values, NEW safe \in BOOLEAN,
         NEW x, x = Filled(f, value, safe)
  PROVE  /\ x \in Form /\ x.no = f.no /\ x.kind = f.kind /\ x.at = f.at
         /\ x.behind = f.behind /\ x.busy = f.busy /\ x.safe = safe
BY DEF Form, Filled

LEMMA BusiedIs ==
  ASSUME NEW f \in Form, NEW x, x = Busied(f)
  PROVE  /\ x \in Form /\ x.no = f.no /\ x.kind = f.kind /\ x.at = f.at
         /\ x.behind = f.behind /\ x.busy = TRUE /\ x.safe = FALSE
BY DEF Form, Busied

LEMMA FailingIs ==
  ASSUME NEW f \in Form, NEW safe \in BOOLEAN, NEW x, x = Failing(f, safe)
  PROVE  /\ x \in Form /\ x.no = f.no /\ x.kind = f.kind
         /\ x.behind = TRUE /\ x.busy = FALSE /\ x.safe = safe
BY DEF Form, Failing

(* A save is stored, the page's or another administrator's.                *)
LEMMA WriteIs ==
  ASSUME FormsTyped, NEW kind \in Kinds, NEW value \in SUBSET Values, NEW mine \in BOOLEAN,
         Write(kind, value, mine)
  PROVE  /\ count' = count + 1
         /\ stored' \in [Kinds -> [value : SUBSET Values, rev : Nat, mine : BOOLEAN]]
         /\ stored'[kind].value = value /\ stored'[kind].rev = count' /\ stored'[kind].mine = mine
         /\ \A k \in Kinds \ {kind} : stored'[k] = stored[k]
<1>1. /\ count \in Nat /\ count' = count + 1
      /\ stored \in [Kinds -> [value : SUBSET Values, rev : Nat, mine : BOOLEAN]]
  BY DEF FormsTyped, Write
<1>2. PICK new : new = [value |-> value, rev |-> count', mine |-> mine]
  OBVIOUS
<1>3. /\ new \in [value : SUBSET Values, rev : Nat, mine : BOOLEAN]
      /\ new.value = value /\ new.rev = count' /\ new.mine = mine
  BY <1>1, <1>2
<1>4. stored' = [stored EXCEPT ![kind] = new]
  BY <1>2 DEF Write
<1> HIDE <1>2
<1> QED
  BY <1>1, <1>3, <1>4

LEMMA StoredFields ==
  ASSUME FormsTyped, NEW k \in Kinds
  PROVE  /\ stored[k].value \in SUBSET Values /\ stored[k].rev \in Nat /\ stored[k].mine \in BOOLEAN
         /\ count \in Nat
BY DEF FormsTyped

LEMMA StateFields ==
  ASSUME NEW answer \in State
  PROVE  answer.at \in Nat /\ \A k \in Kinds : answer.of[k] \in SUBSET Values
BY DEF State

LEMMA SnapshotIs ==
  ASSUME FormsTyped
  PROVE  /\ Snapshot \in State /\ Snapshot.at = count /\ Snapshot # Waiting
         /\ \A k \in Kinds : Snapshot.of[k] = stored[k].value
<1>1. \A k \in Kinds : stored[k].value \in SUBSET Values /\ count \in Nat
  BY StoredFields
<1>2. "credential" \in Kinds
  BY DEF Kinds
<1> QED
  BY <1>1, <1>2, FormsAssumption DEF Snapshot, State

LEMMA FormsStarts == FormsInit => FormsInv
<1> SUFFICES ASSUME FormsInit
             PROVE  FormsInv
  OBVIOUS
<1>1. /\ kinds \in {{"group", "credential"}, {"key"}, {"settings"}}
      /\ stored = [k \in Kinds |-> [value |-> Values, rev |-> 0, mine |-> FALSE]]
      /\ count = 0 /\ state = Snapshot /\ loads = {} /\ sent = 0
      /\ form = NoForm /\ opened = 0 /\ saves = {} /\ muddled = FALSE
  BY DEF FormsInit, FormsStart
<1>2. \A k \in Kinds : stored[k].value = Values /\ stored[k].rev = 0 /\ stored[k].mine = FALSE
  BY <1>1
<1>3. stored \in [Kinds -> [value : SUBSET Values, rev : Nat, mine : BOOLEAN]]
  BY <1>1
<1>4. "credential" \in Kinds
  BY DEF Kinds
<1>5. /\ Snapshot \in State /\ Snapshot.at = count
      /\ Snapshot.of["credential"] = stored["credential"].value
  BY <1>1, <1>2, <1>4 DEF Snapshot, State
<1>6. FormsTyped
  BY <1>1, <1>3, <1>5 DEF FormsTyped, Kinds
<1>7. Own /\ Ages
  BY <1>1, <1>2, <1>4, <1>5 DEF Own, Ages, Reads, Selected
<1>8. StateIsFresh /\ FormIsFresh /\ SavesAreFresh
  BY <1>1, <1>2 DEF StateIsFresh, FormIsFresh, SavesAreFresh, Upto
<1> QED
  BY <1>6, <1>7, <1>8 DEF FormsInv

(* A reload is sent, handled, answered or lost.                            *)
LEMMA ReloadFresh ==
  ASSUME FormsInv, Reload, saves' \subseteq saves, UNCHANGED <<stored, state>>
  PROVE  /\ StateIsFresh'
         /\ loads' \subseteq Loading /\ sent' \in Nat /\ muddled' \in BOOLEAN
         /\ \A l \in loads' : l \in loads \/ l.answer = Waiting
<1> PICK new : new = [no |-> sent', answer |-> Waiting]
  OBVIOUS
<1>1. sent' \in Nat /\ loads' = loads \cup {new} /\ muddled' = (loads # {})
  BY DEF Reload, FormsInv, FormsTyped
<1>2. new \in Loading /\ new.answer = Waiting
  BY <1>1 DEF Loading
<1>3. StateIsFresh'
  <2> SUFFICES ASSUME ~muddled'
               PROVE  /\ \A l, m \in loads' : l = m
                      /\ saves' = {} => \A k \in Kinds \ {"settings"} :
                           /\ loads' = {} => Upto(state.at, k)'
                           /\ \A l \in loads' : l.answer # Waiting => Upto(l.answer.at, k)'
    BY DEF StateIsFresh
  <2>1. ~(loads # {})
    BY <1>1, Zenon
  <2>2. loads' = {new}
    BY <1>1, <2>1
  <2> QED
    BY <1>2, <2>2
<1>4. muddled' \in BOOLEAN
  BY <1>1, Zenon
<1> QED
  BY <1>1, <1>2, <1>3, <1>4 DEF FormsInv, FormsTyped

LEMMA RefreshOK ==
  ASSUME FormsInv, Refresh
  PROVE  FormsInv'
<1>1. Reload /\ UNCHANGED <<kinds, stored, count, state, form, opened, saves>>
  BY DEF Refresh
<1>2. /\ StateIsFresh'
      /\ loads' \subseteq Loading /\ sent' \in Nat /\ muddled' \in BOOLEAN
      /\ \A l \in loads' : l \in loads \/ l.answer = Waiting
  BY <1>1, ReloadFresh
<1>3. FormsTyped'
  BY <1>1, <1>2 DEF FormsInv, FormsTyped
<1>4. Own' /\ Ages'
  BY <1>1, <1>2 DEF FormsInv, Own, Ages, Reads, Selected
<1>5. FormIsFresh' /\ SavesAreFresh'
  BY <1>1 DEF FormsInv, FormIsFresh, SavesAreFresh, Upto
<1> QED
  BY <1>2, <1>3, <1>4, <1>5 DEF FormsInv

Answering(l, answer) == [l EXCEPT !.answer = answer]

LEMMA AnsweringIs ==
  ASSUME NEW l \in Loading, NEW answer \in State, NEW x, x = Answering(l, answer)
  PROVE  x \in Loading /\ x.answer = answer
BY DEF Loading, Answering

LEMMA HandleLoadOK ==
  ASSUME FormsInv, NEW l \in loads, HandleLoad(l)
  PROVE  FormsInv'
<1> PICK x : x = Answering(l, Snapshot)
  OBVIOUS
<1>1. /\ loads' = (loads \ {l}) \cup {x}
      /\ UNCHANGED <<kinds, stored, count, state, sent, form, opened, saves, muddled>>
  BY DEF HandleLoad, Answering
<1>2. l \in Loading /\ Snapshot \in State /\ Snapshot.at = count
      /\ \A k \in Kinds : Snapshot.of[k] = stored[k].value
  BY SnapshotIs DEF FormsInv, FormsTyped
<1>3. x \in Loading /\ x.answer = Snapshot
  BY <1>2, AnsweringIs
<1>4. x.answer.at = count /\ x.answer.of["credential"] = stored["credential"].value
  BY <1>2, <1>3 DEF Kinds
<1>5. \A k \in Kinds : stored[k].rev <= count /\ stored[k].rev \in Nat /\ count \in Nat
  BY StoredFields DEF FormsInv, Ages
<1> HIDE <1>2
<1>6. FormsTyped'
  BY <1>1, <1>3 DEF FormsInv, FormsTyped
<1>7. Own' /\ Ages'
  <2>4. Reads(x.answer)
    BY <1>4, <1>5 DEF Reads, Selected, Kinds
  <2>1. Reads(x.answer)'
    BY <1>1, <2>4 DEF Reads, Selected
  <2>2. \A m \in loads : m.answer # Waiting => Reads(m.answer)'
    BY <1>1 DEF FormsInv, Ages, Reads, Selected
  <2>3. \A m \in loads' : m.answer # Waiting => Reads(m.answer)'
    BY <1>1, <2>1, <2>2
  <2> QED
    BY <1>1, <2>3 DEF FormsInv, Own, Ages, Reads, Selected
<1>8. StateIsFresh'
  BY <1>1, <1>4, <1>5 DEF FormsInv, StateIsFresh, Upto
<1>9. FormIsFresh' /\ SavesAreFresh'
  BY <1>1 DEF FormsInv, FormIsFresh, SavesAreFresh, Upto
<1> QED
  BY <1>6, <1>7, <1>8, <1>9 DEF FormsInv

LEMMA DeliverLoadOK ==
  ASSUME FormsInv, NEW l \in loads, DeliverLoad(l)
  PROVE  FormsInv'
<1>1. /\ l.answer # Waiting /\ loads' = loads \ {l} /\ state' = l.answer /\ form' = form
      /\ UNCHANGED <<kinds, stored, count, sent, opened, saves, muddled>>
  BY DEF DeliverLoad, FormAfterLoad
<1>2. l \in Loading /\ l.answer \in State
  BY <1>1 DEF FormsInv, FormsTyped, Loading
<1>3. FormsTyped'
  BY <1>1, <1>2 DEF FormsInv, FormsTyped
<1>4. Own' /\ Ages'
  BY <1>1 DEF FormsInv, Own, Ages, Reads, Selected
<1>5. StateIsFresh'
  BY <1>1 DEF FormsInv, StateIsFresh, Upto
<1>6. FormIsFresh' /\ SavesAreFresh'
  BY <1>1 DEF FormsInv, FormIsFresh, SavesAreFresh, Upto
<1> QED
  BY <1>3, <1>4, <1>5, <1>6 DEF FormsInv

LEMMA FailLoadOK ==
  ASSUME FormsInv, NEW l \in loads, FailLoad(l)
  PROVE  FormsInv'
<1>1. /\ loads' = loads \ {l} /\ muddled' = TRUE
      /\ UNCHANGED <<kinds, stored, count, state, sent, form, opened, saves>>
  BY DEF FailLoad
<1>2. FormsTyped'
  BY <1>1 DEF FormsInv, FormsTyped
<1>3. Own' /\ Ages' /\ StateIsFresh'
  BY <1>1 DEF FormsInv, Own, Ages, Reads, Selected, StateIsFresh
<1>4. FormIsFresh' /\ SavesAreFresh'
  BY <1>1 DEF FormsInv, FormIsFresh, SavesAreFresh, Upto
<1> QED
  BY <1>2, <1>3, <1>4 DEF FormsInv

-------------------------------------------------------------------------------
(* The user opens, edits and closes a form.  What else an edit leaves      *)
(* alone is in every such step.                                            *)

LEMMA OnlyTheForm ==
  ASSUME FormsInv, UNCHANGED <<kinds, stored, count, state, loads, sent, saves, muddled>>,
         opened' \in Nat, form' \in Form \cup {NoForm}, form' # NoForm => form'.kind \in kinds,
         FormIsFresh'
  PROVE  FormsInv'
<1>1. FormsTyped'
  BY DEF FormsInv, FormsTyped
<1>2. Own' /\ Ages' /\ StateIsFresh' /\ SavesAreFresh'
  BY DEF FormsInv, Own, Ages, Reads, Selected, StateIsFresh, SavesAreFresh, Upto
<1> QED
  BY <1>1, <1>2 DEF FormsInv

LEMMA OpenFormOK ==
  ASSUME FormsInv, NEW kind \in kinds, OpenForm(kind)
  PROVE  FormsInv'
<1> DEFINE from == IF kind = "settings" THEN Snapshot ELSE state
<1>1. /\ opened' = opened + 1
      /\ form' = [no |-> opened', kind |-> kind, value |-> from.of[kind],
                  at |-> from.at, behind |-> Behind(kind), busy |-> FALSE, safe |-> FALSE]
      /\ UNCHANGED <<kinds, stored, count, state, loads, sent, saves, muddled>>
  BY DEF OpenForm
<1>2. opened \in Nat /\ kind \in Kinds /\ from \in State
  BY SnapshotIs DEF FormsInv, FormsTyped
<1>3. kind = "settings" => from.at = count
  BY SnapshotIs DEF FormsInv
<1>4. from.at \in Nat /\ from.of[kind] \in SUBSET Values
  BY <1>2, StateFields
<1>5. kind # "settings" => from = state
  OBVIOUS
<1> HIDE DEF from
<1>6. Behind(kind) \in BOOLEAN
  BY Zenon DEF Behind
<1>7. PICK behind \in BOOLEAN : behind = Behind(kind)
  BY <1>6
<1>8. PICK value \in SUBSET Values : value = from.of[kind]
  BY <1>4
<1>9. form' = [no |-> opened', kind |-> kind, value |-> value,
                at |-> from.at, behind |-> behind, busy |-> FALSE, safe |-> FALSE]
  BY <1>1, <1>7, <1>8
<1>10. /\ form' \in Form /\ form'.kind = kind /\ form'.at = from.at
       /\ form'.behind = behind /\ form'.busy = FALSE /\ form'.safe = FALSE
  BY <1>1, <1>2, <1>4, <1>9 DEF Form
<1>11. ASSUME ~behind
       PROVE  saves = {} /\ Upto(from.at, kind)
  <2>1. saves = {} /\ (kind # "settings" => loads = {} /\ ~muddled)
    BY <1>7, <1>11 DEF Behind
  <2>2. CASE kind = "settings"
    BY <1>2, <1>3, <2>1, <2>2 DEF FormsInv, Ages, Upto
  <2>3. CASE kind # "settings"
    BY <1>2, <1>5, <2>1, <2>3 DEF FormsInv, StateIsFresh
  <2> QED
    BY <2>1, <2>2, <2>3
<1>12. FormIsFresh'
  BY <1>1, <1>10, <1>11 DEF FormIsFresh, Upto
<1>13. opened' \in Nat
  BY <1>1, <1>2
<1> QED
  BY <1>1, <1>10, <1>12, <1>13, OnlyTheForm

LEMMA EditOK ==
  ASSUME FormsInv, NEW v \in Values, Edit(v)
  PROVE  FormsInv'
<1>1. form \in Form /\ opened \in Nat
  BY DEF FormsInv, FormsTyped, Edit
<1>2. PICK value \in SUBSET Values : value = Toggled(form.value, v)
  BY <1>1, FormFields DEF Toggled
<1>3. PICK safe \in BOOLEAN : safe = (saves = {})
  BY Zenon
<1>4. form' = Filled(form, value, safe)
  BY <1>2, <1>3 DEF Edit, Filled
<1>5. /\ form' \in Form /\ form'.no = form.no /\ form'.kind = form.kind /\ form'.at = form.at
      /\ form'.behind = form.behind /\ form'.busy = form.busy /\ form'.safe = safe
  BY <1>1, <1>4, FilledIs
<1>6. UNCHANGED <<kinds, stored, count, state, loads, sent, opened, saves, muddled>> /\ form # NoForm
  BY DEF Edit
<1>7. FormIsFresh'
  BY <1>3, <1>5, <1>6 DEF FormsInv, FormIsFresh, Upto
<1>8. form'.kind \in kinds
  BY <1>5, <1>6 DEF FormsInv, Own
<1> QED
  BY <1>1, <1>5, <1>6, <1>7, <1>8, OnlyTheForm

LEMMA CloseFormOK ==
  ASSUME FormsInv, CloseForm
  PROVE  FormsInv'
<1>1. /\ form' = NoForm /\ opened' = opened /\ opened \in Nat
      /\ UNCHANGED <<kinds, stored, count, state, loads, sent, saves, muddled>>
  BY DEF CloseForm, FormsInv, FormsTyped
<1>2. FormIsFresh'
  BY <1>1 DEF FormIsFresh
<1> QED
  BY <1>1, <1>2, OnlyTheForm

-------------------------------------------------------------------------------
(* A form is saved, and the save handled, answered or lost.                *)

LEMMA SubmitFormOK ==
  ASSUME FormsInv, SubmitForm
  PROVE  FormsInv'
<1> DEFINE cleanedAt == IF form.kind = "group" THEN state.at ELSE 0
           behind == form.behind \/ Behind(form.kind)
<1>1. form \in Form /\ form # NoForm /\ ~form.busy /\ form.kind \in kinds
  BY DEF SubmitForm, FormsInv, FormsTyped, Own
<1>2. /\ form.no \in Nat /\ form.kind \in Kinds /\ form.value \in SUBSET Values /\ form.at \in Nat
      /\ form.behind \in BOOLEAN
  BY <1>1, FormFields
<1>3. /\ state \in State /\ state.at \in Nat /\ state.at <= count
      /\ Selected(state.at, state.of["credential"])
  BY StateFields DEF FormsInv, FormsTyped, Ages, Reads
<1>4. Payload \in SUBSET Values /\ (form.kind = "group" => Payload \subseteq state.of["credential"])
  BY <1>2 DEF Payload, GroupPayload
<1>5. PICK late \in BOOLEAN : late = behind
  BY Zenon
<1>6. PICK n : n = [no |-> form.no, kind |-> form.kind, value |-> Payload, reply |-> Waiting,
                    at |-> form.at, cleanedAt |-> cleanedAt, behind |-> late]
  OBVIOUS
<1>7. /\ n \in Saving
      /\ n.no = form.no /\ n.kind = form.kind /\ n.value = Payload /\ n.reply = Waiting
      /\ n.at = form.at /\ n.cleanedAt = cleanedAt /\ n.behind = late
  BY <1>2, <1>3, <1>4, <1>6 DEF Saving
<1>8. saves' = {Marked(s) : s \in saves} \cup {n}
  BY <1>5, <1>6 DEF SubmitForm, Marked
<1>9. UNCHANGED <<kinds, stored, count, state, loads, sent, opened, muddled>>
  BY DEF SubmitForm
<1>10. form' = Busied(form)
  BY DEF SubmitForm, Busied
<1>11. /\ form' \in Form /\ form'.no = form.no /\ form'.kind = form.kind /\ form'.at = form.at
       /\ form'.behind = form.behind /\ form'.busy = TRUE /\ form'.safe = FALSE
  BY <1>1, <1>10, BusiedIs
<1> HIDE <1>6
<1>12. ASSUME NEW x \in saves'
       PROVE  \/ x = n
              \/ \E s \in saves : /\ x.behind = TRUE /\ x \in Saving
                                  /\ x.no = s.no /\ x.kind = s.kind /\ x.value = s.value
                                  /\ x.reply = s.reply /\ x.cleanedAt = s.cleanedAt
  <2> SUFFICES ASSUME NEW s \in saves, x = Marked(s)
               PROVE  /\ x.behind = TRUE /\ x \in Saving
                      /\ x.no = s.no /\ x.kind = s.kind /\ x.value = s.value
                      /\ x.reply = s.reply /\ x.cleanedAt = s.cleanedAt
    BY <1>8
  <2>1. s \in Saving
    BY DEF FormsInv, FormsTyped
  <2> QED
    BY <2>1, MarkedIs
<1>13. FormsTyped'
  <2>1. saves' \subseteq Saving
    BY <1>7, <1>12
  <2> QED
    BY <1>9, <1>11, <2>1 DEF FormsInv, FormsTyped
<1>14. Own'
  BY <1>1, <1>7, <1>9, <1>11, <1>12 DEF FormsInv, Own
<1>15. Ages'
  <2>1. \A k \in Kinds : stored'[k].rev <= count'
    BY <1>9 DEF FormsInv, Ages
  <2>2. Reads(state)' /\ \A l \in loads' : l.answer # Waiting => Reads(l.answer)'
    BY <1>9 DEF FormsInv, Ages, Reads, Selected
  <2>3. ASSUME NEW x \in saves', x.kind = "group", x.reply = Waiting
        PROVE  x.cleanedAt <= count' /\ Selected(x.cleanedAt, x.value)'
    <3>1. CASE x = n
      <4>1. cleanedAt = state.at
        BY <1>7, <2>3, <3>1
      <4> QED
        BY <1>3, <1>4, <1>7, <1>9, <2>3, <3>1, <4>1 DEF Selected
    <3>2. CASE x # n
      <4>1. PICK s \in saves : /\ x.kind = s.kind /\ x.value = s.value
                               /\ x.reply = s.reply /\ x.cleanedAt = s.cleanedAt
        BY <1>12, <3>2
      <4>2. s.cleanedAt <= count /\ Selected(s.cleanedAt, s.value)
        BY <2>3, <4>1 DEF FormsInv, Ages
      <4> QED
        BY <1>9, <4>1, <4>2 DEF Selected
    <3> QED
      BY <3>1, <3>2
  <2> QED
    BY <2>1, <2>2, <2>3 DEF Ages
<1>16. StateIsFresh'
  BY <1>8, <1>9 DEF FormsInv, StateIsFresh
<1>17. ~form.behind => saves = {}
  BY <1>1 DEF FormsInv, FormIsFresh
<1>18. FormIsFresh'
  <2>1. ~form'.behind => \A x \in saves' : x.no = form'.no /\ x.kind = form'.kind
    BY <1>7, <1>11, <1>12, <1>17
  <2>2. saves' # {}
    BY <1>8
  <2> QED
    BY <1>11, <2>1, <2>2 DEF FormIsFresh
<1>19. SavesAreFresh'
  <2> SUFFICES ASSUME NEW x \in saves', ~x.behind
               PROVE  /\ x.reply = Waiting => saves' = {x}
                      /\ Upto(x.at, x.kind)'
                      /\ x.reply = Waiting /\ x.kind = "group" => Upto(x.cleanedAt, "credential")'
    BY DEF SavesAreFresh
  <2>1. x = n
    BY <1>12
  <2>2. ~form.behind /\ ~Behind(form.kind)
    BY <1>5, <1>7, <2>1
  <2>3. saves = {} /\ (form.kind # "settings" => loads = {} /\ ~muddled)
    BY <2>2 DEF Behind
  <2>4. saves' = {x}
    BY <1>8, <2>1, <2>3
  <2>5. Upto(form.at, form.kind)
    BY <1>1, <2>2, <2>3 DEF FormsInv, FormIsFresh
  <2>6. form.kind = "group" => Upto(state.at, "credential")
    BY <2>3 DEF FormsInv, StateIsFresh, Kinds
  <2> QED
    BY <1>7, <1>9, <2>1, <2>4, <2>5, <2>6 DEF Upto
<1> QED
  BY <1>13, <1>14, <1>15, <1>16, <1>18, <1>19 DEF FormsInv

LEMMA WrittenIs ==
  ASSUME FormsInv, NEW kind \in kinds, NEW value \in SUBSET Values, NEW mine \in BOOLEAN,
         Write(kind, value, mine)
  PROVE  /\ count' = count + 1
         /\ stored' \in [Kinds -> [value : SUBSET Values, rev : Nat, mine : BOOLEAN]]
         /\ stored'[kind].rev = count'
         /\ \A k \in Kinds \ {kind} : stored'[k] = stored[k]
<1>1. kind \in Kinds /\ FormsTyped
  BY DEF FormsInv, FormsTyped
<1>2. PICK k \in Kinds : k = kind
  BY <1>1
<1>3. Write(k, value, mine)
  BY <1>2
<1>4. /\ count' = count + 1
      /\ stored' \in [Kinds -> [value : SUBSET Values, rev : Nat, mine : BOOLEAN]]
      /\ stored'[k].rev = count'
      /\ \A other \in Kinds \ {k} : stored'[other] = stored[other]
  <2>1. k \in Kinds /\ FormsTyped /\ value \in SUBSET Values /\ mine \in BOOLEAN
    BY <1>1
  <2>2. /\ count' = count + 1
        /\ stored' \in [Kinds -> [value : SUBSET Values, rev : Nat, mine : BOOLEAN]]
        /\ stored'[k].value = value /\ stored'[k].rev = count' /\ stored'[k].mine = mine
        /\ \A other \in Kinds \ {k} : stored'[other] = stored[other]
    BY ONLY <1>3, <2>1, WriteIs
  <2> QED
    BY <2>2
<1> QED
  BY <1>2, <1>4

(* What was read of the selection before a save of it is stored.           *)
LEMMA SelectedStays ==
  ASSUME FormsInv, NEW kind \in Kinds, NEW value \in SUBSET Values, NEW mine \in BOOLEAN,
         Write(kind, value, mine), NEW at \in Nat, at <= count, NEW v, Selected(at, v)
  PROVE  at <= count' /\ Selected(at, v)'
<1>1. /\ count' = count + 1 /\ count \in Nat
      /\ stored'[kind].rev = count'
      /\ \A k \in Kinds \ {kind} : stored'[k] = stored[k]
  <2>1. FormsTyped
    BY DEF FormsInv
  <2>2. count \in Nat
    BY <2>1 DEF FormsTyped
  <2> QED
    BY <2>1, <2>2, WriteIs
<1>2. CASE kind = "credential"
  BY <1>1, <1>2 DEF Selected
<1>3. CASE kind # "credential"
  <2>1. stored'["credential"] = stored["credential"]
    BY <1>1, <1>3 DEF Kinds
  <2> QED
    BY <1>1, <2>1 DEF Selected
<1> QED
  BY <1>2, <1>3

(* The parts of the invariant that a write of any kind keeps.              *)
LEMMA WriteKeeps ==
  ASSUME FormsInv, NEW kind \in kinds, NEW value \in SUBSET Values, NEW mine \in BOOLEAN,
         Write(kind, value, mine), UNCHANGED <<kinds, state, loads, sent, form, opened, muddled>>,
         saves' \subseteq Saving, \A x \in saves' : x.kind \in kinds,
         \A x \in saves' : x.kind = "group" /\ x.reply = Waiting =>
            \E s \in saves : /\ s.kind = "group" /\ s.reply = Waiting
                             /\ s.cleanedAt = x.cleanedAt /\ s.value = x.value
  PROVE  FormsTyped' /\ Own' /\ Ages'
<1>1. kind \in Kinds
  BY DEF FormsInv, FormsTyped
<1>2. /\ count' = count + 1
      /\ stored' \in [Kinds -> [value : SUBSET Values, rev : Nat, mine : BOOLEAN]]
      /\ stored'[kind].rev = count'
      /\ \A k \in Kinds \ {kind} : stored'[k] = stored[k]
  BY WrittenIs
<1>3. FormsTyped'
  BY <1>2 DEF FormsInv, FormsTyped
<1>4. Own'
  BY <1>2 DEF FormsInv, Own
<1>5. \A k \in Kinds : stored'[k].rev <= count'
  <2> SUFFICES ASSUME NEW k \in Kinds
               PROVE  stored'[k].rev <= count'
    OBVIOUS
  <2>1. stored[k].rev \in Nat /\ count \in Nat /\ stored[k].rev <= count
    BY StoredFields DEF FormsInv, Ages
  <2> QED
    BY <1>2, <2>1
<1>6. ASSUME NEW answer \in State, Reads(answer)
      PROVE  Reads(answer)'
  BY <1>1, <1>6, StateFields, SelectedStays DEF Reads
<1>7. Reads(state)'
  BY <1>6 DEF FormsInv, FormsTyped, Ages, Reads, Selected
<1>8. ASSUME NEW l \in loads, l.answer # Waiting
      PROVE  Reads(l.answer)'
  <2>1. l.answer \in State /\ Reads(l.answer)
    BY <1>8 DEF FormsInv, FormsTyped, Loading, Ages
  <2> QED
    BY <1>6, <2>1
<1>9. ASSUME NEW x \in saves', x.kind = "group", x.reply = Waiting
      PROVE  x.cleanedAt <= count' /\ Selected(x.cleanedAt, x.value)'
  <2>1. PICK s \in saves : /\ s.kind = "group" /\ s.reply = Waiting
                           /\ s.cleanedAt = x.cleanedAt /\ s.value = x.value
    BY <1>9
  <2>2. s.cleanedAt \in Nat /\ s.cleanedAt <= count /\ Selected(s.cleanedAt, s.value)
    BY <2>1, SavingFields DEF FormsInv, FormsTyped, Ages
  <2>3. s.cleanedAt <= count' /\ Selected(s.cleanedAt, s.value)'
    BY <1>1, <2>2, SelectedStays
  <2> QED
    BY <2>1, <2>3 DEF Selected
<1> QED
  BY <1>3, <1>4, <1>5, <1>7, <1>8, <1>9 DEF Ages

LEMMA HandleSaveOK ==
  ASSUME FormsInv, NEW s \in saves, HandleSave(s)
  PROVE  FormsInv'
<1>0. /\ s \in Saving /\ s.kind \in Kinds /\ s.value \in SUBSET Values /\ s.kind \in kinds
      /\ FormsTyped
  BY SavingFields DEF FormsInv, FormsTyped, Own
<1> PICK kind \in Kinds, value \in SUBSET Values : kind = s.kind /\ value = s.value
  BY <1>0
<1>2. s \in Saving /\ kind \in kinds /\ FormsTyped
  BY <1>0
<1>3. /\ Write(kind, value, TRUE) /\ count \in Nat
      /\ count' = count + 1 /\ count' \in Nat
      /\ stored'[kind].rev = count'
  <2>1. Write(kind, value, TRUE) /\ TRUE \in BOOLEAN
    BY DEF HandleSave
  <2>2. count' = count + 1
    BY <2>1 DEF Write
  <2>3. stored'[kind].rev = count'
    BY <1>2, <2>1, WriteIs
  <2>4. count \in Nat
    BY <1>2 DEF FormsTyped
  <2>5. count' \in Nat
    BY <2>2, <2>4
  <2> QED
    BY <2>1, <2>2, <2>3, <2>4, <2>5
<1>n. PICK n : n = count'
  OBVIOUS
<1>h. PICK h : h = Handled(s, n)
  OBVIOUS
<1>1. /\ s.reply = Waiting
      /\ saves' = {Marked(t) : t \in saves \ {s}} \cup {h}
      /\ UNCHANGED <<kinds, state, loads, sent, form, opened, muddled>>
  BY <1>n, <1>h DEF HandleSave, Marked, Handled
<1>4. h \in Saving /\ h.behind = FALSE /\ h.reply = "200" /\ h.no = s.no /\ h.kind = kind
      /\ h.at = n
  <2>1. s \in Saving /\ n \in Nat /\ h = Handled(s, n)
    BY <1>2, <1>3, <1>n, <1>h
  <2>2. h \in Saving
    BY <2>1, HandledIs
  <2>3. h.behind = FALSE /\ h.reply = "200" /\ h.no = s.no /\ h.kind = s.kind /\ h.at = n
    BY <2>1 DEF Handled, Saving
  <2> QED
    BY <2>2, <2>3
<1>5. "200" # Waiting
  BY FormsAssumption
<1>6. ASSUME NEW x \in saves'
      PROVE  \/ x = h
             \/ \E t \in saves : /\ x.behind = TRUE /\ x \in Saving
                                 /\ x.no = t.no /\ x.kind = t.kind /\ x.value = t.value
                                 /\ x.reply = t.reply /\ x.cleanedAt = t.cleanedAt
  <2> SUFFICES ASSUME NEW t \in saves, x = Marked(t)
               PROVE  /\ x.behind = TRUE /\ x \in Saving
                      /\ x.no = t.no /\ x.kind = t.kind /\ x.value = t.value
                      /\ x.reply = t.reply /\ x.cleanedAt = t.cleanedAt
    BY <1>1
  <2>1. t \in Saving
    BY DEF FormsInv, FormsTyped
  <2> QED
    BY <2>1, MarkedIs
<1>7. FormsTyped' /\ Own' /\ Ages'
  <2>1. saves' \subseteq Saving /\ \A x \in saves' : x.kind \in kinds
    BY <1>2, <1>4, <1>6 DEF FormsInv, Own
  <2>2. ASSUME NEW x \in saves', x.kind = "group", x.reply = Waiting
        PROVE  \E t \in saves : /\ t.kind = "group" /\ t.reply = Waiting
                                /\ t.cleanedAt = x.cleanedAt /\ t.value = x.value
    <3>1. x # h
      BY <1>4, <1>5, <2>2
    <3>2. PICK t \in saves : /\ x.kind = t.kind /\ x.value = t.value
                             /\ x.reply = t.reply /\ x.cleanedAt = t.cleanedAt
      BY <1>6, <3>1
    <3> QED
      BY <2>2, <3>2
  <2>3. TRUE \in BOOLEAN
    OBVIOUS
  <2> QED
    BY <1>1, <1>2, <1>3, <2>1, <2>2, <2>3, WriteKeeps
<1>8. StateIsFresh'
  BY <1>1 DEF FormsInv, StateIsFresh
<1>9. FormIsFresh'
  <2>1. form # NoForm => ~form.safe
    BY DEF FormsInv, FormIsFresh
  <2>2. ASSUME form # NoForm, ~form.behind
        PROVE  form.busy /\ \A x \in saves' : x.no = form.no /\ x.kind = form.kind
    <3>1. form.busy /\ \A t \in saves : t.no = form.no /\ t.kind = form.kind
      BY <2>2 DEF FormsInv, FormIsFresh
    <3>2. ASSUME NEW x \in saves'
          PROVE  x.no = form.no /\ x.kind = form.kind
      <4>1. CASE x = h
        BY <1>4, <3>1, <4>1
      <4>2. CASE x # h
        <5>1. PICK t \in saves : x.no = t.no /\ x.kind = t.kind
          BY <1>6, <3>2, <4>2
        <5> QED
          BY <3>1, <5>1
      <4> QED
        BY <4>1, <4>2
    <3> QED
      BY <3>1, <3>2
  <2>3. saves' # {}
    BY <1>1
  <2> QED
    BY <1>1, <2>1, <2>2, <2>3 DEF FormIsFresh
<1>10. SavesAreFresh'
  <2> SUFFICES ASSUME NEW x \in saves', ~x.behind
               PROVE  /\ x.reply = Waiting => saves' = {x}
                      /\ Upto(x.at, x.kind)'
                      /\ x.reply = Waiting /\ x.kind = "group" => Upto(x.cleanedAt, "credential")'
    BY DEF SavesAreFresh
  <2>1. x = h
    BY <1>6
  <2>2. Upto(x.at, x.kind)'
    BY <1>n, <1>3, <1>4, <2>1 DEF Upto
  <2> QED
    BY <1>4, <1>5, <2>1, <2>2
<1> QED
  BY <1>7, <1>8, <1>9, <1>10 DEF FormsInv

(* Another administrator's save makes none of the page's.                  *)
LEMMA AnotherSavesOK ==
  ASSUME FormsInv, NEW kind \in kinds, NEW v \in Values, AnotherSaves(kind, v)
  PROVE  FormsInv'
<1>1. kind \in Kinds /\ FALSE \in BOOLEAN
  BY DEF FormsInv, FormsTyped
<1>2. PICK value \in SUBSET Values : value = Toggled(stored[kind].value, v)
  BY <1>1, StoredFields DEF FormsInv, Toggled
<1>3. /\ Write(kind, value, FALSE)
      /\ UNCHANGED <<kinds, state, loads, sent, form, opened, saves, muddled>>
  BY <1>2 DEF AnotherSaves
<1>4. /\ stored'[kind].mine = FALSE
      /\ \A k \in Kinds \ {kind} : stored'[k] = stored[k]
  BY <1>1, <1>3, WriteIs DEF FormsInv
<1>5. FormsTyped' /\ Own' /\ Ages'
  <2>1. /\ saves' \subseteq Saving /\ \A x \in saves' : x.kind \in kinds
    BY <1>3 DEF FormsInv, FormsTyped, Own
  <2>2. \A x \in saves' : x.kind = "group" /\ x.reply = Waiting =>
          \E t \in saves : /\ t.kind = "group" /\ t.reply = Waiting
                           /\ t.cleanedAt = x.cleanedAt /\ t.value = x.value
    BY <1>3
  <2> QED
    BY <1>1, <1>3, <2>1, <2>2, WriteKeeps
<1>6. ASSUME NEW at, NEW k \in Kinds, Upto(at, k)
      PROVE  Upto(at, k)'
  BY <1>4, <1>6 DEF Upto
<1>7. StateIsFresh'
  <2>1. ASSUME NEW k \in Kinds, Upto(state.at, k)
        PROVE  Upto(state.at, k)'
    BY <1>3, <1>4, <2>1 DEF Upto
  <2> QED
    BY <1>3, <1>6, <2>1 DEF FormsInv, StateIsFresh
<1>8. FormIsFresh'
  <2>1. ASSUME form # NoForm, Upto(form.at, form.kind)
        PROVE  Upto(form.at, form.kind)'
    <3>1. form.kind \in Kinds
      BY <2>1, FormFields DEF FormsInv, FormsTyped
    <3> QED
      BY <1>3, <1>4, <2>1, <3>1 DEF Upto
  <2> QED
    BY <1>3, <2>1 DEF FormsInv, FormIsFresh
<1>9. SavesAreFresh'
  <2> SUFFICES ASSUME NEW x \in saves, ~x.behind
               PROVE  /\ x.reply = Waiting => saves' = {x}
                      /\ Upto(x.at, x.kind)'
                      /\ x.reply = Waiting /\ x.kind = "group" => Upto(x.cleanedAt, "credential")'
    BY <1>3 DEF SavesAreFresh
  <2>1. x.kind \in Kinds /\ "credential" \in Kinds
    BY SavingFields DEF FormsInv, FormsTyped, Kinds
  <2>2. /\ x.reply = Waiting => saves = {x}
        /\ Upto(x.at, x.kind)
        /\ x.reply = Waiting /\ x.kind = "group" => Upto(x.cleanedAt, "credential")
    BY DEF FormsInv, SavesAreFresh
  <2> QED
    BY <1>3, <1>6, <2>1, <2>2
<1> QED
  BY <1>5, <1>7, <1>8, <1>9 DEF FormsInv

(* A save is over: its answer arrived, or it failed.                       *)
LEMMA FewerSaves ==
  ASSUME FormsInv, NEW s \in saves, saves' = saves \ {s},
         UNCHANGED <<kinds, stored, count, state, opened>>,
         loads' \subseteq Loading, \A l \in loads' : l \in loads \/ l.answer = Waiting,
         sent' \in Nat, muddled' \in BOOLEAN,
         form' \in Form \cup {NoForm}, form' # NoForm => form'.kind \in kinds,
         StateIsFresh', FormIsFresh'
  PROVE  FormsInv'
<1>1. FormsTyped'
  BY DEF FormsInv, FormsTyped
<1>2. Own' /\ Ages'
  BY DEF FormsInv, Own, Ages, Reads, Selected
<1>3. SavesAreFresh'
  <2> SUFFICES ASSUME NEW x \in saves', ~x.behind
               PROVE  /\ x.reply = Waiting => saves' = {x}
                      /\ Upto(x.at, x.kind)'
                      /\ x.reply = Waiting /\ x.kind = "group" => Upto(x.cleanedAt, "credential")'
    BY DEF SavesAreFresh
  <2>1. /\ x.reply = Waiting => saves = {x}
        /\ Upto(x.at, x.kind)
    BY DEF FormsInv, SavesAreFresh
  <2>2. x.reply # Waiting
    BY <2>1
  <2> QED
    BY <2>1, <2>2 DEF Upto
<1> QED
  BY <1>1, <1>2, <1>3 DEF FormsInv

(* A form that another save than its own finds open is behind already.     *)
LEMMA OthersAreBehind ==
  ASSUME FormsInv, NEW s \in saves, form # NoForm, form.no # s.no \/ form.kind # s.kind
  PROVE  form.behind /\ ~form.safe
BY DEF FormsInv, FormIsFresh

LEMMA DeliverModalOK ==
  ASSUME FormsInv, NEW s \in saves, saves' = saves \ {s},
         UNCHANGED <<kinds, stored, count, state, opened>>, DeliverModalSaved(s)
  PROVE  FormsInv'
<1>1. /\ StateIsFresh'
      /\ loads' \subseteq Loading /\ sent' \in Nat /\ muddled' \in BOOLEAN
      /\ \A l \in loads' : l \in loads \/ l.answer = Waiting
  <2>1. Reload /\ saves' \subseteq saves /\ UNCHANGED <<stored, state>>
    BY DEF DeliverModalSaved, OnSaved
  <2> QED
    BY <2>1, ReloadFresh
<1>2. ASSUME form' # NoForm
      PROVE  form' = form /\ (form.no # s.no \/ form.kind # s.kind)
  BY <1>2 DEF DeliverModalSaved
<1>3. ASSUME form' # NoForm
      PROVE  form' = form /\ form.behind /\ ~form.safe
  BY <1>2, <1>3, OthersAreBehind
<1>4. FormIsFresh'
  BY <1>3 DEF FormIsFresh
<1>5. form' \in Form \cup {NoForm} /\ (form' # NoForm => form'.kind \in kinds)
  BY <1>3 DEF FormsInv, FormsTyped, Own
<1> QED
  BY <1>1, <1>4, <1>5, FewerSaves

LEMMA DeliverSettingsOK ==
  ASSUME FormsInv, NEW s \in saves, saves' = saves \ {s},
         UNCHANGED <<kinds, stored, count, state, opened>>, DeliverSettingsSaved(s)
  PROVE  FormsInv'
<1>1. /\ s.kind = "settings" /\ s \in Saving /\ s.kind \in kinds
      /\ UNCHANGED <<loads, sent, muddled>>
  BY DEF DeliverSettingsSaved, FormsInv, FormsTyped, Own
<1>2. kinds = {"settings"}
  BY <1>1 DEF FormsInv, FormsTyped
<1>3. \A k \in Kinds \ {"settings"} : ~stored[k].mine
  BY <1>2 DEF FormsInv, Own
<1>4. StateIsFresh'
  BY <1>1, <1>3 DEF FormsInv, StateIsFresh, Upto
<1>5. CASE form # NoForm /\ form.no = s.no
  <2>1. form \in Form /\ form.kind \in kinds
    BY <1>5 DEF FormsInv, FormsTyped, Own
  <2>2. PICK behind \in BOOLEAN : behind = (s.behind \/ saves # {s})
    BY Zenon
  <2>3. form' = TakenOver(form, s, behind)
    BY <1>5, <2>2 DEF DeliverSettingsSaved, TakenOver
  <2>4. /\ form' \in Form /\ form'.kind = form.kind /\ form'.at = s.at
        /\ form'.behind = behind /\ form'.safe = FALSE
    <3>1. PICK f : f = form
      OBVIOUS
    <3>2. f \in Form /\ s \in Saving /\ behind \in BOOLEAN /\ form' = TakenOver(f, s, behind)
      BY <1>1, <2>1, <2>2, <2>3, <3>1
    <3>3. /\ form' \in Form /\ form'.kind = f.kind /\ form'.at = s.at
          /\ form'.behind = behind /\ form'.safe = FALSE
      <4>1. s.value \in SUBSET Values /\ s.at \in Nat
        BY <3>2, SavingFields
      <4> QED
        BY <3>2, <4>1 DEF Form, TakenOver
    <3> QED
      BY <3>1, <3>3
  <2>5. form'.kind = s.kind
    BY <1>1, <1>2, <2>1, <2>4
  <2>6. ASSUME ~behind
        PROVE  saves' = {} /\ Upto(s.at, s.kind)
    <3>1. ~s.behind /\ saves = {s}
      BY <2>2, <2>6
    <3> QED
      BY <3>1 DEF FormsInv, SavesAreFresh
  <2>7. FormIsFresh'
    BY <2>4, <2>5, <2>6 DEF FormIsFresh, Upto
  <2> QED
    BY <1>1, <1>4, <2>1, <2>4, <2>7, FewerSaves DEF FormsInv, FormsTyped
<1>6. CASE ~(form # NoForm /\ form.no = s.no)
  <2>1. form' = form
    BY <1>6 DEF DeliverSettingsSaved
  <2>2. form # NoForm => form.behind /\ ~form.safe
    BY <1>6, OthersAreBehind
  <2>3. FormIsFresh'
    BY <2>1, <2>2 DEF FormIsFresh
  <2> QED
    BY <1>1, <1>4, <2>1, <2>3, FewerSaves DEF FormsInv, FormsTyped, Own
<1> QED
  BY <1>5, <1>6

LEMMA SaveFailsOK ==
  ASSUME FormsInv, NEW s \in saves, SaveFails(s)
  PROVE  FormsInv'
<1>1. /\ saves' = saves \ {s} /\ muddled' = TRUE
      /\ UNCHANGED <<kinds, stored, count, state, loads, sent, opened>>
  BY DEF SaveFails
<1>2. StateIsFresh'
  BY <1>1 DEF StateIsFresh
<1>3. CASE form # NoForm /\ form.no = s.no
  <2>1. form \in Form /\ form.kind \in kinds
    BY <1>3 DEF FormsInv, FormsTyped, Own
  <2>2. PICK safe \in BOOLEAN : safe = (saves = {s})
    BY Zenon
  <2>3. form' = Failing(form, safe)
    BY <1>3, <2>2 DEF SaveFails, Failing
  <2>4. form' \in Form /\ form'.kind = form.kind /\ form'.behind = TRUE /\ form'.safe = safe
    BY <2>1, <2>3, FailingIs
  <2>5. safe => saves' = {}
    BY <1>1, <2>2
  <2>6. FormIsFresh'
    BY <2>4, <2>5 DEF FormIsFresh
  <2> QED
    BY <1>1, <1>2, <2>1, <2>4, <2>6, FewerSaves DEF FormsInv, FormsTyped
<1>4. CASE ~(form # NoForm /\ form.no = s.no)
  <2>1. form' = form
    BY <1>4 DEF SaveFails
  <2>2. form # NoForm => form.behind /\ ~form.safe
    BY <1>4, OthersAreBehind
  <2>3. FormIsFresh'
    BY <2>1, <2>2 DEF FormIsFresh
  <2> QED
    BY <1>1, <1>2, <2>1, <2>3, FewerSaves DEF FormsInv, FormsTyped, Own
<1> QED
  BY <1>3, <1>4

LEMMA FormsStep == FormsInv /\ [FormsNext]_formVars => FormsInv'
<1> SUFFICES ASSUME FormsInv, [FormsNext]_formVars
             PROVE  FormsInv'
  OBVIOUS
<1>1. CASE Refresh
  BY <1>1, RefreshOK
<1>2. CASE \E l \in loads : HandleLoad(l) \/ DeliverLoad(l) \/ FailLoad(l)
  BY <1>2, HandleLoadOK, DeliverLoadOK, FailLoadOK
<1>3. CASE \E k \in kinds : OpenForm(k)
  BY <1>3, OpenFormOK
<1>4. CASE \E v \in Values : Edit(v)
  BY <1>4, EditOK
<1>5. CASE CloseForm
  BY <1>5, CloseFormOK
<1>6. CASE SubmitForm
  BY <1>6, SubmitFormOK
<1>7. CASE \E s \in saves : HandleSave(s) \/ DeliverSaved(s) \/ SaveFails(s)
  <2>1. ASSUME NEW s \in saves, DeliverSaved(s)
        PROVE  FormsInv'
    <3>1. saves' = saves \ {s} /\ UNCHANGED <<kinds, stored, count, state, opened>>
      BY <2>1 DEF DeliverSaved
    <3>2. DeliverModalSaved(s) \/ DeliverSettingsSaved(s)
      BY <2>1 DEF DeliverSaved
    <3> QED
      BY <2>1, <3>1, <3>2, DeliverModalOK, DeliverSettingsOK
  <2> QED
    BY <1>7, <2>1, HandleSaveOK, SaveFailsOK
<1>8. CASE \E k \in kinds, v \in Values : AnotherSaves(k, v)
  BY <1>8, AnotherSavesOK
<1>9. CASE UNCHANGED formVars
  <2>1. UNCHANGED <<kinds, stored, count, state, loads, sent, form, opened, saves, muddled>>
    BY <1>9 DEF formVars
  <2>2. FormsTyped' /\ Own'
    BY <2>1 DEF FormsInv, FormsTyped, Own
  <2>3. Ages'
    BY <2>1 DEF FormsInv, Ages, Reads, Selected
  <2>4. StateIsFresh' /\ FormIsFresh' /\ SavesAreFresh'
    BY <2>1 DEF FormsInv, StateIsFresh, FormIsFresh, SavesAreFresh, Upto
  <2> QED
    BY <2>2, <2>3, <2>4 DEF FormsInv
<1> QED
  BY <1>1, <1>2, <1>3, <1>4, <1>5, <1>6, <1>7, <1>8, <1>9 DEF FormsNext

(* What a save that is handled would undo was saved before its form was    *)
(* filled, unless the page knew that it was not up to date.                *)
LEMMA SavesSpare ==
  ASSUME FormsInv, NEW s \in saves, HandleSave(s)
  PROVE  /\ stored[s.kind].rev > s.at => Spoils(stored[s.kind], s.at, s)
         /\ s.kind = "group" /\ ~(s.value \subseteq stored["credential"].value) =>
              Spoils(stored["credential"], s.cleanedAt, s)
<1>1. s \in Saving /\ s.reply = Waiting /\ "credential" \in Kinds
  BY DEF HandleSave, FormsInv, FormsTyped, Kinds
<1>2. /\ s.kind \in Kinds /\ s.at \in Nat /\ s.cleanedAt \in Nat
      /\ stored[s.kind].rev \in Nat /\ stored["credential"].rev \in Nat
  BY <1>1, SavingFields, StoredFields DEF FormsInv
<1>3. ASSUME ~s.behind
      PROVE  /\ Upto(s.at, s.kind)
             /\ s.kind = "group" => Upto(s.cleanedAt, "credential")
  BY <1>1, <1>3 DEF FormsInv, SavesAreFresh
<1>4. s.kind = "group" => Selected(s.cleanedAt, s.value)
  BY <1>1 DEF FormsInv, Ages
<1>5. stored[s.kind].rev > s.at => Spoils(stored[s.kind], s.at, s)
  BY <1>2, <1>3 DEF Spoils, Upto
<1>6. ASSUME s.kind = "group", ~(s.value \subseteq stored["credential"].value)
      PROVE  Spoils(stored["credential"], s.cleanedAt, s)
  <2>1. ~(stored["credential"].rev <= s.cleanedAt)
    BY <1>4, <1>6 DEF Selected
  <2>2. stored["credential"].rev > s.cleanedAt
    BY <1>2, <2>1
  <2> QED
    BY <1>2, <1>3, <1>6, <2>2 DEF Spoils, Upto
<1> QED
  BY <1>5, <1>6

(* The forms of the groups, credentials, client keys and settings pages    *)
(* (features/*Page.tsx, App.reload): a save, which replaces all the fields *)
(* whatever is stored, undoes no save of the same page's, and brings no    *)
(* group a target that the page's own save of the credential had dropped,  *)
(* if the page had nothing under way and nothing lost when the form was    *)
(* opened and submitted.  This holds for any number of forms, reloads and  *)
(* saves, whatever another administrator saves at the same time.           *)
THEOREM OwnWorkIsSpared == FormsSpec => SavesSpareOwnWork
<1>1. FormsInv /\ [FormsNext]_formVars =>
        [\A s \in saves : HandleSave(s) =>
           /\ stored[s.kind].rev > s.at => Spoils(stored[s.kind], s.at, s)
           /\ s.kind = "group" /\ ~(s.value \subseteq stored["credential"].value) =>
                Spoils(stored["credential"], s.cleanedAt, s)]_formVars
  BY SavesSpare
<1> QED
  BY <1>1, FormsStarts, FormsStep, PTL DEF FormsSpec, SavesSpareOwnWork

(* What a step does to a form that holds typed values which nothing under  *)
(* way may touch.                                                          *)
LEMMA TypedStays ==
  ASSUME FormsInv, FormsNext, form # NoForm, form.safe,
         ~(form' # NoForm /\ form'.no = form.no /\ form'.safe)
  PROVE  CloseForm \/ SubmitForm \/ \E v \in Values : Edit(v)
<1>1. saves = {} /\ form' # form
  BY DEF FormsInv, FormIsFresh
<1>2. ~Refresh
  BY <1>1 DEF Refresh
<1>3. ~\E l \in loads : HandleLoad(l) \/ DeliverLoad(l) \/ FailLoad(l)
  BY <1>1 DEF HandleLoad, DeliverLoad, FailLoad, FormAfterLoad
<1>4. ~\E k \in kinds : OpenForm(k)
  BY DEF OpenForm
<1>5. ~\E s \in saves : HandleSave(s) \/ DeliverSaved(s) \/ SaveFails(s)
  BY <1>1
<1>6. ~\E k \in kinds, v \in Values : AnotherSaves(k, v)
  BY <1>1 DEF AnotherSaves
<1> QED
  BY <1>2, <1>3, <1>4, <1>5, <1>6 DEF FormsNext

(* What is typed into one of these forms while the page saves nothing is   *)
(* still there, and not taken back by an answer that arrives, until the    *)
(* user submits or closes the form or types on: App.reload replaces the    *)
(* state under a form, never the form.                                     *)
THEOREM TypingIsKept == FormsSpec => TypedIsKept
<1>1. FormsInv /\ [FormsNext]_formVars =>
        [form # NoForm /\ form.safe /\ ~(form' # NoForm /\ form'.no = form.no /\ form'.safe) =>
           CloseForm \/ SubmitForm \/ \E v \in Values : Edit(v)]_formVars
  BY TypedStays
<1> QED
  BY <1>1, FormsStarts, FormsStep, PTL DEF FormsSpec, TypedIsKept
===============================================================================

----------------------------- MODULE AdminSession -----------------------------
(***************************************************************************)
(* Administrators and their sessions: http/routes/auth.routes.ts with      *)
(* domain/auth and the session repository on the server, and the dashboard *)
(* that signs in (web/src/auth/useAuth.tsx, app/App.tsx, api/client.ts).   *)
(*                                                                         *)
(* A handler of the server is synchronous, so it is one step.  The page is *)
(* not: a request is sent, handled, and its answer delivered in three      *)
(* steps, in any order with those of others, and may fail on the way.  One *)
(* page is modelled so; other administrators act on the server at once.    *)
(***************************************************************************)
EXTENDS Naturals, FiniteSets

CONSTANTS
  Passwords,
  None,       \* no cookie, no row, no password
  TTL,        \* 24 hours, in ticks
  MaxNow,     \* bound on the clock
  MaxSids,    \* bound on the sessions created
  MaxPending, \* bound on the requests the user starts while others wait
  Secure      \* the page is served over https (req.protocol)

ASSUME SessionAssumption ==
  /\ TTL \in Nat \ {0}
  /\ MaxNow \in Nat
  /\ Secure \in BOOLEAN
  /\ MaxSids \in Nat
  /\ None \notin Passwords \cup Nat

(* Session ids, which are random and never used again, by their order.     *)
Sids == 1..MaxSids

VARIABLES
  now,
  password, \* of the row in admin_users
  expiry,   \* admin_sessions: expires_at of each row
  issued,   \* sessions created so far
  lastUse,  \* when a session was created or last accepted (history)
  jar,      \* the session whose two cookies the browser holds
  authed,   \* useAuth's state
  screen,   \* mode of LoginScreen; a status answer under way is "told_..."
  busy,     \* LoginScreen has a submit under way
  pending   \* requests under way; two that are equal are one

serverVars == <<password, expiry, issued, lastUse>>
pageVars == <<jar, authed, screen, busy, pending>>
sessionVars == <<now, serverVars, pageVars>>

-------------------------------------------------------------------------------
(* The server.                                                             *)

Stored(s) == s # None /\ expiry[s] # None

Live(s) == Stored(s) /\ expiry[s] >= now

(* AdminSessionService.createSessionFor, with its housekeeping.            *)
CreateSession(s) ==
  /\ s \in Sids /\ s = issued + 1
  /\ issued' = s
  /\ expiry' = [t \in Sids |->
       IF t = s THEN now + TTL
       ELSE IF Stored(t) /\ expiry[t] <= now THEN None ELSE expiry[t]]
  /\ lastUse' = [lastUse EXCEPT ![s] = now]

(* Slip: an expired row still counts if it is there.                       *)
ValidStored(s, csrf) == Stored(s) /\ (csrf # None => csrf = s)

(* AdminSessionService.validateSession; the CSRF token of a session is     *)
(* identified with its id.                                                 *)
Valid(s, csrf) == Live(s) /\ (csrf # None => csrf = s)

(* Slip: it is renewed in the first half.                                  *)
RenewedEarly(s) == IF 2 * (expiry[s] - now) > TTL THEN now + TTL ELSE expiry[s]

(* Sliding renewal, past half of the time to live.                         *)
Renewed(s) == IF 2 * (expiry[s] - now) < TTL THEN now + TTL ELSE expiry[s]

(* requireAdmin, in front of every other route.                            *)
Admitted(r) ==
  /\ Valid(r.cookie, IF r.op = "change" THEN r.csrf ELSE None)
  /\ r.op = "change" => r.csrf # None

Authorize(r) ==
  /\ IF Admitted(r)
     THEN /\ expiry' = [expiry EXCEPT ![r.cookie] = Renewed(r.cookie)]
          /\ lastUse' = [lastUse EXCEPT ![r.cookie] = now]
     ELSE /\ expiry' = [s \in Sids |->
               IF s = r.cookie /\ ~Live(s) THEN None ELSE expiry[s]]
          /\ UNCHANGED lastUse
  /\ UNCHANGED <<password, issued>>

(* AdminSessionService.provision                                           *)
Provision(p) == password = None /\ password' = p

-------------------------------------------------------------------------------
(* The page.                                                               *)

Ops == {"probe", "reload", "change", "setup", "login", "logout"}

Replies == {"waiting", "200", "401", "409", "failed"}

(* client.ts: a mutation carries the token that readCookie finds, under    *)
(* the plain name.                                                         *)
CsrfHeader == IF Secure THEN None ELSE jar

Request(op, cookie, csrf, typed) ==
  [op |-> op, cookie |-> cookie, csrf |-> csrf, typed |-> typed,
   reply |-> "waiting", given |-> None]

Read(op, cookie) == Request(op, cookie, None, None)

Probe == Read("probe", jar)

SessionInit ==
  /\ now = 0
  /\ password = None
  /\ expiry = [s \in Sids |-> None]
  /\ issued = 0
  /\ lastUse = [s \in Sids |-> 0]
  /\ jar = None
  /\ authed = FALSE
  /\ screen = "checking"
  /\ busy = FALSE
  /\ pending = {Read("probe", None)}

Send(r) ==
  /\ Cardinality(pending) < MaxPending
  /\ pending' = pending \cup {r}

(* markAuthed: App shows the tabs and reloads, or a new LoginScreen.       *)
SignedIn(rest, cookie) ==
  /\ authed' = TRUE
  /\ pending' = IF authed THEN rest ELSE rest \cup {Read("reload", cookie)}
  /\ UNCHANGED screen

SignedOut(rest) ==
  /\ authed' = FALSE
  /\ screen' = IF authed THEN "checking" ELSE screen
  /\ pending' = rest

(* The page is opened, or loaded again: what it waited for is forgotten.   *)
OpenPage ==
  /\ authed' = FALSE /\ screen' = "checking" /\ busy' = FALSE
  /\ pending' = {Probe}
  /\ UNCHANGED <<now, serverVars, jar>>

(* The tabs: an automatic or a requested refresh, a change, a sign-out.    *)
Use ==
  /\ authed
  /\ \/ Send(Read("reload", jar))
     \/ Send(Request("change", jar, CsrfHeader, None))
     \/ Send(Request("logout", jar, CsrfHeader, None))
  /\ UNCHANGED <<now, serverVars, jar, authed, screen, busy>>

(* LoginScreen asks for the status when it is mounted; the answer of a     *)
(* screen that is gone is ignored.                                         *)
TellStatus ==
  /\ ~authed /\ screen = "checking"
  /\ screen' = IF password = None THEN "told_setup" ELSE "told_login"
  /\ UNCHANGED <<now, serverVars, jar, authed, busy, pending>>

StatusTold ==
  /\ ~authed /\ screen \in {"checking", "told_setup", "told_login"}
  /\ \/ screen = "told_setup" /\ screen' = "setup"
     \/ screen # "told_setup" /\ screen' = "login"  \* or the request failed
  /\ UNCHANGED <<now, serverVars, jar, authed, busy, pending>>

Submit(p) ==
  /\ ~authed /\ ~busy /\ screen \in {"setup", "login"}
  /\ busy' = TRUE
  /\ Send(Request(screen, jar, CsrfHeader, p))
  /\ UNCHANGED <<now, serverVars, jar, authed, screen>>

-------------------------------------------------------------------------------
(* A request under way.                                                    *)

Answer(r, reply, given) ==
  pending' = (pending \ {r}) \cup {[r EXCEPT !.reply = reply, !.given = given]}

HandleAuthorized(r) ==
  /\ r.op \in {"probe", "reload", "change"}
  /\ Authorize(r)
  /\ Answer(r, IF Admitted(r) THEN "200" ELSE "401", None)

HandleSetup(r) ==
  /\ r.op = "setup"
  /\ \/ \E s \in Sids : Provision(r.typed) /\ CreateSession(s) /\ Answer(r, "200", s)
     \/ /\ password # None
        /\ Answer(r, "409", None)
        /\ UNCHANGED serverVars

HandleLogin(r) ==
  /\ r.op = "login"
  /\ \/ /\ password = r.typed
        /\ \E s \in Sids : CreateSession(s) /\ Answer(r, "200", s)
        /\ UNCHANGED password
     \/ /\ password # r.typed
        /\ Answer(r, "401", None)
        /\ UNCHANGED serverVars

HandleLogout(r) ==
  /\ r.op = "logout"
  /\ expiry' = [s \in Sids |-> IF s = r.cookie THEN None ELSE expiry[s]]
  /\ Answer(r, "200", None)
  /\ UNCHANGED <<password, issued, lastUse>>

Handle(r) ==
  /\ r \in pending /\ r.reply = "waiting"
  /\ \/ HandleAuthorized(r)
     \/ HandleSetup(r)
     \/ HandleLogin(r)
     \/ HandleLogout(r)
  /\ UNCHANGED <<now, jar, authed, screen, busy>>

(* fetch rejects, whether or not the server handled the request.           *)
Fail(r) ==
  /\ r \in pending /\ r.reply # "failed"
  /\ Answer(r, "failed", None)
  /\ UNCHANGED <<now, serverVars, jar, authed, screen, busy>>

(* Any 401 signs the page out, whichever request it answers.               *)
DeliverRefusal(r) ==
  /\ r.reply = "401"
  /\ SignedOut(pending \ {r})
  /\ busy' = (busy /\ r.op # "login")
  /\ UNCHANGED jar

DeliverProbe(r) ==
  /\ r.op = "probe"
  /\ \/ r.reply = "200" /\ SignedIn(pending \ {r}, jar)
     \/ r.reply = "failed" /\ SignedOut(pending \ {r})
  /\ UNCHANGED <<jar, busy>>

(* Slip: a refresh that fails is taken for the end of the session.         *)
DeliverUseOrLeave(r) ==
  /\ r.op \in {"reload", "change"} /\ r.reply \in {"200", "failed"}
  /\ IF r.reply = "failed" THEN SignedOut(pending \ {r})
     ELSE pending' = pending \ {r} /\ UNCHANGED <<authed, screen>>
  /\ UNCHANGED <<jar, busy>>

(* reload and a change: any other answer leaves the page signed in.        *)
DeliverUse(r) ==
  /\ r.op \in {"reload", "change"} /\ r.reply \in {"200", "failed"}
  /\ pending' = pending \ {r}
  /\ UNCHANGED <<jar, authed, screen, busy>>

(* A setup that worked goes on to sign in, with the cookies it was given.  *)
DeliverSetup(r) ==
  /\ r.op = "setup"
  /\ \/ /\ r.reply = "200"
        /\ jar' = r.given
        /\ pending' = (pending \ {r}) \cup
             {Request("login", r.given, IF Secure THEN None ELSE r.given, r.typed)}
        /\ UNCHANGED busy
     \/ /\ r.reply \in {"409", "failed"}
        /\ pending' = pending \ {r}
        /\ busy' = FALSE
        /\ UNCHANGED jar
  /\ UNCHANGED <<authed, screen>>

DeliverLogin(r) ==
  /\ r.op = "login" /\ r.reply \in {"200", "failed"}
  /\ busy' = FALSE
  /\ \/ r.reply = "200" /\ jar' = r.given /\ SignedIn(pending \ {r}, r.given)
     \/ /\ r.reply = "failed"
        /\ pending' = pending \ {r}
        /\ UNCHANGED <<jar, authed, screen>>

(* The sign-out is best-effort: the page leaves even if it failed.         *)
DeliverLogout(r) ==
  /\ r.op = "logout" /\ r.reply \in {"200", "failed"}
  /\ jar' = IF r.reply = "200" THEN None ELSE jar
  /\ SignedOut(pending \ {r})
  /\ UNCHANGED busy

Deliver(r) ==
  /\ r \in pending
  /\ \/ DeliverRefusal(r)
     \/ DeliverProbe(r)
     \/ DeliverUse(r)
     \/ DeliverSetup(r)
     \/ DeliverLogin(r)
     \/ DeliverLogout(r)
  /\ UNCHANGED <<now, serverVars>>

-------------------------------------------------------------------------------
(* Another browser sets up, or signs in.                                   *)
AnotherSignsIn(s) ==
  /\ \/ \E p \in Passwords : Provision(p)
     \/ password # None /\ UNCHANGED password
  /\ CreateSession(s)
  /\ UNCHANGED <<now, pageVars>>

TimePasses ==
  /\ now < MaxNow
  /\ now' = now + 1
  /\ UNCHANGED <<serverVars, pageVars>>

SessionNext ==
  \/ OpenPage
  \/ Use
  \/ TellStatus
  \/ StatusTold
  \/ \E p \in Passwords : Submit(p)
  \/ \E r \in pending : Handle(r) \/ Fail(r) \/ Deliver(r)
  \/ \E s \in Sids : AnotherSignsIn(s)
  \/ TimePasses

SessionSpec == SessionInit /\ [][SessionNext]_sessionVars

-------------------------------------------------------------------------------
(* Properties.                                                             *)

(* Use keeps an administrator signed in, and nothing else does: a stored   *)
(* session outlives the last request it was accepted for by at least half  *)
(* of its time to live, and by no more than all of it.                     *)
SessionsSlide ==
  \A s \in Sids : Stored(s) =>
    /\ 2 * expiry[s] >= 2 * lastUse[s] + TTL
    /\ expiry[s] <= lastUse[s] + TTL

(* What has ended never comes back: a session that was deleted, signed out *)
(* or has expired is not stored as live by any later request, however late *)
(* or reordered.                                                           *)
EndedSessionsStayEnded ==
  [][\A s \in 1..issued : ~Live(s) => ~Live(s)']_sessionVars

(* What signs a page out: its user, who signs out, loads it again or       *)
(* mistypes a password; the end of the session it holds; or the answer to  *)
(* a request that it sent under another cookie.  So no answer that is lost *)
(* or failed does, and no refusal of the session it holds, while that is   *)
(* live.  The last of the three does end a live session for the page, see  *)
(* ExpiredMeansExpired.                                                    *)
SignedInStaysSignedIn ==
  [][authed /\ ~authed' =>
       \/ OpenPage
       \/ \E r \in pending :
            /\ Deliver(r)
            /\ r.op \in {"logout", "login"} \/ r.cookie # jar \/ ~Live(jar)
    ]_sessionVars

-------------------------------------------------------------------------------
(* What the documentation says and the code does not do.                   *)

(* README, "Security": the CSRF token is mirrored via x-csrf-token.  So a  *)
(* change that the page makes under a live session is accepted.            *)
ChangesAreAccepted ==
  \A r \in pending :
    r.op = "change" /\ r.reply = "401" => r.cookie # jar \/ ~Live(jar)

(* "Session expired - please sign in again" (useAuth.tsx:54): a page that  *)
(* is signed in says so at any 401, one to a sign-in aside, so there is    *)
(* none on its way to it while the session that it holds is live.          *)
ExpiredMeansExpired ==
  authed =>
    \A r \in pending : r.reply = "401" /\ r.op # "login" => ~Live(jar)
===============================================================================

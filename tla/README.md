# Verification of AI Gate Proxy in TLA+

AI Gate Proxy (the repository beside this directory) puts one endpoint in front
of many provider API keys.  A client sends a Gemini- or OpenAI-style request
with a client key; the proxy picks a provider credential that serves the model,
sends the request upstream, and on a failure cools the key down and tries the
next one.  This directory holds a TLA+ model of it, the TLC runs that check it
on small instances, and proofs, checked by TLAPS, of what must hold on all.

    tlc -workers 2 -config RoutingService.cfg MCRoutingService   # one run
    tlapm RoutingServiceProofs.tla                               # one proof module

## 1. The system

One Node process, one SQLite database (better-sqlite3: every statement runs to
its end before the call returns), three HTTP servers.  JavaScript runs on one
thread, so the code between two `await`s is one atomic step.  What overlaps is
requests that wait for an upstream, the dashboard, timers, and the death of the
process.

| Component (src/src/...) | State | Operations | Talks to |
| --- | --- | --- | --- |
| Routing service (`application/gateway/routing.service.ts`) | locals of each call: snapshot of the candidates, last result, deadline | `route` | everything below, and the upstream over HTTP |
| Key selection (`domain/routing/keySelection.ts`) | none | `orderCandidates`, `compareByStrategy` | called by `route` before each attempt |
| Error classification, cooldown policy (`domain/providers/adapter.ts`, `domain/routing/cooldown.ts`) | none | `classifyUpstreamError`, `cooldownFor` | called by `route` on a failure |
| Pair state (`infrastructure/db/repositories/modelCredentialState.ts`) | one row per model and credential: state, cooldown, counters, latency | six statements | written by `route` and by *clear cooldowns* |
| Gateways (`http/routes/gateway.routes.ts`, `openai.routes.ts`, `clientAccess.ts`) | rate-limit buckets | list models, generate, count tokens | client keys, groups, `route` |
| Client-key rate limit (`domain/routing/clientKeyRateLimit.ts`) | a window and a count per key, in memory | `allowClientKeyRequest` | gateways |
| Model catalog (`application/gateway/catalog.ts`) | none | `deriveModelCatalog`, `derivePairs` | gateways, admin |
| OpenAI translation, provider adapters (`openai.protocol.ts`, `infrastructure/providers/`) | none | request and response translation, model listing | gateways, `route`, probe |
| Admin API (`http/routes/admin.routes.ts` and the repositories of credentials, client keys and groups) | three tables that refer to each other by id and by name | create, update, rename, delete; clear cooldowns; save settings | dashboard |
| Admin sessions (`domain/auth/`, `http/routes/auth.routes.ts`) | users, sessions | setup, login, logout, validate and renew | every admin route |
| Settings (`domain/settings/settingsService.ts`) | values in memory and one blob in the database | init, update | `route`, gateways, servers |
| Logs, usage events, audit (`requestLogs.ts`, `usageEvents.ts`, `auditLogs.ts`) | three tables, two with a retention cap | insert, prune, filter, aggregate | `route`, admin |
| Startup (`infrastructure/db/connection.ts`, `config/encryptionKey.ts`) | schema versions, key file | run migrations, create the key | `main` |
| Lifecycle (`main.ts`, `http/server.ts`) | three servers | start, graceful shutdown | the operating system |
| Dashboard (`web/src/`) | what each page shows | fetch, filter, edit | admin API |

Hard behaviours, and what correct means for each component:

* *Routing.* Requests overlap on the same rows; each works from a snapshot that
  grows stale; answers come in any order or never; timers race answers; the
  client or the process may go away.  Correct: no key twice for one request, no
  attempt beyond the budget, none given up early, counters equal to attempts,
  cooldowns that end only when they should, records that agree with the answer,
  every request answered.
* *Selection.* The order must be total and consistent, healthy keys first
  whatever the strategy.
* *Gateways.* The permission check, the plan and the catalog must agree with
  each other and with what `route` reads later; the limit holds per window.
* *Admin.* References between credentials, groups and client keys must never
  dangle, and a change that is half done must not widen an access.
* *Sessions.* An expired or deleted session never counts, and a live one keeps
  its page signed in.
* *Startup.* A crash at any point leaves a database and a key file the next
  start can use; stored settings survive an upgrade.
* *Retention.* The newest rows survive, and the tables stay bounded.
* *Dashboard.* What is shown answers the latest question asked.

`PROJECT.json` lists the components, the hazards at their lines, the runs, the
mutants each property catches, and the source lines of each definition.

## 2. The modules

| Module | What it is |
| --- | --- |
| `KeySelection` | the comparator of `orderCandidates`, and the head of the sorted pool (`Best`) |
| `CandidatePool` | the array of the retry loop: sorted by one strategy, shifted, sorted again by the other |
| `ErrorPolicy` | what an upstream answer means for the key it came from |
| `RoutingService` | concurrent calls of `route` on the shared table; extends `KeySelection` and `ErrorPolicy` |
| `FallbackContract` | what `route` promises its callers; `RoutingService` implements it (`ImplementsContract`) |
| `Translation` | requests and answers between the two protocols |
| `ProviderProbe` | the listing of a provider's models |
| `Algorithms` | the inputs of the three modules without state, by type, and what they promise together |
| `ClientAccess` | the stored configuration, and what it lets a client key reach |
| `AdminIntegrity` | the admin handlers that edit it, write by write; extends `ClientAccess` |
| `Gateway` | the client surfaces and the rate limit, while the administrator edits; extends `AdminIntegrity` |
| `AdminSession` | administrators, their sessions, and the page that signs in |
| `Views` | the parts of the dashboard that ask questions: request log, usage matrix, model list |
| `Forms` | the forms of the dashboard, over a state that is reloaded and that others edit |
| `Migrations`, `DataFolder`, `Retention` | the schema; the key file and the settings; the two tables that are pruned |
| `Server` | the life of the process over the three above: start, crash, shutdown |
| `MCKeySelection`, `MCAlgorithms`, `MCRoutingService`, `MCAdmin`, `MCGateway`, `MCDashboard`, `MCServer` | instances for TLC |
| `KeySelectionProofs`, `AlgorithmsProofs`, `RoutingServiceProofs`, `RoutingRecordsProofs`, `AdminProofs`, `GatewayProofs`, `DashboardProofs`, `ServerProofs` | theorems and proofs (section 4) |

**RoutingService.**  `clock`, `live`, `settings` and `row` are shared: the time,
the stored credentials, the live settings and `model_credential_state`.  The
others are indexed by request: `input` is its `RouteRequestInput`, `pc` where it
is, `budget`, `pool`, `sentAt`, `timer`, `last` the locals of the call, `tried`
the keys it was sent with, `logs` and `usage` the rows it inserted.

`route` awaits only in `callUpstream`, so a request has one step from its first
line to its first fetch (`Start`, or `StartWithoutKeys`) and one from each
settled fetch to the next fetch or the return: `Succeeds`, `Fails`, `Throws`,
`TimesOut`, `ClientAborts`.  The last part of every such step is `RetryLoop`, the
head of the `for` loop: `SendNext` or `LeaveLoop`.  The dashboard acts between
steps (`DeleteCredential`, `ClearAllCooldowns`, `SaveSettings`), `Tick` is the
clock, and `Crash` loses the calls under way and keeps the tables.  `lag` in
`Start` is the time that reading and decrypting the credentials takes.

What is abstracted:

* An answer is a status and what its body shows to the two functions that look
  at it (`Evidence`); bodies, headers and paths are not modelled.
* Time is in ticks and a day has `DayLength` of them.  The moving average is
  computed in integers; `Math.round` over floating point may differ by one.
* The error rate is compared by cross product, the division by its meaning.
* A database call that throws, and an `error.details` entry that is no object
  (which makes the classification itself throw), are not modelled.
* Log and usage rows are not pruned, and a usage event carries key and status.
* A deleted credential is not created again under the same rowid.

Assumed of the environment: an aborted `fetch` rejects with the reason of the
abort; timers that are due run before time goes on (`NoTimerDue`), except for
the lag of one synchronous step, `MaxLag`.

**FallbackContract.**  No clock, no table, no pool, no budget: a request is sent
with one key after another, never twice with one, and gets one answer, which is
of the last key and is what the log holds.  The refinement mapping is at the end
of `RoutingService`: `AbsState` reads `pc`, `sent` is `tried`, `AbsAnswer` is
`last` once the call has returned, `AbsLogged` the rows of the log without their
details.  Promotions, cooldowns, ticks and the dashboard's steps are stutters.

**CandidatePool.**  `KeySelection` treats the pool as a set.  Here `queue` is
the array, sorted once by the primary strategy and again by the fallback before
each later attempt; `Shift` is the code's re-rank and shift.  `OrderCandidates` is
any array in which no entry stands behind one that the comparator puts after it,
which is all that `sort` promises; that there is exactly one is proved.
`Profiles` is what a row can hold; `MCKeySelection` gives it the cases that the order
tells apart, for three credentials.

**ClientAccess, AdminIntegrity.**  `stored` and `selects` are
`provider_credentials`, `group` is `model_groups` with its `model_group_pairs`,
`key` is `client_keys`.  A handler of the admin API is synchronous, so nothing
runs between its writes, but they are committed one by one: an action makes the
first write and leaves the others in `rest`; `NextWrite` makes the next one, and
`CutOff` drops what is left, for the process died or a statement threw.  All
other actions need `Idle`.  Where the code holds writes in one transaction
(`DeleteCredential`, `setPairs`, `rewriteGroups`) the action makes them at once.

Ids are random and never used again (`issued`).  A form may be saved after what
it names was deleted or renamed, so targets may name a credential that is gone
and client keys may name groups that are; the API checks neither, and the model
allows both.  Four history variables remember what the administrator meant:
`granted` (the groups a client key was saved with), `unknown` (names no group
had), `ghosts` (targets saved after their credential was deleted) and `torn`
(groups whose handler was cut off).  The properties say what must hold except
for those.

**Gateway.**  Each handler is one step, from the look-up of the client key to
`route`'s read of the credentials: there is no `await` in between. `bucket` is
the limiter's map, `reply` what the last step answered and with which
credentials `route` was left, `calls` the history of the calls that the limiter
of this process counted in the last minute, oldest first, each with the limit it
was admitted under, and `earlier` the same of each process before it.
`Administer` is any step of `AdminIntegrity`, `SaveLimit` the live change of the
setting.  `Restart` empties the buckets: the limiter forgets, and what two
processes admit in one minute adds up, so the bound is stated of each. The
401, the 404 and the routing strategies of a plan are left out: the first two
change nothing, the third is an input of `RoutingService`. That model takes the
plan and the credentials as they come; this one is where they come from.

**Translation, ProviderProbe, Algorithms.**  Pure operators.  A text is the
sequence of its words, `Absent` is undefined or null.  `Outgoing` and `Incoming` are
the two ends of `callUpstream`, `ChatRequestToGenerate` and `ResultToChat` those of
the chat handler, and in between lie the adapters.  `FlatMap` is a loop that pushes:
what each message or content yields, put together.  Sampling parameters, ids, and the
wording of errors are left out; content of several parts is one text.  The reasons an
upstream may give are a constant, and so is what `toUpperCase` makes of them
(`UpperCase`).  `ListModels` reads a sequence of pages, each of which may fail.
`Algorithms` puts the input in a variable, so that a state is a question; the inputs
are constants, bounded by the types of the schemas and interfaces that the code reads
them with.  One role is assumed, not checked by the code: a Gemini client's contents
have roles of Gemini's (`NativeRoles`).  A role of its own, "system" for one, would be
sent on as it is.

**AdminSession.**  `password`, `expiry` and `issued` are `admin_users` and
`admin_sessions`; the rest is one browser page.  A request is sent, handled and
its answer delivered in three steps, so answers come in any order, late, or not
at all (`Fail`), whether or not the server acted.  `Handle` is one step, for
every handler is synchronous up to its reply, hashing included.  `Authorize` is
`requireAdmin` with its renewal and its deletion.  Session ids are numbers, and a
CSRF token is identified with the session it belongs to.  Cookies are kept by
name only as far as the page's look-up of them goes (`CsrfHeader`, `Secure`).
Other administrators are `AnotherSignsIn`.  `lastUse` is history.

**Views.**  Three components that fetch when their filter changes, told apart by
`view`: the log numbers its requests and drops superseded answers, the other two
do not; the log and the model list wait for typing to settle (`typed`).  An answer
is identified with its question.  The matrix is asked once more after the
cooldowns were cleared: `ClearCooldowns` is the click, which captures the days of
its render, and `RefreshAll` the question, two awaits later, for those days
(`refreshing`).  `asked`, `overlapped` and `failed` are history: without
numbers a view can promise to show the answer to its last question only when its
requests do not overlap, and the property says so.  That the last question is
what the filter says holds for the log and the model list, and not for the
matrix (finding 9).

**Forms.**  `stored` is the server, `state` what App has of it, `form` the open
form, `loads` and `saves` the requests under way.  One thing of each kind is
edited, and all that a form says of it is one set.  Saving sends the whole form
(`Payload`); for a group, minus the targets that the page knows to be stale.  The
answer to a save closes the form and reloads the state; the settings form stays
open and takes over the values of the answer.  `rev` and `mine` tell by which
save a value was written, `behind` whether the page may not know of one of its
own; a save is also behind when another of the page's was handled first, since
two in flight may be handled in either order.

**Migrations.**  A statement is what it does to a set of named tables and
indexes, each in a form; the columns of a table are its form.  `executed` is the
gap between `db.exec` and the row in `schema_version`.

**DataFolder.**  `OpenKeyFile`, `WriteKey` and `WriteKeyFails` are the parts of
`writeFileSync`; an empty file is 0, and key material of any length is a key, as
it is to the code (`encrypt` derives one from whatever the file holds), so a partial
file is a key that no process had before the next start reads it.  `sealed` holds
the keys that stored rows are encrypted under.  Settings are functions, an older blob one with a
smaller domain; `chosen` is what the last update answered with.

**Retention.**  Rows by id with the second they were created in.  `turn` is a
table that has its new row and is not pruned yet.  Where the order of the
statement leaves a tie, `Keeps` allows any of the rows.

**Server.**  `phase` follows `main`.  One request per server at a time: a gateway's
waits, records the usage of an attempt, then logs its answer; the admin server's
(a probe) waits and writes nothing.  `Exit` ends the process for whatever reason
and forgets what is in memory; `Crash`, `StartFails` and `CloseDb` are its causes.
`closed` are the servers whose `close` has settled, which waits for `connected`
clients and not for handlers whose client has left.

## 3. What the runs check

| Run | Instance | Shows |
| --- | --- | --- |
| `routing` | 2 requests, 2 keys (one restricted), 1 model, 2 inputs, answers 200 / 429 daily / 500, 2 settings, 3 ticks | `TypeOK`, `WithinBudget`, `NeverTwiceTheSameKey`, `CountersMatchAttempts`, `RecordsMatchAnswer`, `CooldownsEndInTime`, `FirstPickIsHealthiest`, `NoEarlyGivingUp` |
| `routing_overlap` | 3 requests, 2 keys, upstream that succeeds, drops or stays silent, lag of 1 tick | `OverlappingRequestsSpread`, `EveryRequestIsAnswered`, and the refinement `ImplementsContract` |
| `key_selection` | 3 keys, 18 profiles each, 4 primary strategies, each fallback or none; conversations of up to 3 messages, answers of up to 2 choices, listings of up to 3 pages of which 2 are followed | `OrderIsDecided`, `HealthBeforeStrategy`, `FirstPickFollowsStrategy`, `ShiftYieldsBest`, `ConversationSurvives`, `AnswerSurvives`, `ListingIsWhole` |
| `admin` | 2 credentials, 2 models, 2 groups, 2 names, 1 client key | `NoGhostTargets`, `KeysFollowTheirGroups`, `GroupedKeysStayInScope`, `RestrictionsOutliveRenames` |
| `gateway` | 2 credentials of different providers, 1 model, 1 group, 1 client key, limits 0, 1, 2, a window of 2 ticks, 4 ticks, 4 counted calls in a window, 1 restart | `LessThanTwiceTheLimit`, `RefusedOnlyAtTheLimit`, `CallsStayInScope`, `CountTokensMatchesGeneration` |
| `dashboard` | sessions: a time to live of 2 ticks, 3 ticks, 3 sessions, 2 passwords, 2 requests of the user at a time; views: 2 filters, texts and pages, 5 requests, 1 refresh of each choice of days at a time; forms: 2 values, 2 forms, 2 saves (3 of the settings), 2 reloads | `SessionsSlide`, `EndedSessionsStayEnded`, `SignedInStaysSignedIn`, `ViewsShowTheLatestAnswer`, `SavesSpareOwnWork`, `TypedIsKept` |
| `server` | a fresh folder and one of the first release, 31 statements, 2 settings with 2 values, caps 1 and 2, 2 seconds, 2 requests, any number of starts | `SchemaFollowsItsVersion`, `StoredKeysStayReadable`, `SettingsStayInForce`, `RetentionKeepsTheNewest`, `RequestsEndBeforeTheDatabaseCloses`, `ShutdownEnds` |
| `daily_quota` | as `routing` | the documented cooldown is violated |
| `timeout_outcome` | as `routing` | the outcome `timeout` is never reported |
| `rename_interrupted` | as `admin` | an interrupted rename leaves a name of no group |
| `limiter_coverage` | as `gateway` | one handler passes the limit |
| `group_deletion` | as `admin` | deleting its last group makes a client key unrestricted |

Six further configurations each refute one statement about the program, most of
them in a few steps.  They are kept for the findings below and are not runs of
`PROJECT.json`:

| Configuration | Module | Refutes |
| --- | --- | --- |
| `HttpsCsrf.cfg` | `AdminSession`, `Secure` | `ChangesAreAccepted`: over https the page cannot change anything |
| `NoKeysLogged.cfg` | `MCRoutingService` | `KeylessRequestsAreLogged`: a request that no credential serves is not logged |
| `ListedModels.cfg` | `MCAdmin` | `ListedModelsAreRoutable`: a model is listed that the key's plan does not serve |
| `UsageWindow.cfg` | `Views` | `MatrixIsOfTheSelectedWindow`: the usage matrix stays on other days than are chosen |
| `LateRefusal.cfg` | `AdminSession` | `ExpiredMeansExpired`: a late 401 signs the page out of a live session |
| `SmartestWording.cfg` | `MCKeySelection`, 2 profiles | `SmartestHasFewestErrors`: `smartest` picks a key with more errors than another |

`AdminTypeOK` and the `TypeOK` of `Gateway` state the types of their modules; they
are proved and are in no run.

*Bounds.*  Two requests are enough for one to be sent, or answered, between any
two steps of the other, and three for two of them to be in flight on one key
while a third chooses.  Two keys give a first choice, a retry and an exhausted
pool.  A short cooldown is one tick and a day three, so within `Horizon` = 3 a
short cooldown starts, ends and is promoted while a daily one still holds, and
the deadline (one or two ticks) is met by timers that are shorter, equal and
longer.  `Start` needs the deadline within `Horizon`, so the bound never cuts a
request short.  `routing` has no lag (`MaxLag` = 0), so a first attempt that comes
late, or not at all, is not among its behaviours: for that `WithinBudget` rests on
the theorem `BudgetKept`, which holds for any lag.  `routing` uses symmetry over requests, which are
interchangeable; it checks no liveness.  `key_selection` stops when the queue is
empty, and its inputs are states without a successor, so it does not check for
deadlock.  Settings read `attempts` of 1 or 2 where the code allows 1 to 10.

In `admin`, two names and two groups are what it takes for a name to be given
up, reused by another group and looked up through a client key that was saved
before; two credentials let one be deleted while a group keeps the other.  The
groups are interchangeable (symmetry).  In `gateway`, `Horizon` is longer than
`Window`, so a window opens, ends and opens again; `MaxCalls` is twice the
highest limit, one call more than `LessThanTwiceTheLimit` allows; one restart
(`MaxRestarts`) gives two processes in one window.  Ids run out in
both, so the system may stop and deadlock is not checked.

In `dashboard`, three ticks over a time to live of two let a session be renewed,
run out and be followed by another while a request under the first is late; three
sessions are the page's, its next one, and another browser's.  The three parts
share no variable, so a behaviour belongs to one of them (`scene`) and the run
explores their sum, not their product: some 6.4 million states.  Five requests of
a view are an answer that arrives after two later questions, and a page turned
while text is being typed.  Two saves are one of each administrator, or two of
the page whose answers cross, and of the settings, whose form stays open, one
more after them; two forms, one closed while it is being saved and the next one
opened.  In `server` the two caps are enough for a table to be
pruned, for the cap to be lowered and raised, and for a pruning to be skipped in
between; starts are not bounded, and any step of a start may be its last.  Both
stop at their bounds, so deadlock is not checked; a stop that should not be is
what `ShutdownEnds` is about.

*Fairness.*  `FairSpec` is used by `routing_overlap`: weak fairness of `Tick` (time
passes) and of `TimesOut` for each request (the event loop runs a timer that is
due).  Nothing is assumed of the upstream, the client or the administrator.
`EveryRequestIsAnswered` also allows a request to be lost in a crash.
`ServerSpec` has weak fairness of `RecordUsage` and `Finish` for each server: an
attempt ends at the latest with its timer, which is what `routing_overlap` shows
for `route`, and a page of a listing has a timer of its own (`gemini.adapter.ts:33`,
`openai-compatible.adapter.ts:39`); of `CloseServer` and `EndTurn`, which are callbacks and code of the same turn; and of
`CloseDb`, what follows the last `close`.  No start, signal, disconnection or
administrator's step is assumed to happen.

*Findings.*

1. A key that exhausted its daily quota does not stay in cooldown until
   midnight if it is tried again as a last resort: any later failure that cools
   overwrites the cooldown with one of 60 s (`routing.service.ts:209`,
   README line 224).
2. The timer aborts with a `TimeoutError`, and the handler looks for an
   `AbortError`: the outcome `timeout` is never produced
   (`routing.service.ts:167, 223, 239`; run `timeout_outcome`).
3. Renaming a group and telling the client keys are separate transactions
   (`admin.routes.ts:216, 226`), where `proposed-plan.md:25` asks for one.  The
   runs show what is at stake: `KeysFollowTheirGroups` and
   `GroupedKeysStayInScope` hold except for groups in `torn`.
4. The generation and countTokens handler of the Gemini surface
   (`gateway.routes.ts:52`) calls no limiter, where `CLEANUPS.md:94` says that
   all four handlers do.
5. Over https the server names its CSRF cookie `__Host-gemini_csrf`
   (`auth.routes.ts:97-100`) and the page looks for `gemini_csrf`
   (`client.ts:136`): every change is answered with a 401, and the page signs
   itself out.  README line 328 describes the token as mirrored (`HttpsCsrf.cfg`).
6. A request that no credential can serve is answered with a 503 before anything
   is logged (`routing.service.ts:94-106`), and one that had no time for an attempt
   gets a 502 that is not logged either (line 254).  The outcome `no_keys` that the schema
   declares and the log page offers is never stored; README line 142 promises
   every request (`NoKeysLogged.cfg`).
7. Deleting the only group of a client key empties its list of groups, which
   `clientAccess.ts:71` reads as no restriction: the key reaches every model on
   every credential, where the dashboard warns that keys "lose its permissions
   immediately" (`GroupsPage.tsx:238`).  `RestrictionsOutliveRenames` and
   `GroupedKeysStayInScope` are about keys that keep a group (run `group_deletion`).
8. When a credential stops selecting a model, the targets that name the two stay.
   A client key whose group has only such targets of a model is still shown the
   model if any other credential selects it, and gets a 503 for it
   (`catalog.ts:18`, `clientAccess.ts:83`, `routing.service.ts:85`; README line 14;
   `ListedModels.cfg`).
9. The usage matrix stores whichever answer arrives last, and a refresh asks for
   the days of its click: it may stay on other days than are chosen
   (`OverviewPage.tsx:13, 21-24, 156`; its own hint at line 118; `UsageWindow.cfg`).
10. A 401 signs the page out whichever request it answers: the answer to the probe
   of the mount, late, ends a session that is live, with the toast "Session
   expired" (`useAuth.tsx:49-56`, `client.ts:146`; `LateRefusal.cfg`).
11. `smartest` prefers the lowest error rate (`keySelection.ts:22`); README line 216
   and `GroupsPage.tsx:11` say the fewest errors (`SmartestWording.cfg`).

*Noted while modelling*, within what the properties allow:

* A 2xx answer whose body does not parse reaches an OpenAI client as an error
  envelope under status 200; a readable answer without a JSON content type is not
  translated and becomes an empty completion; a total the upstream left out is
  told as 0.
* Closing a form while it is being saved and opening another lets the answer
  to the first close the second; settings typed during a save are replaced by
  its answer; two saves in flight may be handled in either order.
* The model list does not number its requests either: an answer to earlier
  connection data may stay on the screen.
* A restart forgets the client-key limit: two processes in one minute may each
  let through their own.
* The last four migrations do not tolerate being executed twice: after a crash
  between one of them and its record, every later start fails
  (`SchemaFollowsItsVersion` bounds it to those).
* A stored settings blob that lacks a field counts for nothing, and the next
  update overwrites it.
* A shutdown waits for clients.  A request whose client has left is cut off with
  its usage unrecorded.
* The encryption key is resolved before any server listens, so `/health/ready`
  never reports it missing; the process exits instead.  A schema version of 0 is
  reported, and does not make the process unready (README lines 314, 341).

## 4. What is proved

For any finite sets of requests and credentials, any models, plans, answers and
settings within their schema, any cooldown lengths and any lag; for any number
of groups, client keys, names and models, any limits and any window; for
messages, choices and pages of any number, and texts of any length; for any
number of sessions, passwords, questions, forms and requests under way and any
time to live; for any settings, caps, clocks and numbers of starts:

| Module | Theorem | States |
| --- | --- | --- |
| `KeySelectionProofs` | `PrecedesIsStrictTotalOrder` | the comparator is asymmetric, transitive and decides any two distinct credentials |
| | `BestIsFirst` | a finite pool has exactly one head, and `Best` is it |
| `AlgorithmsProofs` | `SortHasOneOutcome` | a finite pool has exactly one sorted array, and `OrderCandidates` is it |
| | `OrderStaysDecided` | `Spec \/ ASpec => []OrderIsDecided` |
| | `HealthGoesFirst` | `Spec \/ ASpec => []HealthBeforeStrategy` |
| | `FirstPickIsPreferred` | `Spec \/ ASpec => []FirstPickFollowsStrategy` |
| | `ArrayYieldsBest` | `Spec \/ ASpec => ShiftYieldsBest` |
| | `ConversationsSurvive` | `ASpec => []ConversationSurvives` |
| | `AnswersSurvive` | `ASpec => []AnswerSurvives` |
| | `ListingsAreWhole` | `ASpec => []ListingIsWhole` |
| `RoutingServiceProofs` | `TypeCorrect` | `Spec => []TypeOK` |
| | `NeverTwice` | `Spec => []NeverTwiceTheSameKey` |
| | `BudgetKept` | `Spec => []WithinBudget` |
| | `RouteKeepsItsContract` | `Spec => ImplementsContract` |
| `RoutingRecordsProofs` | `CountersStayTrue` | `Spec => []CountersMatchAttempts` |
| | `CooldownsLast` | `Spec => CooldownsEndInTime` |
| | `AnswersAreRecorded` | `Spec => []RecordsMatchAnswer` |
| | `NothingGivenUpEarly` | `Spec => NoEarlyGivingUp` |
| | `HealthiestKeyFirst` | `Spec => FirstPickIsHealthiest` |
| | `OverlapSpreads` | `Spec => []OverlappingRequestsSpread` |
| `AdminProofs` | `NoGhosts` | `AdminSpec => []NoGhostTargets` |
| | `NamesStayUnique` | `AdminSpec => []NamesUnique` |
| | `KeysKeepTheirGroups` | `AdminSpec => []KeysFollowTheirGroups` |
| | `ScopesStay` | `AdminSpec => []GroupedKeysStayInScope` |
| | `RestrictionsStay` | `AdminSpec => []RestrictionsOutliveRenames` |
| | `TablesKeepTheirTypes` | `AdminSpec => []AdminTypeOK` |
| `GatewayProofs` | `CountingMatches` | `Spec => []CountTokensMatchesGeneration` |
| | `CallsInScope` | `Spec => []CallsStayInScope` |
| | `LimitHolds` | `Spec => []LessThanTwiceTheLimit` |
| | `RefusedFairly` | `Spec => []RefusedOnlyAtTheLimit` |
| | `GatewayKeepsItsTypes` | `Spec => []TypeOK` |
| `DashboardProofs` | `SessionsLastAsPromised` | `SessionSpec => []SessionsSlide` |
| | `EndedForGood` | `SessionSpec => EndedSessionsStayEnded` |
| | `PageStaysSignedIn` | `SessionSpec /\ Secure = FALSE => SignedInStaysSignedIn` |
| | `LatestAnswerStays` | `ViewsSpec => []ViewsShowTheLatestAnswer` |
| | `OwnWorkIsSpared` | `FormsSpec => SavesSpareOwnWork` |
| | `TypingIsKept` | `FormsSpec => TypedIsKept` |
| `ServerProofs` | `SchemaFollows` | `ServerSpec => []SchemaFollowsItsVersion` |
| | `CredentialsStayReadable` | `ServerSpec => []StoredKeysStayReadable` |
| | `SavedSettingsStay` | `ServerSpec => []SettingsStayInForce` |
| | `PruningKeepsTheNewest` | `ServerSpec => []RetentionKeepsTheNewest` |
| | `ShutdownCutsNobodyOff` | `ServerSpec => RequestsEndBeforeTheDatabaseCloses` |

Assumptions: `CredsAssumption` (rowids are distinct), `PoolAssumption` (finitely many
credentials, rows of the types of their columns), `ExchangeAssumption` (inputs have
the types of their schemas; undefined is no text, number, role or reason; at least one
page is followed), `PolicyAssumption`,
`RoutingAssumption` (the types of the constants), `FiniteAssumption`,
`AccessAssumption` (an absent row is no row), `ChoicesAssumption` (the types of
what a form may hold), `GatewayAssumption` (limits and times are numbers, the
window is positive, an absent bucket is no bucket), `SessionAssumption` (a time to
live is positive; no session and no password is `None`), `ViewsAssumption` (pages
are numbers), `FormsAssumption` (bounds are numbers; no form and no answer is the
value that stands for its absence), `FolderAssumption` (settings and their values
are what their schema says; caps are positive).  TLC evaluates each of them in
the runs of its module.  `PageStaysSignedIn` has a hypothesis, `Secure = FALSE`:
over https the page is signed out by its first change, which is finding 5.

*Selection.*  Each criterion is an order that ends in the age of the credential,
which is unique; `SmarterOrder` needs that fractions compared by cross product
are transitive.  A finite set with such an order has a first element: the one
whose set of predecessors is minimal for strict inclusion, which is well-founded
on finite sets.

*The array.*  A candidate's place is one more than the number of those that
precede it.  `FewerBefore` makes the places distinct, hence all of `1..n`
(`PlacesAreTaken`), which gives a sorted array; and in any sorted array each entry
stands at its place (`OutcomePlaces`), so there is one only.  `PoolInv` adds to the
properties what both sorts keep: each candidate once, no key taken that stands worse
with its provider than one that is left (`NotWorse`, on which all strategies agree),
and the first key taken preceding all that is left by the primary strategy.

*Conversations and listings.*  What a list is put together to (`FlattenSeq`, a recursive
function) is shown by induction along the list, with the set of lengths that satisfy
the claim in the place of a predicate (`ReachesAll`): the function has the values of
its steps (`FlattenSteps`), it distributes over concatenation (`FlattenConcat`), a front
of the list gives a front of the result (`FlattenPrefix`), and lists whose parts agree
place by place give results that do (`FlattenAlike`).  The last one carries a turn
through both translations: each message and what it becomes yield the same turns
(`TurnsBecomeContents`, `ContentsGoOut`), or none at all on both sides.  `FlattenPrefix`
is the whole of `ListingsAreWhole`.  An answer is a matter of cases, choice by choice
(`ReasonSurvives`, `CompletionSurvives`).

*Routing.*  Neither invariant is inductive alone.  `IInv` adds to them, for each
request: a new one has tried nothing (or `Start` could repeat a key); a waiting
one has tried something (its current key exists); pools are finite (so `Best`
picks a member of them, by `BestIsFirst`, and a member is fresh); an attempt was
sent no later than now (latencies are not negative); the timeout it read is not
zero (so a new timer lies ahead, which `Tick` needs).  All steps that touch a
call end in `RetryLoop` or `Return`, so `RetryLoopOK` and `ReturnOK` carry most of
the proof, and `OthersStayOK` covers the other requests.

*Contract.*  The simulation needs `IInv` and `LoggedOnReturn`: a request that has
not returned is not in the log, or its answer there could be another than the
one it returns with.  `SendMaps`, `RefuseMaps` and `FinishMaps` show what
`SendNext` and the two ways out map to; every step of a call is one of them, through
`RetryLoopMaps` and `LeaveLoopMaps`, `Crash` is `Lose` or a stutter, and all other steps
leave what the mapping reads alone.

*Records.*  The rows are counted by attempts: `SentTo` is the set of attempts that
a pair was used for, and a step either adds one member to it together with one
use, or leaves both alone.  `TableOK` adds that no row is ever disabled, without
which a row could leave its cooldown another way.  `BooksOK`: a call that has not
returned has no success among its events, so the one that a success writes is the
last.  `EnoughLeft`: the attempts a call may still make are at most the candidates
it has left, so the loop cannot run dry before its budget does.  `SpreadOK`: while
all calls of a model are plain, all its rows are ready and their attempts differ by
one at most; the next key is one with the fewest uses, which are its attempts.

*Administration.*  `NoGhostTargets` needs to know what the handler under way
still has to write: `RestInOrder` says that every pending write concerns a
stored group (or replacing its targets would give targets to a row that is
gone) and that a deletion comes last (so no write follows it).  Names are unique
because each of the two statements that set one is refused for a name in use
(`FreeNameOK`).  The theorems hold for any number of credentials, groups and
client keys, and with a cut-off at any write.

*References by name.*  `KeysFollowTheirGroups` speaks of the moments between two
handlers; the invariant `KeysInv` speaks of all.  While the rename of a group is
half done the group has two names (`Aliases`), and a group whose deletion is half done is
no longer alive; `KeysNameTheirGroups` says that a client key names each living
group of its own by one of its aliases, and nothing else but what no group had
when the key was saved.  It is kept because aliases of different groups are apart
(`AliasesApart`), and because no stored group goes by a name that is still unknown
(`UnknownToAll`): a group that gets such a name is one of the key's from then on.
`ScopesStay` and `RestrictionsStay` follow.
`ColumnsTyped` holds the columns and the history that no other invariant speaks of;
with the others it is `AdminTypeOK`, and with the limiter's `TypeOK` of `Gateway`.
`removeGroupRef` filters a list (`SelectSeq`, a recursion): `WithoutIs` proves what it
keeps, for every length, from the least length for which it would fail.

*Limiter.*  `Accounts` reads a bucket in terms of the history: the calls it counts
are the last ones of the minute, each admitted under a limit above its place in
the window, and the calls of the window before have lost the one that opened it.
Two windows in a minute then hold one call less than twice the highest limit
(`LessThanTwice`).  Of the calls of an earlier process some bucket goes on
accounting in this way while time passes (`Accounted`), though none is kept: the
theorem bounds each process by itself and says nothing of their sum.
The configuration is that of `AdminSpec`, whose invariants the other two theorems
use (`AdminSteps`).

*Sessions.*  `StepsOfTheServer` reduces all actions to what they do to the tables
(`ServerStep`), so the late, lost and repeated requests of the page need one
argument.  `SlideInv` adds to `SessionsSlide` that no session was used after now:
a session that is accepted and not renewed has half of its time left, counted
from a use in the past.

*The page.*  `PageInv` says of each request under way what it was sent with and
how it was answered (`RequestOK`): one that was refused had no live session, and a
session that ended stays so (`EndedForGood`).  The look-up at the start (`probe`) is
the delicate one: its answer may come after the user signed in.  `AskedBefore` and
`SignedInSince` say that it was then sent with another cookie.  The theorem does not
say that the page stays: a late 401 of another cookie signs it out of a live session
(finding 10).  It says that nothing else does but the user and the session's end.

*Views.*  `ViewInv` ties the numbers of requests to the filter they were sent
with: no number is ahead of the latest, two requests have two numbers, and the
latest request carries the last question, which outside the usage matrix is what
the filter says.

*Forms.*  Freshness of one thing follows from that of another: what a save writes
was in the form, the form was filled from the state, the state came with a
reload.  `StateIsFresh`, `FormIsFresh` and `SavesAreFresh` say of each that it has
all of the page's own saves of its kind (`Upto`) if nothing was under way; `Ages` that
a snapshot with a later number than the last selection of a credential has that
selection.  A form that nothing is behind has no save under way but its own.

*Process.*  `KeyInv`: while the file has no key there is no row under any, and
while it is being written no process has one; hence a new key never replaces one
in use.  `SettingsInv`: once an update was answered, the blob in the database is
that update and is complete, so every later start reads it.  `RetentionInv`:
no row that is kept is older than one that was dropped, no row is stamped later
than now, and each table has as many rows as its lowest cap leaves, or all
it ever had.  `ClosedInv`: a server that has closed has no client.

*Migrations.*  `MigrationInv`: the recorded statements are the first *n*, and the
schema has either these or also the one after them, which is then the statement that
was executed.  A statement that is executed again after a crash changes nothing more
(`EffectTwice`).  `SchemaOf` is defined by recursion over the statements;
`SchemaOfIs` proves its equations by the least version for which they would have no
solution.

*Corrected because a proof failed.*  An attempt on `SavesSpareOwnWork` led to three
saves of the settings of which the first two are handled in the other order and
the third writes an older value over a newer one: the property now says so
(`behind`), and the run has three.  Two branches of the limiter's `CASE` overlapped,
which left the choice between them open to the semantics.  The history `calls` is a
sequence, oldest first, for the limiter's argument needs the order of the calls.
The error rates of `FirstPickFollowsStrategy` were rounded to whole percents, which
tells two keys apart only while their counters are small: they are now compared as
fractions.

*Reworded for the prover.*  A loop that pushes was a `SelectSeq` and is now a
`FlatMap`, for the prover cannot expand `SelectSeq`; `UpperCase` was a table in its
module and is a constant.

*Only model-checked:* `EveryRequestIsAnswered` and `ShutdownEnds`, for liveness
under fairness is beyond this prover.  All other properties of the passing runs
are proved for every value of the constants.

## 5. What is not modelled, and what could follow

Not modelled, with the reason:

* *Daylight-saving days.*  `msUntilPacificMidnight` is off by an hour on two days
  a year; the model's days have one length.
* *The audit log.*  At most one row per change, written after it, its failure
  ignored; nothing but one table of the dashboard reads it.  Two observations:
  clearing cooldowns writes none, and a crash may lose the row of a change.
* *Power loss and clocks.*  Commits survive the death of the process; the last
  ones before a power failure may be lost (WAL with `synchronous = NORMAL`), and
  so may a key file that was not flushed.  The host's clock does not step back.
* *The per-address limits* of Fastify, on all surfaces and on sign-in, which
  belong to the library.
* *Health routes, static files, plugin registration*, which change nothing.
* *Rendering*: themes, toasts, tabs, focus, the formatting of numbers and dates,
  the detail view of a log.
* HTTP framing, encryption and hashing primitives, log formatting.

------------------------------ MODULE ErrorPolicy ------------------------------
(***************************************************************************)
(* classifyUpstreamError (domain/providers/adapter.ts) and cooldownFor     *)
(* (domain/routing/cooldown.ts): what an upstream HTTP answer means for    *)
(* the credential it came from.                                            *)
(*                                                                         *)
(* An answer is its status and what its body shows once the routing loop   *)
(* has cut it to 4096 characters and parsed it:                            *)
(*   "plain"       nothing the two functions look for, or a body that no   *)
(*                 longer parses after the cut                             *)
(*   "bad_key"     a message that INVALID_KEY_MESSAGE_RE matches           *)
(*   "daily"       a message that DAILY_MESSAGE_RE matches, or a           *)
(*                 QuotaFailure detail that names a per-day quota          *)
(*   "daily_other" a detail of another type that names a per-day quota:    *)
(*                 only cooldownFor looks at it                            *)
(***************************************************************************)
EXTENDS Integers

CONSTANTS
  DayLength,    \* ticks from one Pacific midnight to the next
  ShortCooldown \* TRANSIENT_COOLDOWN_MS = INVALID_KEY_COOLDOWN_MS, in ticks

ASSUME PolicyAssumption ==
  /\ DayLength \in Nat \ {0}
  /\ ShortCooldown \in Nat \ {0}

Evidence == {"plain", "bad_key", "daily", "daily_other"}

Answer == [status : 200..599, body : Evidence]

IsSuccess(a) == a.status \in 200..299

ClassifyUpstreamError(a) ==
  CASE a.status \in {401, 403}               -> "invalid_key"
    [] a.status = 400 /\ a.body = "bad_key"  -> "invalid_key"
    [] a.status = 429 /\ a.body = "daily"    -> "daily_quota"
    [] a.status = 429 /\ a.body # "daily"    -> "rate_limit"
    [] a.status >= 500 \/ a.status = 408     -> "transient"
    [] a.status < 400                        -> "unknown"
    [] OTHER                                 -> "permanent"

Classifications ==
  {"invalid_key", "daily_quota", "rate_limit", "transient", "permanent",
   "unknown"}

(* Slip: the two operands of the difference are swapped.                   *)
SinceMidnight(now) == (now % DayLength) - DayLength

(* msUntilPacificMidnight, on a day of DayLength ticks.                    *)
UntilMidnight(now) == DayLength - (now % DayLength)

(* CooldownPolicy.reason; "none" stands for kind = "none".                 *)
CooldownReasons == {"invalid_key", "daily_quota", "rate_limit", "upstream_error"}

CooldownReason(a) ==
  LET class == ClassifyUpstreamError(a)
      daily == a.body \in {"daily", "daily_other"}  \* isDailyQuota
  IN CASE class = "invalid_key"            -> "invalid_key"
       [] class = "daily_quota"            -> "daily_quota"
       [] class = "rate_limit" /\ daily    -> "daily_quota"
       [] class = "rate_limit" /\ ~daily   -> "rate_limit"
       [] class = "transient"              -> "upstream_error"
       [] OTHER                            -> "none"

CooldownLength(reason, now) ==
  IF reason = "daily_quota" THEN UntilMidnight(now) ELSE ShortCooldown
================================================================================

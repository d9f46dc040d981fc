------------------------------- MODULE MCServer -------------------------------
(* The process for TLC: two settings, of which an older release had one.   *)
EXTENDS Server

MCFields == {"maxLogEntries", "rateLimitPerMinute"}

MCDefaults == [f \in MCFields |-> 2]

MCOldBlob == [f \in {"maxLogEntries"} |-> 1]
===============================================================================

------------------------------- MODULE Retention -------------------------------
(***************************************************************************)
(* The two tables that are pruned to settings.maxLogEntries: usage events  *)
(* and request logs (infrastructure/db/repositories/usageEvents.ts and     *)
(* requestLogs.ts), as recordUsage and persistLog of the routing service   *)
(* write them.  A row is inserted and the table pruned in one turn of the  *)
(* event loop, by two statements with no transaction around them.          *)
(***************************************************************************)
EXTENDS Integers, Sequences, FiniteSetsExt

CONSTANTS MaxSeconds \* bound on the clock

VARIABLES
  second,   \* the clock of created_at
  inserted, \* created_at of every row ever inserted, by its id
  table,    \* the ids of the rows that are in each table
  turn,     \* the table that has a new row and is not pruned yet
  lowest    \* the lowest cap each was pruned to, or 0 (history)

retentionVars == <<second, inserted, table, turn, lowest>>

Tables == {"usage_events", "request_logs"}

RetentionInit ==
  /\ second = 0
  /\ inserted \in {[t \in Tables |-> <<>>], [t \in Tables |-> <<0>>]}
  /\ table = [t \in Tables |-> DOMAIN inserted[t]]
  /\ turn = "none"
  /\ lowest = [t \in Tables |-> 0]

Insert(t) ==
  /\ turn = "none" /\ turn' = t
  /\ inserted' = [inserted EXCEPT ![t] = Append(@, second)]
  /\ table' = [table EXCEPT ![t] = @ \cup {Len(inserted[t]) + 1}]
  /\ UNCHANGED <<second, lowest>>

(* ORDER BY created_at DESC, id DESC; without the id for the logs.         *)
Newer(t, i, j) ==
  \/ inserted[t][i] > inserted[t][j]
  \/ t = "usage_events" /\ inserted[t][i] = inserted[t][j] /\ i > j

(* Slip: the order is left to be ascending.                                *)
KeepsOldest(t, kept, cap) ==
  /\ Cardinality(kept) = Min({cap, Cardinality(table[t])})
  /\ \A i \in kept, j \in table[t] \ kept : ~Newer(t, i, j)

(* The newest rows, up to the cap; the order leaves ties to chance.        *)
Keeps(t, kept, cap) ==
  /\ Cardinality(kept) = Min({cap, Cardinality(table[t])})
  /\ \A i \in kept, j \in table[t] \ kept : ~Newer(t, j, i)

Prune(cap) ==
  /\ turn # "none" /\ turn' = "none"
  /\ \E kept \in SUBSET table[turn] :
       /\ Keeps(turn, kept, cap)
       /\ table' = [table EXCEPT ![turn] = kept]
  /\ lowest' = [lowest EXCEPT ![turn] = IF @ = 0 THEN cap ELSE Min({@, cap})]
  /\ UNCHANGED <<second, inserted>>

(* The statement fails, which is logged and ignored, or the process ends.  *)
SkipPruning ==
  /\ turn' = "none"
  /\ UNCHANGED <<second, inserted, table, lowest>>

SecondPasses ==
  /\ second < MaxSeconds /\ turn = "none"
  /\ second' = second + 1
  /\ UNCHANGED <<inserted, table, turn, lowest>>

-------------------------------------------------------------------------------
(* Pruning loses the oldest rows and no more of them than it must: nothing *)
(* that was kept comes after something that was dropped in the table's     *)
(* order, whatever caps and interrupted prunings came between, and a table *)
(* is never shorter than the lowest cap it was pruned to.                  *)
RetentionKeepsTheNewest ==
  \A t \in Tables :
    /\ \A i \in table[t], j \in DOMAIN inserted[t] \ table[t] : ~Newer(t, j, i)
    /\ Cardinality(table[t]) >=
         IF lowest[t] = 0 THEN Len(inserted[t]) ELSE Min({lowest[t], Len(inserted[t])})
===============================================================================

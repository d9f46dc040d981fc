----------------------------- MODULE ServerProofs -----------------------------
(***************************************************************************)
(* Theorems about Server, for any settings, bounds and number of requests: *)
(* credentials stay readable, settings stay in force, the tables keep the  *)
(* newest rows, no client is cut off by a shutdown, and the schema is the  *)
(* one of its version.                                                     *)
(***************************************************************************)
EXTENDS Server, FiniteSetTheorems, SequenceTheorems, WellFoundedInduction, TLAPS

-------------------------------------------------------------------------------
(* The key: while the file has none, there is no row under any key.        *)

KeyInv ==
  /\ sealed \subseteq {keyFile} \ {None, 0}
  /\ key # None => key = keyFile /\ KeyStored
  /\ opened => key = None /\ keyFile = 0
  /\ phase \in {"up", "closing"} => key # None

LEMMA KeyInitial == ServerInit => KeyInv
BY FolderAssumption DEF ServerInit, FolderInit, FreshFolder, UsedFolder, KeyInv, KeyStored

LEMMA KeyExit == KeyInv /\ UNCHANGED keyFile /\ Exit => KeyInv'
BY DEF KeyInv, Exit, ForgetFolder, KeyStored

LEMMA KeyBuild == KeyInv /\ BuildServers => KeyInv'
<1> SUFFICES ASSUME KeyInv, BuildServers PROVE KeyInv'
  OBVIOUS
<1>1. CASE LoadKey /\ UNCHANGED phase
  BY <1>1 DEF KeyInv, LoadKey, KeyStored, BuildServers
<1>2. CASE OpenKeyFile /\ UNCHANGED phase
  <2>1. sealed = {}
    BY <1>2 DEF KeyInv, OpenKeyFile, KeyStored
  <2> QED
    BY <1>2, <2>1 DEF KeyInv, OpenKeyFile, KeyStored, BuildServers
<1>3. CASE WriteKey /\ UNCHANGED phase
  <2>1. sealed = {} /\ NewKey = 1
    BY <1>3 DEF KeyInv, WriteKey, NewKey
  <2> QED
    BY <1>3, <2>1, FolderAssumption DEF KeyInv, WriteKey, KeyStored
<1>4. CASE key # None /\ UNCHANGED keyVars
  BY <1>4 DEF KeyInv, keyVars, KeyStored
<1> QED
  BY <1>1, <1>2, <1>3, <1>4 DEF BuildServers

LEMMA KeyStartFails == KeyInv /\ StartFails => KeyInv'
<1> SUFFICES ASSUME KeyInv, StartFails PROVE KeyInv'
  OBVIOUS
<1>1. CASE UNCHANGED keyFile /\ Exit
  BY <1>1, KeyExit
<1>2. CASE WriteKeyFails /\ Exit
  <2>1. sealed = {} /\ sealed' = sealed
    BY <1>2 DEF KeyInv, WriteKeyFails
  <2> QED
    BY <1>2, <2>1 DEF KeyInv, Exit, ForgetFolder
<1> QED
  BY <1>1, <1>2 DEF StartFails

LEMMA KeyNext == KeyInv /\ [ServerNext]_serverVars => KeyInv'
<1> SUFFICES ASSUME KeyInv, [ServerNext]_serverVars PROVE KeyInv'
  OBVIOUS
<1>1. CASE UNCHANGED serverVars
  BY <1>1 DEF serverVars, processVars, folderVars, KeyInv, KeyStored
<1>2. CASE Start \/ RunMigrations
  BY <1>2 DEF Start, RunMigrations, folderVars, KeyInv, KeyStored
<1>3. CASE BuildServers
  BY <1>3, KeyBuild
<1>4. CASE StartFails
  BY <1>4, KeyStartFails
<1>5. CASE Crash \/ CloseDb
  BY <1>5, KeyExit DEF Crash, CloseDb
<1>6. ASSUME NEW s \in Servers, Serve(s)
      PROVE  KeyInv'
  BY <1>6 DEF Serve, Listen, Accept, RecordUsage, Finish, Disconnect, CloseServer,
              folderVars, KeyInv, KeyStored
<1>7. CASE EndTurn \/ Tick
  BY <1>7 DEF EndTurn, Tick, processVars, folderVars, KeyInv, KeyStored
<1>8. CASE Administer
  BY <1>8 DEF Administer, StoreCredential, processVars, keyVars, KeyInv, KeyStored
<1>9. CASE Signal
  BY <1>9 DEF Signal, folderVars, KeyInv, KeyStored
<1> QED
  BY <1>1, <1>2, <1>3, <1>4, <1>5, <1>6, <1>7, <1>8, <1>9 DEF ServerNext

(* getEncryptionKey: whatever start is cut off or fails, and in whatever   *)
(* order, every stored credential can be decrypted by every later process. *)
THEOREM CredentialsStayReadable == ServerSpec => []StoredKeysStayReadable
<1>1. KeyInv => StoredKeysStayReadable
  BY DEF KeyInv, StoredKeysStayReadable
<1> QED
  BY <1>1, KeyInitial, KeyNext, PTL DEF ServerSpec

-------------------------------------------------------------------------------
(* The settings: what was chosen is the whole blob, and it can be parsed.  *)

SettingsInv ==
  /\ values \in [Fields -> Limits]
  /\ Complete(blob) => blob \in [Fields -> Limits]
  /\ chosen # None => blob = chosen /\ Complete(blob)
  /\ SettingsStayInForce

LEMMA SettingsInitial == ServerInit => SettingsInv
<1> SUFFICES ASSUME ServerInit PROVE SettingsInv
  OBVIOUS
<1>1. values = Defaults /\ chosen = None /\ phase = "down"
  BY DEF ServerInit, FolderInit
<1>2. ASSUME Complete(blob)
      PROVE  blob \in [Fields -> Limits]
  <2>1. blob \in {OldBlob, [f \in Fields |-> Defaults[f]]}
    BY <1>2 DEF ServerInit, FreshFolder, UsedFolder, Complete
  <2> QED
    BY <1>2, <2>1, FolderAssumption DEF Complete
<1> QED
  BY <1>1, <1>2, FolderAssumption DEF SettingsInv, SettingsStayInForce

LEMMA SettingsUpdate ==
  ASSUME SettingsInv, NEW patch \in Patches, UpdateSettings(patch)
  PROVE  SettingsInv'
<1>1. Merged(patch) \in [Fields -> Limits]
  BY DEF Patches, SettingsInv, Merged
<1>2. Merged(patch) # None
  BY <1>1, FolderAssumption
<1>3. blob' = Merged(patch) /\ values' = blob' /\ chosen' = blob'
  BY DEF UpdateSettings, Persisted
<1> QED
  BY <1>1, <1>2, <1>3 DEF SettingsInv, SettingsStayInForce, Complete

LEMMA SettingsExit == SettingsInv /\ Exit => SettingsInv'
BY FolderAssumption DEF SettingsInv, SettingsStayInForce, Exit, ForgetFolder, Complete

LEMMA SettingsNext == SettingsInv /\ [ServerNext]_serverVars => SettingsInv'
<1> SUFFICES ASSUME SettingsInv, [ServerNext]_serverVars PROVE SettingsInv'
  OBVIOUS
<1> USE DEF SettingsInv, SettingsStayInForce, Complete
<1>1. CASE UNCHANGED serverVars
  BY <1>1 DEF serverVars, processVars, folderVars
<1>2. CASE Start \/ RunMigrations
  BY <1>2 DEF Start, RunMigrations, folderVars
<1>3. CASE BuildServers
  <2>1. CASE UNCHANGED <<phase, settingsVars>>
    BY <2>1 DEF settingsVars
  <2>2. CASE InitSettings
    BY <2>2, FolderAssumption DEF InitSettings
  <2> QED
    BY <1>3, <2>1, <2>2 DEF BuildServers
<1>4. CASE StartFails \/ Crash \/ CloseDb
  BY <1>4, SettingsExit DEF StartFails, Crash, CloseDb
<1>5. ASSUME NEW s \in Servers, Serve(s)
      PROVE  SettingsInv'
  BY <1>5 DEF Serve, Listen, Accept, RecordUsage, Finish, Disconnect, CloseServer, folderVars
<1>6. CASE EndTurn \/ Tick
  BY <1>6 DEF EndTurn, Tick, processVars, folderVars
<1>7. CASE Administer
  <2>1. CASE StoreCredential /\ UNCHANGED settingsVars
    BY <1>7, <2>1 DEF Administer, settingsVars, processVars
  <2>2. CASE \E patch \in Patches : UpdateSettings(patch)
    BY <2>2, SettingsUpdate
  <2> QED
    BY <1>7, <2>1, <2>2 DEF Administer
<1>8. CASE Signal
  BY <1>8 DEF Signal, folderVars
<1> QED
  BY <1>1, <1>2, <1>3, <1>4, <1>5, <1>6, <1>7, <1>8 DEF ServerNext

(* SettingsService: what was saved is in force in every later process.     *)
THEOREM SavedSettingsStay == ServerSpec => []SettingsStayInForce
<1>1. SettingsInv => SettingsStayInForce
  BY DEF SettingsInv
<1> QED
  BY <1>1, SettingsInitial, SettingsNext, PTL DEF ServerSpec

-------------------------------------------------------------------------------
(* The tables.  Rows are stamped in the order of their ids, and the table  *)
(* counts at least the rows that no pruning can have taken.                *)

Capacity(t) ==
  IF lowest[t] = 0 \/ Len(inserted[t]) <= lowest[t] THEN Len(inserted[t]) ELSE lowest[t]

RowsTyped ==
  /\ second \in Nat
  /\ inserted \in [Tables -> Seq(Nat)]
  /\ table \in [Tables -> SUBSET Nat]
  /\ lowest \in [Tables -> Nat]
  /\ turn \in Tables \cup {"none"}
  /\ \A t \in Tables :
       /\ table[t] \subseteq 1..Len(inserted[t])
       /\ \A i \in 1..Len(inserted[t]) : inserted[t][i] <= second

InOrder == \A t \in Tables : \A i \in table[t], j \in 1..Len(inserted[t]) :
  j \notin table[t] => ~Newer(t, j, i)

Enough == \A t \in Tables : Cardinality(table[t]) >= Capacity(t)

RetentionInv == RowsTyped /\ InOrder /\ Enough

LEMMA MinOfTwo ==
  ASSUME NEW a \in Nat, NEW b \in Nat
  PROVE  Min({a, b}) = IF a <= b THEN a ELSE b
<1>1. \E x \in {a, b} : \A y \in {a, b} : x <= y
  OBVIOUS
<1> QED
  BY <1>1 DEF Min

(* A table is a finite set.                                                *)
LEMMA TablesFinite ==
  ASSUME RowsTyped, NEW t \in Tables
  PROVE  IsFiniteSet(table[t]) /\ Cardinality(table[t]) \in Nat
<1>1. IsFiniteSet(1..Len(inserted[t]))
  BY FS_Interval DEF RowsTyped
<1>2. table[t] \subseteq 1..Len(inserted[t])
  BY DEF RowsTyped
<1> QED
  BY <1>1, <1>2, FS_Subset, FS_CardinalityType

LEMMA RetentionInitial == ServerInit => RetentionInv
<1> SUFFICES ASSUME ServerInit PROVE RetentionInv
  OBVIOUS
<1>1. /\ second = 0 /\ turn = "none"
      /\ inserted \in {[t \in Tables |-> <<>>], [t \in Tables |-> <<0>>]}
      /\ table = [t \in Tables |-> DOMAIN inserted[t]]
      /\ lowest = [t \in Tables |-> 0]
  BY DEF ServerInit, RetentionInit
<1>2. inserted \in [Tables -> Seq(Nat)] /\ \A t \in Tables : table[t] = 1..Len(inserted[t])
  <2>1. CASE inserted = [t \in Tables |-> <<>>]
    BY <1>1, <2>1
  <2>2. CASE inserted = [t \in Tables |-> <<0>>]
    <3>1. <<0>> \in Seq(Nat) /\ Len(<<0>>) = 1 /\ DOMAIN <<0>> = 1..1
      OBVIOUS
    <3> QED
      BY <1>1, <2>2, <3>1
  <2> QED
    BY <1>1, <2>1, <2>2
<1>3. ASSUME NEW t \in Tables
      PROVE  \A i \in 1..Len(inserted[t]) : inserted[t][i] <= second
  BY <1>1
<1>4. RowsTyped
  BY <1>1, <1>2, <1>3 DEF RowsTyped
<1>5. InOrder
  BY <1>2 DEF InOrder
<1>6. Enough
  <2> SUFFICES ASSUME NEW t \in Tables PROVE Cardinality(table[t]) = Len(inserted[t])
    BY <1>1, <1>2 DEF Enough, Capacity
  <2> QED
    BY <1>2, FS_Interval
<1> QED
  BY <1>4, <1>5, <1>6 DEF RetentionInv

LEMMA RetentionInsert ==
  ASSUME RetentionInv, NEW t \in Tables, Insert(t)
  PROVE  RetentionInv'
<1> DEFINE n == Len(inserted[t]) + 1
<1>1. /\ inserted' = [inserted EXCEPT ![t] = Append(@, second)]
      /\ table' = [table EXCEPT ![t] = @ \cup {n}]
      /\ turn' = t /\ second' = second /\ lowest' = lowest
  BY DEF Insert
<1>2. /\ inserted[t] \in Seq(Nat) /\ n \in Nat /\ second \in Nat
      /\ table[t] \subseteq 1..Len(inserted[t]) /\ n \notin table[t]
  BY DEF RetentionInv, RowsTyped
<1>3. /\ Len(inserted'[t]) = n /\ inserted'[t][n] = second
      /\ \A i \in 1..Len(inserted[t]) : inserted'[t][i] = inserted[t][i]
      /\ inserted'[t] \in Seq(Nat) /\ table'[t] = table[t] \cup {n}
  BY <1>1, <1>2 DEF RetentionInv, RowsTyped
<1>4. \A u \in Tables \ {t} : inserted'[u] = inserted[u] /\ table'[u] = table[u]
  BY <1>1 DEF RetentionInv, RowsTyped
<1>5. RowsTyped'
  <2>1. inserted' \in [Tables -> Seq(Nat)] /\ table' \in [Tables -> SUBSET Nat]
    BY <1>1, <1>2, <1>3 DEF RetentionInv, RowsTyped
  <2>2. ASSUME NEW u \in Tables
        PROVE  /\ table'[u] \subseteq 1..Len(inserted'[u])
               /\ \A i \in 1..Len(inserted'[u]) : inserted'[u][i] <= second'
    <3>1. CASE u = t
      BY <3>1, <1>1, <1>2, <1>3 DEF RetentionInv, RowsTyped
    <3>2. CASE u # t
      BY <3>2, <1>1, <1>4 DEF RetentionInv, RowsTyped
    <3> QED
      BY <3>1, <3>2
  <2> QED
    BY <1>1, <2>1, <2>2 DEF RetentionInv, RowsTyped
<1>6. InOrder'
  <2> SUFFICES ASSUME NEW u \in Tables, NEW i \in table'[u], NEW j \in 1..Len(inserted'[u]),
                      j \notin table'[u]
               PROVE  ~Newer(u, j, i)'
    BY DEF InOrder
  <2>1. CASE u # t
    BY <2>1, <1>4 DEF RetentionInv, InOrder, Newer
  <2>2. CASE u = t /\ i # n
    <3>1. /\ i \in table[t] /\ i \in 1..Len(inserted[t])
          /\ j \in 1..Len(inserted[t]) /\ j \notin table[t]
      BY <2>2, <1>2, <1>3
    <3>2. ~Newer(t, j, i)
      BY <3>1 DEF RetentionInv, InOrder
    <3> QED
      BY <2>2, <3>1, <3>2, <1>3 DEF Newer
  <2>3. CASE u = t /\ i = n
    <3>1. j \in 1..Len(inserted[t]) /\ inserted[t][j] <= second /\ inserted[t][j] \in Nat
      BY <2>3, <1>2, <1>3 DEF RetentionInv, RowsTyped
    <3> QED
      BY <3>1, <2>3, <1>2, <1>3, SMTT(30) DEF Newer
  <2> QED
    BY <2>1, <2>2, <2>3
<1>7. Enough'
  <2> SUFFICES ASSUME NEW u \in Tables PROVE Cardinality(table'[u]) >= Capacity(u)'
    BY DEF Enough
  <2>1. CASE u # t
    BY <2>1, <1>1, <1>4 DEF RetentionInv, Enough, Capacity
  <2>2. CASE u = t
    <3>1. Cardinality(table'[t]) = Cardinality(table[t]) + 1 /\ Cardinality(table[t]) \in Nat
      BY <1>2, <1>3, TablesFinite, FS_AddElement DEF RetentionInv
    <3>2. lowest[t] \in Nat /\ Len(inserted[t]) \in Nat /\ Cardinality(table[t]) >= Capacity(t)
      BY <1>2 DEF RetentionInv, RowsTyped, Enough
    <3>3. Capacity(t)' = IF lowest[t] = 0 \/ n <= lowest[t] THEN n ELSE lowest[t]
      BY <1>1, <1>3 DEF Capacity
    <3> QED
      BY <2>2, <3>1, <3>2, <3>3, <1>2 DEF Capacity
  <2> QED
    BY <2>1, <2>2
<1> QED
  BY <1>5, <1>6, <1>7 DEF RetentionInv

LEMMA RetentionPrune ==
  ASSUME RetentionInv, NEW cap \in Nat \ {0}, Prune(cap)
  PROVE  RetentionInv'
<1>1. PICK t \in Tables : t = turn
  BY DEF Prune, RetentionInv, RowsTyped
<1>2. PICK kept \in SUBSET table[t] : Keeps(t, kept, cap) /\ table' = [table EXCEPT ![t] = kept]
  BY <1>1 DEF Prune
<1>3. /\ lowest' = [lowest EXCEPT ![t] = IF @ = 0 THEN cap ELSE Min({@, cap})]
      /\ turn' = "none" /\ second' = second /\ inserted' = inserted
  BY <1>1 DEF Prune
<1>4. table'[t] = kept /\ \A u \in Tables \ {t} : table'[u] = table[u] /\ lowest'[u] = lowest[u]
  BY <1>1, <1>2, <1>3 DEF RetentionInv, RowsTyped
<1>5. lowest[t] \in Nat /\ Min({lowest[t], cap}) = IF lowest[t] <= cap THEN lowest[t] ELSE cap
  BY <1>1, MinOfTwo DEF RetentionInv, RowsTyped
<1>6. lowest'[t] = IF lowest[t] = 0 THEN cap ELSE IF lowest[t] <= cap THEN lowest[t] ELSE cap
  BY <1>1, <1>3, <1>5 DEF RetentionInv, RowsTyped
<1>7. RowsTyped'
  <2>1. table' \in [Tables -> SUBSET Nat]
    BY <1>1, <1>2 DEF RetentionInv, RowsTyped
  <2>2. lowest' \in [Tables -> Nat]
    BY <1>1, <1>3, <1>5 DEF RetentionInv, RowsTyped
  <2>3. \A u \in Tables : table'[u] \subseteq table[u]
    BY <1>4
  <2> QED
    BY <1>3, <2>1, <2>2, <2>3 DEF RetentionInv, RowsTyped
<1>8. InOrder'
  <2> SUFFICES ASSUME NEW u \in Tables, NEW i \in table'[u], NEW j \in 1..Len(inserted[u]),
                      j \notin table'[u]
               PROVE  ~Newer(u, j, i)
    BY <1>3 DEF InOrder, Newer
  <2>1. i \in table[u]
    BY <1>4
  <2>2. CASE j \notin table[u]
    BY <2>1, <2>2 DEF RetentionInv, InOrder
  <2>3. CASE j \in table[u]
    <3>1. u = t
      BY <2>3, <1>4
    <3> QED
      BY <3>1, <2>3, <1>2, <1>4 DEF Keeps
  <2> QED
    BY <2>2, <2>3
<1>9. Enough'
  <2> SUFFICES ASSUME NEW u \in Tables PROVE Cardinality(table'[u]) >= Capacity(u)'
    BY DEF Enough
  <2>1. CASE u # t
    BY <2>1, <1>3, <1>4 DEF RetentionInv, Enough, Capacity
  <2>2. CASE u = t
    <3> DEFINE c == Cardinality(table[t])
               l == Len(inserted[t])
    <3>1. c \in Nat /\ l \in Nat /\ c >= Capacity(t)
      BY <1>1, TablesFinite DEF RetentionInv, RowsTyped, Enough
    <3>2. Cardinality(kept) = IF cap <= c THEN cap ELSE c
      BY <1>2, <3>1, MinOfTwo DEF Keeps
    <3>3. Capacity(t) = IF lowest[t] = 0 \/ l <= lowest[t] THEN l ELSE lowest[t]
      BY DEF Capacity
    <3>4. Capacity(t)' = IF lowest'[t] = 0 \/ l <= lowest'[t] THEN l ELSE lowest'[t]
      BY <1>3 DEF Capacity
    <3> HIDE DEF c, l
    <3>5. Cardinality(kept) >= Capacity(t)'
      BY <3>1, <3>2, <3>3, <3>4, <1>5, <1>6
    <3> QED
      BY <2>2, <3>5, <1>4
  <2> QED
    BY <2>1, <2>2
<1> QED
  BY <1>7, <1>8, <1>9 DEF RetentionInv

LEMMA RetentionStays ==
  ASSUME RetentionInv, UNCHANGED <<inserted, table, lowest>>,
         second' \in {second, second + 1}, turn' \in {turn, "none"}
  PROVE  RetentionInv'
<1>1. RowsTyped'
  BY DEF RetentionInv, RowsTyped
<1>2. InOrder' /\ Enough'
  BY DEF RetentionInv, InOrder, Enough, Capacity, Newer
<1> QED
  BY <1>1, <1>2 DEF RetentionInv

LEMMA RetentionNext == SettingsInv /\ RetentionInv /\ [ServerNext]_serverVars => RetentionInv'
<1> SUFFICES ASSUME SettingsInv, RetentionInv, [ServerNext]_serverVars PROVE RetentionInv'
  OBVIOUS
<1>1. CASE UNCHANGED retentionVars
  BY <1>1, RetentionStays DEF retentionVars
<1>2. CASE SkipPruning \/ SecondPasses
  BY <1>2, RetentionStays DEF SkipPruning, SecondPasses
<1>3. CASE UNCHANGED serverVars \/ Start \/ RunMigrations \/ BuildServers \/ Administer \/ Signal
  BY <1>1, <1>3 DEF serverVars, Start, RunMigrations, BuildServers, Administer, Signal
<1>4. CASE StartFails \/ Crash \/ CloseDb
  BY <1>2, <1>4 DEF StartFails, Crash, CloseDb, Exit
<1>5. ASSUME NEW s \in Servers, Serve(s)
      PROVE  RetentionInv'
  <2>1. CASE RecordUsage(s) \/ Finish(s)
    <3>1. \/ Insert("usage_events") \/ Insert("request_logs")
          \/ UNCHANGED retentionVars
      BY <2>1 DEF RecordUsage, Finish
    <3> QED
      BY <3>1, <1>1, RetentionInsert DEF Tables
  <2>2. CASE Listen(s) \/ Accept(s) \/ Disconnect(s) \/ CloseServer(s)
    BY <1>1, <2>2 DEF Listen, Accept, Disconnect, CloseServer
  <2> QED
    BY <1>5, <2>1, <2>2 DEF Serve
<1>6. CASE EndTurn
  <2>1. values["maxLogEntries"] \in Nat \ {0}
    BY FolderAssumption DEF SettingsInv
  <2> QED
    BY <1>2, <1>6, <2>1, RetentionPrune DEF EndTurn
<1>7. CASE Tick
  BY <1>2, <1>7 DEF Tick
<1> QED
  BY <1>3, <1>4, <1>5, <1>6, <1>7 DEF ServerNext

(* recordUsage and persistLog: whatever the caps and however prunings are  *)
(* interrupted, the tables keep the newest rows, and as many as the lowest *)
(* cap allows.                                                             *)
THEOREM PruningKeepsTheNewest == ServerSpec => []RetentionKeepsTheNewest
<1>1. RetentionInv => RetentionKeepsTheNewest
  <2> SUFFICES ASSUME RetentionInv, NEW t \in Tables
               PROVE  /\ \A i \in table[t], j \in DOMAIN inserted[t] \ table[t] : ~Newer(t, j, i)
                      /\ Cardinality(table[t]) >= Capacity(t)
    <3> SUFFICES ASSUME RetentionInv, NEW t \in Tables
                 PROVE  Capacity(t) = IF lowest[t] = 0 THEN Len(inserted[t])
                                      ELSE Min({lowest[t], Len(inserted[t])})
      BY DEF RetentionKeepsTheNewest
    <3>1. lowest[t] \in Nat /\ Len(inserted[t]) \in Nat
      BY DEF RetentionInv, RowsTyped
    <3> QED
      BY <3>1, MinOfTwo DEF Capacity
  <2>1. DOMAIN inserted[t] = 1..Len(inserted[t])
    BY DEF RetentionInv, RowsTyped
  <2> QED
    BY <2>1 DEF RetentionInv, InOrder, Enough
<1> QED
  BY <1>1, RetentionInitial, RetentionNext, SettingsInitial, SettingsNext, PTL DEF ServerSpec

-------------------------------------------------------------------------------
(* Shutdown: a server that has closed has no client left.                  *)

ClosedInv ==
  /\ closed \cap connected = {}
  /\ phase # "closing" => closed = {}

LEMMA ClosedNext == ClosedInv /\ [ServerNext]_serverVars => ClosedInv'
<1> SUFFICES ASSUME ClosedInv, [ServerNext]_serverVars PROVE ClosedInv'
  OBVIOUS
<1> USE DEF ClosedInv
<1>1. CASE UNCHANGED serverVars
  BY <1>1 DEF serverVars, processVars
<1>2. CASE Start \/ RunMigrations \/ BuildServers
  BY <1>2 DEF Start, RunMigrations, BuildServers
<1>3. CASE StartFails \/ Crash \/ CloseDb
  BY <1>3 DEF StartFails, Crash, CloseDb, Exit
<1>4. ASSUME NEW s \in Servers, Serve(s)
      PROVE  ClosedInv'
  BY <1>4 DEF Serve, Listen, Accept, RecordUsage, Finish, Disconnect, CloseServer, Closes
<1>5. CASE EndTurn \/ Tick \/ Administer
  BY <1>5 DEF EndTurn, Tick, Administer, processVars
<1>6. CASE Signal
  BY <1>6 DEF Signal
<1> QED
  BY <1>1, <1>2, <1>3, <1>4, <1>5, <1>6 DEF ServerNext

(* main.ts, shutdown: the database is closed when nobody waits any more.   *)
THEOREM ShutdownCutsNobodyOff == ServerSpec => RequestsEndBeforeTheDatabaseCloses
<1>1. ServerInit => ClosedInv
  BY DEF ServerInit, ClosedInv
<1>2. ClosedInv =>
        [CloseDb => \A s \in Servers : request[s] # "none" => s \notin connected]_serverVars
  BY DEF ClosedInv, CloseDb, AllSettled
<1> QED
  BY <1>1, <1>2, ClosedNext, PTL DEF ServerSpec, RequestsEndBeforeTheDatabaseCloses

-------------------------------------------------------------------------------
(* The migrations.                                                         *)

Names ==
  {"admin_users", "admin_sessions", "client_keys", "provider_credentials", "models",
   "model_cache", "model_credential_state", "usage_events", "request_logs", "audit_logs",
   "app_metadata", "idx_client_keys_hash", "idx_client_keys_revoked",
   "idx_provider_credentials_revoked", "idx_model_credential_state_cooldown",
   "idx_usage_events_client_model_day", "idx_usage_events_provider_model_day",
   "idx_request_logs_trace", "idx_request_logs_client_created",
   "idx_request_logs_model_created", "idx_request_logs_outcome_created",
   "idx_audit_logs_created", "idx_admin_sessions_expires", "model_groups",
   "model_group_pairs", "idx_model_group_pairs_target"}

Statements ==
  [op : {"create_if_absent", "drop", "create", "add_column"}, name : Names, form : {"v1", "v2"}]

(* Doing a statement again changes nothing.                                *)
LEMMA EffectTwice ==
  ASSUME NEW s, NEW st
  PROVE  Effect(Effect(s, st), st) = Effect(s, st)
<1> DEFINE element == [name |-> st.name, form |-> st.form]
           rest == s \ Named(s, st.name)
<1>1. element.name = st.name
  OBVIOUS
<1> HIDE DEF element
<1>2. Named(rest, st.name) = {} /\ Named(rest \cup {element}, st.name) = {element}
  BY <1>1 DEF Named
<1>3. CASE st.op = "drop"
  BY <1>2, <1>3 DEF Effect
<1>4. CASE st.op = "create_if_absent" /\ Named(s, st.name) # {}
  BY <1>4 DEF Effect
<1>5. CASE st.op # "drop" /\ ~(st.op = "create_if_absent" /\ Named(s, st.name) # {})
  <2>1. Effect(s, st) = rest \cup {element}
    BY <1>5 DEF Effect, element
  <2>2. ((rest \cup {element}) \ {element}) \cup {element} = rest \cup {element}
    OBVIOUS
  <2>3. Effect(rest \cup {element}, st) = rest \cup {element}
    BY <1>2, <1>5, <2>2 DEF Effect, element
  <2> QED
    BY <2>1, <2>3
<1> QED
  BY <1>3, <1>4, <1>5

LEMMA ListOfStatements ==
  ASSUME NEW names \in Seq(Names), NEW op \in {"create_if_absent", "drop"}
  PROVE  /\ [i \in DOMAIN names |-> Statement(op, names[i], "v1")] \in Seq(Statements)
         /\ Len([i \in DOMAIN names |-> Statement(op, names[i], "v1")]) = Len(names)
         /\ \A i \in 1..Len(names) :
              [j \in DOMAIN names |-> Statement(op, names[j], "v1")][i].op = op
<1>1. DOMAIN names = 1..Len(names) /\ Len(names) \in Nat
  OBVIOUS
<1>2. \A i \in 1..Len(names) : /\ Statement(op, names[i], "v1") \in Statements
                               /\ Statement(op, names[i], "v1").op = op
  <2> SUFFICES ASSUME NEW i \in 1..Len(names)
               PROVE  /\ Statement(op, names[i], "v1") \in Statements
                      /\ Statement(op, names[i], "v1").op = op
    OBVIOUS
  <2>1. names[i] \in Names
    OBVIOUS
  <2> QED
    BY <2>1 DEF Statement, Statements
<1> QED
  BY <1>1, <1>2

LEMMA Concatenated ==
  ASSUME NEW S, NEW s \in Seq(S), NEW t \in Seq(S)
  PROVE  /\ s \o t \in Seq(S)
         /\ Len(s \o t) = Len(s) + Len(t)
         /\ \A i \in 1..Len(s) : (s \o t)[i] = s[i]
OBVIOUS

(* The statements that cannot be done twice are the last four.             *)
LEMMA MigrationsAre ==
  /\ Len(InitialSchema) \in Nat /\ Latest \in Nat /\ Len(InitialSchema) <= Latest
  /\ \A i \in 1..Latest : Migrations[i].op \in {"create", "add_column"} => i >= Latest - 3
<1> DEFINE initial == <<"admin_users", "admin_sessions", "client_keys", "provider_credentials",
                        "models", "model_cache", "model_credential_state", "usage_events",
                        "request_logs", "audit_logs", "app_metadata",
                        "idx_client_keys_hash", "idx_client_keys_revoked",
                        "idx_provider_credentials_revoked", "idx_model_credential_state_cooldown",
                        "idx_usage_events_client_model_day", "idx_usage_events_provider_model_day",
                        "idx_request_logs_trace", "idx_request_logs_client_created",
                        "idx_request_logs_model_created", "idx_request_logs_outcome_created",
                        "idx_audit_logs_created", "idx_admin_sessions_expires",
                        "model_groups">>
           replaced == <<"model_cache", "models", "model_groups">>
           last == <<Statement("create", "model_groups", "v2"),
                     Statement("create", "model_group_pairs", "v1"),
                     Statement("create", "idx_model_group_pairs_target", "v1"),
                     Statement("add_column", "model_credential_state", "v2")>>
<1>1. initial \in Seq(Names)
  BY DEF Names
<1>0. replaced \in Seq(Names)
  BY DEF Names
<1>2. last \in Seq(Statements) /\ Len(last) = 4
  <2>1. Len(last) = 4
    OBVIOUS
  <2>2. \A i \in 1..4 : last[i] \in Statements
    BY DEF Statement, Statements, Names
  <2>3. DOMAIN last = 1..4
    OBVIOUS
  <2>4. last \in Seq(Statements)
    BY <2>1, <2>2, <2>3
  <2> QED
    BY <2>1, <2>4
<1>3. /\ InitialSchema = CreateIfAbsent(initial)
      /\ GroupsOfPairs = DropIfPresent(replaced) \o last
  BY DEF InitialSchema, GroupsOfPairs
<1> HIDE DEF initial, replaced, last
<1>4. /\ InitialSchema \in Seq(Statements)
      /\ \A i \in 1..Len(InitialSchema) : InitialSchema[i].op = "create_if_absent"
  BY <1>1, <1>3, ListOfStatements DEF CreateIfAbsent
<1> DEFINE dropped == DropIfPresent(replaced)
<1>5. dropped \in Seq(Statements) /\ \A i \in 1..Len(dropped) : dropped[i].op = "drop"
  BY <1>0, ListOfStatements DEF DropIfPresent
<1> HIDE DEF dropped
<1>6. Migrations = InitialSchema \o (dropped \o last)
  BY <1>3 DEF Migrations, dropped
<1>7. /\ dropped \o last \in Seq(Statements)
      /\ Len(dropped \o last) = Len(dropped) + 4
      /\ \A i \in 1..Len(dropped) : (dropped \o last)[i] = dropped[i]
  <2>1. dropped \in Seq(Statements) /\ last \in Seq(Statements)
    BY <1>2, <1>5
  <2>2. /\ dropped \o last \in Seq(Statements)
        /\ Len(dropped \o last) = Len(dropped) + Len(last)
        /\ \A i \in 1..Len(dropped) : (dropped \o last)[i] = dropped[i]
    BY <2>1, Concatenated, Zenon
  <2> QED
    BY <1>2, <2>2
<1>8. /\ Len(InitialSchema) \in Nat /\ Len(dropped) \in Nat
      /\ Latest = Len(InitialSchema) + Len(dropped) + 4
  <2>1. Len(InitialSchema) \in Nat /\ Len(dropped) \in Nat
    BY <1>4, <1>5
  <2>2. Len(Migrations) = Len(InitialSchema) + (Len(dropped) + 4)
    <3>1. Len(Migrations) = Len(InitialSchema) + Len(dropped \o last)
      BY <1>4, <1>6, <1>7, Concatenated, Zenon
    <3> QED
      BY <1>7, <3>1
  <2> QED
    BY <2>1, <2>2 DEF Latest
<1>9. ASSUME NEW i \in 1..Latest, i < Latest - 3
      PROVE  Migrations[i].op \notin {"create", "add_column"}
  <2>1. CASE i <= Len(InitialSchema)
    <3>1. i \in 1..Len(InitialSchema)
      BY <1>8, <2>1
    <3>2. Migrations[i] = InitialSchema[i]
      BY <1>4, <1>6, <1>7, <3>1
    <3> QED
      BY <1>4, <3>1, <3>2
  <2>2. CASE ~(i <= Len(InitialSchema))
    <3> DEFINE j == i - Len(InitialSchema)
    <3>1. j \in 1..Len(dropped)
      BY <1>8, <1>9, <2>2
    <3>2. Migrations[i] = (dropped \o last)[j]
      BY <1>4, <1>6, <1>7, <1>8, <1>9, <2>2
    <3> QED
      BY <1>5, <1>7, <3>1, <3>2
  <2> QED
    BY <2>1, <2>2
<1> QED
  BY <1>8, <1>9

LEMMA Smallest ==
  ASSUME NEW T \in SUBSET Nat, T # {}
  PROVE  \E m \in T : \A n \in T : m <= n
<1> DEFINE R == OpToRel(<, Nat)
<1>1. PICK m \in T : \A n \in T : <<n, m>> \notin R
  BY NatLessThanWellFounded, WFMin
<1>2. \A n \in Nat : n < m => <<n, m>> \in R
  BY DEF OpToRel
<1> HIDE DEF R
<1>3. ASSUME NEW n \in T
      PROVE  m <= n
  <2>1. n \in Nat /\ m \in Nat
    OBVIOUS
  <2>2. ~(n < m)
    BY <1>1, <1>2, <2>1
  <2> QED
    BY <2>1, <2>2
<1> QED
  BY <1>3

(* The equations of SchemaOf have a solution: up to every version, or else *)
(* up to the one before the first for which they have none.                *)
LEMMA SchemaOfIs ==
  /\ SchemaOf[0] = {}
  /\ \A n \in 1..Latest : SchemaOf[n] = Effect(SchemaOf[n - 1], Migrations[n])
<1> DEFINE Then(f, i) == IF i = 0 THEN {} ELSE Effect(f[i - 1], Migrations[i])
           Solves(f, n) == f = [i \in 0..n |-> Then(f, i)]
           bad == {n \in 0..Latest : ~ \E f : Solves(f, n)}
<1>0. Latest \in Nat
  BY MigrationsAre
<1>1. ASSUME NEW n \in 1..Latest, NEW f, Solves(f, n - 1)
      PROVE  \E g : Solves(g, n)
  <2> DEFINE g == [i \in 0..n |-> IF i = n THEN Then(f, n) ELSE f[i]]
  <2>0. \A i \in 0..n - 1 : i \in 0..n /\ i # n
    BY <1>0
  <2>1. \A i \in 0..n - 1 : g[i] = f[i]
    BY <2>0
  <2>8. \A i \in 0..n - 1 : f[i] = Then(f, i)
    BY <1>1
  <2>2. g[n] = Then(f, n) /\ n # 0
    OBVIOUS
  <2>3. \A i \in 1..n : i - 1 \in 0..n - 1 /\ g[i - 1] = f[i - 1]
    BY <2>1
  <2>4. \A i \in 0..n : Then(g, i) = Then(f, i)
    BY <2>3
  <2>5. \A i \in 0..n : g[i] = Then(g, i)
    BY <1>0, <2>1, <2>2, <2>4, <2>8
  <2>6. g = [i \in 0..n |-> g[i]]
    OBVIOUS
  <2> HIDE DEF g
  <2>7. Solves(g, n)
    BY <2>5, <2>6
  <2> QED
    BY <2>7
<1>2. \E f : Solves(f, 0)
  <2> DEFINE f == [i \in 0..0 |-> {}]
  <2>1. \A i \in 0..0 : Then(f, i) = {}
    OBVIOUS
  <2>2. Solves(f, 0)
    BY <2>1
  <2> QED
    BY <2>2
<1> HIDE DEF Solves
<1>3. bad = {}
  <2> SUFFICES ASSUME bad # {}
               PROVE  FALSE
    OBVIOUS
  <2>1. PICK n \in bad : \A m \in bad : n <= m
    <3>1. bad \in SUBSET Nat
      BY <1>0
    <3> HIDE DEF bad
    <3> QED
      BY <3>1, Smallest
  <2>2. n # 0
    BY <1>2
  <2>3. n \in 1..Latest /\ n - 1 \in 0..Latest /\ n - 1 \notin bad
    BY <1>0, <2>1, <2>2
  <2> QED
    BY <1>1, <2>3
<1>4. \E f : Solves(f, Latest)
  BY <1>0, <1>3
<1>5. SchemaOf = CHOOSE f : Solves(f, Latest)
  BY DEF SchemaOf, Solves
<1>6. Solves(SchemaOf, Latest)
  BY <1>4, <1>5
<1>7. SchemaOf = [i \in 0..Latest |-> Then(SchemaOf, i)]
  BY <1>6 DEF Solves
<1>8. \A i \in 0..Latest : SchemaOf[i] = Then(SchemaOf, i)
  BY <1>7
<1>9. \A i \in 1..Latest : i \in 0..Latest /\ i # 0
  BY <1>0
<1> QED
  BY <1>0, <1>8, <1>9

(* The recorded statements are the first n, and the schema is of version n *)
(* or has the statement after it, recorded or not yet.                     *)
At(n) ==
  /\ applied = 1..n
  /\ \/ executed = 0 /\ (schema = SchemaOf[n] \/ (n < Latest /\ schema = SchemaOf[n + 1]))
     \/ executed = n + 1 /\ n < Latest /\ schema = SchemaOf[n + 1]

MigrationInv == \E n \in 0..Latest : At(n)

LEMMA DueIs ==
  ASSUME NEW n \in 0..Latest, applied = 1..n, Unapplied # {}
  PROVE  n < Latest /\ Due = n + 1
<1>1. Latest \in Nat
  BY MigrationsAre
<1>2. Unapplied = (n + 1)..Latest
  BY <1>1 DEF Unapplied
<1>3. n < Latest
  BY <1>1, <1>2
<1>4. n + 1 \in Unapplied /\ \A j \in Unapplied : n + 1 <= j
  BY <1>1, <1>2, <1>3
<1>5. \A i \in Unapplied : i \in Nat
  BY <1>1, <1>2
<1>6. Due \in Unapplied /\ \A j \in Unapplied : Due <= j
  BY <1>4 DEF Due
<1> QED
  BY <1>3, <1>4, <1>5, <1>6

LEMMA MigrationInitial == ServerInit => MigrationInv
<1> SUFFICES ASSUME ServerInit PROVE MigrationInv
  OBVIOUS
<1>1. /\ applied = {} \/ applied = 1..Len(InitialSchema)
      /\ schema = SchemaOf[Cardinality(applied)] /\ executed = 0
  BY DEF ServerInit
<1>2. PICK n \in 0..Latest : applied = 1..n
  <2>1. {} = 1..0
    OBVIOUS
  <2>2. 0 \in 0..Latest /\ Len(InitialSchema) \in 0..Latest
    BY MigrationsAre
  <2> QED
    BY <1>1, <2>1, <2>2
<1>3. Cardinality(1..n) = n
  <2>1. n \in Nat
    BY MigrationsAre
  <2>2. Cardinality(1..n) = IF 1 > n THEN 0 ELSE n - 1 + 1
    BY <2>1, FS_Interval
  <2> QED
    BY <2>1, <2>2
<1>4. schema = SchemaOf[n]
  BY <1>1, <1>2, <1>3
<1>5. At(n)
  BY <1>1, <1>2, <1>4 DEF At
<1> QED
  BY <1>5 DEF MigrationInv

(* A statement that was executed before the process died is due again.     *)
LEMMA MigrationExec == MigrationInv /\ Exec => MigrationInv'
<1> SUFFICES ASSUME MigrationInv, Exec PROVE MigrationInv'
  OBVIOUS
<1>1. PICK n \in 0..Latest : At(n)
  BY DEF MigrationInv
<1>2. /\ executed = 0 /\ applied' = applied /\ Unapplied # {}
      /\ schema' = Effect(schema, Migrations[Due]) /\ executed' = Due
  BY DEF Exec
<1>3. n \in Nat /\ Latest \in Nat
  BY MigrationsAre
<1>4. applied = 1..n /\ (schema = SchemaOf[n] \/ (n < Latest /\ schema = SchemaOf[n + 1]))
  BY <1>1, <1>2, <1>3 DEF At
<1>5. n < Latest /\ Due = n + 1
  BY <1>2, <1>4, DueIs
<1>6. SchemaOf[n + 1] = Effect(SchemaOf[n], Migrations[n + 1])
  <2>1. n + 1 \in 1..Latest /\ (n + 1) - 1 = n
    BY <1>3, <1>5
  <2> QED
    BY <2>1, SchemaOfIs
<1>7. schema' = SchemaOf[n + 1]
  BY <1>2, <1>4, <1>5, <1>6, EffectTwice
<1>8. At(n)'
  BY <1>2, <1>4, <1>5, <1>7 DEF At
<1> QED
  BY <1>8 DEF MigrationInv

LEMMA MigrationRecord == MigrationInv /\ Record => MigrationInv'
<1> SUFFICES ASSUME MigrationInv, Record PROVE MigrationInv'
  OBVIOUS
<1>1. PICK n \in 0..Latest : At(n)
  BY DEF MigrationInv
<1>2. /\ executed # 0 /\ applied' = applied \cup {executed}
      /\ executed' = 0 /\ schema' = schema
  BY DEF Record
<1>3. n \in Nat /\ Latest \in Nat
  BY MigrationsAre
<1>4. applied = 1..n /\ executed = n + 1 /\ n < Latest /\ schema = SchemaOf[n + 1]
  BY <1>1, <1>2 DEF At
<1>5. 1..n \cup {n + 1} = 1..n + 1 /\ n + 1 \in 0..Latest
  BY <1>3, <1>4
<1>6. PICK m \in 0..Latest : m = n + 1
  BY <1>5
<1>7. applied' = 1..m
  BY <1>2, <1>4, <1>5, <1>6
<1>8. executed' = 0 /\ schema' = SchemaOf[m]
  BY <1>2, <1>4, <1>6
<1>9. At(m)'
  BY <1>7, <1>8 DEF At
<1> QED
  BY <1>9 DEF MigrationInv

LEMMA MigrationStays ==
  MigrationInv /\ UNCHANGED <<schema, applied>> /\ executed' \in {0, executed} => MigrationInv'
<1> SUFFICES ASSUME MigrationInv, UNCHANGED <<schema, applied>>, executed' \in {0, executed}
             PROVE  MigrationInv'
  OBVIOUS
<1>1. PICK n \in 0..Latest : At(n)
  BY DEF MigrationInv
<1>2. At(n)'
  BY <1>1 DEF At
<1> QED
  BY <1>2 DEF MigrationInv

LEMMA MigrationNext == MigrationInv /\ [ServerNext]_serverVars => MigrationInv'
<1> SUFFICES ASSUME MigrationInv, [ServerNext]_serverVars PROVE MigrationInv'
  OBVIOUS
<1>1. CASE RunMigrations
  BY <1>1, MigrationExec, MigrationRecord, MigrationStays
     DEF RunMigrations, Migrate, migrationVars
<1>2. CASE ~RunMigrations
  <2>1. UNCHANGED <<schema, applied>> /\ executed' \in {0, executed}
    <3>1. CASE UNCHANGED serverVars
      BY <3>1 DEF serverVars, migrationVars
    <3>2. CASE Start \/ BuildServers
      BY <3>2 DEF Start, BuildServers, migrationVars
    <3>3. CASE StartFails \/ Crash \/ CloseDb
      BY <3>3 DEF StartFails, Crash, CloseDb, Exit
    <3>4. ASSUME NEW s \in Servers, Serve(s)
          PROVE  UNCHANGED <<schema, applied>> /\ executed' \in {0, executed}
      BY <3>4 DEF Serve, Listen, Accept, RecordUsage, Finish, Disconnect, CloseServer,
                  migrationVars
    <3>5. CASE EndTurn \/ Tick \/ Administer \/ Signal
      BY <3>5 DEF EndTurn, Tick, Administer, Signal, migrationVars
    <3> QED
      BY <1>2, <3>1, <3>2, <3>3, <3>4, <3>5 DEF ServerNext
  <2> QED
    BY <2>1, MigrationStays
<1> QED
  BY <1>1, <1>2

(* runMigrations (connection.ts), which executes a statement and then      *)
(* records it: wherever starts are cut off, the schema is the one of the   *)
(* recorded version or the one after it, because every statement leaves    *)
(* the same behind when it is done again; and only the last four           *)
(* statements can refuse to be done again.                                 *)
THEOREM SchemaFollows == ServerSpec => []SchemaFollowsItsVersion
<1>1. MigrationInv => SchemaFollowsItsVersion
  <2> SUFFICES ASSUME MigrationInv PROVE SchemaFollowsItsVersion
    OBVIOUS
  <2>1. PICK n \in 0..Latest : At(n)
    BY DEF MigrationInv
  <2>2. /\ applied = 1..n
        /\ schema = SchemaOf[n] \/ (n < Latest /\ schema = SchemaOf[n + 1])
    BY <2>1 DEF At
  <2>3. ASSUME Rejected
        PROVE  n >= Latest - 4
    <3>1. Unapplied # {} /\ ~Accepts(schema, Migrations[Due])
      BY <2>3 DEF Rejected
    <3>2. n < Latest /\ Due = n + 1
      BY <2>2, <3>1, DueIs
    <3>3. Migrations[Due].op \in {"create", "add_column"}
      BY <3>1 DEF Accepts
    <3>4. n + 1 >= Latest - 3
      <4>1. n + 1 \in 1..Latest
        BY <3>2, MigrationsAre
      <4> QED
        BY <3>2, <3>3, <4>1, MigrationsAre
    <3>5. n \in Nat /\ Latest \in Nat
      BY MigrationsAre
    <3> QED
      BY <3>4, <3>5
  <2> QED
    BY <2>2, <2>3 DEF SchemaFollowsItsVersion
<1> QED
  BY <1>1, MigrationInitial, MigrationNext, PTL DEF ServerSpec
===============================================================================

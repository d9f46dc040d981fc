-------------------------------- MODULE Server --------------------------------
(***************************************************************************)
(* The life of the process (main.ts, http/server.ts) over what lies in its *)
(* data folder: the migrations, the key and the settings are read when it  *)
(* starts, the three servers listen, requests write their usage events and *)
(* logs, and a signal closes the servers and then the database.  It may be *)
(* killed at any step, and is started again (docker-compose.yml, restart:  *)
(* unless-stopped).                                                        *)
(***************************************************************************)
EXTENDS Migrations, DataFolder, Retention

CONSTANTS MaxRequests \* bound on the requests

Servers == {"admin", "gemini", "openai"}

VARIABLES
  phase,     \* down, migrating, building, up or closing
  listening, \* the servers whose listen has succeeded
  closed,    \* the servers whose close has settled
  request,   \* the request a server is busy with: none, calling or called
  connected, \* its client still waits for the answer
  accepted   \* requests so far

processVars == <<phase, listening, closed, request, connected, accepted>>
serverVars == <<processVars, migrationVars, folderVars, retentionVars>>

Idle == [s \in Servers |-> "none"]

ServerInit ==
  /\ phase = "down" /\ listening = {} /\ closed = {}
  /\ request = Idle /\ connected = {} /\ accepted = 0
  /\ executed = 0
  /\ \/ FreshFolder /\ applied = {}
        /\ inserted = [t \in Tables |-> <<>>]
     \/ /\ UsedFolder /\ applied = 1..Len(InitialSchema)
        /\ inserted = [t \in Tables |-> <<0>>]
  /\ schema = SchemaOf[Cardinality(applied)]
  /\ FolderInit
  /\ RetentionInit

-------------------------------------------------------------------------------
(* The end of a process, for whatever reason: what is in memory is gone.   *)
Exit ==
  /\ phase' = "down" /\ listening' = {} /\ closed' = {}
  /\ request' = Idle /\ connected' = {}
  /\ executed' = 0
  /\ ForgetFolder
  /\ SkipPruning
  /\ UNCHANGED <<accepted, schema, applied>>

(* SIGKILL, a power-off; before the handlers are installed, any signal.    *)
Crash == phase # "down" /\ UNCHANGED keyFile /\ Exit

Start ==
  /\ phase = "down" /\ phase' = "migrating"
  /\ UNCHANGED <<listening, closed, request, connected, accepted,
                 migrationVars, folderVars, retentionVars>>

RunMigrations ==
  /\ phase = "migrating"
  /\ \/ Migrate /\ UNCHANGED phase
     \/ UpToDate /\ phase' = "building" /\ UNCHANGED migrationVars
  /\ UNCHANGED <<listening, closed, request, connected, accepted,
                 folderVars, retentionVars>>

(* The catch of main: a statement is refused, the key file cannot be       *)
(* written, a port is taken.                                               *)
StartFails ==
  \/ phase = "migrating" /\ Rejected /\ UNCHANGED keyFile /\ Exit
  \/ phase = "building" /\ WriteKeyFails /\ Exit
  \/ /\ phase \in {"up", "closing"} /\ listening # Servers
     /\ UNCHANGED keyFile /\ Exit

BuildServers ==
  /\ phase = "building"
  /\ \/ (LoadKey \/ OpenKeyFile \/ WriteKey) /\ UNCHANGED <<phase, settingsVars>>
     \/ /\ key # None /\ InitSettings
        /\ phase' = "up"
        /\ UNCHANGED keyVars
  /\ UNCHANGED <<listening, closed, request, connected, accepted,
                 migrationVars, retentionVars>>

Listen(s) ==
  /\ phase = "up" /\ s \notin listening
  /\ listening' = listening \cup {s}
  /\ UNCHANGED <<phase, closed, request, connected, accepted,
                 migrationVars, folderVars, retentionVars>>

-------------------------------------------------------------------------------
(* Requests.  A gateway's waits for its upstream and records the usage of  *)
(* an attempt, then logs its answer; the admin server's probe writes       *)
(* nothing, and its other handlers are one step.                           *)

Accept(s) ==
  /\ phase = "up" /\ s \in listening /\ turn = "none"
  /\ request[s] = "none" /\ accepted < MaxRequests
  /\ request' = [request EXCEPT ![s] = "calling"]
  /\ connected' = connected \cup {s}
  /\ accepted' = accepted + 1
  /\ UNCHANGED <<phase, listening, closed, migrationVars, folderVars, retentionVars>>

RecordUsage(s) ==
  /\ s # "admin" /\ request[s] = "calling"
  /\ Insert("usage_events")
  /\ request' = [request EXCEPT ![s] = "called"]
  /\ UNCHANGED <<phase, listening, closed, connected, accepted,
                 migrationVars, folderVars>>

Finish(s) ==
  /\ turn = "none"
  /\ \/ s # "admin" /\ request[s] = "called" /\ Insert("request_logs")
     \/ s = "admin" /\ request[s] = "calling" /\ UNCHANGED retentionVars
  /\ request' = [request EXCEPT ![s] = "none"]
  /\ connected' = connected \ {s}
  /\ UNCHANGED <<phase, listening, closed, accepted, migrationVars, folderVars>>

EndTurn ==
  /\ phase \in {"up", "closing"} /\ turn # "none"
  /\ \/ Prune(values["maxLogEntries"])
     \/ SkipPruning
  /\ UNCHANGED <<processVars, migrationVars, folderVars>>

(* The handler goes on without its client.                                 *)
Disconnect(s) ==
  /\ phase \in {"up", "closing"} /\ s \in connected
  /\ connected' = connected \ {s}
  /\ UNCHANGED <<phase, listening, closed, request, accepted,
                 migrationVars, folderVars, retentionVars>>

Administer ==
  /\ phase = "up" /\ "admin" \in listening /\ turn = "none"
  /\ \/ StoreCredential /\ UNCHANGED settingsVars
     \/ \E patch \in Patches : UpdateSettings(patch) /\ UNCHANGED keyVars
  /\ UNCHANGED <<processVars, migrationVars, retentionVars>>

-------------------------------------------------------------------------------
(* shutdown: a second signal finds shuttingDown set and changes nothing.   *)

Signal ==
  /\ phase = "up" /\ turn = "none"
  /\ phase' = "closing"
  /\ UNCHANGED <<listening, closed, request, connected, accepted,
                 migrationVars, folderVars, retentionVars>>

(* Slip: a server that never listened does not close.                      *)
ClosesIfListening(s) == s \in listening /\ s \notin connected

(* close waits for the connections that are not idle.                      *)
Closes(s) == s \notin connected

CloseServer(s) ==
  /\ phase = "closing" /\ s \notin closed
  /\ Closes(s)
  /\ closed' = closed \cup {s}
  /\ UNCHANGED <<phase, listening, request, connected, accepted,
                 migrationVars, folderVars, retentionVars>>

(* Slip: the first close to settle is enough.                              *)
AnySettled == closed # {}

AllSettled == closed = Servers

CloseDb ==
  /\ phase = "closing" /\ AllSettled /\ turn = "none"
  /\ UNCHANGED keyFile
  /\ Exit

Tick ==
  /\ SecondPasses
  /\ UNCHANGED <<processVars, migrationVars, folderVars>>

Serve(s) ==
  Listen(s) \/ Accept(s) \/ RecordUsage(s) \/ Finish(s) \/ Disconnect(s) \/ CloseServer(s)

ServerNext ==
  \/ Start \/ RunMigrations \/ BuildServers \/ StartFails \/ Crash
  \/ \E s \in Servers : Serve(s)
  \/ EndTurn \/ Administer
  \/ Signal \/ CloseDb
  \/ Tick

(* The event loop goes on: a handler's attempts are timed out by the       *)
(* settings, so it ends, and what has settled is acted upon.               *)
Fairness ==
  /\ \A s \in Servers : WF_serverVars(RecordUsage(s)) /\ WF_serverVars(Finish(s))
                          /\ WF_serverVars(CloseServer(s))
  /\ WF_serverVars(EndTurn)
  /\ WF_serverVars(CloseDb)

ServerSpec == ServerInit /\ [][ServerNext]_serverVars /\ Fairness

-------------------------------------------------------------------------------
(* What an administrator saved is in force from the answer on, in this     *)
(* process and in every later one, until something else is saved.          *)
SettingsStayInForce ==
  phase \in {"up", "closing"} /\ chosen # None => values = chosen

(* A shutdown cuts nobody off: when the database is closed, no client      *)
(* waits for an answer.  (A request whose client left is cut off.)         *)
RequestsEndBeforeTheDatabaseCloses ==
  [][CloseDb => \A s \in Servers : request[s] # "none" => s \notin connected]_serverVars

(* Shutdown waits for requests, but not for ever.                          *)
ShutdownEnds == phase = "closing" ~> phase = "down"
===============================================================================

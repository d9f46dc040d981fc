------------------------------ MODULE Migrations ------------------------------
(***************************************************************************)
(* The versioned migrations of infrastructure/db/connection.ts: a list of  *)
(* statements, each executed and then recorded, with no transaction around *)
(* the two, at every start of the process.                                 *)
(***************************************************************************)
EXTENDS Integers, Sequences, FiniteSets

VARIABLES
  schema,   \* the tables and indexes of the database, each in a form
  applied,  \* the rows of schema_version
  executed  \* the statement this process executed and has not recorded, or 0

migrationVars == <<schema, applied, executed>>

-------------------------------------------------------------------------------
(* The statements, by what they do to the schema.                          *)

Statement(op, name, form) == [op |-> op, name |-> name, form |-> form]

CreateIfAbsent(names) ==
  [i \in DOMAIN names |-> Statement("create_if_absent", names[i], "v1")]

DropIfPresent(names) == [i \in DOMAIN names |-> Statement("drop", names[i], "v1")]

InitialSchema == CreateIfAbsent(
  <<"admin_users", "admin_sessions", "client_keys", "provider_credentials",
    "models", "model_cache", "model_credential_state", "usage_events",
    "request_logs", "audit_logs", "app_metadata",
    "idx_client_keys_hash", "idx_client_keys_revoked",
    "idx_provider_credentials_revoked", "idx_model_credential_state_cooldown",
    "idx_usage_events_client_model_day", "idx_usage_events_provider_model_day",
    "idx_request_logs_trace", "idx_request_logs_client_created",
    "idx_request_logs_model_created", "idx_request_logs_outcome_created",
    "idx_audit_logs_created", "idx_admin_sessions_expires",
    "model_groups">>)

GroupsOfPairs ==
  DropIfPresent(<<"model_cache", "models", "model_groups">>) \o
  <<Statement("create", "model_groups", "v2"),
    Statement("create", "model_group_pairs", "v1"),
    Statement("create", "idx_model_group_pairs_target", "v1"),
    Statement("add_column", "model_credential_state", "v2")>>

Migrations == InitialSchema \o GroupsOfPairs

Latest == Len(Migrations)

(* What SQLite does with one statement.                                    *)
Named(s, name) == {e \in s : e.name = name}

Accepts(s, st) ==
  CASE st.op = "create" -> Named(s, st.name) = {}
    [] st.op = "add_column" -> \E e \in Named(s, st.name) : e.form # st.form
    [] OTHER -> TRUE

Effect(s, st) ==
  LET element == [name |-> st.name, form |-> st.form] IN
  CASE st.op = "drop" -> s \ Named(s, st.name)
    [] st.op = "create_if_absent" /\ Named(s, st.name) # {} -> s
    [] OTHER -> (s \ Named(s, st.name)) \cup {element}

(* The schema that a version stands for.                                   *)
SchemaOf[n \in 0..Latest] ==
  IF n = 0 THEN {} ELSE Effect(SchemaOf[n - 1], Migrations[n])

-------------------------------------------------------------------------------
(* runMigrations                                                           *)

Unapplied == (1..Latest) \ applied

Due == CHOOSE i \in Unapplied : \A j \in Unapplied : i <= j

Exec ==
  /\ executed = 0 /\ Unapplied # {}
  /\ Accepts(schema, Migrations[Due])
  /\ schema' = Effect(schema, Migrations[Due])
  /\ executed' = Due
  /\ UNCHANGED applied

Record ==
  /\ executed # 0
  /\ applied' = applied \cup {executed}
  /\ executed' = 0
  /\ UNCHANGED schema

(* Slip: a migration is recorded and then executed.                        *)
MigrateRecordingFirst ==
  \/ /\ executed = 0 /\ Unapplied # {}
     /\ executed' = Due
     /\ applied' = applied \cup {Due}
     /\ UNCHANGED schema
  \/ /\ executed # 0 /\ Accepts(schema, Migrations[executed])
     /\ schema' = Effect(schema, Migrations[executed])
     /\ executed' = 0
     /\ UNCHANGED applied

Migrate == Exec \/ Record

Rejected ==
  executed = 0 /\ Unapplied # {} /\ ~Accepts(schema, Migrations[Due])

UpToDate == executed = 0 /\ Unapplied = {}

-------------------------------------------------------------------------------
(* README, "Backup and migration": the migrations run at startup and are   *)
(* versioned.  Whatever a crash cuts off, the schema is the one of the     *)
(* recorded version or one statement ahead of it, so that no statement is  *)
(* lost or done to a later schema; a start can be refused for ever only by *)
(* the four statements that do not tolerate being executed twice.          *)
SchemaFollowsItsVersion ==
  \E n \in 0..Latest :
    /\ applied = 1..n
    /\ \/ schema = SchemaOf[n]
       \/ n < Latest /\ schema = SchemaOf[n + 1]
    /\ Rejected => n >= Latest - 4
===============================================================================

----------------------------- MODULE ClientAccess -----------------------------
(***************************************************************************)
(* The stored configuration, and what it lets a client key reach:          *)
(* http/routes/clientAccess.ts with the lookups it makes in                *)
(* modelGroups.ts, catalog.ts and the capability filter of route.          *)
(*                                                                         *)
(* Groups refer to credentials by id; client keys refer to groups by name, *)
(* in the order in which they are asked for a plan.                        *)
(***************************************************************************)
EXTENDS SequencesExt

CONSTANTS
  Creds,      \* ids of provider credentials
  Models,     \* model ids
  GroupIds,   \* ids of groups
  Names,      \* names a group may have
  ClientKeys, \* ids of client keys
  NoRow,      \* a row that is not in its table
  NoPlan      \* plan = undefined

VARIABLES
  stored,  \* ids in provider_credentials
  selects, \* allowed_models of each stored credential
  group,   \* model_groups with their model_group_pairs
  key      \* client_keys

configVars == <<stored, selects, group, key>>

Group == [name : Names, targets : SUBSET (Creds \X Models)]

ClientKey == [models : SUBSET Models, groups : Seq(Names)]

ASSUME AccessAssumption ==
  /\ NoRow \notin Group
  /\ NoRow \notin ClientKey
  /\ \A plan \in SUBSET Creds : plan # NoPlan

StoredGroups == {g \in GroupIds : group[g] # NoRow}

StoredKeys == {k \in ClientKeys : key[k] # NoRow}

-------------------------------------------------------------------------------
(* modelGroups.ts.                                                         *)

(* byNames: the stored groups with one of these names; a name that no      *)
(* group has is skipped.                                                   *)
Named(name) == {g \in StoredGroups : group[g].name = name}

ByNames(names) == UNION {Named(n) : n \in ToSet(names)}

(* The credentials that group g targets for model m.                       *)
Targets(g, m) == {c \in Creds : <<c, m>> \in group[g].targets}

ExpandModelIds(names) ==
  {m \in Models : \E g \in ByNames(names) : Targets(g, m) # {}}

(* resolveForModel: the first group, in the key's order, with a target.    *)
(* Slip: the first group decides, whether it has a target or not.          *)
ResolveByFirstGroup(names, m) ==
  LET found == {i \in DOMAIN names : Named(names[i]) # {}}
  IN  IF found = {} \/ \A g \in Named(names[Min(found)]) : Targets(g, m) = {} THEN NoPlan
      ELSE UNION {Targets(g, m) : g \in Named(names[Min(found)])}

ResolveForModel(names, m) ==
  LET hits == {i \in DOMAIN names : \E g \in Named(names[i]) : Targets(g, m) # {}}
  IN  IF hits = {} THEN NoPlan
      ELSE UNION {Targets(g, m) : g \in Named(names[Min(hits)])}

-------------------------------------------------------------------------------
(* clientAccess.ts and catalog.ts.                                         *)

Restricted(k) == key[k].models # {} \/ key[k].groups # <<>>

IsModelAllowed(k, m) ==
  \/ ~Restricted(k)
  \/ m \in key[k].models
  \/ m \in ExpandModelIds(key[k].groups)

ResolveRoutePlan(k, m) == ResolveForModel(key[k].groups, m)

DeriveModelCatalog == UNION {selects[c] : c \in stored}

(* What GET /models lists to client key k.                                 *)
ListedTo(k) == {m \in DeriveModelCatalog : IsModelAllowed(k, m)}

(* route's capability filter under a plan: a credential with no selected   *)
(* model serves every model.                                               *)
CanServe(c, m) == selects[c] = {} \/ m \in selects[c]

Capable(plan, m) ==
  {c \in stored : CanServe(c, m) /\ (plan = NoPlan \/ c \in plan)}

(* The credentials a request of key k for model m may be sent with.        *)
Reach(k, m) ==
  IF IsModelAllowed(k, m) THEN Capable(ResolveRoutePlan(k, m), m) ELSE {}
===============================================================================

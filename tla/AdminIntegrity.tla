---------------------------- MODULE AdminIntegrity ----------------------------
(***************************************************************************)
(* The handlers of http/routes/admin.routes.ts that change credentials,    *)
(* groups and client keys, over the statements of their repositories.      *)
(*                                                                         *)
(* A handler runs to its end before any other code of the process, but its *)
(* writes are committed one by one: what it still has to write is in       *)
(* `rest`, and it may be cut off between two writes, by the death of the   *)
(* process or by a statement that throws.                                  *)
(*                                                                         *)
(* The API checks neither that a target's credential exists nor that a     *)
(* client key's groups do, so a form that was opened before a deletion or  *)
(* a rename may still be saved after it.                                   *)
(***************************************************************************)
EXTENDS ClientAccess

CONSTANTS
  SelectChoices,    \* allowed_models a credential may be saved with
  TargetChoices,    \* targets a group may be saved with
  KeyModelChoices,  \* allowed_models a client key may be saved with
  KeyGroupChoices   \* allowed_groups a client key may be saved with

ASSUME ChoicesAssumption ==
  /\ SelectChoices \subseteq SUBSET Models
  /\ TargetChoices \subseteq SUBSET (Creds \X Models)
  /\ KeyModelChoices \subseteq SUBSET Models
  /\ KeyGroupChoices \subseteq Seq(Names)

VARIABLES
  rest,    \* writes that the handler under way has still to make
  issued,  \* ids that were given out: they are random, so never given again
  (* History, which only the properties read.                              *)
  granted, \* groups that have, or first had, the names a client key was saved with
  unknown, \* names it was saved with that no group has had since
  ghosts,  \* <<group, credential>>: saved as a target, with no such credential
  torn     \* groups whose handler was cut off

historyVars == <<granted, unknown, ghosts, torn>>
adminVars == <<configVars, rest, issued, historyVars>>

Idle == rest = <<>>

SetPairsWrite ==
  [op : {"setPairs"}, group : GroupIds, targets : SUBSET (Creds \X Models)]

RenameRefWrite ==
  [op : {"renameGroupRef"}, group : GroupIds, from : Names, to : Names]

DeleteWrite == [op : {"delete"}, group : GroupIds]

AdminInit ==
  /\ stored = {}
  /\ selects = [c \in Creds |-> {}]
  /\ group = [g \in GroupIds |-> NoRow]
  /\ key = [k \in ClientKeys |-> NoRow]
  /\ rest = <<>>
  /\ issued = {}
  /\ granted = [k \in ClientKeys |-> {}]
  /\ unknown = [k \in ClientKeys |-> {}]
  /\ ghosts = {}
  /\ torn = {}

-------------------------------------------------------------------------------
(* Credentials.                                                            *)

CreateCredential(c, models) ==
  /\ Idle
  /\ c \notin issued
  /\ issued' = issued \cup {c}
  /\ stored' = stored \cup {c}
  /\ selects' = [selects EXCEPT ![c] = models]
  /\ UNCHANGED <<group, key, rest, historyVars>>

UpdateCredential(c, models) ==
  /\ Idle
  /\ c \in stored
  /\ selects' = [selects EXCEPT ![c] = models]
  /\ UNCHANGED <<stored, group, key, rest, issued, historyVars>>

(* Slip: groups keep the targets of a deleted credential.                  *)
KeepCredentialTargets(g, c) == group[g]

RemoveCredentialTargets(g, c) ==
  IF group[g] = NoRow THEN NoRow
  ELSE [group[g] EXCEPT !.targets = {t \in @ : t[1] # c}]

(* The credential and its targets go in one transaction.                   *)
DeleteCredential(c) ==
  /\ Idle
  /\ c \in stored
  /\ stored' = stored \ {c}
  /\ group' = [g \in GroupIds |-> RemoveCredentialTargets(g, c)]
  /\ UNCHANGED <<selects, key, rest, issued, historyVars>>

-------------------------------------------------------------------------------
(* Groups.                                                                 *)

(* Slip: no UNIQUE on the name.                                            *)
AnyName(name, g) == TRUE

(* A name that another group has is refused (UNIQUE, 409).                 *)
FreeName(name, g) == Named(name) \subseteq {g}

(* A group that takes a name some client key was saved with before any     *)
(* group had it is the group that key means.                               *)
Adopt(g, name) ==
  /\ granted' = [k \in ClientKeys |->
                   IF name \in unknown[k] THEN granted[k] \cup {g} ELSE granted[k]]
  /\ unknown' = [k \in ClientKeys |-> unknown[k] \ {name}]
  /\ UNCHANGED <<ghosts, torn>>

SetPairs(g, targets) == [op |-> "setPairs", group |-> g, targets |-> targets]

(* The row is inserted, then its targets are.                              *)
CreateGroup(g, name, targets) ==
  /\ Idle
  /\ g \notin issued
  /\ FreeName(name, g)
  /\ issued' = issued \cup {g}
  /\ group' = [group EXCEPT ![g] = [name |-> name, targets |-> {}]]
  /\ rest' = <<SetPairs(g, targets)>>
  /\ Adopt(g, name)
  /\ UNCHANGED <<stored, selects, key>>

(* Slip: client keys are not told of the new name.                         *)
NoRefToRename(g, name) == <<>>

RefsToRename(g, name) ==
  IF name = group[g].name THEN <<>>
  ELSE <<[op |-> "renameGroupRef", group |-> g, from |-> group[g].name, to |-> name]>>

(* The name is updated, then the targets if the patch has any, then the    *)
(* references of client keys if the name is another.                       *)
UpdateGroup(g, name, patch) ==
  /\ Idle
  /\ g \in StoredGroups
  /\ FreeName(name, g)
  /\ group' = [group EXCEPT ![g] = [@ EXCEPT !.name = name]]
  /\ rest' = (IF patch = NoRow THEN <<>> ELSE <<SetPairs(g, patch)>>)
             \o RefsToRename(g, name)
  /\ Adopt(g, name)
  /\ UNCHANGED <<stored, selects, key, issued>>

(* groups.filter(g => g !== name), from front to back.                     *)
Without(groups, name) ==
  LET kept[i \in 0..Len(groups)] ==
        IF i = 0 THEN <<>>
        ELSE IF groups[i] = name THEN kept[i - 1]
        ELSE Append(kept[i - 1], groups[i])
  IN  kept[Len(groups)]

(* rewriteGroups(g => g !== name), one transaction.                        *)
RemoveGroupRef(name) ==
  [k \in ClientKeys |->
     IF key[k] = NoRow THEN NoRow
     ELSE [key[k] EXCEPT !.groups = Without(@, name)]]

(* Slip: the old name is taken away and the new one not put in its place.  *)
DropGroupRef(from, to) == RemoveGroupRef(from)

(* rewriteGroups(g => g === from ? to : g), one transaction.               *)
RenameGroupRef(from, to) ==
  [k \in ClientKeys |->
     IF key[k] = NoRow THEN NoRow
     ELSE [key[k] EXCEPT !.groups = ReplaceAll(@, from, to)]]

(* References are removed, then the row and, by ON DELETE CASCADE, its     *)
(* targets.                                                                *)
DeleteGroup(g) ==
  /\ Idle
  /\ g \in StoredGroups
  /\ key' = RemoveGroupRef(group[g].name)
  /\ rest' = <<[op |-> "delete", group |-> g]>>
  /\ UNCHANGED <<stored, selects, group, issued, historyVars>>

-------------------------------------------------------------------------------
(* The later writes of a handler.                                          *)

InsertPairs ==
  /\ Head(rest).op = "setPairs"
  /\ LET w == Head(rest) IN
     /\ group' = [group EXCEPT ![w.group] = [@ EXCEPT !.targets = w.targets]]
     /\ ghosts' = {h \in ghosts : h[1] # w.group}
                  \cup {<<w.group, c>> : c \in {t[1] : t \in w.targets} \ stored}
  /\ UNCHANGED <<key, granted, unknown, torn>>

RenameRefs ==
  /\ Head(rest).op = "renameGroupRef"
  /\ key' = RenameGroupRef(Head(rest).from, Head(rest).to)
  /\ UNCHANGED <<group, historyVars>>

DeleteRow ==
  /\ Head(rest).op = "delete"
  /\ group' = [group EXCEPT ![Head(rest).group] = NoRow]
  /\ UNCHANGED <<key, historyVars>>

NextWrite ==
  /\ ~Idle
  /\ InsertPairs \/ RenameRefs \/ DeleteRow
  /\ rest' = Tail(rest)
  /\ UNCHANGED <<stored, selects, issued>>

(* The process dies and is restarted, or the next statement throws and the *)
(* handler answers 500; what was committed stays.                          *)
CutOff ==
  /\ ~Idle
  /\ rest' = <<>>
  /\ torn' = torn \cup {Head(rest).group}
  /\ UNCHANGED <<configVars, issued, granted, unknown, ghosts>>

-------------------------------------------------------------------------------
(* Client keys.                                                            *)

Save(k, models, groups) ==
  /\ key' = [key EXCEPT ![k] = [models |-> models, groups |-> groups]]
  /\ granted' = [granted EXCEPT ![k] = ByNames(groups)]
  /\ unknown' = [unknown EXCEPT ![k] = {n \in ToSet(groups) : Named(n) = {}}]
  /\ UNCHANGED <<stored, selects, group, rest, ghosts, torn>>

CreateClientKey(k, models, groups) ==
  /\ Idle
  /\ k \notin issued
  /\ issued' = issued \cup {k}
  /\ Save(k, models, groups)

(* A list that the patch leaves out is kept.                               *)
UpdateClientKey(k, models, groups) ==
  /\ Idle
  /\ k \in StoredKeys
  /\ Save(k, IF models = NoRow THEN key[k].models ELSE models,
             IF groups = NoRow THEN key[k].groups ELSE groups)
  /\ UNCHANGED issued

DeleteClientKey(k) ==
  /\ Idle
  /\ k \in StoredKeys
  /\ key' = [key EXCEPT ![k] = NoRow]
  /\ UNCHANGED <<stored, selects, group, rest, issued, historyVars>>

-------------------------------------------------------------------------------
EditCredentials ==
  \E c \in Creds :
    \/ \E models \in SelectChoices : CreateCredential(c, models) \/ UpdateCredential(c, models)
    \/ DeleteCredential(c)

(* Ids are random, so a target names a credential that exists or did.      *)
EditGroups ==
  \E g \in GroupIds :
    \/ \E name \in Names, targets \in TargetChoices :
         /\ {t[1] : t \in targets} \subseteq issued
         /\ CreateGroup(g, name, targets) \/ UpdateGroup(g, name, targets)
    \/ \E name \in Names : UpdateGroup(g, name, NoRow)
    \/ DeleteGroup(g)

EditClientKeys ==
  \E k \in ClientKeys :
    \/ \E models \in KeyModelChoices, groups \in KeyGroupChoices : CreateClientKey(k, models, groups)
    \/ \E models \in KeyModelChoices \cup {NoRow}, groups \in KeyGroupChoices \cup {NoRow} :
         UpdateClientKey(k, models, groups)
    \/ DeleteClientKey(k)

AdminNext == EditCredentials \/ EditGroups \/ EditClientKeys \/ NextWrite \/ CutOff

AdminSpec == AdminInit /\ [][AdminNext]_adminVars

-------------------------------------------------------------------------------
(* Types, and the UNIQUE of a group's name.                                *)
AdminTypeOK ==
  /\ stored \subseteq Creds
  /\ selects \in [Creds -> SUBSET Models]
  /\ group \in [GroupIds -> Group \cup {NoRow}]
  /\ \A g, h \in StoredGroups : group[g].name = group[h].name => g = h
  /\ key \in [ClientKeys -> ClientKey \cup {NoRow}]
  /\ rest \in Seq(SetPairsWrite \cup RenameRefWrite \cup DeleteWrite)
  /\ issued \subseteq Creds \cup GroupIds \cup ClientKeys
  /\ granted \in [ClientKeys -> SUBSET GroupIds]
  /\ unknown \in [ClientKeys -> SUBSET Names]
  /\ ghosts \subseteq GroupIds \X Creds
  /\ torn \subseteq GroupIds

(* A group targets a credential that is gone only if it was saved so:      *)
(* deleting a credential takes it out of every group, and no edit or       *)
(* interruption before or after brings it back (admin.routes.ts:154).      *)
NoGhostTargets ==
  \A g \in StoredGroups, c \in Creds, m \in Models :
    <<c, m>> \in group[g].targets => c \in stored \/ <<g, c>> \in ghosts

(* Whatever was renamed, deleted and created since, a client key still     *)
(* names the groups it was saved with, and no other, except where a        *)
(* handler was cut off (admin.routes.ts:224, 236).                         *)
KeysFollowTheirGroups ==
  Idle =>
  \A k \in StoredKeys :
    LET mine == {g \in granted[k] : group[g] # NoRow} IN
    /\ \A g \in mine \ torn : group[g].name \in ToSet(key[k].groups)
    /\ granted[k] \cap torn = {} =>
       \A n \in ToSet(key[k].groups) \ unknown[k] : Named(n) # {} /\ Named(n) \subseteq mine

(* What a client key reaches for a model it does not list itself, it       *)
(* reaches through a group it was saved with.                              *)
InGroupScope(k) ==
  \A m \in Models \ key[k].models : \A c \in Reach(k, m) :
    \E g \in granted[k] \cap StoredGroups : c \in Targets(g, m)

(* The names a client key carries never come to mean the targets of        *)
(* another group than those it was saved with (clientAccess.ts:66-75).  A  *)
(* key that carries nothing any more, its groups being deleted, is not     *)
(* restricted: see DeletedGroupsTakeTheirAccess.                           *)
GroupedKeysStayInScope ==
  Idle =>
  \A k \in StoredKeys : Restricted(k) /\ granted[k] \cap torn = {} => InGroupScope(k)

(* No rename, edit or reuse of a name lifts the restriction of a client    *)
(* key: it is unrestricted only once every group it was saved with is      *)
(* deleted, or cut off.  That the last deletion does lift it, because      *)
(* clientAccess.ts:71 reads two empty lists as no restriction, is what     *)
(* DeletedGroupsTakeTheirAccess denies.                                    *)
RestrictionsOutliveRenames ==
  \A k \in StoredKeys : ~Restricted(k) =>
    \A g \in granted[k] : group[g] = NoRow \/ g \in torn \/ ~Idle

-------------------------------------------------------------------------------
(* What the documentation and the dashboard say and the code does not do.  *)

(* "Client keys assigned to this group lose its permissions immediately"   *)
(* (GroupsPage.tsx:238): a client key that was saved with groups reaches   *)
(* nothing that a group of them which is still there does not target.      *)
DeletedGroupsTakeTheirAccess ==
  Idle =>
  \A k \in StoredKeys : granted[k] # {} /\ granted[k] \cap torn = {} => InGroupScope(k)

(* "/v1beta/models and /v1/models always reflect what can actually be      *)
(* routed" (README.md:14): a credential serves each model that a client    *)
(* key is shown, under the key's plan (catalog.ts:18-24,                   *)
(* clientAccess.ts:83-95, routing.service.ts:85-89).                       *)
ListedModelsAreRoutable ==
  Idle => \A k \in StoredKeys : \A m \in ListedTo(k) : Reach(k, m) # {}

(* "Group rename -> update client_keys.allowed_groups entries in the same  *)
(* transaction" (proposed-plan.md:25): when no handler is under way, a     *)
(* name that was a group's when the client key was saved still is one's.   *)
RenamesAreAtomic ==
  Idle =>
  \A k \in StoredKeys : \A n \in ToSet(key[k].groups) \ unknown[k] : Named(n) # {}
===============================================================================

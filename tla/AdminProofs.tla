------------------------------ MODULE AdminProofs ------------------------------
(***************************************************************************)
(* AdminIntegrity for every set of credentials, groups and client keys:    *)
(* deleting a credential leaves no group with a target it was not saved    *)
(* with; no two groups share a name; and the names a client key carries    *)
(* keep meaning the groups it was saved with, whatever is edited between   *)
(* and wherever a handler is cut off, so that no key comes to reach what   *)
(* its groups do not target.                                               *)
(***************************************************************************)
EXTENDS AdminIntegrity, WellFoundedInduction, TLAPS

Writes == SetPairsWrite \cup RenameRefWrite \cup DeleteWrite

(* The table of groups has its type.                                       *)
GroupsTyped == group \in [GroupIds -> Group \cup {NoRow}]

(* UNIQUE on model_groups.name (connection.ts:183).                        *)
NamesUnique ==
  \A g, h \in StoredGroups : group[g].name = group[h].name => g = h

(* What a handler has still to write concerns a group that is stored, and  *)
(* the deletion of a group is the last of its writes.                      *)
RestInOrder ==
  /\ rest \in Seq(Writes)
  /\ \A i \in DOMAIN rest :
       /\ rest[i].group \in StoredGroups
       /\ rest[i].op = "delete" => i = Len(rest)

IInv == GroupsTyped /\ NamesUnique /\ RestInOrder /\ NoGhostTargets

-------------------------------------------------------------------------------
(* A step that leaves groups and pending writes alone, and deletes no      *)
(* credential, disturbs nothing.                                           *)
LEMMA GroupsStay ==
  ASSUME IInv, UNCHANGED <<group, rest, ghosts>>, stored \subseteq stored'
  PROVE  IInv'
BY DEF IInv, GroupsTyped, NamesUnique, RestInOrder, NoGhostTargets, StoredGroups

LEMMA InitOK == AdminInit => IInv
BY AccessAssumption DEF AdminInit, IInv, GroupsTyped, NamesUnique, RestInOrder, NoGhostTargets, StoredGroups, Writes

(* Taking the targets of a credential away keeps the group and its name.   *)
LEMMA RemoveTargetsOK ==
  ASSUME GroupsTyped, NEW g \in GroupIds, NEW c
  PROVE  /\ RemoveCredentialTargets(g, c) \in Group \cup {NoRow}
         /\ RemoveCredentialTargets(g, c) = NoRow <=> group[g] = NoRow
         /\ group[g] # NoRow =>
              /\ RemoveCredentialTargets(g, c).name = group[g].name
              /\ RemoveCredentialTargets(g, c).targets = {t \in group[g].targets : t[1] # c}
<1>1. CASE group[g] = NoRow
  BY <1>1 DEF RemoveCredentialTargets
<1>2. CASE group[g] # NoRow
  <2> DEFINE kept == {t \in group[g].targets : t[1] # c}
  <2>1. group[g] \in Group
    BY <1>2 DEF GroupsTyped
  <2>2. kept \in SUBSET (Creds \X Models)
    BY <2>1 DEF Group
  <2>3. RemoveCredentialTargets(g, c) = [group[g] EXCEPT !.targets = kept]
    BY <1>2 DEF RemoveCredentialTargets
  <2>4. RemoveCredentialTargets(g, c) = [name |-> group[g].name, targets |-> kept]
    BY <2>1, <2>3 DEF Group
  <2>5. RemoveCredentialTargets(g, c) \in Group
    BY <2>1, <2>2, <2>4 DEF Group
  <2> HIDE DEF kept
  <2>6. RemoveCredentialTargets(g, c) # NoRow
    BY <2>5, AccessAssumption
  <2> QED
    BY <1>2, <2>4, <2>5, <2>6 DEF kept
<1> QED
  BY <1>1, <1>2

LEMMA DeleteCredentialOK ==
  ASSUME IInv, NEW c \in Creds, DeleteCredential(c)
  PROVE  IInv'
<1> USE DEF IInv, DeleteCredential
<1>1. \A g \in GroupIds : group'[g] = RemoveCredentialTargets(g, c)
  OBVIOUS
<1>2. GroupsTyped'
  BY RemoveTargetsOK DEF GroupsTyped
<1>3. StoredGroups' = StoredGroups
  BY <1>1, RemoveTargetsOK DEF StoredGroups
<1>4. \A g \in StoredGroups :
        /\ group'[g].name = group[g].name
        /\ group'[g].targets = {t \in group[g].targets : t[1] # c}
  BY <1>1, RemoveTargetsOK DEF StoredGroups
<1>5. NamesUnique'
  BY <1>3, <1>4 DEF NamesUnique
<1>6. RestInOrder'
  BY <1>3 DEF RestInOrder
<1>7. NoGhostTargets'
  <2> SUFFICES ASSUME NEW g \in StoredGroups, NEW d \in Creds, NEW m \in Models,
                      <<d, m>> \in group'[g].targets
               PROVE  d \in stored' \/ <<g, d>> \in ghosts'
    BY <1>3 DEF NoGhostTargets
  <2>1. <<d, m>> \in group[g].targets /\ d # c
    BY <1>4
  <2> QED
    BY <2>1 DEF NoGhostTargets, historyVars
<1> QED
  BY <1>2, <1>5, <1>6, <1>7

-------------------------------------------------------------------------------
(* Groups.                                                                 *)

(* A group whose name is free and is set keeps the names apart.            *)
LEMMA FreeNameOK ==
  ASSUME IInv, NEW g \in GroupIds, NEW name \in Names, FreeName(name, g),
         NEW row \in Group, row.name = name,
         group' = [group EXCEPT ![g] = row]
  PROVE  /\ GroupsTyped'
         /\ NamesUnique'
         /\ StoredGroups' = StoredGroups \cup {g}
<1>1. GroupsTyped'
  BY DEF IInv, GroupsTyped
<1>2. StoredGroups' = StoredGroups \cup {g}
  BY AccessAssumption DEF IInv, GroupsTyped, StoredGroups
<1>3. ASSUME NEW h \in StoredGroups, h # g
      PROVE  group[h].name # name /\ group'[h] = group[h]
  BY <1>3 DEF FreeName, Named, IInv, GroupsTyped, StoredGroups
<1>4. group'[g].name = name
  BY DEF IInv, GroupsTyped
<1>5. NamesUnique'
  BY <1>2, <1>3, <1>4 DEF IInv, NamesUnique
<1> QED
  BY <1>1, <1>2, <1>5

LEMMA CreateGroupOK ==
  ASSUME IInv, NEW g \in GroupIds, NEW name \in Names, NEW targets \in TargetChoices,
         CreateGroup(g, name, targets)
  PROVE  IInv'
<1> DEFINE row == [name |-> name, targets |-> {}]
<1>1. row \in Group /\ row.name = name /\ row.targets = {}
  BY DEF Group
<1>2. group' = [group EXCEPT ![g] = row] /\ FreeName(name, g) /\ UNCHANGED stored /\ UNCHANGED ghosts
  BY DEF CreateGroup, Adopt
<1> HIDE DEF row
<1>3. GroupsTyped' /\ NamesUnique' /\ StoredGroups' = StoredGroups \cup {g}
  BY <1>1, <1>2, FreeNameOK
<1>4. RestInOrder'
  <2>1. rest' = <<SetPairs(g, targets)>>
    BY DEF CreateGroup
  <2>2. SetPairs(g, targets) \in Writes /\ SetPairs(g, targets).group = g
    BY ChoicesAssumption DEF SetPairs, Writes, SetPairsWrite
  <2> QED
    BY <1>3, <2>1, <2>2 DEF RestInOrder
<1>5. NoGhostTargets'
  BY <1>1, <1>2, <1>3 DEF IInv, GroupsTyped, NoGhostTargets
<1> QED
  BY <1>3, <1>4, <1>5 DEF IInv

LEMMA UpdateGroupOK ==
  ASSUME IInv, NEW g \in GroupIds, NEW name \in Names,
         NEW patch, patch \in TargetChoices \/ patch = NoRow,
         UpdateGroup(g, name, patch)
  PROVE  IInv'
<1> DEFINE row == [group[g] EXCEPT !.name = name]
<1>1. group[g] \in Group /\ g \in StoredGroups
  BY DEF UpdateGroup, IInv, GroupsTyped, StoredGroups
<1>2. row \in Group /\ row.name = name /\ row.targets = group[g].targets
  BY <1>1 DEF Group
<1>3. group' = [group EXCEPT ![g] = row] /\ FreeName(name, g) /\ UNCHANGED stored /\ UNCHANGED ghosts
  BY DEF UpdateGroup, Adopt
<1> HIDE DEF row
<1>4. GroupsTyped' /\ NamesUnique' /\ StoredGroups' = StoredGroups
  <2>1. GroupsTyped' /\ NamesUnique' /\ StoredGroups' = StoredGroups \cup {g}
    BY <1>2, <1>3, FreeNameOK
  <2> QED
    BY <1>1, <2>1
<1>5. RestInOrder'
  <2> DEFINE pairs == IF patch = NoRow THEN <<>> ELSE <<SetPairs(g, patch)>>
             refs == RefsToRename(g, name)
             Mine == {w \in Writes : w.group = g /\ w.op # "delete"}
             renaming == [op |-> "renameGroupRef", group |-> g, from |-> group[g].name, to |-> name]
  <2>1. pairs \in Seq(Mine)
    <3>1. CASE patch \in TargetChoices
      <4>1. SetPairs(g, patch) \in SetPairsWrite
        BY <3>1, ChoicesAssumption DEF SetPairs, SetPairsWrite
      <4>2. SetPairs(g, patch) \in Mine
        BY <4>1 DEF SetPairs, Writes
      <4> HIDE DEF Mine
      <4> QED
        BY <4>2
    <3>2. CASE patch = NoRow
      BY <3>2
    <3> QED
      BY <3>1, <3>2
  <2>2. refs \in Seq(Mine)
    <3>1. renaming \in RenameRefWrite
      BY <1>1 DEF RenameRefWrite, Group
    <3>2. renaming \in Mine
      BY <3>1 DEF Writes
    <3>3. refs = <<>> \/ refs = <<renaming>>
      BY DEF RefsToRename
    <3> HIDE DEF Mine, refs, renaming
    <3>4. CASE refs = <<>>
      BY <3>4
    <3>5. CASE refs = <<renaming>>
      BY <3>2, <3>5
    <3> QED
      BY <3>3, <3>4, <3>5
  <2>3. rest' = pairs \o refs
    BY DEF UpdateGroup
  <2> HIDE DEF pairs, refs
  <2>4. rest' \in Seq(Mine)
    BY <2>1, <2>2, <2>3
  <2>5. rest' \in Seq(Writes) /\ \A i \in DOMAIN rest' : rest'[i] \in Mine
    BY <2>4
  <2> QED
    BY <1>1, <1>4, <2>5 DEF RestInOrder
<1>6. NoGhostTargets'
  BY <1>2, <1>3, <1>4 DEF IInv, GroupsTyped, NoGhostTargets
<1> QED
  BY <1>4, <1>5, <1>6 DEF IInv

LEMMA DeleteGroupOK ==
  ASSUME IInv, NEW g \in GroupIds, DeleteGroup(g)
  PROVE  IInv'
<1>1. g \in StoredGroups /\ rest' = <<[op |-> "delete", group |-> g]>> /\ UNCHANGED <<group, stored, ghosts>>
  BY DEF DeleteGroup, historyVars
<1>2. GroupsTyped' /\ NamesUnique' /\ NoGhostTargets' /\ StoredGroups' = StoredGroups
  BY <1>1 DEF IInv, GroupsTyped, NamesUnique, NoGhostTargets, StoredGroups
<1>3. RestInOrder'
  BY <1>1, <1>2 DEF RestInOrder, Writes, DeleteWrite
<1> QED
  BY <1>2, <1>3 DEF IInv

-------------------------------------------------------------------------------
(* The later writes of a handler.                                          *)

(* What is left after a write is in order, as long as no group goes.       *)
LEMMA TailOK ==
  ASSUME RestInOrder, rest # <<>>, rest' = Tail(rest),
         StoredGroups' = StoredGroups \/ Tail(rest) = <<>>
  PROVE  RestInOrder'
<1>1. rest \in Seq(Writes)
  BY DEF RestInOrder
<1>2. CASE Tail(rest) = <<>>
  BY <1>2 DEF RestInOrder
<1>3. CASE StoredGroups' = StoredGroups
  <2>1. /\ Tail(rest) \in Seq(Writes)
        /\ Len(Tail(rest)) = Len(rest) - 1
        /\ \A i \in DOMAIN Tail(rest) : i + 1 \in DOMAIN rest /\ Tail(rest)[i] = rest[i + 1]
    BY <1>1
  <2> QED
    BY <1>3, <2>1 DEF RestInOrder
<1> QED
  BY <1>2, <1>3

LEMMA InsertPairsOK ==
  ASSUME IInv, rest # <<>>, InsertPairs, rest' = Tail(rest), UNCHANGED stored
  PROVE  IInv'
<1> DEFINE w == Head(rest)
           row == [group[w.group] EXCEPT !.targets = w.targets]
<1>1. w \in SetPairsWrite /\ w.group \in StoredGroups
  <2>1. rest \in Seq(Writes) /\ w = rest[1] /\ 1 \in DOMAIN rest
    BY DEF IInv, RestInOrder
  <2>2. w \in Writes /\ w.op = "setPairs"
    BY <2>1 DEF InsertPairs
  <2> QED
    BY <2>1, <2>2 DEF IInv, RestInOrder, Writes, SetPairsWrite, RenameRefWrite, DeleteWrite
<1>2. w.group \in GroupIds /\ w.targets \in SUBSET (Creds \X Models)
  BY <1>1 DEF SetPairsWrite
<1>3. group[w.group] \in Group
  BY <1>1 DEF StoredGroups, IInv, GroupsTyped
<1>4. row = [name |-> group[w.group].name, targets |-> w.targets]
  BY <1>3 DEF Group
<1>5. row \in Group /\ row.name = group[w.group].name /\ row.targets = w.targets
  BY <1>2, <1>3, <1>4 DEF Group
<1>6. /\ group' = [group EXCEPT ![w.group] = row]
      /\ ghosts' = {h \in ghosts : h[1] # w.group}
                   \cup {<<w.group, c>> : c \in {t[1] : t \in w.targets} \ stored}
  BY DEF InsertPairs
<1> HIDE DEF w, row
<1>7. GroupsTyped'
  BY <1>2, <1>5, <1>6 DEF IInv, GroupsTyped
<1>8. StoredGroups' = StoredGroups
  BY <1>1, <1>2, <1>5, <1>6, AccessAssumption DEF IInv, GroupsTyped, StoredGroups
<1>9. \A g \in StoredGroups : group'[g].name = group[g].name
  BY <1>2, <1>5, <1>6 DEF IInv, GroupsTyped, StoredGroups
<1>10. NamesUnique'
  BY <1>8, <1>9 DEF IInv, NamesUnique
<1>11. RestInOrder'
  BY <1>8, TailOK DEF IInv
<1>12. NoGhostTargets'
  <2> SUFFICES ASSUME NEW g \in StoredGroups, NEW c \in Creds, NEW m \in Models,
                      <<c, m>> \in group'[g].targets
               PROVE  c \in stored \/ <<g, c>> \in ghosts'
    BY <1>8 DEF NoGhostTargets
  <2>1. CASE g = w.group
    <3>1. <<c, m>> \in w.targets
      BY <2>1, <1>2, <1>5, <1>6 DEF IInv, GroupsTyped
    <3>2. c \in {t[1] : t \in w.targets}
      BY <3>1
    <3> QED
      BY <2>1, <3>2, <1>6
  <2>2. CASE g # w.group
    <3>1. <<c, m>> \in group[g].targets
      BY <2>2, <1>2, <1>6 DEF IInv, GroupsTyped, StoredGroups
    <3>2. c \in stored \/ <<g, c>> \in ghosts
      BY <3>1 DEF IInv, NoGhostTargets
    <3> QED
      BY <2>2, <3>2, <1>6
  <2> QED
    BY <2>1, <2>2
<1> QED
  BY <1>7, <1>10, <1>11, <1>12 DEF IInv

LEMMA RenameRefsOK ==
  ASSUME IInv, rest # <<>>, RenameRefs, rest' = Tail(rest), UNCHANGED stored
  PROVE  IInv'
<1>1. UNCHANGED <<group, ghosts>>
  BY DEF RenameRefs, historyVars
<1>2. GroupsTyped' /\ NamesUnique' /\ NoGhostTargets' /\ StoredGroups' = StoredGroups
  BY <1>1 DEF IInv, GroupsTyped, NamesUnique, NoGhostTargets, StoredGroups
<1> QED
  BY <1>2, TailOK DEF IInv

LEMMA DeleteRowOK ==
  ASSUME IInv, rest # <<>>, DeleteRow, rest' = Tail(rest), UNCHANGED stored
  PROVE  IInv'
<1> DEFINE g == Head(rest).group
<1>1. rest \in Seq(Writes) /\ Head(rest) = rest[1] /\ 1 \in DOMAIN rest
  BY DEF IInv, RestInOrder
<1>2. g \in StoredGroups /\ Len(rest) = 1
  BY <1>1 DEF IInv, RestInOrder, DeleteRow
<1>3. Tail(rest) = <<>>
  BY <1>1, <1>2
<1>4. group' = [group EXCEPT ![g] = NoRow] /\ UNCHANGED ghosts
  BY DEF DeleteRow, historyVars
<1> HIDE DEF g
<1>5. GroupsTyped' /\ StoredGroups' = StoredGroups \ {g}
  BY <1>2, <1>4 DEF IInv, GroupsTyped, StoredGroups
<1>6. NamesUnique'
  BY <1>4, <1>5 DEF IInv, GroupsTyped, NamesUnique, StoredGroups
<1>7. NoGhostTargets'
  BY <1>4, <1>5 DEF IInv, GroupsTyped, NoGhostTargets, StoredGroups
<1>8. RestInOrder'
  BY <1>3, TailOK DEF IInv
<1> QED
  BY <1>5, <1>6, <1>7, <1>8 DEF IInv

-------------------------------------------------------------------------------
LEMMA CredentialsOK ==
  ASSUME IInv, EditCredentials
  PROVE  IInv'
<1> PICK c \in Creds :
      \/ \E models \in SelectChoices : CreateCredential(c, models) \/ UpdateCredential(c, models)
      \/ DeleteCredential(c)
  BY DEF EditCredentials
<1>1. ASSUME NEW models \in SelectChoices, CreateCredential(c, models)
      PROVE  IInv'
  BY <1>1, GroupsStay DEF CreateCredential, historyVars
<1>2. ASSUME NEW models \in SelectChoices, UpdateCredential(c, models)
      PROVE  IInv'
  BY <1>2, GroupsStay DEF UpdateCredential, historyVars
<1>3. CASE DeleteCredential(c)
  BY <1>3, DeleteCredentialOK
<1> QED
  BY <1>1, <1>2, <1>3

LEMMA GroupsOK ==
  ASSUME IInv, EditGroups
  PROVE  IInv'
<1> PICK g \in GroupIds :
      \/ \E name \in Names, targets \in TargetChoices :
           /\ {t[1] : t \in targets} \subseteq issued
           /\ CreateGroup(g, name, targets) \/ UpdateGroup(g, name, targets)
      \/ \E name \in Names : UpdateGroup(g, name, NoRow)
      \/ DeleteGroup(g)
  BY DEF EditGroups
<1>1. ASSUME NEW name \in Names, NEW targets \in TargetChoices, CreateGroup(g, name, targets)
      PROVE  IInv'
  BY <1>1, CreateGroupOK
<1>2. ASSUME NEW name \in Names, NEW targets \in TargetChoices, UpdateGroup(g, name, targets)
      PROVE  IInv'
  BY <1>2, UpdateGroupOK
<1>3. ASSUME NEW name \in Names, UpdateGroup(g, name, NoRow)
      PROVE  IInv'
  BY <1>3, UpdateGroupOK
<1>4. CASE DeleteGroup(g)
  BY <1>4, DeleteGroupOK
<1> QED
  BY <1>1, <1>2, <1>3, <1>4

LEMMA ClientKeysOK ==
  ASSUME IInv, EditClientKeys
  PROVE  IInv'
<1>1. UNCHANGED <<group, rest, ghosts>> /\ UNCHANGED stored
  BY DEF EditClientKeys, CreateClientKey, UpdateClientKey, DeleteClientKey, Save, historyVars
<1> QED
  BY <1>1, GroupsStay

LEMMA NextOK ==
  ASSUME IInv, [AdminNext]_adminVars
  PROVE  IInv'
<1>1. CASE EditCredentials
  BY <1>1, CredentialsOK
<1>2. CASE EditGroups
  BY <1>2, GroupsOK
<1>3. CASE EditClientKeys
  BY <1>3, ClientKeysOK
<1>4. CASE NextWrite
  BY <1>4, InsertPairsOK, RenameRefsOK, DeleteRowOK DEF NextWrite, Idle
<1>5. CASE CutOff
  <2>1. rest' = <<>> /\ UNCHANGED <<group, ghosts>> /\ UNCHANGED stored
    BY <1>5 DEF CutOff, configVars
  <2> QED
    BY <2>1 DEF IInv, GroupsTyped, NamesUnique, NoGhostTargets, StoredGroups, RestInOrder
<1>6. CASE UNCHANGED adminVars
  BY <1>6, GroupsStay DEF adminVars, configVars, historyVars
<1> QED
  BY <1>1, <1>2, <1>3, <1>4, <1>5, <1>6 DEF AdminNext

(* Deleting a credential takes it out of every group, and no edit and no   *)
(* handler cut off between its writes brings it back (admin.routes.ts:154, *)
(* modelGroups.ts:128-131).                                                *)
THEOREM NoGhosts == AdminSpec => []NoGhostTargets
<1>1. IInv => NoGhostTargets
  BY DEF IInv
<1> QED
  BY InitOK, NextOK, <1>1, PTL DEF AdminSpec

(* No two groups have the same name, so a name in a client key means at    *)
(* most one group (connection.ts:183, modelGroups.ts:83-91).               *)
THEOREM NamesStayUnique == AdminSpec => []NamesUnique
<1>1. IInv => NamesUnique
  BY DEF IInv
<1> QED
  BY InitOK, NextOK, <1>1, PTL DEF AdminSpec
-------------------------------------------------------------------------------
(* Lists of names.                                                         *)

(* A set of numbers has a least one.                                       *)
LEMMA LeastNumber ==
  ASSUME NEW T \in SUBSET Nat, T # {}
  PROVE  \E m \in T : \A n \in T : m <= n
<1> DEFINE R == OpToRel(<, Nat)
<1>1. PICK m \in T : \A n \in T : <<n, m>> \notin R
  BY NatLessThanWellFounded, WFMin
<1>2. \A n \in Nat : n < m => <<n, m>> \in R
  BY DEF OpToRel
<1> HIDE DEF R
<1>3. ASSUME NEW n \in T
      PROVE  m <= n
  <2>1. n \in Nat /\ m \in Nat
    OBVIOUS
  <2>2. ~(n < m)
    BY <1>1, <1>2, <2>1
  <2> QED
    BY <2>1, <2>2
<1> QED
  BY <1>3

(* The first of some places in a list.                                     *)
LEMMA FirstPlace ==
  ASSUME NEW T \in SUBSET Nat, T # {}
  PROVE  Min(T) \in T
<1>1. \E m \in T : \A n \in T : m <= n
  BY LeastNumber
<1> QED
  BY <1>1 DEF Min

LEMMA AppendedTo ==
  ASSUME NEW S, NEW s \in Seq(S), NEW e \in S
  PROVE  ToSet(Append(s, e)) = ToSet(s) \cup {e}
<1> DEFINE t == Append(s, e)
<1>1. /\ DOMAIN t = 1..Len(s) + 1
      /\ t[Len(s) + 1] = e
      /\ \A i \in 1..Len(s) : t[i] = s[i]
  OBVIOUS
<1>2. DOMAIN s = 1..Len(s) /\ Len(s) \in Nat
  OBVIOUS
<1> HIDE DEF t
<1>3. ToSet(t) = ToSet(s) \cup {e}
  BY <1>1, <1>2 DEF ToSet
<1> QED
  BY <1>3 DEF t

(* Taking a name out of a list leaves the others, and nothing else.        *)
LEMMA WithoutIs ==
  ASSUME NEW S, NEW s \in Seq(S), NEW e
  PROVE  /\ Without(s, e) \in Seq(S)
         /\ ToSet(Without(s, e)) = ToSet(s) \ {e}
<1> DEFINE Next1(f, i) ==
             IF i = 0 THEN <<>>
             ELSE IF s[i] = e THEN f[i - 1]
             ELSE Append(f[i - 1], s[i])
           Kept(n) == {s[i] : i \in 1..n} \ {e}
           Filters(n, f) ==
             \A i \in 0..n : f[i] = Next1(f, i) /\ f[i] \in Seq(S) /\ ToSet(f[i]) = Kept(i)
           bad == {n \in 0..Len(s) : ~ \E f \in [0..n -> Seq(S)] : Filters(n, f)}
<1>1. ASSUME NEW n \in 1..Len(s), NEW f \in [0..n - 1 -> Seq(S)], Filters(n - 1, f)
      PROVE  \E g \in [0..n -> Seq(S)] : Filters(n, g)
  <2> DEFINE g == [i \in 0..n |-> IF i = n THEN Next1(f, n) ELSE f[i]]
  <2>1. s[n] \in S /\ f[n - 1] \in Seq(S) /\ ToSet(f[n - 1]) = Kept(n - 1) /\ n # 0
    BY <1>1
  <2>2. Kept(n) = Kept(n - 1) \cup ({s[n]} \ {e})
    <3>1. Len(s) \in Nat
      OBVIOUS
    <3>2. 1..n = (1..n - 1) \cup {n}
      BY <3>1
    <3> HIDE DEF Next1
    <3> QED
      BY <3>2, Zenon
  <2>3. Next1(f, n) \in Seq(S) /\ ToSet(Next1(f, n)) = Kept(n)
    <3>1. CASE s[n] = e
      BY <2>1, <2>2, <3>1
    <3>2. CASE s[n] # e
      <4>1. Next1(f, n) = Append(f[n - 1], s[n])
        BY <2>1, <3>2
      <4>2. ToSet(Append(f[n - 1], s[n])) = ToSet(f[n - 1]) \cup {s[n]}
        BY <2>1, AppendedTo
      <4> QED
        BY <2>1, <2>2, <3>2, <4>1, <4>2
    <3> QED
      BY <3>1, <3>2
  <2>4. g \in [0..n -> Seq(S)]
    BY <2>3
  <2>5. g[n] = Next1(f, n) /\ g[n - 1] = f[n - 1] /\ \A i \in 0..n - 1 : g[i] = f[i]
    OBVIOUS
  <2> HIDE DEF g, Kept
  <2>6. \A i \in 0..n : Next1(g, i) = Next1(f, i)
    BY <2>5
  <2> HIDE DEF Next1
  <2>7. Filters(n, g)
    BY <1>1, <2>3, <2>5, <2>6
  <2> QED
    BY <2>4, <2>7
<1>2. \E f \in [0..0 -> Seq(S)] : Filters(0, f)
  <2> DEFINE f == [i \in 0..0 |-> <<>>]
  <2>1. f \in [0..0 -> Seq(S)] /\ Filters(0, f)
    BY DEF ToSet
  <2> QED
    BY <2>1
<1> HIDE DEF Filters
<1>3. bad = {}
  <2> SUFFICES ASSUME bad # {}
               PROVE  FALSE
    OBVIOUS
  <2>1. PICK n \in bad : \A i \in bad : n <= i
    <3>1. bad \in SUBSET Nat
      OBVIOUS
    <3> HIDE DEF bad
    <3> QED
      BY <3>1, LeastNumber
  <2>2. n # 0
    BY <1>2
  <2>3. n \in 1..Len(s) /\ n - 1 \in 0..Len(s) /\ n - 1 \notin bad
    BY <2>1, <2>2
  <2> QED
    BY <1>1, <2>3
<1> DEFINE Step(f) == [i \in 0..Len(s) |-> Next1(f, i)]
           kept == CHOOSE f : f = Step(f)
<1>4. PICK f \in [0..Len(s) -> Seq(S)] : Filters(Len(s), f)
  BY <1>3
<1>5. f = Step(f)
  BY <1>4 DEF Filters
<1>6. kept = Step(kept)
  BY <1>5
<1>7. Without(s, e) = kept[Len(s)]
  BY DEF Without
<1> DEFINE apart == {n \in 0..Len(s) : kept[n] # f[n]}
<1>8. apart = {}
  <2> SUFFICES ASSUME apart # {}
               PROVE  FALSE
    OBVIOUS
  <2>1. PICK n \in apart : \A i \in apart : n <= i
    <3>1. apart \in SUBSET Nat
      OBVIOUS
    <3> HIDE DEF apart
    <3> QED
      BY <3>1, LeastNumber
  <2> HIDE DEF kept
  <2>2. n \in 0..Len(s) /\ kept[n] = Next1(kept, n) /\ f[n] = Next1(f, n)
    BY <1>4, <1>6 DEF Filters
  <2>3. n = 0 \/ (n - 1 \in 0..Len(s) /\ n - 1 \notin apart)
    BY <2>1, <2>2
  <2>4. n = 0 \/ kept[n - 1] = f[n - 1]
    BY <2>3
  <2>5. Next1(kept, n) = Next1(f, n)
    BY <2>4
  <2> QED
    BY <2>1, <2>2, <2>5
<1> HIDE DEF kept
<1>9. Without(s, e) = f[Len(s)] /\ Len(s) \in Nat
  BY <1>7, <1>8
<1>10. Kept(Len(s)) = ToSet(s) \ {e}
  BY DEF ToSet
<1> QED
  BY <1>4, <1>9, <1>10 DEF Filters

(* Replacing a name leaves the others.                                     *)
LEMMA ReplacedIs ==
  ASSUME NEW S, NEW s \in Seq(S), NEW from, NEW to \in S
  PROVE  /\ ReplaceAll(s, from, to) \in Seq(S)
         /\ \A n : n \in ToSet(ReplaceAll(s, from, to)) <=>
              \/ n \in ToSet(s) /\ n # from
              \/ n = to /\ from \in ToSet(s)
<1> DEFINE t == [i \in 1..Len(s) |-> IF s[i] = from THEN to ELSE s[i]]
<1>1. ReplaceAll(s, from, to) = t
  BY DEF ReplaceAll
<1>2. t \in Seq(S) /\ DOMAIN t = DOMAIN s
  OBVIOUS
<1>3. \A i \in DOMAIN s : t[i] = IF s[i] = from THEN to ELSE s[i]
  OBVIOUS
<1> HIDE DEF t
<1> QED
  BY <1>1, <1>2, <1>3 DEF ToSet
-------------------------------------------------------------------------------
(* Client keys and the groups they name.                                   *)

(* The last write that the handler under way has to make.                  *)
Renaming(g) ==
  rest # <<>> /\ rest[Len(rest)].op = "renameGroupRef" /\ rest[Len(rest)].group = g

Deleting(g) ==
  rest # <<>> /\ rest[Len(rest)].op = "delete" /\ rest[Len(rest)].group = g

(* The names under which a client key may know g: its own, and until the   *)
(* references are renamed the one it had.                                  *)
Aliases(g) ==
  {group[g].name} \cup (IF Renaming(g) THEN {rest[Len(rest)].from} ELSE {})

(* The groups no handler is deleting.                                      *)
Alive == {g \in StoredGroups : ~Deleting(g)}

(* A handler writes for one group, and renames or deletes last, with the   *)
(* name that the group has by then.                                        *)
HandlerInOrder ==
  \A i \in DOMAIN rest :
    /\ rest[i].group = rest[1].group
    /\ rest[i].op # "setPairs" => i = Len(rest)
    /\ rest[i].op = "renameGroupRef" =>
         rest[i].from # rest[i].to /\ rest[i].to = group[rest[i].group].name

KeysTyped ==
  /\ key \in [ClientKeys -> ClientKey \cup {NoRow}]
  /\ granted \in [ClientKeys -> SUBSET GroupIds]
  /\ unknown \in [ClientKeys -> SUBSET Names]

AliasesApart ==
  \A g, h \in StoredGroups : g # h => Aliases(g) \cap Aliases(h) = {}

GrantsIssued ==
  StoredGroups \subseteq issued /\ \A k \in ClientKeys : granted[k] \subseteq issued

UnknownToAll ==
  \A k \in StoredKeys :
    /\ unknown[k] \subseteq ToSet(key[k].groups)
    /\ \A g \in StoredGroups : Aliases(g) \cap unknown[k] = {}

KeysNameTheirGroups ==
  \A k \in StoredKeys :
    /\ \A g \in (granted[k] \cap Alive) \ torn : Aliases(g) \cap ToSet(key[k].groups) # {}
    /\ granted[k] \cap torn = {} =>
         \A n \in ToSet(key[k].groups) \ unknown[k] :
           \E g \in granted[k] \cap Alive : n \in Aliases(g)

KeysInv ==
  /\ HandlerInOrder
  /\ KeysTyped
  /\ AliasesApart
  /\ GrantsIssued
  /\ UnknownToAll
  /\ KeysNameTheirGroups

(* Between two handlers a group goes by its own name only.                 *)
LEMMA IdleNames ==
  ASSUME Idle
  PROVE  Alive = StoredGroups /\ \A g : Aliases(g) = {group[g].name}
BY DEF Idle, Alive, Deleting, Aliases, Renaming

(* A step that leaves names, grants and the keys that are left alone       *)
(* disturbs nothing.                                                       *)
LEMMA NamesStay ==
  ASSUME KeysInv, KeysTyped', HandlerInOrder', UNCHANGED <<granted, unknown>>,
         StoredKeys' \subseteq StoredKeys, \A k \in StoredKeys' : key'[k] = key[k],
         issued \subseteq issued', torn \subseteq torn',
         StoredGroups' = StoredGroups, Alive' = Alive,
         \A g \in StoredGroups : Aliases(g)' = Aliases(g)
  PROVE  KeysInv'
<1>1. AliasesApart'
  BY DEF KeysInv, AliasesApart
<1>2. GrantsIssued'
  BY DEF KeysInv, GrantsIssued
<1>3. UnknownToAll'
  BY DEF KeysInv, UnknownToAll
<1>4. KeysNameTheirGroups'
  <2> SUFFICES ASSUME NEW k \in StoredKeys'
               PROVE  /\ \A g \in (granted[k] \cap Alive) \ torn' : Aliases(g)' \cap ToSet(key[k].groups) # {}
                      /\ granted[k] \cap torn' = {} =>
                           \A n \in ToSet(key[k].groups) \ unknown[k] :
                             \E g \in granted[k] \cap Alive : n \in Aliases(g)'
    BY DEF KeysNameTheirGroups
  <2>1. \A g \in Alive : Aliases(g)' = Aliases(g)
    BY DEF Alive
  <2>2. k \in StoredKeys
    OBVIOUS
  <2> QED
    BY <2>1, <2>2 DEF KeysInv, KeysNameTheirGroups
<1> QED
  BY <1>1, <1>2, <1>3, <1>4 DEF KeysInv

(* A step that changes neither names nor pending writes.                   *)
LEMMA SameNames ==
  ASSUME UNCHANGED rest, StoredGroups' = StoredGroups,
         \A g \in StoredGroups : group'[g].name = group[g].name
  PROVE  /\ Alive' = Alive
         /\ \A g \in StoredGroups : Aliases(g)' = Aliases(g)
BY DEF Alive, Deleting, Aliases, Renaming

LEMMA InitKeys == AdminInit => KeysInv
BY AccessAssumption DEF AdminInit, KeysInv, HandlerInOrder, KeysTyped, AliasesApart,
   GrantsIssued, UnknownToAll, KeysNameTheirGroups, StoredGroups, StoredKeys

(* A group takes a name no other group has: the client keys that were      *)
(* saved with that name before any group had it mean this group, and the   *)
(* keys that knew the group before still do.                               *)
LEMMA AdoptKeys ==
  ASSUME KeysInv, Idle, NEW g \in GroupIds, NEW name \in Names,
         Adopt(g, name), UNCHANGED key, HandlerInOrder',
         issued' = issued \cup {g}, g \in StoredGroups \/ g \notin issued,
         StoredGroups' = StoredGroups \cup {g}, Alive' = StoredGroups',
         \A h \in StoredGroups \ {g} : group[h].name # name /\ Aliases(h)' = {group[h].name},
         Aliases(g)' = {name} \cup (IF g \in StoredGroups THEN {group[g].name} ELSE {})
  PROVE  KeysInv'
<1>1. Alive = StoredGroups /\ \A h : Aliases(h) = {group[h].name}
  BY IdleNames
<1>2. \A k \in ClientKeys :
        /\ granted'[k] = IF name \in unknown[k] THEN granted[k] \cup {g} ELSE granted[k]
        /\ unknown'[k] = unknown[k] \ {name}
  BY DEF Adopt
<1>3. UNCHANGED torn /\ StoredKeys' = StoredKeys /\ StoredKeys \subseteq ClientKeys
  BY DEF Adopt, StoredKeys
<1>4. KeysTyped'
  BY DEF KeysInv, KeysTyped, Adopt
<1>5. GrantsIssued'
  BY <1>2 DEF KeysInv, GrantsIssued
<1>6. AliasesApart'
  BY <1>1 DEF KeysInv, AliasesApart
<1>7. UnknownToAll'
  <2> SUFFICES ASSUME NEW k \in StoredKeys
               PROVE  /\ unknown'[k] \subseteq ToSet(key[k].groups)
                      /\ \A h \in StoredGroups' : Aliases(h)' \cap unknown'[k] = {}
    BY <1>3 DEF UnknownToAll
  <2>1. /\ unknown[k] \subseteq ToSet(key[k].groups)
        /\ \A h \in StoredGroups : group[h].name \notin unknown[k]
    BY <1>1 DEF KeysInv, UnknownToAll
  <2>2. unknown'[k] = unknown[k] \ {name}
    BY <1>2, <1>3
  <2>3. ASSUME NEW h \in StoredGroups', NEW n \in Aliases(h)'
        PROVE  n \notin unknown'[k]
    <3>1. CASE h = g
      <4>1. n = name \/ (g \in StoredGroups /\ n = group[g].name)
        BY <2>3, <3>1
      <4> QED
        BY <2>1, <2>2, <4>1
    <3>2. CASE h # g
      BY <2>1, <2>2, <2>3, <3>2
    <3> QED
      BY <3>1, <3>2
  <2> QED
    BY <2>1, <2>2, <2>3
<1>8. KeysNameTheirGroups'
  <2> SUFFICES ASSUME NEW k \in StoredKeys
               PROVE  /\ \A h \in (granted'[k] \cap StoredGroups') \ torn :
                           Aliases(h)' \cap ToSet(key[k].groups) # {}
                      /\ granted'[k] \cap torn = {} =>
                           \A n \in ToSet(key[k].groups) \ unknown'[k] :
                             \E h \in granted'[k] \cap StoredGroups' : n \in Aliases(h)'
    BY <1>3 DEF KeysNameTheirGroups
  <2>1. /\ \A h \in (granted[k] \cap StoredGroups) \ torn : group[h].name \in ToSet(key[k].groups)
        /\ granted[k] \cap torn = {} =>
             \A n \in ToSet(key[k].groups) \ unknown[k] :
               \E h \in granted[k] \cap StoredGroups : n = group[h].name
    BY <1>1 DEF KeysInv, KeysNameTheirGroups
  <2>2. unknown[k] \subseteq ToSet(key[k].groups) /\ granted[k] \subseteq issued
    BY <1>3 DEF KeysInv, UnknownToAll, GrantsIssued
  <2>3. ASSUME NEW h \in (granted'[k] \cap StoredGroups') \ torn
        PROVE  Aliases(h)' \cap ToSet(key[k].groups) # {}
    <3>1. CASE h \in granted[k]
      BY <1>3, <2>1, <2>2, <3>1
    <3>2. CASE h \notin granted[k]
      <4>1. h = g /\ name \in unknown[k]
        BY <1>2, <1>3, <3>2
      <4>2. name \in Aliases(g)' /\ name \in ToSet(key[k].groups)
        BY <2>2, <4>1
      <4> QED
        BY <4>1, <4>2
    <3> QED
      BY <3>1, <3>2
  <2>4. ASSUME granted'[k] \cap torn = {}, NEW n \in ToSet(key[k].groups) \ unknown'[k]
        PROVE  \E h \in granted'[k] \cap StoredGroups' : n \in Aliases(h)'
    <3>1. CASE n \in unknown[k]
      <4>1. n = name /\ g \in granted'[k]
        BY <1>2, <1>3, <2>4, <3>1
      <4>2. n \in Aliases(g)'
        BY <4>1
      <4> QED
        BY <4>1, <4>2
    <3>2. CASE n \notin unknown[k]
      <4>1. PICK h \in granted[k] \cap StoredGroups : n = group[h].name
        BY <1>2, <1>3, <2>1, <2>4, <3>2
      <4>2. h \in granted'[k]
        BY <1>2, <1>3, <4>1
      <4>3. n \in Aliases(h)'
        <5>1. CASE h = g
          BY <4>1, <5>1
        <5>2. CASE h # g
          BY <4>1, <5>2
        <5> QED
          BY <5>1, <5>2
      <4> QED
        BY <4>1, <4>2, <4>3
    <3> QED
      BY <3>1, <3>2
  <2> QED
    BY <2>3, <2>4
<1> QED
  BY <1>4, <1>5, <1>6, <1>7, <1>8 DEF KeysInv

LEMMA CreateGroupKeys ==
  ASSUME IInv, KeysInv, NEW g \in GroupIds, NEW name \in Names, NEW targets \in TargetChoices,
         CreateGroup(g, name, targets)
  PROVE  KeysInv'
<1> DEFINE row == [name |-> name, targets |-> {}]
<1>1. row \in Group /\ row.name = name
  BY DEF Group
<1>2. /\ group' = [group EXCEPT ![g] = row]
      /\ FreeName(name, g)
      /\ Idle
      /\ g \notin issued
      /\ issued' = issued \cup {g}
      /\ Adopt(g, name)
      /\ UNCHANGED key
  BY DEF CreateGroup
<1> HIDE DEF row
<1>3. StoredGroups' = StoredGroups \cup {g}
  BY <1>1, <1>2, FreeNameOK
<1>4. rest' = <<SetPairs(g, targets)>> /\ SetPairs(g, targets).op = "setPairs"
  BY DEF CreateGroup, SetPairs
<1>5. HandlerInOrder'
  BY <1>4 DEF HandlerInOrder
<1>6. Alive' = StoredGroups' /\ \A h : Aliases(h)' = {group'[h].name}
  BY <1>4 DEF Alive, Deleting, Aliases, Renaming
<1>7. g \notin StoredGroups
  BY <1>2 DEF KeysInv, GrantsIssued
<1>8. \A h \in StoredGroups \ {g} : group[h].name # name /\ group'[h] = group[h]
  BY <1>2 DEF FreeName, Named, StoredGroups, IInv, GroupsTyped
<1>9. group'[g].name = name
  BY <1>1, <1>2 DEF IInv, GroupsTyped
<1> QED
  BY <1>2, <1>3, <1>5, <1>6, <1>7, <1>8, <1>9, AdoptKeys

(* Two lists of one entry, one after the other.                            *)
LEMMA InTurn ==
  ASSUME NEW T, NEW s \in Seq(T), NEW t \in Seq(T), Len(s) = 1, Len(t) = 1
  PROVE  /\ s \o t # <<>>
         /\ DOMAIN (s \o t) = 1..2
         /\ Len(s \o t) = 2
         /\ (s \o t)[1] = s[1]
         /\ (s \o t)[2] = t[1]
<1>1. s \o t \in Seq(T) /\ Len(s \o t) = 2
  OBVIOUS
<1>2. (s \o t)[1] = s[1] /\ (s \o t)[2] = t[1]
  OBVIOUS
<1> QED
  BY <1>1, <1>2

LEMMA NothingFirst ==
  ASSUME NEW b
  PROVE  <<>> \o <<b>> = <<b>>
<1>1. <<b>> \in Seq({b})
  OBVIOUS
<1> DEFINE t == <<b>>
<1> HIDE DEF t
<1>2. <<>> \o t = t
  BY <1>1 DEF t
<1> QED
  BY <1>2 DEF t

LEMMA UpdateGroupKeys ==
  ASSUME IInv, KeysInv, NEW g \in GroupIds, NEW name \in Names,
         NEW patch, patch \in TargetChoices \/ patch = NoRow,
         UpdateGroup(g, name, patch)
  PROVE  KeysInv'
<1> DEFINE old == group[g].name
           row == [group[g] EXCEPT !.name = name]
           pairs == IF patch = NoRow THEN <<>> ELSE <<SetPairs(g, patch)>>
           renaming == [op |-> "renameGroupRef", group |-> g, from |-> old, to |-> name]
<1>1. group[g] \in Group /\ g \in StoredGroups
  BY DEF UpdateGroup, IInv, GroupsTyped, StoredGroups
<1>2. row \in Group /\ row.name = name
  BY <1>1 DEF Group
<1>3. /\ group' = [group EXCEPT ![g] = row]
      /\ FreeName(name, g)
      /\ Idle
      /\ UNCHANGED issued
      /\ Adopt(g, name)
      /\ UNCHANGED key
      /\ rest' = pairs \o RefsToRename(g, name)
  BY DEF UpdateGroup
<1> HIDE DEF row
<1>4. StoredGroups' = StoredGroups
  BY <1>1, <1>2, <1>3, FreeNameOK
<1>5. g \in issued /\ issued' = issued \cup {g}
  BY <1>1, <1>3 DEF KeysInv, GrantsIssued
<1>6. \A h \in StoredGroups \ {g} : group[h].name # name /\ group'[h] = group[h]
  BY <1>3 DEF FreeName, Named, StoredGroups, IInv, GroupsTyped
<1>7. group'[g].name = name
  BY <1>2, <1>3 DEF IInv, GroupsTyped
<1>8. SetPairs(g, patch).op = "setPairs" /\ SetPairs(g, patch).group = g
  BY DEF SetPairs
<1>9. CASE name = old
  <2>1. rest' = pairs
    BY <1>3, <1>9 DEF RefsToRename
  <2>2. rest' = <<>> \/ rest' = <<SetPairs(g, patch)>>
    BY <2>1
  <2>3. HandlerInOrder'
    BY <1>8, <2>2 DEF HandlerInOrder
  <2>4. Alive' = StoredGroups' /\ \A h : Aliases(h)' = {group'[h].name}
    BY <1>8, <2>2 DEF Alive, Deleting, Aliases, Renaming
  <2> QED
    BY <1>1, <1>3, <1>4, <1>5, <1>6, <1>7, <1>9, <2>3, <2>4, AdoptKeys
<1>10. CASE name # old
  <2>1. rest' = pairs \o <<renaming>>
    BY <1>3, <1>10 DEF RefsToRename
  <2>2. rest' = <<renaming>> \/ rest' = <<SetPairs(g, patch)>> \o <<renaming>>
    <3> HIDE DEF renaming
    <3> QED
      BY <2>1, NothingFirst
  <2>3. /\ rest' # <<>>
        /\ rest'[Len(rest')] = renaming
        /\ \A i \in DOMAIN rest' : i = Len(rest') \/ rest'[i] = SetPairs(g, patch)
        /\ 1 \in DOMAIN rest'
    <3> DEFINE first == SetPairs(g, patch)
    <3> HIDE DEF renaming, first
    <3>1. CASE rest' = <<renaming>>
      BY <3>1
    <3>2. CASE rest' = <<first>> \o <<renaming>>
      <4> DEFINE T == {first, renaming}
                 s == <<first>>
                 t == <<renaming>>
      <4>1. s \in Seq(T) /\ t \in Seq(T) /\ Len(s) = 1 /\ Len(t) = 1 /\ s[1] = first /\ t[1] = renaming
        OBVIOUS
      <4>2. rest' = s \o t
        BY <3>2
      <4> HIDE DEF T, s, t
      <4>3. /\ rest' # <<>> /\ DOMAIN rest' = 1..2 /\ Len(rest') = 2
            /\ rest'[1] = first /\ rest'[2] = renaming
        BY <4>1, <4>2, InTurn
      <4>4. \A i \in 1..2 : i = 1 \/ i = 2
        OBVIOUS
      <4> QED
        BY <4>3, <4>4 DEF first
    <3> QED
      BY <2>2, <3>1, <3>2 DEF first
  <2>4. HandlerInOrder'
    BY <1>7, <1>8, <1>10, <2>3 DEF HandlerInOrder
  <2>5. Alive' = StoredGroups'
    BY <2>3 DEF Alive, Deleting
  <2>6. \A h : Aliases(h)' = {group'[h].name} \cup (IF h = g THEN {old} ELSE {})
    BY <2>3 DEF Aliases, Renaming
  <2> QED
    BY <1>1, <1>3, <1>4, <1>5, <1>6, <1>7, <2>4, <2>5, <2>6, AdoptKeys
<1> QED
  BY <1>9, <1>10

(* rewriteGroups changes nothing of a client key but its list of groups.   *)
LEMMA Rewritten ==
  ASSUME KeysTyped, NEW lists, UNCHANGED <<granted, unknown>>,
         \A k \in StoredKeys : lists[k] \in Seq(Names),
         key' = [k \in ClientKeys |-> IF key[k] = NoRow THEN NoRow
                                      ELSE [key[k] EXCEPT !.groups = lists[k]]]
  PROVE  /\ KeysTyped'
         /\ StoredKeys' = StoredKeys
         /\ \A k \in StoredKeys : key'[k].groups = lists[k]
<1>1. ASSUME NEW k \in StoredKeys
      PROVE  key'[k] \in ClientKey /\ key'[k] # NoRow /\ key'[k].groups = lists[k]
  <2>1. key[k] \in ClientKey /\ key'[k] = [key[k] EXCEPT !.groups = lists[k]]
    BY DEF KeysTyped, StoredKeys
  <2>2. key'[k] = [models |-> key[k].models, groups |-> lists[k]]
    BY <2>1 DEF ClientKey
  <2> QED
    BY <2>1, <2>2, AccessAssumption DEF ClientKey
<1>2. \A k \in ClientKeys : k \notin StoredKeys => key'[k] = NoRow
  BY DEF StoredKeys
<1>3. key' \in [ClientKeys -> ClientKey \cup {NoRow}]
  BY <1>1, <1>2
<1> QED
  BY <1>1, <1>2, <1>3 DEF KeysTyped, StoredKeys

LEMMA DeleteGroupKeys ==
  ASSUME IInv, KeysInv, NEW g \in GroupIds, DeleteGroup(g)
  PROVE  KeysInv'
<1> DEFINE name == group[g].name
           lists == [k \in StoredKeys |-> Without(key[k].groups, name)]
<1>1. /\ Idle /\ g \in StoredGroups
      /\ key' = RemoveGroupRef(name)
      /\ rest' = <<[op |-> "delete", group |-> g]>>
      /\ UNCHANGED <<group, issued, granted, unknown, torn>>
  BY DEF DeleteGroup, historyVars
<1>2. KeysTyped /\ \A k \in StoredKeys : key[k].groups \in Seq(Names) /\ granted[k] \subseteq issued
  BY DEF KeysInv, KeysTyped, StoredKeys, ClientKey, GrantsIssued
<1>3. \A k \in StoredKeys :
        lists[k] \in Seq(Names) /\ ToSet(lists[k]) = ToSet(key[k].groups) \ {name}
  BY <1>2, WithoutIs
<1>4. key' = [k \in ClientKeys |-> IF key[k] = NoRow THEN NoRow
                                   ELSE [key[k] EXCEPT !.groups = lists[k]]]
  BY <1>1 DEF RemoveGroupRef, StoredKeys
<1> HIDE DEF lists
<1>5. /\ KeysTyped'
      /\ StoredKeys' = StoredKeys
      /\ \A k \in StoredKeys : ToSet(key'[k].groups) = ToSet(key[k].groups) \ {name}
  BY <1>1, <1>2, <1>3, <1>4, Rewritten
<1>6. HandlerInOrder'
  BY <1>1 DEF HandlerInOrder
<1>7. StoredGroups' = StoredGroups
  BY <1>1 DEF StoredGroups
<1>8. Alive' = StoredGroups \ {g}
  BY <1>1, <1>7 DEF Alive, Deleting
<1>9. /\ Alive = StoredGroups
      /\ \A h : Aliases(h) = {group[h].name}
      /\ \A h : Aliases(h)' = {group[h].name}
  <2>1. \A h : Aliases(h)' = {group[h].name}
    BY <1>1 DEF Aliases, Renaming
  <2> QED
    BY <1>1, <2>1, IdleNames
<1>10. AliasesApart' /\ GrantsIssued'
  BY <1>1, <1>7, <1>9 DEF KeysInv, AliasesApart, GrantsIssued
<1>11. \A h \in StoredGroups : h # g => group[h].name # name
  BY <1>1 DEF IInv, NamesUnique
<1>12. ASSUME NEW k \in StoredKeys
       PROVE  /\ unknown[k] \subseteq ToSet(key[k].groups)
              /\ \A h \in StoredGroups : group[h].name \notin unknown[k]
              /\ \A h \in (granted[k] \cap StoredGroups) \ torn : group[h].name \in ToSet(key[k].groups)
              /\ granted[k] \cap torn = {} =>
                   \A n \in ToSet(key[k].groups) \ unknown[k] :
                     \E h \in granted[k] \cap StoredGroups : n = group[h].name
  BY <1>9 DEF KeysInv, UnknownToAll, KeysNameTheirGroups
<1>13. UnknownToAll'
  BY <1>1, <1>5, <1>7, <1>9, <1>12 DEF UnknownToAll
<1>14. KeysNameTheirGroups'
  <2> SUFFICES ASSUME NEW k \in StoredKeys
               PROVE  /\ \A h \in (granted[k] \cap Alive') \ torn :
                           Aliases(h)' \cap ToSet(key'[k].groups) # {}
                      /\ granted[k] \cap torn = {} =>
                           \A n \in ToSet(key'[k].groups) \ unknown[k] :
                             \E h \in granted[k] \cap Alive' : n \in Aliases(h)'
    BY <1>1, <1>5 DEF KeysNameTheirGroups
  <2>1. ASSUME NEW h \in (granted[k] \cap Alive') \ torn
        PROVE  group[h].name \in ToSet(key'[k].groups)
    BY <1>5, <1>8, <1>11, <1>12
  <2>2. ASSUME granted[k] \cap torn = {}, NEW n \in ToSet(key'[k].groups) \ unknown[k]
        PROVE  \E h \in granted[k] \cap Alive' : n = group[h].name
    <3>1. n # name /\ n \in ToSet(key[k].groups) \ unknown[k]
      BY <1>5
    <3>2. PICK h \in granted[k] \cap StoredGroups : n = group[h].name
      BY <1>12, <2>2, <3>1
    <3> QED
      BY <1>8, <3>1, <3>2
  <2> QED
    BY <1>9, <2>1, <2>2
<1> QED
  BY <1>5, <1>6, <1>10, <1>13, <1>14 DEF KeysInv

(* What the handler still has to write after its next write.               *)
LEMMA TailInOrder ==
  ASSUME IInv, HandlerInOrder, rest # <<>>, rest' = Tail(rest)
  PROVE  /\ rest[1] \in Writes /\ rest[1].group \in StoredGroups
         /\ Head(rest) = rest[1]
         /\ rest[1].op # "setPairs" => rest' = <<>> /\ Len(rest) = 1
         /\ rest' # <<>> => rest'[Len(rest')] = rest[Len(rest)]
         /\ \A i \in DOMAIN rest' : i + 1 \in DOMAIN rest /\ rest'[i] = rest[i + 1]
         /\ Len(rest') = Len(rest) - 1
         /\ rest' = <<>> => Len(rest) = 1
<1>1. rest \in Seq(Writes) /\ Len(rest) \in Nat \ {0} /\ 1 \in DOMAIN rest /\ Head(rest) = rest[1]
  BY DEF IInv, RestInOrder
<1>2. rest[1] \in Writes /\ rest[1].group \in StoredGroups
  BY <1>1 DEF IInv, RestInOrder
<1>3. /\ rest' \in Seq(Writes)
      /\ Len(rest') = Len(rest) - 1
      /\ \A i \in DOMAIN rest' : i + 1 \in DOMAIN rest /\ rest'[i] = rest[i + 1]
  BY <1>1
<1>4. rest' = <<>> <=> Len(rest) = 1
  BY <1>1, <1>3
<1>5. rest[1].op # "setPairs" => Len(rest) = 1
  BY <1>1 DEF HandlerInOrder
<1>6. rest' # <<>> => rest'[Len(rest')] = rest[Len(rest)]
  BY <1>1, <1>3, <1>4
<1> QED
  BY <1>1, <1>2, <1>3, <1>4, <1>5, <1>6

LEMMA InsertPairsKeys ==
  ASSUME IInv, KeysInv, rest # <<>>, InsertPairs, rest' = Tail(rest), UNCHANGED <<stored, issued>>
  PROVE  KeysInv'
<1> DEFINE w == rest[1]
           row == [group[w.group] EXCEPT !.targets = w.targets]
<1>1. /\ w \in Writes /\ w.group \in StoredGroups /\ Head(rest) = w /\ w.op = "setPairs"
      /\ rest' # <<>> => rest'[Len(rest')] = rest[Len(rest)]
      /\ \A i \in DOMAIN rest' : i + 1 \in DOMAIN rest /\ rest'[i] = rest[i + 1]
      /\ Len(rest') = Len(rest) - 1
      /\ rest' = <<>> => Len(rest) = 1
  BY TailInOrder DEF KeysInv, InsertPairs
<1>2. w \in SetPairsWrite
  BY <1>1 DEF Writes, SetPairsWrite, RenameRefWrite, DeleteWrite
<1>3. /\ group' = [group EXCEPT ![w.group] = row]
      /\ UNCHANGED <<key, granted, unknown, torn>>
  BY <1>1 DEF InsertPairs
<1>4. group[w.group] \in Group /\ w.targets \in SUBSET (Creds \X Models) /\ w.group \in GroupIds
  BY <1>1, <1>2 DEF StoredGroups, IInv, GroupsTyped, SetPairsWrite
<1>5. row = [name |-> group[w.group].name, targets |-> w.targets]
  BY <1>4 DEF Group
<1>6. row \in Group /\ row.name = group[w.group].name
  BY <1>4, <1>5 DEF Group
<1> HIDE DEF row
<1>7. StoredGroups' = StoredGroups /\ \A g \in GroupIds : group'[g].name = group[g].name
  BY <1>1, <1>3, <1>4, <1>6, AccessAssumption DEF StoredGroups, IInv, GroupsTyped
<1>8. \A g : (Renaming(g)' <=> Renaming(g)) /\ (Deleting(g)' <=> Deleting(g))
  BY <1>1 DEF Renaming, Deleting
<1>9. Alive' = Alive
  BY <1>7, <1>8 DEF Alive
<1>10. \A g \in StoredGroups : Aliases(g)' = Aliases(g)
  <2> SUFFICES ASSUME NEW g \in StoredGroups
               PROVE  Aliases(g)' = Aliases(g)
    OBVIOUS
  <2>1. group'[g].name = group[g].name /\ (Renaming(g)' <=> Renaming(g))
    BY <1>7, <1>8 DEF StoredGroups
  <2>2. Renaming(g) => rest'[Len(rest')].from = rest[Len(rest)].from
    BY <1>1 DEF Renaming
  <2> QED
    BY <2>1, <2>2 DEF Aliases
<1>11. HandlerInOrder'
  <2> SUFFICES ASSUME NEW i \in DOMAIN rest'
               PROVE  /\ rest'[i].group = rest'[1].group
                      /\ rest'[i].op # "setPairs" => i = Len(rest')
                      /\ rest'[i].op = "renameGroupRef" =>
                           rest'[i].from # rest'[i].to /\ rest'[i].to = group'[rest'[i].group].name
    BY DEF HandlerInOrder
  <2>1. i + 1 \in DOMAIN rest /\ rest'[i] = rest[i + 1] /\ rest'[1] = rest[2]
    BY <1>1 DEF IInv, RestInOrder
  <2>2. rest[i + 1].group = rest[1].group /\ rest[2].group = rest[1].group
    BY <1>1, <2>1 DEF KeysInv, HandlerInOrder, IInv, RestInOrder
  <2>3. /\ rest[i + 1].op # "setPairs" => i + 1 = Len(rest)
        /\ rest[i + 1].op = "renameGroupRef" =>
             /\ rest[i + 1].from # rest[i + 1].to
             /\ rest[i + 1].to = group[rest[i + 1].group].name
    BY <2>1 DEF KeysInv, HandlerInOrder
  <2>4. rest[i + 1].group \in GroupIds
    BY <2>1 DEF IInv, RestInOrder, StoredGroups
  <2> QED
    BY <1>1, <1>7, <2>1, <2>2, <2>3, <2>4
<1>12. KeysTyped' /\ StoredKeys' = StoredKeys
  BY <1>3 DEF KeysInv, KeysTyped, StoredKeys
<1> QED
  BY <1>3, <1>7, <1>9, <1>10, <1>11, <1>12, NamesStay

LEMMA RenameRefsKeys ==
  ASSUME IInv, KeysInv, rest # <<>>, RenameRefs, rest' = Tail(rest), UNCHANGED <<stored, issued>>
  PROVE  KeysInv'
<1> DEFINE g == rest[1].group
           from == rest[1].from
           to == rest[1].to
           lists == [k \in StoredKeys |-> ReplaceAll(key[k].groups, from, to)]
<1>1. /\ rest[1] \in Writes /\ g \in StoredGroups /\ Head(rest) = rest[1]
      /\ rest[1].op = "renameGroupRef" /\ rest' = <<>> /\ Len(rest) = 1
  BY TailInOrder DEF KeysInv, RenameRefs
<1>2. from # to /\ to = group[g].name /\ to \in Names
  <2>1. 1 \in DOMAIN rest /\ rest[1] \in RenameRefWrite
    BY <1>1 DEF IInv, RestInOrder, Writes, SetPairsWrite, RenameRefWrite, DeleteWrite
  <2> QED
    BY <1>1, <2>1 DEF KeysInv, HandlerInOrder, RenameRefWrite
<1>3. UNCHANGED <<group, granted, unknown, torn>> /\ key' = RenameGroupRef(from, to)
  BY <1>1 DEF RenameRefs, historyVars
<1>4. KeysTyped /\ \A k \in StoredKeys : key[k].groups \in Seq(Names) /\ granted[k] \subseteq issued
  BY DEF KeysInv, KeysTyped, StoredKeys, ClientKey, GrantsIssued
<1>5. /\ \A h \in StoredGroups : Aliases(h) = {group[h].name} \cup (IF h = g THEN {from} ELSE {})
      /\ Alive = StoredGroups
  BY <1>1 DEF Aliases, Renaming, Alive, Deleting
<1> HIDE DEF from, to, g
<1>6. \A k \in StoredKeys :
        /\ lists[k] \in Seq(Names)
        /\ \A n : n \in ToSet(lists[k]) <=>
             \/ n \in ToSet(key[k].groups) /\ n # from
             \/ n = to /\ from \in ToSet(key[k].groups)
  BY <1>2, <1>4, ReplacedIs
<1>7. key' = [k \in ClientKeys |-> IF key[k] = NoRow THEN NoRow
                                   ELSE [key[k] EXCEPT !.groups = lists[k]]]
  BY <1>3 DEF RenameGroupRef, StoredKeys
<1> HIDE DEF lists
<1>8. /\ KeysTyped'
      /\ StoredKeys' = StoredKeys
      /\ \A k \in StoredKeys : key'[k].groups = lists[k]
  BY <1>3, <1>4, <1>6, <1>7, Rewritten
<1>9. HandlerInOrder'
  BY <1>1 DEF HandlerInOrder
<1>10. StoredGroups' = StoredGroups
  BY <1>3 DEF StoredGroups
<1>11. Alive' = StoredGroups /\ \A h : Aliases(h)' = {group[h].name}
  BY <1>1, <1>3, <1>10 DEF Alive, Deleting, Aliases, Renaming
<1>12. AliasesApart' /\ GrantsIssued'
  <2>1. \A h \in StoredGroups : Aliases(h)' \subseteq Aliases(h)
    BY <1>5, <1>11
  <2>2. AliasesApart'
    BY <1>10, <2>1 DEF KeysInv, AliasesApart
  <2>3. GrantsIssued'
    BY <1>3, <1>10 DEF KeysInv, GrantsIssued
  <2> QED
    BY <2>2, <2>3
<1>13. \A h \in StoredGroups : h # g => group[h].name # from /\ group[h].name # to
  <2> SUFFICES ASSUME NEW h \in StoredGroups, h # g
               PROVE  group[h].name # from /\ group[h].name # to
    OBVIOUS
  <2>1. Aliases(h) \cap Aliases(g) = {}
    BY <1>1 DEF KeysInv, AliasesApart
  <2> QED
    BY <1>1, <1>2, <1>5, <2>1
<1>14. UnknownToAll'
  <2> SUFFICES ASSUME NEW k \in StoredKeys
               PROVE  /\ unknown[k] \subseteq ToSet(lists[k])
                      /\ \A h \in StoredGroups : group[h].name \notin unknown[k]
    BY <1>3, <1>8, <1>10, <1>11 DEF UnknownToAll
  <2>1. /\ unknown[k] \subseteq ToSet(key[k].groups)
        /\ \A h \in StoredGroups : Aliases(h) \cap unknown[k] = {}
    BY DEF KeysInv, UnknownToAll
  <2>2. from \notin unknown[k]
    BY <1>1, <1>5, <2>1
  <2> QED
    BY <1>5, <1>6, <2>1, <2>2
<1>15. KeysNameTheirGroups'
  <2> SUFFICES ASSUME NEW k \in StoredKeys
               PROVE  /\ \A h \in (granted[k] \cap StoredGroups) \ torn :
                           group[h].name \in ToSet(lists[k])
                      /\ granted[k] \cap torn = {} =>
                           \A n \in ToSet(lists[k]) \ unknown[k] :
                             \E h \in granted[k] \cap StoredGroups : n = group[h].name
    BY <1>3, <1>8, <1>11 DEF KeysNameTheirGroups
  <2>1. /\ \A h \in (granted[k] \cap StoredGroups) \ torn : Aliases(h) \cap ToSet(key[k].groups) # {}
        /\ granted[k] \cap torn = {} =>
             \A n \in ToSet(key[k].groups) \ unknown[k] :
               \E h \in granted[k] \cap StoredGroups : n \in Aliases(h)
    BY <1>5 DEF KeysInv, KeysNameTheirGroups
  <2>2. ASSUME NEW h \in (granted[k] \cap StoredGroups) \ torn
        PROVE  group[h].name \in ToSet(lists[k])
    <3>1. PICK n \in Aliases(h) : n \in ToSet(key[k].groups)
      BY <2>1
    <3>2. CASE h = g
      BY <1>2, <1>5, <1>6, <3>1, <3>2
    <3>3. CASE h # g
      <4>1. n = group[h].name
        BY <1>5, <3>1, <3>3
      <4> QED
        BY <1>6, <1>13, <3>1, <3>3, <4>1
    <3> QED
      BY <3>2, <3>3
  <2>3. ASSUME granted[k] \cap torn = {}, NEW n \in ToSet(lists[k]) \ unknown[k]
        PROVE  \E h \in granted[k] \cap StoredGroups : n = group[h].name
    <3>1. from \notin unknown[k]
      BY <1>1, <1>5 DEF KeysInv, UnknownToAll
    <3>2. CASE n \in ToSet(key[k].groups) /\ n # from
      <4>1. PICK h \in granted[k] \cap StoredGroups : n \in Aliases(h)
        BY <2>1, <2>3, <3>2
      <4> QED
        BY <1>5, <3>2, <4>1
    <3>3. CASE n = to /\ from \in ToSet(key[k].groups)
      <4>1. PICK h \in granted[k] \cap StoredGroups : from \in Aliases(h)
        BY <2>1, <2>3, <3>1, <3>3
      <4>2. h = g
        BY <1>5, <1>13, <4>1
      <4> QED
        BY <1>2, <3>3, <4>1, <4>2
    <3>4. \/ n \in ToSet(key[k].groups) /\ n # from
          \/ n = to /\ from \in ToSet(key[k].groups)
      BY <1>6, <2>3
    <3> QED
      BY <3>2, <3>3, <3>4
  <2> QED
    BY <2>2, <2>3
<1> QED
  BY <1>8, <1>9, <1>12, <1>14, <1>15 DEF KeysInv

LEMMA DeleteRowKeys ==
  ASSUME IInv, KeysInv, rest # <<>>, DeleteRow, rest' = Tail(rest), UNCHANGED <<stored, issued>>
  PROVE  KeysInv'
<1> DEFINE g == rest[1].group
<1>1. /\ g \in StoredGroups /\ Head(rest) = rest[1]
      /\ rest[1].op = "delete" /\ rest' = <<>> /\ Len(rest) = 1
  BY TailInOrder DEF KeysInv, DeleteRow
<1>2. group' = [group EXCEPT ![g] = NoRow] /\ UNCHANGED <<key, granted, unknown, torn>>
  BY <1>1 DEF DeleteRow, historyVars
<1>3. \A h \in StoredGroups : Aliases(h) = {group[h].name}
  BY <1>1 DEF Aliases, Renaming
<1>4. Alive = StoredGroups \ {g}
  BY <1>1 DEF Alive, Deleting
<1> HIDE DEF g
<1>5. /\ StoredGroups' = StoredGroups \ {g}
      /\ \A h \in StoredGroups' : group'[h] = group[h]
  BY <1>1, <1>2 DEF StoredGroups, IInv, GroupsTyped
<1>6. Alive' = Alive /\ \A h \in StoredGroups' : Aliases(h)' = Aliases(h)
  BY <1>1, <1>3, <1>4, <1>5 DEF Alive, Deleting, Aliases, Renaming
<1>7. HandlerInOrder' /\ KeysTyped' /\ StoredKeys' = StoredKeys
  BY <1>1, <1>2 DEF HandlerInOrder, KeysInv, KeysTyped, StoredKeys
<1>8. AliasesApart' /\ GrantsIssued' /\ UnknownToAll'
  BY <1>2, <1>5, <1>6, <1>7 DEF KeysInv, AliasesApart, GrantsIssued, UnknownToAll
<1>9. \A h \in Alive : Aliases(h)' = Aliases(h)
  BY <1>4, <1>5, <1>6
<1>10. KeysNameTheirGroups'
  BY <1>2, <1>6, <1>7, <1>9 DEF KeysInv, KeysNameTheirGroups
<1> QED
  BY <1>7, <1>8, <1>10 DEF KeysInv

(* A handler that is cut off leaves its own group behind, and no other.    *)
LEMMA CutOffKeys ==
  ASSUME IInv, KeysInv, CutOff
  PROVE  KeysInv'
<1> DEFINE g == rest[1].group
<1>1. /\ rest # <<>> /\ rest' = <<>> /\ torn' = torn \cup {g}
      /\ UNCHANGED <<group, key, issued, granted, unknown>>
  BY DEF CutOff, Idle, configVars, IInv, RestInOrder
<1>2. rest[Len(rest)].group = g
  BY <1>1 DEF IInv, RestInOrder, KeysInv, HandlerInOrder
<1>3. \A h : h # g => Aliases(h) = {group[h].name} /\ ~Deleting(h)
  BY <1>2 DEF Aliases, Renaming, Deleting
<1> HIDE DEF g
<1>4. StoredGroups' = StoredGroups /\ StoredKeys' = StoredKeys
  BY <1>1 DEF StoredGroups, StoredKeys
<1>5. Alive' = StoredGroups /\ \A h : Aliases(h)' = {group[h].name}
  BY <1>1, <1>4 DEF Alive, Deleting, Aliases, Renaming
<1>6. \A h : Aliases(h)' \subseteq Aliases(h)
  BY <1>5 DEF Aliases
<1>7. HandlerInOrder' /\ KeysTyped'
  BY <1>1 DEF HandlerInOrder, KeysInv, KeysTyped
<1>8. AliasesApart'
  BY <1>4, <1>6 DEF KeysInv, AliasesApart
<1>9. GrantsIssued'
  BY <1>1, <1>4 DEF KeysInv, GrantsIssued
<1>10. UnknownToAll'
  <2> SUFFICES ASSUME NEW k \in StoredKeys
               PROVE  /\ unknown[k] \subseteq ToSet(key[k].groups)
                      /\ \A h \in StoredGroups : Aliases(h)' \cap unknown[k] = {}
    BY <1>1, <1>4 DEF UnknownToAll
  <2>1. /\ unknown[k] \subseteq ToSet(key[k].groups)
        /\ \A h \in StoredGroups : Aliases(h) \cap unknown[k] = {}
    BY DEF KeysInv, UnknownToAll
  <2> QED
    BY <1>6, <2>1
<1>11. KeysNameTheirGroups'
  <2> SUFFICES ASSUME NEW k \in StoredKeys
               PROVE  /\ \A h \in (granted[k] \cap StoredGroups) \ torn' :
                           group[h].name \in ToSet(key[k].groups)
                      /\ granted[k] \cap torn' = {} =>
                           \A n \in ToSet(key[k].groups) \ unknown[k] :
                             \E h \in granted[k] \cap StoredGroups : n = group[h].name
    BY <1>1, <1>4, <1>5 DEF KeysNameTheirGroups
  <2>1. /\ \A h \in (granted[k] \cap Alive) \ torn : Aliases(h) \cap ToSet(key[k].groups) # {}
        /\ granted[k] \cap torn = {} =>
             \A n \in ToSet(key[k].groups) \ unknown[k] :
               \E h \in granted[k] \cap Alive : n \in Aliases(h)
    BY DEF KeysInv, KeysNameTheirGroups
  <2>2. ASSUME NEW h \in (granted[k] \cap StoredGroups) \ torn'
        PROVE  group[h].name \in ToSet(key[k].groups)
    <3>1. h # g /\ h \in (granted[k] \cap Alive) \ torn
      BY <1>1, <1>3 DEF Alive
    <3> QED
      BY <1>3, <2>1, <3>1
  <2>3. ASSUME granted[k] \cap torn' = {}, NEW n \in ToSet(key[k].groups) \ unknown[k]
        PROVE  \E h \in granted[k] \cap StoredGroups : n = group[h].name
    <3>1. granted[k] \cap torn = {} /\ g \notin granted[k]
      BY <1>1, <2>3
    <3>2. PICK h \in granted[k] \cap Alive : n \in Aliases(h)
      BY <2>1, <3>1
    <3>3. h \in StoredGroups /\ n = group[h].name
      BY <1>3, <3>1, <3>2 DEF Alive
    <3> QED
      BY <3>2, <3>3
  <2> QED
    BY <2>2, <2>3
<1> QED
  BY <1>7, <1>8, <1>9, <1>10, <1>11 DEF KeysInv

(* A client key that is saved means the groups that have its names now.    *)
LEMMA SaveKeys ==
  ASSUME IInv, KeysInv, Idle, NEW k \in ClientKeys, NEW models \in SUBSET Models,
         NEW groups \in Seq(Names), Save(k, models, groups), issued \subseteq issued'
  PROVE  KeysInv'
<1>1. /\ key' = [key EXCEPT ![k] = [models |-> models, groups |-> groups]]
      /\ granted' = [granted EXCEPT ![k] = ByNames(groups)]
      /\ unknown' = [unknown EXCEPT ![k] = {n \in ToSet(groups) : Named(n) = {}}]
      /\ UNCHANGED <<group, rest, torn>>
  BY DEF Save
<1>2. /\ ByNames(groups) \subseteq StoredGroups
      /\ \A g \in StoredGroups : g \in ByNames(groups) <=> group[g].name \in ToSet(groups)
  BY DEF ByNames, Named
<1>3. ToSet(groups) \subseteq Names
  BY DEF ToSet
<1>4. StoredGroups' = StoredGroups /\ StoredGroups \subseteq GroupIds
  BY <1>1 DEF StoredGroups
<1>5. /\ Alive = StoredGroups /\ Alive' = StoredGroups
      /\ \A g : Aliases(g) = {group[g].name}
      /\ \A g : Aliases(g)' = {group[g].name}
  <2>1. Idle'
    BY <1>1 DEF Idle
  <2>2. Alive' = StoredGroups' /\ \A g : Aliases(g)' = {group'[g].name}
    BY <1>1, <2>1, IdleNames DEF Idle, Alive, Deleting, Aliases, Renaming
  <2> QED
    BY <1>1, <1>4, <2>2, IdleNames
<1>6. /\ key'[k] = [models |-> models, groups |-> groups]
      /\ granted'[k] = ByNames(groups)
      /\ unknown'[k] = {n \in ToSet(groups) : Named(n) = {}}
      /\ \A l \in ClientKeys : l # k =>
           key'[l] = key[l] /\ granted'[l] = granted[l] /\ unknown'[l] = unknown[l]
  BY <1>1 DEF KeysInv, KeysTyped
<1>7. KeysTyped'
  <2>1. [models |-> models, groups |-> groups] \in ClientKey
    BY DEF ClientKey
  <2> QED
    BY <1>1, <1>2, <1>3, <1>4, <2>1 DEF KeysInv, KeysTyped
<1>8. HandlerInOrder'
  BY <1>1 DEF KeysInv, HandlerInOrder
<1>9. AliasesApart'
  BY <1>4, <1>5 DEF KeysInv, AliasesApart
<1>10. GrantsIssued'
  <2> SUFFICES ASSUME NEW l \in ClientKeys
               PROVE  granted'[l] \subseteq issued'
    BY <1>4 DEF KeysInv, GrantsIssued
  <2> QED
    BY <1>2, <1>6 DEF KeysInv, GrantsIssued
<1>11. \A l \in StoredKeys' : l \in ClientKeys /\ (l # k => l \in StoredKeys)
  BY <1>6 DEF StoredKeys
<1>12. UnknownToAll'
  <2> SUFFICES ASSUME NEW l \in StoredKeys'
               PROVE  /\ unknown'[l] \subseteq ToSet(key'[l].groups)
                      /\ \A g \in StoredGroups : group[g].name \notin unknown'[l]
    BY <1>4, <1>5 DEF UnknownToAll
  <2>1. CASE l = k
    BY <1>6, <2>1 DEF Named
  <2>2. CASE l # k
    BY <1>5, <1>6, <1>11, <2>2 DEF KeysInv, UnknownToAll
  <2> QED
    BY <2>1, <2>2
<1>13. KeysNameTheirGroups'
  <2> SUFFICES ASSUME NEW l \in StoredKeys'
               PROVE  /\ \A g \in (granted'[l] \cap StoredGroups) \ torn :
                           group[g].name \in ToSet(key'[l].groups)
                      /\ granted'[l] \cap torn = {} =>
                           \A n \in ToSet(key'[l].groups) \ unknown'[l] :
                             \E g \in granted'[l] \cap StoredGroups : n = group[g].name
    BY <1>1, <1>5 DEF KeysNameTheirGroups
  <2>1. CASE l = k
    <3>1. \A n \in ToSet(groups) : n \notin unknown'[k] =>
            \E g \in ByNames(groups) : n = group[g].name
      BY <1>6 DEF Named, ByNames
    <3> QED
      BY <1>2, <1>6, <2>1, <3>1
  <2>2. CASE l # k
    BY <1>5, <1>6, <1>11, <2>2 DEF KeysInv, KeysNameTheirGroups
  <2> QED
    BY <2>1, <2>2
<1> QED
  BY <1>7, <1>8, <1>9, <1>10, <1>12, <1>13 DEF KeysInv

LEMMA CredentialsKeys ==
  ASSUME IInv, KeysInv, EditCredentials
  PROVE  KeysInv'
<1>1. UNCHANGED <<key, rest, granted, unknown, torn>> /\ issued \subseteq issued'
  BY DEF EditCredentials, CreateCredential, UpdateCredential, DeleteCredential, historyVars
<1>2. /\ StoredGroups' = StoredGroups
      /\ \A g \in StoredGroups : group'[g].name = group[g].name
  <2>1. CASE UNCHANGED group
    BY <2>1 DEF StoredGroups
  <2>2. CASE \E c \in Creds : DeleteCredential(c)
    <3> PICK c \in Creds : DeleteCredential(c)
      BY <2>2
    <3>1. \A g \in GroupIds : group'[g] = RemoveCredentialTargets(g, c)
      BY DEF DeleteCredential
    <3> QED
      BY <3>1, RemoveTargetsOK DEF IInv, StoredGroups
  <2> QED
    BY <2>1, <2>2 DEF EditCredentials, CreateCredential, UpdateCredential
<1>3. HandlerInOrder'
  <2>1. \A i \in DOMAIN rest : group'[rest[i].group].name = group[rest[i].group].name
    BY <1>2 DEF IInv, RestInOrder
  <2> QED
    BY <1>1, <2>1 DEF KeysInv, HandlerInOrder
<1>4. KeysTyped' /\ StoredKeys' = StoredKeys
  BY <1>1 DEF KeysInv, KeysTyped, StoredKeys
<1> QED
  BY <1>1, <1>2, <1>3, <1>4, SameNames, NamesStay

LEMMA GroupsKeys ==
  ASSUME IInv, KeysInv, EditGroups
  PROVE  KeysInv'
<1> PICK g \in GroupIds :
      \/ \E name \in Names, targets \in TargetChoices :
           /\ {t[1] : t \in targets} \subseteq issued
           /\ CreateGroup(g, name, targets) \/ UpdateGroup(g, name, targets)
      \/ \E name \in Names : UpdateGroup(g, name, NoRow)
      \/ DeleteGroup(g)
  BY DEF EditGroups
<1>1. ASSUME NEW name \in Names, NEW targets \in TargetChoices, CreateGroup(g, name, targets)
      PROVE  KeysInv'
  BY <1>1, CreateGroupKeys
<1>2. ASSUME NEW name \in Names, NEW targets \in TargetChoices, UpdateGroup(g, name, targets)
      PROVE  KeysInv'
  BY <1>2, UpdateGroupKeys
<1>3. ASSUME NEW name \in Names, UpdateGroup(g, name, NoRow)
      PROVE  KeysInv'
  BY <1>3, UpdateGroupKeys
<1>4. CASE DeleteGroup(g)
  BY <1>4, DeleteGroupKeys
<1> QED
  BY <1>1, <1>2, <1>3, <1>4

LEMMA ClientKeysKeys ==
  ASSUME IInv, KeysInv, EditClientKeys
  PROVE  KeysInv'
<1> PICK k \in ClientKeys :
      \/ \E models \in KeyModelChoices, groups \in KeyGroupChoices : CreateClientKey(k, models, groups)
      \/ \E models \in KeyModelChoices \cup {NoRow}, groups \in KeyGroupChoices \cup {NoRow} :
           UpdateClientKey(k, models, groups)
      \/ DeleteClientKey(k)
  BY DEF EditClientKeys
<1>1. ASSUME NEW models \in KeyModelChoices, NEW groups \in KeyGroupChoices,
             CreateClientKey(k, models, groups)
      PROVE  KeysInv'
  BY <1>1, ChoicesAssumption, SaveKeys DEF CreateClientKey
<1>2. ASSUME NEW models \in KeyModelChoices \cup {NoRow}, NEW groups \in KeyGroupChoices \cup {NoRow},
             UpdateClientKey(k, models, groups)
      PROVE  KeysInv'
  <2> DEFINE ms == IF models = NoRow THEN key[k].models ELSE models
             gs == IF groups = NoRow THEN key[k].groups ELSE groups
  <2>1. Idle /\ k \in StoredKeys /\ Save(k, ms, gs) /\ issued' = issued
    BY <1>2 DEF UpdateClientKey
  <2>2. key[k] \in ClientKey
    BY <2>1 DEF KeysInv, KeysTyped, StoredKeys
  <2>3. ms \in SUBSET Models /\ gs \in Seq(Names)
    BY <1>2, <2>2, ChoicesAssumption DEF ClientKey
  <2> HIDE DEF ms, gs
  <2> QED
    BY <2>1, <2>3, SaveKeys
<1>3. CASE DeleteClientKey(k)
  <2>1. /\ key' = [key EXCEPT ![k] = NoRow]
        /\ UNCHANGED <<group, rest, issued, granted, unknown, torn>>
    BY <1>3 DEF DeleteClientKey, historyVars
  <2>2. KeysTyped'
    BY <2>1 DEF KeysInv, KeysTyped
  <2>3. StoredKeys' \subseteq StoredKeys /\ \A l \in StoredKeys' : key'[l] = key[l]
    BY <2>1 DEF StoredKeys, KeysInv, KeysTyped
  <2>4. StoredGroups' = StoredGroups /\ HandlerInOrder'
    BY <2>1 DEF StoredGroups, KeysInv, HandlerInOrder
  <2> QED
    BY <2>1, <2>2, <2>3, <2>4, SameNames, NamesStay
<1> QED
  BY <1>1, <1>2, <1>3

LEMMA NextKeys ==
  ASSUME IInv, KeysInv, [AdminNext]_adminVars
  PROVE  KeysInv'
<1>1. CASE EditCredentials
  BY <1>1, CredentialsKeys
<1>2. CASE EditGroups
  BY <1>2, GroupsKeys
<1>3. CASE EditClientKeys
  BY <1>3, ClientKeysKeys
<1>4. CASE NextWrite
  BY <1>4, InsertPairsKeys, RenameRefsKeys, DeleteRowKeys DEF NextWrite, Idle
<1>5. CASE CutOff
  BY <1>5, CutOffKeys
<1>6. CASE UNCHANGED adminVars
  <2>1. UNCHANGED <<group, key, rest, issued, granted, unknown, torn>>
    BY <1>6 DEF adminVars, configVars, historyVars
  <2>2. KeysTyped' /\ HandlerInOrder' /\ StoredGroups' = StoredGroups /\ StoredKeys' = StoredKeys
    BY <2>1 DEF KeysInv, KeysTyped, HandlerInOrder, StoredGroups, StoredKeys
  <2> QED
    BY <2>1, <2>2, SameNames, NamesStay
<1> QED
  BY <1>1, <1>2, <1>3, <1>4, <1>5, <1>6 DEF AdminNext

LEMMA KeysFollow ==
  ASSUME IInv, KeysInv
  PROVE  KeysFollowTheirGroups
<1> SUFFICES ASSUME Idle, NEW k \in StoredKeys
             PROVE  LET mine == {g \in granted[k] : group[g] # NoRow} IN
                    /\ \A g \in mine \ torn : group[g].name \in ToSet(key[k].groups)
                    /\ granted[k] \cap torn = {} =>
                       \A n \in ToSet(key[k].groups) \ unknown[k] :
                         Named(n) # {} /\ Named(n) \subseteq mine
  BY DEF KeysFollowTheirGroups
<1> DEFINE mine == {g \in granted[k] : group[g] # NoRow}
<1>1. k \in ClientKeys /\ granted[k] \subseteq GroupIds
  BY DEF KeysInv, KeysTyped, StoredKeys
<1>2. mine = granted[k] \cap StoredGroups
  BY <1>1 DEF StoredGroups
<1>3. /\ \A g \in mine \ torn : group[g].name \in ToSet(key[k].groups)
      /\ granted[k] \cap torn = {} =>
           \A n \in ToSet(key[k].groups) \ unknown[k] : \E g \in mine : n = group[g].name
  BY <1>2, IdleNames DEF KeysInv, KeysNameTheirGroups
<1>4. ASSUME NEW g \in mine
      PROVE  Named(group[g].name) = {g}
  BY <1>2 DEF Named, IInv, NamesUnique
<1> QED
  BY <1>3, <1>4

LEMMA SpecKeys == AdminSpec => [](IInv /\ KeysInv)
<1>1. AdminInit => IInv /\ KeysInv
  BY InitOK, InitKeys
<1>2. IInv /\ KeysInv /\ [AdminNext]_adminVars => IInv' /\ KeysInv'
  BY NextOK, NextKeys
<1> QED
  BY <1>1, <1>2, PTL DEF AdminSpec

(* Whatever was renamed, deleted and created since, a client key still     *)
(* names the groups it was saved with, and no other, except where a        *)
(* handler was cut off (admin.routes.ts:224, 236).                         *)
THEOREM KeysKeepTheirGroups == AdminSpec => []KeysFollowTheirGroups
<1>1. IInv /\ KeysInv => KeysFollowTheirGroups
  BY KeysFollow
<1> QED
  BY <1>1, SpecKeys, PTL

-------------------------------------------------------------------------------
(* What the stored configuration lets a client key reach.                  *)

(* A plan is undefined exactly if no named group targets the model, and    *)
(* otherwise holds targets of the groups of one name of the list.          *)
LEMMA PlanIs ==
  ASSUME NEW names \in Seq(Names), NEW m \in Models
  PROVE  \/ /\ ResolveForModel(names, m) = NoPlan
            /\ \A g \in ByNames(names) : Targets(g, m) = {}
         \/ /\ ResolveForModel(names, m) \in SUBSET Creds
            /\ \E n \in ToSet(names) :
                 ResolveForModel(names, m) = UNION {Targets(g, m) : g \in Named(n)}
<1> DEFINE hits == {i \in DOMAIN names : \E g \in Named(names[i]) : Targets(g, m) # {}}
<1>1. ResolveForModel(names, m) =
        IF hits = {} THEN NoPlan ELSE UNION {Targets(g, m) : g \in Named(names[Min(hits)])}
  BY DEF ResolveForModel
<1>2. CASE hits = {}
  <2>1. \A g \in ByNames(names) : Targets(g, m) = {}
    BY <1>2 DEF ByNames, ToSet
  <2> QED
    BY <1>1, <1>2, <2>1
<1>3. CASE hits # {}
  <2>1. Min(hits) \in hits
    <3>1. hits \in SUBSET Nat
      OBVIOUS
    <3> HIDE DEF hits
    <3> QED
      BY <1>3, <3>1, FirstPlace
  <2> DEFINE n == names[Min(hits)]
  <2>2. n \in ToSet(names)
    BY <2>1 DEF ToSet
  <2>3. ResolveForModel(names, m) = UNION {Targets(g, m) : g \in Named(n)}
    BY <1>1, <1>3
  <2> HIDE DEF n, hits
  <2>4. UNION {Targets(g, m) : g \in Named(n)} \in SUBSET Creds
    BY DEF Targets
  <2> QED
    BY <2>2, <2>3, <2>4
<1> QED
  BY <1>2, <1>3

LEMMA InScope ==
  ASSUME IInv, KeysInv, Idle, NEW k \in StoredKeys, Restricted(k), granted[k] \cap torn = {},
         NEW m \in Models \ key[k].models, IsModelAllowed(k, m)
  PROVE  /\ ResolveRoutePlan(k, m) \in SUBSET Creds
         /\ \A c \in ResolveRoutePlan(k, m) :
              \E g \in granted[k] \cap StoredGroups : c \in Targets(g, m)
<1> DEFINE names == key[k].groups
           plan == ResolveRoutePlan(k, m)
<1>1. names \in Seq(Names) /\ granted[k] \subseteq GroupIds
  BY DEF KeysInv, KeysTyped, StoredKeys, ClientKey
<1>2. PICK g \in ByNames(names) : Targets(g, m) # {}
  BY DEF IsModelAllowed, ExpandModelIds
<1> HIDE DEF names
<1>3. plan \in SUBSET Creds /\ \E n \in ToSet(names) : plan = UNION {Targets(h, m) : h \in Named(n)}
  BY <1>1, <1>2, PlanIs DEF names, ResolveRoutePlan
<1> HIDE DEF plan
<1>4. ASSUME NEW c \in plan
      PROVE  \E h \in granted[k] \cap StoredGroups : c \in Targets(h, m)
  <2>1. PICK n \in ToSet(names) : plan = UNION {Targets(h, m) : h \in Named(n)}
    BY <1>3
  <2>2. PICK h \in Named(n) : c \in Targets(h, m)
    BY <1>4, <2>1
  <2>3. h \in StoredGroups /\ group[h].name = n
    BY DEF Named
  <2>4. n \notin unknown[k]
    BY <2>3, IdleNames DEF KeysInv, UnknownToAll
  <2>5. Named(n) \subseteq {f \in granted[k] : group[f] # NoRow}
    BY <2>1, <2>4, KeysFollow DEF names, KeysFollowTheirGroups
  <2> QED
    BY <2>2, <2>3, <2>5
<1> QED
  BY <1>3, <1>4 DEF plan

(* A client key without a model of its own reaches a credential only       *)
(* through a group it was saved with, whatever was renamed, deleted and    *)
(* created since (clientAccess.ts:66-75).                                  *)
THEOREM ScopesStay == AdminSpec => []GroupedKeysStayInScope
<1>1. ASSUME IInv, KeysInv
      PROVE  GroupedKeysStayInScope
  <2> SUFFICES ASSUME Idle, NEW k \in StoredKeys, Restricted(k), granted[k] \cap torn = {},
                      NEW m \in Models \ key[k].models, NEW c \in Reach(k, m)
               PROVE  \E g \in granted[k] \cap StoredGroups : c \in Targets(g, m)
    BY DEF GroupedKeysStayInScope, InGroupScope
  <2>1. IsModelAllowed(k, m) /\ c \in Capable(ResolveRoutePlan(k, m), m)
    BY DEF Reach
  <2>2. ResolveRoutePlan(k, m) # NoPlan
    BY <1>1, <2>1, InScope, AccessAssumption
  <2>3. c \in ResolveRoutePlan(k, m)
    BY <2>1, <2>2 DEF Capable
  <2> QED
    BY <1>1, <2>1, <2>3, InScope
<1> QED
  BY <1>1, SpecKeys, PTL

(* No rename, edit or reuse of a name lifts the restriction of a client    *)
(* key: it is unrestricted only once all the groups it was saved with are  *)
(* deleted or were cut off in a rename or a deletion (clientAccess.ts:71). *)
THEOREM RestrictionsStay == AdminSpec => []RestrictionsOutliveRenames
<1>1. ASSUME IInv, KeysInv
      PROVE  RestrictionsOutliveRenames
  <2> SUFFICES ASSUME NEW k \in StoredKeys, ~Restricted(k), Idle,
                      NEW g \in granted[k], group[g] # NoRow, g \notin torn
               PROVE  FALSE
    BY DEF RestrictionsOutliveRenames
  <2>1. group[g].name \in ToSet(key[k].groups)
    BY <1>1, KeysFollow DEF KeysFollowTheirGroups
  <2>2. key[k].groups = <<>>
    BY DEF Restricted
  <2> QED
    BY <2>1, <2>2 DEF ToSet
<1> QED
  BY <1>1, SpecKeys, PTL

-------------------------------------------------------------------------------
(* The tables and the history that no invariant above speaks of.           *)
ColumnsTyped ==
  /\ stored \subseteq Creds
  /\ selects \in [Creds -> SUBSET Models]
  /\ issued \subseteq Creds \cup GroupIds \cup ClientKeys
  /\ ghosts \subseteq GroupIds \X Creds
  /\ torn \subseteq GroupIds

LEMMA InitTyped == AdminInit => ColumnsTyped
BY DEF AdminInit, ColumnsTyped

LEMMA EditsTyped ==
  ASSUME ColumnsTyped, EditCredentials \/ EditGroups \/ EditClientKeys
  PROVE  ColumnsTyped'
<1>1. CASE EditCredentials
  <2> PICK c \in Creds :
        \/ \E models \in SelectChoices : CreateCredential(c, models) \/ UpdateCredential(c, models)
        \/ DeleteCredential(c)
    BY <1>1 DEF EditCredentials
  <2>1. ASSUME NEW models \in SelectChoices,
               CreateCredential(c, models) \/ UpdateCredential(c, models)
        PROVE  ColumnsTyped'
    <3>1. models \in SUBSET Models
      BY ChoicesAssumption
    <3>2. selects' = [selects EXCEPT ![c] = models] /\ UNCHANGED <<ghosts, torn>>
      BY <2>1 DEF CreateCredential, UpdateCredential, historyVars
    <3>3. selects' \in [Creds -> SUBSET Models]
      BY <3>1, <3>2 DEF ColumnsTyped
    <3>4. /\ stored' \subseteq Creds
          /\ issued' \subseteq Creds \cup GroupIds \cup ClientKeys
      BY <2>1 DEF CreateCredential, UpdateCredential, ColumnsTyped
    <3> QED
      BY <3>2, <3>3, <3>4 DEF ColumnsTyped
  <2>2. CASE DeleteCredential(c)
    BY <2>2 DEF DeleteCredential, historyVars, ColumnsTyped
  <2> QED
    BY <2>1, <2>2
<1>2. CASE EditGroups
  <2>1. /\ UNCHANGED <<stored, selects, ghosts, torn>>
        /\ \E g \in GroupIds : issued' = issued \/ issued' = issued \cup {g}
    BY <1>2 DEF EditGroups, CreateGroup, UpdateGroup, DeleteGroup, Adopt, historyVars
  <2> QED
    BY <2>1 DEF ColumnsTyped
<1>3. CASE EditClientKeys
  <2>1. /\ UNCHANGED <<stored, selects, ghosts, torn>>
        /\ \E k \in ClientKeys : issued' = issued \/ issued' = issued \cup {k}
    BY <1>3 DEF EditClientKeys, CreateClientKey, UpdateClientKey, DeleteClientKey, Save,
       historyVars
  <2> QED
    BY <2>1 DEF ColumnsTyped
<1> QED
  BY <1>1, <1>2, <1>3

(* What a handler still has to write names a group, and targets of the     *)
(* types of their columns.                                                 *)
LEMMA FirstWriteIs ==
  ASSUME RestInOrder, ~Idle
  PROVE  /\ Head(rest) \in Writes /\ Head(rest).group \in GroupIds
         /\ Head(rest).op = "setPairs" => Head(rest).targets \in SUBSET (Creds \X Models)
<1>1. Head(rest) \in Writes
  BY DEF RestInOrder, Idle
<1> HIDE DEF Idle
<1> QED
  BY <1>1 DEF Writes, SetPairsWrite, RenameRefWrite, DeleteWrite

LEMMA WritesTyped ==
  ASSUME RestInOrder, ColumnsTyped, NextWrite \/ CutOff
  PROVE  ColumnsTyped'
<1>1. ~Idle
  BY DEF NextWrite, CutOff
<1> DEFINE w == Head(rest)
<1>2. /\ w.group \in GroupIds
      /\ w.op = "setPairs" => w.targets \in SUBSET (Creds \X Models)
  BY <1>1, FirstWriteIs
<1>3. UNCHANGED <<stored, selects, issued>>
  BY DEF NextWrite, CutOff, configVars
<1>4. torn' \subseteq GroupIds
  BY <1>2 DEF NextWrite, InsertPairs, RenameRefs, DeleteRow, historyVars, CutOff, ColumnsTyped
<1>5. ghosts' \subseteq GroupIds \X Creds
  <2>1. CASE NextWrite /\ InsertPairs
    <3>1. /\ w.op = "setPairs"
          /\ ghosts' = {h \in ghosts : h[1] # w.group}
                       \cup {<<w.group, c>> : c \in {t[1] : t \in w.targets} \ stored}
      BY <2>1 DEF InsertPairs
    <3> HIDE DEF w
    <3>2. {t[1] : t \in w.targets} \subseteq Creds
      BY <1>2, <3>1
    <3> QED
      BY <1>2, <3>1, <3>2 DEF ColumnsTyped
  <2>2. CASE ~(NextWrite /\ InsertPairs)
    BY <2>2 DEF NextWrite, RenameRefs, DeleteRow, CutOff, historyVars, ColumnsTyped
  <2> QED
    BY <2>1, <2>2
<1> QED
  BY <1>3, <1>4, <1>5 DEF ColumnsTyped

LEMMA NextTyped ==
  ASSUME RestInOrder, ColumnsTyped, [AdminNext]_adminVars
  PROVE  ColumnsTyped'
<1>1. CASE UNCHANGED adminVars
  BY <1>1 DEF adminVars, configVars, historyVars, ColumnsTyped
<1> QED
  BY <1>1, EditsTyped, WritesTyped DEF AdminNext

(* What the invariants say of the types, put together.                     *)
LEMMA TypesOfTheTables ==
  ASSUME IInv, KeysInv, ColumnsTyped
  PROVE  AdminTypeOK
BY DEF IInv, GroupsTyped, NamesUnique, RestInOrder, Writes, KeysInv, KeysTyped, ColumnsTyped,
   AdminTypeOK

(* Every row and every pending write keeps its type, whatever is edited    *)
(* and wherever a handler is cut off: no write finds its group gone        *)
(* (admin.routes.ts:206-242), and what is recorded of keys and groups      *)
(* names known ones.                                                       *)
THEOREM TablesKeepTheirTypes == AdminSpec => []AdminTypeOK
<1>1. AdminInit => IInv /\ KeysInv /\ ColumnsTyped
  BY InitOK, InitKeys, InitTyped
<1>2. IInv /\ KeysInv /\ ColumnsTyped /\ [AdminNext]_adminVars =>
        IInv' /\ KeysInv' /\ ColumnsTyped'
  BY NextOK, NextKeys, NextTyped DEF IInv
<1>3. IInv /\ KeysInv /\ ColumnsTyped => AdminTypeOK
  BY TypesOfTheTables
<1> QED
  BY <1>1, <1>2, <1>3, PTL DEF AdminSpec
===============================================================================

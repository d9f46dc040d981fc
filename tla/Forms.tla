-------------------------------- MODULE Forms --------------------------------
(***************************************************************************)
(* The forms of the dashboard (features/groups, features/client-keys,      *)
(* features/provider-credentials, features/settings) over the state that   *)
(* App keeps and reloads.  A form is a snapshot: it is filled when it is   *)
(* opened, saved as a whole, and not filled again when the state under it  *)
(* is.  Another administrator saves at the same time.                      *)
(*                                                                         *)
(* One thing of each kind is edited; its fields are one set.  For a group  *)
(* that is the models it targets on one credential, for that credential    *)
(* the models it selects: the forms of these two depend on each other, the *)
(* others only on themselves.  A revision is the number of the save that   *)
(* wrote it.                                                               *)
(***************************************************************************)
EXTENDS Naturals

CONSTANTS
  Values,    \* models, or what else a form lists
  NoForm,
  Waiting,   \* no answer yet
  MaxSaves,  \* bound on the saves the server handles, for each kind
  MaxForms,  \* bound on the forms opened
  MaxLoads   \* bound on the reloads

Kinds == {"group", "credential", "key", "settings"}

Form ==
  [no : Nat, kind : Kinds, value : SUBSET Values, at : Nat,
   behind : BOOLEAN, busy : BOOLEAN, safe : BOOLEAN]

(* What GET /state answers.                                                *)
State == [of : [Kinds -> SUBSET Values], at : Nat]

ASSUME FormsAssumption ==
  /\ MaxSaves \in [Kinds -> Nat]
  /\ MaxForms \in Nat /\ MaxLoads \in Nat
  /\ NoForm \notin Form
  /\ Waiting \notin State \cup {"200"}

VARIABLES
  kinds,   \* the kinds that are edited
  stored,  \* on the server: value, revision and whether it is this page's
  count,   \* saves handled so far
  state,   \* App's state: what GET /state answered, and when
  loads,   \* reloads under way, by number, with their answers
  sent,    \* reloads sent so far
  form,    \* the open form
  opened,  \* forms opened so far
  saves,   \* saves under way
  muddled  \* the last reload failed, or was sent while another was under
           \* way, or a save failed since (history)

formVars == <<kinds, stored, count, state, loads, sent, form, opened, saves, muddled>>

Snapshot == [of |-> [k \in Kinds |-> stored[k].value], at |-> count]

FormsStart ==
  /\ stored = [k \in Kinds |-> [value |-> Values, rev |-> 0, mine |-> FALSE]]
  /\ count = 0
  /\ state = Snapshot
  /\ loads = {} /\ sent = 0
  /\ form = NoForm /\ opened = 0
  /\ saves = {}
  /\ muddled = FALSE

FormsInit ==
  /\ kinds \in {{"group", "credential"}, {"key"}, {"settings"}}
  /\ FormsStart

(* What the page shows may be behind what it has itself saved.             *)
Behind(kind) == saves # {} \/ (kind # "settings" /\ (loads # {} \/ muddled))

-------------------------------------------------------------------------------
(* App.reload, which takes the answers as they come.                       *)
Reload ==
  /\ sent < MaxLoads
  /\ sent' = sent + 1
  /\ loads' = loads \cup {[no |-> sent', answer |-> Waiting]}
  /\ muddled' = (loads # {})

(* Refresh, or the end of a deletion; the Settings tab has neither.        *)
Refresh ==
  /\ kinds # {"settings"}
  /\ Reload
  /\ UNCHANGED <<kinds, stored, count, state, form, opened, saves>>

HandleLoad(l) ==
  /\ l \in loads /\ l.answer = Waiting
  /\ loads' = (loads \ {l}) \cup {[l EXCEPT !.answer = Snapshot]}
  /\ UNCHANGED <<kinds, stored, count, state, sent, form, opened, saves, muddled>>

(* Slip: an open form is filled again from the state that arrives.         *)
FormAfterLoadFilled(answer) ==
  IF form = NoForm \/ form.kind = "settings" THEN form
  ELSE [form EXCEPT !.value = answer.of[form.kind], !.safe = FALSE]

FormAfterLoad(answer) == form

DeliverLoad(l) ==
  /\ l \in loads /\ l.answer # Waiting
  /\ loads' = loads \ {l}
  /\ state' = l.answer
  /\ form' = FormAfterLoad(l.answer)
  /\ UNCHANGED <<kinds, stored, count, sent, opened, saves, muddled>>

FailLoad(l) ==
  /\ l \in loads
  /\ loads' = loads \ {l}
  /\ muddled' = TRUE
  /\ UNCHANGED <<kinds, stored, count, state, sent, form, opened, saves>>

-------------------------------------------------------------------------------
(* The form.  The Settings tab asks for its values itself, as it is shown. *)
OpenForm(kind) ==
  /\ form = NoForm /\ opened < MaxForms
  /\ opened' = opened + 1
  /\ LET from == IF kind = "settings" THEN Snapshot ELSE state IN
     form' = [no |-> opened', kind |-> kind, value |-> from.of[kind],
              at |-> from.at, behind |-> Behind(kind),
              busy |-> FALSE, safe |-> FALSE]
  /\ UNCHANGED <<kinds, stored, count, state, loads, sent, saves, muddled>>

Toggled(set, v) == (set \ {v}) \cup ({v} \ set)

(* Only the submit button is disabled while a save is under way.  A group  *)
(* is offered what its credential selects, and may drop anything.          *)
Edit(v) ==
  /\ form # NoForm
  /\ v \in form.value \/ form.kind # "group" \/ v \in state.of["credential"]
  /\ form' = [form EXCEPT !.value = Toggled(@, v), !.safe = (saves = {})]
  /\ UNCHANGED <<kinds, stored, count, state, loads, sent, opened, saves, muddled>>

(* Close, Escape, the backdrop, or another tab.                            *)
CloseForm ==
  /\ form # NoForm
  /\ form' = NoForm
  /\ UNCHANGED <<kinds, stored, count, state, loads, sent, opened, saves, muddled>>

(* Slip: stale targets are flagged and saved all the same.                 *)
GroupPayloadUncleaned(value) == value

(* GroupModal: pairs that the state no longer has are not saved.           *)
GroupPayload(value) == value \cap state.of["credential"]

Payload == IF form.kind = "group" THEN GroupPayload(form.value) ELSE form.value

SubmitForm ==
  /\ form # NoForm /\ ~form.busy
  /\ form.kind \in {"group", "credential"} => form.value # {}
  /\ form' = [form EXCEPT !.busy = TRUE, !.safe = FALSE]
  /\ saves' = {[s EXCEPT !.behind = TRUE] : s \in saves} \cup
       {[no |-> form.no, kind |-> form.kind, value |-> Payload, reply |-> Waiting,
         at |-> form.at, cleanedAt |-> IF form.kind = "group" THEN state.at ELSE 0,
         behind |-> form.behind \/ Behind(form.kind)]}
  /\ UNCHANGED <<kinds, stored, count, state, loads, sent, opened, muddled>>

Write(kind, value, mine) ==
  /\ count < MaxSaves[kind]
  /\ count' = count + 1
  /\ stored' = [stored EXCEPT ![kind] = [value |-> value, rev |-> count', mine |-> mine]]

(* PUT of a group, a credential, a client key or the settings: every field *)
(* of the form is in the body, and what is stored is not looked at.  Only  *)
(* the settings are in the answer.                                         *)
HandleSave(s) ==
  /\ s \in saves /\ s.reply = Waiting
  /\ Write(s.kind, s.value, TRUE)
  /\ saves' = {[t EXCEPT !.behind = TRUE] : t \in saves \ {s}} \cup
       {[s EXCEPT !.reply = "200", !.at = count', !.cleanedAt = 0, !.behind = FALSE,
                  !.value = IF s.kind = "settings" THEN @ ELSE {}]}
  /\ UNCHANGED <<kinds, state, loads, sent, form, opened, muddled>>

(* Slip: the page goes on with the state it has.                           *)
OnSavedWithoutReload == UNCHANGED <<loads, sent, muddled>>

OnSaved == Reload

(* onSaved and onClose, which are the page's: they close whatever form of  *)
(* its kind is open by then, unless the page was left and opened anew.     *)
DeliverModalSaved(s) ==
  /\ s.kind # "settings"
  /\ OnSaved
  /\ IF form # NoForm /\ form.kind = s.kind
     THEN form' = NoForm \/ (form.no # s.no /\ form' = form)
     ELSE form' = form

(* SettingsPage takes over the values that the answer holds.               *)
DeliverSettingsSaved(s) ==
  /\ s.kind = "settings"
  /\ form' = IF form # NoForm /\ form.no = s.no
             THEN [form EXCEPT !.value = s.value, !.at = s.at,
                               !.behind = s.behind \/ saves # {s}, !.busy = FALSE, !.safe = FALSE]
             ELSE form
  /\ UNCHANGED <<loads, sent, muddled>>

DeliverSaved(s) ==
  /\ s \in saves /\ s.reply = "200"
  /\ saves' = saves \ {s}
  /\ DeliverModalSaved(s) \/ DeliverSettingsSaved(s)
  /\ UNCHANGED <<kinds, stored, count, state, opened>>

(* The form stays, with what was typed; the save may have been handled.    *)
SaveFails(s) ==
  /\ s \in saves
  /\ saves' = saves \ {s}
  /\ muddled' = TRUE
  /\ form' = IF form # NoForm /\ form.no = s.no
             THEN [form EXCEPT !.busy = FALSE, !.behind = TRUE, !.safe = (saves = {s})]
             ELSE form
  /\ UNCHANGED <<kinds, stored, count, state, loads, sent, opened>>

(* Another administrator's, a value at a time.                             *)
AnotherSaves(kind, v) ==
  /\ Write(kind, Toggled(stored[kind].value, v), FALSE)
  /\ UNCHANGED <<kinds, state, loads, sent, form, opened, saves, muddled>>

FormsNext ==
  \/ Refresh
  \/ \E l \in loads : HandleLoad(l) \/ DeliverLoad(l) \/ FailLoad(l)
  \/ \E k \in kinds : OpenForm(k)
  \/ \E v \in Values : Edit(v)
  \/ CloseForm
  \/ SubmitForm
  \/ \E s \in saves : HandleSave(s) \/ DeliverSaved(s) \/ SaveFails(s)
  \/ \E k \in kinds, v \in Values : AnotherSaves(k, v)

FormsSpec == FormsInit /\ [][FormsNext]_formVars

-------------------------------------------------------------------------------
(* A save writes a whole form, so it undoes what was saved since the form  *)
(* was filled; and it leaves a group with a target that its credential no  *)
(* longer selects if that changed since the page read its state.  But it   *)
(* never undoes the page's own work so, once the reload after it arrived;  *)
(* on the Settings tab, which does not reload, unless two saves crossed.   *)
Spoils(change, at, s) == change.rev > at /\ (change.mine => s.behind)

SavesSpareOwnWork ==
  [][\A s \in saves : HandleSave(s) =>
       /\ stored[s.kind].rev > s.at => Spoils(stored[s.kind], s.at, s)
       /\ s.kind = "group" /\ ~(s.value \subseteq stored["credential"].value) =>
            Spoils(stored["credential"], s.cleanedAt, s)
    ]_formVars

(* What is typed into a form while nothing is being saved stays there      *)
(* until it is saved or the user closes the form.                          *)
TypedIsKept ==
  [][form # NoForm /\ form.safe /\ ~(form' # NoForm /\ form'.no = form.no /\ form'.safe) =>
       CloseForm \/ SubmitForm \/ \E v \in Values : Edit(v)]_formVars
===============================================================================

----------------------------- MODULE MCDashboard -----------------------------
(* The dashboard for TLC: a behaviour is of its sessions, of one of its    *)
(* views, or of its forms, and leaves the variables of the others alone.   *)
EXTENDS AdminSession, Views, Forms

VARIABLE scene

(* Three saves of the settings: two that cross, and one after them.        *)
MCMaxSaves == [kind \in Kinds |-> IF kind = "settings" THEN 3 ELSE 2]

dashboardVars == <<scene, sessionVars, viewVars, formVars>>

(* The values of the parts that a scene leaves alone.                      *)
ViewsAtRest ==
  /\ view = "logs" /\ choice = "" /\ text = "" /\ page = 0 /\ typed = Unset
  /\ latest = 0 /\ waiting = {} /\ shown = Unset
  /\ refreshing = [c \in Choices |-> 0] /\ asked = Unset
  /\ loading = FALSE /\ error = FALSE /\ overlapped = FALSE /\ failed = FALSE

FormsAtRest == kinds = {} /\ FormsStart

DInit ==
  \/ scene = "session" /\ SessionInit /\ ViewsAtRest /\ FormsAtRest
  \/ scene = "views" /\ SessionInit /\ ViewsInit /\ FormsAtRest
  \/ scene = "forms" /\ SessionInit /\ ViewsAtRest /\ FormsInit

DNext ==
  /\ \/ scene = "session" /\ SessionNext /\ UNCHANGED <<viewVars, formVars>>
     \/ scene = "views" /\ ViewsNext /\ UNCHANGED <<sessionVars, formVars>>
     \/ scene = "forms" /\ FormsNext /\ UNCHANGED <<sessionVars, viewVars>>
  /\ UNCHANGED scene

DSpec == DInit /\ [][DNext]_dashboardVars
===============================================================================

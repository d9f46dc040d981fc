-------------------------------- MODULE Views --------------------------------
(***************************************************************************)
(* A view of the dashboard that asks the server a question each time its   *)
(* filter changes: the request log (features/logs/LogsPage.tsx), which     *)
(* numbers its requests, the usage matrix (features/overview), which does  *)
(* not, and the model list of the credential form                          *)
(* (features/provider-credentials), which also waits for the typing to     *)
(* settle and can be asked again.  The usage matrix is also asked once     *)
(* more when the cooldowns have been cleared.  The audit table of the      *)
(* Settings tab and App's reload ask in the manner of the usage matrix.    *)
(*                                                                         *)
(* Requests are answered, or fail, in any order.  What a view shows is     *)
(* identified with the question that it answers.                           *)
(***************************************************************************)
EXTENDS Naturals, Sequences

CONSTANTS
  Choices,    \* outcome of the log, days of the matrix
  Texts,      \* search text of the log, connection data of the model list
  Pages,      \* offsets of the log, from 0
  Unset,      \* no answer yet, nothing typed
  MaxAsked,   \* bound on the requests of a view
  MaxRefreshes \* bound on the refreshes under way at a time

ASSUME ViewsAssumption ==
  /\ Pages \subseteq Nat /\ 0 \in Pages
  /\ MaxAsked \in Nat
  /\ MaxRefreshes \in Nat

VARIABLES
  view,       \* which of the three
  choice, text, \* as the requests carry them
  page,       \* offset, in pages
  typed,      \* text that the debounce timer still holds back
  latest,     \* requestSeq: number of the last request
  waiting,    \* requests under way
  shown,      \* the question whose answer is on the screen
  loading,
  error,      \* the model list shows an error in place of its models
  refreshing, \* refreshes of the overview that have still to ask for the
              \* matrix, by the days each of them read when it was clicked
  asked,      \* the last question (history)
  overlapped, \* the last request was sent while another was under way (history)
  failed      \* the last request failed (history)

viewVars == <<view, choice, text, page, typed, latest, waiting, shown, loading,
              error, refreshing, asked, overlapped, failed>>

Question(c, t, p) == [choice |-> c, text |-> t, page |-> p]

Current == Question(choice, text, page)

(* load, loadUsage and fetchModels, once for each question in turn: the    *)
(* log page may ask twice in a row, for the old offset and the new one.    *)
Load(questions) ==
  /\ latest + Len(questions) <= MaxAsked
  /\ latest' = latest + Len(questions)
  /\ waiting' = waiting \cup
       {[seq |-> latest + i, question |-> questions[i]] : i \in DOMAIN questions}
  /\ overlapped' = (waiting # {} \/ Len(questions) > 1)
  /\ failed' = FALSE
  /\ asked' = questions[Len(questions)]
  /\ loading' = (view # "usage")
  /\ error' = FALSE

Quietly == UNCHANGED <<latest, waiting, loading, error, asked, overlapped, failed>>

ViewsInit ==
  /\ view \in {"logs", "usage", "models"}
  /\ choice \in Choices /\ text \in Texts
  /\ page = 0
  /\ latest = 0 /\ waiting = {}
  /\ shown = Unset
  /\ typed = IF view = "models" THEN text ELSE Unset
  /\ loading = (view = "logs")
  /\ refreshing = [c \in Choices |-> 0]
  /\ asked = Unset
  /\ error = FALSE /\ overlapped = FALSE /\ failed = FALSE

(* The effect of the mount.                                                *)
Mount ==
  /\ latest = 0 /\ view # "models"
  /\ Load(<<Current>>)
  /\ UNCHANGED <<view, choice, text, page, typed, shown, refreshing>>

(* An outcome chip, or the choice of days: back to the first page.         *)
Choose(c) ==
  /\ view # "models" /\ latest > 0
  /\ choice' = c /\ page' = 0
  /\ Question(c, text, 0) # Current
  /\ Load(<<Question(c, text, 0)>>)
  /\ UNCHANGED <<view, text, typed, shown, refreshing>>

(* Typing goes back to the first page at once, and asks when it settles.   *)
Type(t) ==
  /\ (view = "logs" /\ latest > 0) \/ view = "models"
  /\ typed' = t
  /\ page' = 0
  /\ IF page # 0 THEN Load(<<Question(choice, text, 0)>>) ELSE Quietly
  /\ UNCHANGED <<view, choice, text, shown, refreshing>>

(* The timer.  A page turned in the meantime is asked for with the new     *)
(* text first, before the effect that goes back to the first page.         *)
Settle ==
  /\ typed # Unset
  /\ typed' = Unset
  /\ text' = typed
  /\ IF view = "logs" /\ typed = text
     THEN Quietly /\ UNCHANGED page
     ELSE /\ page' = 0
          /\ Load((IF page = 0 THEN <<>> ELSE <<Question(choice, typed, page)>>)
                    \o <<Question(choice, typed, 0)>>)
  /\ UNCHANGED <<view, choice, shown, refreshing>>

Turn(p) ==
  /\ view = "logs" /\ latest > 0 /\ p # page
  /\ page' = p
  /\ Load(<<Question(choice, text, p)>>)
  /\ UNCHANGED <<view, choice, text, typed, shown, refreshing>>

(* Retry of the model list, with what is typed.                            *)
AskAgain ==
  /\ view = "models" /\ error
  /\ text' = IF typed = Unset THEN text ELSE typed
  /\ Load(<<Question(choice, text', page)>>)
  /\ UNCHANGED <<view, choice, page, typed, shown, refreshing>>

(* The cooldowns are cleared and refreshAll is run, from the click on: the *)
(* days are those of the page that was clicked.                            *)
ClearCooldowns ==
  /\ view = "usage" /\ latest > 0
  /\ refreshing[choice] < MaxRefreshes
  /\ refreshing' = [refreshing EXCEPT ![choice] = @ + 1]
  /\ Quietly /\ UNCHANGED <<view, choice, text, page, typed, shown>>

Refreshed(c) ==
  /\ view = "usage" /\ refreshing[c] > 0
  /\ refreshing' = [refreshing EXCEPT ![c] = @ - 1]
  /\ UNCHANGED <<view, choice, text, page, typed, shown>>

(* They are cleared and App has reloaded, or tried to: only now is the     *)
(* matrix asked for, of those days, whichever are chosen by now.           *)
RefreshAll(c) == Refreshed(c) /\ Load(<<Question(c, text, page)>>)

(* Clearing them failed: a toast says so, and nothing is asked.            *)
ClearingFails(c) == Refreshed(c) /\ Quietly

(* Slip: every answer is taken for that to the last question.              *)
NeverSuperseded(w) == FALSE

(* seq !== requestSeq.current: only the log page asks.                     *)
Superseded(w) == view = "logs" /\ w.seq # latest

Arrive(w) ==
  /\ w \in waiting
  /\ waiting' = waiting \ {w}
  /\ shown' = IF Superseded(w) THEN shown ELSE w.question
  /\ loading' = (loading /\ Superseded(w))
  /\ UNCHANGED <<view, choice, text, page, typed, latest, error, refreshing,
                 asked, overlapped, failed>>

Break(w) ==
  /\ w \in waiting
  /\ waiting' = waiting \ {w}
  /\ loading' = (loading /\ Superseded(w))
  /\ error' = (error \/ view = "models")
  /\ failed' = (failed \/ w.seq = latest)
  /\ UNCHANGED <<view, choice, text, page, typed, latest, shown, refreshing,
                 asked, overlapped>>

ViewsNext ==
  \/ Mount
  \/ \E c \in Choices : Choose(c)
  \/ \E t \in Texts : Type(t)
  \/ Settle
  \/ \E p \in Pages : Turn(p)
  \/ AskAgain
  \/ ClearCooldowns
  \/ \E c \in Choices : RefreshAll(c) \/ ClearingFails(c)
  \/ \E w \in waiting : Arrive(w) \/ Break(w)

ViewsSpec == ViewsInit /\ [][ViewsNext]_viewVars

-------------------------------------------------------------------------------
(* A view comes to show the answer to the last question it asked, and says *)
(* that it is loading for just as long as that is under way.  The log does *)
(* so whatever the order of the answers; the others only if no request was *)
(* sent before the one it follows was answered.  That question is what the *)
(* filter says by now, except in the usage matrix, where a refresh may ask *)
(* for other days.                                                         *)
ViewsShowTheLatestAnswer ==
  /\ view = "logs" \/ ~overlapped =>
       LET answered == \A w \in waiting : w.seq # latest IN
       /\ latest > 0 /\ view # "usage" => loading = ~answered
       /\ answered /\ latest > 0 /\ ~failed => shown = asked /\ ~error
  /\ latest > 0 /\ view # "usage" => asked = Current

-------------------------------------------------------------------------------
(* What the dashboard says and the code does not do.                       *)

(* "Requests per provider key x model for the selected window"             *)
(* (OverviewPage.tsx:118): with nothing under way, the usage matrix is of  *)
(* the days that are chosen, unless its last request failed.               *)
MatrixIsOfTheSelectedWindow ==
  view = "usage" /\ latest > 0 /\ waiting = {} /\ (\A c \in Choices : refreshing[c] = 0)
  /\ ~failed => shown.choice = choice
===============================================================================

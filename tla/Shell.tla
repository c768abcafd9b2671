--------------------------------- MODULE Shell ---------------------------------
(* What is around every page: the notifications of ToastProvider, and       *)
(* AppShell with its Sidebar and TopBar.  The sidebar is collapsed or not,  *)
(* which localStorage remembers, and opened as a drawer on small screens.   *)
EXTENDS Naturals, SequencesExt, Workbench

CONSTANT
  MaxShown          \* bound: toasts raised, and what the user does

ASSUME ShellAssumption == MaxShown \in Nat

VARIABLES
  toasts,           \* on the screen, oldest first
  timers,           \* toasts whose five seconds run
  gone,             \* history: toasts that were dismissed or timed out
  raised,           \* how many were shown: the last one's number
  collapsed, drawerOpen, online,
  storedChoice,       \* localStorage: luminai_sidebar_collapsed, or "nothing"
  clicks1           \* bound used up

shellVars == <<toasts, timers, gone, raised, collapsed, drawerOpen, online, storedChoice, clicks1>>
toastVars == <<toasts, timers, gone, raised>>
frameVars == <<collapsed, drawerOpen, online, storedChoice, clicks1>>

ShellInit ==
  /\ toasts = <<>> /\ timers = {} /\ gone = {} /\ raised = 0
  /\ collapsed = FALSE /\ drawerOpen = FALSE /\ online = TRUE /\ storedChoice = "nothing"
  /\ clicks1 = 0

(* ----------------------------- notifications ---------------------------- *)
BugRoomFor(ts) == SubSeq(ts, 1, IF Len(ts) < 2 THEN Len(ts) ELSE 2)

\* prev.slice(-2)
RoomFor(ts) == SubSeq(ts, IF Len(ts) < 2 THEN 1 ELSE Len(ts) - 1, Len(ts))

\* By a hook, or by the event that apiFetch dispatches.
ShowToast ==
  /\ raised < MaxShown /\ raised' = raised + 1
  /\ toasts' = Append(RoomFor(toasts), raised + 1)
  /\ timers' = timers \cup {raised + 1}
  /\ UNCHANGED <<gone, frameVars>>

\* The filter of removeToast; a number is on the screen once.
OtherToasts(ts, t) ==
  IF t \in ToSet(ts) THEN RemoveAt(ts, CHOOSE i \in DOMAIN ts : ts[i] = t) ELSE ts

Dismiss(t) ==
  /\ t \in ToSet(toasts) /\ toasts' = OtherToasts(toasts, t) /\ gone' = gone \cup {t}
  /\ UNCHANGED <<timers, raised, frameVars>>

\* The timer of a toast, on the screen or not.
TimesOut(t) ==
  /\ t \in timers /\ timers' = timers \ {t}
  /\ toasts' = OtherToasts(toasts, t) /\ gone' = gone \cup {t}
  /\ UNCHANGED <<raised, frameVars>>

(* ------------------------------- the frame ------------------------------ *)
ClickFrame == clicks1 < MaxShown /\ clicks1' = clicks1 + 1

BugToggled ==
  collapsed' = ~collapsed /\ storedChoice' = IF collapsed THEN storedChoice ELSE "true"

\* Both buttons of the sidebar.
Toggled == collapsed' = ~collapsed /\ storedChoice' = IF collapsed THEN "false" ELSE "true"

ToggleSidebar ==
  /\ ClickFrame /\ Toggled
  /\ UNCHANGED <<toastVars, drawerOpen, online>>

\* The menu of TopBar opens it; a link or the backdrop closes it.
MoveDrawer ==
  /\ ClickFrame /\ drawerOpen' = ~drawerOpen
  /\ UNCHANGED <<toastVars, collapsed, online, storedChoice>>

\* The events online and offline.
NetworkChanges ==
  /\ ClickFrame /\ online' = ~online
  /\ UNCHANGED <<toastVars, collapsed, drawerOpen, storedChoice>>

\* Without a memory the width of the window decides.
ShellReloads ==
  /\ ClickFrame
  /\ toasts' = <<>> /\ timers' = {} /\ gone' = 1..raised /\ raised' = raised
  /\ IF storedChoice = "nothing" THEN collapsed' \in BOOLEAN ELSE collapsed' = (storedChoice = "true")
  /\ drawerOpen' = FALSE /\ online' \in BOOLEAN /\ storedChoice' = storedChoice

ShellNext ==
  \/ ShowToast \/ ToggleSidebar \/ MoveDrawer \/ NetworkChanges \/ ShellReloads
  \/ \E t \in 1..raised : Dismiss(t) \/ TimesOut(t)

ShellSpec == ShellInit /\ [][ShellNext]_shellVars

(* ------------------------------ properties ------------------------------ *)
ShellTypeOK ==
  /\ \A t \in ToSet(toasts) : t \in timers /\ t \notin gone
  /\ Len(toasts) <= 3 /\ timers \subseteq 1..raised /\ gone \subseteq 1..raised
  /\ storedChoice # "nothing" => collapsed = (storedChoice = "true")

(* The newest notification is on the screen until its own time is over or   *)
(* the user closes it, and so are the two raised before it: neither the     *)
(* timer of an older one, nor one that was pushed out, takes a newer one    *)
(* away.                                                                    *)
NewestStay ==
  \A t \in 1..raised : t + 2 >= raised /\ t \notin gone => t \in ToSet(toasts)
=============================================================================

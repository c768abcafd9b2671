------------------------------ MODULE Connections ------------------------------
(* ConnectionsPage: the list of connections, loaded when the page or one of *)
(* its dialogs opens or closes, every 15 seconds and after an upload; what  *)
(* the browser remembers of uploaded files (local_ingested_files); and the  *)
(* deletion of a connection, which asks first.  Loads overlap, and their    *)
(* answers arrive in any order.  A row is an identifier; several may have   *)
(* the same name, as a retried upload leaves them.                          *)
EXTENDS FiniteSets, Integers, Workbench

CONSTANTS
  Connectors,        \* connections of the tenant, ever
  connName,          \* their names
  Uploaded,          \* those of type FILE
  Seeded,            \* those there are when the page is opened
  Loads,             \* bound: loads under way at the same time
  MaxVisits,         \* bound: what the user opens, closes, chooses or leaves
  MaxUpsets          \* bound: connections stored or removed by others, failed requests

ASSUME ConnectionsAssumption ==
  /\ Uploaded \subseteq Connectors /\ Seeded \subseteq Connectors /\ DOMAIN connName = Connectors
  /\ MaxVisits \in Nat /\ MaxUpsets \in Nat

VARIABLES
  conns,             \* server: the connections there are
  list,              \* rows the page shows
  busy,              \* isLoading or isRefreshing
  loadError,         \* error
  dialog,            \* the dialog or preview that is open
  deleteTarget,      \* the row the user is asked about
  listLoads,         \* loads under way, with their answers
  deletion,          \* the deletion under way, with what it closed over
  local,             \* local_ingested_files: the connections remembered
  present,           \* the page is mounted
  confirmed,         \* connections the user confirmed to delete
  visits, upsets     \* bounds used up

connVars ==
  <<conns, list, busy, loadError, dialog, deleteTarget, listLoads, deletion, local, present,
    confirmed, visits, upsets>>

NoRow == "none"
Waiting == [pc |-> "idle", ids |-> {}]
Asked == [Waiting EXCEPT !.pc = "asked"]
NoDeletion == [pc |-> "idle", id |-> NoRow, list |-> {}, ok |-> FALSE]

Alike(a, b) == a = b \/ connName[a] = connName[b]

ConnectionsInit ==
  /\ conns = Seeded /\ local \in SUBSET (conns \cap Uploaded)
  /\ \A a, b \in local : Alike(a, b) => a = b
  /\ list = {} /\ busy = TRUE /\ loadError = FALSE /\ dialog = "none" /\ deleteTarget = NoRow
  /\ \E l \in Loads : listLoads = [m \in Loads |-> IF m = l THEN Asked ELSE Waiting]
  /\ deletion = NoDeletion /\ present = TRUE
  /\ confirmed = {} /\ visits = 0 /\ upsets = 0

Visit == visits < MaxVisits /\ visits' = visits + 1
Upset == upsets < MaxUpsets /\ upsets' = upsets + 1

(* ------------------------------- the list ------------------------------- *)
\* loadConnectors, the request.
StartLoad ==
  /\ \E l \in Loads : listLoads[l] = Waiting /\ listLoads' = [listLoads EXCEPT ![l] = Asked]
  /\ busy' = TRUE /\ loadError' = FALSE

BugTicking == present /\ dialog = "none" /\ visits = 0

\* The interval is set again whenever a dialog opens or closes, and does
\* nothing while one is open.
Ticking == present /\ dialog = "none"

Tick ==
  /\ Ticking /\ StartLoad
  /\ UNCHANGED <<conns, list, dialog, deleteTarget, deletion, local, present, confirmed, visits,
                 upsets>>

\* The refresh button and the one that retries.
Refresh ==
  /\ present /\ (~busy \/ loadError) /\ Visit /\ StartLoad
  /\ UNCHANGED <<conns, list, dialog, deleteTarget, deletion, local, present, confirmed, upsets>>

ServeLoad(l) ==
  /\ listLoads[l].pc = "asked" /\ listLoads' = [listLoads EXCEPT ![l].pc = "served", ![l].ids = conns]
  /\ UNCHANGED <<conns, list, busy, loadError, dialog, deleteTarget, deletion, local, present,
                 confirmed, visits, upsets>>

BugKnown(ids) == ids

\* A file stays remembered as long as one of its name is in the answer.
Surviving(ids) == {f \in local : \E g \in ids \cap Uploaded : Alike(f, g)}

\* The answer replaces the rows and what is remembered, whatever happened
\* since it was asked for; when the page is gone it still writes the latter.
LoadArrives(l) ==
  /\ listLoads[l].pc = "served" /\ listLoads' = [listLoads EXCEPT ![l] = Waiting]
  /\ local' = Surviving(listLoads[l].ids)
  /\ list' = IF present THEN listLoads[l].ids ELSE list
  /\ busy' = FALSE
  /\ UNCHANGED <<conns, loadError, dialog, deleteTarget, deletion, present, confirmed, visits,
                 upsets>>

LoadFails(l) ==
  /\ listLoads[l].pc = "asked" /\ Upset /\ listLoads' = [listLoads EXCEPT ![l] = Waiting]
  /\ list' = {} /\ busy' = FALSE /\ loadError' = (loadError \/ present)
  /\ UNCHANGED <<conns, dialog, deleteTarget, deletion, local, present, confirmed, visits>>

(* ------------------------------- dialogs -------------------------------- *)
\* The wizard, the form of a database or a preview; each change of them runs
\* the effect that loads the list.
SwitchDialog ==
  /\ present /\ Visit /\ StartLoad
  /\ dialog' = IF dialog = "none" THEN "open" ELSE "none"
  /\ UNCHANGED <<conns, list, deleteTarget, deletion, local, present, confirmed, upsets>>

BugOtherNames(f) == local \ {f}

OtherNames(f) == {g \in local : ~Alike(f, g)}

\* An upload ends, also after its wizard was closed: the connection is there,
\* the file is remembered under its name, and the list is loaded.
Stored(f) ==
  /\ Upset
  /\ f \in Uploaded \ conns /\ conns' = conns \cup {f}
  /\ local' = OtherNames(f) \cup {f}
  /\ StartLoad
  /\ UNCHANGED <<list, dialog, deleteTarget, deletion, present, confirmed, visits>>

\* Another user or tab adds or deletes a connection.
ChangedElsewhere(c) ==
  /\ Upset
  /\ \/ c \in Connectors \ conns /\ conns' = conns \cup {c}
     \/ c \in conns /\ conns' = conns \ {c}
  /\ UNCHANGED <<list, busy, loadError, dialog, deleteTarget, listLoads, deletion, local, present,
                 confirmed, visits>>

\* What is under way when the page is left no longer reaches its state.
LeavePage ==
  /\ present /\ Visit
  /\ present' = FALSE /\ list' = {} /\ dialog' = "none" /\ deleteTarget' = NoRow
  /\ loadError' = FALSE /\ busy' = FALSE
  /\ UNCHANGED <<conns, listLoads, deletion, local, confirmed, upsets>>

(* ------------------------------- deletion ------------------------------- *)
AskDelete(c) ==
  /\ present /\ c \in list /\ deleteTarget = NoRow /\ Visit /\ deleteTarget' = c
  /\ UNCHANGED <<conns, list, busy, loadError, dialog, listLoads, deletion, local, present,
                 confirmed, upsets>>

\* Cancel is disabled while deleting; Escape is not.
DismissDelete ==
  /\ deleteTarget # NoRow /\ Visit /\ deleteTarget' = NoRow
  /\ UNCHANGED <<conns, list, busy, loadError, dialog, listLoads, deletion, local, present,
                 confirmed, upsets>>

\* confirmDelete: the button is disabled while a deletion is under way.
ConfirmDelete ==
  /\ deleteTarget # NoRow /\ deletion = NoDeletion
  /\ deletion' = [NoDeletion EXCEPT !.pc = "asked", !.id = deleteTarget, !.list = list]
  /\ confirmed' = confirmed \cup {deleteTarget}
  /\ UNCHANGED <<conns, list, busy, loadError, dialog, deleteTarget, listLoads, local, present,
                 visits, upsets>>

BugDoomed == deleteTarget

\* The row that was confirmed, not the one the dialog shows by now.
Doomed == deletion.id

ServeDelete ==
  /\ deletion.pc = "asked"
  /\ \/ /\ conns' = conns \ {Doomed}
        /\ deletion' = [deletion EXCEPT !.pc = "served", !.ok = TRUE] /\ UNCHANGED upsets
     \/ /\ Upset /\ deletion' = [deletion EXCEPT !.pc = "served"] /\ UNCHANGED conns
  /\ UNCHANGED <<list, busy, loadError, dialog, deleteTarget, listLoads, local, present, confirmed,
                 visits>>

Unlike(rows) == {c \in rows : ~Alike(c, deletion.id)}

DeleteAnswered == deletion.pc = "served"

\* deleteFile drops the row and its namesakes from the rows there were at
\* the click, also when the server refused; deleteConnector drops them from
\* the rows there are, and nothing when it was refused.
EndDelete ==
  LET file == deletion.id \in Uploaded IN
  /\ DeleteAnswered
  /\ list' = IF ~present \/ (~file /\ ~deletion.ok) THEN list
             ELSE IF file THEN Unlike(deletion.list) ELSE Unlike(list)
  /\ local' = IF file \/ deletion.ok THEN Unlike(local) ELSE local
  /\ deleteTarget' = IF present THEN NoRow ELSE deleteTarget
  /\ deletion' = NoDeletion
  /\ UNCHANGED <<conns, busy, loadError, dialog, listLoads, present, confirmed, visits, upsets>>

ConnectionsNext ==
  \/ Tick \/ Refresh \/ SwitchDialog \/ LeavePage \/ DismissDelete \/ ConfirmDelete
  \/ ServeDelete \/ EndDelete
  \/ (\E l \in Loads : ServeLoad(l) \/ LoadArrives(l) \/ LoadFails(l))
  \/ (\E c \in Connectors : ChangedElsewhere(c) \/ AskDelete(c))
  \/ (\E f \in Uploaded : Stored(f))

ConnectionsSpec == ConnectionsInit /\ [][ConnectionsNext]_connVars

(* The interval fires and requests are answered.                            *)
ConnectionsFairness ==
  /\ WF_connVars(inUse = "connections" /\ Tick) /\ WF_connVars(inUse = "connections" /\ ServeDelete) /\ WF_connVars(inUse = "connections" /\ EndDelete)
  /\ \A l \in Loads : WF_connVars(inUse = "connections" /\ ServeLoad(l)) /\ WF_connVars(inUse = "connections" /\ LoadArrives(l))

(* --------------------- waiting, and what is shown ----------------------- *)
\* When nothing changes any more, the page is to show the connections there
\* are, after stale answers, failures and rows dropped with their namesakes,
\* and the browser to forget an upload whose connection and namesakes are
\* gone, whoever deleted them.
ConnectionsLook == present /\ dialog = "none"
ConnectionsAgree ==
  /\ list = conns /\ ~loadError
  /\ \A f \in local : \E g \in conns \cap Uploaded : Alike(f, g)

\* A deletion is under way and its button is disabled.
ConnectionsWait == deletion.pc # "idle"

(* ------------------------------ properties ------------------------------ *)
ConnectionsTypeOK ==
  /\ conns \subseteq Connectors /\ list \subseteq Connectors /\ local \subseteq Uploaded
  /\ listLoads \in [Loads -> [pc : {"idle", "asked", "served"}, ids : SUBSET Connectors]]
  /\ deletion \in [pc : {"idle", "asked", "served"}, id : Connectors \cup {NoRow},
                   list : SUBSET Connectors, ok : BOOLEAN]
  /\ deleteTarget \in Connectors \cup {NoRow}
  /\ busy \in BOOLEAN /\ loadError \in BOOLEAN /\ dialog \in {"none", "open"}
  /\ present \in BOOLEAN /\ confirmed \subseteq Connectors
  /\ visits \in 0..MaxVisits /\ upsets \in 0..MaxUpsets

(* Only a connection that the user confirmed is deleted, although the       *)
(* dialog can be dismissed and opened for another row meanwhile.            *)
DeletesConfirmed ==
  [][deletion.pc = "asked" /\ deletion'.pc = "served" /\ deletion'.ok
       => conns \ conns' \subseteq confirmed]_connVars

(* The browser remembers one upload of a name, whatever loads, uploads and  *)
(* deletions overlap: what is looked up by name is found.                   *)
OneOfAName == \A a, b \in local : Alike(a, b) => a = b
================================================================================

----------------------------- MODULE DatabaseForm -----------------------------
(* DatabaseConnectorForm and TableSelector: the details of a database are   *)
(* verified by discovering its schemas, tables are selected, and the        *)
(* connector is registered.  Escape closes the form at any time; a request  *)
(* to register goes on, and its success closes whatever form is open.       *)
EXTENDS FiniteSets, Integers, Workbench

CONSTANTS
  Hosts, Tables, Schemas,
  tablesOf,          \* tables discovered at each host
  schemaOf,          \* schema of each table
  searched,          \* tables that match the search term
  MaxClicks          \* bound: forms opened, details changed, tables clicked

ASSUME FormAssumption ==
  /\ tablesOf \in [Hosts -> SUBSET Tables] /\ schemaOf \in [Tables -> Schemas]
  /\ searched \subseteq Tables /\ MaxClicks \in Nat

VARIABLES
  form,              \* state of the form that is open, by instance
  search,            \* the search term of TableSelector is entered
  saves,             \* requests to register under way
  connectors,        \* server: the connectors, host and tables
  clicks             \* bound used up

formVars == <<form, search, saves, connectors, clicks>>

NewForm(i, h) ==
  [open |-> TRUE, inst |-> i, phase |-> "details", host |-> h, selected |-> {}, saving |-> FALSE]

FormInit ==
  /\ \E h \in Hosts : form = NewForm(0, h)
  /\ search = FALSE /\ saves = {} /\ connectors = {} /\ clicks = 0

Click == clicks < MaxClicks /\ clicks' = clicks + 1

OpenForm ==
  /\ ~form.open /\ Click /\ \E h \in Hosts : form' = NewForm(form.inst + 1, h)
  /\ search' = FALSE /\ UNCHANGED <<saves, connectors>>

CloseForm ==
  /\ form.open /\ form' = [form EXCEPT !.open = FALSE]
  /\ UNCHANGED <<search, saves, connectors, clicks>>

\* The inputs are disabled while verifying and gone when connected.
EditDetails(h) ==
  /\ form.open /\ form.phase = "details" /\ Click /\ form' = [form EXCEPT !.host = h]
  /\ UNCHANGED <<search, saves, connectors>>

\* handleConnect with details that are complete; the answer.
VerifyDetails ==
  /\ form.open /\ form.phase = "details" /\ form' = [form EXCEPT !.phase = "verifying"]
  /\ UNCHANGED <<search, saves, connectors, clicks>>

BugDiscovered ==
  /\ form.open /\ form.phase = "verifying" /\ search' = FALSE
  /\ form' \in {[form EXCEPT !.phase = "connected"], [form EXCEPT !.phase = "failed"]}
  /\ UNCHANGED <<saves, connectors, clicks>>

Discovered ==
  /\ form.open /\ form.phase = "verifying"
  /\ form' \in {[form EXCEPT !.phase = "connected"], [form EXCEPT !.phase = "details"]}
  /\ search' = FALSE /\ UNCHANGED <<saves, connectors, clicks>>

BugCleared == form.selected

Cleared == {}

\* "Edit Credentials": what was selected is dropped.
EditCredentials ==
  /\ form.open /\ form.phase = "connected"
  /\ form' = [form EXCEPT !.phase = "details", !.selected = Cleared]
  /\ UNCHANGED <<search, saves, connectors, clicks>>

(* ----------------------------- TableSelector ---------------------------- *)
Listed == tablesOf[form.host] \cap (IF search THEN searched ELSE Tables)

Select(tables) ==
  /\ form.open /\ form.phase = "connected" /\ Click /\ form' = [form EXCEPT !.selected = tables]
  /\ UNCHANGED <<search, saves, connectors>>

ToggleTable(t) ==
  t \in Listed /\ Select((form.selected \ {t}) \cup ({t} \ form.selected))

\* The box of a schema selects the tables that are listed, or clears them
\* when all of them are selected.
ToggleSchema(s) ==
  LET shown == {t \in Listed : schemaOf[t] = s} IN
  /\ shown # {}
  /\ Select(IF shown \subseteq form.selected THEN form.selected \ shown ELSE form.selected \cup shown)

SearchTables ==
  /\ form.open /\ form.phase = "connected" /\ Click /\ search' = ~search
  /\ UNCHANGED <<form, saves, connectors>>

(* ----------------------------- registering ------------------------------ *)
BugMayRegister == form.open /\ form.phase = "connected" /\ form.selected # {}

MayRegister == form.open /\ form.phase = "connected" /\ ~form.saving /\ form.selected # {}

\* handleRegister.
Register ==
  /\ MayRegister
  /\ form' = [form EXCEPT !.saving = TRUE]
  /\ saves' = saves \cup {[inst |-> form.inst, host |-> form.host, tables |-> form.selected]}
  /\ UNCHANGED <<search, connectors, clicks>>

Own(r) == form.open /\ form.inst = r.inst

\* onSuccess of the page closes the form that is open by then.
Registered(r) ==
  /\ saves' = saves \ {r}
  /\ connectors' = connectors \cup {[host |-> r.host, tables |-> r.tables]}
  /\ form' = [form EXCEPT !.open = FALSE]
  /\ UNCHANGED <<search, clicks>>

Saved(r) == [form EXCEPT !.saving = @ /\ ~Own(r)]

NotRegistered(r) ==
  /\ saves' = saves \ {r} /\ form' = Saved(r)
  /\ connectors' \in {connectors, connectors \cup {[host |-> r.host, tables |-> r.tables]}}
  /\ UNCHANGED <<search, clicks>>

SaveAnswered == \E r \in saves : Registered(r) \/ NotRegistered(r)

FormNext ==
  \/ OpenForm \/ CloseForm \/ (\E h \in Hosts : EditDetails(h)) \/ VerifyDetails \/ EditCredentials
  \/ (\E t \in Tables : ToggleTable(t)) \/ (\E s \in Schemas : ToggleSchema(s)) \/ SearchTables
  \/ Register \/ Discovered \/ SaveAnswered

FormSpec == FormInit /\ [][FormNext]_formVars

(* Requests are answered.                                                   *)
FormFairness == WF_formVars(inUse = "form" /\ Discovered) /\ WF_formVars(inUse = "form" /\ SaveAnswered)

(* --------------------- waiting, and what is shown ----------------------- *)
FormWaits == form.open /\ (form.saving \/ form.phase = "verifying")

(* ------------------------------ properties ------------------------------ *)
FormTypeOK ==
  /\ form \in [open : BOOLEAN, inst : 0..MaxClicks, phase : {"details", "verifying", "connected"},
               host : Hosts, selected : SUBSET Tables, saving : BOOLEAN]
  /\ \A r \in saves : r.inst \in 0..form.inst /\ r.host \in Hosts /\ r.tables \subseteq Tables
  /\ connectors \subseteq [host : Hosts, tables : SUBSET Tables] /\ clicks \in 0..MaxClicks

(* A connector is registered only for tables that were discovered with its  *)
(* own details, although details can be edited after tables were selected   *)
(* and while an earlier form is still being saved.                          *)
RegisteredWasDiscovered ==
  \A c \in connectors : c.tables # {} /\ c.tables \subseteq tablesOf[c.host]

(* A form that saves has a request under way, and only one.                 *)
OneSave ==
  form.open => Cardinality({r \in saves : Own(r)}) = (IF form.saving THEN 1 ELSE 0)
===============================================================================

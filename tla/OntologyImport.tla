---------------------------- MODULE OntologyImport ----------------------------
(* AutoGenerateModal: an entity type is generated from the columns of a     *)
(* connection, or the types and relationship types of an industry template  *)
(* are imported one request at a time.  A request that fails is passed      *)
(* over, an import may run again, other users create types meanwhile, and   *)
(* the window may be closed and opened again at any time.                   *)
EXTENDS FiniteSets, Integers, Sequences, Workbench

CONSTANTS
  Conns, derivedName,       \* connections and the type name each one suggests
  Templates, typesIn,       \* templates, and the names of their types in order
  relsIn,                   \* their relationships in order: [name, src, tgt]
  MaxOpens, MaxTries        \* bounds: times the window is opened, requests started

TypesNamedIn(t) == {typesIn[t][i] : i \in DOMAIN typesIn[t]}
RelationsIn(t) == {relsIn[t][i] : i \in DOMAIN relsIn[t]}

\* A relationship of a template is between types of the template.
ASSUME ImportAssumption ==
  /\ DOMAIN derivedName = Conns /\ DOMAIN typesIn = Templates /\ DOMAIN relsIn = Templates
  /\ \A t \in Templates : typesIn[t] \in Seq(TypesNamedIn(t)) /\ relsIn[t] \in Seq(RelationsIn(t))
  /\ \A t \in Templates : \A r \in RelationsIn(t) : {r.src, r.tgt} \subseteq TypesNamedIn(t)
  /\ MaxOpens \in Nat /\ MaxTries \in Nat

VARIABLES
  window,            \* state of the modal that is open
  offered,           \* connections that were loaded
  chosen,            \* connection and template that are selected
  tasks,             \* requests, loops and timers of every modal so far
  known,             \* server: names of the entity types
  joined,            \* server: names of the relationship types
  tries              \* bound used up

importVars == <<window, offered, chosen, tasks, known, joined, tries>>

TemplateTypes == UNION {TypesNamedIn(t) : t \in Templates}
Names == TemplateTypes \cup {derivedName[c] : c \in Conns}

NoWindow ==
  [open |-> FALSE, inst |-> 0, loading |-> FALSE, generating |-> FALSE, importing |-> FALSE]

ImportInit ==
  /\ window = NoWindow
  /\ offered = {} /\ chosen \in [conn : {{}}, template : Templates]
  /\ tasks = {} /\ known = {} /\ joined = {} /\ tries = 0

MyTask(t) == window.open /\ window.inst = t.inst
SetMine(t, w) == window' = IF MyTask(t) THEN w ELSE window

\* The modal is mounted and loads the connections.
OpenWindow ==
  /\ ~window.open /\ window.inst < MaxOpens
  /\ window' = [NoWindow EXCEPT !.open = TRUE, !.inst = window.inst + 1, !.loading = TRUE]
  /\ offered' = {} /\ chosen' \in [conn : {{}}, template : Templates]
  /\ tasks' = tasks \cup {[op |-> "conns", inst |-> window.inst + 1]}
  /\ UNCHANGED <<known, joined, tries>>

\* A modal that is closed has no state.
Shut ==
  /\ window' = [NoWindow EXCEPT !.inst = window.inst]
  /\ offered' = {} /\ chosen' = [chosen EXCEPT !.conn = {}]

\* Nothing is cancelled when it is closed.
CloseWindow ==
  /\ window.open /\ Shut
  /\ UNCHANGED <<tasks, known, joined, tries>>

\* The connections arrive and one of them is selected, or the load fails.
ConnsAnswered(t) ==
  /\ t.op = "conns" /\ tasks' = tasks \ {t} /\ UNCHANGED <<known, joined, tries>>
  /\ \/ /\ SetMine(t, [window EXCEPT !.loading = FALSE])
        /\ offered' = IF MyTask(t) THEN Conns ELSE offered
        /\ \E c \in Conns : chosen' = IF MyTask(t) THEN [chosen EXCEPT !.conn = {c}] ELSE chosen
     \/ /\ SetMine(t, [window EXCEPT !.loading = FALSE])
        /\ UNCHANGED <<offered, chosen>>

ChooseConn(c) ==
  /\ window.open /\ c \in offered /\ chosen' = [chosen EXCEPT !.conn = {c}]
  /\ UNCHANGED <<window, offered, tasks, known, joined, tries>>

ChooseTemplate(k) ==
  /\ window.open /\ chosen' = [chosen EXCEPT !.template = k]
  /\ UNCHANGED <<window, offered, tasks, known, joined, tries>>

(* ------------------------ generating from a dataset --------------------- *)
MayGenerateType == tries < MaxTries /\ window.open /\ ~window.generating /\ chosen.conn # {}

GenerateType ==
  /\ MayGenerateType /\ window' = [window EXCEPT !.generating = TRUE]
  /\ tasks' = tasks \cup {[op |-> "generate", inst |-> window.inst, name |-> derivedName[c]] :
                            c \in chosen.conn}
  /\ tries' = tries + 1 /\ UNCHANGED <<offered, chosen, known, joined>>

Timer(t) == [op |-> "timer", inst |-> t.inst]

\* The flag goes with the end of the request, whatever became of it.
Finished(t, w) ==
  IF t.op = "generate" THEN [w EXCEPT !.generating = FALSE] ELSE [w EXCEPT !.importing = FALSE]

TypeGenerated(t) ==
  /\ t.op = "generate" /\ UNCHANGED <<offered, chosen, joined, tries>>
  /\ \/ /\ t.name \notin known /\ known' = known \cup {t.name}
        /\ tasks' = (tasks \ {t}) \cup {Timer(t)}
        /\ SetMine(t, Finished(t, window))
     \/ /\ tasks' = tasks \ {t} /\ UNCHANGED known
        /\ SetMine(t, Finished(t, window))

\* A second or so after the success: the page loads its lists and the window
\* that is open by then is closed.
TimerFires(t) ==
  /\ t.op = "timer" /\ tasks' = tasks \ {t} /\ Shut
  /\ UNCHANGED <<known, joined, tries>>

(* ------------------------- importing a template ------------------------- *)
BugMayImport == tries < MaxTries /\ window.open

MayImport == tries < MaxTries /\ window.open /\ ~window.importing

ImportTemplate ==
  /\ MayImport /\ window' = [window EXCEPT !.importing = TRUE]
  /\ tasks' = tasks \cup {[op |-> "import", inst |-> window.inst, template |-> chosen.template,
                           phase |-> "existing", i |-> 1, ids |-> {}, failed |-> FALSE]}
  /\ tries' = tries + 1 /\ UNCHANGED <<offered, chosen, known, joined>>

Continue(t, u) == tasks' = (tasks \ {t}) \cup {u} /\ UNCHANGED <<window, offered, chosen, tries>>

\* The types that exist are read, so that they are not created again and
\* relationships find them; this failure ends the import.
ExistingRead(t) ==
  /\ t.op = "import" /\ t.phase = "existing"
  /\ \/ Continue(t, [t EXCEPT !.phase = "types", !.ids = known]) /\ UNCHANGED <<known, joined>>
     \/ /\ tasks' = tasks \ {t} /\ SetMine(t, Finished(t, window))
        /\ UNCHANGED <<offered, chosen, known, joined, tries>>

BugCreatedIn(t, n) == [t EXCEPT !.i = @ + 1]

\* The identifier of a new type is kept for the relationships.
CreatedIn(t, n) == [t EXCEPT !.i = @ + 1, !.ids = @ \cup {n}]

\* One type: it has an identifier, or it is created, refused because of its
\* name, or the request fails.
TypeImported(t) ==
  /\ t.op = "import" /\ t.phase = "types" /\ UNCHANGED joined
  /\ IF t.i > Len(typesIn[t.template])
     THEN Continue(t, [t EXCEPT !.phase = "rels", !.i = 1]) /\ UNCHANGED known
     ELSE LET n == typesIn[t.template][t.i] IN
          \/ n \in t.ids /\ Continue(t, [t EXCEPT !.i = @ + 1]) /\ UNCHANGED known
          \/ /\ n \notin t.ids \cup known /\ known' = known \cup {n}
             /\ Continue(t, CreatedIn(t, n))
          \/ n \notin t.ids /\ Continue(t, [t EXCEPT !.i = @ + 1, !.failed = TRUE]) /\ UNCHANGED known

\* One relationship, if both ends have an identifier.
RelImported(t) ==
  /\ t.op = "import" /\ t.phase = "rels" /\ UNCHANGED known
  /\ IF t.i > Len(relsIn[t.template])
     THEN /\ tasks' = (tasks \ {t}) \cup {Timer(t)} \cup
                        (IF t.failed THEN {} ELSE {[op |-> "whole", inst |-> t.inst, template |-> t.template]})
          /\ SetMine(t, Finished(t, window))
          /\ UNCHANGED <<offered, chosen, joined, tries>>
     ELSE LET r == relsIn[t.template][t.i] IN
          \/ {r.src, r.tgt} \subseteq t.ids
             /\ joined' = joined \cup {r.name} /\ Continue(t, [t EXCEPT !.i = @ + 1])
          \/ {r.src, r.tgt} \subseteq t.ids /\ r.name \notin joined
             /\ Continue(t, [t EXCEPT !.i = @ + 1, !.failed = TRUE]) /\ UNCHANGED joined
          \/ ~({r.src, r.tgt} \subseteq t.ids)
             /\ Continue(t, [t EXCEPT !.i = @ + 1]) /\ UNCHANGED joined

\* Another user creates a type.
OtherCreates(n) ==
  /\ n \notin known /\ known' = known \cup {n}
  /\ UNCHANGED <<window, offered, chosen, tasks, joined, tries>>

ImportTask == \E t \in tasks :
  ConnsAnswered(t) \/ TypeGenerated(t) \/ TimerFires(t) \/ ExistingRead(t) \/ TypeImported(t)
    \/ RelImported(t)

ImportNext ==
  \/ ImportTask \/ OpenWindow \/ CloseWindow \/ GenerateType \/ ImportTemplate
  \/ \E c \in Conns : ChooseConn(c)
  \/ \E k \in Templates : ChooseTemplate(k)
  \/ \E n \in Names : OtherCreates(n)

ImportSpec == ImportInit /\ [][ImportNext]_importVars

\* Every request is answered or fails and every timer fires, however often
\* the user tries again in a window that stays open.
ImportFairness ==
  \A i \in 1 .. MaxOpens, o \in {"conns", "generate", "timer", "import"} :
    WF_importVars(inUse = "import" /\ \E t \in tasks : t.inst = i /\ t.op = o
      /\ (ConnsAnswered(t) \/ TypeGenerated(t) \/ TimerFires(t) \/ ExistingRead(t)
            \/ TypeImported(t) \/ RelImported(t)))

(* --------------------- waiting, and what is shown ----------------------- *)
\* The window says "Generating", "Importing" or "Loading".
ImportWaits == window.open /\ (window.importing \/ window.generating \/ window.loading)

(* ------------------------------ properties ------------------------------ *)
ImportTypeOK ==
  /\ window.inst \in 0 .. MaxOpens /\ tries \in 0 .. MaxTries
  /\ chosen.conn \subseteq offered /\ known \subseteq Names
  /\ \A t \in tasks : t.op = "import" => t.ids \subseteq known
  /\ Cardinality({t \in tasks : t.op = "import" /\ MyTask(t)}) <= 1

\* An import in which no request failed leaves the template complete: its
\* types and its relationships exist, also when earlier imports stopped half
\* way, another one runs beside it, or others had created some of the types.
ImportCompletes ==
  \A t \in tasks : t.op = "whole" =>
    TypesNamedIn(t.template) \subseteq known /\ {r.name : r \in RelationsIn(t.template)} \subseteq joined
=============================================================================

---------------------------- MODULE OntologyEditor ----------------------------
(* OntologyPage with EntityTypeEditor and RelationshipTypeForm, and the two *)
(* services of the backend behind them.  A request is served and answered   *)
(* in two steps, so that answers overtake each other; the answer to a save  *)
(* closes whatever editor is open.                                          *)
EXTENDS FiniteSets, Integers, Lists, SequencesExt, Workbench

CONSTANTS
  TypeNames,         \* names of entity types and of relationship types
  MaxTypes,          \* bound: types created, numbered as they are
  MaxActs            \* bound: what the user does on the page

ASSUME OntologyAssumption == MaxTypes \in Nat /\ MaxActs \in Nat

VARIABLES
  onto,              \* the page: tab, loading, the two lists
  entEditor,         \* EntityTypeEditor
  relEditor,         \* RelationshipTypeForm
  typeCalls,         \* requests and answers under way
  entTypes,          \* server: entity types
  relTypes,          \* server: relationship types
  created,           \* number of types created so far
  acts               \* bound used up

ontoVars == <<onto, entEditor, relEditor, typeCalls, entTypes, relTypes, created, acts>>

TypeIds == 1 .. MaxTypes
Tabs == {"entities", "relationships", "versions"}

LoadTab(kind) == [op |-> "load", kind |-> kind, tag |-> acts]

\* An editor that is closed has no state.
NoEntEditor == [open |-> FALSE, inst |-> 0, id |-> 0, saving |-> FALSE]
NoRelEditor == [open |-> FALSE, inst |-> 0, id |-> 0, saving |-> FALSE, options |-> {}]

OntologyInit ==
  /\ onto = [tab |-> "entities", loading |-> TRUE, entities |-> <<>>, rels |-> <<>>]
  /\ entEditor = NoEntEditor /\ relEditor = NoRelEditor
  /\ entTypes = {} /\ relTypes = {} /\ created = 0 /\ acts = 0
  /\ typeCalls = {[op |-> "load", kind |-> "entities", tag |-> 0]}

Act == acts < MaxActs /\ acts' = acts + 1

BugPageFree == ~entEditor.open

\* The editors cover the page.
PageFree == ~entEditor.open /\ ~relEditor.open

(* ------------------------------- the page ------------------------------- *)
\* handleTabChange and the effect that loads the tab.
ChangeTab(t) ==
  /\ PageFree /\ t # onto.tab /\ Act
  /\ onto' = [onto EXCEPT !.tab = t, !.loading = TRUE]
  /\ typeCalls' = typeCalls \cup {LoadTab(t)}
  /\ UNCHANGED <<entEditor, relEditor, entTypes, relTypes, created>>

\* loadEntities, loadRelationships and loadVersions, the answer: the flag
\* belongs to all of them.
LoadFailed == [onto EXCEPT !.loading = FALSE]

ListArrives(c) ==
  /\ c.op = "list" /\ typeCalls' = typeCalls \ {c}
  /\ CASE c.kind = "entities" -> onto' = [onto EXCEPT !.entities = c.items, !.loading = FALSE]
       [] c.kind = "relationships" -> onto' = [onto EXCEPT !.rels = c.items, !.loading = FALSE]
       [] c.kind = "versions" -> onto' = [onto EXCEPT !.loading = FALSE]
       [] OTHER -> onto' = onto
  /\ relEditor' = IF c.kind = "options" /\ relEditor.open /\ relEditor.inst = c.tag
                  THEN [relEditor EXCEPT !.options = {t.id : t \in Range(c.items)}]
                  ELSE relEditor
  /\ UNCHANGED <<entEditor, entTypes, relTypes, created, acts>>

\* A request that fails before it is served; a failed deletion only says so.
CallFails(c) ==
  /\ c.op \in {"load", "delete"} /\ typeCalls' = typeCalls \ {c}
  /\ onto' = IF c.op = "delete" \/ c.kind = "options" THEN onto ELSE LoadFailed
  /\ UNCHANGED <<entEditor, relEditor, entTypes, relTypes, created, acts>>

\* deleteEntity and deleteRelationship, confirmed; the row goes with the answer.
DeleteType(kind, id) ==
  /\ PageFree /\ onto.tab = kind /\ Act
  /\ \E t \in Range(IF kind = "entities" THEN onto.entities ELSE onto.rels) : t.id = id
  /\ typeCalls' = typeCalls \cup {[op |-> "delete", kind |-> kind, id |-> id]}
  /\ UNCHANGED <<onto, entEditor, relEditor, entTypes, relTypes, created>>

Without(list, id) == At(list, {i \in DOMAIN list : list[i].id # id})

DeletedArrives(c) ==
  /\ c.op = "deleted" /\ typeCalls' = typeCalls \ {c}
  /\ onto' = IF c.kind = "entities" THEN [onto EXCEPT !.entities = Without(@, c.id)]
             ELSE [onto EXCEPT !.rels = Without(@, c.id)]
  /\ UNCHANGED <<entEditor, relEditor, entTypes, relTypes, created, acts>>

(* ------------------------------ the editors ----------------------------- *)
\* A new type (id 0) or one of the list.
OpenEntity(id) ==
  /\ PageFree /\ onto.tab = "entities" /\ Act
  /\ id = 0 \/ \E t \in Range(onto.entities) : t.id = id
  /\ entEditor' = [open |-> TRUE, inst |-> acts, id |-> id, saving |-> FALSE]
  /\ UNCHANGED <<onto, relEditor, typeCalls, entTypes, relTypes, created>>

\* The form loads the entity types it offers when it is mounted.
OpenRel(id) ==
  /\ PageFree /\ onto.tab = "relationships" /\ Act
  /\ id = 0 \/ \E t \in Range(onto.rels) : t.id = id
  /\ relEditor' = [open |-> TRUE, inst |-> acts, id |-> id, saving |-> FALSE, options |-> {}]
  /\ typeCalls' = typeCalls \cup {LoadTab("options")}
  /\ UNCHANGED <<onto, entEditor, entTypes, relTypes, created>>

\* Escape, Cancel: also while a save is under way.
CloseEntity ==
  /\ entEditor.open /\ entEditor' = NoEntEditor
  /\ UNCHANGED <<onto, relEditor, typeCalls, entTypes, relTypes, created, acts>>

CloseRel ==
  /\ relEditor.open /\ relEditor' = NoRelEditor
  /\ UNCHANGED <<onto, entEditor, typeCalls, entTypes, relTypes, created, acts>>

\* handleSubmit of the editor, with the name that was entered.
SaveEntity(n) ==
  /\ entEditor.open /\ ~entEditor.saving /\ entEditor' = [entEditor EXCEPT !.saving = TRUE]
  /\ typeCalls' = typeCalls \cup {[op |-> "save", kind |-> "entities", inst |-> entEditor.inst,
                           id |-> entEditor.id, name |-> n]}
  /\ UNCHANGED <<onto, relEditor, entTypes, relTypes, created, acts>>

SaveRel(n, s, t) ==
  /\ relEditor.open /\ ~relEditor.saving /\ relEditor' = [relEditor EXCEPT !.saving = TRUE]
  /\ {s, t} \subseteq relEditor.options
       \/ \E r \in Range(onto.rels) : r.id = relEditor.id /\ r.src = s /\ r.tgt = t
  /\ typeCalls' = typeCalls \cup {[op |-> "save", kind |-> "relationships", inst |-> relEditor.inst,
                           id |-> relEditor.id, name |-> n, src |-> s, tgt |-> t]}
  /\ UNCHANGED <<onto, entEditor, entTypes, relTypes, created, acts>>

BugUpserted(list, item) == <<item>> \o list

\* onSaved: the saved type replaces the one with its id, or comes first.
Upserted(list, item) ==
  IF \E i \in DOMAIN list : list[i].id = item.id
  THEN [i \in DOMAIN list |-> IF list[i].id = item.id THEN item ELSE list[i]]
  ELSE <<item>> \o list

SavedArrives(c) ==
  /\ c.op = "saved" /\ typeCalls' = typeCalls \ {c}
  /\ IF c.kind = "entities"
     THEN /\ entEditor' = NoEntEditor /\ UNCHANGED relEditor
          /\ onto' = [onto EXCEPT !.entities = Upserted(@, c.item)]
     ELSE /\ relEditor' = NoRelEditor /\ UNCHANGED entEditor
          /\ onto' = [onto EXCEPT !.rels = Upserted(@, c.item)]
  /\ UNCHANGED <<entTypes, relTypes, created, acts>>

\* The failure ends the saving of the editor it belongs to.
StillSaving(editor, c) == editor.saving /\ editor.inst # c.inst

\* Refused, or stored while the answer is lost.
RefusedArrives(c) ==
  /\ c.op \in {"refused", "saved"} /\ typeCalls' = typeCalls \ {c}
  /\ entEditor' = IF c.kind = "entities"
                  THEN [entEditor EXCEPT !.saving = StillSaving(entEditor, c)] ELSE entEditor
  /\ relEditor' = IF c.kind = "relationships"
                  THEN [relEditor EXCEPT !.saving = StillSaving(relEditor, c)] ELSE relEditor
  /\ UNCHANGED <<onto, entTypes, relTypes, created, acts>>

(* ------------------------------ the server ------------------------------ *)
NameTaken(S, n) == \E t \in S : t.name = n

BugEndsKnown(c) == TRUE

\* RelationshipTypeService: both ends are types of the tenant.
EndsKnown(c) == {c.src, c.tgt} \subseteq {t.id : t \in entTypes}

AnswerCall(c, a) == typeCalls' = (typeCalls \ {c}) \cup {a}

ServeTab(c) ==
  /\ c.op = "load"
  /\ AnswerCall(c, [op |-> "list", kind |-> c.kind, tag |-> c.tag,
                items |-> IF c.kind = "relationships" THEN SetToSeq(relTypes) ELSE SetToSeq(entTypes)])
  /\ UNCHANGED <<onto, entEditor, relEditor, entTypes, relTypes, created, acts>>

\* create of EntityTypeService and of RelationshipTypeService.  The update of
\* a type that is listed (its id is not 0) is refused before its service is
\* called: the editors send back the schema of its properties as the string
\* they read it as, and UpdateRequest takes a map.
StoredTypes(S, c, item) ==
  /\ c.id = 0 /\ ~NameTaken(S, c.name) /\ created < MaxTypes /\ created' = created + 1
  /\ AnswerCall(c, [op |-> "saved", kind |-> c.kind, inst |-> c.inst, item |-> item])

ServeSave(c) ==
  /\ c.op = "save" /\ UNCHANGED <<onto, entEditor, relEditor, acts>>
  /\ IF c.kind = "entities"
     THEN LET e == [id |-> created + 1, name |-> c.name] IN
          /\ StoredTypes(entTypes, c, e)
          /\ entTypes' = entTypes \cup {e} /\ UNCHANGED relTypes
     ELSE LET r == [id |-> created + 1, name |-> c.name, src |-> c.src, tgt |-> c.tgt] IN
          /\ EndsKnown(c) /\ StoredTypes(relTypes, c, r)
          /\ relTypes' = relTypes \cup {r} /\ UNCHANGED entTypes

\* A name that is taken, ends that are gone, a body that is rejected (as that
\* of a listed type always is), or a connection that broke.
RefuseSave(c) ==
  /\ c.op = "save" /\ AnswerCall(c, [op |-> "refused", kind |-> c.kind, inst |-> c.inst])
  /\ UNCHANGED <<onto, entEditor, relEditor, entTypes, relTypes, created, acts>>

\* Relationship types go with the entity types they join.
ServeDeleteType(c) ==
  /\ c.op = "delete" /\ UNCHANGED <<onto, entEditor, relEditor, created, acts>>
  /\ IF c.kind = "entities"
     THEN /\ entTypes' = {t \in entTypes : t.id # c.id}
          /\ relTypes' = {r \in relTypes : c.id \notin {r.src, r.tgt}}
     ELSE relTypes' = {r \in relTypes : r.id # c.id} /\ UNCHANGED entTypes
  /\ IF c.id \in {t.id : t \in entTypes \cup relTypes}
     THEN AnswerCall(c, [op |-> "deleted", kind |-> c.kind, id |-> c.id])
     ELSE typeCalls' = typeCalls \ {c}

CallStep(c) ==
  \/ ListArrives(c) \/ CallFails(c) \/ DeletedArrives(c) \/ SavedArrives(c) \/ RefusedArrives(c)
  \/ ServeTab(c) \/ ServeSave(c) \/ RefuseSave(c) \/ ServeDeleteType(c)

OntologyNext ==
  \/ (\E c \in typeCalls : CallStep(c)) \/ CloseEntity \/ CloseRel
  \/ \E t \in Tabs : ChangeTab(t)
  \/ \E id \in TypeIds, kind \in {"entities", "relationships"} : DeleteType(kind, id)
  \/ \E id \in {0} \cup TypeIds : OpenEntity(id) \/ OpenRel(id)
  \/ \E n \in TypeNames : SaveEntity(n) \/ \E s, t \in TypeIds : SaveRel(n, s, t)

OntologySpec == OntologyInit /\ [][OntologyNext]_ontoVars

\* Every request is served and every answer arrives, or it fails, however
\* often the user saves again meanwhile.
OntologyFairness ==
  \A o \in {"load", "list", "save", "saved", "refused", "delete", "deleted"} :
    WF_ontoVars(inUse = "ontology" /\ \E c \in typeCalls : c.op = o /\ CallStep(c))

(* --------------------- waiting, and what is shown ----------------------- *)
\* The spinner of the page turns, or an editor that is open saves.
OntologyWaits ==
  \/ onto.loading
  \/ entEditor.open /\ entEditor.saving
  \/ relEditor.open /\ relEditor.saving

(* ------------------------------ properties ------------------------------ *)
OntologyTypeOK ==
  /\ onto.tab \in Tabs /\ onto.loading \in BOOLEAN
  /\ \A t \in Range(onto.entities) \cup Range(onto.rels) \cup entTypes \cup relTypes :
       t.id \in TypeIds /\ t.name \in TypeNames
  /\ relEditor.options \subseteq TypeIds
  /\ ~(entEditor.open /\ relEditor.open)
  /\ created \in 0 .. MaxTypes /\ acts \in 0 .. MaxActs

\* A type is listed once: the answer to a save meets lists loaded before and
\* after it, and the answer to an editor that was closed meanwhile.
ListedOnce ==
  /\ \A i, j \in DOMAIN onto.entities : onto.entities[i].id = onto.entities[j].id => i = j
  /\ \A i, j \in DOMAIN onto.rels : onto.rels[i].id = onto.rels[j].id => i = j

\* A relationship type joins entity types that exist, though the form offers
\* what it loaded when it opened and a type is deleted before the save.
EndsExist == \A r \in relTypes : {r.src, r.tgt} \subseteq {t.id : t \in entTypes}
=============================================================================

------------------------------ MODULE PropertyForm -----------------------------
(* The properties of an entity type: PropertySchemaForm inside the editor,  *)
(* the schema the backend stores and the list it gives back.  A property    *)
(* from the backend has no identifier, so that an edit of one of them is an *)
(* edit of all of them; one added in the form has its own.  Only the save   *)
(* of a new type stores a schema.                                           *)
EXTENDS FiniteSets, Integers, Lists, SequencesExt

CONSTANTS PropNames, MaxFields, MaxTouches   \* bounds: names, fields, edits

CONSTANTS blank, undefined                   \* no name, no identifier

ASSUME PropertyAssumption ==
  /\ blank \notin PropNames /\ undefined \notin Nat
  /\ IsFiniteSet(PropNames) /\ MaxFields \in Nat /\ MaxTouches \in Nat
  /\ Cardinality(PropNames) <= MaxFields    \* a field for each name stored

VARIABLES
  fields,            \* the properties in the form, while the editor is open
  expanded,          \* identifier of the property that is unfolded
  editing,           \* the editor is open
  typeStored,        \* server: the type exists
  schema,            \* server: names of its properties, with their flag
  touches            \* bound used up

propVars == <<fields, expanded, editing, typeStored, schema, touches>>

FieldIds == 1 .. MaxTouches
Fields == [id : FieldIds \cup {undefined}, name : PropNames \cup {blank}, required : BOOLEAN]

PropertyInit ==
  /\ fields = <<>> /\ expanded = blank /\ editing = FALSE /\ typeStored \in BOOLEAN
  /\ \E S \in SUBSET PropNames : schema \in {{[name |-> n, required |-> r] : n \in S} : r \in BOOLEAN}
  /\ ~typeStored => schema = {}
  /\ touches = 0

\* The list of a response, as the page and the editor take it.
ListedFields ==
  SetToSeq({[id |-> undefined, name |-> p.name, required |-> p.required] : p \in schema})

\* The form of a new type is empty.
OpenFields ==
  /\ ~editing /\ editing' = TRUE /\ expanded' = blank
  /\ fields' = IF typeStored THEN ListedFields ELSE <<>>
  /\ UNCHANGED <<typeStored, schema, touches>>

Touch == editing /\ touches < MaxTouches /\ touches' = touches + 1 /\ UNCHANGED <<editing, typeStored, schema>>

BugFreshId == 1

FreshId == touches + 1

AddField ==
  /\ Touch /\ Len(fields) < MaxFields
  /\ fields' = Append(fields, [id |-> FreshId, name |-> blank, required |-> FALSE])
  /\ expanded' = FreshId

\* update changes every property with the identifier.
UpdateField(id, n, r) ==
  /\ Touch /\ expanded = id /\ \E i \in DOMAIN fields : fields[i].id = id
  /\ \E f \in {"name", "required"} :
       fields' = [i \in DOMAIN fields |->
                    IF fields[i].id # id THEN fields[i]
                    ELSE IF f = "name" THEN [fields[i] EXCEPT !.name = n]
                    ELSE [fields[i] EXCEPT !.required = r]]
  /\ UNCHANGED expanded

RemoveField(id) ==
  /\ Touch /\ expanded = id /\ \E i \in DOMAIN fields : fields[i].id = id
  /\ fields' = At(fields, {i \in DOMAIN fields : fields[i].id # id}) /\ expanded' = blank

\* The head of a property folds and unfolds it.
ToggleField(id) ==
  /\ editing /\ \E i \in DOMAIN fields : fields[i].id = id
  /\ expanded' = IF expanded = id THEN blank ELSE id
  /\ UNCHANGED <<fields, editing, typeStored, schema, touches>>

BugSchemaOf(list, given) ==
  IF given # {} THEN given
  ELSE {[name |-> list[i].name, required |-> list[i].required] :
          i \in {j \in DOMAIN list : list[j].name # blank}}

\* resolvePropertiesSchema: a schema that is given comes before the list.  A
\* property without a name is left out, of two with one name one stays,
\* required if one of them is.
SchemaOf(list, given) ==
  IF given # {} THEN given
  ELSE {[name |-> n, required |-> \E i \in DOMAIN list : list[i].name = n /\ list[i].required] :
          n \in {list[i].name : i \in DOMAIN list} \ {blank}}

\* The POST of a new type, which has no schema to give, succeeds and closes
\* the editor.  The PUT of a type that is stored is refused, and so may the
\* POST be: the editor stays as it is.  (The form of a stored type gives the
\* schema it was listed with, a string where the update takes a map.)
SaveFields ==
  /\ editing /\ ~typeStored /\ typeStored' = TRUE /\ schema' = SchemaOf(fields, {}) /\ editing' = FALSE
  /\ fields' = <<>> /\ expanded' = blank /\ UNCHANGED touches

CloseFields ==
  /\ editing /\ editing' = FALSE /\ fields' = <<>> /\ expanded' = blank
  /\ UNCHANGED <<typeStored, schema, touches>>

PropertyNext ==
  \/ OpenFields \/ AddField \/ SaveFields \/ CloseFields
  \/ \E id \in FieldIds \cup {undefined} :
       RemoveField(id) \/ ToggleField(id)
       \/ \E n \in PropNames \cup {blank}, r \in BOOLEAN : UpdateField(id, n, r)

PropertySpec == PropertyInit /\ [][PropertyNext]_propVars

(* ------------------------------ properties ------------------------------ *)
PropertyTypeOK ==
  /\ Len(fields) <= MaxFields /\ Range(fields) \subseteq Fields
  /\ expanded \in FieldIds \cup {undefined, blank}
  /\ \A p, q \in schema : p.name = q.name => p = q
  /\ schema \subseteq [name : PropNames, required : BOOLEAN] /\ touches \in 0 .. MaxTouches

\* An edit changes one of the properties that were added in the form, and a
\* deletion takes one of them: they do not share an identifier, though the
\* ones that came from the backend do.
AddedFieldsApart ==
  [][(editing /\ editing') =>
       LET own(list) == {i \in DOMAIN list : list[i].id # undefined} IN
       /\ Len(fields') = Len(fields) =>
            Cardinality({i \in own(fields) : fields'[i] # fields[i]}) <= 1
       /\ Cardinality(own(fields')) >= Cardinality(own(fields)) - 1]_propVars
=============================================================================

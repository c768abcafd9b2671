----------------------------- MODULE SchemaMapping ----------------------------
(* SchemaMapPage and VisualSchemaMapper.  The page loads the sources, the   *)
(* entity types and the saved mappings; the mapper maps columns of the      *)
(* source to properties of the entity and saves the mapping row by row.     *)
(* The mapper is mounted anew for every pair of source and entity, and      *)
(* starts from the rows the page knows, or else from what the browser       *)
(* remembers.  A remembered mapping is a set of at most one mapping.        *)
EXTENDS FiniteSets, Integers, SequencesExt, Workbench

CONSTANTS
  Sources,           \* keys of the sources, conn_<id> or conn_<id>_<table>
  Uuids,             \* those whose key is the identifier of a connection
  headKey,           \* conn_<id> of the first connection
  columnsOf,         \* columns of each source
  EntityTypes, propsOf,
  SeededTypes,       \* types on the server at the start
  Packs,             \* industry templates, each a sequence of types
  generated,         \* name derived from the table of each source
  SeededRows,        \* rows on the server at the start
  Few,               \* so many rows are taken for any connection (25)
  MaxMoves, MaxRows  \* bounds: moves of the user, rows saved

CONSTANTS Nothing    \* no source, no type, no template

VARIABLES
  page,              \* state of SchemaMapPage
  mapper,            \* state of VisualSchemaMapper
  mapJobs,           \* requests of the page that are under way
  mapSaves,          \* handleSave of a mapper under way
  remembered,        \* localStorage: mappings and links
  types,             \* server: entity types
  mapRows,           \* server: schema mappings
  moves              \* bound used up

schemaVars == <<page, mapper, mapJobs, mapSaves, remembered, types, mapRows, moves>>

Columns == UNION {columnsOf[s] : s \in Sources}
Properties == UNION {propsOf[e] : e \in EntityTypes}
Links == [col : Columns, prop : Properties]
MapRows == [src : Sources, ent : EntityTypes, col : Columns, prop : Properties]

ASSUME SchemaAssumption ==
  /\ Uuids \subseteq Sources /\ SeededTypes \subseteq EntityTypes
  /\ DOMAIN columnsOf = Sources /\ DOMAIN propsOf = EntityTypes
  /\ SeededRows \subseteq MapRows /\ IsFiniteSet(SeededRows)
  /\ generated \in [Sources -> EntityTypes] /\ Nothing \notin DOMAIN Packs
  /\ \A k \in DOMAIN Packs : Packs[k] \in Seq(EntityTypes) /\ Packs[k] # <<>>
  /\ Few \in Nat /\ MaxMoves \in Nat /\ MaxRows \in Nat

(* ------------------------- what the page derives ------------------------ *)
FirstType(S) == IF S = {} THEN Nothing ELSE CHOOSE e \in S : TRUE

BugActiveEntity(p) == p.entity

\* activeOntologyKey, sourceData and ontologyProps.
ActiveEntity(p) == IF p.entity \in p.known THEN p.entity ELSE FirstType(p.known)
ColumnsShown(p) == IF p.source \in p.sources THEN columnsOf[p.source] ELSE {}
PropertiesShown(p) == IF ActiveEntity(p) = Nothing THEN {} ELSE propsOf[ActiveEntity(p)]

FitsHere(p, link) == link.col \in ColumnsShown(p) /\ link.prop \in PropertiesShown(p)

\* The rows of the entity, those of another connection too while there are
\* few; a column and a property are used once, the first row wins.
FreeIn(links, r) == \A m \in links : m.col # r.col /\ m.prop # r.prop

Taken(p, links, r) ==
  IF /\ r.ent = ActiveEntity(p) /\ FitsHere(p, r) /\ FreeIn(links, r)
     /\ r.src = p.source \/ Len(p.raws) <= Few
  THEN links \cup {[col |-> r.col, prop |-> r.prop]} ELSE links

RowLinks(p) ==
  LET taken[n \in 0..Len(p.raws)] == IF n = 0 THEN {} ELSE Taken(p, taken[n - 1], p.raws[n])
  IN  taken[Len(p.raws)]

\* The mapping of this source, or else the last mapping of any source.
Recalled(p) ==
  IF p.source \in Sources /\ remembered.own[p.source] # {}
  THEN UNION remembered.own[p.source] ELSE UNION remembered.last

InitialLinks(p) ==
  IF RowLinks(p) # {} THEN RowLinks(p) ELSE {m \in Recalled(p) : FitsHere(p, m)}

(* ------------------------------ the mapper ------------------------------ *)
MapperShown(p) == p.known # {}
MapperKey(p) == <<p.source, ActiveEntity(p)>>

\* What a mapper that is mounted starts with: what the page found, or what
\* the browser remembers, whether it fits or not.
FreshMapper(p) ==
  [links |-> IF InitialLinks(p) # {} THEN InitialLinks(p) ELSE Recalled(p),
   fks |-> IF p.source \in Sources THEN remembered.fks[p.source] ELSE {}]

BugMapperOf(p) ==
  IF ~MapperShown(p) THEN [links |-> {}, fks |-> {}]
  ELSE IF ~MapperShown(page) THEN FreshMapper(p)
  ELSE [mapper EXCEPT !.links = IF InitialLinks(p) # {} THEN InitialLinks(p) ELSE @]

\* The mapper after the page changed to p: mounted anew under another key,
\* else the links the page found replace the links that are shown.
MapperOf(p) ==
  IF ~MapperShown(p) THEN [links |-> {}, fks |-> {}]
  ELSE IF ~MapperShown(page) \/ MapperKey(p) # MapperKey(page) THEN FreshMapper(p)
  ELSE [mapper EXCEPT !.links = IF InitialLinks(p) # {} THEN InitialLinks(p) ELSE @]

Show(p) == page' = p /\ mapper' = MapperOf(p)

SchemaInit ==
  /\ page = [source |-> Nothing, sources |-> {}, entity |-> Nothing, known |-> {},
             raws |-> <<>>, saved |-> <<>>, generating |-> FALSE, seeding |-> Nothing]
  /\ mapper = [links |-> {}, fks |-> {}]
  /\ mapJobs = {[kind |-> "connections"], [kind |-> "mappings"],
             [kind |-> "types", since |-> SeededTypes, pick |-> Nothing, by |-> "mount"]}
  /\ mapSaves = {}
  /\ remembered = [own |-> [s \in Sources |-> {}], last |-> {}, fks |-> [s \in Sources |-> {}]]
  /\ types = SeededTypes /\ mapRows = SeededRows /\ moves = 0

Move == moves < MaxMoves /\ moves' = moves + 1

(* ---------------------------- loads on mount ---------------------------- *)
\* fetchConnections: the connection asked for, else the first one, whose key
\* is no source when it has several tables.
ConnectionsLoaded(j) ==
  /\ j.kind = "connections" /\ mapJobs' = mapJobs \ {j}
  /\ \/ \E s \in Sources \cup {headKey} : Show([page EXCEPT !.sources = Sources, !.source = s])
     \/ UNCHANGED <<page, mapper>>
  /\ UNCHANGED <<mapSaves, remembered, types, mapRows, moves>>

\* fetchSavedMappings: the rows as they were at some time since the mount.
SavedGroups(S) ==
  {[src |-> r.src, ent |-> r.ent,
    links |-> {[col |-> x.col, prop |-> x.prop] :
                 x \in {y \in S : y.src = r.src /\ y.ent = r.ent}}] : r \in S}

MappingsLoaded(j) ==
  /\ j.kind = "mappings" /\ mapJobs' = mapJobs \ {j}
  /\ \/ \E S \in {SeededRows, mapRows} \ {{}} :
          Show([page EXCEPT !.raws = SetToSeq(S), !.saved = SetToSeq(SavedGroups(S))])
     \/ UNCHANGED <<page, mapper>>
  /\ UNCHANGED <<mapSaves, remembered, types, mapRows, moves>>

\* fetchOntologyTypes, and what follows it: the new type is selected, the
\* button is freed.  A failure to load is swallowed.
WithTypes(p, S) ==
  [p EXCEPT !.known = S, !.entity = IF @ \in S THEN @ ELSE FirstType(S)]

Freed(p, j) ==
  CASE j.by = "generate" -> [p EXCEPT !.generating = FALSE]
    [] j.by = "seed"     -> [p EXCEPT !.seeding = Nothing]
    [] OTHER             -> p

TypesLoaded(j) ==
  /\ j.kind = "types" /\ mapJobs' = mapJobs \ {j}
  /\ \E p \in {page} \cup {WithTypes(page, S) : S \in {j.since, types}} :
       Show(Freed(IF j.pick = Nothing THEN p ELSE [p EXCEPT !.entity = j.pick], j))
  /\ UNCHANGED <<mapSaves, remembered, types, mapRows, moves>>

(* ------------------------ selecting and creating ------------------------ *)
SelectSource(s) ==
  /\ s \in page.sources /\ s # page.source /\ Move /\ Show([page EXCEPT !.source = s])
  /\ UNCHANGED <<mapJobs, mapSaves, remembered, types, mapRows>>

SelectEntity(e) ==
  /\ e \in page.known /\ e # page.entity /\ Move /\ Show([page EXCEPT !.entity = e])
  /\ UNCHANGED <<mapJobs, mapSaves, remembered, types, mapRows>>

\* A saved mapping is chosen from the history.
PickSaved(i) ==
  /\ i \in DOMAIN page.saved /\ Move
  /\ LET s == page.saved[i] IN
       Show([page EXCEPT !.source = IF s.src \in page.sources THEN s.src ELSE @,
                         !.entity = IF s.ent \in page.known THEN s.ent ELSE @])
  /\ UNCHANGED <<mapJobs, mapSaves, remembered, types, mapRows>>

\* handleAutoGenerateFromDataset: "Create from Data".
MayGenerate == ColumnsShown(page) # {} /\ ~page.generating

Generate ==
  /\ MayGenerate /\ Move /\ page' = [page EXCEPT !.generating = TRUE]
  /\ mapJobs' = mapJobs \cup {[kind |-> "generate", name |-> generated[page.source]]}
  /\ UNCHANGED <<mapper, mapSaves, remembered, types, mapRows>>

AskTypes(S, e, who) == [kind |-> "types", since |-> S, pick |-> e, by |-> who]

\* The server refuses the name of a type that exists.
GeneratedAnswer(j) ==
  /\ j.kind = "generate"
  /\ \/ /\ j.name \notin types /\ types' = types \cup {j.name} /\ page' = page
        /\ mapJobs' = (mapJobs \ {j}) \cup {AskTypes(types', j.name, "generate")}
     \/ /\ mapJobs' = mapJobs \ {j} /\ page' = [page EXCEPT !.generating = FALSE] /\ types' = types
  /\ UNCHANGED <<mapper, mapSaves, remembered, mapRows, moves>>

BugMaySeed == TRUE

\* handleSeedDomainTemplate: the types of a template, one by one.
MaySeed == page.seeding = Nothing

SeedPack(k) ==
  /\ MaySeed /\ Move /\ page' = [page EXCEPT !.seeding = k]
  /\ mapJobs' = mapJobs \cup {[kind |-> "seed", pack |-> k, next |-> 1]}
  /\ UNCHANGED <<mapper, mapSaves, remembered, types, mapRows>>

SeedAnswer(j) ==
  /\ j.kind = "seed"
  /\ \E added \in {{}, {Packs[j.pack][j.next]}} : types' = types \cup added
  /\ mapJobs' = (mapJobs \ {j}) \cup
       {IF j.next < Len(Packs[j.pack]) THEN [j EXCEPT !.next = @ + 1]
        ELSE AskTypes(types', Packs[j.pack][1], "seed")}
  /\ UNCHANGED <<page, mapper, mapSaves, remembered, mapRows, moves>>

\* handleEntitySaved: EntityTypeEditor created a type.
EntitySaved(e) ==
  /\ e \notin types /\ Move /\ types' = types \cup {e}
  /\ mapJobs' = mapJobs \cup {AskTypes(types', e, "editor")}
  /\ UNCHANGED <<page, mapper, mapSaves, remembered, mapRows>>

(* ------------------------ mapping and graph links ----------------------- *)
EditMapper(m) ==
  MapperShown(page) /\ Move /\ mapper' = m /\ UNCHANGED <<page, mapJobs, mapSaves, types, mapRows>>

BugOthersThan(c, p) == {m \in mapper.links : m.col # c}

OthersThan(c, p) == {m \in mapper.links : m.col # c /\ m.prop # p}

\* onDropOnProp: a column is dragged to a property; removeMapping.
DropOn(c, p) ==
  /\ c \in ColumnsShown(page) /\ p \in PropertiesShown(page)
  /\ EditMapper([mapper EXCEPT !.links = OthersThan(c, p) \cup {[col |-> c, prop |-> p]}])
  /\ UNCHANGED remembered

RemoveLink(c) ==
  /\ c \in ColumnsShown(page) /\ \E m \in mapper.links : m.col = c
  /\ EditMapper([mapper EXCEPT !.links = {m \in @ : m.col # c}])
  /\ UNCHANGED remembered

\* saveFkModal and removeFk: remembered at once.
SetFks(S) ==
  /\ EditMapper([mapper EXCEPT !.fks = S])
  /\ remembered' = [remembered EXCEPT !.fks[page.source] = S]

LinkGraph(c) == c \in ColumnsShown(page) /\ c \notin mapper.fks /\ SetFks(mapper.fks \cup {c})
UnlinkGraph(c) == c \in ColumnsShown(page) /\ c \in mapper.fks /\ SetFks(mapper.fks \ {c})

(* -------------------------------- saving -------------------------------- *)
MaySave == MapperShown(page) /\ (mapper.links # {} \/ mapper.fks # {})

\* handleSave posts the links of the moment one by one; a key that is no
\* identifier posts nothing.
SaveMapping ==
  /\ MaySave /\ Move /\ page.source \in Sources
  /\ mapSaves' = mapSaves \cup
       {[src |-> page.source, ent |-> ActiveEntity(page), links |-> mapper.links, fks |-> mapper.fks,
         todo |-> IF page.source \in Uuids THEN mapper.links ELSE {}]}
  /\ UNCHANGED <<page, mapper, mapJobs, remembered, types, mapRows>>

RowOf(s, m) == [src |-> s.src, ent |-> s.ent, col |-> m.col, prop |-> m.prop]

PostRow(s, m) ==
  /\ m \in s.todo /\ Cardinality(mapRows \cup {RowOf(s, m)}) <= MaxRows
  /\ mapRows' = mapRows \cup {RowOf(s, m)}
  /\ mapSaves' = (mapSaves \ {s}) \cup {[s EXCEPT !.todo = @ \ {m}]}
  /\ UNCHANGED <<page, mapper, mapJobs, remembered, types, moves>>

Remember(s) == [remembered EXCEPT !.last = {s.links}, !.fks = [@ EXCEPT ![s.src] = s.fks]]

BugPostFails(s) ==
  /\ s.todo # {} /\ \E m \in s.todo : mapSaves' = (mapSaves \ {s}) \cup {[s EXCEPT !.todo = @ \ {m}]}
  /\ UNCHANGED <<page, mapper, mapJobs, remembered, types, mapRows, moves>>

\* A row that is refused ends the loop; the mapping is remembered all the same.
PostFails(s) ==
  /\ s.todo # {} /\ mapSaves' = mapSaves \ {s} /\ remembered' = Remember(s)
  /\ UNCHANGED <<page, mapper, mapJobs, types, mapRows, moves>>

\* All rows are saved: onSave puts them before the rows the page knows, and
\* what the page finds in them replaces what the mapper shows.
MappingSaved(s) ==
  /\ s.todo = {} /\ mapSaves' = mapSaves \ {s}
  /\ remembered' = [Remember(s) EXCEPT !.own[s.src] = {s.links}]
  /\ Show([page EXCEPT !.raws = SetToSeq({RowOf(s, m) : m \in s.links}) \o @,
             !.saved = <<[src |-> s.src, ent |-> s.ent, links |-> s.links]>>
                         \o SubSeq(@, 1, IF Len(@) < 4 THEN Len(@) ELSE 4)])
  /\ UNCHANGED <<mapJobs, types, mapRows, moves>>

SchemaRequest == \E j \in mapJobs :
  ConnectionsLoaded(j) \/ MappingsLoaded(j) \/ TypesLoaded(j) \/ GeneratedAnswer(j) \/ SeedAnswer(j)

MapSaving == \E s \in mapSaves : PostFails(s) \/ MappingSaved(s) \/ \E m \in Links : PostRow(s, m)

SchemaNext ==
  \/ SchemaRequest \/ MapSaving \/ SaveMapping \/ Generate
  \/ \E s \in Sources : SelectSource(s)
  \/ \E e \in EntityTypes : SelectEntity(e) \/ EntitySaved(e)
  \/ \E i \in DOMAIN page.saved : PickSaved(i)
  \/ \E k \in DOMAIN Packs : SeedPack(k)
  \/ \E c \in Columns : RemoveLink(c) \/ LinkGraph(c) \/ UnlinkGraph(c)
  \/ \E c \in Columns, p \in Properties : DropOn(c, p)

SchemaSpec == SchemaInit /\ [][SchemaNext]_schemaVars

\* Every request is answered or fails.
SchemaFairness == WF_schemaVars(inUse = "schema" /\ SchemaRequest)

(* --------------------- waiting, and what is shown ----------------------- *)
\* The page says "Creating..." or "Adding to database...".
SchemaWaits == page.generating \/ page.seeding # Nothing

(* ------------------------------ properties ------------------------------ *)
SchemaTypeOK ==
  /\ page.source \in Sources \cup {headKey, Nothing} /\ page.sources \in {{}, Sources}
  /\ page.known \subseteq types /\ page.entity \in EntityTypes \cup {Nothing}
  /\ ActiveEntity(page) \in page.known \/ page.known = {}
  /\ mapper.links \subseteq Links /\ mapper.fks \subseteq Columns
  /\ Range(page.raws) \subseteq MapRows /\ mapRows \subseteq MapRows
  /\ moves \in 0 .. MaxMoves

\* In the mapper a column is mapped to one property and a property is filled
\* by one column, whether the links were dragged, found in rows of several
\* connections or remembered by the browser.
OneToOne ==
  \A m, n \in mapper.links : m.col = n.col \/ m.prop = n.prop => m = n

\* A mapping the page lists as saved is on the server with all its rows: a
\* row that fails keeps the mapping out of the list, also when the next click
\* saves it again.
ListedIsStored ==
  \A i \in DOMAIN page.saved :
    page.saved[i].src \in Uuids =>
      \A m \in page.saved[i].links : RowOf(page.saved[i], m) \in mapRows

\* Links that were not saved stay behind with the source and the entity they
\* were dragged for: a mapper for another pair starts from known rows and
\* from what the browser remembers.
UnsavedStaysBehind ==
  [][(MapperShown(page) /\ MapperShown(page)' /\ MapperKey(page)' # MapperKey(page)) =>
       mapper'.links \subseteq {[col |-> r.col, prop |-> r.prop] : r \in Range(page'.raws)}
                       \cup UNION (remembered'.last \cup UNION {remembered'.own[s] : s \in Sources})]_schemaVars

\* One template is added at a time, also when its window is closed meanwhile:
\* the buttons stay disabled until its last type was answered.
OneTemplate ==
  Cardinality({j \in mapJobs : j.kind = "seed" \/ (j.kind = "types" /\ j.by = "seed")}) <= 1
=============================================================================

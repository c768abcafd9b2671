------------------------------ MODULE MCWorkbench ------------------------------
(* The frontend: every page and panel that is modelled, and the services    *)
(* each of them works against.  The router mounts one page at a time and    *)
(* the pages share nothing but those services (Workbench), so the state     *)
(* spaces of the parts add up instead of multiplying.                       *)
EXTENDS Session, PipelineMonitor, JobPanels, UploadWizard, Connections, DatasetPreview,
        DatabaseForm, SchemaMapping, OntologyEditor, PropertyForm, OntologyImport,
        OntologyVersions, MergeReview, Explorer, EntityDetail, GraphExplorer,
        Administration, Dashboard, Shell

Parts ==
  {"session", "monitor", "panels", "wizard", "connections", "preview", "form", "schema",
   "ontology", "property", "import", "versions", "review", "explorer", "detail", "graph",
   "admin", "dashboard", "shell"}

workbenchVars ==
  <<sessionVars, monitorVars, panelVars, wizardVars, connVars, previewVars, formVars,
    schemaVars, ontoVars, propVars, importVars, versionVars, reviewVars, findVars, detailVars,
    graphVars, adminVars, dashVars, shellVars, inUse>>

\* A part that is not in use has one initial state.
WorkbenchInit ==
  /\ inUse \in Parts
  /\ SessionInit /\ (inUse = "session" \/ route = Home)
  /\ MonitorInit /\ (inUse = "monitor" \/ runs = NoRuns)
  /\ PanelsInit /\ (inUse = "panels" \/ (panel = "logs" /\ table = NoTable))
  /\ WizardInit
  /\ ConnectionsInit /\ (inUse = "connections" \/ (local = {} /\ listLoads[CHOOSE l \in Loads : TRUE] = Asked))
  /\ PreviewInit /\ (inUse = "preview" \/ (sampled = {} /\ cached = {}))
  /\ FormInit /\ (inUse = "form" \/ form.host = CHOOSE h \in Hosts : TRUE)
  /\ SchemaInit
  /\ OntologyInit
  /\ PropertyInit /\ (inUse = "property" \/ (schema = {} /\ ~typeStored))
  /\ ImportInit /\ (inUse = "import" \/ chosen.template = CHOOSE t \in Templates : TRUE)
  /\ VersionsInit
  /\ ReviewInit
  /\ ExplorerInit
  /\ DetailInit /\ (inUse = "detail" \/ entityId = CHOOSE e \in Entities : TRUE)
  /\ GraphInit
  /\ AdminInit
  /\ DashboardInit
  /\ ShellInit

\* The parts at rest come first: TLC then binds their variables once a state.
WorkbenchNext ==
  /\ StaysInUse
  /\ inUse # "session" => UNCHANGED sessionVars
  /\ inUse # "monitor" => UNCHANGED monitorVars
  /\ inUse # "panels" => UNCHANGED panelVars
  /\ inUse # "wizard" => UNCHANGED wizardVars
  /\ inUse # "connections" => UNCHANGED connVars
  /\ inUse # "preview" => UNCHANGED previewVars
  /\ inUse # "form" => UNCHANGED formVars
  /\ inUse # "schema" => UNCHANGED schemaVars
  /\ inUse # "ontology" => UNCHANGED ontoVars
  /\ inUse # "property" => UNCHANGED propVars
  /\ inUse # "import" => UNCHANGED importVars
  /\ inUse # "versions" => UNCHANGED versionVars
  /\ inUse # "review" => UNCHANGED reviewVars
  /\ inUse # "explorer" => UNCHANGED findVars
  /\ inUse # "detail" => UNCHANGED detailVars
  /\ inUse # "graph" => UNCHANGED graphVars
  /\ inUse # "admin" => UNCHANGED adminVars
  /\ inUse # "dashboard" => UNCHANGED dashVars
  /\ inUse # "shell" => UNCHANGED shellVars
  /\ CASE inUse = "session" -> SessionNext
       [] inUse = "monitor" -> MonitorNext
       [] inUse = "panels" -> PanelsNext
       [] inUse = "wizard" -> WizardNext
       [] inUse = "connections" -> ConnectionsNext
       [] inUse = "preview" -> PreviewNext
       [] inUse = "form" -> FormNext
       [] inUse = "schema" -> SchemaNext
       [] inUse = "ontology" -> OntologyNext
       [] inUse = "property" -> PropertyNext
       [] inUse = "import" -> ImportNext
       [] inUse = "versions" -> VersionsNext
       [] inUse = "review" -> ReviewNext
       [] inUse = "explorer" -> ExplorerNext
       [] inUse = "detail" -> DetailNext
       [] inUse = "graph" -> GraphNext
       [] inUse = "admin" -> AdminNext
       [] inUse = "dashboard" -> DashboardNext
       [] inUse = "shell" -> ShellNext

WorkbenchSpec == WorkbenchInit /\ [][WorkbenchNext]_workbenchVars

\* Each part is scheduled fairly while it is in use.
WorkbenchFairSpec ==
  /\ WorkbenchSpec
  /\ SessionFairness /\ MonitorFairness /\ PanelsFairness /\ WizardFairness
  /\ ConnectionsFairness /\ PreviewFairness /\ FormFairness /\ SchemaFairness
  /\ OntologyFairness /\ ImportFairness /\ VersionsFairness /\ ReviewFairness
  /\ ExplorerFairness /\ DetailFairness /\ GraphFairness /\ AdminFairness
  /\ DashboardFairness

(* ------------------------------ properties ------------------------------ *)
\* Only the part in use moves, so its invariants alone are evaluated.
WorkbenchTypeOK ==
  CASE inUse = "session" -> SessionTypeOK [] inUse = "monitor" -> MonitorTypeOK
    [] inUse = "panels" -> PanelsTypeOK [] inUse = "wizard" -> WizardTypeOK
    [] inUse = "connections" -> ConnectionsTypeOK [] inUse = "preview" -> PreviewTypeOK
    [] inUse = "form" -> FormTypeOK [] inUse = "schema" -> SchemaTypeOK
    [] inUse = "ontology" -> OntologyTypeOK [] inUse = "property" -> PropertyTypeOK
    [] inUse = "import" -> ImportTypeOK [] inUse = "versions" -> VersionsTypeOK
    [] inUse = "review" -> ReviewTypeOK [] inUse = "explorer" -> ExplorerTypeOK
    [] inUse = "detail" -> DetailTypeOK [] inUse = "graph" -> GraphTypeOK
    [] inUse = "admin" -> AdminTypeOK [] inUse = "dashboard" -> DashboardTypeOK
    [] inUse = "shell" -> ShellTypeOK

\* What a page shows is what it was asked for last, in whatever order answers
\* come: the rows of the file named, the comparison of the version opened,
\* the results of the text in the field, the provenance of the record, the
\* neighbourhood of the entity as its two queries read it, a page of the
\* preview that exists; and the graph is drawn whole, but for two cases.
ShownIsAsked ==
  CASE inUse = "preview" -> RawOfItsFile [] inUse = "versions" -> DiffIsOfVersion
    [] inUse = "explorer" -> FoundIsAsked [] inUse = "detail" -> DrawerOfRecord
    [] inUse = "graph" -> GraphOfView /\ DrawnWhole [] inUse = "wizard" -> PageExists
    [] OTHER -> TRUE

\* Nothing is done, kept or shown twice, whatever is retried, polled, closed
\* and opened again: the end of a session is told once, there is one stream
\* and one ingestion, a form saves once, a template is added once at a time,
\* a line, a type, a link and a file are there once.
NothingTwice ==
  CASE inUse = "session" -> OneNotice [] inUse = "monitor" -> OneStream
    [] inUse = "wizard" -> IngestingIsOne /\ RememberedOnce [] inUse = "form" -> OneSave
    [] inUse = "schema" -> OneTemplate /\ OneToOne [] inUse = "panels" -> LinesOnce
    [] inUse = "ontology" -> ListedOnce [] inUse = "connections" -> OneOfAName
    [] OTHER -> TRUE

\* What a page says is saved is stored, whole and with what it refers to,
\* though it is saved by a sequence of requests that fail one by one: files
\* and their mappings, mappings of a schema, tables of a connector, templates,
\* the ends of relationship types, versions and what tells them apart.
SavedIsStored ==
  CASE inUse = "wizard" -> FinishedIsStored /\ MappedTypesExist [] inUse = "schema" -> ListedIsStored
    [] inUse = "form" -> RegisteredWasDiscovered [] inUse = "import" -> ImportCompletes
    [] inUse = "ontology" -> EndsExist [] inUse = "versions" -> DiffsReplay
    [] OTHER -> TRUE

\* Who has what: remembered files belong to the user signed in, a user has an
\* account, and a key issued before a rotation does not outlive it.
OwnersHold ==
  CASE inUse = "session" -> FilesOwned [] inUse = "admin" -> RowHasAccount /\ EarlierKeysRevoked
    [] OTHER -> TRUE

\* What must be on the screen is not lost to a timer: the list is polled
\* while the stream is down, and the newest notifications stay.
KeptPresent ==
  CASE inUse = "monitor" -> PollsWhileBlind [] inUse = "shell" -> NewestStay [] OTHER -> TRUE

\* What no step may do: lead a user who signs in to another page than the one
\* refused, delete what was not confirmed, take a line from the log that is
\* not the oldest, show an older number, carry links over to another mapper,
\* change two properties at once that were added in the form.
StepsKeep ==
  /\ ReturnsToPage /\ DeletesConfirmed /\ OnlyTrimmed /\ NeverBack
  /\ UnsavedStaysBehind /\ AddedFieldsApart

SomebodyWaits ==
  CASE inUse = "session" -> SessionWaits
    [] inUse = "panels" -> PanelsWait
    [] inUse = "wizard" -> WizardWaits
    [] inUse = "connections" -> ConnectionsWait
    [] inUse = "preview" -> PreviewWaits
    [] inUse = "form" -> FormWaits
    [] inUse = "schema" -> SchemaWaits
    [] inUse = "ontology" -> OntologyWaits
    [] inUse = "import" -> ImportWaits
    [] inUse = "versions" -> VersionsWait
    [] inUse = "review" -> ReviewWaits
    [] inUse = "explorer" -> ExplorerWaits
    [] inUse = "detail" -> DetailWaits
    [] inUse = "graph" -> GraphWaits
    [] inUse = "admin" -> AdminWaits
    [] inUse = "dashboard" -> DashboardWaits
    [] OTHER -> FALSE

\* No spinner turns for ever, no button stays disabled and nobody waits for
\* an answer that does not come, whichever of the requests fail or come late:
\* the guard of the routes (what the comment of checkUser was written for),
\* the log, the wizard, the deletion of a connection, previews, forms, the
\* editors and windows of the ontology, the review console, search, record,
\* graph, administration and dashboard.
WaitsEnd == SomebodyWaits ~> ~SomebodyWaits

Watched ==
  \/ inUse = "monitor" /\ MonitorLooks
  \/ inUse = "panels" /\ PanelsLook
  \/ inUse = "connections" /\ ConnectionsLook
  \/ inUse = "dashboard" /\ DashboardLooks

Agreed ==
  /\ inUse = "monitor" => MonitorAgrees
  /\ inUse = "panels" => PanelsAgree
  /\ inUse = "connections" => ConnectionsAgree
  /\ inUse = "dashboard" => DashboardAgrees

\* A page that is polled and looked at from some time on shows in the end
\* what the server has, whatever order the answers of its polls came in.
CatchesUp == <>[]Watched => <>[]Agreed

(* ------------------------------ the instance ---------------------------- *)
inferredEntities == [f \in Files |-> IF f = "a" THEN "A" ELSE "B"]
matchingRows == [c \in FileColumns |-> IF c = "x" THEN {1} ELSE {1, 2}]
connNames == [c \in Connectors |-> IF c = "db" THEN "db" ELSE "file"]
datasetNames == [c \in Datasets |-> IF c = "h" THEN "other" ELSE "file"]
discoverable == [h \in Hosts |-> IF h = "x" THEN {"a", "b"} ELSE {"a", "c"}]
schemaNames == [t \in Tables |-> IF t = "c" THEN "s2" ELSE "s1"]
sourceColumns == [s \in Sources |-> IF s = "s" THEN {"c", "d"} ELSE {"c"}]
typeProps == [e \in EntityTypes |->
  CASE e = "A" -> {"p", "q"} [] e = "B" -> {"p"} [] e = "G" -> {"q"}]
packTypes == "k" :> <<"B", "A">> @@ "l" :> <<"G">>
generatedTypes == [s \in Sources |-> "G"]
seededRows == {[src |-> "t", ent |-> "A", col |-> "c", prop |-> "p"]}
derivedNames == [c \in Conns |-> "A"]
templateTypes == [t \in Templates |-> <<"A", "B">>]
templateRels == [t \in Templates |-> <<[name |-> "r", src |-> "A", tgt |-> "B"]>>]
ownTags == {<<1, 0>>}
goldenRecords == (1 :> "g") @@ (2 :> "g") @@ (3 :> NoGolden)
foundNames == [t \in Texts |-> IF t = "ab" THEN <<"ab">> ELSE <<"b", "ab">>]
containing == [t \in Texts |-> IF t = "ab" THEN {"ab"} ELSE {"b", "ab"}]
keysOf == [e \in Entities |-> IF e = "e" THEN {"p", "q"} ELSE {"p"}]
kindsOf == [v \in Vertices |-> IF v = "e" THEN "P" ELSE "O"]
edges == {[src |-> "e", tgt |-> "f", rel |-> "owns"], [src |-> "f", tgt |-> "g", rel |-> "knows"]}
linksThen == {[src |-> "e", tgt |-> "f", rel |-> "owns"]}
=============================================================================

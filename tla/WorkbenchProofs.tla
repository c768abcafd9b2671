---------------------------- MODULE WorkbenchProofs ----------------------------
(***************************************************************************)
(* What TLAPS proves of the frontend.  A part of MCWorkbench that is not   *)
(* in use stands still, so a behaviour of the whole is a behaviour of each *)
(* part, and what holds of a part by itself (PagesProofs, EditorsProofs)   *)
(* holds of it there.                                                      *)
(***************************************************************************)
EXTENDS MCWorkbench, PagesProofs, EditorsProofs, TLAPS

(* ----------------------------- the workbench ---------------------------- *)
LEMMA PartsStart ==
  ASSUME WorkbenchInit
  PROVE  /\ SessionInit /\ AdminInit /\ MonitorInit /\ ShellInit /\ PreviewInit
         /\ VersionsInit /\ DetailInit /\ GraphInit /\ WizardInit /\ ExplorerInit
         /\ PanelsInit /\ ConnectionsInit /\ FormInit /\ SchemaInit /\ OntologyInit
         /\ PropertyInit /\ DashboardInit /\ ImportInit /\ ReviewInit
BY DEF WorkbenchInit

\* The part in use takes a step of its own; the others stand still.
LEMMA PartsMove ==
  ASSUME WorkbenchNext
  PROVE  /\ [SessionNext]_sessionVars /\ [AdminNext]_adminVars /\ [MonitorNext]_monitorVars
         /\ [ShellNext]_shellVars /\ [PreviewNext]_previewVars /\ [VersionsNext]_versionVars
         /\ [DetailNext]_detailVars /\ [GraphNext]_graphVars /\ [WizardNext]_wizardVars
         /\ [ExplorerNext]_findVars /\ [PanelsNext]_panelVars /\ [ConnectionsNext]_connVars
         /\ [FormNext]_formVars /\ [SchemaNext]_schemaVars /\ [OntologyNext]_ontoVars
         /\ [PropertyNext]_propVars /\ [DashboardNext]_dashVars /\ [ImportNext]_importVars
         /\ [ReviewNext]_reviewVars
<1>1. CASE inUse = "session"
  BY <1>1 DEF WorkbenchNext
<1>2. CASE inUse = "admin"
  BY <1>2 DEF WorkbenchNext
<1>3. CASE inUse = "monitor"
  BY <1>3 DEF WorkbenchNext
<1>4. CASE inUse = "shell"
  BY <1>4 DEF WorkbenchNext
<1>5. CASE inUse = "preview"
  BY <1>5 DEF WorkbenchNext
<1>6. CASE inUse = "versions"
  BY <1>6 DEF WorkbenchNext
<1>7. CASE inUse = "detail"
  BY <1>7 DEF WorkbenchNext
<1>8. CASE inUse = "graph"
  BY <1>8 DEF WorkbenchNext
<1>9. CASE inUse = "wizard"
  BY <1>9 DEF WorkbenchNext
<1>10. CASE inUse = "explorer"
  BY <1>10 DEF WorkbenchNext
<1>11. CASE inUse = "panels"
  BY <1>11 DEF WorkbenchNext
<1>12. CASE inUse = "connections"
  BY <1>12 DEF WorkbenchNext
<1>13. CASE inUse = "form"
  BY <1>13 DEF WorkbenchNext
<1>14. CASE inUse = "schema"
  BY <1>14 DEF WorkbenchNext
<1>15. CASE inUse = "ontology"
  BY <1>15 DEF WorkbenchNext
<1>16. CASE inUse = "property"
  BY <1>16 DEF WorkbenchNext
<1>17. CASE inUse = "dashboard"
  BY <1>17 DEF WorkbenchNext
<1>18. CASE inUse = "import"
  BY <1>18 DEF WorkbenchNext
<1>19. CASE inUse = "review"
  BY <1>19 DEF WorkbenchNext
<1>20. CASE inUse \notin {"session", "admin", "monitor", "shell", "preview", "versions",
                         "detail", "graph", "wizard", "explorer", "panels", "connections",
                         "form", "schema", "ontology", "property", "dashboard", "import",
                         "review"}
  BY <1>20 DEF WorkbenchNext
<1>. QED  BY <1>1, <1>2, <1>3, <1>4, <1>5, <1>6, <1>7, <1>8, <1>9, <1>10, <1>11, <1>12,
          <1>13, <1>14, <1>15, <1>16, <1>17, <1>18, <1>19, <1>20

LEMMA PartsRest ==
  ASSUME UNCHANGED workbenchVars
  PROVE  /\ UNCHANGED sessionVars /\ UNCHANGED adminVars /\ UNCHANGED monitorVars
         /\ UNCHANGED shellVars /\ UNCHANGED previewVars /\ UNCHANGED versionVars
         /\ UNCHANGED detailVars /\ UNCHANGED graphVars /\ UNCHANGED wizardVars
         /\ UNCHANGED findVars /\ UNCHANGED panelVars /\ UNCHANGED connVars
         /\ UNCHANGED formVars /\ UNCHANGED schemaVars /\ UNCHANGED ontoVars
         /\ UNCHANGED propVars /\ UNCHANGED dashVars /\ UNCHANGED importVars
         /\ UNCHANGED reviewVars
BY DEF workbenchVars

\* A behaviour of the workbench is one of each of its parts.
LEMMA PartsBehave ==
  WorkbenchSpec => /\ SessionSpec /\ AdminSpec /\ MonitorSpec /\ ShellSpec /\ PreviewSpec
                   /\ VersionsSpec /\ DetailSpec /\ GraphSpec /\ WizardSpec /\ ExplorerSpec
                   /\ PanelsSpec /\ ConnectionsSpec /\ FormSpec /\ SchemaSpec
                   /\ OntologySpec /\ PropertySpec /\ DashboardSpec /\ ImportSpec
                   /\ ReviewSpec
<1>1. WorkbenchInit => /\ SessionInit /\ AdminInit /\ MonitorInit /\ ShellInit
                       /\ PreviewInit /\ VersionsInit /\ DetailInit /\ GraphInit
                       /\ WizardInit /\ ExplorerInit /\ PanelsInit /\ ConnectionsInit
                       /\ FormInit /\ SchemaInit /\ OntologyInit /\ PropertyInit
                       /\ DashboardInit /\ ImportInit /\ ReviewInit
  BY PartsStart
<1>2. [WorkbenchNext]_workbenchVars =>
        /\ [SessionNext]_sessionVars /\ [AdminNext]_adminVars /\ [MonitorNext]_monitorVars
        /\ [ShellNext]_shellVars /\ [PreviewNext]_previewVars /\ [VersionsNext]_versionVars
        /\ [DetailNext]_detailVars /\ [GraphNext]_graphVars /\ [WizardNext]_wizardVars
        /\ [ExplorerNext]_findVars /\ [PanelsNext]_panelVars /\ [ConnectionsNext]_connVars
        /\ [FormNext]_formVars /\ [SchemaNext]_schemaVars /\ [OntologyNext]_ontoVars
        /\ [PropertyNext]_propVars /\ [DashboardNext]_dashVars /\ [ImportNext]_importVars
        /\ [ReviewNext]_reviewVars
  BY PartsMove, PartsRest
<1>. QED  BY <1>1, <1>2, PTL DEF WorkbenchSpec, SessionSpec, AdminSpec, MonitorSpec,
              ShellSpec, PreviewSpec, VersionsSpec, DetailSpec, GraphSpec, WizardSpec,
              ExplorerSpec, PanelsSpec, ConnectionsSpec, FormSpec, SchemaSpec, OntologySpec,
              PropertySpec, DashboardSpec, ImportSpec, ReviewSpec

(* Whatever users click and in whatever order requests are answered, the    *)
(* state of the part in use is one its code expects: spinners turn exactly  *)
(* while their one request is under way, requests carry what they were made *)
(* for, pages, counters and positions are within their bounds, and a        *)
(* selection names something that is there.  It holds for any sets, bounds  *)
(* and contents that the assumptions on the constants admit.                *)
THEOREM WorkbenchTyped == WorkbenchSpec => []WorkbenchTypeOK
<1>1. ASSUME MonitorInv, MonTables, MonEvents, MonFlags, MonFaults, PanelsInv, PanelsKeep,
             WizardInv, IngestInv, WizardNames, AttemptNames, PreviewTurned
      PROVE  MonitorTypeOK /\ PanelsTypeOK /\ WizardTypeOK
  BY <1>1, MonitorTypes, PanelsTypes, WizardTypes
<1>2. ASSUME ConnectionsInv, ConnsTyped, ConnsBounded, PreviewTyped, FormStores, SchemaStores,
             OntoStores, PropertyTyped, ImportStores, VersionsStores
      PROVE  /\ ConnectionsTypeOK /\ PreviewTypeOK /\ FormTypeOK /\ SchemaTypeOK
             /\ OntologyTypeOK /\ PropertyTypeOK /\ ImportTypeOK /\ VersionsTypeOK
  <2>1. ConnectionsTypeOK /\ PreviewTypeOK
    BY <1>2, ConnsTypes, PreviewTypes
  <2>2. FormTypeOK
    BY <1>2 DEF FormStores
  <2>3. SchemaTypeOK /\ OntologyTypeOK
    BY <1>2, SchemaStored, OntologyStored
  <2>4. PropertyTypeOK
    BY <1>2, PropertyTypes
  <2>5. ImportTypeOK /\ VersionsTypeOK
    BY <1>2, ImportStored, VersionsStored
  <2>. QED  BY <2>1, <2>2, <2>3, <2>4, <2>5
<1>3. ASSUME ReviewInv, RowsOfFilter, VersionsPaid, ExplTyped, SearchTyped, DetailInv,
             LookupTyped, DrawerTyped, GraphTyped, AdminInv, DashTyped, ShellInv
      PROVE  /\ ReviewTypeOK /\ ExplorerTypeOK /\ DetailTypeOK /\ GraphTypeOK /\ AdminTypeOK
             /\ DashboardTypeOK /\ ShellTypeOK
  <2>1. ReviewTypeOK /\ ExplorerTypeOK
    BY <1>3, ReviewTypes, ExplorerTypes
  <2>2. DetailTypeOK /\ GraphTypeOK
    BY <1>3, DetailTypes, GraphTypes
  <2>3. AdminTypeOK /\ DashboardTypeOK /\ ShellTypeOK
    BY <1>3, AdminTyped, DashTypes, ShellTyped
  <2>. QED  BY <2>1, <2>2, <2>3
<1>4. SessionTypeOK /\ MonitorTypeOK /\ PanelsTypeOK /\ WizardTypeOK /\ ConnectionsTypeOK
        /\ PreviewTypeOK /\ FormTypeOK /\ SchemaTypeOK /\ OntologyTypeOK /\ PropertyTypeOK
        /\ ImportTypeOK /\ VersionsTypeOK /\ ReviewTypeOK /\ ExplorerTypeOK /\ DetailTypeOK
        /\ GraphTypeOK /\ AdminTypeOK /\ DashboardTypeOK /\ ShellTypeOK /\ inUse \in Parts
      => WorkbenchTypeOK
  BY DEF WorkbenchTypeOK, Parts
<1>5. WorkbenchSpec => [](inUse \in Parts)
  <2>1. WorkbenchInit => inUse \in Parts
    BY DEF WorkbenchInit
  <2>2. inUse \in Parts /\ [WorkbenchNext]_workbenchVars => (inUse \in Parts)'
    BY DEF WorkbenchNext, StaysInUse, workbenchVars, Parts
  <2>. QED  BY <2>1, <2>2, PTL DEF WorkbenchSpec
<1>6. WorkbenchSpec => [](MonitorTypeOK /\ PanelsTypeOK /\ WizardTypeOK)
  BY <1>1, PartsBehave, MonitorHolds, MonTypedHold, PanelsHold, PanelsKeepHolds, WizardHolds,
     IngestHolds, WizTypedHold, PTL
<1>7. WorkbenchSpec => [](/\ ConnectionsTypeOK /\ PreviewTypeOK /\ FormTypeOK /\ SchemaTypeOK
                         /\ OntologyTypeOK /\ PropertyTypeOK /\ ImportTypeOK /\ VersionsTypeOK)
  BY <1>2, PartsBehave, ConnectionsHold, ConnsTypedHold, PreviewTypedHolds, FormStoresHolds,
     SchemaStoresHolds, OntologyStoresHolds, PropertyTypedHolds, ImportStoresHolds,
     VersionsStoresHolds, PTL
<1>8. WorkbenchSpec => [](/\ ReviewTypeOK /\ ExplorerTypeOK /\ DetailTypeOK /\ GraphTypeOK
                         /\ AdminTypeOK /\ DashboardTypeOK /\ ShellTypeOK)
  BY <1>3, PartsBehave, ReviewHolds, ReviewTypedHold, ExplTypedHold, DetailHolds,
     DetailTypedHold, GraphTypedHold, AdminHolds, DashTypedHolds, ShellHolds, PTL
<1>. QED  BY <1>4, <1>5, <1>6, <1>7, <1>8, PartsBehave, SessionTyped, PTL

(* Remembered files belong to the user signed in, whatever sessions ended   *)
(* and were renewed in between; a user has an account, although account and *)
(* row are created in two systems; and a rotation revokes every key that    *)
(* had been issued when it was asked for, also when rotations overlap.      *)
THEOREM OwnersAlwaysHold == WorkbenchSpec => []OwnersHold
<1>1. FilesOwned /\ AdminInv => OwnersHold
  <2>. SUFFICES ASSUME FilesOwned, AdminInv PROVE OwnersHold
    OBVIOUS
  <2>1. RowHasAccount /\ EarlierKeysRevoked
    BY AdminTyped
  <2>. QED  BY <2>1 DEF OwnersHold
<1>. QED  BY <1>1, PartsBehave, FilesAreTheirs, AdminHolds, PTL

(* The list of runs is polled whenever its stream is down, however errors,  *)
(* timers and effects interleave; and the three newest notifications stay   *)
(* on the screen until their own time is over or the user closes them.      *)
THEOREM PresentIsKept == WorkbenchSpec => []KeptPresent
<1>1. MonitorInv /\ ShellInv => KeptPresent
  BY MonitorKept, ShellTyped DEF KeptPresent
<1>. QED  BY <1>1, PartsBehave, MonitorHolds, ShellHolds, PTL

(* What a page shows is what it was asked for last, in whatever order       *)
(* answers come: the rows of the file named, the comparison of the version  *)
(* opened, the results of the text in the field, the provenance of the      *)
(* record, the neighbourhood of the entity as its two queries read it, a    *)
(* page of the preview that exists; and no edge of the graph is drawn       *)
(* without its ends, but under the filter of types or after a link was      *)
(* written between the two queries.  For any entities, files, versions and  *)
(* texts, and however many requests are under way.                          *)
THEOREM ShownIsAskedFor == WorkbenchSpec => []ShownIsAsked
<1>1. PreviewInv /\ VersionsInv /\ ExplorerInv /\ DetailInv /\ GraphInv /\ WizardInv
        => ShownIsAsked
  <2>. SUFFICES ASSUME PreviewInv, VersionsInv, ExplorerInv, DetailInv, GraphInv, WizardInv
                PROVE  ShownIsAsked
    OBVIOUS
  <2>1. RawOfItsFile /\ DiffIsOfVersion /\ DrawerOfRecord /\ PageExists
    BY DEF PreviewInv, VersionsInv, DetailInv, WizardInv
  <2>2. FoundIsAsked /\ GraphOfView /\ DrawnWhole
    BY ExplorerFinds, GraphShows
  <2>. QED  BY <2>1, <2>2 DEF ShownIsAsked
<1>. QED  BY <1>1, PartsBehave, PreviewHolds, VersionsHold, ExplorerHolds, DetailHolds, GraphHolds,
              WizardHolds, PTL

(* Nothing is done, kept or shown twice, whatever is retried, polled,       *)
(* closed and opened again, and in whatever order requests are answered:    *)
(* for any number of wizards, forms, polls and saves that overlap.          *)
THEOREM NothingIsTwice == WorkbenchSpec => []NothingTwice
<1>1. ASSUME OneNotice, MonitorInv, IngestInv, FormInv, SchemaInv, PanelsInv, OntoInv,
             ConnectionsInv
      PROVE  NothingTwice
  <2>1. OneStream /\ IngestingIsOne /\ RememberedOnce /\ OneSave /\ ListedOnce
    BY <1>1, MonitorKept, IngestsOnce, FormSavesOnce, OntologyLists
  <2>2. OneTemplate /\ OneToOne
    BY <1>1, SchemaKept
  <2>3. LinesOnce /\ OneOfAName
    BY <1>1 DEF PanelsInv, InOrder, LinesOnce, ConnectionsInv
  <2>. QED  BY <1>1, <2>1, <2>2, <2>3 DEF NothingTwice
<1>. QED  BY <1>1, PartsBehave, ToldOnce, MonitorHolds, IngestHolds, FormHolds, SchemaHolds, PanelsHold,
              OntologyHolds, ConnectionsHold, PTL

(* What a page says is saved is stored, whole and with what it refers to,   *)
(* although requests are sent one by one, fail one by one and overlap:      *)
(* files and their mappings, schema mappings, tables of a connector,        *)
(* templates, the ends of relationship types, and every version with its    *)
(* difference from the version before it.                                   *)
THEOREM SavedStaysStored == WorkbenchSpec => []SavedIsStored
<1>1. ASSUME IngestInv, SchemaStores, FormStores, ImportStores, OntoStores, VersionsStores
      PROVE  SavedIsStored
  <2>1. FinishedIsStored /\ MappedTypesExist
    BY <1>1, IngestsStored
  <2>2. ListedIsStored /\ RegisteredWasDiscovered
    BY <1>1, SchemaStored DEF FormStores
  <2>3. ImportCompletes /\ EndsExist
    BY <1>1, ImportStored, OntologyStored
  <2>4. DiffsReplay
    BY <1>1, VersionsStored
  <2>. QED  BY <2>1, <2>2, <2>3, <2>4 DEF SavedIsStored
<1>. QED  BY <1>1, PartsBehave, IngestHolds, SchemaStoresHolds, FormStoresHolds, ImportStoresHolds,
              OntologyStoresHolds, VersionsStoresHolds, PTL

(* No step leads a user who signs in to another page than the one refused,  *)
(* deletes what was not confirmed, takes a line from the log that is not    *)
(* the oldest, shows an older number, carries links over to another mapper, *)
(* or changes two properties at once that were added in the form.           *)
THEOREM StepsAreKept == WorkbenchSpec => StepsKeep
<1>1. DeletionConfirmed =>
        (deletion.pc = "asked" /\ deletion'.pc = "served" /\ deletion'.ok
           => conns \ conns' \subseteq confirmed)
  BY DEF DeletionConfirmed
<1>2. NoneBack =>
        \A q \in Queries : cards[q] # Blank => cards'[q] # Blank /\ cards'[q] >= cards[q]
  BY DEF NoneBack
<1>3. Trimmed(logs, logs') =>
        (logs' # <<>> => \A l \in ToSet(logs) \ ToSet(logs') :
                           Len(logs') = maxLines /\ \A k \in ToSet(logs') : Earlier(l, k))
  BY DEF Trimmed
<1>4. ConnectionsSpec => DeletesConfirmed
  BY <1>1, ConnectionsHold, PTL DEF DeletesConfirmed
<1>5. DashboardSpec => NeverBack
  BY <1>2, DashboardHolds, PTL DEF NeverBack
<1>6. PanelsSpec => OnlyTrimmed
  BY <1>3, PanelsHold, PTL DEF OnlyTrimmed
<1>. QED  BY <1>4, <1>5, <1>6, PartsBehave, ReturnsToTheirPage, SchemaHolds, PropertyHolds, PTL
          DEF StepsKeep
=============================================================================

----------------------------- MODULE UploadWizard -----------------------------
(* FileUploadWizard: a file is read in the browser, its columns are mapped  *)
(* to entity types, and an ingestion registers the types, a connection, the *)
(* file itself and the mappings, one request after the other.  The wizard   *)
(* can be closed with Escape at any time: the requests under way go on, and *)
(* a wizard opened again knows nothing of them.  DataPreviewTable is the    *)
(* third step.  Names of properties, rows and progress are left out.        *)
EXTENDS FiniteSets, FiniteSetsExt, Integers, Lists, Sequences, SequencesExt, Workbench

CONSTANTS
  Files, FileColumns, TargetTypes,
  inferredEntity,    \* type named after each file
  SeededTargets,     \* types the ontology starts with
  RowCount,          \* rows of a file
  Matches,           \* rows in which the search term occurs, for each column
  itemsPerPage,      \* rows of a page of the preview
  MaxAttempts, MaxEdits   \* bounds: ingestions and wizards; choices and edits

ASSUME WizardAssumption ==
  /\ inferredEntity \in [Files -> TargetTypes] /\ SeededTargets \subseteq TargetTypes
  /\ RowCount \in Nat /\ itemsPerPage \in Nat \ {0}
  /\ Matches \in [FileColumns -> SUBSET (1..RowCount)]
  /\ MaxAttempts \in Nat /\ MaxEdits \in Nat

VARIABLES
  wizard,            \* state of the wizard that is open, by instance
  readers,           \* files being read for the wizard that is open
  listing,           \* its request for the ontology is under way
  preview,           \* DataPreviewTable: page and whether the term is entered
  attempts,          \* the ingestions started, each with what it closed over
  ontology,          \* server: the entity types
  stored,            \* server: connections, the file of each and whether it is there
  rememberedFiles,   \* local_ingested_files: connections and files, newest first
  edits              \* bound used up

wizardVars ==
  <<wizard, readers, listing, preview, attempts, ontology, stored, rememberedFiles, edits>>

NoFile == "none"
NoTarget == [c \in FileColumns |-> "none"]
Fresh(i) ==
  [open |-> TRUE, inst |-> i, step |-> 1, file |-> NoFile, parsed |-> NoFile, active |-> {},
   target |-> NoTarget, known |-> {}, ingesting |-> FALSE, finished |-> FALSE, failed |-> FALSE]
FirstPage == [page |-> 1, term |-> FALSE]

\* The wizard has just been opened for the first time.
WizardInit ==
  /\ wizard = Fresh(0) /\ readers = {} /\ listing = TRUE /\ preview = FirstPage /\ attempts = <<>>
  /\ ontology = SeededTargets /\ stored = <<>> /\ rememberedFiles = <<>> /\ edits = 0

\* What the user chooses or changes is bounded.
Spend == edits < MaxEdits /\ edits' = edits + 1
Edit == wizard.open /\ Spend

(* ------------------------- opening and closing -------------------------- *)
OpenWizard ==
  /\ ~wizard.open /\ wizard.inst + 1 < MaxAttempts
  /\ wizard' = Fresh(wizard.inst + 1) /\ listing' = TRUE /\ preview' = FirstPage
  /\ UNCHANGED <<readers, attempts, ontology, stored, rememberedFiles, edits>>

\* Escape and the cross of the header are not disabled while ingesting.  What
\* is read or asked for by then updates a component that is gone: nothing.
CloseWizard ==
  /\ wizard.open /\ wizard' = [Fresh(wizard.inst) EXCEPT !.open = FALSE]
  /\ preview' = FirstPage /\ readers' = {} /\ listing' = FALSE
  /\ UNCHANGED <<attempts, ontology, stored, rememberedFiles, edits>>

\* fetchOntology: the answer comes once, before or after a file was read;
\* a failure changes nothing.
OntologyArrives ==
  /\ listing /\ listing' = FALSE
  /\ \/ UNCHANGED wizard
     \/ wizard' = [wizard EXCEPT !.known = ontology]
  /\ UNCHANGED <<readers, preview, attempts, ontology, stored, rememberedFiles, edits>>

(* ------------------------------- the file ------------------------------- *)
\* handleFile: the file is set at once, its content when it has been read.
HandleFile(f) ==
  /\ Edit /\ wizard.step = 1 /\ f \notin readers
  /\ wizard' = [wizard EXCEPT !.file = f]
  /\ readers' = readers \cup {f}
  /\ UNCHANGED <<listing, preview, attempts, ontology, stored, rememberedFiles>>

\* reader.onload: whatever the wizard shows by then, it goes to step 2.
FileRead(f) ==
  /\ readers' = readers \ {f} /\ preview' = FirstPage
  /\ wizard' = [wizard EXCEPT !.parsed = f, !.active = FileColumns, !.step = 2,
                              !.target = [c \in FileColumns |-> inferredEntity[f]]]
  /\ UNCHANGED <<listing, attempts, ontology, stored, rememberedFiles, edits>>

\* The file is too large, or its text cannot be parsed.
FileRefused(f) ==
  /\ readers' = readers \ {f}
  /\ UNCHANGED <<wizard, listing, preview, attempts, ontology, stored, rememberedFiles, edits>>

(* ------------------------------ navigation ------------------------------ *)
Step(n) ==
  /\ wizard.open /\ wizard' = [wizard EXCEPT !.step = n] /\ preview' = FirstPage
  /\ UNCHANGED <<readers, listing, attempts, ontology, stored, rememberedFiles, edits>>
BugNextStep == wizard.step > 1 /\ Step(wizard.step + 1)

NextStep == wizard.step \in 2..3 /\ Step(wizard.step + 1)
PreviousStep == wizard.step > 1 /\ ~wizard.ingesting /\ Step(wizard.step - 1)

(* ------------------------ columns and the preview ----------------------- *)
Filtered(active, term) ==
  IF term THEN UNION {Matches[c] : c \in active} ELSE 1..RowCount

PreviewPages(n) == Max({1, (n + itemsPerPage - 1) \div itemsPerPage})

BugClamped(p, active) == p

\* The effect that follows the number of pages.
Clamped(p, active) ==
  [p EXCEPT !.page = Min({p.page, PreviewPages(Cardinality(Filtered(active, p.term)))})]

\* A column is switched in the schema step, and also in the preview.
ToggleColumn(c) ==
  /\ Edit /\ wizard.step \in {2, 3} /\ wizard.parsed # NoFile
  /\ LET now == (wizard.active \ {c}) \cup ({c} \ wizard.active) IN
     /\ wizard' = [wizard EXCEPT !.active = now]
     /\ preview' = IF wizard.step = 3 THEN Clamped(preview, now) ELSE preview
  /\ UNCHANGED <<readers, listing, attempts, ontology, stored, rememberedFiles>>

\* The search term is entered or removed.
Search ==
  /\ Edit /\ wizard.step = 3
  /\ preview' = Clamped([preview EXCEPT !.term = ~preview.term], wizard.active)
  /\ UNCHANGED <<wizard, readers, listing, attempts, ontology, stored, rememberedFiles>>

TurnPage ==
  /\ wizard.open /\ wizard.step = 3
  /\ \E p \in {preview.page - 1, preview.page + 1}
          \cap (1..PreviewPages(Cardinality(Filtered(wizard.active, preview.term)))) :
       preview' = [preview EXCEPT !.page = p]
  /\ UNCHANGED <<wizard, readers, listing, attempts, ontology, stored, rememberedFiles, edits>>

\* handlePrimaryEntityChange and handleApplyCustomEntity: every column.
ChangePrimary(t) ==
  /\ Edit /\ wizard.step = 2 /\ wizard' = [wizard EXCEPT !.target = [c \in FileColumns |-> t]]
  /\ UNCHANGED <<readers, listing, preview, attempts, ontology, stored, rememberedFiles>>

\* updateMapping: one column, while it is active.
UpdateMapping(c, t) ==
  /\ Edit /\ wizard.step = 2 /\ c \in wizard.active
  /\ wizard' = [wizard EXCEPT !.target[c] = t]
  /\ UNCHANGED <<readers, listing, preview, attempts, ontology, stored, rememberedFiles>>

(* ------------------------------ ingestion ------------------------------- *)
BugUsedTypes == {inferredEntity[wizard.parsed]}

UsedTypes == {wizard.target[c] : c \in wizard.active}

BugMayStart == wizard.open /\ wizard.step = 4 /\ ~wizard.finished

\* The button to start or the one to retry is there.
MayStart == wizard.open /\ wizard.step = 4 /\ ~wizard.ingesting /\ ~wizard.finished

\* startIngestion goes on with the values the wizard has at the click.
StartIngestion ==
  /\ MayStart /\ Len(attempts) < MaxAttempts
  /\ wizard' = [wizard EXCEPT !.ingesting = TRUE, !.finished = FALSE, !.failed = FALSE]
  /\ attempts' = Append(attempts,
       [pc |-> "types", inst |-> wizard.inst, file |-> wizard.file, active |-> wizard.active,
        target |-> wizard.target, todo |-> UsedTypes \ wizard.known, troubled |-> FALSE, conn |-> 0])
  /\ UNCHANGED <<readers, listing, preview, ontology, stored, rememberedFiles, edits>>

LiveAttempt == {a \in 1..Len(attempts) : attempts[a].pc \notin {"done", "failed"}}
Mine(a) == wizard.open /\ wizard.inst = attempts[a].inst

\* Type by type; the first one that is refused or fails ends the loop, and
\* the ingestion goes on.
RegisterTypes(a) ==
  /\ attempts[a].pc = "types"
  /\ \/ /\ attempts[a].todo = {}
        /\ attempts' = [attempts EXCEPT ![a].pc = "register"] /\ UNCHANGED ontology
     \/ \E t \in attempts[a].todo :
          /\ t \notin ontology /\ ontology' = ontology \cup {t}
          /\ attempts' = [attempts EXCEPT ![a].todo = @ \ {t}]
     \/ /\ attempts[a].todo # {} /\ UNCHANGED ontology
        /\ attempts' = [attempts EXCEPT ![a].pc = "register", ![a].troubled = TRUE]
  /\ UNCHANGED <<wizard, readers, listing, preview, stored, rememberedFiles, edits>>

\* setIngestionFailed and setIngesting, of the wizard that started it.
GiveUp(a) ==
  wizard' = IF Mine(a) THEN [wizard EXCEPT !.failed = TRUE, !.ingesting = FALSE] ELSE wizard

RegisterConnection(a) ==
  /\ attempts[a].pc = "register"
  /\ \/ /\ stored' = Append(stored, [file |-> attempts[a].file, there |-> FALSE])
        /\ attempts' = [attempts EXCEPT ![a].pc = "upload", ![a].conn = Len(stored) + 1]
        /\ UNCHANGED wizard
     \/ /\ UNCHANGED stored
        /\ attempts' = [attempts EXCEPT ![a].pc = "failed"] /\ GiveUp(a)
  /\ UNCHANGED <<readers, listing, preview, ontology, rememberedFiles, edits>>

BugUnauthorised(pc) == IF pc = "upload" THEN "again" ELSE "save"

\* What follows a 401: the token is renewed and the file sent once more.
Unauthorised(pc) == IF pc = "upload" THEN "again" ELSE "failed"

\* uploadMultipartWithProgress, the first time and after the token is renewed.
Upload(a) ==
  /\ attempts[a].pc \in {"upload", "again"}
  /\ LET sent == [stored EXCEPT ![attempts[a].conn].there = TRUE] IN
     \/ /\ stored' = sent /\ attempts' = [attempts EXCEPT ![a].pc = "save"] /\ UNCHANGED wizard
     \/ /\ UNCHANGED stored
        /\ attempts' = [attempts EXCEPT ![a].pc = Unauthorised(attempts[a].pc)]
        /\ IF Unauthorised(attempts[a].pc) = "failed" THEN GiveUp(a) ELSE UNCHANGED wizard
     \/ /\ stored' \in {stored, sent}
        /\ attempts' = [attempts EXCEPT ![a].pc = "failed"] /\ GiveUp(a)
  /\ UNCHANGED <<readers, listing, preview, ontology, rememberedFiles, edits>>

BugOthers(conn, file) ==
  At(rememberedFiles, {i \in DOMAIN rememberedFiles : rememberedFiles[i].conn # conn})

Others(conn, file) ==
  At(rememberedFiles, {i \in DOMAIN rememberedFiles :
                         rememberedFiles[i].conn # conn /\ rememberedFiles[i].file # file})

\* saveMappingsToBackend: a mapping for each column that is active.
Saves(a) == [c \in attempts[a].active |-> attempts[a].target[c]]

\* A mapping that fails is swallowed; then the ingestion is finished and
\* rememberedFiles in the browser.
SaveAndFinish(a) ==
  /\ attempts[a].pc = "save"
  /\ attempts' = [attempts EXCEPT ![a].pc = "done"]
  /\ wizard' = IF Mine(a)
               THEN [wizard EXCEPT !.finished = TRUE, !.failed = FALSE, !.ingesting = FALSE]
               ELSE wizard
  /\ rememberedFiles' = <<[conn |-> attempts[a].conn, file |-> attempts[a].file]>>
                     \o Others(attempts[a].conn, attempts[a].file)
  /\ UNCHANGED <<readers, listing, preview, ontology, stored, edits>>

Ingest(a) == RegisterTypes(a) \/ RegisterConnection(a) \/ Upload(a) \/ SaveAndFinish(a)

WizardNext ==
  \/ OpenWizard \/ CloseWizard \/ OntologyArrives
  \/ (\E f \in Files : HandleFile(f)) \/ (\E f \in readers : FileRead(f) \/ FileRefused(f))
  \/ NextStep \/ PreviousStep \/ Search \/ TurnPage
  \/ (\E c \in FileColumns : ToggleColumn(c)) \/ (\E t \in TargetTypes : ChangePrimary(t))
  \/ (\E c \in FileColumns, t \in TargetTypes : UpdateMapping(c, t))
  \/ StartIngestion \/ (\E a \in LiveAttempt : Ingest(a))

WizardSpec == WizardInit /\ [][WizardNext]_wizardVars

(* Requests are answered.                                                   *)
WizardFairness ==
  \A a \in 1..MaxAttempts : WF_wizardVars(inUse = "wizard" /\ a \in LiveAttempt /\ Ingest(a))

(* --------------------- waiting, and what is shown ----------------------- *)
\* An ingestion is under way and the wizard cannot be used.
WizardWaits == wizard.ingesting

(* ------------------------------ properties ------------------------------ *)
WizardTypeOK ==
  /\ wizard \in [open : BOOLEAN, inst : 0..MaxAttempts, step : 1..4, file : Files \cup {NoFile},
                 parsed : Files \cup {NoFile}, active : SUBSET FileColumns,
                 target : [FileColumns -> TargetTypes \cup {"none"}], known : SUBSET TargetTypes,
                 ingesting : BOOLEAN, finished : BOOLEAN, failed : BOOLEAN]
  /\ readers \subseteq Files /\ listing \in BOOLEAN
  /\ ontology \subseteq TargetTypes /\ stored \in Seq([file : Files, there : BOOLEAN])
  /\ Len(attempts) <= MaxAttempts /\ edits \in 0..MaxEdits
  /\ \A a \in 1..Len(attempts) :
       /\ attempts[a].pc \in {"types", "register", "upload", "again", "save", "done", "failed"}
       /\ attempts[a].file \in Files
       /\ attempts[a].conn \in (IF attempts[a].pc \in {"upload", "again", "save", "done"}
                                THEN 1..Len(stored) ELSE 0..Len(stored))
  /\ preview \in [page : 1..PreviewPages(RowCount), term : BOOLEAN]

(* The wizard shows an ingestion exactly while the one it started is under  *)
(* way: never two, whatever was retried, and none left behind by a failure  *)
(* or by a wizard that was closed before.                                   *)
IngestingIsOne ==
  wizard.open =>
    Cardinality({a \in LiveAttempt : Mine(a)}) = (IF wizard.ingesting THEN 1 ELSE 0)

(* What is finished is stored: the file of an ingestion that ended well is  *)
(* on the server under its own connection, also when the first upload was   *)
(* refused for the token; so it is for every file the browser remembers.    *)
FinishedIsStored ==
  /\ \A a \in 1..Len(attempts) :
       attempts[a].pc = "done" => stored[attempts[a].conn] = [file |-> attempts[a].file, there |-> TRUE]
  /\ \A i \in 1..Len(rememberedFiles) : stored[rememberedFiles[i].conn].there

(* A mapping is saved only for a type that the ontology has, unless a type  *)
(* could not be registered and the ingestion went on without it: the types  *)
(* to register are those of the columns that are active at the click and    *)
(* not in the list that was fetched when the wizard was opened.             *)
MappedTypesExist ==
  \A a \in 1..Len(attempts) :
    attempts[a].pc \in {"save", "done"} /\ ~attempts[a].troubled
      => \A c \in DOMAIN Saves(a) : Saves(a)[c] \in ontology

(* However ingestions of several wizards overlap, the browser remembers a   *)
(* file once, under its latest connection.                                  *)
RememberedOnce ==
  \A i, j \in 1..Len(rememberedFiles) :
    i # j => rememberedFiles[i].conn # rememberedFiles[j].conn /\ rememberedFiles[i].file # rememberedFiles[j].file

(* No page of the preview is shown that does not exist, when a search or a  *)
(* column that is switched off leaves fewer rows.                           *)
PageExists ==
  wizard.step = 3 =>
    preview.page <= PreviewPages(Cardinality(Filtered(wizard.active, preview.term)))
===============================================================================

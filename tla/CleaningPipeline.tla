--------------------------- MODULE CleaningPipeline ---------------------------
(***************************************************************************)
(* The cleaning pipeline (processing/pipelines/cleaning_pipeline.py) under *)
(* Dagster's in-process executor, with the checkpoints of checkpoint.py:   *)
(* five assets in a chain, each executed up to MaxTries times, the whole   *)
(* run retried up to MaxRetries times over the API.                        *)
(*                                                                         *)
(* A frame is known by where its rows come from, "file" or "synthetic";    *)
(* its valid rows are inserted in one transaction and count as one batch.  *)
(* Every way in which a step can go wrong is a kind of fault, which may    *)
(* strike MaxFaults times:                                                 *)
(*   load        the raw file cannot be read                               *)
(*   step        an asset raises before it has done anything               *)
(*   output      Dagster cannot store what an asset returned               *)
(*   check       an asset check raises                                     *)
(*   checkpoint  a checkpoint cannot be written (it is logged)             *)
(*   unreadable  a checkpoint that is there cannot be read (it is logged)  *)
(*   quarantine  record_failure raises (it is logged)                      *)
(*   pg          the PostgreSQL transaction fails                          *)
(*   ambiguous   it commits, and the answer is lost                        *)
(*   sqlite      the insertion into SQLite fails (it is logged)            *)
(*   kafka       the publication of ingest.valid fails (it is logged)      *)
(*   crash       the process dies                                          *)
(***************************************************************************)
EXTENDS Naturals, Sequences

CONSTANTS
  None,
  Runs,             \* run ids
  ApiRuns,          \* those queued over the API, which can be retried
  ObjectRuns,       \* those triggered with the key of a raw file
  InvalidRows,      \* how many rows of a batch are invalid
  MaxTries,         \* retry_policy.max_retries + 1
  MaxRetries,       \* bound on retry_count
  Faults,
  MaxFaults

ASSUME PipelineAssumption ==
  /\ ApiRuns \subseteq Runs /\ ObjectRuns \subseteq Runs
  /\ InvalidRows \in Nat /\ MaxRetries \in Nat /\ MaxFaults \in Nat
  /\ MaxTries \in Nat \ {0}
  /\ None \notin {"file", "synthetic"}

VARIABLES
  run,         \* the execution of each run
  checkpoint,  \* the frame saved for each run and asset, or None
  staged,      \* the insertions of each run's batch, in order
  quarantined, \* the rows each run put in quarantine, in order
  announced,   \* how many ingest.valid messages each run published
  executed,    \* history: how often each asset's function ran to its end
  faults,      \* how often each kind of fault struck
  production,  \* settings.is_production and settings.allow_synthetic_data, fixed
  allow_synthetic_data \* while the system is deployed

settings == <<production, allow_synthetic_data>>
vars == <<run, checkpoint, staged, quarantined, announced, executed, faults,
          settings>>

Assets == 1..5
Raw == 1  \* raw_ingestion_data
\* 2 is cleaned_ingestion_data, 3 is deduplicated_ingestion_data
Valid == 4  \* validated_ingestion_data
Staged == 5 \* staged_ingestion_data

Origin == {"file", "synthetic"}

(* A run that starts or is retried begins again with the first asset. *)
Fresh(retries) ==
  [status |-> "running", at |-> Raw, pc |-> "ready", tries |-> 0,
   retries |-> retries, data |-> None, out |-> None, row |-> 1,
   checked |-> FALSE]

Init ==
  /\ run = [r \in Runs |-> [Fresh(0) EXCEPT !.status = "new"]]
  /\ checkpoint = [r \in Runs |-> [a \in Assets |-> None]]
  /\ staged = [r \in Runs |-> <<>>]
  /\ quarantined = [r \in Runs |-> <<>>]
  /\ announced = [r \in Runs |-> 0]
  /\ executed = [r \in Runs |-> [a \in Assets |-> 0]]
  /\ faults = [f \in Faults |-> 0]
  /\ production \in BOOLEAN /\ allow_synthetic_data \in {"unset", "yes", "no"}

At(r, asset, pc) ==
  /\ run[r].status = "running"
  /\ run[r].at = asset /\ run[r].pc = pc

(* A fault of a kind strikes, or none does. *)
Strike(kind) ==
  /\ kind \in Faults
  /\ faults[kind] < MaxFaults
  /\ faults' = [faults EXCEPT ![kind] = @ + 1]
Sound == UNCHANGED faults

tables == <<checkpoint, staged, quarantined, announced>>

-----------------------------------------------------------------------------
(* Runs *)

Begin(r) ==
  /\ run[r].status = "new"
  /\ run' = [run EXCEPT ![r] = Fresh(0)]
  /\ UNCHANGED <<tables, executed, faults>>

(* What becomes of a run whose asset raised: Dagster executes the asset    *)
(* again, with the same input, until it has had its tries; then            *)
(* materialize raises and the run has failed.                              *)
BugAfterFailure(record) ==
  IF record.tries <= MaxTries
  THEN [record EXCEPT !.tries = @ + 1, !.pc = "ready", !.out = None]
  ELSE [record EXCEPT !.status = "failed"]
AfterFailure(record) ==
  IF record.tries + 1 < MaxTries
  THEN [record EXCEPT !.tries = @ + 1, !.pc = "ready", !.out = None]
  ELSE [record EXCEPT !.status = "failed"]

StepFails(r) ==
  /\ run' = [run EXCEPT ![r] = AfterFailure(@)]
  /\ UNCHANGED <<tables, executed>>

(* The retry endpoint; the run tracker's guard is what matters here. *)
Retry(r) ==
  /\ r \in ApiRuns
  /\ run[r].status = "failed"
  /\ run[r].retries < MaxRetries
  /\ run' = [run EXCEPT ![r] = Fresh(@.retries + 1)]
  /\ UNCHANGED <<tables, executed, faults>>

(* The process dies: its runs stay running in the table of runs, and       *)
(* nothing takes them up again.                                            *)
Crash ==
  /\ Strike("crash")
  /\ \E r \in Runs : run[r].status = "running"
  /\ run' = [r \in Runs |-> IF run[r].status = "running"
                            THEN [run[r] EXCEPT !.status = "dead"] ELSE run[r]]
  /\ UNCHANGED <<tables, executed>>

-----------------------------------------------------------------------------
(* Assets.  Each first looks for its checkpoint. *)

BugReusable(r) == run[r].at = Raw /\ checkpoint[r][Raw] # None
Reusable(r) == checkpoint[r][run[r].at] # None

Reuse(r) ==
  /\ run[r].status = "running" /\ run[r].pc = "ready"
  /\ Reusable(r)
  /\ run' = [run EXCEPT ![r].out = checkpoint[r][run[r].at], ![r].pc = "returned"]
  /\ UNCHANGED <<tables, executed, faults>>

(* load_checkpoint cannot read the file, whatever the reason and for       *)
(* however long, and the asset does without.                               *)
Unreadable(r) ==
  /\ run[r].status = "running" /\ run[r].pc = "ready"
  /\ Reusable(r)
  /\ Strike("unreadable")
  /\ run' = [run EXCEPT ![r].pc = "unread"]
  /\ UNCHANGED <<tables, executed>>

Executes(r, asset) ==
  \/ At(r, asset, "ready") /\ ~Reusable(r)
  \/ At(r, asset, "unread")

(* The function of the asset has built its frame: it saves a checkpoint.   *)
Builds(r, frame, pc) ==
  /\ run' = [run EXCEPT ![r].out = frame, ![r].pc = pc]
  /\ UNCHANGED <<tables, executed>>

(* settings.synthetic_data_allowed: what is configured goes before what is *)
(* the default in production.                                              *)
BugMayFallBack == allow_synthetic_data # "no"
MayFallBack ==
  \/ allow_synthetic_data = "yes"
  \/ allow_synthetic_data = "unset" /\ ~production

(* raw_ingestion_data.  The frame read from a file is returned without a   *)
(* checkpoint; the synthetic one, where it is allowed, is saved.           *)
LoadRaw(r) ==
  /\ Executes(r, Raw)
  /\ \/ /\ r \in ObjectRuns
        /\ Sound
        /\ run' = [run EXCEPT ![r].out = "file", ![r].pc = "returned"]
        /\ executed' = [executed EXCEPT ![r][Raw] = @ + 1]
        /\ UNCHANGED tables
     \/ /\ IF r \in ObjectRuns THEN Strike("load") ELSE Sound
        /\ IF MayFallBack THEN Builds(r, "synthetic", "save") ELSE StepFails(r)

(* cleaned_ingestion_data and deduplicated_ingestion_data *)
Transform(r) ==
  /\ \E asset \in {2, 3} : Executes(r, asset)
  /\ \/ Sound /\ Builds(r, run[r].data, "save")
     \/ Strike("step") /\ StepFails(r)

(* validated_ingestion_data: the invalid rows are put in quarantine, one   *)
(* after the other; if one cannot be, the rest is given up.                *)
Validate(r) ==
  /\ Executes(r, Valid)
  /\ \/ /\ Sound
        /\ run' = [run EXCEPT ![r].out = run[r].data, ![r].pc = "rows", ![r].row = 1]
        /\ UNCHANGED <<tables, executed>>
     \/ Strike("step") /\ StepFails(r)

BugRowsLeft(r) == run[r].row < InvalidRows
RowsLeft(r) == run[r].row <= InvalidRows

QuarantineRow(r) ==
  /\ At(r, Valid, "rows")
  /\ IF RowsLeft(r)
     THEN \/ /\ Sound
             /\ quarantined' = [quarantined EXCEPT ![r] =
                  Append(@, [row |-> run[r].row, origin |-> run[r].data])]
             /\ run' = [run EXCEPT ![r].row = @ + 1]
             /\ UNCHANGED <<checkpoint, staged, announced, executed>>
          \/ Strike("quarantine") /\ Builds(r, run[r].out, "save")
     ELSE Sound /\ Builds(r, run[r].out, "save")

(* staged_ingestion_data: the Parquet file, which may raise; the upload to *)
(* MinIO, which may not; PostgreSQL, or else SQLite; the announcement.     *)
StageFile(r) ==
  /\ Executes(r, Staged)
  /\ \/ Sound /\ Builds(r, run[r].data, "db")
     \/ Strike("step") /\ StepFails(r)

Insert(r, store) ==
  staged' = [staged EXCEPT ![r] =
               Append(@, [store |-> store, origin |-> run[r].data])]

BugAfterPg(db_success) == "announce"
AfterPg(db_success) == IF db_success THEN "announce" ELSE "fallback"

StageDb(r) ==
  /\ At(r, Staged, "db")
  /\ \/ Sound /\ Insert(r, "pg") /\ run' = [run EXCEPT ![r].pc = AfterPg(TRUE)]
     \/ Strike("pg") /\ UNCHANGED staged
        /\ run' = [run EXCEPT ![r].pc = AfterPg(FALSE)]
     \/ Strike("ambiguous") /\ Insert(r, "pg")
        /\ run' = [run EXCEPT ![r].pc = AfterPg(FALSE)]
  /\ UNCHANGED <<checkpoint, quarantined, announced, executed>>

StageFallback(r) ==
  /\ At(r, Staged, "fallback")
  /\ \/ Sound /\ Insert(r, "sqlite")
     \/ Strike("sqlite") /\ UNCHANGED staged
  /\ run' = [run EXCEPT ![r].pc = "announce"]
  /\ UNCHANGED <<checkpoint, quarantined, announced, executed>>

Announce(r) ==
  /\ At(r, Staged, "announce")
  /\ \/ Sound /\ announced' = [announced EXCEPT ![r] = @ + 1]
     \/ Strike("kafka") /\ UNCHANGED announced
  /\ run' = [run EXCEPT ![r].pc = "save"]
  /\ UNCHANGED <<checkpoint, staged, quarantined, executed>>

(* save_checkpoint, and the return from the function.  A write that fails  *)
(* half-way leaves a file that cannot be read in place of an older one.    *)
SaveCheckpoint(r) ==
  /\ run[r].status = "running" /\ run[r].pc = "save"
  /\ \/ Sound /\ checkpoint' = [checkpoint EXCEPT ![r][run[r].at] = run[r].out]
     \/ /\ Strike("checkpoint")
        /\ \/ UNCHANGED checkpoint
           \/ checkpoint' = [checkpoint EXCEPT ![r][run[r].at] = None]
  /\ run' = [run EXCEPT ![r].pc = "returned"]
  /\ executed' = [executed EXCEPT ![r][run[r].at] = @ + 1]
  /\ UNCHANGED <<staged, quarantined, announced>>

(* Dagster stores the output, and the next asset has its input. *)
Passed(record) ==
  [record EXCEPT
     !.data = record.out, !.out = None, !.tries = 0,
     !.at = IF record.at = Staged THEN Staged ELSE record.at + 1,
     !.pc = IF record.at = Staged THEN "end" ELSE "ready"]

Return(r) ==
  /\ run[r].status = "running" /\ run[r].pc = "returned"
  /\ \/ /\ Sound
        /\ run' = [run EXCEPT ![r] = Passed(@)]
        /\ UNCHANGED <<tables, executed>>
     \/ Strike("output") /\ StepFails(r)

(* The checks of cleaned_ingestion_data, which have no retry policy.       *)
(* Dagster may place them anywhere after it.                               *)
Check(r) ==
  /\ run[r].status = "running" /\ run[r].pc \in {"ready", "end"}
  /\ run[r].at > 2 /\ ~run[r].checked
  /\ \/ Sound /\ run' = [run EXCEPT ![r].checked = TRUE]
     \/ Strike("check") /\ run' = [run EXCEPT ![r].status = "failed"]
  /\ UNCHANGED <<tables, executed>>

Complete(r) ==
  /\ At(r, Staged, "end") /\ run[r].checked
  /\ run' = [run EXCEPT ![r].status = "completed"]
  /\ UNCHANGED <<tables, executed, faults>>

Step(r) ==
  \/ Begin(r) \/ Reuse(r) \/ Unreadable(r) \/ LoadRaw(r) \/ Transform(r)
  \/ Validate(r) \/ QuarantineRow(r)
  \/ StageFile(r) \/ StageDb(r) \/ StageFallback(r) \/ Announce(r)
  \/ SaveCheckpoint(r) \/ Return(r) \/ Check(r) \/ Complete(r)

Next ==
  /\ \/ \E r \in Runs : Step(r) \/ Retry(r)
     \/ Crash
  /\ UNCHANGED settings

Spec == Init /\ [][Next]_vars

-----------------------------------------------------------------------------
(* Properties *)

Status == {"new", "running", "failed", "completed", "dead"}
Building == {"rows", "db", "fallback", "announce", "save"} \* inside an asset
Pc == Building \cup {"ready", "unread", "returned", "end"}

Insertion == [store : {"pg", "sqlite"}, origin : Origin]
Rejected == [row : 1..InvalidRows, origin : Origin]

RunRecord ==
  [status : Status, at : Assets, pc : Pc,
   tries : 0..MaxTries - 1, retries : 0..MaxRetries,
   data : Origin \cup {None}, out : Origin \cup {None},
   row : 1..InvalidRows + 1, checked : BOOLEAN]

TypeOK ==
  /\ run \in [Runs -> RunRecord]
  /\ checkpoint \in [Runs -> [Assets -> Origin \cup {None}]]
  /\ staged \in [Runs -> Seq(Insertion)]
  /\ quarantined \in [Runs -> Seq(Rejected)]
  /\ announced \in [Runs -> Nat]
  /\ executed \in [Runs -> [Assets -> Nat]]
  /\ faults \in [Faults -> 0..MaxFaults]
  /\ production \in BOOLEAN /\ allow_synthetic_data \in {"unset", "yes", "no"}

Struck(kind) == IF kind \in Faults THEN faults[kind] ELSE 0

(* However often its steps and the run itself are retried, the batch of a  *)
(* run is inserted once, but for one more insertion for each checkpoint    *)
(* that was lost or could not be read and each commit whose answer was     *)
(* lost.                                                                   *)
StagedOnce ==
  \A r \in Runs :
    Len(staged[r]) <=
      1 + Struck("checkpoint") + Struck("unreadable") + Struck("ambiguous")

(* A retry skips the assets that had succeeded (checkpoint.py): beyond the *)
(* first, none is executed to its end again but for each checkpoint that   *)
(* was lost or could not be read.                                          *)
WorkNotRepeated ==
  \A r \in Runs, a \in Assets \ {Raw} :
    executed[r][a] <= 1 + Struck("checkpoint") + Struck("unreadable")

(* What a run writes comes from one set of raw rows, even when one attempt *)
(* read the file and another fell back to synthetic rows; a checkpoint     *)
(* lost or not readable is what it takes to mix the two.                   *)
OneOrigin ==
  \A r \in Runs :
    \A i \in 1..Len(staged[r]), j \in 1..Len(quarantined[r]) :
      \/ staged[r][i].origin = quarantined[r][j].origin
      \/ Struck("checkpoint") + Struck("unreadable") > 0

(* In production no synthetic row is staged or put in quarantine, unless   *)
(* synthetic data was allowed there explicitly; nor anywhere it is         *)
(* explicitly forbidden.                                                   *)
ProductionSafe ==
  (production /\ allow_synthetic_data # "yes") \/ allow_synthetic_data = "no" =>
    \A r \in Runs :
      /\ \A i \in 1..Len(staged[r]) : staged[r][i].origin = "file"
      /\ \A j \in 1..Len(quarantined[r]) : quarantined[r][j].origin = "file"

(* The rows of a run that completed are in a staging table, unless both    *)
(* databases refused them.                                                 *)
CompletedIsStaged ==
  \A r \in Runs :
    run[r].status = "completed" /\ staged[r] = <<>> => Struck("sqlite") > 0

(* Invalid records are put in quarantine (FR-CON-05): once the valid rows  *)
(* of a batch have gone on to staging, every invalid one is there.         *)
RejectedKept ==
  \A r \in Runs : staged[r] # <<>> =>
    \A row \in 1..InvalidRows :
      \E j \in 1..Len(quarantined[r]) : quarantined[r][j].row = row

(* Only a row the quarantine refused, and those after it, can be missing.  *)
RejectedKeptUnlessRefused == Struck("quarantine") = 0 => RejectedKept

(* As long as no checkpoint, answer, announcement or SQLite insertion is   *)
(* lost and every checkpoint can be read, every step keeps the contract of *)
(* a run with the staging table and the topic.                             *)
Contract == INSTANCE StagingContract WITH
  inserted <- [r \in Runs |-> Len(staged[r])],
  completed <- {r \in Runs : run[r].status = "completed"}
NothingLost ==
  \A kind \in {"checkpoint", "unreadable", "ambiguous", "sqlite", "kafka"} :
    Struck(kind) = 0
KeepsContract ==
  /\ Contract!Init
  /\ [][NothingLost' => Contract!Next \/ UNCHANGED Contract!vars]_vars
=============================================================================

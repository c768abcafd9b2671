--------------------------- MODULE EntityResolution ---------------------------
(***************************************************************************)
(* The entity resolution pipeline (processing/pipelines/er_pipeline.py and *)
(* processing/er/): five assets in a chain under Dagster's in-process      *)
(* executor, with the retries and checkpoints of the cleaning pipeline,    *)
(* over staging tables that grow while it runs.                            *)
(*                                                                         *)
(* A record is its id, a number where the code has a string; ids compare   *)
(* alike.  What the comparison finds is given by a world: the blocking key *)
(* of each record, the score of each pair in hundredths, and whether the   *)
(* provenance of its golden records satisfies PostgreSQL's foreign keys.   *)
(*                                                                         *)
(* Kinds of fault, which may strike MaxFaults times in all:                *)
(*   step        an asset raises and nothing it did remains                *)
(*   output      Dagster cannot store what an asset returned               *)
(*   check       the asset check raises                                    *)
(*   checkpoint  a checkpoint cannot be written (it is logged)             *)
(*   unreadable  a checkpoint that is there cannot be read (it is logged)  *)
(*   pg          PostgreSQL is not there, and SQLite stands in for it      *)
(*   ambiguous   PostgreSQL commits, and the answer is lost                *)
(*   sqlite      SQLite refuses a statement (it is logged)                 *)
(*   kafka       a message cannot be published (it is logged)              *)
(*   crash       the process dies                                          *)
(***************************************************************************)
EXTENDS Naturals, Sequences, FiniteSets, Functions

CONSTANTS
  None,
  Runs,           \* run ids
  ConnectedRuns,  \* those whose source is a connection
  Records,        \* ids of the records that may be staged
  Initial,        \* those staged in PostgreSQL from the start
  Synthetic,      \* ids of the records of the synthetic data set
  Empty,          \* the blocking key of a record without a usable name
  Worlds,
  MaxTries,       \* retry_policy.max_retries + 1
  MaxRetries,     \* bound on retry_count
  Faults,
  MaxFaults

Ids == Records \cup Synthetic
Pairs == {p \in Ids \X Ids : p[1] < p[2]}

ASSUME ResolutionAssumption ==
  /\ ConnectedRuns \subseteq Runs
  /\ Ids \subseteq Nat /\ IsFiniteSet(Ids) /\ Records \cap Synthetic = {} /\ Initial \subseteq Records
  /\ Synthetic # {}
  /\ None \notin [of : SUBSET Ids, pairs : SUBSET Pairs]
  /\ MaxTries \in Nat \ {0} /\ MaxRetries \in Nat /\ MaxFaults \in Nat
  /\ \A w \in Worlds :
       DOMAIN w.key = Ids /\ w.score \in [Pairs -> 0..100] /\ w.traceable \in BOOLEAN

VARIABLES
  world, production, allow_synthetic_data, \* fixed from the start
  staged,      \* the records in each staging table
  run,         \* the execution of each run
  checkpoint,  \* the frame saved for each run and asset, or None
  proposals,   \* the insertions of each run into er_candidates, in order
  golden,      \* the batches of golden records each run inserted, in order
  provenance,  \* for each run, where the provenance of its batches went
  resolved,    \* the entities each run published to entity.resolved
  finished,    \* how many batch completions each run published there
  faults       \* how often each kind of fault struck

tables == <<checkpoint, proposals, golden, provenance, resolved, finished>>
given == <<world, production, allow_synthetic_data>>
vars == <<given, staged, run, tables, faults>>

Matching == INSTANCE UnionFind

Store == {"pg", "sqlite"}
Assets == 1..5
Load == 1     \* staged_records_for_er
Block == 2    \* er_blocked_pairs
Score == 3    \* er_scored_pairs
Classify == 4 \* er_classified_pairs
Golden == 5   \* er_golden_records

(* What an asset returns: pairs, and the records they were formed from.    *)
Frame(records, pairs) == [of |-> records, pairs |-> pairs]
Nothing == Frame({}, {})

Fresh(retries) ==
  [status |-> "running", at |-> Load, pc |-> "ready", tries |-> 0,
   retries |-> retries, records |-> {}, data |-> Nothing, out |-> Nothing,
   clusters |-> {}]

Init ==
  /\ world \in Worlds
  /\ production \in BOOLEAN /\ allow_synthetic_data \in {"unset", "yes", "no"}
  /\ staged = [s \in Store |-> IF s = "pg" THEN Initial ELSE {}]
  /\ run = [r \in Runs |-> [Fresh(0) EXCEPT !.status = "new"]]
  /\ checkpoint = [r \in Runs |-> [a \in Assets |-> None]]
  /\ proposals = [r \in Runs |-> <<>>]
  /\ golden = [r \in Runs |-> <<>>]
  /\ provenance = [r \in Runs |-> <<>>]
  /\ resolved = [r \in Runs |-> {}]
  /\ finished = [r \in Runs |-> 0]
  /\ faults = [f \in Faults |-> 0]

At(r, asset, pc) ==
  /\ run[r].status = "running"
  /\ run[r].at = asset /\ run[r].pc = pc

Strike(kind) ==
  /\ kind \in Faults
  /\ FoldFunction(+, 0, faults) < MaxFaults
  /\ faults' = [faults EXCEPT ![kind] = @ + 1]
Sound == UNCHANGED faults

-----------------------------------------------------------------------------
(* Blocking, comparison and classification *)

(* Pairs of records with one blocking key; a record without a usable name  *)
(* is compared with none.                                                  *)
CandidatePairs(records) ==
  {p \in Pairs :
     /\ p[1] \in records /\ p[2] \in records
     /\ world.key[p[1]] = world.key[p[2]] /\ world.key[p[1]] # Empty}

BugDecision(pair) ==
  CASE world.score[pair] > 90 -> "match"
    [] world.score[pair] \in 71..90 -> "review"
    [] OTHER -> "non_match"
Decision(pair) ==
  CASE world.score[pair] >= 90 -> "match"
    [] world.score[pair] \in 70..89 -> "review"
    [] OTHER -> "non_match"
Decided(pairs, decision) == {p \in pairs : Decision(p) = decision}

-----------------------------------------------------------------------------
(* Runs *)

Begin(r) ==
  /\ run[r].status = "new"
  /\ run' = [run EXCEPT ![r] = Fresh(0)]
  /\ UNCHANGED <<tables, faults>>

(* Dagster executes a failed asset again, with the same input, until it    *)
(* has had its tries.                                                      *)
BugAfterFailure(record) ==
  IF record.tries + 1 < MaxTries
  THEN [record EXCEPT !.tries = @ + 1, !.pc = "ready", !.out = Nothing]
  ELSE [record EXCEPT !.status = "completed"]
BugTries(record) ==
  IF record.tries < MaxTries
  THEN [record EXCEPT !.tries = @ + 1, !.pc = "ready", !.out = Nothing]
  ELSE [record EXCEPT !.status = "failed"]
AfterFailure(record) ==
  IF record.tries + 1 < MaxTries
  THEN [record EXCEPT !.tries = @ + 1, !.pc = "ready", !.out = Nothing]
  ELSE [record EXCEPT !.status = "failed"]

StepFails(r) == run' = [run EXCEPT ![r] = AfterFailure(@)]

(* The retry endpoint; the run tracker's guard is what matters here. *)
Retry(r) ==
  /\ run[r].status = "failed" /\ run[r].retries < MaxRetries
  /\ run' = [run EXCEPT ![r] = Fresh(@.retries + 1)]
  /\ UNCHANGED <<tables, faults>>

Crash ==
  /\ Strike("crash")
  /\ \E r \in Runs : run[r].status = "running"
  /\ run' = [r \in Runs |-> IF run[r].status = "running"
                            THEN [run[r] EXCEPT !.status = "dead"] ELSE run[r]]
  /\ UNCHANGED tables

(* The cleaning pipeline stages a record, in SQLite when PostgreSQL is not *)
(* there.                                                                  *)
Stage(x, store) ==
  /\ x \notin staged["pg"] \cup staged["sqlite"]
  /\ staged' = [staged EXCEPT ![store] = @ \cup {x}]
  /\ UNCHANGED <<run, tables, faults>>

-----------------------------------------------------------------------------
(* Assets.  Each first looks for its checkpoint. *)

BugReusable(r) == run[r].at < Classify /\ checkpoint[r][run[r].at] # None
Reusable(r) == checkpoint[r][run[r].at] # None

Reuse(r) ==
  /\ run[r].status = "running" /\ run[r].pc = "ready"
  /\ Reusable(r)
  /\ run' = [run EXCEPT ![r].out = checkpoint[r][run[r].at], ![r].pc = "returned"]
  /\ UNCHANGED <<tables, faults>>

(* load_checkpoint cannot read the file, and the asset does without.       *)
Unreadable(r) ==
  /\ run[r].status = "running" /\ run[r].pc = "ready"
  /\ Reusable(r)
  /\ Strike("unreadable")
  /\ run' = [run EXCEPT ![r].pc = "unread"]
  /\ UNCHANGED tables

Executes(r, asset) ==
  \/ At(r, asset, "ready") /\ ~Reusable(r)
  \/ At(r, asset, "unread")

Builds(r, frame, pc) == run' = [run EXCEPT ![r].out = frame, ![r].pc = pc]

(* settings.synthetic_data_allowed *)
BugMayFallBack == allow_synthetic_data # "no"
MayFallBack ==
  \/ allow_synthetic_data = "yes"
  \/ allow_synthetic_data = "unset" /\ ~production

(* staged_records_for_er.  SQLite is read when PostgreSQL is not there or  *)
(* has nothing; what is read from a database gets no checkpoint.           *)
LoadStaged(r) ==
  /\ Executes(r, Load)
  /\ \/ /\ staged["pg"] # {} /\ Sound
        /\ Builds(r, Frame(staged["pg"], {}), "returned")
     \/ /\ staged["sqlite"] # {}
        /\ IF staged["pg"] = {} THEN Sound ELSE Strike("pg")
        /\ Builds(r, Frame(staged["sqlite"], {}), "returned")
     \/ /\ CASE staged["sqlite"] # {} -> Strike("sqlite") \* after PostgreSQL
            [] staged["sqlite"] = {} /\ staged["pg"] # {} -> Strike("pg")
            [] OTHER -> Sound
        /\ IF MayFallBack
           THEN Builds(r, Frame(Synthetic, {}), "save") ELSE StepFails(r)
  /\ UNCHANGED tables

(* er_blocked_pairs and er_scored_pairs *)
Compare(r) ==
  /\ \/ /\ Executes(r, Block) /\ Sound
        /\ Builds(r, Frame(run[r].data.of, CandidatePairs(run[r].data.of)), "save")
     \/ Executes(r, Score) /\ Sound /\ Builds(r, run[r].data, "save")
     \/ (Executes(r, Block) \/ Executes(r, Score)) /\ Strike("step") /\ StepFails(r)
  /\ UNCHANGED tables

(* er_classified_pairs: every pair to review is inserted as a new pending  *)
(* candidate, whatever was proposed or decided before; the matches are     *)
(* what the asset returns.                                                 *)
Propose(r, stores) ==
  proposals' = [proposals EXCEPT ![r] = @ \o
    [i \in 1..Len(stores) |->
       [store |-> stores[i], pairs |-> Decided(run[r].data.pairs, "review")]]]

ClassifyPairs(r) ==
  /\ Executes(r, Classify)
  /\ \/ /\ Builds(r, Frame(run[r].data.of, Decided(run[r].data.pairs, "match")), "save")
        /\ IF Decided(run[r].data.pairs, "review") = {}
           THEN Sound /\ UNCHANGED proposals
           ELSE \/ Sound /\ Propose(r, <<"pg">>)
                \/ Strike("pg") /\ Propose(r, <<"sqlite">>)
                \/ Strike("ambiguous") /\ Propose(r, <<"pg", "sqlite">>)
                \/ Strike("sqlite") /\ UNCHANGED proposals \* after PostgreSQL failed
     \/ Strike("step") /\ StepFails(r) /\ UNCHANGED proposals
  /\ UNCHANGED <<checkpoint, golden, provenance, resolved, finished>>

(* The order in which Polars returns the rows is not specified. *)
Orders(pairs) ==
  {rows \in [1..Cardinality(pairs) -> pairs] :
     \A i, j \in 1..Cardinality(pairs) : i # j => rows[i] # rows[j]}

(* er_golden_records: the clusters are inserted in one transaction, each   *)
(* under a new id, into PostgreSQL if it answers and else into SQLite.     *)
Batch(r, store, rows) ==
  [store |-> store, of |-> run[r].data.of, records |-> run[r].records,
   clusters |-> Matching!Clusters(rows, run[r].records)]

Insert(r, batch) == golden' = [golden EXCEPT ![r] = Append(@, batch)]

PersistGolden(r) ==
  /\ Executes(r, Golden)
  /\ \/ \E rows \in Orders(run[r].data.pairs), store \in Store :
          /\ IF store = "pg" THEN Sound ELSE Strike("pg")
          /\ Insert(r, Batch(r, store, rows))
          /\ run' = [run EXCEPT ![r].pc = "publish",
                                ![r].clusters = Batch(r, store, rows).clusters]
     \/ \E rows \in Orders(run[r].data.pairs) :
          /\ Strike("ambiguous")
          /\ Insert(r, Batch(r, "pg", rows)) /\ StepFails(r)
     \/ Strike("step") /\ StepFails(r) /\ UNCHANGED golden
  /\ UNCHANGED <<checkpoint, proposals, provenance, resolved, finished>>

BugAllPublished(r) == Cardinality(run[r].clusters) <= 1
AllPublished(r) == run[r].clusters = {}

Publish(r) ==
  /\ At(r, Golden, "publish") /\ ~AllPublished(r)
  /\ LET c == CHOOSE c \in run[r].clusters : TRUE IN
       /\ run' = [run EXCEPT ![r].clusters = @ \ {c}]
       /\ \/ Sound /\ resolved' = [resolved EXCEPT ![r] = @ \cup {<<Len(golden[r]), c>>}]
          \/ Strike("kafka") /\ UNCHANGED resolved
  /\ UNCHANGED <<checkpoint, proposals, golden, provenance, finished>>

(* The provenance goes into PostgreSQL if its foreign keys are satisfied   *)
(* there, and else into SQLite.                                            *)
Accepts(r) == world.traceable /\ golden[r][Len(golden[r])].store = "pg"

BugTrace(r, stores) ==
  provenance' = [provenance EXCEPT ![r] = @ \o
    [i \in 1..Len(stores) |-> [batch |-> 1, store |-> stores[i]]]]
Trace(r, stores) ==
  provenance' = [provenance EXCEPT ![r] = @ \o
    [i \in 1..Len(stores) |-> [batch |-> Len(golden[r]), store |-> stores[i]]]]

PersistProvenance(r) ==
  /\ At(r, Golden, "publish") /\ AllPublished(r)
  /\ \/ Accepts(r) /\ Sound /\ Trace(r, <<"pg">>)
     \/ Accepts(r) /\ Strike("ambiguous") /\ Trace(r, <<"pg", "sqlite">>)
     \/ (IF Accepts(r) THEN Strike("pg") ELSE Sound) /\ Trace(r, <<"sqlite">>)
     \/ Strike("sqlite") /\ UNCHANGED provenance \* after PostgreSQL failed
  /\ run' = [run EXCEPT ![r].pc = "finish"]
  /\ UNCHANGED <<checkpoint, proposals, golden, resolved, finished>>

PublishCompletion(r) ==
  /\ At(r, Golden, "finish")
  /\ \/ /\ r \in ConnectedRuns /\ Sound
        /\ finished' = [finished EXCEPT ![r] = @ + 1]
     \/ /\ IF r \in ConnectedRuns THEN Strike("kafka") ELSE Sound
        /\ UNCHANGED finished
  /\ Builds(r, run[r].data, "save")
  /\ UNCHANGED <<checkpoint, proposals, golden, provenance, resolved>>

(* A write that fails half-way leaves a file that cannot be read in place  *)
(* of an older one.                                                        *)
SaveCheckpoint(r) ==
  /\ run[r].status = "running" /\ run[r].pc = "save"
  /\ \/ Sound /\ checkpoint' = [checkpoint EXCEPT ![r][run[r].at] = run[r].out]
     \/ /\ Strike("checkpoint")
        /\ \/ UNCHANGED checkpoint
           \/ checkpoint' = [checkpoint EXCEPT ![r][run[r].at] = None]
  /\ run' = [run EXCEPT ![r].pc = "returned"]
  /\ UNCHANGED <<proposals, golden, provenance, resolved, finished>>

(* Dagster stores the output and the next asset has its input; the records *)
(* loaded are kept for the last asset.                                     *)
Passed(record) ==
  [record EXCEPT
     !.data = record.out, !.out = Nothing, !.tries = 0,
     !.records = IF record.at = Load THEN record.out.of ELSE @,
     !.at = IF record.at = Golden THEN Golden ELSE record.at + 1,
     !.pc = IF record.at = Golden THEN "end" ELSE "ready"]

Return(r) ==
  /\ run[r].status = "running" /\ run[r].pc = "returned"
  /\ \/ Sound /\ run' = [run EXCEPT ![r] = Passed(@)]
     \/ Strike("output") /\ StepFails(r)
  /\ UNCHANGED tables

(* er_referential_integrity_check, which has no retry policy, ends the run.*)
Complete(r) ==
  /\ At(r, Golden, "end")
  /\ \/ Sound /\ run' = [run EXCEPT ![r].status = "completed"]
     \/ Strike("check") /\ run' = [run EXCEPT ![r].status = "failed"]
  /\ UNCHANGED tables

Step(r) ==
  \/ Begin(r) \/ Retry(r) \/ Reuse(r) \/ Unreadable(r) \/ LoadStaged(r) \/ Compare(r)
  \/ ClassifyPairs(r) \/ PersistGolden(r) \/ Publish(r) \/ PersistProvenance(r)
  \/ PublishCompletion(r) \/ SaveCheckpoint(r) \/ Return(r) \/ Complete(r)

Next ==
  /\ \/ (\E r \in Runs : Step(r)) /\ UNCHANGED staged
     \/ \E x \in Records, store \in Store : Stage(x, store)
     \/ Crash /\ UNCHANGED staged
  /\ UNCHANGED given

Spec == Init /\ [][Next]_vars

-----------------------------------------------------------------------------
(* Properties *)

FrameType == [of : SUBSET Ids, pairs : SUBSET Pairs]
BatchType ==
  [store : Store, of : SUBSET Ids, records : SUBSET Ids, clusters : SUBSET SUBSET Ids]

RunRecord ==
  [status : {"new", "running", "failed", "completed", "dead"}, at : Assets,
   pc : {"ready", "unread", "publish", "finish", "save", "returned", "end"},
   tries : 0..MaxTries - 1, retries : 0..MaxRetries, records : SUBSET Ids,
   data : FrameType, out : FrameType, clusters : SUBSET SUBSET Ids]

TypeOK ==
  /\ world \in Worlds
  /\ production \in BOOLEAN /\ allow_synthetic_data \in {"unset", "yes", "no"}
  /\ staged \in [Store -> SUBSET Records]
  /\ run \in [Runs -> RunRecord]
  /\ checkpoint \in [Runs -> [Assets -> FrameType \cup {None}]]
  /\ proposals \in [Runs -> Seq([store : Store, pairs : SUBSET Pairs])]
  /\ golden \in [Runs -> Seq(BatchType)]
  /\ provenance \in [Runs -> Seq([batch : Nat, store : Store])]
  /\ resolved \in [Runs -> SUBSET (Nat \X SUBSET Ids)]
  /\ finished \in [Runs -> Nat]
  /\ faults \in [Faults -> Nat]

Struck(kind) == IF kind \in Faults THEN faults[kind] ELSE 0
LastBatch(r) == golden[r][Len(golden[r])]

(* What the records themselves say: pairs with one usable key whose score  *)
(* lies in a band.                                                         *)
Scored(records, band) ==
  {p \in Pairs : /\ {p[1], p[2]} \subseteq records
                 /\ world.key[p[1]] = world.key[p[2]] /\ world.key[p[1]] # Empty
                 /\ world.score[p] \in band}

(* x is linked to y among some records if every set of them that has x and *)
(* that no link leaves has y.                                              *)
Linked(x, y, records, links) ==
  /\ {x, y} \subseteq records
  /\ \A S \in SUBSET records :
       x \in S /\ (\A p \in links : p[1] \in S <=> p[2] \in S) => y \in S

(* Two records of a batch become one entity exactly if a chain of matches  *)
(* among the records the run compared leads from one to the other,         *)
(* whatever the order of the matches and whatever was staged since.        *)
SameEntity ==
  \A r \in Runs : \A n \in 1..Len(golden[r]) :
    LET batch == golden[r][n] IN
      \A x, y \in batch.records : x < y =>
        ((\E c \in batch.clusters : x \in c /\ y \in c)
           <=> Linked(x, y, batch.of, Scored(batch.of, 90..100)))

(* Every record a run loaded is a source of exactly one of the golden      *)
(* records of a batch, those that match none included.                     *)
Partitions(clusters, records) ==
  /\ UNION clusters = records
  /\ {} \notin clusters
  /\ \A c, d \in clusters : c # d => c \cap d = {}
GoldenPartition ==
  \A r \in Runs : \A n \in 1..Len(golden[r]) :
    Partitions(golden[r][n].clusters, golden[r][n].records)

(* Once a run has golden records, every pair it compared that people are   *)
(* to decide is in er_candidates, unless neither database took it, and no  *)
(* other pair is.                                                          *)
ReviewProposed ==
  \A r \in Runs : golden[r] # <<>> =>
    LET due == Scored(LastBatch(r).of, 70..89)
        proposed == {proposals[r][i].pairs : i \in 1..Len(proposals[r])}
    IN  /\ due # {} => due \in proposed \/ Struck("sqlite") > 0
        /\ due = {} => proposed = {} \/ Struck("checkpoint") + Struck("unreadable") > 0

(* A pair is put before the reviewers once for each run, but for each      *)
(* checkpoint that was lost or could not be read and each lost answer; so  *)
(* is a batch of golden records.                                           *)
Tolerance ==
  1 + Struck("checkpoint") + Struck("unreadable") + Struck("ambiguous")
ProposedOnce == \A r \in Runs : Len(proposals[r]) <= Tolerance
ResolvedOnce == \A r \in Runs : Len(golden[r]) <= Tolerance

(* The batch a run went on with is the last it inserted; where a checkpoint *)
(* could not be read it may be an earlier one, for the run may insert again,*)
(* fail and then read its checkpoint after all.                            *)
Settled(r) ==
  {n \in 1..Len(golden[r]) : n = Len(golden[r]) \/ Struck("unreadable") > 0}

(* A run that completed has golden records, and has published every one of *)
(* the batch it went on with unless Kafka refused.                         *)
Announced(r, n) == \A c \in golden[r][n].clusters : <<n, c>> \in resolved[r]
CompletedIsAnnounced ==
  \A r \in Runs : run[r].status = "completed" =>
    /\ golden[r] # <<>>
    /\ Struck("kafka") = 0 => \E n \in Settled(r) : Announced(r, n)

(* The completion of a batch is published after all of its golden records. *)
CompletionIsLast ==
  Struck("kafka") = 0 =>
    \A r \in Runs :
      finished[r] <= Cardinality({n \in 1..Len(golden[r]) : Announced(r, n)})

(* In production nothing is resolved or proposed but staged records,       *)
(* unless synthetic data was allowed there explicitly; nor anywhere it is  *)
(* explicitly forbidden.                                                   *)
ProductionSafe ==
  (production /\ allow_synthetic_data # "yes") \/ allow_synthetic_data = "no" =>
    \A r \in Runs :
      /\ \A n \in 1..Len(golden[r]) : golden[r][n].records \subseteq Records
      /\ \A i \in 1..Len(proposals[r]) : proposals[r][i].pairs \subseteq Records \X Records

(* The provenance of the batch a completed run went on with is in a        *)
(* database unless neither took it; it is in that of the golden records    *)
(* but for one case: they are in PostgreSQL, and their provenance is in    *)
(* SQLite because PostgreSQL failed or its foreign keys refused it.        *)
TracedIn(r, n, store) ==
  \E i \in 1..Len(provenance[r]) :
    provenance[r][i] = [batch |-> n, store |-> store]
TracedBeside ==
  \A r \in Runs : run[r].status = "completed" /\ Struck("sqlite") = 0 =>
    \E n \in Settled(r) :
      \/ TracedIn(r, n, golden[r][n].store)
      \/ /\ golden[r][n].store = "pg" /\ TracedIn(r, n, "sqlite")
         /\ Struck("pg") > 0 \/ ~world.traceable
=============================================================================

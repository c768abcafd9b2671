------------------------ MODULE CleaningPipelineProofs ------------------------
(***************************************************************************)
(* Proofs about CleaningPipeline, for every set of runs, every number of   *)
(* tries, retries and invalid rows, and every set of faults:               *)
(*                                                                         *)
(*   TypeCorrect      the variables keep their types;                      *)
(*   BatchStagedOnce  a batch is inserted once, but for checkpoints lost   *)
(*                    or not readable and lost answers of a commit;        *)
(*   RetrySkipsWork   no asset beyond the first is executed again unless   *)
(*                    its checkpoint was lost or could not be read;        *)
(*   NoSynthetic      nothing synthetic is written where it is not allowed;*)
(*   and, further down, what the tables hold.                              *)
(*                                                                         *)
(* The inductive invariant Inv adds to the types: a run fails only where   *)
(* it has nothing half done (FailedQuiet); the counts StagedOnce and       *)
(* WorkNotRepeated bound are below the number of losses, plus one where    *)
(* the checkpoint of the asset, or the place of the run after the          *)
(* insertion, shows that there will be no other (Insertions, Executions);  *)
(* and where every checkpoint could be read, an asset that is being        *)
(* executed has none (Working).                                            *)
(***************************************************************************)
EXTENDS CleaningPipeline, TLAPS

(* What an asset needs to have: its input, and its frame once it is built. *)
HasFrames(record) ==
  /\ record.at # Raw => record.data \in Origin
  /\ record.pc \in Building \cup {"returned"} => record.out \in Origin

RunTyped == run \in [Runs -> RunRecord] /\ \A r \in Runs : HasFrames(run[r])
TablesTyped ==
  /\ checkpoint \in [Runs -> [Assets -> Origin \cup {None}]]
  /\ staged \in [Runs -> Seq(Insertion)]
  /\ quarantined \in [Runs -> Seq(Rejected)]
  /\ announced \in [Runs -> Nat]
ExecutedTyped == executed \in [Runs -> [Assets -> Nat]]
FaultsTyped == faults \in [Faults -> 0..MaxFaults]

Typed == RunTyped /\ TablesTyped /\ ExecutedTyped /\ FaultsTyped

LEMMA Names ==
  /\ Status = {"new", "running", "failed", "completed", "dead"}
  /\ "ready" \in Pc /\ "end" \in Pc /\ "returned" \in Pc /\ Building \subseteq Pc
  /\ "unread" \in Pc /\ "unread" \notin Building
  /\ "ready" \notin Building /\ "end" \notin Building /\ "returned" \notin Building
  /\ {"rows", "db", "fallback", "announce", "save"} \subseteq Building
  /\ Origin \subseteq Origin \cup {None} /\ None \in Origin \cup {None}
  /\ {"file", "synthetic"} \subseteq Origin
  /\ Raw \in Assets /\ Staged \in Assets /\ Raw # Staged /\ Raw # Valid
BY DEF Status, Pc, Building, Origin, Assets, Raw, Staged, Valid

LEMMA FreshTyped ==
  ASSUME NEW n \in 0..MaxRetries
  PROVE  /\ Fresh(n) \in RunRecord /\ HasFrames(Fresh(n))
         /\ [Fresh(n) EXCEPT !.status = "new"] \in RunRecord
         /\ HasFrames([Fresh(n) EXCEPT !.status = "new"])
<1>1. 0 \in 0..MaxTries - 1 /\ 1 \in 1..InvalidRows + 1
  BY PipelineAssumption
<1>2. "running" \in Status /\ "new" \in Status
  BY Names
<1> QED
  BY <1>1, <1>2, Names DEF Fresh, RunRecord, HasFrames

(* Fields changed in a record leave the others alone. *)
LEMMA RecordUpdate ==
  ASSUME NEW record \in RunRecord, HasFrames(record)
  PROVE  /\ \A s \in Status : /\ [record EXCEPT !.status = s] \in RunRecord
                              /\ HasFrames([record EXCEPT !.status = s])
         /\ \A pc \in Pc :
              record.pc \in Building \/ pc \notin Building \cup {"returned"} =>
                /\ [record EXCEPT !.pc = pc] \in RunRecord
                /\ HasFrames([record EXCEPT !.pc = pc])
         /\ \A x \in Origin, pc \in Pc :
              /\ [record EXCEPT !.out = x, !.pc = pc] \in RunRecord
              /\ HasFrames([record EXCEPT !.out = x, !.pc = pc])
BY DEF RunRecord, HasFrames

LEMMA FailureTyped ==
  ASSUME NEW record \in RunRecord, HasFrames(record)
  PROVE  AfterFailure(record) \in RunRecord /\ HasFrames(AfterFailure(record))
<1>1. CASE record.tries + 1 < MaxTries
  <2> DEFINE n == record.tries + 1
  <2>1. n \in 0..MaxTries - 1
    BY <1>1, PipelineAssumption DEF RunRecord
  <2> HIDE DEF n
  <2>2. [record EXCEPT !.tries = n, !.pc = "ready", !.out = None] \in RunRecord
    BY <2>1, Names DEF RunRecord
  <2>3. HasFrames([record EXCEPT !.tries = n, !.pc = "ready", !.out = None])
    BY Names DEF HasFrames, RunRecord
  <2>4. AfterFailure(record)
          = [record EXCEPT !.tries = n, !.pc = "ready", !.out = None]
    BY <1>1 DEF AfterFailure, n
  <2> QED
    BY <2>2, <2>3, <2>4
<1>2. CASE ~(record.tries + 1 < MaxTries)
  <2>1. AfterFailure(record) = [record EXCEPT !.status = "failed"]
    BY <1>2 DEF AfterFailure
  <2>2. [record EXCEPT !.status = "failed"] \in RunRecord
    BY RecordUpdate, Names
  <2>3. HasFrames([record EXCEPT !.status = "failed"])
    BY DEF HasFrames, RunRecord
  <2> QED
    BY <2>1, <2>2, <2>3
<1> QED
  BY <1>1, <1>2

LEMMA PassedTyped ==
  ASSUME NEW record \in RunRecord, HasFrames(record), record.pc = "returned"
  PROVE  Passed(record) \in RunRecord /\ HasFrames(Passed(record))
<1> DEFINE at == IF record.at = Staged THEN Staged ELSE record.at + 1
           pc == IF record.at = Staged THEN "end" ELSE "ready"
<1>1. at \in Assets /\ pc \in Pc /\ pc \notin Building \cup {"returned"}
  BY Names DEF RunRecord, Assets, Staged
<1>2. 0 \in 0..MaxTries - 1 /\ record.out \in Origin
  BY PipelineAssumption DEF HasFrames
<1> HIDE DEF at, pc
<1>3. [record EXCEPT !.data = record.out, !.out = None, !.tries = 0,
                     !.at = at, !.pc = pc] \in RunRecord
  BY <1>1, <1>2, Names DEF RunRecord
<1>4. HasFrames([record EXCEPT !.data = record.out, !.out = None, !.tries = 0,
                               !.at = at, !.pc = pc])
  BY <1>1, <1>2 DEF HasFrames, RunRecord
<1> QED
  BY <1>3, <1>4 DEF Passed, at, pc

LEMMA RunStep ==
  ASSUME RunTyped, NEW r \in Runs, NEW record \in RunRecord, HasFrames(record),
         run' = [run EXCEPT ![r] = record]
  PROVE  RunTyped'
BY DEF RunTyped

(* The record of faults keeps its type, whichever kind strikes. *)
LEMMA FaultStep ==
  ASSUME FaultsTyped, Sound \/ \E kind \in Faults : Strike(kind)
  PROVE  FaultsTyped'
<1>1. CASE Sound
  BY <1>1 DEF Sound, FaultsTyped
<1>2. ASSUME NEW kind \in Faults, Strike(kind) PROVE FaultsTyped'
  <2>1. faults[kind] + 1 \in 0..MaxFaults
    BY <1>2, PipelineAssumption DEF Strike, FaultsTyped
  <2> QED
    BY <1>2, <2>1 DEF Strike, FaultsTyped
<1> QED
  BY <1>1, <1>2

LEMMA SameTables ==
  ASSUME TablesTyped, ExecutedTyped
  PROVE  /\ UNCHANGED tables => TablesTyped'
         /\ UNCHANGED executed => ExecutedTyped'
BY DEF TablesTyped, ExecutedTyped, tables

LEMMA InitTyped == Init => Typed
<1> SUFFICES ASSUME Init PROVE Typed
  OBVIOUS
<1>1. 0 \in 0..MaxRetries /\ "new" \in Status
  BY PipelineAssumption, Names
<1>2. [Fresh(0) EXCEPT !.status = "new"] \in RunRecord
      /\ HasFrames([Fresh(0) EXCEPT !.status = "new"])
  BY <1>1, FreshTyped
<1>3. RunTyped
  BY <1>2 DEF Init, RunTyped
<1>4. TablesTyped
  BY Names DEF Init, TablesTyped
<1>5. ExecutedTyped /\ FaultsTyped
  BY PipelineAssumption DEF Init, ExecutedTyped, FaultsTyped
<1> QED
  BY <1>3, <1>4, <1>5 DEF Typed

LEMMA StepFailsTyped ==
  ASSUME Typed, NEW r \in Runs, StepFails(r),
         Sound \/ \E kind \in Faults : Strike(kind)
  PROVE  Typed'
<1>1. AfterFailure(run[r]) \in RunRecord /\ HasFrames(AfterFailure(run[r]))
  BY FailureTyped DEF Typed, RunTyped
<1>2. run' = [run EXCEPT ![r] = AfterFailure(run[r])]
  BY DEF StepFails
<1> QED
  BY <1>1, <1>2, RunStep, FaultStep, SameTables DEF Typed, StepFails

LEMMA BuildsTyped ==
  ASSUME Typed, NEW r \in Runs, NEW frame \in Origin, NEW pc \in Pc,
         Builds(r, frame, pc), Sound \/ \E kind \in Faults : Strike(kind)
  PROVE  Typed'
<1> DEFINE new == [run[r] EXCEPT !.out = frame, !.pc = pc]
<1>1. new \in RunRecord /\ HasFrames(new)
  BY RecordUpdate DEF Typed, RunTyped
<1>2. run' = [run EXCEPT ![r] = new]
  BY DEF Builds, Typed, RunTyped
<1> HIDE DEF new
<1> QED
  BY <1>1, <1>2, RunStep, FaultStep, SameTables DEF Typed, Builds

LEMMA NextTyped == Typed /\ [Next]_vars => Typed'
<1> SUFFICES ASSUME Typed, [Next]_vars PROVE Typed'
  OBVIOUS
<1>0. /\ RunTyped /\ TablesTyped /\ ExecutedTyped /\ FaultsTyped
      /\ \A r \in Runs : run[r] \in RunRecord /\ HasFrames(run[r])
  BY DEF Typed, RunTyped
<1>1. CASE UNCHANGED vars
  BY <1>0, <1>1 DEF Typed, RunTyped, TablesTyped, ExecutedTyped, FaultsTyped, vars
<1>2. ASSUME NEW r \in Runs, Begin(r) PROVE Typed'
  <2>1. 0 \in 0..MaxRetries
    BY PipelineAssumption
  <2> QED
    BY <1>0, <1>2, <2>1, FreshTyped, RunStep, FaultStep, SameTables
    DEF Begin, Typed, Sound
<1>3. ASSUME NEW r \in Runs, Retry(r) PROVE Typed'
  <2>1. run[r].retries + 1 \in 0..MaxRetries
    BY <1>0, <1>3, PipelineAssumption DEF Retry, RunRecord
  <2> DEFINE new == Fresh(run[r].retries + 1)
  <2>2. new \in RunRecord /\ HasFrames(new)
    BY <2>1, FreshTyped
  <2>3. run' = [run EXCEPT ![r] = new]
    BY <1>3 DEF Retry
  <2> HIDE DEF new
  <2> QED
    BY <1>0, <1>3, <2>2, <2>3, RunStep, FaultStep, SameTables
    DEF Retry, Typed, Sound
<1>4. CASE Crash
  <2>1. ASSUME NEW r \in Runs
        PROVE  [run[r] EXCEPT !.status = "dead"] \in RunRecord
               /\ HasFrames([run[r] EXCEPT !.status = "dead"])
    BY <1>0, RecordUpdate, Names
  <2>2. RunTyped'
    BY <1>0, <1>4, <2>1 DEF Crash, RunTyped
  <2>3. FaultsTyped'
    BY <1>0, <1>4, FaultStep DEF Crash, Strike
  <2> QED
    BY <1>0, <1>4, <2>2, <2>3, SameTables DEF Crash, Typed
<1>5. ASSUME NEW r \in Runs, Reuse(r) PROVE Typed'
  <2> DEFINE frame == checkpoint[r][run[r].at]
             new == [run[r] EXCEPT !.out = frame, !.pc = "returned"]
  <2>1. run[r].at \in Assets
    BY <1>0 DEF RunRecord
  <2>2. frame \in Origin
    BY <1>0, <1>5, <2>1 DEF Reuse, Reusable, TablesTyped
  <2>3. run' = [run EXCEPT ![r] = new]
    BY <1>5 DEF Reuse
  <2> HIDE DEF frame
  <2>4. new \in RunRecord /\ HasFrames(new)
    BY <1>0, <2>2, RecordUpdate, Names
  <2> HIDE DEF new
  <2> QED
    BY <1>0, <1>5, <2>3, <2>4, RunStep, FaultStep, SameTables
    DEF Reuse, Typed, Sound
<1>21. ASSUME NEW r \in Runs, Unreadable(r) PROVE Typed'
  <2> DEFINE new == [run[r] EXCEPT !.pc = "unread"]
  <2>1. new \in RunRecord /\ HasFrames(new)
    BY <1>0, RecordUpdate, Names
  <2>2. run' = [run EXCEPT ![r] = new]
    BY <1>21 DEF Unreadable
  <2>3. Sound \/ \E kind \in Faults : Strike(kind)
    BY <1>21 DEF Unreadable, Strike
  <2> HIDE DEF new
  <2> QED
    BY <1>0, <1>21, <2>1, <2>2, <2>3, RunStep, FaultStep, SameTables
    DEF Unreadable, Typed
<1>6. ASSUME NEW r \in Runs, LoadRaw(r) PROVE Typed'
  <2>1. Sound \/ \E kind \in Faults : Strike(kind)
    BY <1>6 DEF LoadRaw, Strike
  <2>2. CASE Builds(r, "synthetic", "save")
    BY <2>1, <2>2, BuildsTyped, Names
  <2>3. CASE StepFails(r)
    BY <2>1, <2>3, StepFailsTyped
  <2>4. CASE /\ run' = [run EXCEPT ![r].out = "file", ![r].pc = "returned"]
             /\ executed' = [executed EXCEPT ![r][Raw] = @ + 1]
             /\ UNCHANGED tables
    <3> DEFINE new == [run[r] EXCEPT !.out = "file", !.pc = "returned"]
    <3>1. new \in RunRecord /\ HasFrames(new)
      BY <1>0, RecordUpdate, Names
    <3>2. run' = [run EXCEPT ![r] = new]
      BY <2>4
    <3> HIDE DEF new
    <3>3. ExecutedTyped'
      BY <1>0, <2>4, Names DEF ExecutedTyped
    <3> QED
      BY <1>0, <2>1, <2>4, <3>1, <3>2, <3>3, RunStep, FaultStep, SameTables DEF Typed
  <2> QED
    BY <1>6, <2>2, <2>3, <2>4 DEF LoadRaw
<1>7. ASSUME NEW r \in Runs, run[r].at # Raw PROVE run[r].data \in Origin
  BY <1>0, <1>7 DEF HasFrames
<1>8. ASSUME NEW r \in Runs, Transform(r) PROVE Typed'
  <2>1. run[r].data \in Origin
    BY <1>7, <1>8 DEF Transform, Executes, At, Raw
  <2>2. Sound \/ \E kind \in Faults : Strike(kind)
    BY <1>8 DEF Transform, Strike
  <2> QED
    BY <1>8, <2>1, <2>2, BuildsTyped, StepFailsTyped, Names DEF Transform
<1>9. ASSUME NEW r \in Runs, Validate(r) PROVE Typed'
  <2>1. run[r].data \in Origin
    BY <1>7, <1>9 DEF Validate, Executes, At, Raw, Valid
  <2>2. CASE /\ run' = [run EXCEPT ![r].out = run[r].data, ![r].pc = "rows", ![r].row = 1]
             /\ Sound /\ UNCHANGED <<tables, executed>>
    <3> DEFINE new == [run[r] EXCEPT !.out = run[r].data, !.pc = "rows", !.row = 1]
    <3>1. 1 \in 1..InvalidRows + 1
      BY PipelineAssumption
    <3>2. new \in RunRecord /\ HasFrames(new)
      BY <1>0, <2>1, <3>1, Names DEF RunRecord, HasFrames
    <3>3. run' = [run EXCEPT ![r] = new]
      BY <2>2
    <3> HIDE DEF new
    <3> QED
      BY <1>0, <2>2, <3>2, <3>3, RunStep, FaultStep, SameTables DEF Typed
  <2>3. CASE Strike("step") /\ StepFails(r)
    BY <2>3, StepFailsTyped DEF Strike
  <2> QED
    BY <1>9, <2>2, <2>3 DEF Validate
<1>10. ASSUME NEW r \in Runs, QuarantineRow(r) PROVE Typed'
  <2>1. run[r].data \in Origin /\ run[r].out \in Origin
    BY <1>0, <1>7, <1>10, Names DEF QuarantineRow, At, HasFrames
  <2>2. CASE (Sound \/ Strike("quarantine")) /\ Builds(r, run[r].out, "save")
    BY <2>1, <2>2, BuildsTyped, Names DEF Strike
  <2>3. CASE /\ RowsLeft(r) /\ Sound
             /\ quarantined' = [quarantined EXCEPT ![r] =
                  Append(@, [row |-> run[r].row, origin |-> run[r].data])]
             /\ run' = [run EXCEPT ![r].row = @ + 1]
             /\ UNCHANGED <<checkpoint, staged, announced, executed>>
    <3> DEFINE n == run[r].row + 1
               new == [run[r] EXCEPT !.row = n]
               entry == [row |-> run[r].row, origin |-> run[r].data]
    <3>1. run[r].row \in 1..InvalidRows /\ n \in 1..InvalidRows + 1
      BY <1>0, <2>3, PipelineAssumption DEF RunRecord, RowsLeft
    <3>2. run' = [run EXCEPT ![r] = new]
      BY <2>3
    <3>3. entry \in Rejected
      BY <2>1, <3>1 DEF Rejected
    <3> HIDE DEF n
    <3>4. new \in RunRecord /\ HasFrames(new)
      BY <1>0, <3>1 DEF RunRecord, HasFrames
    <3>5. quarantined' = [quarantined EXCEPT ![r] = Append(@, entry)]
      BY <2>3
    <3> HIDE DEF new, entry
    <3>6. TablesTyped'
      BY <1>0, <2>3, <3>3, <3>5 DEF TablesTyped
    <3> QED
      BY <1>0, <2>3, <3>2, <3>4, <3>6, RunStep, FaultStep, SameTables DEF Typed
  <2> QED
    BY <1>10, <2>2, <2>3 DEF QuarantineRow
<1>11. ASSUME NEW r \in Runs, StageFile(r) PROVE Typed'
  <2>1. run[r].data \in Origin
    BY <1>7, <1>11, Names DEF StageFile, Executes, At
  <2>2. Sound \/ \E kind \in Faults : Strike(kind)
    BY <1>11 DEF StageFile, Strike
  <2> QED
    BY <1>11, <2>1, <2>2, BuildsTyped, StepFailsTyped, Names DEF StageFile
(* A part of staged_ingestion_data that goes on to another. *)
<1>12. ASSUME NEW r \in Runs, NEW pc \in Building \cup {"returned"},
              run[r].pc \in Building, run' = [run EXCEPT ![r].pc = pc]
       PROVE  RunTyped'
  <2> DEFINE new == [run[r] EXCEPT !.pc = pc]
  <2>1. new \in RunRecord /\ HasFrames(new)
    BY <1>0, <1>12, RecordUpdate, Names
  <2>2. run' = [run EXCEPT ![r] = new]
    BY <1>12
  <2> HIDE DEF new
  <2> QED
    BY <1>0, <2>1, <2>2, RunStep
<1>13. ASSUME NEW r \in Runs, NEW store \in {"pg", "sqlite"}, Insert(r, store),
              run[r].at = Staged
       PROVE  staged' \in [Runs -> Seq(Insertion)]
  <2> DEFINE entry == [store |-> store, origin |-> run[r].data]
  <2>1. entry \in Insertion
    BY <1>7, <1>13, Names DEF Insertion
  <2>2. staged' = [staged EXCEPT ![r] = Append(@, entry)]
    BY <1>13 DEF Insert
  <2> HIDE DEF entry
  <2> QED
    BY <1>0, <2>1, <2>2 DEF TablesTyped
<1>14. ASSUME NEW r \in Runs, StageDb(r) PROVE Typed'
  <2>1. Sound \/ \E kind \in Faults : Strike(kind)
    BY <1>14 DEF StageDb, Strike
  <2>2. run[r].pc \in Building /\ run[r].at = Staged
    BY <1>14, Names DEF StageDb, At
  <2>3. RunTyped'
    BY <1>12, <1>14, <2>2, Names DEF StageDb, AfterPg
  <2>4. TablesTyped'
    BY <1>0, <1>13, <1>14, <2>2 DEF StageDb, TablesTyped
  <2> QED
    BY <1>0, <1>14, <2>1, <2>3, <2>4, FaultStep, SameTables DEF Typed, StageDb
<1>15. ASSUME NEW r \in Runs, StageFallback(r) PROVE Typed'
  <2>1. Sound \/ \E kind \in Faults : Strike(kind)
    BY <1>15 DEF StageFallback, Strike
  <2>2. run[r].pc \in Building /\ run[r].at = Staged
    BY <1>15, Names DEF StageFallback, At
  <2>3. RunTyped'
    BY <1>12, <1>15, <2>2, Names DEF StageFallback
  <2>4. TablesTyped'
    BY <1>0, <1>13, <1>15, <2>2 DEF StageFallback, TablesTyped
  <2> QED
    BY <1>0, <1>15, <2>1, <2>3, <2>4, FaultStep, SameTables DEF Typed, StageFallback
<1>16. ASSUME NEW r \in Runs, Announce(r) PROVE Typed'
  <2>1. Sound \/ \E kind \in Faults : Strike(kind)
    BY <1>16 DEF Announce, Strike
  <2>2. RunTyped'
    BY <1>12, <1>16, Names DEF Announce, At
  <2>3. TablesTyped'
    BY <1>0, <1>16 DEF Announce, TablesTyped
  <2> QED
    BY <1>0, <1>16, <2>1, <2>2, <2>3, FaultStep, SameTables DEF Typed, Announce
<1>17. ASSUME NEW r \in Runs, SaveCheckpoint(r) PROVE Typed'
  <2>1. Sound \/ \E kind \in Faults : Strike(kind)
    BY <1>17 DEF SaveCheckpoint, Strike
  <2>2. RunTyped'
    BY <1>12, <1>17, Names DEF SaveCheckpoint
  <2>3. run[r].out \in Origin /\ run[r].at \in Assets
    BY <1>0, <1>17, Names DEF SaveCheckpoint, HasFrames, RunRecord
  <2>4. checkpoint' \in [Runs -> [Assets -> Origin \cup {None}]]
    <3>1. CASE checkpoint' = [checkpoint EXCEPT ![r][run[r].at] = run[r].out]
      BY <1>0, <2>3, <3>1, Names DEF TablesTyped
    <3>2. CASE UNCHANGED checkpoint
      BY <1>0, <3>2 DEF TablesTyped
    <3>3. CASE checkpoint' = [checkpoint EXCEPT ![r][run[r].at] = None]
      BY <1>0, <2>3, <3>3, Names DEF TablesTyped
    <3> QED
      BY <1>17, <3>1, <3>2, <3>3 DEF SaveCheckpoint
  <2>6. TablesTyped'
    BY <1>0, <1>17, <2>4 DEF SaveCheckpoint, TablesTyped
  <2>5. ExecutedTyped'
    BY <1>0, <1>17, <2>3 DEF SaveCheckpoint, ExecutedTyped
  <2> QED
    BY <1>0, <2>1, <2>2, <2>5, <2>6, FaultStep DEF Typed
<1>18. ASSUME NEW r \in Runs, Return(r) PROVE Typed'
  <2>1. CASE Sound /\ run' = [run EXCEPT ![r] = Passed(@)]
             /\ UNCHANGED <<tables, executed>>
    <3>1. Passed(run[r]) \in RunRecord /\ HasFrames(Passed(run[r]))
      BY <1>0, <1>18, PassedTyped DEF Return
    <3> QED
      BY <1>0, <2>1, <3>1, RunStep, FaultStep, SameTables DEF Typed
  <2>2. CASE Strike("output") /\ StepFails(r)
    BY <2>2, StepFailsTyped DEF Strike
  <2> QED
    BY <1>18, <2>1, <2>2 DEF Return
<1>19. ASSUME NEW r \in Runs, Check(r) PROVE Typed'
  <2>1. Sound \/ \E kind \in Faults : Strike(kind)
    BY <1>19 DEF Check, Strike
  <2>2. CASE run' = [run EXCEPT ![r].checked = TRUE]
    <3> DEFINE new == [run[r] EXCEPT !.checked = TRUE]
    <3>1. new \in RunRecord /\ HasFrames(new)
      BY <1>0 DEF RunRecord, HasFrames
    <3>2. run' = [run EXCEPT ![r] = new]
      BY <2>2
    <3> HIDE DEF new
    <3> QED
      BY <1>0, <1>19, <2>1, <3>1, <3>2, RunStep, FaultStep, SameTables DEF Typed, Check
  <2>3. CASE run' = [run EXCEPT ![r].status = "failed"]
    <3> DEFINE new == [run[r] EXCEPT !.status = "failed"]
    <3>1. new \in RunRecord /\ HasFrames(new)
      BY <1>0, RecordUpdate, Names
    <3>2. run' = [run EXCEPT ![r] = new]
      BY <2>3
    <3> HIDE DEF new
    <3> QED
      BY <1>0, <1>19, <2>1, <3>1, <3>2, RunStep, FaultStep, SameTables DEF Typed, Check
  <2> QED
    BY <1>19, <2>2, <2>3 DEF Check
<1>20. ASSUME NEW r \in Runs, Complete(r) PROVE Typed'
  <2> DEFINE new == [run[r] EXCEPT !.status = "completed"]
  <2>1. new \in RunRecord /\ HasFrames(new)
    BY <1>0, RecordUpdate, Names
  <2>2. run' = [run EXCEPT ![r] = new]
    BY <1>20 DEF Complete
  <2> HIDE DEF new
  <2> QED
    BY <1>0, <1>20, <2>1, <2>2, RunStep, FaultStep, SameTables
    DEF Complete, Typed, Sound
<1> QED
  BY <1>1, <1>2, <1>3, <1>4, <1>5, <1>6, <1>8, <1>9, <1>10, <1>11, <1>14,
     <1>15, <1>16, <1>17, <1>18, <1>19, <1>20, <1>21 DEF Next, Step

(* The variables keep their types. *)
THEOREM TypeCorrect == Spec => []TypeOK
<1> DEFINE Set == production \in BOOLEAN /\ allow_synthetic_data \in {"unset", "yes", "no"}
<1>1. Typed /\ Set => TypeOK
  BY DEF Typed, RunTyped, TablesTyped, ExecutedTyped, FaultsTyped, TypeOK
<1>2. Init => Set
  BY DEF Init
<1>3. Set /\ [Next]_vars => Set'
  BY DEF Next, vars, settings
<1> QED
  BY <1>1, <1>2, <1>3, InitTyped, NextTyped, PTL DEF Spec
-----------------------------------------------------------------------------
(* Counting insertions and executions *)

Due(condition) == IF condition THEN 1 ELSE 0

(* A run begins and fails only between assets.                             *)
FailedQuiet(r) == run[r].status \in {"new", "failed"} => run[r].pc \notin Building

(* An asset that is being executed has no checkpoint, if all could be read.*)
Working(r) ==
  Struck("unreadable") = 0 =>
    /\ run[r].pc # "unread"
    /\ run[r].pc \in Building => checkpoint[r][run[r].at] = None

(* The run is not to execute the asset again, unless its checkpoint cannot *)
(* be read.                                                                *)
Resumes(r, a) ==
  /\ checkpoint[r][a] # None
  /\ ~(run[r].at = a /\ run[r].pc \in Building \cup {"unread"})

(* The run has inserted its batch and will not do so again, unless the     *)
(* checkpoint is lost that it is about to save.                            *)
PastInsertion(r) ==
  \/ Resumes(r, Staged)
  \/ run[r].at = Staged /\ run[r].pc \in {"announce", "save"}

Lost == Struck("checkpoint") + Struck("unreadable")

Insertions(r) ==
  Len(staged[r]) <= Lost + Struck("ambiguous") + Due(PastInsertion(r))

Executions(r) ==
  \A a \in Assets \ {Raw} : executed[r][a] <= Lost + Due(Resumes(r, a))

Counts(r) == Working(r) /\ FailedQuiet(r) /\ Insertions(r) /\ Executions(r)

Inv == Typed /\ \A r \in Runs : Counts(r)

Counted == {"checkpoint", "unreadable", "ambiguous"}

(* Faults are never taken back. *)
Grows ==
  \A kind \in Counted :
    /\ Struck(kind) \in Nat /\ Struck(kind)' \in Nat
    /\ Struck(kind) <= Struck(kind)'

LEMMA FaultsGrow ==
  ASSUME FaultsTyped, FaultsTyped', Sound \/ \E kind \in Faults : Strike(kind)
  PROVE  Grows
<1>1. \A f \in Faults : faults[f] \in Nat /\ faults'[f] \in Nat
  BY PipelineAssumption DEF FaultsTyped
<1>2. \A f \in Faults : faults[f] <= faults'[f]
  BY <1>1 DEF Sound, Strike, FaultsTyped
<1> QED
  BY <1>1, <1>2 DEF Grows, Struck, Counted

(* A loss is counted. *)
LEMMA LossCounted ==
  ASSUME FaultsTyped, NEW kind \in Counted, Strike(kind)
  PROVE  Struck(kind)' = Struck(kind) + 1
BY DEF Strike, Struck, FaultsTyped, Counted

LEMMA LostGrows ==
  ASSUME Grows
  PROVE  /\ Lost \in Nat /\ Lost' \in Nat /\ Lost <= Lost'
         /\ Struck("ambiguous") \in Nat /\ Struck("ambiguous")' \in Nat
         /\ Struck("ambiguous") <= Struck("ambiguous")'
         /\ Struck("unreadable")' = 0 => Struck("unreadable") = 0
BY DEF Grows, Lost, Counted

LEMMA CountsTyped ==
  ASSUME Typed, NEW r \in Runs
  PROVE  /\ Len(staged[r]) \in Nat /\ \A a \in Assets : executed[r][a] \in Nat
         /\ run[r] \in RunRecord /\ run[r].at \in Assets
BY DEF Typed, TablesTyped, ExecutedTyped, RunTyped, RunRecord

(* The counts hold if nothing was inserted or executed and what was done   *)
(* still shows.                                                            *)
LEMMA SameCounts ==
  ASSUME Typed, Typed', NEW r \in Runs, Insertions(r), Executions(r), Grows,
         PastInsertion(r) => PastInsertion(r)',
         \A a \in Assets : Resumes(r, a) => Resumes(r, a)',
         staged'[r] = staged[r],
         \A a \in Assets \ {Raw} : executed'[r][a] = executed[r][a]
  PROVE  Insertions(r)' /\ Executions(r)'
<1>1. Insertions(r)'
  BY LostGrows, CountsTyped DEF Insertions, Due
<1>2. Executions(r)'
  BY LostGrows, CountsTyped DEF Executions, Due
<1> QED
  BY <1>1, <1>2

(* A step outside of the assets: nothing is inserted, saved or executed.   *)
LEMMA QuietStep ==
  ASSUME Typed, Typed', NEW r \in Runs, Counts(r), Grows,
         run[r].pc \notin Building,
         \/ run'[r].pc \notin Building \cup {"unread"}
         \/ run'[r].pc = run[r].pc /\ run'[r].at = run[r].at,
         checkpoint'[r] = checkpoint[r], staged'[r] = staged[r],
         \A a \in Assets \ {Raw} : executed'[r][a] = executed[r][a]
  PROVE  Counts(r)'
<1>1. Working(r)' /\ FailedQuiet(r)'
  BY LostGrows DEF Working, FailedQuiet, Counts
<1>2. \A a \in Assets : Resumes(r, a) => Resumes(r, a)'
  BY DEF Resumes
<1>3. PastInsertion(r) => PastInsertion(r)'
  BY <1>2, Names DEF PastInsertion
<1> QED
  BY <1>1, <1>2, <1>3, SameCounts DEF Counts

(* A checkpoint that cannot be read is counted. *)
LEMMA UnreadStep ==
  ASSUME Typed, Typed', NEW r \in Runs, Counts(r), Grows, Unreadable(r)
  PROVE  Counts(r)'
<1>1. /\ run'[r] = [run[r] EXCEPT !.pc = "unread"] /\ run[r].status = "running"
      /\ run[r] \in RunRecord /\ UNCHANGED <<staged, executed>>
  BY DEF Unreadable, Typed, RunTyped, tables
<1>2. run'[r].pc = "unread" /\ run'[r].status = "running"
  BY <1>1 DEF RunRecord
<1>3. Struck("unreadable")' = Struck("unreadable") + 1
  BY LossCounted DEF Unreadable, Typed, Counted
<1>4. Lost + 1 <= Lost' /\ Struck("unreadable")' # 0
  BY <1>3 DEF Lost, Grows, Counted
<1>5. Working(r)' /\ FailedQuiet(r)'
  BY <1>2, <1>4, Names DEF Working, FailedQuiet
<1>6. Insertions(r)'
  BY <1>1, <1>4, LostGrows, CountsTyped DEF Counts, Insertions, Due
<1>7. Executions(r)'
  BY <1>1, <1>4, LostGrows, CountsTyped DEF Counts, Executions, Due
<1> QED
  BY <1>5, <1>6, <1>7 DEF Counts

(* A step of another run, or one that only changes the status of this one  *)
(* from running to something else than failed.                             *)
LEMMA SameStep ==
  ASSUME Typed, Typed', NEW r \in Runs, Counts(r), Grows,
         run'[r].pc = run[r].pc, run'[r].at = run[r].at,
         run'[r].status = run[r].status \/ run'[r].status = "dead",
         checkpoint'[r] = checkpoint[r], staged'[r] = staged[r],
         executed'[r] = executed[r]
  PROVE  Counts(r)'
<1>1. Working(r)' /\ FailedQuiet(r)'
  BY LostGrows DEF Working, FailedQuiet, Counts
<1>2. \A a \in Assets : Resumes(r, a) => Resumes(r, a)'
  BY DEF Resumes
<1>3. PastInsertion(r) => PastInsertion(r)'
  BY <1>2, Names DEF PastInsertion
<1> QED
  BY <1>1, <1>2, <1>3, SameCounts DEF Counts

(* An asset that executes has no checkpoint, or could not read it.         *)
Executing(r) ==
  \/ checkpoint[r][run[r].at] = None
  \/ run[r].pc \in Building \cup {"unread"}

(* A step inside an asset that inserts nothing. *)
LEMMA WorkStep ==
  ASSUME Typed, Typed', NEW r \in Runs, Counts(r), Grows,
         run'[r].pc \in Building, run'[r].at = run[r].at,
         run'[r].status = "running",
         run[r].at = Staged /\ run[r].pc = "announce" => run'[r].pc = "save",
         run[r].pc # "save", Executing(r),
         checkpoint'[r] = checkpoint[r], staged'[r] = staged[r],
         executed'[r] = executed[r]
  PROVE  Counts(r)'
<1>1. Working(r)' /\ FailedQuiet(r)'
  BY LostGrows, Names DEF Working, FailedQuiet, Counts, Executing
<1>2. \A a \in Assets : Resumes(r, a) => Resumes(r, a)'
  BY DEF Resumes, Executing
<1>3. PastInsertion(r) => PastInsertion(r)'
  BY <1>2, Names DEF PastInsertion
<1> QED
  BY <1>1, <1>2, <1>3, SameCounts DEF Counts

(* An insertion: the first, or one whose answer is lost. *)
LEMMA InsertStep ==
  ASSUME Typed, Typed', NEW r \in Runs, NEW store, Counts(r), Grows,
         Insert(r, store), run[r].at = Staged, run[r].pc \in {"db", "fallback"},
         run'[r].at = Staged, run'[r].status = "running",
         \/ run'[r].pc = "announce"
         \/ run'[r].pc = "fallback" /\ Strike("ambiguous"),
         checkpoint'[r] = checkpoint[r], executed'[r] = executed[r]
  PROVE  Counts(r)'
<1>1. run[r].pc \in Building /\ run'[r].pc \in Building
  BY Names
<1>2. Working(r)' /\ FailedQuiet(r)'
  BY <1>1, LostGrows, Names DEF Working, FailedQuiet, Counts
<1>3. Len(staged'[r]) = Len(staged[r]) + 1
  BY DEF Typed, TablesTyped, Insert
<1>4. ~PastInsertion(r)
  BY <1>1 DEF PastInsertion, Resumes
<1>5. Insertions(r)'
  <2>1. CASE run'[r].pc = "announce"
    <3>1. PastInsertion(r)'
      BY <2>1 DEF PastInsertion
    <3> QED
      BY <1>3, <1>4, <3>1, LostGrows, CountsTyped DEF Counts, Insertions, Due
  <2>2. CASE Strike("ambiguous")
    <3>1. Struck("ambiguous")' = Struck("ambiguous") + 1
      BY <2>2, LossCounted DEF Typed, Counted
    <3> QED
      BY <1>3, <1>4, <3>1, LostGrows, CountsTyped DEF Counts, Insertions, Due
  <2> QED
    BY <2>1, <2>2
<1>6. \A a \in Assets : Resumes(r, a) => Resumes(r, a)'
  BY <1>1 DEF Resumes
<1>7. Executions(r)'
  BY <1>6, LostGrows, CountsTyped DEF Counts, Executions, Due
<1> QED
  BY <1>2, <1>5, <1>7 DEF Counts

(* save_checkpoint: it succeeds, or the loss is counted. *)
LEMMA SaveStep ==
  ASSUME Typed, Typed', NEW r \in Runs, Counts(r), Grows, SaveCheckpoint(r)
  PROVE  Counts(r)'
<1>1. /\ run[r].at \in Assets /\ run[r].out \in Origin
      /\ run[r] \in RunRecord /\ run[r].status = "running" /\ run[r].pc = "save"
  BY Names DEF SaveCheckpoint, Typed, RunTyped, RunRecord, HasFrames
<1>2. run'[r] = [run[r] EXCEPT !.pc = "returned"]
  BY DEF SaveCheckpoint, Typed, RunTyped
<1>3. /\ run'[r].pc = "returned" /\ run'[r].at = run[r].at
      /\ run'[r].status = "running"
  BY <1>1, <1>2 DEF RunRecord
<1>4. Working(r)' /\ FailedQuiet(r)'
  BY <1>3, Names DEF Working, FailedQuiet
<1>5. staged'[r] = staged[r]
  BY DEF SaveCheckpoint
<1>6. \A a \in Assets :
        executed'[r][a] = executed[r][a] + (IF a = run[r].at THEN 1 ELSE 0)
  BY <1>1, CountsTyped DEF SaveCheckpoint, Typed, ExecutedTyped
<1>7. CASE Sound /\ checkpoint' = [checkpoint EXCEPT ![r][run[r].at] = run[r].out]
  <2>1. \A a \in Assets :
          checkpoint'[r][a] = IF a = run[r].at THEN run[r].out ELSE checkpoint[r][a]
    BY <1>1, <1>7 DEF Typed, TablesTyped
  <2>2. run[r].out # None
    BY <1>1, PipelineAssumption DEF Origin
  <2>3. \A a \in Assets :
          /\ Resumes(r, a) => Resumes(r, a)'
          /\ a = run[r].at => ~Resumes(r, a) /\ Resumes(r, a)'
    BY <1>1, <1>3, <2>1, <2>2, Names DEF Resumes
  <2>4. PastInsertion(r) => PastInsertion(r)'
    BY <1>1, <2>3, Names DEF PastInsertion
  <2>5. Insertions(r)'
    BY <1>5, <2>4, LostGrows, CountsTyped DEF Counts, Insertions, Due
  <2>6. Executions(r)'
    BY <1>6, <2>3, LostGrows, CountsTyped DEF Counts, Executions, Due
  <2> QED
    BY <1>4, <2>5, <2>6 DEF Counts
<1>8. CASE Strike("checkpoint")
  <2>1. Struck("checkpoint")' = Struck("checkpoint") + 1
    BY <1>8, LossCounted DEF Typed, Counted
  <2>2. Lost + 1 <= Lost'
    BY <2>1 DEF Lost, Grows, Counted
  <2>3. Insertions(r)'
    BY <1>5, <2>2, LostGrows, CountsTyped DEF Counts, Insertions, Due
  <2>4. ~Resumes(r, run[r].at)
    BY <1>1, Names DEF Resumes
  <2>5. Executions(r)'
    BY <1>6, <2>2, <2>4, LostGrows, CountsTyped DEF Counts, Executions, Due
  <2> QED
    BY <1>4, <2>3, <2>5 DEF Counts
<1> QED
  BY <1>7, <1>8 DEF SaveCheckpoint

LEMMA InitCounts == Init => \A r \in Runs : Counts(r)
<1> SUFFICES ASSUME Init, NEW r \in Runs PROVE Counts(r)
  OBVIOUS
<1>1. /\ run[r].pc = "ready" /\ run[r].status = "new"
      /\ staged[r] = <<>>
      /\ \A a \in Assets : checkpoint[r][a] = None /\ executed[r][a] = 0
  BY DEF Init, Fresh
<1>2. \A kind \in Counted : Struck(kind) = 0
  BY DEF Init, Struck
<1> QED
  BY <1>1, <1>2, Names
  DEF Counts, Working, FailedQuiet, Insertions, Executions, PastInsertion, Resumes,
    Due, Lost, Counted

(* Only the run that steps changes. *)
LEMMA OtherRuns ==
  ASSUME Typed, NEW r \in Runs, NEW q \in Runs, r # q, Step(r) \/ Retry(r)
  PROVE  /\ run'[q] = run[q] /\ checkpoint'[q] = checkpoint[q]
         /\ staged'[q] = staged[q] /\ quarantined'[q] = quarantined[q]
         /\ announced'[q] = announced[q] /\ executed'[q] = executed[q]
<1>1. run'[q] = run[q]
  BY DEF Step, Retry, Begin, Reuse, Unreadable, LoadRaw, Transform, Validate,
    QuarantineRow, StageFile, StageDb, StageFallback, Announce,
    SaveCheckpoint, Return, Check, Complete, StepFails, Builds, Typed, RunTyped
<1>2. checkpoint'[q] = checkpoint[q] /\ staged'[q] = staged[q]
  BY DEF Step, Retry, Begin, Reuse, Unreadable, LoadRaw, Transform, Validate,
    QuarantineRow, StageFile, StageDb, StageFallback, Announce,
    SaveCheckpoint, Return, Check, Complete, StepFails, Builds, Insert,
    tables, Typed, TablesTyped
<1>3. quarantined'[q] = quarantined[q] /\ announced'[q] = announced[q]
  BY DEF Step, Retry, Begin, Reuse, Unreadable, LoadRaw, Transform, Validate,
    QuarantineRow, StageFile, StageDb, StageFallback, Announce,
    SaveCheckpoint, Return, Check, Complete, StepFails, Builds,
    tables, Typed, TablesTyped
<1>4. executed'[q] = executed[q]
  BY DEF Step, Retry, Begin, Reuse, Unreadable, LoadRaw, Transform, Validate,
    QuarantineRow, StageFile, StageDb, StageFallback, Announce,
    SaveCheckpoint, Return, Check, Complete, StepFails, Builds,
    Typed, ExecutedTyped
<1> QED
  BY <1>1, <1>2, <1>3, <1>4

LEMMA NextCounts == Inv /\ [Next]_vars => \A q \in Runs : Counts(q)'
<1> SUFFICES ASSUME Inv, [Next]_vars, NEW q \in Runs PROVE Counts(q)'
  OBVIOUS
<1>0. /\ Typed /\ Typed' /\ Counts(q)
      /\ \A r \in Runs : run[r] \in RunRecord
  BY NextTyped DEF Inv, Typed, RunTyped
<1>1. CASE UNCHANGED vars
  <2>1. Grows
    BY <1>0, <1>1, FaultsGrow DEF vars, Typed, Sound
  <2> QED
    BY <1>0, <1>1, <2>1, SameStep DEF vars
<1>2. CASE Crash
  <2>1. Grows
    BY <1>0, <1>2, FaultsGrow DEF Crash, Typed, Strike
  <2>2. \/ run'[q] = run[q]
        \/ run'[q] = [run[q] EXCEPT !.status = "dead"]
    BY <1>2 DEF Crash
  <2>3. /\ run'[q].pc = run[q].pc /\ run'[q].at = run[q].at
        /\ run'[q].status = run[q].status \/ run'[q].status = "dead"
    BY <1>0, <2>2 DEF RunRecord
  <2> QED
    BY <1>0, <1>2, <2>1, <2>3, SameStep DEF Crash, tables
<1>3. ASSUME NEW r \in Runs, Step(r) \/ Retry(r) PROVE Grows
  <2>1. Sound \/ \E kind \in Faults : Strike(kind)
    BY <1>3 DEF Step, Retry, Begin, Reuse, Unreadable, LoadRaw, Transform, Validate,
      QuarantineRow, StageFile, StageDb, StageFallback, Announce,
      SaveCheckpoint, Return, Check, Complete, Sound, Strike
  <2> QED
    BY <1>0, <2>1, FaultsGrow DEF Typed
<1>4. ASSUME NEW r \in Runs, r # q, Step(r) \/ Retry(r) PROVE Counts(q)'
  BY <1>0, <1>3, <1>4, OtherRuns, SameStep
(* What the run itself does: steps between assets, *)
<1>5. ASSUME Step(q) \/ Retry(q), run[q].pc \notin Building,
             \/ run'[q].pc \notin Building \cup {"unread"}
             \/ run'[q].pc = run[q].pc /\ run'[q].at = run[q].at,
             UNCHANGED <<checkpoint, staged>>,
             \A a \in Assets \ {Raw} : executed'[q][a] = executed[q][a]
      PROVE  Counts(q)'
  BY <1>0, <1>3, <1>5, QuietStep
<1>6. CASE Begin(q) \/ Retry(q)
  <2>1. run[q].pc \notin Building
    BY <1>0, <1>6 DEF Begin, Retry, Counts, FailedQuiet
  <2>2. run'[q].pc = "ready"
    BY <1>0, <1>6 DEF Begin, Retry, Fresh, Typed, RunTyped
  <2>3. Step(q) \/ Retry(q)
    BY <1>6 DEF Step
  <2>4. UNCHANGED <<tables, executed>>
    BY <1>6 DEF Begin, Retry
  <2> QED
    BY <1>5, <2>1, <2>2, <2>3, <2>4, Names DEF tables
<1>7. ASSUME Step(q), StepFails(q), run[q].pc \notin Building PROVE Counts(q)'
  <2>1. \/ run'[q].pc \notin Building \cup {"unread"}
        \/ run'[q].pc = run[q].pc /\ run'[q].at = run[q].at
    BY <1>0, <1>7, Names DEF StepFails, AfterFailure, Typed, RunTyped, RunRecord
  <2> QED
    BY <1>5, <1>7, <2>1 DEF StepFails, tables
<1>8. CASE Reuse(q)
  <2>1. run[q].pc \notin Building /\ run'[q].pc \notin Building \cup {"unread"}
    BY <1>0, <1>8, Names DEF Reuse, Typed, RunTyped, RunRecord
  <2> QED
    BY <1>5, <1>8, <2>1 DEF Reuse, tables, Step
<1>9. CASE Return(q)
  <2>1. run[q].pc \notin Building
    BY <1>9, Names DEF Return
  <2>2. CASE StepFails(q)
    BY <1>7, <1>9, <2>1, <2>2 DEF Step
  <2>3. CASE run' = [run EXCEPT ![q] = Passed(@)] /\ UNCHANGED <<tables, executed>>
    <3>1. run'[q].pc \notin Building \cup {"unread"}
      BY <1>0, <2>3, Names DEF Passed, Typed, RunTyped, RunRecord
    <3> QED
      BY <1>5, <1>9, <2>1, <2>3, <3>1 DEF tables, Step
  <2> QED
    BY <1>9, <2>2, <2>3 DEF Return
<1>10. CASE Check(q) \/ Complete(q)
  <2>1. run[q].pc \notin Building /\ run'[q].pc = run[q].pc /\ run'[q].at = run[q].at
    BY <1>0, <1>10, Names DEF Check, Complete, At, Typed, RunTyped, RunRecord
  <2> QED
    BY <1>5, <1>10, <2>1 DEF Check, Complete, tables, Step
(* steps inside an asset, *)
<1>11. ASSUME Step(q), run'[q].pc \in Building, run'[q].at = run[q].at,
              run'[q].status = "running",
              run[q].at = Staged /\ run[q].pc = "announce" => run'[q].pc = "save",
              run[q].pc # "save", Executing(q),
              UNCHANGED <<checkpoint, staged, executed>>
       PROVE  Counts(q)'
  BY <1>0, <1>3, <1>11, WorkStep
<1>12. ASSUME NEW frame, NEW pc \in Building, Step(q), Builds(q, frame, pc),
              run[q].pc \in {"ready", "unread", "rows"}, run[q].status = "running",
              Executing(q)
       PROVE  Counts(q)'
  <2>1. /\ run'[q].pc = pc /\ run'[q].at = run[q].at /\ run'[q].status = "running"
    BY <1>0, <1>12 DEF Builds, Typed, RunTyped, RunRecord
  <2> QED
    BY <1>11, <1>12, <2>1 DEF Builds, tables
<1>13. CASE LoadRaw(q)
  <2>1. /\ run[q].pc \in {"ready", "unread"} /\ run[q].status = "running"
        /\ Executing(q) /\ run[q].pc \notin Building
    BY <1>13, Names DEF LoadRaw, Executes, Executing, At, Reusable
  <2>2. CASE Builds(q, "synthetic", "save")
    BY <1>12, <1>13, <2>1, <2>2, Names DEF Step
  <2>3. CASE StepFails(q)
    BY <1>7, <1>13, <2>1, <2>3 DEF Step
  <2>4. CASE /\ run' = [run EXCEPT ![q].out = "file", ![q].pc = "returned"]
             /\ executed' = [executed EXCEPT ![q][Raw] = @ + 1]
             /\ UNCHANGED tables
    <3>1. run'[q].pc \notin Building \cup {"unread"}
      BY <1>0, <2>4, Names DEF Typed, RunTyped, RunRecord
    <3>2. \A a \in Assets \ {Raw} : executed'[q][a] = executed[q][a]
      BY <1>0, <2>4 DEF Typed, ExecutedTyped
    <3> QED
      BY <1>5, <1>13, <2>1, <2>4, <3>1, <3>2 DEF tables, Step
  <2> QED
    BY <1>13, <2>2, <2>3, <2>4 DEF LoadRaw
<1>14. CASE Transform(q) \/ StageFile(q)
  <2>1. /\ run[q].pc \in {"ready", "unread"} /\ run[q].status = "running"
        /\ Executing(q) /\ run[q].pc \notin Building
    BY <1>14, Names DEF Transform, StageFile, Executes, Executing, At, Reusable
  <2>2. CASE \E pc \in {"save", "db"} : Builds(q, run[q].data, pc)
    BY <1>12, <1>14, <2>1, <2>2, Names DEF Step
  <2>3. CASE StepFails(q)
    BY <1>7, <1>14, <2>1, <2>3 DEF Step
  <2> QED
    BY <1>14, <2>2, <2>3 DEF Transform, StageFile
<1>15. CASE Validate(q)
  <2>1. /\ run[q].pc \in {"ready", "unread"} /\ run[q].status = "running"
        /\ Executing(q) /\ run[q].pc \notin Building
    BY <1>15, Names DEF Validate, Executes, Executing, At, Reusable
  <2>2. CASE StepFails(q)
    BY <1>7, <1>15, <2>1, <2>2 DEF Step
  <2>3. CASE /\ run' = [run EXCEPT ![q].out = run[q].data, ![q].pc = "rows", ![q].row = 1]
             /\ UNCHANGED <<tables, executed>>
    <3>1. /\ run'[q].pc = "rows" /\ run'[q].at = run[q].at
          /\ run'[q].status = "running"
      BY <1>0, <2>1, <2>3 DEF Typed, RunTyped, RunRecord
    <3> QED
      BY <1>11, <1>15, <2>1, <2>3, <3>1, Names DEF tables, Step
  <2> QED
    BY <1>15, <2>2, <2>3 DEF Validate
<1>16. CASE QuarantineRow(q)
  <2>1. /\ run[q].pc = "rows" /\ run[q].status = "running" /\ run[q].at = Valid
        /\ Executing(q)
    BY <1>0, <1>16, Names DEF QuarantineRow, At, Executing
  <2>2. CASE Builds(q, run[q].out, "save")
    BY <1>12, <1>16, <2>1, <2>2, Names DEF Step
  <2>3. CASE /\ run' = [run EXCEPT ![q].row = @ + 1]
             /\ UNCHANGED <<checkpoint, staged, announced, executed>>
    <3>1. /\ run'[q].pc = "rows" /\ run'[q].at = run[q].at
          /\ run'[q].status = "running"
      BY <1>0, <2>1, <2>3 DEF Typed, RunTyped, RunRecord
    <3> QED
      BY <1>11, <1>16, <2>1, <2>3, <3>1, Names DEF Step
  <2> QED
    BY <1>16, <2>2, <2>3 DEF QuarantineRow
(* the insertions and the announcement, *)
<1>17. ASSUME NEW pc, run' = [run EXCEPT ![q].pc = pc]
       PROVE  run'[q].pc = pc /\ run'[q].at = run[q].at
              /\ run'[q].status = run[q].status
  BY <1>0, <1>17 DEF Typed, RunTyped, RunRecord
<1>18. CASE StageDb(q) \/ StageFallback(q)
  <2>1. /\ run[q].pc \in {"db", "fallback"} /\ run[q].status = "running"
        /\ run[q].at = Staged /\ Executing(q)
        /\ UNCHANGED <<checkpoint, executed>>
    BY <1>0, <1>18, Names DEF StageDb, AfterPg, StageFallback, At, Executing
  <2>2. CASE UNCHANGED staged /\ \E pc \in Building : run' = [run EXCEPT ![q].pc = pc]
    BY <1>11, <1>17, <1>18, <2>1, <2>2 DEF Step
  <2>3. CASE \E store \in {"pg", "sqlite"} :
               /\ Insert(q, store)
               /\ \/ run' = [run EXCEPT ![q].pc = "announce"]
                  \/ run' = [run EXCEPT ![q].pc = "fallback"] /\ Strike("ambiguous")
    <3>1. /\ run'[q].at = Staged /\ run'[q].status = "running"
          /\ \/ run'[q].pc = "announce"
             \/ run'[q].pc = "fallback" /\ Strike("ambiguous")
      BY <1>17, <2>1, <2>3
    <3>2. Grows
      BY <1>3, <1>18 DEF Step
    <3>3. checkpoint'[q] = checkpoint[q] /\ executed'[q] = executed[q]
      BY <2>1
    <3>4. PICK store \in {"pg", "sqlite"} : Insert(q, store)
      BY <2>3
    <3> QED
      BY <1>0, <2>1, <3>1, <3>2, <3>3, <3>4, InsertStep
  <2> QED
    BY <1>18, <2>2, <2>3, Names DEF StageDb, AfterPg, StageFallback
<1>19. CASE Announce(q)
  <2>1. /\ run[q].pc = "announce" /\ run[q].status = "running" /\ run[q].at = Staged
        /\ Executing(q)
    BY <1>0, <1>19, Names DEF Announce, At, Executing
  <2>2. /\ run'[q].pc = "save" /\ run'[q].at = run[q].at
        /\ run'[q].status = "running"
    BY <1>17, <1>19, <2>1 DEF Announce
  <2> QED
    BY <1>11, <1>19, <2>1, <2>2, Names DEF Announce, Step
(* and the checkpoint. *)
<1>20. CASE SaveCheckpoint(q) \/ Unreadable(q)
  BY <1>0, <1>3, <1>20, SaveStep, UnreadStep DEF Step
<1> QED
  BY <1>1, <1>2, <1>4, <1>6, <1>8, <1>9, <1>10, <1>13, <1>14, <1>15, <1>16,
     <1>18, <1>19, <1>20 DEF Next, Step

LEMMA Inductive == Spec => []Inv
<1>1. Init => Inv
  BY InitTyped, InitCounts DEF Inv
<1>2. Inv /\ [Next]_vars => Inv'
  BY NextTyped, NextCounts DEF Inv
<1> QED
  BY <1>1, <1>2, PTL DEF Spec

(* However often its steps and the run are retried, a batch is inserted    *)
(* once, but for checkpoints that were lost or could not be read, and lost *)
(* answers of a commit.                                                    *)
THEOREM BatchStagedOnce == Spec => []StagedOnce
<1>1. Inv => StagedOnce
  <2> SUFFICES ASSUME Inv, NEW r \in Runs
               PROVE  Len(staged[r]) <= 1 + Struck("checkpoint") + Struck("unreadable")
                                          + Struck("ambiguous")
    BY DEF StagedOnce
  <2>1. \A kind \in Counted : Struck(kind) \in Nat
    BY PipelineAssumption DEF Inv, Typed, FaultsTyped, Struck
  <2>2. Len(staged[r]) \in Nat
    BY DEF Inv, Typed, TablesTyped
  <2> QED
    BY <2>1, <2>2 DEF Inv, Counts, Insertions, Due, Lost, Counted
<1> QED
  BY <1>1, Inductive, PTL

(* An asset beyond the first is executed to its end once, but for          *)
(* checkpoints that were lost or could not be read: a retry skips what had *)
(* succeeded.                                                              *)
THEOREM RetrySkipsWork == Spec => []WorkNotRepeated
<1>1. Inv => WorkNotRepeated
  <2> SUFFICES ASSUME Inv, NEW r \in Runs, NEW a \in Assets \ {Raw}
               PROVE  executed[r][a] <= 1 + Struck("checkpoint") + Struck("unreadable")
    BY DEF WorkNotRepeated
  <2>1. /\ \A kind \in Counted : Struck(kind) \in Nat
        /\ executed[r][a] \in Nat
    BY PipelineAssumption DEF Inv, Typed, FaultsTyped, ExecutedTyped, Struck
  <2> QED
    BY <2>1 DEF Inv, Counts, Executions, Due, Lost, Counted
<1> QED
  BY <1>1, Inductive, PTL

-----------------------------------------------------------------------------
(* Production *)

(* A run that has touched nothing synthetic. *)
GenuineFrames(r) ==
  /\ run[r].data # "synthetic" /\ run[r].out # "synthetic"
  /\ \A a \in Assets : checkpoint[r][a] # "synthetic"
GenuineTables(r) ==
  /\ \A i \in 1..Len(staged[r]) : staged[r][i].origin = "file"
  /\ \A j \in 1..Len(quarantined[r]) : quarantined[r][j].origin = "file"
Genuine(r) == GenuineFrames(r) /\ GenuineTables(r)

LEMMA NextGenuine ==
  ASSUME ~MayFallBack, Typed, Typed', [Next]_vars,
         NEW q \in Runs, Genuine(q)
  PROVE  Genuine(q)'
<1>0. run[q] \in RunRecord /\ HasFrames(run[q])
  BY DEF Typed, RunTyped
<1>1. CASE UNCHANGED vars
  BY <1>1 DEF vars, Genuine, GenuineFrames, GenuineTables
<1>2. CASE Crash
  <2>1. run'[q].data = run[q].data /\ run'[q].out = run[q].out
    BY <1>0, <1>2 DEF Crash, RunRecord
  <2> QED
    BY <1>2, <2>1 DEF Crash, tables, Genuine, GenuineFrames, GenuineTables
<1>3. ASSUME NEW r \in Runs, r # q, Step(r) \/ Retry(r) PROVE Genuine(q)'
  BY <1>3, OtherRuns DEF Genuine, GenuineFrames, GenuineTables
(* Most steps of the run itself leave the tables alone. *)
<1>4. CASE Begin(q) \/ Retry(q)
  <2>1. run'[q].data = None /\ run'[q].out = None
    BY <1>0, <1>4 DEF Begin, Retry, Fresh, Typed, RunTyped
  <2> QED
    BY <1>4, <2>1, PipelineAssumption
    DEF Begin, Retry, tables, Genuine, GenuineFrames, GenuineTables
<1>5. CASE StepFails(q)
  <2>1. run'[q].data = run[q].data /\ run'[q].out \in {None, run[q].out}
    BY <1>0, <1>5 DEF StepFails, AfterFailure, Typed, RunTyped, RunRecord
  <2> QED
    BY <1>5, <2>1, PipelineAssumption
    DEF StepFails, tables, Genuine, GenuineFrames, GenuineTables
<1>6. ASSUME NEW frame, NEW pc, Builds(q, frame, pc), frame # "synthetic"
      PROVE  Genuine(q)'
  <2>1. run'[q].data = run[q].data /\ run'[q].out = frame
    BY <1>0, <1>6 DEF Builds, Typed, RunTyped, RunRecord
  <2> QED
    BY <1>6, <2>1 DEF Builds, tables, Genuine, GenuineFrames, GenuineTables
<1>7. CASE Reuse(q) \/ Unreadable(q) \/ Return(q) \/ Check(q) \/ Complete(q)
  <2>1. CASE Reuse(q)
    <3>1. run'[q].data = run[q].data /\ run'[q].out = checkpoint[q][run[q].at]
          /\ run[q].at \in Assets
      BY <1>0, <2>1 DEF Reuse, Typed, RunTyped, RunRecord
    <3> QED
      BY <2>1, <3>1 DEF Reuse, tables, Genuine, GenuineFrames, GenuineTables
  <2>2. CASE run' = [run EXCEPT ![q] = Passed(@)] /\ UNCHANGED <<tables, executed>>
    <3>1. run'[q].data = run[q].out /\ run'[q].out = None
      BY <1>0, <2>2 DEF Passed, Typed, RunTyped, RunRecord
    <3> QED
      BY <2>2, <3>1, PipelineAssumption
      DEF tables, Genuine, GenuineFrames, GenuineTables
  <2>3. CASE Unreadable(q) \/ Check(q) \/ Complete(q)
    <3>1. run'[q].data = run[q].data /\ run'[q].out = run[q].out
      BY <1>0, <2>3 DEF Unreadable, Check, Complete, Typed, RunTyped, RunRecord
    <3> QED
      BY <2>3, <3>1 DEF Unreadable, Check, Complete, tables, Genuine, GenuineFrames, GenuineTables
  <2> QED
    BY <1>5, <1>7, <2>1, <2>2, <2>3 DEF Return
<1>8. CASE LoadRaw(q)
  <2>1. CASE /\ run' = [run EXCEPT ![q].out = "file", ![q].pc = "returned"]
             /\ UNCHANGED tables
    <3>1. run'[q].data = run[q].data /\ run'[q].out = "file"
      BY <1>0, <2>1 DEF Typed, RunTyped, RunRecord
    <3> QED
      BY <2>1, <3>1 DEF tables, Genuine, GenuineFrames, GenuineTables
  <2> QED
    BY <1>5, <1>8, <2>1 DEF LoadRaw
<1>9. CASE Transform(q) \/ StageFile(q)
  BY <1>5, <1>6, <1>9 DEF Transform, StageFile, Genuine, GenuineFrames
<1>10. CASE Validate(q)
  <2>1. CASE /\ run' = [run EXCEPT ![q].out = run[q].data, ![q].pc = "rows", ![q].row = 1]
             /\ UNCHANGED <<tables, executed>>
    <3>1. run'[q].data = run[q].data /\ run'[q].out = run[q].data
      BY <1>0, <2>1 DEF Typed, RunTyped, RunRecord
    <3> QED
      BY <2>1, <3>1 DEF tables, Genuine, GenuineFrames, GenuineTables
  <2> QED
    BY <1>5, <1>10, <2>1 DEF Validate
(* What goes into the tables comes from the frame at hand. *)
<1>11. run[q].at # Raw => run[q].data = "file"
  BY <1>0 DEF HasFrames, Origin, Genuine, GenuineFrames
<1>12. CASE QuarantineRow(q)
  <2>1. CASE Builds(q, run[q].out, "save")
    BY <1>6, <2>1 DEF Genuine, GenuineFrames
  <2>2. CASE /\ quarantined' = [quarantined EXCEPT ![q] =
                  Append(@, [row |-> run[q].row, origin |-> run[q].data])]
             /\ run' = [run EXCEPT ![q].row = @ + 1]
             /\ UNCHANGED <<checkpoint, staged, announced, executed>>
    <3>1. run'[q].data = run[q].data /\ run'[q].out = run[q].out
      BY <1>0, <2>2 DEF Typed, RunTyped, RunRecord
    <3>2. run[q].data = "file"
      BY <1>11, <1>12, Names DEF QuarantineRow, At
    <3> DEFINE entry == [row |-> run[q].row, origin |-> run[q].data]
    <3>3. quarantined'[q] = Append(quarantined[q], entry) /\ entry.origin = "file"
      BY <2>2, <3>2 DEF Typed, TablesTyped
    <3> HIDE DEF entry
    <3>4. quarantined[q] \in Seq(Rejected)
      BY DEF Typed, TablesTyped
    <3>5. \A j \in 1..Len(quarantined'[q]) : quarantined'[q][j].origin = "file"
      BY <3>3, <3>4 DEF Genuine, GenuineTables
    <3> QED
      BY <2>2, <3>1, <3>5 DEF Genuine, GenuineFrames, GenuineTables
  <2> QED
    BY <1>12, <2>1, <2>2 DEF QuarantineRow
<1>13. ASSUME NEW pc, run' = [run EXCEPT ![q].pc = pc]
       PROVE  run'[q].data = run[q].data /\ run'[q].out = run[q].out
  BY <1>0, <1>13 DEF Typed, RunTyped, RunRecord
<1>14. CASE StageDb(q) \/ StageFallback(q) \/ Announce(q)
  <2>1. run'[q].data = run[q].data /\ run'[q].out = run[q].out
    BY <1>13, <1>14 DEF StageDb, AfterPg, StageFallback, Announce
  <2>2. \A i \in 1..Len(staged'[q]) : staged'[q][i].origin = "file"
    <3>1. CASE UNCHANGED staged
      BY <3>1 DEF Genuine, GenuineTables
    <3>2. ASSUME NEW store, Insert(q, store), run[q].at = Staged
          PROVE  \A i \in 1..Len(staged'[q]) : staged'[q][i].origin = "file"
      <4> DEFINE entry == [store |-> store, origin |-> run[q].data]
      <4>1. staged'[q] = Append(staged[q], entry) /\ entry.origin = "file"
        BY <1>11, <3>2, Names DEF Insert, Typed, TablesTyped
      <4> HIDE DEF entry
      <4>2. staged[q] \in Seq(Insertion)
        BY DEF Typed, TablesTyped
      <4> QED
        BY <4>1, <4>2 DEF Genuine, GenuineTables
    <3> QED
      BY <1>14, <3>1, <3>2 DEF StageDb, AfterPg, StageFallback, Announce, At
  <2>3. checkpoint' = checkpoint /\ quarantined' = quarantined
    BY <1>14 DEF StageDb, AfterPg, StageFallback, Announce
  <2> QED
    BY <2>1, <2>2, <2>3 DEF Genuine, GenuineFrames, GenuineTables
<1>15. CASE SaveCheckpoint(q)
  <2>1. run'[q].data = run[q].data /\ run'[q].out = run[q].out
    BY <1>13, <1>15 DEF SaveCheckpoint
  <2>2. \A a \in Assets : checkpoint'[q][a] \in {checkpoint[q][a], run[q].out, None}
    BY <1>15 DEF SaveCheckpoint, Typed, TablesTyped
  <2> QED
    BY <1>15, <2>1, <2>2, PipelineAssumption DEF SaveCheckpoint, Genuine, GenuineFrames, GenuineTables
<1> QED
  BY <1>1, <1>2, <1>3, <1>4, <1>7, <1>8, <1>9, <1>10, <1>12, <1>14, <1>15
  DEF Next, Step

(* In production, unless synthetic data was allowed there explicitly, and  *)
(* wherever it is explicitly forbidden, no synthetic row is staged or put  *)
(* in quarantine, whatever fails and however often a run is retried.       *)
THEOREM NoSynthetic == Spec => []ProductionSafe
<1> DEFINE GenuineInv == ~MayFallBack => \A r \in Runs : Genuine(r)
<1>1. Init => GenuineInv
  <2> SUFFICES ASSUME Init, NEW r \in Runs PROVE Genuine(r)
    OBVIOUS
  <2>1. /\ run[r].data = None /\ run[r].out = None /\ staged[r] = <<>>
        /\ quarantined[r] = <<>> /\ \A a \in Assets : checkpoint[r][a] = None
    BY DEF Init, Fresh
  <2> QED
    BY <2>1, PipelineAssumption DEF Genuine, GenuineFrames, GenuineTables
<1>2. GenuineInv /\ Typed /\ Typed' /\ [Next]_vars => GenuineInv'
  <2>1. [Next]_vars => (MayFallBack' <=> MayFallBack)
    BY DEF Next, vars, settings, MayFallBack
  <2> QED
    BY <2>1, NextGenuine
<1>3. GenuineInv => ProductionSafe
  BY DEF ProductionSafe, MayFallBack, Genuine, GenuineTables
<1> QED
  BY <1>1, <1>2, <1>3, InitTyped, NextTyped, PTL DEF Spec

-----------------------------------------------------------------------------
(* What the tables of CleaningPipeline hold, for every set of runs, every  *)
(* number of tries, retries and invalid rows, and every set of faults:     *)
(*                                                                         *)
(*   KeepsTheContract       the pipeline keeps StagingContract: as long as *)
(*                          no checkpoint, answer, announcement or SQLite  *)
(*                          insertion is lost and every checkpoint can be  *)
(*                          read, every step inserts the                   *)
(*                          batch of a run for the first time, announces   *)
(*                          an inserted batch for the first time,          *)
(*                          completes an announced run or does none of it; *)
(*   CompletedRunsAreStaged a completed run has its rows in a table;       *)
(*   RejectedRowsAreKept    once they are there, every invalid row is in   *)
(*                          quarantine;                                    *)
(*   OneSourceOfRows        all it wrote comes from one set of raw rows;   *)
(*                                                                         *)
(* the last three unless a kind of fault struck that can break them.       *)
(*                                                                         *)
(* Owed says where a run is: its batch is inserted and announced exactly   *)
(* when its last checkpoint is saved or about to be.  Kept says what the   *)
(* checkpoints and the place of a run promise about the tables: rows that  *)
(* are past the insertion are there (Landed), invalid rows past the        *)
(* validation are in quarantine (Sorted), and from the checkpoint of       *)
(* cleaned_ingestion_data on every frame, row and checkpoint has its       *)
(* origin (OneSource).                                                     *)

Losses == {"checkpoint", "unreadable", "ambiguous", "sqlite", "kafka"}

Saved(r) == checkpoint[r][Staged] # None
In(r, pc) == run[r].at = Staged /\ run[r].pc = pc
Told(r) == Saved(r) \/ In(r, "save")

Owed(r) ==
  /\ Len(staged[r]) = Due(Told(r) \/ In(r, "announce"))
  /\ announced[r] = Due(Told(r))
  /\ In(r, "returned") \/ In(r, "end") => Saved(r)
  /\ run[r].status = "completed" => In(r, "end")

OwedInv == NothingLost => \A r \in Runs : Owed(r)

(* Where nothing has been lost after a step, nothing was lost before, and  *)
(* the step lost nothing.                                                  *)
LEMMA NoLoss ==
  ASSUME FaultsTyped, FaultsTyped', NothingLost',
         Sound \/ \E kind \in Faults : Strike(kind)
  PROVE  NothingLost /\ \A kind \in Losses : ~Strike(kind)
<1>1. \A f \in Faults : faults[f] \in Nat /\ faults'[f] \in Nat
  BY PipelineAssumption DEF FaultsTyped
<1>2. \A f \in Faults : faults[f] <= faults'[f]
  BY <1>1 DEF Sound, Strike, FaultsTyped
<1>3. NothingLost
  BY <1>1, <1>2 DEF NothingLost, Struck
<1>4. ASSUME NEW kind \in Losses, Strike(kind) PROVE FALSE
  <2>1. kind \in Faults /\ faults'[kind] = faults[kind] + 1
    BY <1>4 DEF Strike, FaultsTyped
  <2>2. faults'[kind] = 0
    BY <2>1 DEF NothingLost, Struck, Losses
  <2> QED
    BY <1>1, <2>1, <2>2
<1> QED
  BY <1>3, <1>4

(* A step that neither inserts, announces, saves nor completes. *)
LEMMA QuietOwed ==
  ASSUME Typed, Typed', NEW r \in Runs, Owed(r),
         \A q \in Runs : q # r => run'[q] = run[q],
         ~In(r, "announce"), ~In(r, "save"),
         ~In(r, "announce")', ~In(r, "save")',
         In(r, "returned")' \/ In(r, "end")' => Saved(r),
         run[r].status # "completed", run'[r].status # "completed",
         UNCHANGED <<checkpoint, staged, announced>>
  PROVE  Owed(r)' /\ UNCHANGED Contract!vars
<1>1. Told(r)' <=> Told(r)
  BY DEF Told, Saved
<1>2. Owed(r)'
  BY <1>1 DEF Owed, Saved, Due
<1>3. {q \in Runs : run'[q].status = "completed"}
        = {q \in Runs : run[q].status = "completed"}
  OBVIOUS
<1> QED
  BY <1>2, <1>3 DEF Contract!vars

(* Owed looks at nothing of the other runs. *)
LEMMA OtherOwed ==
  ASSUME Typed, NEW r \in Runs, NEW q \in Runs, q # r, Step(r) \/ Retry(r), Owed(q)
  PROVE  Owed(q)'
BY OtherRuns DEF Owed, Told, Saved, In, Due

LEMMA InitOwed == Init => OwedInv
<1> SUFFICES ASSUME Init, NEW r \in Runs PROVE Owed(r)
  BY DEF OwedInv
<1>1. /\ run[r].pc = "ready" /\ run[r].status = "new"
      /\ staged[r] = <<>> /\ announced[r] = 0 /\ checkpoint[r][Staged] = None
  BY Names DEF Init, Fresh
<1> QED
  BY <1>1 DEF Owed, Told, Saved, In, Due

(* A step of a run keeps what it owes, and is a step of the contract.      *)
LEMMA StepOwed ==
  ASSUME Inv, Typed', NEW r \in Runs, Step(r) \/ Retry(r), Owed(r),
         Struck("unreadable") = 0, \A kind \in Losses : ~Strike(kind)
  PROVE  Owed(r)' /\ (Contract!Next \/ UNCHANGED Contract!vars)
<1>0. /\ Typed /\ run[r] \in RunRecord /\ HasFrames(run[r])
      /\ Working(r) /\ FailedQuiet(r) /\ run[r].pc # "unread"
      /\ \A q \in Runs : q # r => run'[q] = run[q]
  BY OtherRuns DEF Inv, Counts, Working, Typed, RunTyped
<1>1. ASSUME UNCHANGED <<checkpoint, staged, announced>>,
             run[r].status # "completed", run'[r].status # "completed",
             run[r].at = Staged => run[r].pc \notin {"announce", "save"},
             run'[r].at = Staged => run'[r].pc \notin {"announce", "save"},
             /\ run'[r].at = Staged
             /\ run'[r].pc \in {"returned", "end"}
             => Saved(r)
      PROVE  Owed(r)' /\ UNCHANGED Contract!vars
  <2>1. /\ ~In(r, "announce") /\ ~In(r, "save")
        /\ ~In(r, "announce")' /\ ~In(r, "save")'
        /\ In(r, "returned")' \/ In(r, "end")' => Saved(r)
    BY <1>1 DEF In
  <2> QED
    BY <1>0, <1>1, <2>1, QuietOwed
<1>2. CASE Begin(r) \/ Retry(r)
  <2>1. /\ run[r].pc \notin Building /\ run[r].status # "completed"
        /\ UNCHANGED <<checkpoint, staged, announced>>
    BY <1>0, <1>2 DEF Begin, Retry, FailedQuiet, tables
  <2>2. run'[r].pc = "ready" /\ run'[r].status = "running"
    BY <1>0, <1>2 DEF Begin, Retry, Fresh, Typed, RunTyped
  <2> QED
    BY <1>1, <2>1, <2>2, Names
<1>3. ASSUME StepFails(r), run[r].status = "running",
             run[r].pc \in {"ready", "returned"},
             run[r].at = Staged /\ run[r].pc = "returned" => Saved(r)
      PROVE  Owed(r)' /\ UNCHANGED Contract!vars
  <2>1. /\ run'[r].at = run[r].at /\ run'[r].status # "completed"
        /\ run'[r].pc = "ready" \/ run'[r].pc = run[r].pc
    BY <1>0, <1>3 DEF StepFails, AfterFailure, Typed, RunTyped, RunRecord
  <2> QED
    BY <1>1, <1>3, <2>1 DEF StepFails, tables
<1>4. ASSUME NEW frame, NEW pc \in {"save", "db"}, Builds(r, frame, pc),
             run[r].status = "running", run[r].pc \in {"ready", "rows"},
             run[r].at = Staged => pc = "db"
      PROVE  Owed(r)' /\ UNCHANGED Contract!vars
  <2>1. /\ run'[r].at = run[r].at /\ run'[r].status = "running"
        /\ run'[r].pc = pc
    BY <1>0, <1>4 DEF Builds, Typed, RunTyped, RunRecord
  <2> QED
    BY <1>1, <1>4, <2>1 DEF Builds, tables
(* Reading the checkpoint, and what comes before the staging asset. *)
<1>5. CASE Reuse(r)
  <2>1. /\ run[r].status = "running" /\ run[r].pc = "ready"
        /\ checkpoint[r][run[r].at] # None
        /\ UNCHANGED <<checkpoint, staged, announced>>
    BY <1>5 DEF Reuse, Reusable, tables
  <2>2. /\ run'[r].at = run[r].at /\ run'[r].status = "running"
        /\ run'[r].pc = "returned"
    BY <1>0, <1>5 DEF Reuse, Typed, RunTyped, RunRecord
  <2> QED
    BY <1>1, <2>1, <2>2 DEF Saved
<1>6. CASE LoadRaw(r)
  <2>1. /\ run[r].pc = "ready" /\ run[r].status = "running" /\ run[r].at = Raw
    BY <1>0, <1>6 DEF LoadRaw, Executes, At
  <2>2. CASE Builds(r, "synthetic", "save")
    BY <1>4, <2>1, <2>2, Names
  <2>3. CASE StepFails(r)
    BY <1>3, <2>1, <2>3
  <2>4. CASE /\ run' = [run EXCEPT ![r].out = "file", ![r].pc = "returned"]
             /\ UNCHANGED tables
    <3>1. run'[r].at = Raw /\ run'[r].status = "running"
      BY <1>0, <2>1, <2>4 DEF Typed, RunTyped, RunRecord
    <3> QED
      BY <1>1, <2>1, <2>4, <3>1, Names DEF tables
  <2> QED
    BY <1>6, <2>2, <2>3, <2>4 DEF LoadRaw
<1>7. CASE Transform(r) \/ StageFile(r)
  <2>1. /\ run[r].pc = "ready" /\ run[r].status = "running"
    BY <1>0, <1>7 DEF Transform, StageFile, Executes, At
  <2>2. CASE StepFails(r)
    BY <1>3, <2>1, <2>2
  <2>3. CASE StageFile(r) /\ Builds(r, run[r].data, "db")
    BY <1>4, <2>1, <2>3
  <2>4. CASE Transform(r) /\ Builds(r, run[r].data, "save")
    <3>1. run[r].at # Staged
      BY <2>4 DEF Transform, Executes, At, Staged
    <3> QED
      BY <1>4, <2>1, <2>4, <3>1
  <2> QED
    BY <1>7, <2>2, <2>3, <2>4 DEF Transform, StageFile
<1>8. CASE Validate(r)
  <2>1. /\ run[r].pc = "ready" /\ run[r].status = "running" /\ run[r].at = Valid
    BY <1>0, <1>8 DEF Validate, Executes, At
  <2>2. CASE StepFails(r)
    BY <1>3, <2>1, <2>2
  <2>3. CASE /\ run' = [run EXCEPT ![r].out = run[r].data, ![r].pc = "rows", ![r].row = 1]
             /\ UNCHANGED <<tables, executed>>
    <3>1. /\ run'[r].pc = "rows" /\ run'[r].status = "running"
      BY <1>0, <2>1, <2>3 DEF Typed, RunTyped, RunRecord
    <3> QED
      BY <1>1, <2>1, <2>3, <3>1 DEF tables
  <2> QED
    BY <1>8, <2>2, <2>3 DEF Validate
<1>9. CASE QuarantineRow(r)
  <2>1. /\ run[r].pc = "rows" /\ run[r].status = "running"
        /\ run[r].at = Valid /\ Valid # Staged
    BY <1>9 DEF QuarantineRow, At, Valid, Staged
  <2>2. CASE Builds(r, run[r].out, "save")
    BY <1>4, <2>1, <2>2
  <2>3. CASE /\ run' = [run EXCEPT ![r].row = @ + 1]
             /\ UNCHANGED <<checkpoint, staged, announced, executed>>
    <3>1. /\ run'[r].pc = "rows" /\ run'[r].status = "running"
      BY <1>0, <2>1, <2>3 DEF Typed, RunTyped, RunRecord
    <3> QED
      BY <1>1, <2>1, <2>3, <3>1
  <2> QED
    BY <1>9, <2>2, <2>3 DEF QuarantineRow
<1>10. CASE Return(r)
  <2>1. /\ run[r].pc = "returned" /\ run[r].status = "running"
        /\ run[r].at = Staged => Saved(r)
    BY <1>10 DEF Return, Owed, In
  <2>2. CASE StepFails(r)
    BY <1>3, <2>1, <2>2
  <2>3. CASE run' = [run EXCEPT ![r] = Passed(@)] /\ UNCHANGED <<tables, executed>>
    <3>1. /\ run'[r].status = "running"
          /\ run'[r].pc = IF run[r].at = Staged THEN "end" ELSE "ready"
      BY <1>0, <2>1, <2>3 DEF Passed, Typed, RunTyped, RunRecord
    <3> QED
      BY <1>1, <2>1, <2>3, <3>1 DEF tables
  <2> QED
    BY <1>10, <2>2, <2>3 DEF Return
<1>11. CASE Check(r)
  <2>1. /\ run[r].status = "running" /\ run[r].pc \in {"ready", "end"}
        /\ run[r].at = Staged /\ run[r].pc = "end" => Saved(r)
        /\ UNCHANGED <<checkpoint, staged, announced>>
    BY <1>11 DEF Check, Owed, In, tables
  <2>2. /\ run'[r].pc = run[r].pc /\ run'[r].at = run[r].at
        /\ run'[r].status # "completed"
    BY <1>0, <1>11, <2>1 DEF Check, Typed, RunTyped, RunRecord
  <2> QED
    BY <1>1, <2>1, <2>2
(* The completion, *)
<1>12. {q \in Runs : run[q].status = "completed"}'
         = IF run'[r].status = "completed"
           THEN {q \in Runs : run[q].status = "completed"} \cup {r}
           ELSE {q \in Runs : run[q].status = "completed"} \ {r}
  BY <1>0
<1>13. CASE Complete(r)
  <2>1. /\ In(r, "end") /\ UNCHANGED <<checkpoint, staged, announced>>
    BY <1>13 DEF Complete, At, In, tables
  <2>2. /\ run'[r].pc = run[r].pc /\ run'[r].at = run[r].at
        /\ run'[r].status = "completed"
    BY <1>0, <1>13 DEF Complete, Typed, RunTyped, RunRecord
  <2>3. Owed(r)'
    BY <2>1, <2>2 DEF Owed, Told, Saved, In, Due
  <2>4. announced[r] = 1
    BY <2>1 DEF Owed, Told, Due
  <2>5. Contract!Complete(r)
    BY <1>12, <2>1, <2>2, <2>4 DEF Contract!Complete
  <2> QED
    BY <2>3, <2>5 DEF Contract!Next
(* the insertion, *)
<1>14. ASSUME NEW pc, run' = [run EXCEPT ![r].pc = pc], run[r].status = "running"
       PROVE  /\ run'[r].pc = pc /\ run'[r].at = run[r].at
              /\ run'[r].status = "running"
              /\ {q \in Runs : run[q].status = "completed"}'
                   = {q \in Runs : run[q].status = "completed"}
  BY <1>0, <1>14 DEF Typed, RunTyped, RunRecord
<1>15. ASSUME NEW store, Insert(r, store), run' = [run EXCEPT ![r].pc = "announce"],
              run[r].status = "running", run[r].at = Staged,
              run[r].pc \in {"db", "fallback"}, UNCHANGED <<checkpoint, announced>>
       PROVE  Owed(r)' /\ Contract!Insert(r)
  <2>1. ~Saved(r) /\ ~Saved(r)'
    BY <1>0, <1>15, Names DEF Working, Saved
  <2>2. /\ In(r, "announce")' /\ ~In(r, "save")' /\ ~In(r, "returned")'
        /\ ~In(r, "end")' /\ run'[r].status = "running"
        /\ ~In(r, "announce") /\ ~In(r, "save")
    BY <1>14, <1>15 DEF In
  <2>3. /\ Len(staged[r]) = 0 /\ announced[r] = 0
    BY <2>1, <2>2 DEF Owed, Told, Due
  <2>4. /\ staged \in [Runs -> Seq(Insertion)]
        /\ \A q \in Runs : q # r => staged'[q] = staged[q]
        /\ Len(staged'[r]) = 1
    BY <1>0, <1>15, <2>3 DEF Insert, Typed, TablesTyped
  <2>5. Owed(r)'
    BY <1>15, <2>1, <2>2, <2>3, <2>4 DEF Owed, Told, Due
  <2>6. Contract!Insert(r)
    BY <1>14, <1>15, <2>3, <2>4 DEF Contract!Insert
  <2> QED
    BY <2>5, <2>6
<1>16. CASE StageDb(r)
  <2>1. /\ run[r].status = "running" /\ run[r].at = Staged /\ run[r].pc = "db"
        /\ UNCHANGED <<checkpoint, announced>>
    BY <1>16 DEF StageDb, At
  <2>2. CASE Insert(r, "pg") /\ run' = [run EXCEPT ![r].pc = "announce"]
    BY <1>15, <2>1, <2>2 DEF Contract!Next
  <2>3. CASE UNCHANGED staged /\ run' = [run EXCEPT ![r].pc = "fallback"]
    BY <1>1, <1>14, <2>1, <2>3
  <2> QED
    BY <1>16, <2>2, <2>3 DEF StageDb, AfterPg, Losses
<1>17. CASE StageFallback(r)
  <2>1. /\ run[r].status = "running" /\ run[r].at = Staged
        /\ run[r].pc = "fallback" /\ UNCHANGED <<checkpoint, announced>>
        /\ run' = [run EXCEPT ![r].pc = "announce"]
        /\ Insert(r, "sqlite")
    BY <1>17 DEF StageFallback, At, Losses
  <2> QED
    BY <1>15, <2>1 DEF Contract!Next
(* the announcement, *)
<1>18. CASE Announce(r)
  <2>1. /\ In(r, "announce") /\ run[r].status = "running"
        /\ UNCHANGED <<checkpoint, staged>>
        /\ announced' = [announced EXCEPT ![r] = @ + 1]
        /\ run' = [run EXCEPT ![r].pc = "save"]
    BY <1>18 DEF Announce, At, In, Losses
  <2>2. ~Saved(r) /\ ~Saved(r)'
    BY <1>0, <2>1, Names DEF Working, Saved, In
  <2>3. /\ In(r, "save")' /\ ~In(r, "returned")' /\ ~In(r, "end")'
        /\ ~In(r, "announce")' /\ ~In(r, "save") /\ run'[r].status = "running"
    BY <1>14, <2>1 DEF In
  <2>4. Len(staged[r]) = 1 /\ announced[r] = 0
    BY <2>1, <2>2, <2>3 DEF Owed, Told, Due
  <2>5. announced' = [announced EXCEPT ![r] = 1] /\ announced'[r] = 1
    BY <1>0, <2>1, <2>4 DEF Typed, TablesTyped
  <2>6. Owed(r)'
    BY <2>1, <2>3, <2>4, <2>5 DEF Owed, Told, Due
  <2>7. Contract!Announce(r)
    BY <1>14, <2>1, <2>4, <2>5 DEF Contract!Announce
  <2> QED
    BY <2>6, <2>7 DEF Contract!Next
(* and the checkpoints, of which the last one matters. *)
<1>19. CASE SaveCheckpoint(r)
  <2>1. /\ run[r].status = "running" /\ run[r].pc = "save"
        /\ run' = [run EXCEPT ![r].pc = "returned"]
        /\ checkpoint' = [checkpoint EXCEPT ![r][run[r].at] = run[r].out]
        /\ UNCHANGED <<staged, announced>>
    BY <1>19 DEF SaveCheckpoint, Losses
  <2>2. /\ run'[r].pc = "returned" /\ run'[r].at = run[r].at
        /\ run'[r].status = "running" /\ UNCHANGED Contract!vars
    BY <1>14, <2>1 DEF Contract!vars
  <2>3. Saved(r)' <=> Told(r)
    <3>1. run[r].out \in Origin /\ None \notin Origin /\ run[r].at \in Assets
      BY <1>0, <2>1, Names, PipelineAssumption DEF HasFrames, RunRecord, Origin
    <3>2. checkpoint'[r][Staged]
            = IF run[r].at = Staged THEN run[r].out ELSE checkpoint[r][Staged]
      BY <1>0, <2>1, <3>1, Names DEF Typed, TablesTyped
    <3> QED
      BY <2>1, <3>1, <3>2 DEF Saved, Told, In
  <2>4. Told(r)' <=> Told(r)
    BY <2>2, <2>3 DEF Told, In
  <2>5. In(r, "returned")' => Saved(r)'
    BY <2>1, <2>2, <2>3 DEF In, Told
  <2>6. /\ ~In(r, "announce") /\ ~In(r, "announce")' /\ ~In(r, "end")'
        /\ run'[r].status # "completed"
    BY <2>1, <2>2 DEF In
  <2>7. Owed(r)'
    BY <2>1, <2>4, <2>5, <2>6 DEF Owed, Due
  <2> QED
    BY <2>2, <2>7
<1> QED
  BY <1>2, <1>5, <1>6, <1>7, <1>8, <1>9, <1>10, <1>11, <1>13, <1>16, <1>17,
     <1>18, <1>19 DEF Step, Unreadable, Losses

LEMMA NextOwed ==
  ASSUME Inv, Inv', [Next]_vars, OwedInv, NothingLost'
  PROVE  /\ \A q \in Runs : Owed(q)'
         /\ Contract!Next \/ UNCHANGED Contract!vars
<1>1. Sound \/ \E kind \in Faults : Strike(kind)
  BY DEF Next, vars, Crash, Step, Retry, Begin, Reuse, Unreadable, LoadRaw, Transform,
    Validate, QuarantineRow, StageFile, StageDb, StageFallback, Announce,
    SaveCheckpoint, Return, Check, Complete, Sound, Strike
<1>2. /\ Typed /\ Typed' /\ NothingLost /\ \A kind \in Losses : ~Strike(kind)
      /\ Struck("unreadable") = 0
  BY <1>1, NoLoss DEF Inv, Typed, NothingLost
<1>3. \A q \in Runs : Owed(q)
  BY <1>2 DEF OwedInv
<1>4. CASE UNCHANGED vars
  <2>1. \A q \in Runs : Owed(q)'
    BY <1>3, <1>4 DEF vars, Owed, Told, Saved, In
  <2> QED
    BY <1>4, <2>1 DEF vars, Contract!vars
<1>5. CASE Crash
  <2>1. \A q \in Runs : /\ run'[q].pc = run[q].pc /\ run'[q].at = run[q].at
                        /\ run'[q].status = "completed"
                             <=> run[q].status = "completed"
    BY <1>2, <1>5 DEF Crash, Typed, RunTyped, RunRecord
  <2>2. UNCHANGED <<checkpoint, staged, announced>>
    BY <1>5 DEF Crash, tables
  <2>3. \A q \in Runs : Owed(q)'
    BY <1>3, <2>1, <2>2 DEF Owed, Told, Saved, In
  <2> QED
    BY <2>1, <2>2, <2>3 DEF Contract!vars
<1>6. ASSUME NEW r \in Runs, Step(r) \/ Retry(r)
      PROVE  /\ \A q \in Runs : Owed(q)'
             /\ Contract!Next \/ UNCHANGED Contract!vars
  <2>1. Owed(r)' /\ (Contract!Next \/ UNCHANGED Contract!vars)
    BY <1>2, <1>3, <1>6, StepOwed
  <2>2. ASSUME NEW q \in Runs, q # r PROVE Owed(q)'
    BY <1>2, <1>3, <1>6, <2>2, OtherOwed
  <2> QED
    BY <2>1, <2>2
<1> QED
  BY <1>4, <1>5, <1>6 DEF Next

(* As long as nothing is lost or cannot be read, the pipeline implements   *)
(* the contract of staging: insert once, then announce once, then complete.*)
THEOREM KeepsTheContract == Spec => KeepsContract
<1> DEFINE Kept == NothingLost' => Contract!Next \/ UNCHANGED Contract!vars
<1>1. Init => OwedInv /\ Contract!Init
  <2> SUFFICES ASSUME Init PROVE Contract!Init
    BY InitOwed
  <2>1. \A r \in Runs : Len(staged[r]) = 0 /\ run[r].status = "new"
    BY DEF Init, Fresh
  <2> QED
    BY <2>1 DEF Init, Contract!Init
<1>2. Inv /\ Inv' /\ OwedInv /\ [Next]_vars => OwedInv' /\ Kept
  BY NextOwed DEF OwedInv
<1>3. Inv /\ Inv' /\ OwedInv /\ [Next]_vars => OwedInv' /\ [Kept]_vars
  BY <1>2
<1> QED
  BY <1>1, <1>3, Inductive, PTL DEF Spec, KeepsContract
-----------------------------------------------------------------------------
(* What a step of a run may be, seen from its record and from the tables   *)

Stands(r, asset, pc) == run[r].at = asset /\ run[r].pc = pc

(* The fields of the record that say where the run is and what it holds.   *)
Goes(r, pc) ==
  /\ run[r].status = "running" /\ run'[r].status = "running"
  /\ run'[r].at = run[r].at /\ run'[r].data = run[r].data /\ run'[r].pc = pc
Leaves == UNCHANGED <<checkpoint, staged, quarantined>>

Restarts(r) ==
  /\ run[r].status \in {"new", "failed"} /\ run'[r].status = "running"
  /\ run'[r].at = Raw /\ run'[r].pc = "ready" /\ Leaves
(* An asset raises, or an asset check runs. *)
Halts(r) ==
  /\ run[r].status = "running" /\ run'[r].status \in {"running", "failed"}
  /\ run'[r].at = run[r].at /\ run'[r].data = run[r].data
  /\ \/ run'[r].pc = "ready"
     \/ run'[r].pc = run[r].pc /\ run'[r].out = run[r].out
  /\ run[r].pc \in {"ready", "unread", "returned", "end"} /\ Leaves
Reuses(r) ==
  /\ Goes(r, "returned") /\ run[r].pc = "ready" /\ Leaves
  /\ checkpoint[r][run[r].at] # None /\ run'[r].out = checkpoint[r][run[r].at]
Forgoes(r) ==
  /\ Goes(r, "unread") /\ run[r].pc = "ready" /\ Leaves
  /\ Strike("unreadable") /\ run'[r].out = run[r].out
(* The frame of an asset is there; the last two have more to do. *)
LoadsRaw(r) ==
  /\ run[r].at = Raw /\ Leaves
  /\ Goes(r, "returned") \/ Goes(r, "save")
Frames(r) ==
  /\ run[r].at # Raw
  /\ (run[r].pc = "ready" /\ checkpoint[r][run[r].at] = None) \/ run[r].pc = "unread"
  /\ run'[r].out = run[r].data /\ Leaves
  /\ \/ run[r].at \notin {Valid, Staged} /\ Goes(r, "save")
     \/ run[r].at = Valid /\ Goes(r, "rows") /\ run'[r].row = 1
     \/ run[r].at = Staged /\ Goes(r, "db")
RejectsRow(r) ==
  /\ Stands(r, Valid, "rows") /\ run[r].row <= InvalidRows
  /\ Goes(r, "rows") /\ run'[r].out = run[r].out /\ run'[r].row = run[r].row + 1
  /\ quarantined'[r] =
       Append(quarantined[r], [row |-> run[r].row, origin |-> run[r].data])
  /\ UNCHANGED <<checkpoint, staged>>
EndsRows(r) ==
  /\ Stands(r, Valid, "rows")
  /\ run[r].row > InvalidRows \/ Strike("quarantine")
  /\ Goes(r, "save") /\ run'[r].out = run[r].out /\ Leaves
Inserts(r) ==
  /\ \E pc \in {"db", "fallback"} : Stands(r, Staged, pc)
  /\ \E pc \in {"announce", "fallback"} : Goes(r, pc)
  /\ run'[r].out = run[r].out
  /\ \E store \in {"pg", "sqlite"} :
       staged'[r] = Append(staged[r], [store |-> store, origin |-> run[r].data])
  /\ UNCHANGED <<checkpoint, quarantined>>
Refused(r) ==
  /\ run'[r].out = run[r].out /\ Leaves
  /\ \/ Stands(r, Staged, "db") /\ Goes(r, "fallback")
     \/ Stands(r, Staged, "fallback") /\ Goes(r, "announce") /\ Strike("sqlite")
Tells(r) ==
  /\ Stands(r, Staged, "announce") /\ Goes(r, "save") /\ run'[r].out = run[r].out
  /\ Leaves
Saves(r) ==
  /\ run[r].pc = "save" /\ Goes(r, "returned") /\ run'[r].out = run[r].out
  /\ \/ /\ Strike("checkpoint")
        /\ \A a \in Assets : checkpoint'[r][a] \in {checkpoint[r][a], None}
     \/ \A a \in Assets :
          checkpoint'[r][a] = IF a = run[r].at THEN run[r].out ELSE checkpoint[r][a]
  /\ UNCHANGED <<staged, quarantined>>
Passes(r) ==
  /\ run[r].pc = "returned" /\ run'[r].data = run[r].out /\ Leaves
  /\ run[r].status = "running" /\ run'[r].status = "running"
  /\ \/ run[r].at = Staged /\ run'[r].at = Staged /\ run'[r].pc = "end"
     \/ /\ run[r].at # Staged
        /\ run'[r].at = run[r].at + 1 /\ run'[r].pc = "ready"
Finishes(r) ==
  /\ Stands(r, Staged, "end") /\ run'[r].at = Staged /\ run'[r].pc = "end"
  /\ run'[r].status = "completed" /\ run'[r].data = run[r].data /\ Leaves

Moves(r) ==
  \/ Restarts(r) \/ Halts(r) \/ Reuses(r) \/ Forgoes(r) \/ LoadsRaw(r) \/ Frames(r)
  \/ RejectsRow(r) \/ EndsRows(r) \/ Inserts(r) \/ Refused(r) \/ Tells(r)
  \/ Saves(r) \/ Passes(r) \/ Finishes(r)

LEMMA StepMoves ==
  ASSUME Typed, NEW r \in Runs, Step(r) \/ Retry(r) PROVE Moves(r)
<1>0. run[r] \in RunRecord /\ run \in [Runs -> RunRecord]
  BY DEF Typed, RunTyped
<1>1. UNCHANGED tables => Leaves
  BY DEF tables, Leaves
<1>2. CASE Begin(r) \/ Retry(r)
  BY <1>0, <1>1, <1>2 DEF Begin, Retry, Fresh, Moves, Restarts
<1>3. ASSUME StepFails(r), run[r].status = "running",
             run[r].pc \in {"ready", "unread", "returned"}
      PROVE  Moves(r)
  <2>1. run'[r] = AfterFailure(run[r]) /\ UNCHANGED tables
    BY <1>0, <1>3 DEF StepFails
  <2>2. Halts(r)
    BY <1>0, <1>1, <1>3, <2>1 DEF AfterFailure, RunRecord, Halts
  <2> QED
    BY <2>2 DEF Moves
<1>4. ASSUME NEW frame, NEW pc, Builds(r, frame, pc), run[r].status = "running"
      PROVE  Goes(r, pc) /\ run'[r].out = frame /\ Leaves
  <2>1. run'[r] = [run[r] EXCEPT !.out = frame, !.pc = pc] /\ UNCHANGED tables
    BY <1>0, <1>4 DEF Builds
  <2> QED
    BY <1>0, <1>1, <1>4, <2>1 DEF RunRecord, Goes
<1>5. CASE Reuse(r)
  <2>1. run'[r] = [run[r] EXCEPT !.out = checkpoint[r][run[r].at], !.pc = "returned"]
        /\ run[r].pc = "ready" /\ run[r].status = "running" /\ UNCHANGED tables
    BY <1>0, <1>5 DEF Reuse
  <2> QED
    BY <1>0, <1>1, <1>5, <2>1 DEF RunRecord, Reuse, Reusable, Moves, Reuses, Goes
<1>20. CASE Unreadable(r)
  <2>1. run'[r] = [run[r] EXCEPT !.pc = "unread"] /\ run[r].pc = "ready"
        /\ run[r].status = "running" /\ UNCHANGED tables /\ Strike("unreadable")
    BY <1>0, <1>20 DEF Unreadable
  <2> QED
    BY <1>0, <1>1, <2>1 DEF RunRecord, Moves, Forgoes, Goes
<1>6. CASE LoadRaw(r)
  <2>1. /\ run[r].at = Raw /\ run[r].pc \in {"ready", "unread"}
        /\ run[r].status = "running"
    BY <1>6 DEF LoadRaw, Executes, At, Stands
  <2>2. CASE Builds(r, "synthetic", "save")
    BY <1>4, <2>1, <2>2 DEF Moves, LoadsRaw, Stands
  <2>3. CASE StepFails(r)
    BY <1>3, <2>1, <2>3 DEF Stands
  <2>4. CASE /\ run' = [run EXCEPT ![r].out = "file", ![r].pc = "returned"]
             /\ UNCHANGED tables
    <3>1. run'[r] = [run[r] EXCEPT !.out = "file", !.pc = "returned"]
      BY <1>0, <2>4
    <3> QED
      BY <1>0, <1>1, <2>1, <2>4, <3>1 DEF RunRecord, Goes, Moves, LoadsRaw, Stands
  <2> QED
    BY <1>6, <2>2, <2>3, <2>4 DEF LoadRaw
<1>7. CASE Transform(r)
  <2>1. /\ run[r].at \in {2, 3} /\ run[r].status = "running"
        /\ (run[r].pc = "ready" /\ checkpoint[r][run[r].at] = None) \/ run[r].pc = "unread"
    BY <1>7 DEF Transform, Executes, At, Reusable
  <2>2. CASE Builds(r, run[r].data, "save")
    BY <1>4, <2>1, <2>2 DEF Moves, Frames, Raw, Valid, Staged
  <2>3. CASE StepFails(r)
    BY <1>3, <2>1, <2>3
  <2> QED
    BY <1>7, <2>2, <2>3 DEF Transform
<1>8. CASE Validate(r)
  <2>1. /\ run[r].at = Valid /\ run[r].status = "running"
        /\ (run[r].pc = "ready" /\ checkpoint[r][run[r].at] = None) \/ run[r].pc = "unread"
    BY <1>8 DEF Validate, Executes, At, Reusable
  <2>2. CASE StepFails(r)
    BY <1>3, <2>1, <2>2
  <2>3. CASE /\ run' = [run EXCEPT ![r].out = run[r].data, ![r].pc = "rows", ![r].row = 1]
             /\ UNCHANGED <<tables, executed>>
    <3>1. run'[r] = [run[r] EXCEPT !.out = run[r].data, !.pc = "rows", !.row = 1]
      BY <1>0, <2>3
    <3>2. Goes(r, "rows") /\ run'[r].out = run[r].data /\ run'[r].row = 1
      BY <1>0, <2>1, <3>1 DEF RunRecord, Goes
    <3> QED
      BY <1>1, <2>1, <2>3, <3>2, Names DEF Moves, Frames
  <2> QED
    BY <1>8, <2>2, <2>3 DEF Validate
<1>9. CASE QuarantineRow(r)
  <2>1. Stands(r, Valid, "rows") /\ run[r].status = "running"
    BY <1>9 DEF QuarantineRow, At, Stands
  <2>2. CASE RowsLeft(r) /\ Sound
             /\ quarantined' = [quarantined EXCEPT ![r] =
                  Append(@, [row |-> run[r].row, origin |-> run[r].data])]
             /\ run' = [run EXCEPT ![r].row = @ + 1]
             /\ UNCHANGED <<checkpoint, staged, announced, executed>>
    <3>1. run'[r] = [run[r] EXCEPT !.row = run[r].row + 1]
      BY <1>0, <2>2
    <3>2. Goes(r, "rows") /\ run'[r].out = run[r].out /\ run'[r].row = run[r].row + 1
      BY <1>0, <2>1, <3>1 DEF RunRecord, Goes, Stands
    <3>3. quarantined'[r] =
            Append(quarantined[r], [row |-> run[r].row, origin |-> run[r].data])
      BY <2>2 DEF Typed, TablesTyped
    <3> QED
      BY <2>1, <2>2, <3>2, <3>3 DEF Moves, RejectsRow, RowsLeft
  <2>3. CASE Builds(r, run[r].out, "save") /\ (Strike("quarantine") \/ ~RowsLeft(r))
    <3>1. run[r].row \in Nat /\ InvalidRows \in Nat
      BY <1>0, PipelineAssumption DEF RunRecord
    <3> QED
      BY <1>4, <2>1, <2>3, <3>1 DEF Moves, EndsRows, RowsLeft
  <2> QED
    BY <1>9, <2>2, <2>3 DEF QuarantineRow
<1>10. CASE StageFile(r)
  <2>1. /\ run[r].at = Staged /\ run[r].status = "running"
        /\ (run[r].pc = "ready" /\ checkpoint[r][run[r].at] = None) \/ run[r].pc = "unread"
    BY <1>10 DEF StageFile, Executes, At, Reusable
  <2>2. CASE Builds(r, run[r].data, "db")
    BY <1>4, <2>1, <2>2, Names DEF Moves, Frames
  <2>3. CASE StepFails(r)
    BY <1>3, <2>1, <2>3
  <2> QED
    BY <1>10, <2>2, <2>3 DEF StageFile
<1>11. ASSUME NEW pc, run' = [run EXCEPT ![r].pc = pc], run[r].status = "running"
       PROVE  Goes(r, pc) /\ run'[r].out = run[r].out
  <2>1. run'[r] = [run[r] EXCEPT !.pc = pc]
    BY <1>0, <1>11
  <2> QED
    BY <1>0, <1>11, <2>1 DEF RunRecord, Goes
<1>12. ASSUME NEW store \in {"pg", "sqlite"}, Insert(r, store)
       PROVE  staged'[r] = Append(staged[r], [store |-> store, origin |-> run[r].data])
  BY <1>12 DEF Insert, Typed, TablesTyped
<1>13. CASE StageDb(r)
  <2>1. Stands(r, Staged, "db") /\ run[r].status = "running"
        /\ UNCHANGED <<checkpoint, quarantined>>
    BY <1>13 DEF StageDb, At, Stands
  <2>2. ASSUME NEW pc \in {"announce", "fallback"}, Insert(r, "pg"),
               run' = [run EXCEPT ![r].pc = pc]
        PROVE  Moves(r)
    BY <1>11, <1>12, <2>1, <2>2 DEF Moves, Inserts
  <2>3. CASE UNCHANGED staged /\ run' = [run EXCEPT ![r].pc = "fallback"]
    BY <1>11, <2>1, <2>3 DEF Moves, Refused, Leaves
  <2> QED
    BY <1>13, <2>2, <2>3 DEF StageDb, AfterPg
<1>14. CASE StageFallback(r)
  <2>1. Stands(r, Staged, "fallback") /\ run[r].status = "running"
        /\ UNCHANGED <<checkpoint, quarantined>>
        /\ Goes(r, "announce") /\ run'[r].out = run[r].out
    BY <1>11, <1>14 DEF StageFallback, At, Stands
  <2>2. CASE Insert(r, "sqlite")
    BY <1>12, <2>1, <2>2 DEF Moves, Inserts
  <2>3. CASE Strike("sqlite") /\ UNCHANGED staged
    BY <2>1, <2>3 DEF Moves, Refused, Leaves
  <2> QED
    BY <1>14, <2>2, <2>3 DEF StageFallback
<1>15. CASE Announce(r)
  <2>1. Stands(r, Staged, "announce") /\ Goes(r, "save") /\ run'[r].out = run[r].out
    BY <1>11, <1>15 DEF Announce, At, Stands
  <2> QED
    BY <1>15, <2>1 DEF Announce, Moves, Tells, Leaves
<1>16. CASE SaveCheckpoint(r)
  <2>1. run[r].pc = "save" /\ Goes(r, "returned") /\ run'[r].out = run[r].out
        /\ UNCHANGED <<staged, quarantined>>
    BY <1>11, <1>16 DEF SaveCheckpoint
  <2>2. \/ /\ Strike("checkpoint")
           /\ \A a \in Assets : checkpoint'[r][a] \in {checkpoint[r][a], None}
        \/ \A a \in Assets :
             checkpoint'[r][a] = IF a = run[r].at THEN run[r].out ELSE checkpoint[r][a]
    BY <1>16 DEF SaveCheckpoint, Typed, TablesTyped
  <2> QED
    BY <2>1, <2>2 DEF Moves, Saves
<1>17. CASE Return(r)
  <2>1. run[r].pc = "returned" /\ run[r].status = "running"
    BY <1>17 DEF Return
  <2>2. CASE StepFails(r)
    BY <1>3, <2>1, <2>2
  <2>3. CASE run' = [run EXCEPT ![r] = Passed(@)] /\ UNCHANGED <<tables, executed>>
    <3>1. run'[r] = Passed(run[r])
      BY <1>0, <2>3
    <3>2. Passes(r)
      BY <1>0, <1>1, <2>1, <2>3, <3>1 DEF Passed, RunRecord, Passes
    <3> QED
      BY <3>2 DEF Moves
  <2> QED
    BY <1>17, <2>2, <2>3 DEF Return
<1>18. CASE Check(r)
  <2>1. run[r].pc \in {"ready", "end"} /\ run[r].status = "running" /\ Leaves
    BY <1>1, <1>18 DEF Check
  <2>2. \/ run'[r] = [run[r] EXCEPT !.checked = TRUE]
        \/ run'[r] = [run[r] EXCEPT !.status = "failed"]
    BY <1>0, <1>18 DEF Check
  <2> QED
    BY <1>0, <2>1, <2>2 DEF RunRecord, Moves, Halts
<1>19. CASE Complete(r)
  <2>1. run'[r] = [run[r] EXCEPT !.status = "completed"]
    BY <1>0, <1>19 DEF Complete
  <2> QED
    BY <1>0, <1>1, <1>19, <2>1
    DEF RunRecord, Complete, At, Stands, Moves, Finishes
<1> QED
  BY <1>2, <1>5, <1>6, <1>7, <1>8, <1>9, <1>10, <1>13, <1>14, <1>15, <1>16,
     <1>17, <1>18, <1>19, <1>20 DEF Step

(* Faults are never taken back: what has not struck after a step had not   *)
(* before, and did not in it.                                              *)
LEMMA NotStruck ==
  ASSUME FaultsTyped, FaultsTyped', Sound \/ \E kind \in Faults : Strike(kind),
         NEW kind, Struck(kind)' = 0
  PROVE  Struck(kind) = 0 /\ ~Strike(kind)
<1>1. \A f \in Faults : faults[f] \in Nat /\ faults'[f] \in Nat
  BY PipelineAssumption DEF FaultsTyped
<1>2. \A f \in Faults : faults[f] <= faults'[f]
  BY <1>1 DEF Sound, Strike, FaultsTyped
<1>3. Struck(kind) = 0
  BY <1>1, <1>2 DEF Struck
<1>4. ASSUME Strike(kind) PROVE FALSE
  <2>1. kind \in Faults /\ faults'[kind] = faults[kind] + 1
    BY <1>4 DEF Strike, FaultsTyped
  <2> QED
    BY <1>1, <2>1 DEF Struck
<1> QED
  BY <1>3, <1>4

(* An insertion adds to the table, and takes nothing away. *)
LEMMA Appended ==
  ASSUME NEW S, NEW old \in Seq(S), NEW entry, NEW new, new = Append(old, entry)
  PROVE  /\ Len(new) = Len(old) + 1 /\ Len(old) \in Nat /\ new # <<>>
         /\ new[Len(new)] = entry
         /\ \A i \in 1..Len(old) : i \in 1..Len(new) /\ new[i] = old[i]
         /\ \A i \in 1..Len(new) : i \in 1..Len(old) \/ new[i] = entry
OBVIOUS

(* ------------------------- the staging table ------------------------- *)

(* The rows have been inserted, or are past it. *)
Landing(r) ==
  \/ Saved(r)
  \/ run[r].at = Staged /\ run[r].pc \in {"announce", "save", "returned", "end"}
Landed(r) ==
  /\ Landing(r) => staged[r] # <<>>
  /\ run[r].status = "completed" => Stands(r, Staged, "end")

LEMMA MoveLanded ==
  ASSUME Typed, NEW r \in Runs, Landed(r), Moves(r), ~Strike("sqlite")
  PROVE  Landed(r)'
<1> USE DEF Landing, Landed, Saved, Stands, Leaves, Goes
<1>1. CASE Restarts(r) \/ Halts(r) \/ Reuses(r) \/ Forgoes(r) \/ LoadsRaw(r) \/ Frames(r)
  BY <1>1, Names DEF Restarts, Halts, Reuses, Forgoes, LoadsRaw, Frames
<1>2. CASE RejectsRow(r) \/ EndsRows(r) \/ Refused(r) \/ Tells(r)
  BY <1>2 DEF RejectsRow, EndsRows, Refused, Tells, Valid, Staged
<1>3. CASE Inserts(r)
  <2>1. staged[r] \in Seq(Insertion)
    BY DEF Typed, TablesTyped
  <2>2. staged'[r] # <<>>
    BY <1>3, <2>1, Appended DEF Inserts
  <2> QED
    BY <1>3, <2>2 DEF Inserts
<1>4. CASE Saves(r)
  BY <1>4, Names DEF Saves
<1>5. CASE Passes(r) \/ Finishes(r)
  BY <1>5 DEF Passes, Finishes
<1> QED
  BY <1>1, <1>2, <1>3, <1>4, <1>5 DEF Moves

(* -------------------------- the quarantine --------------------------- *)

Quarantined(r, row) == \E j \in 1..Len(quarantined[r]) : quarantined[r][j].row = row

(* The rows have been validated, or are past it. *)
Validated(r) ==
  \/ checkpoint[r][Valid] # None \/ staged[r] # <<>>
  \/ Stands(r, Valid, "save") \/ Stands(r, Valid, "returned")
  \/ run[r].at = Staged
Sorted(r) ==
  /\ Validated(r) => \A row \in 1..InvalidRows : Quarantined(r, row)
  /\ Stands(r, Valid, "rows") =>
       \A row \in 1..InvalidRows : row < run[r].row => Quarantined(r, row)

LEMMA MoveSorted ==
  ASSUME Typed, NEW r \in Runs, Sorted(r), Moves(r), ~Strike("quarantine")
  PROVE  Sorted(r)'
<1>0. run[r].at \in Assets /\ run[r].row \in Nat /\ InvalidRows \in Nat
  BY PipelineAssumption DEF Typed, RunTyped, RunRecord
<1>1. ASSUME quarantined'[r] = quarantined[r], Validated(r)' => Validated(r),
             ~Stands(r, Valid, "rows")'
      PROVE  Sorted(r)'
  BY <1>1 DEF Sorted, Quarantined
<1>2. CASE Restarts(r) \/ Halts(r) \/ Reuses(r) \/ Forgoes(r) \/ LoadsRaw(r)
  <2>1. Leaves /\ ~Stands(r, Valid, "rows")'
    BY <1>2, Names DEF Restarts, Halts, Reuses, Forgoes, LoadsRaw, Goes, Stands
  <2>2. Validated(r)' => Validated(r)
    BY <1>2, <2>1, Names DEF Restarts, Halts, Reuses, Forgoes, LoadsRaw, Goes, Stands, Leaves,
      Validated, Staged, Valid
  <2> QED
    BY <1>1, <2>1, <2>2 DEF Leaves
<1>3. CASE Frames(r)
  <2>1. CASE run[r].at = Valid
    <3>1. run'[r].row = 1 /\ Stands(r, Valid, "rows")' /\ Leaves
      BY <1>3, <2>1 DEF Frames, Goes, Stands, Valid, Staged
    <3>2. Validated(r)' => Validated(r)
      BY <2>1, <3>1 DEF Validated, Stands, Leaves, Valid, Staged
    <3> QED
      BY <3>1, <3>2 DEF Sorted, Quarantined, Leaves
  <2>2. CASE run[r].at # Valid
    <3>1. Leaves /\ ~Stands(r, Valid, "rows")' /\ run'[r].at = run[r].at
      BY <1>3, <2>2 DEF Frames, Goes, Stands
    <3>2. Validated(r)' => Validated(r)
      BY <2>2, <3>1 DEF Validated, Stands, Leaves
    <3> QED
      BY <1>1, <3>1, <3>2 DEF Leaves
  <2> QED
    BY <2>1, <2>2
(* The loop over the invalid rows: one more, and the end of it. *)
<1>4. CASE RejectsRow(r)
  <2> DEFINE entry == [row |-> run[r].row, origin |-> run[r].data]
  <2>1. quarantined[r] \in Seq(Rejected)
    BY DEF Typed, TablesTyped
  <2>2. quarantined'[r] = Append(quarantined[r], entry)
    BY <1>4 DEF RejectsRow
  <2>3. entry.row = run[r].row
    OBVIOUS
  <2> HIDE DEF entry
  <2>4. /\ quarantined'[r][Len(quarantined'[r])] = entry
        /\ Len(quarantined'[r]) \in 1..Len(quarantined'[r])
    BY <2>1, <2>2, Appended
  <2>5. ASSUME NEW row, row = run[r].row PROVE Quarantined(r, row)'
    BY <2>3, <2>4, <2>5 DEF Quarantined
  <2>6. ASSUME NEW row, Quarantined(r, row) PROVE Quarantined(r, row)'
    <3>1. PICK j \in 1..Len(quarantined[r]) : quarantined[r][j].row = row
      BY <2>6 DEF Quarantined
    <3>2. j \in 1..Len(quarantined'[r]) /\ quarantined'[r][j] = quarantined[r][j]
      BY <2>1, <2>2, Appended
    <3> QED
      BY <3>1, <3>2 DEF Quarantined
  <2>7. Validated(r)' => Validated(r)
    BY <1>4 DEF RejectsRow, Stands, Goes, Validated, Valid, Staged
  <2>8. ASSUME NEW row \in 1..InvalidRows, row < run'[r].row
        PROVE  row = run[r].row \/ row < run[r].row
    BY <1>0, <1>4, <2>8 DEF RejectsRow
  <2>9. Stands(r, Valid, "rows")
    BY <1>4 DEF RejectsRow
  <2> QED
    BY <2>5, <2>6, <2>7, <2>8, <2>9 DEF Sorted
<1>5. CASE EndsRows(r)
  <2>1. /\ run[r].row > InvalidRows /\ Stands(r, Valid, "rows")
        /\ Leaves /\ ~Stands(r, Valid, "rows")'
    BY <1>5 DEF EndsRows, Goes, Stands
  <2>2. \A row \in 1..InvalidRows : row < run[r].row
    BY <1>0, <2>1
  <2>3. \A row \in 1..InvalidRows : Quarantined(r, row)
    BY <2>1, <2>2 DEF Sorted
  <2> QED
    BY <2>1, <2>3 DEF Sorted, Quarantined, Leaves
<1>6. CASE Inserts(r) \/ Refused(r) \/ Tells(r) \/ Passes(r) \/ Finishes(r)
  <2>1. quarantined'[r] = quarantined[r] /\ ~Stands(r, Valid, "rows")'
    BY <1>6 DEF Inserts, Refused, Tells, Passes, Finishes, Stands, Goes, Leaves,
      Valid, Staged
  <2>2. Validated(r)' => Validated(r)
    BY <1>0, <1>6 DEF Inserts, Refused, Tells, Passes, Finishes, Stands, Goes, Leaves,
      Validated, Valid, Staged, Assets
  <2> QED
    BY <1>1, <2>1, <2>2
<1>7. CASE Saves(r)
  <2>1. quarantined'[r] = quarantined[r] /\ ~Stands(r, Valid, "rows")'
    BY <1>7 DEF Saves, Stands, Goes
  <2>2. checkpoint'[r][Valid] # None => checkpoint[r][Valid] # None \/ run[r].at = Valid
    BY <1>7 DEF Saves, Valid, Assets
  <2>3. Validated(r)' => Validated(r)
    BY <1>7, <2>2 DEF Saves, Stands, Goes, Validated, Valid, Staged
  <2> QED
    BY <1>1, <2>1, <2>3
<1> QED
  BY <1>2, <1>3, <1>4, <1>5, <1>6, <1>7 DEF Moves

(* ------------------------- one set of raw rows ----------------------- *)

(* The frame of cleaned_ingestion_data is the first a run keeps when it    *)
(* reads a file; until its checkpoint is there nothing depends on it.      *)
Cleaned == 2
Unsourced(r) ==
  /\ run[r].at <= Cleaned /\ ~Stands(r, Cleaned, "returned")
  /\ \A a \in Assets \ {Raw} : checkpoint[r][a] = None
  /\ staged[r] = <<>> /\ quarantined[r] = <<>>

(* From then on every frame of the run has the origin of that one. *)
FramesFrom(r, origin) ==
  /\ \A a \in Assets \ {Raw} : checkpoint[r][a] \in {None, origin}
  /\ run[r].at > Cleaned => run[r].data = origin
  /\ run[r].at >= Cleaned /\ run[r].pc \in Building \cup {"returned"} =>
       run[r].out = origin
RowsFrom(r, origin) ==
  /\ \A i \in 1..Len(staged[r]) : staged[r][i].origin = origin
  /\ \A j \in 1..Len(quarantined[r]) : quarantined[r][j].origin = origin

Sourced(r, origin) ==
  checkpoint[r][Cleaned] = origin /\ FramesFrom(r, origin) /\ RowsFrom(r, origin)
OneSource(r) == Unsourced(r) \/ \E origin \in Origin : Sourced(r, origin)

(* A run that has no frame yet may only go through its first two assets.   *)
LEMMA MoveUnsourced ==
  ASSUME Typed, NEW r \in Runs, Unsourced(r), Moves(r), ~Strike("checkpoint")
  PROVE  OneSource(r)'
<1>0. /\ run[r].at \in {Raw, Cleaned} /\ Raw = 1 /\ Cleaned \in Assets \ {Raw}
      /\ Valid # Cleaned /\ Staged # Cleaned /\ Valid > Cleaned /\ Staged > Cleaned
  BY DEF Typed, RunTyped, RunRecord, Unsourced, Assets, Raw, Cleaned, Valid, Staged
<1>1. ASSUME run'[r].at <= Cleaned, ~Stands(r, Cleaned, "returned")', Leaves
      PROVE  OneSource(r)'
  BY <1>1 DEF OneSource, Unsourced, Leaves
<1>2. CASE Restarts(r) \/ Halts(r) \/ Reuses(r) \/ Forgoes(r) \/ LoadsRaw(r) \/ Frames(r)
  <2>1. run'[r].at <= Cleaned /\ Leaves
    BY <1>0, <1>2 DEF Restarts, Halts, Reuses, Forgoes, LoadsRaw, Frames, Goes, Cleaned, Raw
  <2>2. ~Stands(r, Cleaned, "returned")'
    BY <1>0, <1>2 DEF Restarts, Halts, Reuses, Forgoes, LoadsRaw, Frames, Goes, Stands,
      Unsourced
  <2> QED
    BY <1>1, <2>1, <2>2
<1>3. CASE RejectsRow(r) \/ EndsRows(r) \/ Inserts(r) \/ Refused(r) \/ Tells(r)
           \/ Finishes(r)
  BY <1>0, <1>3, Names DEF RejectsRow, EndsRows, Inserts, Refused, Tells, Finishes, Stands
<1>4. CASE Passes(r)
  <2>1. run[r].at = Raw
    BY <1>0, <1>4 DEF Passes, Unsourced, Stands
  <2>2. run'[r].at = Cleaned /\ run'[r].pc = "ready" /\ Leaves
    BY <1>0, <1>4, <2>1 DEF Passes, Cleaned
  <2>3. ~Stands(r, Cleaned, "returned")' /\ run'[r].at <= Cleaned
    BY <2>2 DEF Stands, Cleaned
  <2> QED
    BY <1>1, <2>2, <2>3
<1>5. CASE Saves(r)
  <2>1. \A a \in Assets :
          checkpoint'[r][a] = IF a = run[r].at THEN run[r].out ELSE checkpoint[r][a]
    BY <1>5 DEF Saves
  <2>2. CASE run[r].at = Raw
    BY <1>0, <1>5, <2>1, <2>2 DEF Saves, Goes, OneSource, Unsourced, Stands, Cleaned
  <2>3. CASE run[r].at = Cleaned
    <3>1. PICK origin \in Origin : origin = run[r].out
      BY <1>5, Names DEF Saves, Typed, RunTyped, HasFrames
    <3>2. checkpoint'[r][Cleaned] = origin
      BY <1>0, <2>1, <2>3, <3>1
    <3>3. FramesFrom(r, origin)'
      BY <1>0, <1>5, <2>1, <2>3, <3>1 DEF Saves, Goes, Unsourced, FramesFrom, Cleaned
    <3>4. RowsFrom(r, origin)'
      BY <1>5 DEF Saves, Unsourced, RowsFrom
    <3> QED
      BY <3>2, <3>3, <3>4 DEF OneSource, Sourced
  <2> QED
    BY <1>0, <2>2, <2>3
<1> QED
  BY <1>2, <1>3, <1>4, <1>5 DEF Moves

(* A run that has its frame keeps it. *)
LEMMA MoveSourced ==
  ASSUME Typed, NEW r \in Runs, NEW origin \in Origin, Working(r),
         Struck("unreadable") = 0, Sourced(r, origin), Moves(r),
         ~Strike("checkpoint"), ~Strike("unreadable")
  PROVE  Sourced(r, origin)'
<1>0. /\ run[r].at \in Assets /\ Raw = 1 /\ Cleaned \in Assets \ {Raw}
      /\ Valid > Cleaned /\ Staged > Cleaned /\ None # origin
      /\ run[r].at # Raw => run[r].at \in Assets \ {Raw} /\ run[r].at >= Cleaned
  BY PipelineAssumption
  DEF Typed, RunTyped, RunRecord, Assets, Raw, Cleaned, Valid, Staged, Origin
<1>1. ASSUME Leaves PROVE RowsFrom(r, origin)' /\ checkpoint'[r] = checkpoint[r]
  BY <1>1 DEF Leaves, Sourced, RowsFrom
<1>2. ASSUME checkpoint'[r] = checkpoint[r], RowsFrom(r, origin)',
             run'[r].at > Cleaned => run'[r].data = origin,
             run'[r].at >= Cleaned /\ run'[r].pc \in Building \cup {"returned"} =>
               run'[r].out = origin
      PROVE  Sourced(r, origin)'
  BY <1>2 DEF Sourced, FramesFrom
<1>3. run[r].at = Cleaned => run[r].pc \notin Building
  BY <1>0 DEF Sourced, Working
<1>15. run[r].pc # "unread" /\ ~Forgoes(r)
  BY DEF Working, Forgoes
<1>4. CASE Restarts(r)
  BY <1>1, <1>2, <1>4 DEF Restarts, Raw, Cleaned
<1>5. CASE Halts(r)
  BY <1>1, <1>2, <1>5, Names DEF Halts, Sourced, FramesFrom
<1>6. CASE Reuses(r)
  BY <1>0, <1>1, <1>2, <1>6 DEF Reuses, Goes, Sourced, FramesFrom, Cleaned
<1>7. CASE LoadsRaw(r)
  BY <1>0, <1>1, <1>2, <1>7 DEF LoadsRaw, Goes, Cleaned
<1>8. CASE Frames(r)
  <2>1. Leaves /\ run'[r].at = run[r].at /\ run'[r].data = run[r].data
        /\ run'[r].out = run[r].data
    BY <1>8 DEF Frames, Goes
  <2>2. run[r].at # Cleaned
    BY <1>0, <1>8, <1>15 DEF Frames, Sourced
  <2>3. CASE run[r].at > Cleaned
    BY <1>1, <1>2, <2>1, <2>3 DEF Sourced, FramesFrom
  <2> QED
    BY <1>0, <1>8, <2>2, <2>3 DEF Frames, Cleaned, Assets
(* What is written has the origin of the frame at hand. *)
<1>9. CASE RejectsRow(r)
  <2> DEFINE entry == [row |-> run[r].row, origin |-> run[r].data]
  <2>1. quarantined[r] \in Seq(Rejected)
    BY DEF Typed, TablesTyped
  <2>2. quarantined'[r] = Append(quarantined[r], entry)
    BY <1>9 DEF RejectsRow
  <2>3. entry.origin = origin
    BY <1>0, <1>9 DEF RejectsRow, Stands, Sourced, FramesFrom
  <2> HIDE DEF entry
  <2>4. RowsFrom(r, origin)'
    BY <1>9, <2>1, <2>2, <2>3, Appended DEF RejectsRow, Sourced, RowsFrom
  <2> QED
    BY <1>2, <1>9, <2>4, Names DEF RejectsRow, Stands, Goes, Sourced, FramesFrom
<1>10. CASE Inserts(r)
  <2>1. PICK store \in {"pg", "sqlite"} :
          staged'[r] = Append(staged[r], [store |-> store, origin |-> run[r].data])
    BY <1>10 DEF Inserts
  <2> DEFINE entry == [store |-> store, origin |-> run[r].data]
  <2>2. staged[r] \in Seq(Insertion)
    BY DEF Typed, TablesTyped
  <2>3. entry.origin = origin
    BY <1>0, <1>10 DEF Inserts, Stands, Sourced, FramesFrom
  <2>4. staged'[r] = Append(staged[r], entry)
    BY <2>1
  <2> HIDE DEF entry
  <2>5. RowsFrom(r, origin)'
    BY <1>10, <2>2, <2>3, <2>4, Appended DEF Inserts, Sourced, RowsFrom
  <2> QED
    BY <1>2, <1>10, <2>5, Names DEF Inserts, Stands, Goes, Sourced, FramesFrom
<1>11. CASE EndsRows(r) \/ Refused(r) \/ Tells(r)
  BY <1>1, <1>2, <1>11, Names
  DEF EndsRows, Refused, Tells, Stands, Goes, Sourced, FramesFrom
<1>12. CASE Saves(r)
  <2>1. \A a \in Assets :
          checkpoint'[r][a] = IF a = run[r].at THEN run[r].out ELSE checkpoint[r][a]
    BY <1>12 DEF Saves
  <2>2. run[r].at # Cleaned
    BY <1>3, <1>12, Names DEF Saves
  <2>3. run[r].at # Raw => run[r].out = origin
    BY <1>0, <1>12, Names DEF Saves, Sourced, FramesFrom
  <2>4. /\ checkpoint'[r][Cleaned] = origin
        /\ \A a \in Assets \ {Raw} : checkpoint'[r][a] \in {None, origin}
    BY <1>0, <2>1, <2>2, <2>3 DEF Sourced, FramesFrom
  <2>5. RowsFrom(r, origin)'
    BY <1>12 DEF Saves, Sourced, RowsFrom
  <2>6. /\ run'[r].at > Cleaned => run'[r].data = origin
        /\ run'[r].at >= Cleaned => run'[r].out = origin
    BY <1>0, <1>12, <2>3 DEF Saves, Goes, Sourced, FramesFrom, Cleaned
  <2> QED
    BY <2>4, <2>5, <2>6 DEF Sourced, FramesFrom
<1>13. CASE Passes(r)
  <2>1. run'[r].pc \notin Building \cup {"returned"} /\ Leaves
    BY <1>13, Names DEF Passes
  <2>2. run'[r].at > Cleaned => run'[r].data = origin
    <3>1. run'[r].at > Cleaned => run[r].at >= Cleaned
      BY <1>0, <1>13 DEF Passes, Cleaned, Staged, Assets
    <3> QED
      BY <1>13, <3>1 DEF Passes, Sourced, FramesFrom
  <2> QED
    BY <1>1, <1>2, <2>1, <2>2
<1>14. CASE Finishes(r)
  BY <1>0, <1>1, <1>2, <1>14, Names DEF Finishes, Stands, Sourced, FramesFrom
<1> QED
  BY <1>4, <1>5, <1>6, <1>7, <1>8, <1>9, <1>10, <1>11, <1>12, <1>13, <1>14, <1>15
  DEF Moves

(* --------------------------- the invariant --------------------------- *)

(* What holds of a run unless a fault struck that can break it.            *)
Kept(r) ==
  /\ Struck("sqlite") = 0 => Landed(r)
  /\ Struck("quarantine") = 0 => Sorted(r)
  /\ Struck("checkpoint") = 0 /\ Struck("unreadable") = 0 => OneSource(r)
KeptInv == \A r \in Runs : Kept(r)

LEMMA InitKept == Init => KeptInv
<1> SUFFICES ASSUME Init, NEW r \in Runs PROVE Kept(r)
  BY DEF KeptInv
<1>1. /\ run[r].pc = "ready" /\ run[r].status = "new" /\ run[r].at = Raw
      /\ staged[r] = <<>> /\ quarantined[r] = <<>>
      /\ \A a \in Assets : checkpoint[r][a] = None
  BY DEF Init, Fresh
<1>2. Landed(r) /\ Sorted(r)
  BY <1>1, Names DEF Landed, Landing, Saved, Sorted, Validated, Stands, Valid, Assets
<1>3. OneSource(r)
  BY <1>1 DEF OneSource, Unsourced, Stands, Cleaned, Raw
<1> QED
  BY <1>2, <1>3 DEF Kept

(* A step of another run, the death of the process and no step at all      *)
(* leave what a run has to itself.                                         *)
LEMMA SameLanded ==
  ASSUME NEW r \in Runs, Landed(r), run[r] \in RunRecord,
         \/ run'[r] = run[r]
         \/ run'[r] = [run[r] EXCEPT !.status = "dead"],
         checkpoint'[r] = checkpoint[r], staged'[r] = staged[r],
         quarantined'[r] = quarantined[r]
  PROVE  Landed(r)'
<1>1. /\ run'[r].at = run[r].at /\ run'[r].pc = run[r].pc
      /\ run'[r].status = "completed" => run[r].status = "completed"
  BY DEF RunRecord
<1> QED
  BY <1>1 DEF Landed, Landing, Saved, Stands

LEMMA SameSorted ==
  ASSUME NEW r \in Runs, run[r] \in RunRecord,
         \/ run'[r] = run[r]
         \/ run'[r] = [run[r] EXCEPT !.status = "dead"],
         checkpoint'[r] = checkpoint[r], staged'[r] = staged[r],
         quarantined'[r] = quarantined[r]
  PROVE  /\ Sorted(r) => Sorted(r)'
         /\ OneSource(r) => OneSource(r)'
<1>1. /\ run'[r].at = run[r].at /\ run'[r].pc = run[r].pc /\ run'[r].row = run[r].row
      /\ run'[r].data = run[r].data /\ run'[r].out = run[r].out
  BY DEF RunRecord
<1>2. Sorted(r) => Sorted(r)'
  BY <1>1 DEF Sorted, Validated, Quarantined, Stands
<1>3. Unsourced(r) => Unsourced(r)'
  BY <1>1 DEF Unsourced, Stands
<1>4. \A origin \in Origin : Sourced(r, origin) => Sourced(r, origin)'
  BY <1>1 DEF Sourced, FramesFrom, RowsFrom
<1> QED
  BY <1>2, <1>3, <1>4 DEF OneSource

LEMMA NextKept == Inv /\ Inv' /\ KeptInv /\ [Next]_vars => KeptInv'
<1> SUFFICES ASSUME Inv, Inv', KeptInv, [Next]_vars, NEW q \in Runs
             PROVE  Kept(q)'
  BY DEF KeptInv
<1>0. /\ Typed /\ Typed' /\ Kept(q) /\ Working(q)
      /\ run[q] \in RunRecord
  BY DEF Inv, KeptInv, Counts, Typed, RunTyped
<1>1. Sound \/ \E kind \in Faults : Strike(kind)
  BY DEF Next, vars, Crash, Step, Retry, Begin, Reuse, Unreadable, LoadRaw, Transform,
    Validate, QuarantineRow, StageFile, StageDb, StageFallback, Announce,
    SaveCheckpoint, Return, Check, Complete, Sound, Strike
<1>2. ASSUME NEW kind, Struck(kind)' = 0
      PROVE  Struck(kind) = 0 /\ ~Strike(kind)
  BY <1>0, <1>1, <1>2, NotStruck DEF Typed
<1>3. ASSUME \/ run'[q] = run[q]
             \/ run'[q] = [run[q] EXCEPT !.status = "dead"],
             checkpoint'[q] = checkpoint[q], staged'[q] = staged[q],
             quarantined'[q] = quarantined[q]
      PROVE  Kept(q)'
  <2>1. Landed(q) => Landed(q)'
    BY <1>0, <1>3, SameLanded
  <2>2. (Sorted(q) => Sorted(q)') /\ (OneSource(q) => OneSource(q)')
    BY <1>0, <1>3, SameSorted
  <2> QED
    BY <1>0, <1>2, <2>1, <2>2 DEF Kept
<1>4. CASE UNCHANGED vars
  BY <1>3, <1>4 DEF vars
<1>5. CASE Crash
  BY <1>3, <1>5 DEF Crash, tables
<1>6. ASSUME NEW r \in Runs, r # q, Step(r) \/ Retry(r) PROVE Kept(q)'
  BY <1>0, <1>3, <1>6, OtherRuns
<1>7. CASE Step(q) \/ Retry(q)
  <2>1. Moves(q)
    BY <1>0, <1>7, StepMoves
  <2>2. Struck("sqlite")' = 0 => Landed(q)'
    BY <1>0, <1>2, <2>1, MoveLanded DEF Kept
  <2>3. Struck("quarantine")' = 0 => Sorted(q)'
    BY <1>0, <1>2, <2>1, MoveSorted DEF Kept
  <2>4. Struck("checkpoint")' = 0 /\ Struck("unreadable")' = 0 => OneSource(q)'
    <3>1. SUFFICES ASSUME Struck("checkpoint")' = 0, Struck("unreadable")' = 0
                   PROVE  OneSource(q)'
      OBVIOUS
    <3>2. /\ OneSource(q) /\ ~Strike("checkpoint") /\ ~Strike("unreadable")
          /\ Struck("unreadable") = 0
      BY <1>0, <1>2, <3>1 DEF Kept
    <3>3. ASSUME NEW origin \in Origin, Sourced(q, origin) PROVE OneSource(q)'
      <4>1. Sourced(q, origin)'
        BY <1>0, <2>1, <3>2, <3>3, MoveSourced
      <4> QED
        BY <4>1 DEF OneSource
    <3> QED
      BY <1>0, <2>1, <3>2, <3>3, MoveUnsourced DEF OneSource
  <2> QED
    BY <2>2, <2>3, <2>4 DEF Kept
<1> QED
  BY <1>4, <1>5, <1>6, <1>7 DEF Next

LEMMA KeptThroughout == Spec => []KeptInv
BY InitKept, NextKept, Inductive, PTL DEF Spec

(* A run that completed has its rows in a staging table, unless SQLite     *)
(* refused them after PostgreSQL had.                                      *)
THEOREM CompletedRunsAreStaged == Spec => []CompletedIsStaged
<1>1. Typed /\ KeptInv => CompletedIsStaged
  <2> SUFFICES ASSUME Typed, KeptInv, NEW r \in Runs, run[r].status = "completed",
                      staged[r] = <<>>
               PROVE  Struck("sqlite") > 0
    BY DEF CompletedIsStaged
  <2>1. Struck("sqlite") \in Nat
    BY PipelineAssumption DEF Typed, FaultsTyped, Struck
  <2>2. ~Landed(r)
    BY DEF Landed, Landing, Stands
  <2> QED
    BY <2>1, <2>2 DEF KeptInv, Kept
<1>2. Inv => Typed
  BY DEF Inv
<1> QED
  BY <1>1, <1>2, Inductive, KeptThroughout, PTL

(* Unless the quarantine refused a row, every invalid row of a batch is in *)
(* quarantine once its valid rows are staged.                              *)
THEOREM RejectedRowsAreKept == Spec => []RejectedKeptUnlessRefused
<1>1. KeptInv => RejectedKeptUnlessRefused
  BY DEF KeptInv, Kept, Sorted, Validated, Quarantined, RejectedKeptUnlessRefused,
    RejectedKept
<1> QED
  BY <1>1, KeptThroughout, PTL

(* All that a run stages and puts in quarantine has one origin, whatever   *)
(* the raw file was in each of its attempts, unless a checkpoint was lost  *)
(* or could not be read.                                                   *)
THEOREM OneSourceOfRows == Spec => []OneOrigin
<1>1. Typed /\ KeptInv => OneOrigin
  <2> SUFFICES ASSUME Typed, KeptInv, NEW r \in Runs,
                      NEW i \in 1..Len(staged[r]), NEW j \in 1..Len(quarantined[r]),
                      ~(Struck("checkpoint") + Struck("unreadable") > 0)
               PROVE  staged[r][i].origin = quarantined[r][j].origin
    BY DEF OneOrigin
  <2>1. Struck("checkpoint") \in Nat /\ Struck("unreadable") \in Nat
    BY PipelineAssumption DEF Typed, FaultsTyped, Struck
  <2>2. OneSource(r)
    BY <2>1 DEF KeptInv, Kept
  <2>3. ~Unsourced(r)
    <3>1. SUFFICES ASSUME staged[r] = <<>> PROVE FALSE
      BY DEF Unsourced
    <3> QED
      BY <3>1
  <2> QED
    BY <2>2, <2>3 DEF OneSource, Sourced, RowsFrom
<1>2. Inv => Typed
  BY DEF Inv
<1> QED
  BY <1>1, <1>2, Inductive, KeptThroughout, PTL
=============================================================================

--------------------------- MODULE RunTrackerProofs ---------------------------
(***************************************************************************)
(* What TLAPS proves of RunTracker, for any sets of runs and threads, any  *)
(* number of steps, retries and crashes, with a disk that fails or not:    *)
(* one attempt at a time; why a run failed is on record; and as long as    *)
(* SQLite takes what it is given, nothing that is known of a run is        *)
(* forgotten and a completed run stays completed, whatever the cache,      *)
(* polls, retries and crashes do.                                          *)
(***************************************************************************)
EXTENDS RunTracker, FiniteSetTheorems, TLAPS

-----------------------------------------------------------------------------
(* The mutators of the tracker yield records. *)

(* There are finitely many step keys, one per position of the pipeline. *)
LEMMA StepKeysFinite == IsFiniteSet(StepKeys)
<1>1. IsFiniteSet(1..Len(Steps))
  BY StepsAssumption, FS_Interval
<1>2. Steps \in Surjection(1..Len(Steps), StepKeys)
  BY StepsAssumption DEF Surjection, StepKeys
<1>. QED  BY <1>1, <1>2, FS_Surjection

(* The progress computed from any number of steps is a percentage. *)
LEMMA PercentType == \A n \in Nat : Percent(n) \in 0..100
<1>. SUFFICES ASSUME NEW n \in Nat PROVE Percent(n) \in 0..100
  OBVIOUS
<1>. DEFINE total == IF TotalSteps > 1 THEN TotalSteps ELSE 1
            pct == (n * 100) \div total
<1>1. total \in Nat /\ total > 0
  BY NumberAssumption
<1>2. n * 100 \in Nat
  OBVIOUS
<1>. HIDE DEF total
<1>3. pct \in Nat
  BY <1>1, <1>2
<1>. HIDE DEF pct
<1>4. (IF pct > 99 THEN 99 ELSE pct) \in 0..100
  BY <1>3
<1>. QED  BY <1>4 DEF Percent, total, pct

(* A registered record is a record. *)
LEMMA NewRecordType ==
  ASSUME NEW p \in {"cleaning_pipeline", "er_pipeline", "pipeline"},
         NEW s \in {"queued", "running", "completed", "failed"},
         NEW o \in {"unset", "on", "off"}
  PROVE  NewRecord(p, s, o) \in RunRecord
BY DEF NewRecord, RunRecord

(* Each mutator of the tracker maps records to records. *)
LEMMA MutatorTypes ==
  ASSUME NEW rec \in RunRecord
  PROVE  /\ Started(rec) \in RunRecord
         /\ \A s \in StepKeys : StepDone(rec, s) \in RunRecord
         /\ Completed(rec) \in RunRecord
         /\ \A s \in StepKeys : StepFailed(rec, s) \in RunRecord
         /\ \A e \in Errors, s \in StepKeys \cup {None} :
              Failed(rec, e, s) \in RunRecord
         /\ Retried(rec) \in RunRecord
<1>1. /\ Started(rec) \in RunRecord
      /\ Completed(rec) \in RunRecord
      /\ Retried(rec) \in RunRecord
  <2>1. Started(rec) \in RunRecord
    BY DEF Started, RunRecord
  <2>2. Completed(rec) \in RunRecord
    <3>1. 100 \in 0..100
      OBVIOUS
    <3>. QED  BY <3>1 DEF Completed, RunRecord
  <2>3. Retried(rec) \in RunRecord
    <3>1. rec.retry_count + 1 \in Nat
      BY DEF RunRecord
    <3>. QED  BY <3>1 DEF Retried, RunRecord
  <2>. QED  BY <2>1, <2>2, <2>3
<1>2. ASSUME NEW s \in StepKeys PROVE StepDone(rec, s) \in RunRecord
  <2>. DEFINE steps == rec.steps \cup {s}
  <2>1. steps \in SUBSET StepKeys
    BY DEF RunRecord
  <2>2. Cardinality(steps) \in Nat
    BY <2>1, StepKeysFinite, FS_Subset, FS_CardinalityType
  <2>3. Percent(Cardinality(steps)) \in 0..100
    BY <2>2, PercentType
  <2>. HIDE DEF steps
  <2>4. [rec EXCEPT !.steps = steps, !.current_step = s,
                    !.progress = Percent(Cardinality(steps))] \in RunRecord
    BY <2>1, <2>3 DEF RunRecord
  <2>. QED  BY <2>4 DEF StepDone, steps
<1>3. ASSUME NEW s \in StepKeys PROVE StepFailed(rec, s) \in RunRecord
  <2>. DEFINE entry == [step |-> s, error |-> s,
                        retry_count |-> rec.retry_count]
  <2>1. entry \in HistoryEntry
    BY DEF RunRecord, HistoryEntry, Errors
  <2>. HIDE DEF entry
  <2>2. Append(rec.history, entry) \in Seq(HistoryEntry)
    BY <2>1 DEF RunRecord
  <2>3. s \in Errors
    BY DEF Errors
  <2>. QED  BY <2>2, <2>3 DEF StepFailed, RunRecord, entry
<1>4. ASSUME NEW e \in Errors, NEW s \in StepKeys \cup {None}
      PROVE Failed(rec, e, s) \in RunRecord
  <2>. DEFINE at == IF s # None THEN s
                    ELSE IF rec.failed_step = None THEN rec.current_step
                    ELSE rec.failed_step
              entry == [step |-> IF at = None THEN "pipeline" ELSE at,
                        error |-> e, retry_count |-> rec.retry_count]
  <2>1. at \in StepKeys \cup {None}
    BY DEF RunRecord
  <2>. HIDE DEF at
  <2>2. entry \in HistoryEntry
    BY <2>1 DEF RunRecord, HistoryEntry
  <2>. HIDE DEF entry
  <2>. DEFINE history == IF LastError(rec) # e THEN Append(rec.history, entry)
                         ELSE rec.history
  <2>3. history \in Seq(HistoryEntry)
    BY <2>2 DEF RunRecord
  <2>. HIDE DEF history
  <2>4. [rec EXCEPT !.status = "failed", !.error = e, !.failed_step = at,
                    !.history = history] \in RunRecord
    BY <2>1, <2>3 DEF RunRecord
  <2>. QED  BY <2>4 DEF Failed, at, entry, history
<1>. QED  BY <1>1, <1>2, <1>3, <1>4

(* What a mutator starts from is a record, wherever it was found. *)
LEMMA CurrentType ==
  ASSUME TypeOK, NEW r \in Runs
  PROVE  Current(r) \in RunRecord
<1>1. NewRecord("pipeline", "queued", "unset") \in RunRecord
  BY NewRecordType
<1>. QED  BY <1>1 DEF Current, TypeOK

(* Saving a record keeps both stores well typed. *)
LEMMA SaveType ==
  ASSUME TypeOK, NEW r \in Runs, NEW rec \in RunRecord, Save(r, rec)
  PROVE  /\ mem' \in [Runs -> RunRecord \cup {None}]
         /\ db' \in [Runs -> RunRecord \cup {None}]
BY DEF Save, TypeOK
-----------------------------------------------------------------------------
(* The inductive invariant, one lemma per action. *)

(* The initial state satisfies the inductive invariant. *)
LEMMA InitIInv == Init => IInv
<1>. SUFFICES ASSUME Init PROVE IInv
  OBVIOUS
<1>. USE DEF Init
<1>1. TypeOK
  BY StepsAssumption, NumberAssumption
  DEF TypeOK, NoResult, Result, IdleLoop
<1>2. AtMostOneAttempt
  BY DEF AtMostOneAttempt
<1>3. ThreadsCoherent /\ TasksLive
  BY DEF ThreadsCoherent, ThreadCoherent, TasksLive
<1>4. LoopCoherent /\ FreshUnknown
  BY DEF LoopCoherent, FreshUnknown, IdleLoop
<1>. QED  BY <1>1, <1>2, <1>3, <1>4 DEF IInv

(* An endpoint that registers a new run under a fresh id and queues its    *)
(* first task: shared by the two trigger endpoints.                        *)
LEMMA RegisterStep ==
  ASSUME IInv, NEW r \in ApiRuns, NEW rec \in RunRecord, NEW j \in Job,
         Fresh(r), rec.status = "queued", j.run = r, loop.pc = "idle",
         issued' = issued \cup {r}, Save(r, rec),
         pending' = pending \cup {j},
         UNCHANGED <<pc, job, result, loop, reply, starts, chained, crashes>>
  PROVE  IInv'
<1>. r \in Runs
  BY DEF Runs
<1>0. TypeOK
  BY DEF IInv
<1>1. TypeOK'
  <2>1. /\ mem' \in [Runs -> RunRecord \cup {None}]
        /\ db' \in [Runs -> RunRecord \cup {None}]
    BY <1>0, SaveType
  <2>. QED  BY <1>0, <2>1 DEF TypeOK
<1>2. mem[r] = None /\ mem'[r] = rec /\ \A q \in Runs : q # r => mem'[q] = mem[q]
  BY <1>0 DEF IInv, FreshUnknown, Fresh, Save, TypeOK
<1>3. rec # None
  BY NoneAssumption
<1>4. /\ \A w \in Threads : job[w] # None => job[w].run # r
      /\ \A p \in pending : p.run # r
      /\ j \in pending' /\ \A p \in pending' : p = j \/ p \in pending
  BY <1>2 DEF IInv, ThreadsCoherent, ThreadCoherent, TasksLive, Fresh
<1>5. AtMostOneAttempt'
  BY <1>4 DEF IInv, AtMostOneAttempt
<1>6. ThreadsCoherent'
  <2>. SUFFICES ASSUME NEW w \in Threads PROVE ThreadCoherent(w)'
    BY DEF ThreadsCoherent
  <2>. QED
    BY <1>0, <1>2, <1>4
    DEF IInv, ThreadsCoherent, ThreadCoherent, Live, Unborn, TypeOK, Job
<1>7. TasksLive'
  BY <1>0, <1>2, <1>3, <1>4 DEF IInv, TasksLive, Live, TypeOK, Job
<1>8. LoopCoherent'
  BY DEF IInv, LoopCoherent
<1>9. FreshUnknown'
  BY <1>2 DEF IInv, FreshUnknown
<1>. QED  BY <1>1, <1>5, <1>6, <1>7, <1>8, <1>9 DEF IInv

(* A registered run and its task, whatever the endpoint: the two POSTs     *)
(* that trigger a pipeline keep the inductive invariant.                   *)
LEMMA TriggerPipelineStep ==
  ASSUME IInv, NEW r \in CleanRuns, NEW opt \in {"unset", "on", "off"},
         TriggerPipeline(r, opt)
  PROVE  IInv'
<1>. DEFINE rec == NewRecord("cleaning_pipeline", "queued", opt)
            j == [fn |-> "clean", run |-> r, auto_er |-> opt # "off",
                  attempt |-> 0]
<1>1. r \in ApiRuns /\ r \in Runs
  BY DEF ApiRuns, Runs
<1>2. rec \in RunRecord /\ rec.status = "queued"
  BY NewRecordType DEF NewRecord
<1>3. j \in Job /\ j.run = r
  BY <1>1 DEF Job
<1>4. /\ Fresh(r) /\ loop.pc = "idle" /\ issued' = issued \cup {r}
      /\ Save(r, rec) /\ pending' = pending \cup {j}
      /\ UNCHANGED <<pc, job, result, loop, reply, starts, chained, crashes>>
  BY DEF TriggerPipeline
<1>. HIDE DEF rec, j
<1>. QED  BY <1>1, <1>2, <1>3, <1>4, RegisterStep

LEMMA TriggerErStep ==
  ASSUME IInv, NEW r \in ErRuns, TriggerEr(r)
  PROVE  IInv'
<1>. DEFINE rec == NewRecord("er_pipeline", "queued", "unset")
            j == [fn |-> "er", run |-> r, auto_er |-> FALSE, attempt |-> 0]
<1>1. r \in ApiRuns /\ r \in Runs
  BY DEF ApiRuns, Runs
<1>2. rec \in RunRecord /\ rec.status = "queued"
  BY NewRecordType DEF NewRecord
<1>3. j \in Job /\ j.run = r
  BY <1>1 DEF Job
<1>4. /\ Fresh(r) /\ loop.pc = "idle" /\ issued' = issued \cup {r}
      /\ Save(r, rec) /\ pending' = pending \cup {j}
      /\ UNCHANGED <<pc, job, result, loop, reply, starts, chained, crashes>>
  BY DEF TriggerEr
<1>. HIDE DEF rec, j
<1>. QED  BY <1>1, <1>2, <1>3, <1>4, RegisterStep

(* A run a thread is executing is nobody else's: the shape shared by the   *)
(* steps in which a thread saves the record of its own run.                *)
LEMMA WorkerStep ==
  ASSUME IInv, NEW w \in Threads, NEW r \in Runs, NEW rec \in RunRecord,
         job[w] # None, job[w].run = r, Live(r) \/ Unborn(r),
         Save(r, rec), UNCHANGED <<issued, pending, loop>>,
         starts' = starts \/ starts' = [starts EXCEPT ![r] = @ + 1],
         \A v \in Threads \ {w} : /\ pc'[v] = pc[v] /\ job'[v] = job[v]
                                  /\ result'[v] = result[v],
         job'[w] = None \/ job'[w].run = r,
         TypeOK', ThreadCoherent(w)'
  PROVE  IInv'
<1>0. TypeOK /\ r \in issued
  BY DEF IInv, ThreadsCoherent, ThreadCoherent
<1>1. rec # None /\ mem'[r] = rec /\ \A q \in Runs : q # r => mem'[q] = mem[q]
  BY <1>0, NoneAssumption DEF Save, TypeOK
<1>2. /\ \A v \in Threads \ {w} : job[v] # None => job[v].run # r
      /\ \A p \in pending : p.run # r
  BY DEF IInv, AtMostOneAttempt
<1>3. \A q \in Runs : /\ starts'[q] >= starts[q]
                      /\ q # r => starts'[q] = starts[q]
  BY <1>0 DEF TypeOK
<1>4. AtMostOneAttempt'
  BY <1>2 DEF IInv, AtMostOneAttempt
<1>5. ThreadsCoherent'
  <2>. SUFFICES ASSUME NEW v \in Threads, v # w PROVE ThreadCoherent(v)'
    BY DEF ThreadsCoherent
  <2>1. job[v] # None => job[v].run \in Runs /\ job[v].run # r
    BY <1>0, <1>2 DEF TypeOK, Job
  <2>2. ThreadCoherent(v)
    BY DEF IInv, ThreadsCoherent
  <2>. QED
    BY <1>1, <1>3, <2>1, <2>2 DEF ThreadCoherent, Live, Unborn
<1>6. TasksLive'
  <2>1. \A j \in pending : j.run \in Runs
    BY <1>0 DEF TypeOK, Job
  <2>. QED  BY <1>1, <1>2, <2>1 DEF IInv, TasksLive, Live
<1>7. LoopCoherent'
  <2>1. LoopCoherent
    BY DEF IInv
  <2>2. loop.pc # "idle" => loop.run \in Runs /\ Known(loop.run)'
    BY <1>0, <1>3, <2>1 DEF LoopCoherent, Known, TypeOK
  <2>3. loop.pc \in {"load", "install", "bump"} => loop.run # r
    BY <1>0, <2>1, IdAssumption DEF LoopCoherent, Known, Live, Unborn
  <2>. QED  BY <1>1, <2>1, <2>2, <2>3 DEF LoopCoherent
<1>8. FreshUnknown'
  BY <1>0, <1>1, <1>3 DEF IInv, FreshUnknown
<1>. QED  BY <1>4, <1>5, <1>6, <1>7, <1>8 DEF IInv

(* A step of the event loop that touches neither the records nor the       *)
(* threads has only itself to account for.                                 *)
LEMMA LoopStep ==
  ASSUME IInv, UNCHANGED <<tracker, issued, threads, starts>>,
         TypeOK', LoopCoherent'
  PROVE  IInv'
<1>. USE DEF tracker, threads
<1>1. AtMostOneAttempt'
  BY DEF IInv, AtMostOneAttempt
<1>2. ThreadsCoherent'
  BY DEF IInv, ThreadsCoherent, ThreadCoherent, Live, Unborn
<1>3. TasksLive' /\ FreshUnknown'
  BY DEF IInv, TasksLive, FreshUnknown, Live
<1>. QED  BY <1>1, <1>2, <1>3 DEF IInv

(* The endpoints' first look at the cache. *)
LEMMA RequestStep ==
  ASSUME IInv, NEW op \in {"status", "retry"}, NEW r \in Runs, Request(op, r)
  PROVE  IInv'
<1>. USE DEF Request, tracker, threads
<1>1. TypeOK'
  BY DEF IInv, TypeOK
<1>2. LoopCoherent'
  BY DEF LoopCoherent, Known
<1>. QED  BY <1>1, <1>2, LoopStep

LEMMA LoadFromDbStep ==
  ASSUME IInv, LoadFromDb
  PROVE  IInv'
<1>. USE DEF LoadFromDb, tracker, threads
<1>0. TypeOK /\ LoopCoherent /\ loop.run \in Runs
  BY DEF IInv, LoopCoherent
<1>1. CASE db[loop.run] = None
  <2>1. 0 \in 0..100
    OBVIOUS
  <2>2. TypeOK'
    BY <1>0, <1>1, <2>1 DEF TypeOK, IdleLoop
  <2>3. LoopCoherent'
    BY <1>1 DEF LoopCoherent, IdleLoop
  <2>. QED  BY <2>2, <2>3, LoopStep
<1>2. CASE db[loop.run] # None
  <2>1. TypeOK'
    BY <1>0, <1>2 DEF TypeOK
  <2>2. loop' = [loop EXCEPT !.pc = "install", !.found = db[loop.run]]
    BY <1>2
  <2>3. loop'.pc = "install" /\ loop'.run = loop.run /\ loop'.found # None
    BY <1>0, <1>2, <2>2 DEF TypeOK
  <2>4. LoopCoherent'
    BY <1>0, <2>3 DEF LoopCoherent, Known
  <2>. QED  BY <2>1, <2>4, LoopStep
<1>. QED  BY <1>1, <1>2

(* The one step that overwrites the cache with a record read earlier: a    *)
(* run whose record is not in memory is executed by nobody, or is a hook   *)
(* run no request can name.                                                *)
LEMMA InstallLoadedStep ==
  ASSUME IInv, InstallLoaded
  PROVE  IInv'
<1>. DEFINE r == loop.run
<1>0. TypeOK /\ LoopCoherent /\ r \in Runs /\ Known(r) /\ mem[r] = None
      /\ loop.found \in RunRecord /\ loop.pc = "install"
  BY DEF IInv, LoopCoherent, InstallLoaded, TypeOK
<1>1. /\ mem' = [mem EXCEPT ![r] = loop.found] /\ mem'[r] = loop.found
      /\ mem'[r] # None
      /\ \A q \in Runs : q # r => mem'[q] = mem[q]
  BY <1>0, NoneAssumption DEF InstallLoaded, TypeOK
<1>2. /\ loop'.pc \in {"status", "check"} /\ loop'.run = r
      /\ UNCHANGED <<db, issued, threads, reply, starts, chained, crashes>>
  BY <1>0 DEF InstallLoaded, TypeOK
<1>3. TypeOK'
  <2>1. mem' \in [Runs -> RunRecord \cup {None}]
    BY <1>0, <1>1 DEF TypeOK
  <2>2. loop' = [loop EXCEPT !.found = None,
                   !.pc = IF loop.op = "status" THEN "status" ELSE "check"]
    BY DEF InstallLoaded
  <2>3. loop' \in [pc : {"idle", "load", "install", "status", "progress",
                         "check", "bump"},
                   op : {"status", "retry"}, run : Runs \cup {None},
                   found : RunRecord \cup {None},
                   seen : {"queued", "running", "completed", "failed", None}]
    BY <1>0, <2>2 DEF TypeOK
  <2>. QED  BY <1>0, <1>2, <2>1, <2>3 DEF TypeOK, threads
<1>4. ~Live(r) /\ ~Unborn(r)
  BY <1>0, IdAssumption DEF Live, Unborn, Known
<1>5. AtMostOneAttempt'
  BY <1>2 DEF IInv, AtMostOneAttempt, threads
<1>. HIDE DEF r
<1>6. ThreadsCoherent'
  <2>. SUFFICES ASSUME NEW w \in Threads PROVE ThreadCoherent(w)'
    BY DEF ThreadsCoherent
  <2>1. ThreadCoherent(w) /\ (job[w] # None => job[w].run \in Runs)
    BY <1>0 DEF IInv, ThreadsCoherent, TypeOK, Job
  <2>2. job[w] # None => job[w].run # r
    BY <1>0, <1>4, <2>1 DEF ThreadCoherent, TypeOK
  <2>. QED
    BY <1>1, <1>2, <2>1, <2>2 DEF ThreadCoherent, Live, Unborn, threads
<1>7. TasksLive'
  <2>1. \A j \in pending : j.run \in Runs /\ j.run # r
    BY <1>0, <1>4 DEF IInv, TasksLive, TypeOK, Job
  <2>. QED  BY <1>1, <1>2, <2>1 DEF IInv, TasksLive, Live, threads
<1>8. LoopCoherent'
  BY <1>0, <1>1, <1>2 DEF LoopCoherent, Known
<1>9. FreshUnknown'
  BY <1>0, <1>1, <1>2 DEF IInv, FreshUnknown, Known
<1>. QED  BY <1>3, <1>5, <1>6, <1>7, <1>8, <1>9 DEF IInv

LEMMA ReadStatusStep ==
  ASSUME IInv, ReadStatus
  PROVE  IInv'
<1>. USE DEF ReadStatus, tracker, threads
<1>0. TypeOK /\ LoopCoherent /\ loop.run \in Runs /\ mem[loop.run] \in RunRecord
  BY DEF IInv, LoopCoherent, TypeOK
<1>1. mem[loop.run].status \in {"queued", "running", "completed", "failed"}
  BY <1>0 DEF RunRecord
<1>2. TypeOK'
  BY <1>0, <1>1 DEF TypeOK
<1>3. LoopCoherent'
  BY <1>0, <1>1 DEF LoopCoherent, Known, TypeOK
<1>. QED  BY <1>2, <1>3, LoopStep

LEMMA ReadProgressStep ==
  ASSUME IInv, ReadProgress
  PROVE  IInv'
<1>. USE DEF ReadProgress, tracker, threads
<1>0. TypeOK /\ LoopCoherent /\ loop.run \in Runs /\ mem[loop.run] \in RunRecord
  BY DEF IInv, LoopCoherent, TypeOK
<1>1. mem[loop.run].progress \in 0..100
  BY <1>0 DEF RunRecord
<1>2. TypeOK'
  <2>1. loop.seen \in {"queued", "running", "completed", "failed"}
    BY <1>0 DEF LoopCoherent, TypeOK
  <2>. QED  BY <1>0, <1>1, <2>1 DEF TypeOK, IdleLoop
<1>3. LoopCoherent'
  BY DEF LoopCoherent, IdleLoop
<1>. QED  BY <1>2, <1>3, LoopStep

LEMMA CheckRetryStep ==
  ASSUME IInv, CheckRetry
  PROVE  IInv'
<1>. USE DEF CheckRetry, tracker, threads
<1>0. TypeOK /\ LoopCoherent
  BY DEF IInv
<1>1. TypeOK'
  BY <1>0 DEF TypeOK, IdleLoop
<1>2. LoopCoherent'
  BY <1>0 DEF LoopCoherent, IdleLoop, RetryAllowed, Known, TypeOK
<1>. QED  BY <1>1, <1>2, LoopStep

(* Retrying: the run was seen "failed", so nobody executes it and the new  *)
(* attempt is the only one.                                                *)
LEMMA RetryRunStep ==
  ASSUME IInv, RetryRun
  PROVE  IInv'
<1>. DEFINE r == loop.run
            rec == Retried(Current(r))
            j == [fn |-> "retry", run |-> r, auto_er |-> FALSE,
                  attempt |-> rec.retry_count]
<1>0. TypeOK /\ LoopCoherent /\ r \in Runs /\ Known(r) /\ r \in issued
      /\ mem[r] # None /\ mem[r].status = "failed"
  BY DEF IInv, LoopCoherent, RetryRun, Known
<1>1. /\ Save(r, rec) /\ pending' = pending \cup {j} /\ loop' = IdleLoop
      /\ UNCHANGED <<issued, pc, job, result, reply, starts, chained, crashes>>
  BY DEF RetryRun
<1>2. rec \in RunRecord
  BY <1>0, CurrentType, MutatorTypes
<1>3. rec.status = "running"
  BY <1>0, <1>2, CurrentType DEF Retried, RunRecord
<1>4. j \in Job /\ j.run = r
  BY <1>0, <1>2 DEF Job, RunRecord
<1>5. ~Live(r) /\ ~Unborn(r)
  BY <1>0, IdAssumption DEF Live, Unborn, Known
<1>. HIDE DEF r, rec, j
<1>6. rec # None /\ mem'[r] = rec /\ \A q \in Runs : q # r => mem'[q] = mem[q]
  BY <1>0, <1>1, <1>2, NoneAssumption DEF Save, TypeOK
<1>7. TypeOK'
  <2>1. /\ mem' \in [Runs -> RunRecord \cup {None}]
        /\ db' \in [Runs -> RunRecord \cup {None}]
    BY <1>0, <1>1, <1>2, SaveType
  <2>. QED  BY <1>0, <1>1, <1>4, <2>1 DEF TypeOK, IdleLoop
<1>8. /\ \A w \in Threads : job[w] # None => job[w].run \in Runs
      /\ \A p \in pending : p.run \in Runs /\ p.run # r
  BY <1>0, <1>5 DEF IInv, TasksLive, TypeOK, Job
<1>9. \A w \in Threads : /\ ThreadCoherent(w)
                         /\ job[w] # None /\ job[w].run = r => pc[w] = "chain"
  BY <1>0, <1>5 DEF IInv, ThreadsCoherent, ThreadCoherent, TypeOK
<1>10. \A w \in Threads : job[w] # None => job[w].run # r
  BY <1>0, <1>9 DEF ThreadCoherent
<1>11. AtMostOneAttempt'
  BY <1>1, <1>4, <1>8, <1>10 DEF IInv, AtMostOneAttempt
<1>12. ThreadsCoherent'
  <2>. SUFFICES ASSUME NEW w \in Threads PROVE ThreadCoherent(w)'
    BY DEF ThreadsCoherent
  <2>. QED
    BY <1>1, <1>6, <1>8, <1>9, <1>10 DEF ThreadCoherent, Live, Unborn
<1>13. TasksLive'
  BY <1>0, <1>1, <1>3, <1>4, <1>6, <1>8 DEF IInv, TasksLive, Live
<1>14. LoopCoherent'
  BY <1>1 DEF LoopCoherent, IdleLoop
<1>15. FreshUnknown'
  BY <1>0, <1>1, <1>6 DEF IInv, FreshUnknown
<1>. QED  BY <1>7, <1>11, <1>12, <1>13, <1>14, <1>15 DEF IInv
-----------------------------------------------------------------------------
(* The threads. *)

(* A thread that acts on a queued task takes it away from everyone else. *)
LEMMA TakeStep ==
  ASSUME IInv, NEW w \in Workers, NEW j \in pending, Take(w, j)
  PROVE  IInv'
<1>. USE DEF Take, tracker
<1>0. TypeOK /\ w \in Threads /\ j \in Job /\ j # None
  BY NoneAssumption DEF IInv, TypeOK, Threads
<1>1. /\ job'[w] = j /\ pc'[w] \in {"retry", "start"}
      /\ \A v \in Threads \ {w} : job'[v] = job[v] /\ pc'[v] = pc[v]
      /\ UNCHANGED <<mem, db, issued, result, loop, reply, starts, chained, crashes>>
  BY <1>0 DEF TypeOK
<1>2. TypeOK'
  BY <1>0 DEF TypeOK
<1>3. AtMostOneAttempt'
  BY <1>0, <1>1 DEF IInv, AtMostOneAttempt
<1>4. ThreadsCoherent'
  <2>. SUFFICES ASSUME NEW v \in Threads PROVE ThreadCoherent(v)'
    BY DEF ThreadsCoherent
  <2>1. CASE v = w
    BY <1>0, <1>1, <2>1 DEF IInv, TasksLive, ThreadCoherent, Live
  <2>2. CASE v # w
    BY <1>1, <2>2 DEF IInv, ThreadsCoherent, ThreadCoherent, Live, Unborn
  <2>. QED  BY <2>1, <2>2
<1>5. TasksLive' /\ FreshUnknown'
  BY <1>1 DEF IInv, TasksLive, Live, FreshUnknown
<1>6. LoopCoherent'
  BY <1>1 DEF IInv, LoopCoherent, Known
<1>. QED  BY <1>2, <1>3, <1>4, <1>5, <1>6 DEF IInv

(* A thread that draws a fresh hook run id and starts on it: the poll      *)
(* thread on a batch-complete message, or a chained ER pipeline.           *)
LEMMA FreshHookStep ==
  ASSUME IInv, NEW w \in Threads, NEW h \in HookRuns, NEW j \in Job,
         Fresh(h), j.run = h, issued' = issued \cup {h},
         job' = [job EXCEPT ![w] = j], pc' = [pc EXCEPT ![w] = "start"],
         \/ UNCHANGED result
         \/ result' = [result EXCEPT ![w] = NoResult],
         chained' \in SUBSET Runs,
         UNCHANGED <<tracker, pending, loop, reply, starts, crashes>>
  PROVE  IInv'
<1>. USE DEF tracker
<1>0. TypeOK /\ j # None /\ h \in Runs
  BY NoneAssumption DEF IInv, Runs
<1>1. /\ job'[w] = j /\ pc'[w] = "start"
      /\ \A v \in Threads \ {w} : /\ job'[v] = job[v] /\ pc'[v] = pc[v]
                                  /\ result'[v] = result[v]
  BY <1>0 DEF TypeOK
<1>2. TypeOK'
  <2>1. NoResult \in Result
    BY StepsAssumption DEF NoResult, Result
  <2>2. result' \in [Threads -> Result]
    BY <1>0, <2>1 DEF TypeOK
  <2>. QED  BY <1>0, <2>2 DEF TypeOK
<1>3. /\ mem[h] = None /\ starts[h] = 0
      /\ \A v \in Threads : job[v] # None => job[v].run # h
      /\ \A p \in pending : p.run # h
  BY <1>0 DEF IInv, FreshUnknown, Fresh, ThreadsCoherent, ThreadCoherent, TasksLive
<1>4. AtMostOneAttempt'
  BY <1>0, <1>1, <1>3 DEF IInv, AtMostOneAttempt
<1>5. ThreadsCoherent'
  <2>. SUFFICES ASSUME NEW v \in Threads PROVE ThreadCoherent(v)'
    BY DEF ThreadsCoherent
  <2>1. CASE v = w
    BY <1>0, <1>1, <1>3, <2>1 DEF ThreadCoherent, Unborn
  <2>2. CASE v # w
    BY <1>1, <2>2 DEF IInv, ThreadsCoherent, ThreadCoherent, Live, Unborn
  <2>. QED  BY <2>1, <2>2
<1>6. TasksLive' /\ FreshUnknown'
  BY DEF IInv, TasksLive, Live, FreshUnknown
<1>7. LoopCoherent'
  BY DEF IInv, LoopCoherent, Known
<1>. QED  BY <1>2, <1>4, <1>5, <1>6, <1>7 DEF IInv

LEMMA KafkaBatchCompleteStep ==
  ASSUME IInv, NEW r \in KafkaRuns, KafkaBatchComplete(r)
  PROVE  IInv'
<1>. DEFINE j == [fn |-> "clean", run |-> r, auto_er |-> FALSE, attempt |-> 0]
<1>1. Poller \in Threads /\ r \in HookRuns /\ r \in Runs
  BY DEF Threads, HookRuns, Runs
<1>2. j \in Job /\ j.run = r
  BY <1>1 DEF Job
<1>3. chained' \in SUBSET Runs
  BY DEF KafkaBatchComplete, IInv, TypeOK
<1>4. /\ Fresh(r) /\ issued' = issued \cup {r}
      /\ job' = [job EXCEPT ![Poller] = j]
      /\ pc' = [pc EXCEPT ![Poller] = "start"] /\ UNCHANGED result
      /\ UNCHANGED <<tracker, pending, loop, reply, starts, crashes>>
  BY DEF KafkaBatchComplete
<1>. HIDE DEF j
<1>. QED  BY <1>1, <1>2, <1>3, <1>4, FreshHookStep

LEMMA ChainErStep ==
  ASSUME IInv, NEW w \in Threads, NEW h \in ChainRuns, ChainEr(w, h)
  PROVE  IInv'
<1>. DEFINE j == [fn |-> "er", run |-> h, auto_er |-> FALSE, attempt |-> 0]
<1>1. h \in HookRuns /\ h \in Runs
  BY DEF HookRuns, Runs
<1>2. j \in Job /\ j.run = h
  BY <1>1 DEF Job
<1>3. chained' \in SUBSET Runs
  <2>1. job[w] # None
    BY DEF ChainEr, IInv, ThreadsCoherent, ThreadCoherent
  <2>. QED  BY <2>1 DEF ChainEr, IInv, TypeOK, Job
<1>4. /\ Fresh(h) /\ issued' = issued \cup {h}
      /\ job' = [job EXCEPT ![w] = j] /\ pc' = [pc EXCEPT ![w] = "start"]
      /\ result' = [result EXCEPT ![w] = NoResult]
      /\ UNCHANGED <<tracker, pending, loop, reply, starts, crashes>>
  BY DEF ChainEr
<1>. HIDE DEF j
<1>. QED  BY <1>1, <1>2, <1>3, <1>4, FreshHookStep

(* What a thread at work knows: its task, its run, and the record of it. *)
LEMMA AtWork ==
  ASSUME IInv, NEW w \in Threads, pc[w] # "idle"
  PROVE  /\ TypeOK /\ ThreadCoherent(w)
         /\ job[w] # None /\ job[w] \in Job /\ job[w].run \in Runs
         /\ Current(job[w].run) \in RunRecord
<1>1. TypeOK /\ ThreadCoherent(w)
  BY DEF IInv, ThreadsCoherent
<1>2. job[w] # None /\ job[w] \in Job /\ job[w].run \in Runs
  BY <1>1 DEF ThreadCoherent, TypeOK, Job
<1>. QED  BY <1>1, <1>2, CurrentType

(* The record of a run that is queued or running, under the mutators a     *)
(* thread applies to its own run.                                          *)
LEMMA MutatorStatus ==
  ASSUME NEW rec \in RunRecord
  PROVE  /\ Started(rec).status = "running"
         /\ \A s \in StepKeys : StepDone(rec, s).status = rec.status
         /\ \A s \in StepKeys : StepFailed(rec, s).status = rec.status
         /\ Completed(rec).status = "completed"
<1>1. Started(rec).status = "running" /\ Completed(rec).status = "completed"
  BY DEF Started, Completed, RunRecord
<1>2. \A s \in StepKeys : StepDone(rec, s).status = rec.status
  BY DEF StepDone, RunRecord
<1>3. \A s \in StepKeys : StepFailed(rec, s).status = rec.status
  BY DEF StepFailed, RunRecord
<1>. QED  BY <1>1, <1>2, <1>3

(* What Save leaves in memory. *)
LEMMA SaveMem ==
  ASSUME TypeOK, NEW r \in Runs, NEW rec \in RunRecord, Save(r, rec)
  PROVE  rec # None /\ mem'[r] = rec
BY NoneAssumption DEF Save, TypeOK

(* A thread that leaves its task is coherent and well typed again. *)
LEMMA LeaveCoherent ==
  ASSUME TypeOK, NEW w \in Threads, Leave(w)
  PROVE  /\ ThreadCoherent(w)' /\ job'[w] = None
         /\ pc' \in [Threads -> {"idle", "retry", "start", "materialize",
                                 "events", "settle", "chain"}]
         /\ job' \in [Threads -> Job \cup {None}]
         /\ result' \in [Threads -> Result]
         /\ \A v \in Threads \ {w} : /\ pc'[v] = pc[v] /\ job'[v] = job[v]
                                     /\ result'[v] = result[v]
<1>1. NoResult \in Result
  BY StepsAssumption DEF NoResult, Result
<1>2. pc'[w] = "idle" /\ job'[w] = None
  BY DEF Leave, TypeOK
<1>3. ThreadCoherent(w)'
  BY <1>2 DEF ThreadCoherent
<1>. QED  BY <1>1, <1>2, <1>3 DEF Leave, TypeOK

LEMMA RetryPipelineStep ==
  ASSUME IInv, NEW w \in Threads, RetryPipeline(w)
  PROVE  IInv'
<1>. DEFINE r == job[w].run
            rec == Current(r)
<1>0. /\ TypeOK /\ ThreadCoherent(w) /\ pc[w] = "retry"
      /\ job[w] # None /\ job[w] \in Job /\ r \in Runs /\ rec \in RunRecord
      /\ Live(r)
      /\ UNCHANGED <<issued, pending, loop, reply, starts, chained, crashes>>
  BY AtWork DEF RetryPipeline, ThreadCoherent
<1>1. CASE rec.pipeline = "pipeline"
  <2>. DEFINE new == Failed(rec, "unrecognized", None)
  <2>1. Save(r, new) /\ Leave(w)
    BY <1>1 DEF RetryPipeline
  <2>2. new \in RunRecord
    BY <1>0, MutatorTypes DEF Errors
  <2>. HIDE DEF new, rec, r
  <2>3. TypeOK'
    BY <1>0, <2>1, <2>2, SaveType, LeaveCoherent DEF TypeOK
  <2>4. ThreadCoherent(w)' /\ job'[w] = None
    BY <1>0, <2>1, LeaveCoherent
  <2>5. \A v \in Threads \ {w} : /\ pc'[v] = pc[v] /\ job'[v] = job[v]
                                 /\ result'[v] = result[v]
    BY <1>0, <2>1, LeaveCoherent
  <2>. QED  BY <1>0, <2>1, <2>2, <2>3, <2>4, <2>5, WorkerStep DEF r
<1>2. CASE rec.pipeline # "pipeline"
  <2>. DEFINE fn == IF rec.pipeline = "er_pipeline" THEN "er" ELSE "clean"
              on == rec.pipeline = "cleaning_pipeline" /\ rec.auto_er = "on"
              j == [fn |-> fn, run |-> r, auto_er |-> on,
                    attempt |-> job[w].attempt]
  <2>1. /\ job' = [job EXCEPT ![w] = j] /\ pc' = [pc EXCEPT ![w] = "start"]
        /\ UNCHANGED <<mem, db, result>>
    BY <1>2 DEF RetryPipeline, tracker
  <2>2. j \in Job /\ j # None /\ j.run = r
    <3>1. fn \in {"clean", "er", "retry"}
      OBVIOUS
    <3>2. on \in BOOLEAN
      OBVIOUS
    <3>3. job[w].attempt \in Nat
      BY <1>0 DEF Job
    <3>. HIDE DEF fn, on
    <3>4. j \in Job
      BY <1>0, <3>1, <3>2, <3>3 DEF Job
    <3>. QED  BY <3>4, NoneAssumption
  <2>. HIDE DEF j, rec, r
  <2>3. TypeOK'
    BY <1>0, <2>1, <2>2 DEF TypeOK
  <2>4. /\ job'[w] = j /\ pc'[w] = "start"
        /\ \A v \in Threads \ {w} : job'[v] = job[v] /\ pc'[v] = pc[v]
    BY <1>0, <2>1 DEF TypeOK
  <2>5. AtMostOneAttempt'
    BY <1>0, <2>2, <2>4 DEF IInv, AtMostOneAttempt, r
  <2>6. ThreadsCoherent'
    <3>. SUFFICES ASSUME NEW v \in Threads PROVE ThreadCoherent(v)'
      BY DEF ThreadsCoherent
    <3>1. CASE v = w
      BY <1>0, <2>1, <2>2, <2>4, <3>1 DEF ThreadCoherent, Live, r
    <3>2. CASE v # w
      BY <1>0, <2>1, <2>4, <3>2
      DEF IInv, ThreadsCoherent, ThreadCoherent, Live, Unborn
    <3>. QED  BY <3>1, <3>2
  <2>7. TasksLive' /\ FreshUnknown' /\ LoopCoherent'
    BY <1>0, <2>1 DEF IInv, TasksLive, Live, FreshUnknown, LoopCoherent, Known
  <2>. QED  BY <2>3, <2>5, <2>6, <2>7 DEF IInv
<1>. QED  BY <1>1, <1>2

LEMMA StartRunStep ==
  ASSUME IInv, NEW w \in Threads, StartRun(w)
  PROVE  IInv'
<1>. DEFINE r == job[w].run
            rec == Started(Current(r))
<1>0. /\ TypeOK /\ ThreadCoherent(w) /\ pc[w] = "start" /\ job[w] # None
      /\ r \in Runs /\ rec \in RunRecord /\ rec.status = "running"
      /\ Live(r) \/ Unborn(r)
  BY AtWork, MutatorTypes, MutatorStatus DEF StartRun, ThreadCoherent
<1>1. /\ Save(r, rec) /\ pc' = [pc EXCEPT ![w] = "materialize"]
      /\ starts' = [starts EXCEPT ![r] = @ + 1]
      /\ UNCHANGED <<issued, pending, job, result, loop, reply, chained, crashes>>
  BY DEF StartRun
<1>. HIDE DEF r, rec
<1>2. TypeOK'
  <2>1. /\ mem' \in [Runs -> RunRecord \cup {None}]
        /\ db' \in [Runs -> RunRecord \cup {None}]
    BY <1>0, <1>1, SaveType
  <2>2. starts' \in [Runs -> Nat]
    BY <1>0, <1>1 DEF TypeOK
  <2>3. pc' \in [Threads -> {"idle", "retry", "start", "materialize", "events",
                            "settle", "chain"}]
    BY <1>0, <1>1 DEF TypeOK
  <2>. QED  BY <1>0, <1>1, <2>1, <2>2, <2>3 DEF TypeOK
<1>3. ThreadCoherent(w)'
  BY <1>0, <1>1, SaveMem DEF ThreadCoherent, Live, TypeOK, r
<1>4. \A v \in Threads \ {w} : /\ pc'[v] = pc[v] /\ job'[v] = job[v]
                               /\ result'[v] = result[v]
  BY <1>0, <1>1 DEF TypeOK
<1>. QED  BY <1>0, <1>1, <1>2, <1>3, <1>4, WorkerStep DEF r

(* Nothing is saved while Dagster executes the pipeline. *)
LEMMA MaterializeStep ==
  ASSUME IInv, NEW w \in Threads, Materialize(w)
  PROVE  IInv'
<1>0. /\ TypeOK /\ ThreadCoherent(w) /\ pc[w] = "materialize" /\ job[w] # None
      /\ Live(job[w].run)
  BY AtWork DEF Materialize, ThreadCoherent
<1>1. PICK i \in 0..Len(Steps), raised \in BOOLEAN :
        /\ result' = [result EXCEPT ![w] = [failed_at |-> i, raised |-> raised,
                                            pos |-> 1]]
        /\ pc' = [pc EXCEPT ![w] = IF raised THEN "settle" ELSE "events"]
  BY DEF Materialize
<1>2. UNCHANGED <<mem, db, issued, pending, job, loop, reply, starts, chained,
                  crashes>>
  BY DEF Materialize, tracker
<1>3. [failed_at |-> i, raised |-> raised, pos |-> 1] \in Result
  BY StepsAssumption DEF Result
<1>4. TypeOK'
  BY <1>0, <1>1, <1>2, <1>3 DEF TypeOK
<1>5. AtMostOneAttempt'
  BY <1>2 DEF IInv, AtMostOneAttempt
<1>6. ThreadsCoherent'
  <2>. SUFFICES ASSUME NEW v \in Threads PROVE ThreadCoherent(v)'
    BY DEF ThreadsCoherent
  <2>1. CASE v = w
    <3>1. pc'[w] \in {"settle", "events"} /\ result'[w].pos = 1
          /\ result'[w].failed_at = i
      BY <1>0, <1>1 DEF TypeOK
    <3>. QED
      BY <1>0, <1>2, <2>1, <3>1, StepsAssumption DEF ThreadCoherent, Live
  <2>2. CASE v # w
    BY <1>0, <1>1, <1>2, <2>2
    DEF IInv, ThreadsCoherent, ThreadCoherent, Live, Unborn, TypeOK
  <2>. QED  BY <2>1, <2>2
<1>7. TasksLive' /\ FreshUnknown' /\ LoopCoherent'
  BY <1>0, <1>2 DEF IInv, TasksLive, Live, FreshUnknown, LoopCoherent, Known
<1>. QED  BY <1>4, <1>5, <1>6, <1>7 DEF IInv

LEMMA RecordEventStep ==
  ASSUME IInv, NEW w \in Threads, RecordEvent(w)
  PROVE  IInv'
<1>. DEFINE r == job[w].run
            res == result[w]
            s == Steps[res.pos]
            last == IF res.failed_at = 0 THEN Len(Steps) ELSE res.failed_at
            rec == IF res.pos = res.failed_at THEN StepFailed(Current(r), s)
                   ELSE StepDone(Current(r), s)
<1>0. /\ TypeOK /\ ThreadCoherent(w) /\ pc[w] = "events" /\ job[w] # None
      /\ r \in Runs /\ Live(r) /\ Current(r) \in RunRecord
  BY AtWork DEF RecordEvent, ThreadCoherent
<1>1. /\ Save(r, rec) /\ result' = [result EXCEPT ![w].pos = @ + 1]
      /\ pc' = [pc EXCEPT ![w] = IF res.pos = last THEN "settle" ELSE @]
      /\ UNCHANGED <<issued, pending, job, loop, reply, starts, chained, crashes>>
  BY DEF RecordEvent
<1>2. /\ res \in Result /\ res.pos \in 1..Len(Steps)
      /\ res.failed_at # 0 => res.pos <= res.failed_at
      /\ Len(Steps) \in Nat
  BY <1>0, StepsAssumption DEF ThreadCoherent, TypeOK, Result
<1>3. s \in StepKeys
  BY <1>2 DEF StepKeys
<1>4. rec \in RunRecord /\ rec.status = Current(r).status
  BY <1>0, <1>3, MutatorTypes, MutatorStatus
<1>5. rec.status \in {"queued", "running"}
  BY <1>0, <1>4 DEF Live, Current
<1>. HIDE DEF r, rec, s
<1>6. /\ result'[w] \in Result /\ result'[w].pos = res.pos + 1
      /\ result'[w].failed_at = res.failed_at
      /\ \A v \in Threads \ {w} : result'[v] = result[v]
  <2>1. /\ result'[w] = [res EXCEPT !.pos = res.pos + 1]
        /\ \A v \in Threads \ {w} : result'[v] = result[v]
    BY <1>0, <1>1 DEF TypeOK
  <2>2. res.pos + 1 \in 1..(Len(Steps) + 1)
    BY <1>2
  <2>. HIDE DEF res
  <2>. QED  BY <1>2, <2>1, <2>2 DEF Result
<1>7. TypeOK'
  <2>1. /\ mem' \in [Runs -> RunRecord \cup {None}]
        /\ db' \in [Runs -> RunRecord \cup {None}]
    BY <1>0, <1>1, <1>4, SaveType
  <2>2. result' \in [Threads -> Result]
    BY <1>0, <1>1, <1>6 DEF TypeOK
  <2>3. pc' \in [Threads -> {"idle", "retry", "start", "materialize", "events",
                            "settle", "chain"}]
    BY <1>0, <1>1 DEF TypeOK
  <2>. QED  BY <1>0, <1>1, <2>1, <2>2, <2>3 DEF TypeOK
<1>8. ThreadCoherent(w)'
  <2>1. pc'[w] = IF res.pos = last THEN "settle" ELSE "events"
    BY <1>0, <1>1 DEF TypeOK
  <2>2. Live(r)'
    <3>1. mem'[r] = rec /\ mem'[r] # None
      BY <1>0, <1>1, <1>4, SaveMem
    <3>2. mem'[r].status \in {"queued", "running"}
      BY <1>5, <3>1
    <3>3. r' = r
      BY <1>1 DEF r
    <3>. QED  BY <3>1, <3>2, <3>3 DEF Live
  <2>3. job'[w] = job[w] /\ job'[w] # None /\ job'[w].run \in issued'
    BY <1>0, <1>1 DEF ThreadCoherent
  <2>4. pc'[w] = "events" => /\ result'[w].pos <= Len(Steps)
                             /\ result'[w].failed_at # 0
                                  => result'[w].pos <= result'[w].failed_at
    BY <1>2, <1>6, <2>1 DEF Result
  <2>. QED  BY <2>1, <2>2, <2>3, <2>4 DEF ThreadCoherent, Live, r
<1>9. \A v \in Threads \ {w} : /\ pc'[v] = pc[v] /\ job'[v] = job[v]
                               /\ result'[v] = result[v]
  BY <1>0, <1>1, <1>6 DEF TypeOK
<1>. QED  BY <1>0, <1>1, <1>4, <1>7, <1>8, <1>9, WorkerStep DEF r

LEMMA CompleteRunStep ==
  ASSUME IInv, NEW w \in Threads, CompleteRun(w)
  PROVE  IInv'
<1>. DEFINE r == job[w].run
            rec == Completed(Current(r))
<1>0. /\ TypeOK /\ ThreadCoherent(w) /\ pc[w] = "settle" /\ job[w] # None
      /\ r \in Runs /\ Live(r) /\ rec \in RunRecord /\ rec.status = "completed"
  BY AtWork, MutatorTypes, MutatorStatus DEF CompleteRun, ThreadCoherent
<1>1. /\ Save(r, rec)
      /\ UNCHANGED <<issued, pending, loop, reply, starts, chained, crashes>>
  BY DEF CompleteRun
<1>. HIDE DEF rec
<1>2. /\ mem' \in [Runs -> RunRecord \cup {None}]
      /\ db' \in [Runs -> RunRecord \cup {None}]
      /\ mem'[r] = rec /\ mem'[r] # None
  BY <1>0, <1>1, SaveType, SaveMem
<1>3. CASE job[w].auto_er
  <2>1. pc' = [pc EXCEPT ![w] = "chain"] /\ UNCHANGED <<job, result>>
    BY <1>3 DEF CompleteRun
  <2>2. TypeOK'
    BY <1>0, <1>1, <1>2, <2>1 DEF TypeOK
  <2>3. ThreadCoherent(w)'
    BY <1>0, <1>1, <1>2, <2>1 DEF ThreadCoherent, TypeOK
  <2>4. \A v \in Threads \ {w} : pc'[v] = pc[v]
    BY <1>0, <2>1 DEF TypeOK
  <2>. HIDE DEF r
  <2>. QED  BY <1>0, <1>1, <2>1, <2>2, <2>3, <2>4, WorkerStep DEF r
<1>4. CASE ~job[w].auto_er
  <2>1. Leave(w)
    BY <1>4 DEF CompleteRun
  <2>2. TypeOK'
    BY <1>0, <1>1, <1>2, <2>1, LeaveCoherent DEF TypeOK
  <2>3. /\ ThreadCoherent(w)' /\ job'[w] = None
        /\ \A v \in Threads \ {w} : /\ pc'[v] = pc[v] /\ job'[v] = job[v]
                                    /\ result'[v] = result[v]
    BY <1>0, <2>1, LeaveCoherent
  <2>. HIDE DEF r
  <2>. QED  BY <1>0, <1>1, <2>2, <2>3, WorkerStep DEF r
<1>. QED  BY <1>3, <1>4

LEMMA FailRunStep ==
  ASSUME IInv, NEW w \in Threads, FailRun(w)
  PROVE  IInv'
<1>. DEFINE r == job[w].run
            s == Steps[result[w].failed_at]
            rec == IF result[w].raised THEN Failed(Current(r), s, None)
                   ELSE Failed(Current(r), "materialize", s)
<1>0. /\ TypeOK /\ ThreadCoherent(w) /\ pc[w] = "settle" /\ job[w] # None
      /\ r \in Runs /\ Live(r) /\ Current(r) \in RunRecord
  BY AtWork DEF FailRun, ThreadCoherent
<1>1. /\ Save(r, rec) /\ Leave(w)
      /\ UNCHANGED <<issued, pending, loop, reply, starts, chained, crashes>>
  BY DEF FailRun
<1>2. s \in StepKeys
  BY <1>0, StepsAssumption DEF FailRun, TypeOK, Result, StepKeys
<1>3. rec \in RunRecord
  BY <1>0, <1>2, MutatorTypes DEF Errors
<1>. HIDE DEF r, rec, s
<1>4. TypeOK'
  BY <1>0, <1>1, <1>3, SaveType, LeaveCoherent DEF TypeOK
<1>5. /\ ThreadCoherent(w)' /\ job'[w] = None
      /\ \A v \in Threads \ {w} : /\ pc'[v] = pc[v] /\ job'[v] = job[v]
                                  /\ result'[v] = result[v]
  BY <1>0, <1>1, LeaveCoherent
<1>. QED  BY <1>0, <1>1, <1>3, <1>4, <1>5, WorkerStep DEF r

(* After a crash nothing is in memory and nobody is at work. *)
LEMMA CrashStep ==
  ASSUME IInv, Crash
  PROVE  IInv'
<1>. USE DEF Crash
<1>0. TypeOK
  BY DEF IInv
<1>1. TypeOK'
  <2>1. NoResult \in Result
    BY StepsAssumption DEF NoResult, Result
  <2>2. crashes' \in 0..MaxCrashes
    BY <1>0, NumberAssumption DEF TypeOK
  <2>. QED  BY <1>0, <2>1, <2>2 DEF TypeOK, IdleLoop
<1>2. AtMostOneAttempt'
  BY DEF AtMostOneAttempt
<1>3. ThreadsCoherent' /\ TasksLive'
  BY DEF ThreadsCoherent, ThreadCoherent, TasksLive
<1>4. LoopCoherent' /\ FreshUnknown'
  BY DEF LoopCoherent, IdleLoop, IInv, FreshUnknown
<1>. QED  BY <1>1, <1>2, <1>3, <1>4 DEF IInv

(* A stutter changes nothing the invariant speaks of. *)
LEMMA StutterStep ==
  ASSUME IInv, UNCHANGED vars
  PROVE  IInv'
<1>. USE DEF vars
<1>1. TypeOK'
  BY DEF IInv, TypeOK
<1>2. AtMostOneAttempt' /\ ThreadsCoherent' /\ TasksLive'
  BY DEF IInv, AtMostOneAttempt, ThreadsCoherent, ThreadCoherent, TasksLive,
         Live, Unborn
<1>3. LoopCoherent' /\ FreshUnknown'
  BY DEF IInv, LoopCoherent, FreshUnknown, Known
<1>. QED  BY <1>1, <1>2, <1>3 DEF IInv

(* The inductive step. *)
LEMMA NextIInv == IInv /\ [Next]_vars => IInv'
<1>. SUFFICES ASSUME IInv, [Next]_vars PROVE IInv'
  OBVIOUS
<1>1. ASSUME NEW r \in CleanRuns, NEW opt \in {"unset", "on", "off"},
             TriggerPipeline(r, opt)
      PROVE IInv'
  BY <1>1, TriggerPipelineStep
<1>2. ASSUME NEW r \in ErRuns, TriggerEr(r) PROVE IInv'
  BY <1>2, TriggerErStep
<1>3. ASSUME NEW op \in {"status", "retry"}, NEW r \in Runs, Request(op, r)
      PROVE IInv'
  BY <1>3, RequestStep
<1>4. CASE Serve
  BY <1>4, LoadFromDbStep, InstallLoadedStep, ReadStatusStep, ReadProgressStep,
     CheckRetryStep, RetryRunStep DEF Serve, GetStatus
<1>5. ASSUME NEW w \in Workers, NEW j \in pending, Take(w, j) PROVE IInv'
  BY <1>5, TakeStep
<1>6. ASSUME NEW r \in KafkaRuns, KafkaBatchComplete(r) PROVE IInv'
  BY <1>6, KafkaBatchCompleteStep
<1>7. ASSUME NEW w \in Threads, Work(w) PROVE IInv'
  <2>1. CASE \E h \in ChainRuns : ChainEr(w, h)
    BY <2>1, ChainErStep
  <2>. QED
    BY <1>7, <2>1, RetryPipelineStep, StartRunStep, MaterializeStep,
       RecordEventStep, CompleteRunStep, FailRunStep DEF Work
<1>8. CASE Crash
  BY <1>8, CrashStep
<1>9. CASE UNCHANGED vars
  BY <1>9, StutterStep
<1>. QED  BY <1>1, <1>2, <1>3, <1>4, <1>5, <1>6, <1>7, <1>8, <1>9 DEF Next

(* The inductive invariant holds throughout. *)
LEMMA Invariance == Spec => []IInv
<1>. QED  BY InitIInv, NextIInv, PTL DEF Spec
-----------------------------------------------------------------------------
(* The theorems. *)

(* The record in memory and in SQLite, the tasks, the threads and the      *)
(* request under way are always of the types run_tracker.py, trigger.py    *)
(* and the endpoints give them.                                            *)
THEOREM TypeCorrect == Spec => []TypeOK
<1>1. IInv => TypeOK
  BY DEF IInv
<1>. QED  BY <1>1, Invariance, PTL

(* However polls, retries, threads, crashes and lost disk writes           *)
(* interleave, no two executions of the same run are ever queued or under  *)
(* way at once: the unlocked check of the retry endpoint is enough.        *)
THEOREM OneAttemptAtATime == Spec => []AtMostOneAttempt
<1>1. IInv => AtMostOneAttempt
  BY DEF IInv
<1>. QED  BY <1>1, Invariance, PTL

-----------------------------------------------------------------------------
(* The records of runs: to the stores every action is one of four things.  *)
(* It leaves them alone, saves a record made by a mutator, loads the cache *)
(* from SQLite, or loses the cache.                                        *)

(* A record a thread or a request makes of the one it starts from, and     *)
(* what it knows of the run at that time.                                  *)
Mutated(r, rec) ==
  \/ /\ (Live(r) \/ Unborn(r)) /\ r \in issued /\ starts'[r] > 0
     /\ rec = Started(Current(r))
  \/ /\ Live(r)
     /\ \/ \E s \in StepKeys : rec \in {StepDone(Current(r), s), StepFailed(Current(r), s)}
        \/ rec = Completed(Current(r))
        \/ \E e \in Errors, s \in StepKeys \cup {None} : rec = Failed(Current(r), e, s)
  \/ mem[r] # None /\ mem[r].status = "failed" /\ rec = Retried(Current(r))

Registered(r, rec) ==
  /\ Fresh(r) /\ r \in ApiRuns /\ r \in issued'
  /\ \E p \in {"cleaning_pipeline", "er_pipeline"}, o \in {"unset", "on", "off"} :
       rec = NewRecord(p, "queued", o)

\* What a request has read from SQLite stays as it is or is dropped.
Rests == loop'.found = None \/ (loop'.found = loop.found /\ loop'.run = loop.run)

Saves(r, rec) ==
  /\ Save(r, rec) /\ (Mutated(r, rec) \/ Registered(r, rec))
  /\ Rests
Keeps ==
  /\ UNCHANGED tracker
  /\ \/ Rests
     \/ loop'.found = db[loop.run] /\ loop'.run = loop.run /\ loop.run \in Runs
Loads ==
  /\ loop.run \in Runs /\ mem[loop.run] = None /\ loop.found \in RunRecord
  /\ mem' = [mem EXCEPT ![loop.run] = loop.found] /\ UNCHANGED db /\ loop'.found = None
Loses == mem' = [r \in Runs |-> None] /\ UNCHANGED db /\ loop'.found = None

(* What the threads save.                                                  *)
LEMMA ThreadSaves ==
  ASSUME IInv, NEW w \in Threads, Work(w)
  PROVE  Keeps \/ \E r \in Runs, rec \in RunRecord : Saves(r, rec)
<1>. DEFINE r == job[w].run
            old == Current(r)
<1>1. loop' = loop /\ pc[w] # "idle"
  BY DEF Work, RetryPipeline, StartRun, Materialize, RecordEvent, CompleteRun, FailRun, ChainEr
<1>2. r \in Runs /\ old \in RunRecord /\ ThreadCoherent(w) /\ TypeOK
  BY <1>1, AtWork
<1>3. ASSUME NEW rec, Save(r, rec), rec \in RunRecord, Mutated(r, rec)
      PROVE  \E q \in Runs, new \in RunRecord : Saves(q, new)
  BY <1>1, <1>2, <1>3 DEF Saves, Rests
<1>4. CASE RetryPipeline(w)
  <2>1. CASE old.pipeline = "pipeline"
    <3>1. Save(r, Failed(old, "unrecognized", None)) /\ Live(r) /\ "unrecognized" \in Errors
      BY <1>2, <1>4, <2>1 DEF RetryPipeline, ThreadCoherent, Errors
    <3>2. Failed(old, "unrecognized", None) \in RunRecord
      BY <1>2, <3>1, MutatorTypes
    <3>. QED  BY <1>3, <3>1, <3>2 DEF Mutated
  <2>2. CASE old.pipeline # "pipeline"
    BY <1>1, <1>4, <2>2 DEF RetryPipeline, Keeps, Rests, tracker
  <2>. QED  BY <2>1, <2>2
<1>5. CASE StartRun(w)
  <2>1. Save(r, Started(old)) /\ (Live(r) \/ Unborn(r)) /\ r \in issued
    BY <1>2, <1>5 DEF StartRun, ThreadCoherent
  <2>3. starts'[r] > 0
    BY <1>2, <1>5 DEF StartRun, TypeOK
  <2>2. Started(old) \in RunRecord
    BY <1>2, MutatorTypes
  <2>. QED  BY <1>3, <2>1, <2>2, <2>3 DEF Mutated
<1>6. CASE Materialize(w) \/ \E h \in ChainRuns : ChainEr(w, h)
  BY <1>1, <1>6 DEF Materialize, ChainEr, Keeps, Rests, tracker
<1>7. CASE RecordEvent(w)
  <2>1. Live(r) /\ result[w].pos \in 1..Len(Steps)
    BY <1>2, <1>7, StepsAssumption DEF RecordEvent, ThreadCoherent, TypeOK, Result
  <2>2. Steps[result[w].pos] \in StepKeys
    BY <2>1 DEF StepKeys
  <2>3. PICK rec \in {StepDone(old, Steps[result[w].pos]), StepFailed(old, Steps[result[w].pos])} :
          Save(r, rec)
    BY <1>7 DEF RecordEvent
  <2>4. rec \in RunRecord /\ Mutated(r, rec)
    BY <1>2, <2>1, <2>2, <2>3, MutatorTypes DEF Mutated
  <2>. QED  BY <1>3, <2>3, <2>4
<1>8. CASE CompleteRun(w)
  <2>1. Save(r, Completed(old)) /\ Live(r)
    BY <1>2, <1>8 DEF CompleteRun, ThreadCoherent
  <2>2. Completed(old) \in RunRecord
    BY <1>2, MutatorTypes
  <2>. QED  BY <1>3, <2>1, <2>2 DEF Mutated
<1>9. CASE FailRun(w)
  <2>1. Live(r) /\ result[w].failed_at \in 1..Len(Steps)
    BY <1>2, <1>9, StepsAssumption DEF FailRun, ThreadCoherent, TypeOK, Result
  <2>2. Steps[result[w].failed_at] \in StepKeys
    BY <2>1 DEF StepKeys
  <2>3. PICK e \in Errors, s \in StepKeys \cup {None} : Save(r, Failed(old, e, s))
    BY <1>9, <2>2 DEF FailRun, Errors
  <2>4. Failed(old, e, s) \in RunRecord
    BY <1>2, MutatorTypes
  <2>. QED  BY <1>3, <2>1, <2>3, <2>4 DEF Mutated
<1>. QED  BY <1>4, <1>5, <1>6, <1>7, <1>8, <1>9 DEF Work

LEMMA StoreSteps ==
  ASSUME IInv, [Next]_vars
  PROVE  Keeps \/ Loads \/ Loses \/ \E r \in Runs, rec \in RunRecord : Saves(r, rec)
<1>0. TypeOK /\ LoopCoherent
  BY DEF IInv
<1>1. ASSUME NEW r \in ApiRuns, NEW p \in {"cleaning_pipeline", "er_pipeline"},
             NEW o \in {"unset", "on", "off"}, Fresh(r), Save(r, NewRecord(p, "queued", o)),
             loop' = loop, issued' = issued \cup {r}
      PROVE  \E q \in Runs, rec \in RunRecord : Saves(q, rec)
  <2>1. NewRecord(p, "queued", o) \in RunRecord /\ r \in Runs
    BY NewRecordType DEF Runs
  <2>. QED  BY <1>1, <2>1 DEF Saves, Rests, Registered
<1>2. ASSUME NEW r \in CleanRuns, NEW opt \in {"unset", "on", "off"}, TriggerPipeline(r, opt)
      PROVE  \E q \in Runs, rec \in RunRecord : Saves(q, rec)
  BY <1>1, <1>2 DEF TriggerPipeline, ApiRuns
<1>3. ASSUME NEW r \in ErRuns, TriggerEr(r)
      PROVE  \E q \in Runs, rec \in RunRecord : Saves(q, rec)
  BY <1>1, <1>3 DEF TriggerEr, ApiRuns
<1>4. ASSUME \/ \E op \in {"status", "retry"}, r \in Runs : Request(op, r)
             \/ ReadStatus \/ ReadProgress \/ CheckRetry
             \/ \E w \in Workers, j \in pending : Take(w, j)
             \/ \E r \in KafkaRuns : KafkaBatchComplete(r)
             \/ UNCHANGED vars
      PROVE Keeps
  <2>1. UNCHANGED tracker
    BY <1>4 DEF Request, ReadStatus, ReadProgress, CheckRetry, Take, KafkaBatchComplete, vars, tracker
  <2>2. IdleLoop.found = None
    BY DEF IdleLoop
  <2>3. Rests
    <3>1. CASE \E op \in {"status", "retry"}, r \in Runs : Request(op, r)
      BY <3>1 DEF Request, Rests
    <3>2. CASE ReadStatus \/ ReadProgress \/ CheckRetry
      BY <1>0, <2>2, <3>2 DEF ReadStatus, ReadProgress, CheckRetry, TypeOK, Rests
    <3>. QED  BY <1>4, <3>1, <3>2 DEF Take, KafkaBatchComplete, vars, Rests
  <2>. QED  BY <2>1, <2>3 DEF Keeps
<1>5. ASSUME LoadFromDb PROVE Keeps
  <2>1. UNCHANGED tracker /\ loop.run \in Runs
    BY <1>0, <1>5 DEF LoadFromDb, LoopCoherent
  <2>2. CASE db[loop.run] = None
    BY <1>5, <2>1, <2>2 DEF LoadFromDb, IdleLoop, Keeps, Rests
  <2>3. CASE db[loop.run] # None
    <3>1. loop'.found = db[loop.run] /\ loop'.run = loop.run
      BY <1>0, <1>5, <2>3 DEF LoadFromDb, TypeOK
    <3>. QED  BY <2>1, <3>1 DEF Keeps
  <2>. QED  BY <2>2, <2>3
<1>6. CASE InstallLoaded
  BY <1>0, <1>6 DEF InstallLoaded, Loads, TypeOK, LoopCoherent
<1>7. CASE RetryRun
  <2>1. /\ loop.run \in Runs /\ mem[loop.run] # None /\ mem[loop.run].status = "failed"
        /\ Save(loop.run, Retried(Current(loop.run))) /\ loop'.found = None
    BY <1>0, <1>7 DEF RetryRun, LoopCoherent, IdleLoop
  <2>2. Retried(Current(loop.run)) \in RunRecord
    BY <1>0, <2>1, CurrentType, MutatorTypes
  <2>. QED  BY <2>1, <2>2 DEF Saves, Mutated, Rests
<1>8. CASE Crash
  BY <1>8 DEF Crash, Loses, IdleLoop
<1>. QED
  BY <1>2, <1>3, <1>4, <1>5, <1>6, <1>7, <1>8, ThreadSaves DEF Next, Serve, GetStatus

-----------------------------------------------------------------------------
(* Why a run failed. *)

Explained(rec) ==
  /\ rec.status = "failed" => rec.error # None
  /\ rec.error # None => LastError(rec) = rec.error

EachExplained ==
  /\ \A r \in Runs : /\ mem[r] # None => Explained(mem[r])
                     /\ db[r] # None => Explained(db[r])
  /\ loop.found # None => Explained(loop.found)

LEMMA CurrentExplained ==
  ASSUME EachExplained, NEW r \in Runs
  PROVE  Explained(Current(r))
BY DEF EachExplained, Current, Explained, NewRecord

LEMMA FailedExplained ==
  ASSUME NEW rec \in RunRecord, NEW e \in Errors, NEW s \in StepKeys \cup {None}
  PROVE  Explained(Failed(rec, e, s))
<1>. DEFINE new == Failed(rec, e, s)
<1>1. new.error = e /\ e # None
  BY NoneAssumption DEF Failed, RunRecord
<1>2. CASE LastError(rec) = e
  BY <1>1, <1>2 DEF Failed, LastError, RunRecord, Explained
<1>3. CASE LastError(rec) # e
  <2>. DEFINE at == IF s # None THEN s
                    ELSE IF rec.failed_step = None THEN rec.current_step
                    ELSE rec.failed_step
              entry == [step |-> IF at = None THEN "pipeline" ELSE at,
                        error |-> e, retry_count |-> rec.retry_count]
  <2>1. new.history = Append(rec.history, entry)
    BY <1>3 DEF Failed, RunRecord
  <2>3. entry.error = e
    OBVIOUS
  <2>. HIDE DEF entry, new
  <2>2. new.history # <<>> /\ new.history[Len(new.history)] = entry
    BY <2>1 DEF RunRecord
  <2>. QED  BY <1>1, <2>2, <2>3 DEF Explained, LastError, new
<1>. QED  BY <1>2, <1>3

LEMMA MutatedExplained ==
  ASSUME IInv, NEW r \in Runs, Explained(Current(r)), NEW rec, Mutated(r, rec)
  PROVE  Explained(rec)
<1>. DEFINE old == Current(r)
<1>1. old \in RunRecord
  BY CurrentType DEF IInv
<1>. HIDE DEF old
<1>2. ASSUME NEW s \in StepKeys PROVE Explained(StepFailed(old, s))
  <2>. DEFINE entry == [step |-> s, error |-> s, retry_count |-> old.retry_count]
  <2>1. StepFailed(old, s).history = Append(old.history, entry)
    BY <1>1 DEF StepFailed, RunRecord
  <2>4. entry.error = s
    OBVIOUS
  <2>. HIDE DEF entry
  <2>2. StepFailed(old, s).error = s /\ s # None
    BY <1>1, NoneAssumption DEF StepFailed, RunRecord, Errors
  <2>3. /\ StepFailed(old, s).history # <<>>
        /\ StepFailed(old, s).history[Len(StepFailed(old, s).history)] = entry
    BY <1>1, <2>1 DEF RunRecord
  <2>. QED  BY <2>2, <2>3, <2>4 DEF Explained, LastError
<1>3. ASSUME NEW s \in StepKeys, Explained(old) PROVE Explained(StepDone(old, s))
  BY <1>1, <1>3 DEF StepDone, RunRecord, Explained, LastError
<1>4. ASSUME Explained(old)
      PROVE  Explained(Started(old)) /\ Explained(Completed(old)) /\ Explained(Retried(old))
  BY <1>1, <1>4 DEF Started, Completed, Retried, RunRecord, Explained, LastError
<1>. QED  BY <1>1, <1>2, <1>3, <1>4, FailedExplained DEF Mutated, old

LEMMA StepExplained == IInv /\ EachExplained /\ [Next]_vars => EachExplained'
<1>. SUFFICES ASSUME IInv, EachExplained, [Next]_vars PROVE EachExplained'
  OBVIOUS
<1>0. TypeOK
  BY DEF IInv
<1>1. CASE Keeps
  BY <1>1 DEF Keeps, Rests, tracker, EachExplained, Explained
<1>2. CASE Loads
  <2>1. \A r \in Runs : mem'[r] \in {mem[r], loop.found}
    BY <1>0, <1>2 DEF Loads, TypeOK
  <2>2. Explained(loop.found)
    BY <1>2, NoneAssumption DEF Loads, EachExplained
  <2>. QED  BY <1>2, <2>1, <2>2 DEF Loads, EachExplained
<1>3. CASE Loses
  BY <1>3 DEF Loses, EachExplained
<1>4. ASSUME NEW r \in Runs, NEW rec \in RunRecord, Saves(r, rec) PROVE EachExplained'
  <2>1. Explained(rec)
    <3>1. CASE Registered(r, rec)
      BY <3>1 DEF Registered, Explained, NewRecord
    <3>. QED  BY <1>4, <3>1, CurrentExplained, MutatedExplained DEF Saves
  <2>2. \A q \in Runs : mem'[q] \in {mem[q], rec} /\ db'[q] \in {db[q], rec}
    BY <1>0, <1>4 DEF Saves, Save, TypeOK
  <2>. QED  BY <1>4, <2>1, <2>2 DEF EachExplained, Saves, Rests
<1>. QED  BY <1>1, <1>2, <1>3, <1>4, StoreSteps

(* Every failed run says why, and its error is the last of its history,    *)
(* whichever of the two failure branches of trigger.py wrote it, however   *)
(* many attempts came before, and with a disk that fails and crashes too.  *)
THEOREM FailuresExplained == Spec => []FailureExplained
<1>1. Init => EachExplained
  BY DEF Init, EachExplained, IdleLoop
<1>2. EachExplained => FailureExplained
  BY CurrentExplained DEF FailureExplained, Explained
<1>. QED  BY <1>1, <1>2, StepExplained, Invariance, PTL DEF Spec

-----------------------------------------------------------------------------
(* What is known of a run, when SQLite takes what it is given. *)

(* The cache repeats SQLite; what a poll has read is still there, unless   *)
(* the cache has the record by now; only runs that have been drawn, and    *)
(* hook runs that have begun, are in SQLite.                               *)
Mirrored ==
  /\ \A r \in Runs : /\ mem[r] # None => db[r] = mem[r]
                     /\ db[r] # None => r \in issued /\ (r \in HookRuns => starts[r] > 0)
  /\ loop.found # None =>
       loop.run \in Runs /\ (mem[loop.run] = None => loop.found = db[loop.run])

LEMMA Ages ==
  ASSUME IInv, [Next]_vars
  PROVE  issued \subseteq issued' /\ \A r \in Runs : starts'[r] >= starts[r]
<1>1. \A r \in Runs : starts[r] \in Nat
  BY DEF IInv, TypeOK
<1>2. CASE UNCHANGED <<issued, starts>>
  BY <1>1, <1>2
<1>3. ASSUME NEW w \in Threads, Work(w)
      PROVE  issued \subseteq issued' /\ \A r \in Runs : starts'[r] >= starts[r]
  <2>1. CASE StartRun(w)
    BY <1>1, <2>1 DEF StartRun, IInv, TypeOK
  <2>2. CASE \E h \in ChainRuns : ChainEr(w, h)
    BY <1>1, <2>2 DEF ChainEr
  <2>. QED
    BY <1>2, <1>3, <2>1, <2>2 DEF Work, RetryPipeline, Materialize, RecordEvent, CompleteRun, FailRun
<1>4. CASE \/ \E r \in CleanRuns, opt \in {"unset", "on", "off"} : TriggerPipeline(r, opt)
           \/ \E r \in ErRuns : TriggerEr(r)
           \/ \E r \in KafkaRuns : KafkaBatchComplete(r)
  BY <1>1, <1>4 DEF TriggerPipeline, TriggerEr, KafkaBatchComplete
<1>5. CASE \/ \E op \in {"status", "retry"}, r \in Runs : Request(op, r)
           \/ Serve \/ (\E w \in Workers, j \in pending : Take(w, j))
           \/ Crash \/ UNCHANGED vars
  BY <1>2, <1>5 DEF Request, Serve, GetStatus, LoadFromDb, InstallLoaded, ReadStatus, ReadProgress,
                    CheckRetry, RetryRun, Take, Crash, vars
<1>. QED  BY <1>3, <1>4, <1>5 DEF Next

(* A run nobody has drawn, or a hook run that has not begun, is unknown.   *)
LEMMA NotYetKnown ==
  ASSUME IInv, Mirrored, NEW r \in Runs, Fresh(r) \/ Unborn(r)
  PROVE  mem[r] = None /\ Current(r) = NewRecord("pipeline", "queued", "unset")
<1>1. mem[r] = None /\ db[r] = None
  BY DEF IInv, FreshUnknown, Mirrored, Fresh, Unborn
<1>. QED  BY <1>1 DEF Current

(* What a step does to the record the tracker serves.                      *)
LEMMA CurrentSteps ==
  ASSUME ~LossyDisk, IInv, Mirrored, [Next]_vars, NEW r \in Runs
  PROVE  \/ Current(r)' = Current(r)
         \/ \E rec \in RunRecord :
              Current(r)' = rec /\ (Mutated(r, rec) \/ Registered(r, rec))
<1>0. TypeOK
  BY DEF IInv
<1>1. CASE Keeps
  BY <1>1 DEF Keeps, tracker, Current
<1>2. CASE Loads
  <2>1. loop.found = db[loop.run]
    BY <1>2, NoneAssumption DEF Loads, Mirrored
  <2>. QED  BY <1>0, <1>2, <2>1, NoneAssumption DEF Loads, Current, TypeOK
<1>3. CASE Loses
  BY <1>3 DEF Loses, Mirrored, Current
<1>4. ASSUME NEW q \in Runs, NEW rec \in RunRecord, Saves(q, rec)
      PROVE  \/ Current(r)' = Current(r)
             \/ r = q /\ Current(r)' = rec
  BY <1>0, <1>4, NoneAssumption DEF Saves, Save, TypeOK, Current
<1>. QED  BY <1>1, <1>2, <1>3, <1>4, StoreSteps DEF Saves

LEMMA StepMirrored == ~LossyDisk /\ IInv /\ Mirrored /\ [Next]_vars => Mirrored'
<1>. SUFFICES ASSUME ~LossyDisk, IInv, Mirrored, [Next]_vars PROVE Mirrored'
  OBVIOUS
<1>0. TypeOK /\ issued \subseteq issued' /\ (\A r \in Runs : starts[r] \in Nat)
      /\ \A r \in Runs : starts'[r] \in Nat /\ starts'[r] >= starts[r]
  BY Ages, NextIInv DEF IInv, TypeOK
<1>1. CASE Keeps
  BY <1>0, <1>1 DEF Keeps, Rests, tracker, Mirrored
<1>2. CASE Loads
  <2>1. loop.found = db[loop.run] /\ loop.found # None
    BY <1>2, NoneAssumption DEF Loads, Mirrored
  <2>2. \A q \in Runs : mem'[q] = IF q = loop.run THEN db[q] ELSE mem[q]
    BY <1>0, <1>2, <2>1 DEF Loads, TypeOK
  <2>. QED  BY <1>0, <1>2, <2>1, <2>2 DEF Loads, Mirrored
<1>3. CASE Loses
  BY <1>0, <1>3 DEF Loses, Mirrored
<1>4. ASSUME NEW r \in Runs, NEW rec \in RunRecord, Saves(r, rec) PROVE Mirrored'
  <2>1. \A q \in Runs : /\ mem'[q] = IF q = r THEN rec ELSE mem[q]
                        /\ db'[q] = IF q = r THEN rec ELSE db[q]
    BY <1>0, <1>4 DEF Saves, Save, TypeOK
  <2>2. r \in issued' /\ (r \in HookRuns => starts'[r] > 0)
    <3>1. CASE Registered(r, rec)
      BY <3>1, IdAssumption DEF Registered
    <3>2. CASE mem[r] # None
      BY <1>0, <3>2 DEF Mirrored
    <3>3. CASE Mutated(r, rec) /\ mem[r] = None
      BY <1>0, <3>3 DEF Mutated, Live
    <3>. QED  BY <1>4, <3>1, <3>2, <3>3 DEF Saves
  <2>3. loop'.found # None => loop'.found = loop.found /\ loop'.run = loop.run
    BY <1>4 DEF Saves, Rests
  <2>4. rec # None
    BY NoneAssumption
  <2>5. ASSUME NEW q \in Runs
        PROVE  /\ mem'[q] # None => db'[q] = mem'[q]
               /\ db'[q] # None => q \in issued' /\ (q \in HookRuns => starts'[q] > 0)
    BY <1>0, <2>1, <2>2 DEF Mirrored
  <2>6. ASSUME loop'.found # None
        PROVE  loop'.run \in Runs /\ (mem'[loop'.run] = None => loop'.found = db'[loop'.run])
    <3>1. loop.found # None /\ loop'.run = loop.run /\ loop'.found = loop.found
      BY <2>3, <2>6
    <3>2. loop.run \in Runs
      BY <3>1 DEF Mirrored
    <3>. QED  BY <2>1, <2>4, <2>6, <3>1, <3>2 DEF Mirrored
  <2>. QED  BY <2>5, <2>6 DEF Mirrored
<1>. QED  BY <1>1, <1>2, <1>3, <1>4, StoreSteps

LEMMA MirroredAlways == ASSUME ~LossyDisk PROVE Spec => [](IInv /\ Mirrored)
<1>1. Init => Mirrored
  BY DEF Init, Mirrored, IdleLoop
<1>. QED  BY <1>1, InitIInv, NextIInv, StepMirrored, PTL DEF Spec

\* A record that knows at least what another knows.
Grown(old, new) ==
  /\ new.retry_count >= old.retry_count /\ old.steps \subseteq new.steps
  /\ Len(new.history) >= Len(old.history)
  /\ \A i \in 1..Len(old.history) : new.history[i] = old.history[i]

LEMMA Appended ==
  ASSUME NEW old \in RunRecord, NEW new, NEW entry, new.history = Append(old.history, entry),
         new.retry_count = old.retry_count, old.steps \subseteq new.steps
  PROVE  Grown(old, new)
BY DEF Grown, RunRecord

LEMMA MutatedGrows ==
  ASSUME IInv, NEW r \in Runs, NEW rec, Mutated(r, rec)
  PROVE  Grown(Current(r), rec)
<1>. DEFINE old == Current(r)
<1>1. old \in RunRecord
  BY CurrentType DEF IInv
<1>. HIDE DEF old
<1>2. ASSUME NEW new, new.history = old.history, new.retry_count \in {old.retry_count, old.retry_count + 1},
             old.steps \subseteq new.steps
      PROVE  Grown(old, new)
  BY <1>1, <1>2 DEF Grown, RunRecord
<1>3. Grown(old, Started(old)) /\ Grown(old, Completed(old)) /\ Grown(old, Retried(old))
  <2>1. \A new \in {Started(old), Completed(old), Retried(old)} :
          /\ new.history = old.history /\ old.steps \subseteq new.steps
          /\ new.retry_count \in {old.retry_count, old.retry_count + 1}
    BY <1>1 DEF Started, Completed, Retried, RunRecord
  <2>. QED  BY <1>2, <2>1
<1>4. ASSUME NEW s \in StepKeys PROVE Grown(old, StepDone(old, s)) /\ Grown(old, StepFailed(old, s))
  <2>1. Grown(old, StepDone(old, s))
    <3>1. /\ StepDone(old, s).history = old.history /\ old.steps \subseteq StepDone(old, s).steps
          /\ StepDone(old, s).retry_count = old.retry_count
      BY <1>1 DEF StepDone, RunRecord
    <3>. QED  BY <1>2, <3>1
  <2>. DEFINE entry == [step |-> s, error |-> s, retry_count |-> old.retry_count]
  <2>2. /\ StepFailed(old, s).history = Append(old.history, entry)
        /\ StepFailed(old, s).retry_count = old.retry_count
        /\ StepFailed(old, s).steps = old.steps
    BY <1>1 DEF StepFailed, RunRecord
  <2>. HIDE DEF entry
  <2>. QED  BY <1>1, <2>1, <2>2, Appended
<1>5. ASSUME NEW e \in Errors, NEW s \in StepKeys \cup {None} PROVE Grown(old, Failed(old, e, s))
  <2>. DEFINE at == IF s # None THEN s
                    ELSE IF old.failed_step = None THEN old.current_step
                    ELSE old.failed_step
              entry == [step |-> IF at = None THEN "pipeline" ELSE at,
                        error |-> e, retry_count |-> old.retry_count]
              new == Failed(old, e, s)
  <2>1. /\ new.history = IF LastError(old) # e THEN Append(old.history, entry) ELSE old.history
        /\ new.retry_count = old.retry_count /\ new.steps = old.steps
    BY <1>1 DEF Failed, RunRecord
  <2>. HIDE DEF entry, new
  <2>2. Grown(old, new)
    BY <1>1, <1>2, <2>1, Appended
  <2>. QED  BY <2>2 DEF new
<1>. QED  BY <1>3, <1>4, <1>5 DEF Mutated, old

(* What is known of a run only grows: no retry, poll, refill of the cache, *)
(* crash or restart forgets a retry, a completed step or an error, as long *)
(* as _persist_to_db does not swallow an error of SQLite.                  *)
THEOREM HistoryGrows == ASSUME ~LossyDisk PROVE Spec => HistoryOnlyGrows
<1>1. ASSUME IInv, Mirrored, [Next]_vars, NEW r \in Runs
      PROVE  Grown(Current(r), Current(r)')
  <2>1. Current(r) \in RunRecord
    BY <1>1, CurrentType DEF IInv
  <2>2. ASSUME NEW rec \in RunRecord, Registered(r, rec) PROVE Grown(Current(r), rec)
    BY <1>1, <2>2, NotYetKnown DEF Registered, NewRecord, Grown
  <2>3. Grown(Current(r), Current(r))
    BY <2>1 DEF Grown, RunRecord
  <2>. QED  BY <1>1, <2>2, <2>3, CurrentSteps, MutatedGrows
<1>2. IInv /\ Mirrored /\ [Next]_vars =>
        [\A r \in Runs :
           LET old == Current(r)
               new == Current(r)'
           IN  /\ new.retry_count >= old.retry_count
               /\ old.steps \subseteq new.steps
               /\ Len(new.history) >= Len(old.history)
               /\ \A i \in 1..Len(old.history) : new.history[i] = old.history[i]]_vars
  BY <1>1 DEF Grown
<1>. QED  BY <1>2, MirroredAlways, PTL DEF HistoryOnlyGrows, Spec

(* A completed run stays completed, under the same condition.              *)
THEOREM CompletedStays == ASSUME ~LossyDisk PROVE Spec => CompletedIsFinal
<1>1. ASSUME IInv, Mirrored, [Next]_vars, NEW r \in Runs, Current(r).status = "completed"
      PROVE  Current(r)'.status = "completed"
  <2>1. ASSUME NEW rec \in RunRecord, Registered(r, rec) PROVE FALSE
    BY <1>1, <2>1, NotYetKnown DEF Registered, NewRecord
  <2>2. ASSUME NEW rec \in RunRecord, Mutated(r, rec) PROVE FALSE
    <3>1. Live(r) \/ (mem[r] # None /\ mem[r].status = "failed") => FALSE
      BY <1>1 DEF Live, Current
    <3>2. Unborn(r) => FALSE
      BY <1>1, NotYetKnown DEF NewRecord
    <3>. QED  BY <2>2, <3>1, <3>2 DEF Mutated
  <2>. QED  BY <1>1, <2>1, <2>2, CurrentSteps
<1>2. IInv /\ Mirrored /\ [Next]_vars =>
        [\A r \in Runs : Current(r).status = "completed" => Current(r)'.status = "completed"]_vars
  BY <1>1
<1>. QED  BY <1>2, MirroredAlways, PTL DEF CompletedIsFinal, Spec

-----------------------------------------------------------------------------
(* How often a run is executed. *)

(* Before an attempt of a run its starts are its retries, during and after *)
(* an attempt one more; a request about to retry has found retries left.   *)
Counted(r) ==
  LET retries == Current(r).retry_count
  IN  /\ starts[r] <= retries + 1 /\ retries <= MaxRetries
      /\ Settled(Current(r)) => starts[r] = retries + 1
      /\ r \in issued => Current(r).pipeline # "pipeline"
      /\ \A j \in pending : j.run = r => starts[r] = retries
      /\ \A w \in Threads : job[w] # None /\ job[w].run = r =>
           /\ pc[w] \in {"retry", "start"} => starts[r] = retries
           /\ pc[w] \in {"materialize", "events", "settle"} => starts[r] = retries + 1
      /\ loop.pc = "bump" /\ loop.run = r => retries < MaxRetries

LEMMA SavedCurrent ==
  ASSUME TypeOK, NEW q \in Runs, NEW rec \in RunRecord, Save(q, rec)
  PROVE  Current(q)' = rec /\ \A p \in Runs : p # q => Current(p)' = Current(p)
BY NoneAssumption DEF Save, Current, TypeOK

(* A step that executes, queues and retries nothing of a run.              *)
LEMMA CountKept ==
  ASSUME NEW r \in ApiRuns, Counted(r), Current(r)' = Current(r), starts'[r] = starts[r],
         r \in issued' => r \in issued,
         \A j \in pending' : j.run = r => j \in pending,
         \A w \in Threads : job'[w] # None /\ job'[w].run = r =>
           \/ job[w] # None /\ job[w].run = r /\ pc'[w] = pc[w]
           \/ pc'[w] = "start" /\ job[w] # None /\ job[w].run = r /\ pc[w] = "retry"
           \/ pc'[w] \in {"retry", "start"} /\ \E j \in pending : j.run = r
           \/ pc'[w] \in {"events", "settle"} /\ job[w] # None /\ job[w].run = r
              /\ pc[w] \in {"materialize", "events"},
         loop'.pc = "bump" /\ loop'.run = r =>
           (loop.pc = "bump" /\ loop.run = r) \/ Current(r).retry_count < MaxRetries
  PROVE  Counted(r)'
BY DEF Counted, Settled

(* The attempt of a run is the only one there is.                          *)
LEMMA OnlyAttempt ==
  ASSUME IInv, NEW w \in Threads, job[w] # None
  PROVE  /\ \A v \in Threads : v # w /\ job[v] # None => job[v].run # job[w].run
         /\ \A j \in pending : j.run # job[w].run
BY DEF IInv, AtMostOneAttempt

(* A request to retry a failed run finds nobody at work on it.             *)
LEMMA FailedAtRest ==
  ASSUME IInv, NEW r \in ApiRuns, mem[r] # None, mem[r].status = "failed"
  PROVE  /\ \A j \in pending : j.run # r
         /\ \A w \in Threads : job[w] # None => job[w].run # r
<1>1. ~Live(r) /\ ~Unborn(r)
  BY DEF Live, Unborn
<1>2. \A w \in Threads : /\ ThreadCoherent(w)
                         /\ pc[w] \in {"idle", "retry", "start", "materialize", "events", "settle", "chain"}
  BY DEF IInv, ThreadsCoherent, TypeOK
<1>. QED  BY <1>1, <1>2 DEF IInv, TasksLive, ThreadCoherent

(* No mutator but Retried counts a retry, and none renames the pipeline.   *)
LEMMA MutatorFields ==
  ASSUME NEW rec \in RunRecord,
         NEW new, \/ new \in {Started(rec), Completed(rec)}
                  \/ \E s \in StepKeys : new \in {StepDone(rec, s), StepFailed(rec, s)}
                  \/ \E e \in Errors, s \in StepKeys \cup {None} : new = Failed(rec, e, s)
  PROVE  new \in RunRecord /\ new.retry_count = rec.retry_count /\ new.pipeline = rec.pipeline
<1>1. new \in RunRecord
  BY MutatorTypes
<1>2. ASSUME new \in {Started(rec), Completed(rec)}
      PROVE  new.retry_count = rec.retry_count /\ new.pipeline = rec.pipeline
  <2>1. CASE new = Started(rec)
    BY <2>1 DEF Started, RunRecord
  <2>2. CASE new = Completed(rec)
    BY <2>2 DEF Completed, RunRecord
  <2>. QED  BY <1>2, <2>1, <2>2
<1>3. ASSUME NEW s \in StepKeys, new \in {StepDone(rec, s), StepFailed(rec, s)}
      PROVE  new.retry_count = rec.retry_count /\ new.pipeline = rec.pipeline
  BY <1>3 DEF StepDone, StepFailed, RunRecord
<1>4. ASSUME NEW e \in Errors, NEW s \in StepKeys \cup {None}, new = Failed(rec, e, s)
      PROVE  new.retry_count = rec.retry_count /\ new.pipeline = rec.pipeline
  BY <1>4 DEF Failed, RunRecord
<1>. QED  BY <1>1, <1>2, <1>3, <1>4

LEMMA RegisterCounts ==
  ASSUME IInv, NEW r \in ApiRuns, Counted(r), NEW q \in ApiRuns, Fresh(q), NEW j \in Job, j.run = q,
         NEW p \in {"cleaning_pipeline", "er_pipeline"}, NEW o \in {"unset", "on", "off"},
         Save(q, NewRecord(p, "queued", o)), issued' = issued \cup {q}, pending' = pending \cup {j},
         UNCHANGED <<pc, job, loop, starts>>
  PROVE  Counted(r)'
<1>. DEFINE rec == NewRecord(p, "queued", o)
<1>0. TypeOK /\ r \in Runs /\ q \in Runs /\ rec \in RunRecord
  BY NewRecordType DEF IInv, Runs
<1>1. Current(q)' = rec /\ \A x \in Runs : x # q => Current(x)' = Current(x)
  BY <1>0, SavedCurrent
<1>2. CASE q # r
  BY <1>0, <1>1, <1>2, CountKept
<1>3. CASE q = r
  <2>1. starts[r] = 0 /\ (\A i \in pending : i.run # r) /\ \A w \in Threads : job[w] # None => job[w].run # r
    BY <1>0, <1>3 DEF IInv, FreshUnknown, TasksLive, ThreadsCoherent, ThreadCoherent, Fresh
  <2>2. ~(loop.pc = "bump" /\ loop.run = r)
    BY <1>3 DEF IInv, LoopCoherent, Known, Fresh
  <2>3. Current(r)'.retry_count = 0 /\ Current(r)'.pipeline # "pipeline" /\ ~Settled(Current(r)')
    BY <1>1, <1>3 DEF NewRecord, Settled
  <2>. HIDE DEF rec
  <2>4. starts'[r] = 0 /\ \A i \in pending' : i.run = r => starts'[r] = 0
    BY <2>1
  <2>5. MaxRetries \in Nat
    BY NumberAssumption
  <2>. QED  BY <2>1, <2>2, <2>3, <2>4, <2>5 DEF Counted, Settled
<1>. QED  BY <1>2, <1>3

(* A thread at work on its run.                                            *)
LEMMA WorkCounts ==
  ASSUME IInv, NEW r \in ApiRuns, Counted(r), NEW w \in Threads, Work(w)
  PROVE  Counted(r)'
<1>. DEFINE q == job[w].run
            old == Current(q)
<1>0. TypeOK /\ r \in Runs /\ q \in Runs /\ old \in RunRecord /\ job[w] # None /\ ThreadCoherent(w)
      /\ loop' = loop
  <2>1. pc[w] # "idle" /\ loop' = loop
    BY DEF Work, RetryPipeline, StartRun, Materialize, RecordEvent, CompleteRun, FailRun, ChainEr
  <2>. QED  BY <2>1, AtWork DEF Runs
<1>1. /\ \A v \in Threads : v # w /\ job[v] # None => job[v].run # q
      /\ \A j \in pending : j.run # q
  BY <1>0, OnlyAttempt
<1>2. /\ pending' = pending /\ (\A v \in Threads : v # w => job'[v] = job[v] /\ pc'[v] = pc[v])
      /\ pc'[w] = "idle" => job'[w] = None
  <2>1. CASE Leave(w) /\ pending' = pending
    BY <1>0, <2>1, LeaveCoherent DEF ThreadCoherent
  <2>. QED
    BY <1>0, <2>1 DEF Work, RetryPipeline, StartRun, Materialize, RecordEvent, CompleteRun, FailRun, ChainEr, TypeOK
<1>3. CASE \E h \in ChainRuns : ChainEr(w, h)
  <2>1. PICK h \in ChainRuns : ChainEr(w, h)
    BY <1>3
  <2>2. h # r /\ issued' = issued \cup {h} /\ job'[w].run = h /\ UNCHANGED <<mem, db, starts>>
    BY <1>0, <2>1, IdAssumption DEF ChainEr, HookRuns, tracker, TypeOK
  <2>3. Current(r)' = Current(r)
    BY <2>2 DEF Current
  <2>. QED  BY <1>0, <1>2, <2>2, <2>3, CountKept
<1>4. ASSUME ~\E h \in ChainRuns : ChainEr(w, h)
      PROVE  /\ issued' = issued /\ (job'[w] = None \/ job'[w].run = q)
             /\ \A x \in Runs : x # q => starts'[x] = starts[x]
             /\ ~StartRun(w) => starts' = starts
  BY <1>0, <1>4 DEF Work, RetryPipeline, StartRun, Materialize, RecordEvent, CompleteRun, FailRun,
                    Leave, TypeOK
<1>5. CASE ~(\E h \in ChainRuns : ChainEr(w, h)) /\ r # q
  <2>1. Current(r)' = Current(r)
    <3>1. CASE UNCHANGED <<mem, db>>
      BY <3>1 DEF Current
    <3>2. ASSUME NEW rec \in RunRecord, Save(q, rec) PROVE Current(r)' = Current(r)
      BY <1>0, <1>5, <3>2, SavedCurrent
    <3>3. UNCHANGED <<mem, db>> \/ \E rec \in RunRecord : Save(q, rec)
      <4>1. CASE RetryPipeline(w)
        BY <1>0, <4>1, MutatorTypes DEF RetryPipeline, tracker, Errors
      <4>2. CASE StartRun(w) \/ CompleteRun(w)
        BY <1>0, <4>2, MutatorTypes DEF StartRun, CompleteRun
      <4>3. CASE Materialize(w)
        BY <4>3 DEF Materialize, tracker
      <4>4. CASE RecordEvent(w)
        <5>1. Steps[result[w].pos] \in StepKeys
          BY <1>0, <4>4, StepsAssumption DEF RecordEvent, ThreadCoherent, TypeOK, Result, StepKeys
        <5>. QED  BY <1>0, <4>4, <5>1, MutatorTypes DEF RecordEvent
      <4>5. CASE FailRun(w)
        <5>1. Steps[result[w].failed_at] \in StepKeys
          BY <1>0, <4>5, StepsAssumption DEF FailRun, TypeOK, Result, StepKeys
        <5>. QED  BY <1>0, <4>5, <5>1, MutatorTypes DEF FailRun, Errors
      <4>. QED  BY <1>5, <4>1, <4>2, <4>3, <4>4, <4>5 DEF Work
    <3>. QED  BY <3>1, <3>2, <3>3
  <2>. QED  BY <1>0, <1>2, <1>4, <1>5, <2>1, CountKept
<1>6. CASE ~(\E h \in ChainRuns : ChainEr(w, h)) /\ r = q
  <2>0. /\ \A j \in pending' : j.run # r
        /\ \A v \in Threads : v # w /\ job'[v] # None => job'[v].run # r
        /\ issued' = issued /\ r \in issued
    BY <1>0, <1>1, <1>2, <1>4, <1>6 DEF ThreadCoherent
  <2>1. /\ old.retry_count \in Nat /\ starts[r] \in Nat /\ starts[r] <= old.retry_count + 1
        /\ old.retry_count <= MaxRetries /\ old.pipeline # "pipeline"
        /\ pc[w] \in {"retry", "start"} => starts[r] = old.retry_count
        /\ pc[w] \in {"materialize", "events", "settle"} => starts[r] = old.retry_count + 1
    BY <1>0, <1>6, <2>0 DEF Counted, RunRecord, TypeOK
  (* A record made by a thread has the retries of the one it starts from.  *)
  <2>2. ASSUME NEW rec \in RunRecord, Save(q, rec), rec.retry_count = old.retry_count,
               rec.pipeline = old.pipeline, starts'[r] = old.retry_count + 1,
               job'[w] # None => pc'[w] \in {"materialize", "events", "settle", "chain"}
        PROVE  Counted(r)'
    <3>1. Current(r)' = rec
      BY <1>0, <1>6, <2>2, SavedCurrent
    <3>2. loop.pc = "bump" /\ loop.run = r => old.retry_count < MaxRetries
      BY <1>6 DEF Counted
    <3>3. ~(job'[w] # None /\ pc'[w] \in {"retry", "start"})
      BY <2>2
    <3>. HIDE DEF old
    <3>. QED  BY <1>0, <2>0, <2>1, <2>2, <3>1, <3>2, <3>3 DEF Counted
  <2>3. CASE RetryPipeline(w)
    <3>1. /\ UNCHANGED <<mem, db, starts>> /\ pc'[w] = "start" /\ pc[w] = "retry"
      BY <1>0, <2>1, <2>3 DEF RetryPipeline, tracker, TypeOK
    <3>2. Current(r)' = Current(r)
      BY <3>1 DEF Current
    <3>. QED  BY <1>0, <1>2, <1>4, <1>6, <3>1, <3>2, CountKept
  <2>4. CASE StartRun(w)
    <3>1. /\ Save(q, Started(old)) /\ starts'[r] = starts[r] + 1 /\ pc[w] = "start"
          /\ pc'[w] = "materialize"
      BY <1>0, <1>6, <2>4 DEF StartRun, TypeOK
    <3>2. Started(old) \in RunRecord /\ Started(old).retry_count = old.retry_count
          /\ Started(old).pipeline = old.pipeline
      BY <1>0, MutatorFields
    <3>. QED  BY <2>1, <2>2, <3>1, <3>2
  <2>5. CASE Materialize(w)
    <3>1. /\ UNCHANGED <<mem, db, starts>> /\ pc'[w] \in {"settle", "events"} /\ pc[w] = "materialize"
      BY <1>0, <2>5 DEF Materialize, tracker, TypeOK
    <3>2. Current(r)' = Current(r)
      BY <3>1 DEF Current
    <3>. QED  BY <1>0, <1>2, <1>4, <1>6, <3>1, <3>2, CountKept
  <2>6. CASE RecordEvent(w)
    <3>1. Steps[result[w].pos] \in StepKeys
      BY <1>0, <2>6, StepsAssumption DEF RecordEvent, ThreadCoherent, TypeOK, Result, StepKeys
    <3>2. PICK rec \in {StepDone(old, Steps[result[w].pos]), StepFailed(old, Steps[result[w].pos])} :
            Save(q, rec)
      BY <2>6 DEF RecordEvent
    <3>3. rec \in RunRecord /\ rec.retry_count = old.retry_count /\ rec.pipeline = old.pipeline
      BY <1>0, <3>1, <3>2, MutatorFields
    <3>4. pc[w] = "events" /\ pc'[w] \in {"events", "settle"} /\ starts' = starts
      BY <1>0, <2>6 DEF RecordEvent, TypeOK
    <3>. QED  BY <2>1, <2>2, <3>2, <3>3, <3>4
  <2>7. CASE CompleteRun(w)
    <3>1. /\ Save(q, Completed(old)) /\ starts' = starts /\ pc[w] = "settle"
          /\ job'[w] # None => pc'[w] = "chain"
      BY <1>0, <2>7 DEF CompleteRun, Leave, TypeOK
    <3>2. Completed(old) \in RunRecord /\ Completed(old).retry_count = old.retry_count
          /\ Completed(old).pipeline = old.pipeline
      BY <1>0, MutatorFields
    <3>. QED  BY <2>1, <2>2, <3>1, <3>2
  <2>8. CASE FailRun(w)
    <3>1. Steps[result[w].failed_at] \in StepKeys
      BY <1>0, <2>8, StepsAssumption DEF FailRun, TypeOK, Result, StepKeys
    <3>2. PICK e \in Errors, s \in StepKeys \cup {None} : Save(q, Failed(old, e, s))
      BY <2>8, <3>1 DEF FailRun, Errors
    <3>3. /\ Failed(old, e, s) \in RunRecord /\ Failed(old, e, s).retry_count = old.retry_count
          /\ Failed(old, e, s).pipeline = old.pipeline
      BY <1>0, MutatorFields
    <3>4. starts' = starts /\ pc[w] = "settle" /\ job'[w] = None
      BY <1>0, <2>8 DEF FailRun, Leave, TypeOK
    <3>. QED  BY <2>1, <2>2, <3>2, <3>3, <3>4
  <2>. QED  BY <1>6, <2>3, <2>4, <2>5, <2>6, <2>7, <2>8 DEF Work
<1>. QED  BY <1>3, <1>5, <1>6

LEMMA RetryCounts ==
  ASSUME IInv, NEW r \in ApiRuns, Counted(r), RetryRun
  PROVE  Counted(r)'
<1>q. PICK q \in Runs : q = loop.run
  BY DEF RetryRun, IInv, LoopCoherent
<1>. DEFINE rec == Retried(Current(q))
            j == [fn |-> "retry", run |-> q, auto_er |-> FALSE, attempt |-> rec.retry_count]
<1>0. /\ TypeOK /\ r \in Runs /\ q \in Runs /\ mem[q] # None /\ mem[q].status = "failed"
      /\ Current(q) = mem[q] /\ loop.pc = "bump"
  BY <1>q DEF RetryRun, IInv, LoopCoherent, Runs, Current
<1>a. Current(q) \in RunRecord /\ rec \in RunRecord
  BY <1>0, CurrentType, MutatorTypes
<1>b. /\ Save(q, rec) /\ pending' = pending \cup {j} /\ loop'.pc = "idle"
      /\ UNCHANGED <<issued, pc, job, starts>>
  BY <1>q DEF RetryRun, IdleLoop
<1>2. rec.retry_count = Current(q).retry_count + 1 /\ rec.pipeline = Current(q).pipeline
      /\ rec.status = "running" /\ Current(q).retry_count \in Nat
  BY <1>a DEF Retried, RunRecord
<1>3. j.run = q
  OBVIOUS
<1>. HIDE DEF j, rec
<1>1. Current(q)' = rec /\ \A x \in Runs : x # q => Current(x)' = Current(x)
  BY <1>0, <1>a, <1>b, SavedCurrent
<1>4. CASE q # r
  BY <1>0, <1>1, <1>b, <1>3, <1>4, CountKept
<1>5. CASE q = r
  <2>1. \A w \in Threads : job[w] # None => job[w].run # r
    BY <1>0, <1>5, FailedAtRest
  <2>2. starts[r] = rec.retry_count /\ rec.retry_count <= MaxRetries
    <3>1. starts[r] = Current(r).retry_count + 1 /\ Current(r).retry_count < MaxRetries
      BY <1>q, <1>0, <1>5 DEF Counted, Settled
    <3>. QED  BY <1>2, <1>5, <3>1, NumberAssumption
  <2>3. /\ r \in issued' => Current(r)'.pipeline # "pipeline"
    BY <1>1, <1>2, <1>5, <1>b DEF Counted
  <2>4. Current(r)' = rec /\ starts'[r] = starts[r] /\ ~Settled(rec) /\ rec.retry_count \in Nat
    BY <1>1, <1>2, <1>5, <1>b DEF Settled
  <2>5. starts'[r] = rec.retry_count /\ starts'[r] <= rec.retry_count + 1
    BY <2>2, <2>4
  <2>6. /\ (\A w \in Threads : job'[w] # None => job'[w].run # r) /\ loop'.pc # "bump"
    BY <1>b, <2>1
  <2>. QED  BY <2>2, <2>3, <2>4, <2>5, <2>6 DEF Counted, Settled
<1>. QED  BY <1>4, <1>5

(* The rest of the steps. *)
LEMMA StepCounts ==
  ASSUME ~LossyDisk, IInv, Mirrored, [Next]_vars, NEW r \in ApiRuns, Counted(r)
  PROVE  Counted(r)'
<1>0. TypeOK /\ r \in Runs
  BY DEF IInv, Runs
<1>1. CASE \E q \in CleanRuns, opt \in {"unset", "on", "off"} : TriggerPipeline(q, opt)
  <2>1. PICK q \in CleanRuns, opt \in {"unset", "on", "off"} : TriggerPipeline(q, opt)
    BY <1>1
  <2>. DEFINE j == [fn |-> "clean", run |-> q, auto_er |-> opt # "off", attempt |-> 0]
  <2>2. j \in Job /\ j.run = q /\ q \in ApiRuns
    BY DEF Job, Runs, ApiRuns
  <2>3. /\ Fresh(q) /\ Save(q, NewRecord("cleaning_pipeline", "queued", opt))
        /\ issued' = issued \cup {q} /\ pending' = pending \cup {j}
        /\ UNCHANGED <<pc, job, loop, starts>>
    BY <2>1 DEF TriggerPipeline
  <2>. HIDE DEF j
  <2>. QED  BY <2>2, <2>3, RegisterCounts
<1>2. CASE \E q \in ErRuns : TriggerEr(q)
  <2>1. PICK q \in ErRuns : TriggerEr(q)
    BY <1>2
  <2>. DEFINE j == [fn |-> "er", run |-> q, auto_er |-> FALSE, attempt |-> 0]
  <2>2. j \in Job /\ j.run = q /\ q \in ApiRuns
    BY DEF Job, Runs, ApiRuns
  <2>3. /\ Fresh(q) /\ Save(q, NewRecord("er_pipeline", "queued", "unset"))
        /\ issued' = issued \cup {q} /\ pending' = pending \cup {j}
        /\ UNCHANGED <<pc, job, loop, starts>>
    BY <2>1 DEF TriggerEr
  <2>. HIDE DEF j
  <2>. QED  BY <2>2, <2>3, RegisterCounts
<1>3. CASE RetryRun
  BY <1>3, RetryCounts
<1>4. CASE \E w \in Threads : Work(w)
  BY <1>4, WorkCounts
<1>5. CASE \/ \E op \in {"status", "retry"}, q \in Runs : Request(op, q)
           \/ LoadFromDb \/ ReadStatus \/ ReadProgress \/ UNCHANGED vars
  <2>1. /\ UNCHANGED <<mem, db, issued, pending, pc, job, starts>>
        /\ loop'.pc = "bump" => loop'.run = loop.run /\ loop.pc = "bump"
    <3>1. CASE \E op \in {"status", "retry"}, q \in Runs : Request(op, q)
      <4>1. PICK op \in {"status", "retry"}, q \in Runs : Request(op, q)
        BY <3>1
      <4>. QED  BY <4>1 DEF Request, tracker, threads
    <3>2. CASE LoadFromDb
      <4>1. /\ UNCHANGED <<mem, db, issued, pending, pc, job, starts>>
            /\ \/ loop' = IdleLoop
               \/ loop' = [loop EXCEPT !.pc = "install", !.found = db[loop.run]]
        BY <3>2 DEF LoadFromDb, tracker, threads
      <4>2. loop'.pc # "bump"
        <5>1. "pc" \in DOMAIN loop
          BY <1>0 DEF TypeOK
        <5>2. CASE loop' = [loop EXCEPT !.pc = "install", !.found = db[loop.run]]
          BY <5>1, <5>2
        <5>. QED  BY <4>1, <5>2 DEF IdleLoop
      <4>. QED  BY <4>1, <4>2
    <3>3. CASE ReadStatus
      BY <1>0, <3>3 DEF ReadStatus, tracker, threads, TypeOK
    <3>4. CASE ReadProgress
      BY <3>4 DEF ReadProgress, tracker, threads, IdleLoop
    <3>. QED  BY <1>5, <3>1, <3>2, <3>3, <3>4 DEF vars
  <2>2. Current(r)' = Current(r)
    BY <2>1 DEF Current
  <2>. QED  BY <2>1, <2>2, CountKept
<1>6. CASE CheckRetry
  <2>1. /\ UNCHANGED <<mem, db, issued, pending, pc, job, starts>>
        /\ loop'.pc = "bump" => loop'.run = loop.run /\ RetryAllowed(mem[loop.run])
    BY <1>0, <1>6 DEF CheckRetry, tracker, threads, IdleLoop, TypeOK
  <2>2. Current(r)' = Current(r)
    BY <2>1 DEF Current
  <2>3. mem[loop.run] # None
    BY <1>6 DEF CheckRetry, IInv, LoopCoherent
  <2>4. loop'.pc = "bump" /\ loop'.run = r => Current(r).retry_count < MaxRetries
    BY <2>1, <2>3 DEF RetryAllowed, Current
  <2>. QED  BY <2>1, <2>2, <2>4, CountKept
<1>7. CASE InstallLoaded
  <2>1. /\ UNCHANGED <<db, issued, pending, pc, job, starts>> /\ loop'.pc # "bump"
        /\ mem' = [mem EXCEPT ![loop.run] = loop.found]
    BY <1>0, <1>7 DEF InstallLoaded, threads, TypeOK
  <2>2. loop.run \in Runs /\ mem[loop.run] = None /\ loop.found # None
    BY <1>7 DEF InstallLoaded, IInv, LoopCoherent
  <2>3. loop.found = db[loop.run]
    BY <2>2 DEF Mirrored
  <2>4. Current(r)' = Current(r)
    BY <1>0, <2>1, <2>2, <2>3 DEF Current, TypeOK
  <2>. QED  BY <2>1, <2>4, CountKept
<1>8. CASE \E w \in Workers, j \in pending : Take(w, j)
  <2>1. PICK w \in Workers, j \in pending : Take(w, j)
    BY <1>8
  <2>2. /\ UNCHANGED <<mem, db, issued, loop, starts>> /\ pending' = pending \ {j}
        /\ job' = [job EXCEPT ![w] = j] /\ w \in Threads
        /\ pc' = [pc EXCEPT ![w] = IF j.fn = "retry" THEN "retry" ELSE "start"]
    BY <2>1 DEF Take, tracker, Threads
  <2>3. Current(r)' = Current(r)
    BY <2>2 DEF Current
  <2>4. \A v \in Threads : job'[v] # None /\ job'[v].run = r =>
          \/ job[v] # None /\ job[v].run = r /\ pc'[v] = pc[v]
          \/ pc'[v] \in {"retry", "start"} /\ \E i \in pending : i.run = r
    BY <1>0, <2>2 DEF TypeOK
  <2>. QED  BY <2>2, <2>3, <2>4, CountKept
<1>9. CASE \E q \in KafkaRuns : KafkaBatchComplete(q)
  <2>1. PICK q \in KafkaRuns : KafkaBatchComplete(q)
    BY <1>9
  <2>. DEFINE j == [fn |-> "clean", run |-> q, auto_er |-> FALSE, attempt |-> 0]
  <2>2. /\ UNCHANGED <<mem, db, pending, loop, starts>> /\ issued' = issued \cup {q}
        /\ job' = [job EXCEPT ![Poller] = j] /\ pc' = [pc EXCEPT ![Poller] = "start"]
        /\ q # r /\ j.run = q
    BY <2>1, IdAssumption DEF KafkaBatchComplete, tracker, HookRuns
  <2>. HIDE DEF j
  <2>3. Current(r)' = Current(r)
    BY <2>2 DEF Current
  <2>4. \A v \in Threads : job'[v] # None /\ job'[v].run = r =>
          job[v] # None /\ job[v].run = r /\ pc'[v] = pc[v]
    BY <1>0, <2>2 DEF TypeOK
  <2>. QED  BY <2>2, <2>3, <2>4, CountKept
<1>10. CASE Crash
  <2>1. /\ mem' = [x \in Runs |-> None] /\ pending' = {} /\ job' = [w \in Threads |-> None]
        /\ loop'.pc = "idle" /\ UNCHANGED <<db, issued, starts>>
    BY <1>10 DEF Crash, IdleLoop
  <2>2. Current(r)' = Current(r)
    BY <1>0, <2>1 DEF Mirrored, Current
  <2>. QED  BY <2>1, <2>2, CountKept
<1>. QED  BY <1>1, <1>2, <1>3, <1>4, <1>5, <1>6, <1>7, <1>8, <1>9, <1>10 DEF Next, Serve, GetStatus

(* The limit on retries bounds what is executed: a run of the API starts   *)
(* once more than its recorded retries, and never beyond the limit, when   *)
(* _persist_to_db does not swallow an error of SQLite.                     *)
THEOREM AttemptsAreCounted == ASSUME ~LossyDisk PROVE Spec => []AttemptsCounted
<1>. DEFINE Counts == \A r \in ApiRuns : Counted(r)
<1>1. Init => Counts
  <2>. SUFFICES ASSUME Init, NEW r \in ApiRuns PROVE Counted(r)
    OBVIOUS
  <2>1. r \in Runs /\ Current(r) = NewRecord("pipeline", "queued", "unset")
    BY DEF Init, Current, Runs
  <2>. QED  BY <2>1, NumberAssumption DEF Init, Counted, Settled, NewRecord, IdleLoop
<1>2. IInv /\ Mirrored /\ Counts /\ [Next]_vars => Counts'
  BY StepCounts
<1>3. Counts => AttemptsCounted
  BY DEF Counted, AttemptsCounted
<1>. QED  BY <1>1, <1>2, <1>3, MirroredAlways, PTL DEF Spec
=============================================================================

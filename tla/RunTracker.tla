------------------------------ MODULE RunTracker ------------------------------
(***************************************************************************)
(* The life of a pipeline run in the Data Engine: PipelineRunTracker       *)
(* (processing/run_tracker.py), the DagsterTrigger methods that drive it   *)
(* (processing/trigger.py) and the endpoints that queue, poll and retry    *)
(* runs (api/processing.py).                                               *)
(*                                                                         *)
(* Three kinds of actors touch a run record:                               *)
(*   - the event loop, which executes the `async def` endpoints one after  *)
(*     the other (none of them awaits);                                    *)
(*   - the worker threads, which execute the background tasks the          *)
(*     endpoints queue;                                                    *)
(*   - the Kafka poll thread, which calls trigger_cleaning_pipeline for a  *)
(*     batch-complete message, under a run id nobody else knows.           *)
(* The tracker's methods run under its lock and are one step each, except  *)
(* get_status, which releases the lock before it reads SQLite and returns  *)
(* the shared record itself.                                               *)
(*                                                                         *)
(* Abstracted: times, log lines, messages and the Dagster run id.  The     *)
(* GraphQL fallback of get_status finds nothing, Dagster not knowing the   *)
(* ids of this tracker.                                                    *)
(***************************************************************************)
EXTENDS Integers, Sequences, FiniteSets

CONSTANTS
  CleanRuns,   \* run ids drawn by POST /trigger
  ErRuns,      \* run ids drawn by POST /er/trigger
  KafkaRuns,   \* run ids drawn by trigger_cleaning_pipeline for the poll thread
  ChainRuns,   \* run ids drawn by trigger_er_pipeline called after a cleaning
  Workers,     \* threads that execute background tasks
  Poller,      \* the thread of IngestRawConsumer._poll_loop
  Steps,       \* the step keys of a pipeline, in execution order
  TotalSteps,  \* RunRecord.total_steps
  MaxRetries,  \* the retry limit of the retry endpoint, 3 in the code
  MaxCrashes,  \* bound on the process crashes explored
  LossyDisk,   \* TRUE when _persist_to_db may fail (it swallows the error)
  None

ApiRuns == CleanRuns \cup ErRuns
HookRuns == KafkaRuns \cup ChainRuns
Runs == ApiRuns \cup HookRuns
Threads == Workers \cup {Poller}
StepKeys == {Steps[i] : i \in 1..Len(Steps)}

ASSUME StepsAssumption == Steps \in Seq(STRING) /\ Len(Steps) > 0
ASSUME NumberAssumption ==
  /\ TotalSteps \in Nat
  /\ MaxRetries \in Nat \ {0}
  /\ MaxCrashes \in Nat
  /\ LossyDisk \in BOOLEAN
ASSUME IdAssumption ==
  /\ CleanRuns \cap ErRuns = {}
  /\ KafkaRuns \cap ChainRuns = {}
  /\ ApiRuns \cap HookRuns = {}
  /\ Poller \notin Workers

VARIABLES
  mem,      \* PipelineRunTracker._runs: the records in memory
  db,       \* the pipeline_runs table of SQLite
  issued,   \* run ids already drawn (uuid4 never repeats one)
  pending,  \* background tasks queued and not yet started
  pc,       \* what each thread is doing
  job,      \* the task a thread executes, or None
  result,   \* what materialize() returned to a thread, and how far it was read
  loop,     \* the event loop: the request it serves and the record it read
  reply,    \* the last answer of the status endpoint
  starts,   \* history: executions of the pipeline begun, per run
  chained,  \* history: runs whose completion has launched an ER pipeline
  crashes

tracker == <<mem, db>>
threads == <<pending, pc, job, result>>
vars == <<mem, db, issued, pending, pc, job, result, loop, reply, starts,
          chained, crashes>>

-----------------------------------------------------------------------------
(* Data *)

Errors == StepKeys \cup {"materialize", "unrecognized"}
HistoryEntry == [step : StepKeys \cup {"pipeline"}, error : Errors,
                 retry_count : Nat]
RunRecord ==
  [pipeline : {"cleaning_pipeline", "er_pipeline", "pipeline"},
   auto_er : {"unset", "on", "off"},  \* what metadata["options"] says of it
   status : {"queued", "running", "completed", "failed"},
   progress : 0..100,
   steps : SUBSET StepKeys,
   current_step : StepKeys \cup {None},
   failed_step : StepKeys \cup {None},
   error : Errors \cup {None},
   history : Seq(HistoryEntry),
   retry_count : Nat]

Job == [fn : {"clean", "er", "retry"}, run : Runs, auto_er : BOOLEAN,
        attempt : Nat]
Result == [failed_at : 0..Len(Steps),  \* the step that failed, 0 for none
           raised : BOOLEAN,           \* materialize raised the step's error
           pos : 1..(Len(Steps) + 1)]  \* next step event to record
NoResult == [failed_at |-> 0, raised |-> FALSE, pos |-> 1]

ASSUME NoneAssumption ==
  /\ None \notin Runs /\ None \notin RunRecord /\ None \notin Job
  /\ None \notin Errors

IdleLoop == [pc |-> "idle", op |-> "status", run |-> None, found |-> None,
             seen |-> None]

NewRecord(pipeline, status, auto_er) ==
  [pipeline |-> pipeline, auto_er |-> auto_er, status |-> status,
   progress |-> 0, steps |-> {}, current_step |-> None, failed_step |-> None,
   error |-> None, history |-> <<>>, retry_count |-> 0]

(* What every mutator of the tracker starts from: the record in memory, or *)
(* the one in SQLite, or a fresh one under the name "pipeline".            *)
Current(r) ==
  IF mem[r] # None THEN mem[r]
  ELSE IF db[r] # None THEN db[r]
  ELSE NewRecord("pipeline", "queued", "unset")

Save(r, rec) ==
  /\ mem' = [mem EXCEPT ![r] = rec]
  /\ \/ db' = [db EXCEPT ![r] = rec]
     \/ LossyDisk /\ UNCHANGED db

LastError(rec) ==
  IF rec.history = <<>> THEN None ELSE rec.history[Len(rec.history)].error

BugPercent(n) ==
  LET total == IF TotalSteps > 1 THEN TotalSteps ELSE 1
  IN  (n * 100) \div total
Percent(n) ==
  LET total == IF TotalSteps > 1 THEN TotalSteps ELSE 1
      pct   == (n * 100) \div total
  IN  IF pct > 99 THEN 99 ELSE pct

-----------------------------------------------------------------------------
(* The mutators, as functions of the record.  A definition named Bug... is *)
(* a defective variant of the definition that follows it.                  *)

BugStarted(rec) == [rec EXCEPT !.status = "running", !.steps = {},
                               !.history = <<>>]
Started(rec) == [rec EXCEPT !.status = "running"]

StepDone(rec, s) ==
  LET steps == rec.steps \cup {s}
  IN  [rec EXCEPT !.steps = steps, !.current_step = s,
                  !.progress = Percent(Cardinality(steps))]

Completed(rec) == [rec EXCEPT !.status = "completed", !.progress = 100]

StepFailed(rec, s) ==
  [rec EXCEPT !.failed_step = s, !.error = s,
     !.history = Append(@, [step |-> s, error |-> s,
                            retry_count |-> rec.retry_count])]

BugFailed(rec, err, s) ==
  [rec EXCEPT !.status = "failed", !.error = err]
BugFailedSilently(rec, err, s) == [rec EXCEPT !.error = err]
Failed(rec, err, s) ==
  LET at == IF s # None THEN s
            ELSE IF rec.failed_step = None THEN rec.current_step
            ELSE rec.failed_step
      entry == [step |-> IF at = None THEN "pipeline" ELSE at,
                error |-> err, retry_count |-> rec.retry_count]
  IN  [rec EXCEPT !.status = "failed", !.error = err, !.failed_step = at,
         !.history = IF LastError(rec) # err THEN Append(@, entry) ELSE @]

BugRetried(rec) == [rec EXCEPT !.status = "running", !.error = None]
Retried(rec) ==
  [rec EXCEPT !.retry_count = @ + 1, !.status = "running", !.error = None]

-----------------------------------------------------------------------------
(* The event loop *)

Fresh(r) == r \notin issued

(* POST /trigger: register the run, queue its background task.  The loop   *)
(* does both before it serves anyone else, and nobody knows the id yet.    *)
TriggerPipeline(r, opt) ==
  /\ loop.pc = "idle"
  /\ Fresh(r)
  /\ issued' = issued \cup {r}
  /\ Save(r, NewRecord("cleaning_pipeline", "queued", opt))
  /\ pending' = pending \cup
       {[fn |-> "clean", run |-> r, auto_er |-> opt # "off", attempt |-> 0]}
  /\ UNCHANGED <<pc, job, result, loop, reply, starts, chained, crashes>>

(* POST /er/trigger *)
TriggerEr(r) ==
  /\ loop.pc = "idle"
  /\ Fresh(r)
  /\ issued' = issued \cup {r}
  /\ Save(r, NewRecord("er_pipeline", "queued", "unset"))
  /\ pending' = pending \cup
       {[fn |-> "er", run |-> r, auto_er |-> FALSE, attempt |-> 0]}
  /\ UNCHANGED <<pc, job, result, loop, reply, starts, chained, crashes>>

(* A client knows the id the trigger endpoint answered with; the id of a   *)
(* hook run it can only read in the log line that follows start_run.       *)
Known(r) == r \in issued /\ (r \in ApiRuns \/ starts[r] > 0)

(* GET /status/{id} and POST /retry/{id} begin with get_status: a look in  *)
(* the cache under the lock.                                               *)
Request(op, r) ==
  /\ loop.pc = "idle"
  /\ Known(r)
  /\ loop' = [pc |-> IF mem[r] = None THEN "load"
                     ELSE IF op = "status" THEN "status" ELSE "check",
              op |-> op, run |-> r, found |-> None, seen |-> None]
  /\ reply' = None
  /\ UNCHANGED <<tracker, issued, threads, starts, chained, crashes>>

(* get_status, cache miss: the read of SQLite, outside the lock.  A run    *)
(* found nowhere is answered at once: "failed" to a poll, 404 to a retry.  *)
LoadFromDb ==
  /\ loop.pc = "load"
  /\ IF db[loop.run] = None
     THEN /\ loop' = IdleLoop
          /\ reply' = IF loop.op = "status"
                      THEN [run |-> loop.run, status |-> "failed",
                            progress |-> 0]
                      ELSE None
     ELSE /\ loop' = [loop EXCEPT !.pc = "install", !.found = db[loop.run]]
          /\ UNCHANGED reply
  /\ UNCHANGED <<tracker, issued, threads, starts, chained, crashes>>

(* get_status, cache miss: what was read is put in the cache, whatever the *)
(* cache holds by then.                                                    *)
InstallLoaded ==
  /\ loop.pc = "install"
  /\ mem' = [mem EXCEPT ![loop.run] = loop.found]
  /\ loop' = [loop EXCEPT !.found = None,
                !.pc = IF loop.op = "status" THEN "status" ELSE "check"]
  /\ UNCHANGED <<db, issued, threads, reply, starts, chained, crashes>>

(* The status endpoint reads the fields of the shared record one by one,   *)
(* without the lock: the status first ...                                  *)
ReadStatus ==
  /\ loop.pc = "status"
  /\ loop' = [loop EXCEPT !.pc = "progress", !.seen = mem[loop.run].status]
  /\ UNCHANGED <<tracker, issued, threads, reply, starts, chained, crashes>>

(* ... then the progress. *)
ReadProgress ==
  /\ loop.pc = "progress"
  /\ reply' = [run |-> loop.run, status |-> loop.seen,
               progress |-> mem[loop.run].progress]
  /\ loop' = IdleLoop
  /\ UNCHANGED <<tracker, issued, threads, starts, chained, crashes>>

BugRetryAllowed(rec) == rec.retry_count < MaxRetries
RetryAllowed(rec) == rec.status = "failed" /\ rec.retry_count < MaxRetries

(* The retry endpoint reads status and retry count of the shared record,   *)
(* also without the lock, and refuses with 400 ...                         *)
CheckRetry ==
  /\ loop.pc = "check"
  /\ loop' = IF RetryAllowed(mem[loop.run])
             THEN [loop EXCEPT !.pc = "bump"] ELSE IdleLoop
  /\ UNCHANGED <<tracker, issued, threads, reply, starts, chained, crashes>>

(* ... or goes on to retry_run, which checks nothing, and queues the task. *)
RetryRun ==
  /\ loop.pc = "bump"
  /\ LET rec == Retried(Current(loop.run))
     IN  /\ Save(loop.run, rec)
         /\ pending' = pending \cup
              {[fn |-> "retry", run |-> loop.run, auto_er |-> FALSE,
                attempt |-> rec.retry_count]}
  /\ loop' = IdleLoop
  /\ UNCHANGED <<issued, pc, job, result, reply, starts, chained, crashes>>

-----------------------------------------------------------------------------
(* The threads *)

Take(w, j) ==
  /\ w \in Workers
  /\ pc[w] = "idle"
  /\ pending' = pending \ {j}
  /\ job' = [job EXCEPT ![w] = j]
  /\ pc' = [pc EXCEPT ![w] = IF j.fn = "retry" THEN "retry" ELSE "start"]
  /\ UNCHANGED <<tracker, issued, result, loop, reply, starts, chained, crashes>>

(* IngestRawConsumer.handle calls trigger_cleaning_pipeline; the messages  *)
(* of the Core Backend carry neither a run id nor auto_er.                 *)
KafkaBatchComplete(r) ==
  /\ pc[Poller] = "idle"
  /\ Fresh(r)
  /\ issued' = issued \cup {r}
  /\ job' = [job EXCEPT ![Poller] = [fn |-> "clean", run |-> r,
                                     auto_er |-> FALSE, attempt |-> 0]]
  /\ pc' = [pc EXCEPT ![Poller] = "start"]
  /\ UNCHANGED <<tracker, pending, result, loop, reply, starts, chained, crashes>>

Leave(w) ==
  /\ pc' = [pc EXCEPT ![w] = "idle"]
  /\ job' = [job EXCEPT ![w] = None]
  /\ result' = [result EXCEPT ![w] = NoResult]

(* retry_pipeline dispatches on the recorded pipeline name.  The metadata  *)
(* it rebuilds is run_id plus the recorded options: without the auto_er    *)
(* the trigger endpoint had added.  A name it does not know fails the run. *)
RetryPipeline(w) ==
  /\ pc[w] = "retry"
  /\ LET r   == job[w].run
         rec == Current(r)
     IN  IF rec.pipeline = "pipeline"
         THEN /\ Save(r, Failed(rec, "unrecognized", None))
              /\ Leave(w)
         ELSE /\ job' = [job EXCEPT ![w] =
                    [fn |-> IF rec.pipeline = "er_pipeline" THEN "er" ELSE "clean",
                     run |-> r,
                     auto_er |-> rec.pipeline = "cleaning_pipeline"
                                 /\ rec.auto_er = "on",
                     attempt |-> job[w].attempt]]
              /\ pc' = [pc EXCEPT ![w] = "start"]
              /\ UNCHANGED <<tracker, result>>
  /\ UNCHANGED <<issued, pending, loop, reply, starts, chained, crashes>>

StartRun(w) ==
  /\ pc[w] = "start"
  /\ Save(job[w].run, Started(Current(job[w].run)))
  /\ pc' = [pc EXCEPT ![w] = "materialize"]
  /\ starts' = [starts EXCEPT ![job[w].run] = @ + 1]
  /\ UNCHANGED <<issued, pending, job, result, loop, reply, chained, crashes>>

(* materialize() of Dagster (external): every step succeeds, or step i     *)
(* fails for good and the call either raises its error or returns a result *)
(* that is not a success.  The code handles both.                          *)
Materialize(w) ==
  /\ pc[w] = "materialize"
  /\ \E i \in 0..Len(Steps), raised \in BOOLEAN :
       /\ i = 0 => ~raised
       /\ result' = [result EXCEPT ![w] = [failed_at |-> i, raised |-> raised,
                                           pos |-> 1]]
       /\ pc' = [pc EXCEPT ![w] = IF raised THEN "settle" ELSE "events"]
  /\ UNCHANGED <<tracker, issued, pending, job, loop, reply, starts, chained,
                 crashes>>

(* The loop over result.all_events: the steps before the failed one        *)
(* succeeded, those after it never ran.                                    *)
RecordEvent(w) ==
  /\ pc[w] = "events"
  /\ LET r   == job[w].run
         res == result[w]
         last == IF res.failed_at = 0 THEN Len(Steps) ELSE res.failed_at
     IN  /\ IF res.pos = res.failed_at
            THEN Save(r, StepFailed(Current(r), Steps[res.pos]))
            ELSE Save(r, StepDone(Current(r), Steps[res.pos]))
         /\ result' = [result EXCEPT ![w].pos = @ + 1]
         /\ pc' = [pc EXCEPT ![w] = IF res.pos = last THEN "settle" ELSE @]
  /\ UNCHANGED <<issued, pending, job, loop, reply, starts, chained, crashes>>

CompleteRun(w) ==
  /\ pc[w] = "settle"
  /\ result[w].failed_at = 0
  /\ Save(job[w].run, Completed(Current(job[w].run)))
  /\ IF job[w].auto_er
     THEN /\ pc' = [pc EXCEPT ![w] = "chain"]
          /\ UNCHANGED <<job, result>>
     ELSE Leave(w)
  /\ UNCHANGED <<issued, pending, loop, reply, starts, chained, crashes>>

(* The failure branch passes the failed step on; the except clause, which  *)
(* catches what materialize raised, does not.                              *)
FailRun(w) ==
  /\ pc[w] = "settle"
  /\ result[w].failed_at # 0
  /\ LET r == job[w].run
         s == Steps[result[w].failed_at]
     IN  Save(r, IF result[w].raised THEN Failed(Current(r), s, None)
                 ELSE Failed(Current(r), "materialize", s))
  /\ Leave(w)
  /\ UNCHANGED <<issued, pending, loop, reply, starts, chained, crashes>>

(* trigger_er_pipeline called at the end of a cleaning run, in the same    *)
(* thread and under a run id of its own.                                   *)
ChainEr(w, h) ==
  /\ pc[w] = "chain"
  /\ Fresh(h)
  /\ issued' = issued \cup {h}
  /\ chained' = chained \cup {job[w].run}
  /\ job' = [job EXCEPT ![w] = [fn |-> "er", run |-> h, auto_er |-> FALSE,
                                attempt |-> 0]]
  /\ pc' = [pc EXCEPT ![w] = "start"]
  /\ result' = [result EXCEPT ![w] = NoResult]
  /\ UNCHANGED <<tracker, pending, loop, reply, starts, crashes>>

(* The process dies: memory is gone, SQLite stays, and nothing at start-up *)
(* looks at the runs that were in flight.                                  *)
Crash ==
  /\ crashes < MaxCrashes
  /\ crashes' = crashes + 1
  /\ mem' = [r \in Runs |-> None]
  /\ pending' = {}
  /\ pc' = [w \in Threads |-> "idle"]
  /\ job' = [w \in Threads |-> None]
  /\ result' = [w \in Threads |-> NoResult]
  /\ loop' = IdleLoop
  /\ reply' = None
  /\ UNCHANGED <<db, issued, starts, chained>>

-----------------------------------------------------------------------------
Init ==
  /\ mem = [r \in Runs |-> None]
  /\ db = [r \in Runs |-> None]
  /\ issued = {}
  /\ pending = {}
  /\ pc = [w \in Threads |-> "idle"]
  /\ job = [w \in Threads |-> None]
  /\ result = [w \in Threads |-> NoResult]
  /\ loop = IdleLoop
  /\ reply = None
  /\ starts = [r \in Runs |-> 0]
  /\ chained = {}
  /\ crashes = 0

GetStatus == LoadFromDb \/ InstallLoaded
Serve == GetStatus \/ ReadStatus \/ ReadProgress \/ CheckRetry \/ RetryRun
Work(w) ==
  \/ RetryPipeline(w)
  \/ StartRun(w)
  \/ Materialize(w)
  \/ RecordEvent(w)
  \/ CompleteRun(w)
  \/ FailRun(w)
  \/ \E h \in ChainRuns : ChainEr(w, h)

Next ==
  \/ \E r \in CleanRuns, opt \in {"unset", "on", "off"} : TriggerPipeline(r, opt)
  \/ \E r \in ErRuns : TriggerEr(r)
  \/ \E op \in {"status", "retry"}, r \in Runs : Request(op, r)
  \/ Serve
  \/ \E w \in Workers, j \in pending : Take(w, j)
  \/ \E r \in KafkaRuns : KafkaBatchComplete(r)
  \/ \E w \in Threads : Work(w)
  \/ Crash

Spec == Init /\ [][Next]_vars

(* A thread that has something to do goes on doing it, a queued task finds *)
(* a thread of the pool, and the loop finishes the request it serves.      *)
(* Clients and Kafka owe nothing.                                          *)
Fairness ==
  /\ WF_vars(Serve)
  /\ \A w \in Threads : WF_vars(Work(w))
  /\ WF_vars(\E w \in Workers, j \in pending : Take(w, j))
FairSpec == Spec /\ Fairness

-----------------------------------------------------------------------------
(* Properties *)

Settled(rec) == rec.status \in {"completed", "failed"}

TypeOK ==
  /\ mem \in [Runs -> RunRecord \cup {None}]
  /\ db \in [Runs -> RunRecord \cup {None}]
  /\ issued \in SUBSET Runs
  /\ pending \in SUBSET Job
  /\ pc \in [Threads -> {"idle", "retry", "start", "materialize", "events",
                         "settle", "chain"}]
  /\ job \in [Threads -> Job \cup {None}]
  /\ result \in [Threads -> Result]
  /\ loop \in [pc : {"idle", "load", "install", "status", "progress", "check",
                    "bump"},
               op : {"status", "retry"}, run : Runs \cup {None},
               found : RunRecord \cup {None},
               seen : {"queued", "running", "completed", "failed", None}]
  /\ reply \in [run : Runs, status : {"queued", "running", "completed", "failed"},
                progress : 0..100] \cup {None}
  /\ starts \in [Runs -> Nat]
  /\ chained \in SUBSET Runs
  /\ crashes \in 0..MaxCrashes

(* No two executions of the same run are ever queued or under way: the     *)
(* retry endpoint reads the record without the lock and retry_run checks   *)
(* nothing, so this rests on "failed" being the last word of an attempt    *)
(* and on requests being served one at a time.                             *)
AtMostOneAttempt ==
  /\ \A p, q \in pending : p.run = q.run => p = q
  /\ \A v, w \in Threads :
       job[v] # None /\ job[w] # None /\ job[v].run = job[w].run => v = w
  /\ \A p \in pending, w \in Threads : job[w] # None => job[w].run # p.run

(* What makes AtMostOneAttempt inductive: a run somebody executes, or will *)
(* execute, is queued or running in memory (or a hook run nobody has heard *)
(* of yet); a thread between an attempt and the chained ER pipeline holds  *)
(* a completed run; and the record a request works on is where the request *)
(* believes it to be, "failed" if it is about to be retried.               *)
Live(r) == mem[r] # None /\ mem[r].status \in {"queued", "running"}
Unborn(r) == r \in HookRuns /\ mem[r] = None /\ starts[r] = 0

ThreadCoherent(w) ==
  /\ pc[w] = "idle" <=> job[w] = None
  /\ job[w] # None => job[w].run \in issued
  /\ pc[w] \in {"retry", "materialize", "events", "settle"} => Live(job[w].run)
  /\ pc[w] = "start" => Live(job[w].run) \/ Unborn(job[w].run)
  /\ pc[w] = "chain" => /\ mem[job[w].run] # None
                        /\ mem[job[w].run].status = "completed"
  /\ pc[w] = "events" => /\ result[w].pos <= Len(Steps)
                         /\ result[w].failed_at # 0
                              => result[w].pos <= result[w].failed_at
ThreadsCoherent == \A w \in Threads : ThreadCoherent(w)
TasksLive == \A j \in pending : j.run \in issued /\ Live(j.run)
LoopCoherent ==
  /\ loop.pc # "idle" => loop.run \in Runs /\ Known(loop.run)
  /\ loop.pc \in {"load", "install"} => mem[loop.run] = None
  /\ loop.pc = "install" => loop.found # None
  /\ loop.pc \in {"status", "progress", "check", "bump"}
       => mem[loop.run] # None
  /\ loop.pc = "bump" => mem[loop.run].status = "failed"
  /\ loop.pc = "progress"
       => loop.seen \in {"queued", "running", "completed", "failed"}
FreshUnknown == \A r \in Runs : r \notin issued => mem[r] = None /\ starts[r] = 0
IInv ==
  /\ TypeOK
  /\ AtMostOneAttempt
  /\ ThreadsCoherent
  /\ TasksLive
  /\ LoopCoherent
  /\ FreshUnknown

(* The limit of three retries bounds what is executed, not just a counter: *)
(* an API run starts at most once more than its recorded retries, exactly  *)
(* once more when it has settled, and never beyond the limit.              *)
AttemptsCounted ==
  \A r \in ApiRuns :
    /\ starts[r] <= Current(r).retry_count + 1
    /\ Current(r).retry_count <= MaxRetries
    /\ Settled(Current(r)) => starts[r] = Current(r).retry_count + 1

(* A failed run says why, and its error is the last one of its history,    *)
(* whichever of the two failure branches wrote it and however many         *)
(* attempts came before.                                                   *)
FailureExplained ==
  \A r \in Runs :
    LET rec == Current(r)
    IN  /\ rec.status = "failed" => rec.error # None
        /\ rec.error # None => LastError(rec) = rec.error

(* What is known of a run only grows, across retries, and across the two   *)
(* steps in which a poll refills the cache: no retry count, completed step *)
(* or error is ever forgotten by the record the tracker serves.            *)
HistoryOnlyGrows ==
  [][\A r \in Runs :
       LET old == Current(r)
           new == Current(r)'
       IN  /\ new.retry_count >= old.retry_count
           /\ old.steps \subseteq new.steps
           /\ Len(new.history) >= Len(old.history)
           /\ \A i \in 1..Len(old.history) : new.history[i] = old.history[i]
    ]_vars

(* A completed run stays completed: neither a retry, nor a late step event *)
(* or failure of another attempt, nor a restart reopens it.                *)
CompletedIsFinal ==
  [][\A r \in Runs : Current(r).status = "completed"
                        => Current(r)'.status = "completed"]_vars

(* As long as the process lives, a run that is queued or running settles.  *)
RunSettles ==
  \A r \in Runs :
    /\ crashes = 0
    /\ Current(r).status = "running" \/ \E j \in pending : j.run = r
    ~> Settled(Current(r)) \/ crashes > 0

(* Completion of a cleaning run queued by the API goes on to entity        *)
(* resolution unless its options say otherwise, for a retried run as well. *)
CompletionChains ==
  \A r \in CleanRuns :
    /\ Current(r).status = "completed"
    /\ Current(r).auto_er # "off"
    /\ \A w \in Threads : job[w] # None => job[w].run # r
    => r \in chained
=============================================================================

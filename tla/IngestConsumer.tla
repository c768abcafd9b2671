---------------------------- MODULE IngestConsumer ----------------------------
(***************************************************************************)
(* IngestRawConsumer (kafka/consumers.py): the poll loop that consumes the *)
(* topic ingest.raw in batches, hands each message to handle, quarantines  *)
(* what it cannot process and commits its offset.                          *)
(*                                                                         *)
(* The Kafka client (external) is configured with enable.auto.commit: it   *)
(* stores the offset of a message when consume() returns it, commits the   *)
(* stored offset from a thread of its own every five seconds, on commit()  *)
(* and on close().  A callback that takes longer than max.poll.interval.ms *)
(* (it executes the whole cleaning pipeline) gets the consumer evicted     *)
(* from its group: it can commit no longer, and its next poll rejoins at   *)
(* the committed offset.                                                   *)
(*                                                                         *)
(* Kinds of messages: "batch" and "data" are objects with and without      *)
(* batch_complete, "faulty" is an object on which handle raises (say, a    *)
(* row count that is not a number), "malformed" is not JSON and            *)
(* "nonobject" is JSON but not an object.                                  *)
(***************************************************************************)
EXTENDS Naturals, Sequences, FiniteSets

CONSTANTS
  Kinds,           \* kinds of message published
  BatchSize,       \* batch_size
  MaxLog,          \* bound on the length of the topic
  MaxReplays,      \* bound on the replays of an entry
  PublishFails,    \* see Quarantine
  QuarantineFails, \* TRUE when record_failure may raise (it is logged)
  Faults,          \* which of "stop", "crash", "evict", "update" are explored
  MaxFaults        \* how many of them

ASSUME ConsumerAssumption ==
  /\ Kinds \subseteq {"batch", "data", "faulty", "malformed", "nonobject"}
  /\ BatchSize \in Nat \ {0}
  /\ PublishFails \in BOOLEAN /\ QuarantineFails \in BOOLEAN
  /\ MaxLog \in Nat /\ MaxReplays \in Nat /\ MaxFaults \in Nat

VARIABLES
  log, store, replaying, interrupted, \* see Quarantine
  committed,   \* the committed offset of the group: messages before it
  position,    \* the stored offset: messages consume() has returned
  batch,       \* offsets of the fetched messages still to be dispatched
  phase,       \* where the poll loop is
  running,     \* self._running
  processed,   \* processed_batch is not empty
  evicted,     \* the consumer is no longer a member of its group
  disposed,    \* history: what was done, in the order it was done
  left,        \* history: the messages a stop or a crash left undispatched
  faults

Q == INSTANCE Quarantine

replays == <<replaying, interrupted>>
vars == <<log, store, replays, committed, position, batch, phase, running, processed,
          evicted, disposed, left, faults>>

Init ==
  /\ log = <<>> /\ store = <<>>
  /\ replaying = 0 /\ interrupted = 0
  /\ committed = 0 /\ position = 0
  /\ batch = <<>>
  /\ phase = "down" /\ running = FALSE
  /\ processed = FALSE /\ evicted = FALSE
  /\ disposed = <<>> /\ left = {}
  /\ faults = 0

-----------------------------------------------------------------------------
(* ConnectionProducer of the Core Backend puts a message on the topic. *)
Publish(kind) ==
  /\ Len(log) < MaxLog
  /\ log' = Append(log, [kind |-> kind, from |-> 0])
  /\ UNCHANGED <<store, replays, committed, position, batch, phase, running, processed,
                 evicted, disposed, left, faults>>

BugResumeAt == committed + 1
ResumeAt == committed

(* start: the loop subscribes, from the committed offset or, without one,  *)
(* from the earliest.                                                      *)
Start ==
  /\ phase = "down"
  /\ ~running
  /\ running' = TRUE
  /\ phase' = "poll"
  /\ position' = ResumeAt
  /\ UNCHANGED <<log, store, replays, committed, batch, processed, evicted, disposed,
                 left, faults>>

(* consume() returns up to BatchSize messages; their offsets are stored.   *)
Consume ==
  /\ phase = "poll" /\ running /\ ~evicted
  /\ \E n \in 1..BatchSize :
       /\ position + n <= Len(log)
       /\ batch' = [i \in 1..n |-> position + i]
       /\ position' = position + n
  /\ processed' = FALSE
  /\ phase' = "dispatch"
  /\ UNCHANGED <<log, store, replays, committed, running, evicted, disposed, left, faults>>

(* What happens to a message.  The handler of a failure asks the value for *)
(* its tenant, so it fails in turn on a value that is not an object, and   *)
(* the message is only logged.                                             *)
Outcomes(kind) ==
  CASE kind \in {"batch", "data"} -> {"handled"}
    [] kind \in {"faulty", "malformed"} ->
         {"quarantined"} \cup (IF QuarantineFails THEN {"dropped"} ELSE {})
    [] OTHER -> {"dropped"}

(* The loop leaves a batch as soon as it finds self._running false. *)
BugRest == <<>>
BugRestKept == batch
Rest == IF running THEN Tail(batch) ELSE <<>>

Elements(s) == {s[i] : i \in 1..Len(s)}

Dispatch ==
  /\ phase = "dispatch"
  /\ \E outcome \in Outcomes(log[Head(batch)].kind) :
       /\ disposed' = Append(disposed, [offset |-> Head(batch),
                                        outcome |-> outcome])
       /\ IF outcome = "quarantined" THEN Q!RecordFailure(log[Head(batch)])
          ELSE UNCHANGED store
       /\ processed' = (processed \/ outcome = "handled")
  /\ batch' = Rest
  /\ left' = left \cup (IF running THEN {} ELSE Elements(Tail(batch)))
  /\ phase' = IF Rest = <<>> THEN "commit" ELSE "dispatch"
  /\ UNCHANGED <<log, replays, committed, position, running, evicted, faults>>

(* commit(), for a batch of which something was processed.  It covers all  *)
(* that was fetched; the error of a failed one is logged.                  *)
CommitBatch ==
  /\ phase = "commit"
  /\ committed' = IF processed /\ ~evicted THEN position ELSE committed
  /\ phase' = "poll"
  /\ UNCHANGED <<log, store, replays, position, batch, running, processed, evicted,
                 disposed, left, faults>>

(* The client's own thread. *)
AutoCommit ==
  /\ phase # "down" /\ ~evicted
  /\ committed # position
  /\ committed' = position
  /\ UNCHANGED <<log, store, replays, position, batch, phase, running, processed,
                 evicted, disposed, left, faults>>

(* stop, called when the server has answered its requests, only lowers the *)
(* flag; the loop sees it after the message at hand, and closes the        *)
(* client, which commits what it stored.                                   *)
Stop ==
  /\ "stop" \in Faults /\ faults < MaxFaults
  /\ running /\ replaying = 0
  /\ running' = FALSE
  /\ faults' = faults + 1
  /\ UNCHANGED <<log, store, replays, committed, position, batch, phase, processed,
                 evicted, disposed, left>>

Close ==
  /\ phase = "poll" /\ ~running
  /\ phase' = "down"
  /\ committed' = IF evicted THEN committed ELSE position
  /\ evicted' = FALSE
  /\ UNCHANGED <<log, store, replays, position, batch, running, processed, disposed,
                 left, faults>>

(* The process dies; topic, committed offset and quarantine survive. *)
Crash ==
  /\ "crash" \in Faults /\ faults < MaxFaults
  /\ phase # "down"
  /\ faults' = faults + 1
  /\ phase' = "down" /\ running' = FALSE
  /\ left' = left \cup Elements(batch)
  /\ batch' = <<>> /\ processed' = FALSE /\ evicted' = FALSE
  /\ Q!Interrupt
  /\ UNCHANGED <<committed, position, disposed>>

(* The batch-complete callback exceeds max.poll.interval.ms. *)
Evict ==
  /\ "evict" \in Faults /\ faults < MaxFaults
  /\ phase = "dispatch" /\ ~evicted
  /\ log[Head(batch)].kind = "batch"
  /\ evicted' = TRUE
  /\ faults' = faults + 1
  /\ UNCHANGED <<log, store, replays, committed, position, batch, phase, running,
                 processed, disposed, left>>

Rejoin ==
  /\ phase = "poll" /\ running /\ evicted
  /\ evicted' = FALSE
  /\ position' = ResumeAt
  /\ UNCHANGED <<log, store, replays, committed, batch, phase, running, processed,
                 disposed, left, faults>>

consumer == <<committed, position, batch, phase, running, processed, evicted,
              disposed, left, faults>>

(* The operator's endpoints, served while the application runs. *)
Operate ==
  /\ running
  /\ \/ \E i \in 1..Len(store) : Q!Replay(i) \/ Q!Discard(i)
     \/ Q!Mark
  /\ UNCHANGED consumer

(* SQLite refuses to mark a replayed entry: the endpoint answers 500.      *)
UpdateFails ==
  /\ "update" \in Faults /\ faults < MaxFaults
  /\ replaying # 0
  /\ Q!Interrupt
  /\ faults' = faults + 1
  /\ UNCHANGED <<committed, position, batch, phase, running, processed, evicted,
                 disposed, left>>

Loop == Consume \/ Dispatch \/ CommitBatch \/ Close \/ Rejoin

Next ==
  \/ \E kind \in Kinds : Publish(kind)
  \/ Start
  \/ Loop
  \/ AutoCommit
  \/ Stop
  \/ Crash
  \/ Evict
  \/ Operate
  \/ UpdateFails

Spec == Init /\ [][Next]_vars

(* The loop runs in a thread of its own, and a process that went down is   *)
(* restarted by its supervisor.                                            *)
FairSpec == Spec /\ WF_vars(Loop) /\ WF_vars(Start)

-----------------------------------------------------------------------------
(* Properties *)

TypeOK ==
  /\ log \in Seq(Q!Message) /\ store \in Seq(Q!Entry)
  /\ replaying \in 0..Len(store) /\ interrupted \in 0..faults
  /\ committed \in 0..Len(log) /\ position \in 0..Len(log)
  /\ batch \in Seq(1..Len(log))
  /\ phase \in {"down", "poll", "dispatch", "commit"}
  /\ phase = "dispatch" => batch # <<>>
  /\ running \in BOOLEAN /\ processed \in BOOLEAN /\ evicted \in BOOLEAN
  /\ disposed \in Seq([offset : 1..Len(log),
                       outcome : {"handled", "quarantined", "dropped"}])
  /\ left \subseteq 1..Len(log)
  /\ faults \in 0..MaxFaults

DisposedOf == {d.offset : d \in Elements(disposed)}

(* Undisturbed, the consumer does what its topic is owed: every message    *)
(* once, in order, handled or quarantined, and sooner or later.            *)
D == INSTANCE Delivery WITH Messages <- [kind : Kinds, from : 0..MaxLog]
Delivers == D!Spec

(* Offsets are committed at a shutdown (consumers.py, 02-architecture): no *)
(* message is passed over, that is, committed without having been disposed *)
(* of, but for those of the batch being dispatched.                        *)
NothingSkipped ==
  \A o \in 1..committed : o \in DisposedOf \/ o \in Elements(batch)

(* Evictions and commits of the client's own thread, which run ahead of    *)
(* the dispatch, never pass a message over: only one that was fetched and  *)
(* left undispatched by a stop or a crash can be committed and lost.       *)
OnlyInterruptedSkipped ==
  \A o \in 1..committed : o \in DisposedOf \cup Elements(batch) \cup left

(* A message comes back only after a fault, and once per fault: stops,     *)
(* crashes and evictions cannot set off more redeliveries than that,       *)
(* whatever had been committed when they struck.                           *)
RedeliveryBounded ==
  \A o \in 1..Len(log) :
    Cardinality({i \in 1..Len(disposed) : disposed[i].offset = o}) <= 1 + faults

(* The table and the topic agree on the replays (replay_messages): the     *)
(* topic never carries more copies of a quarantined message than its entry *)
(* counts replays, but for the one being replayed and the replays that a   *)
(* crash or a refused update cut short, whatever is replayed, discarded,   *)
(* consumed and quarantined again in between; and no fewer when every      *)
(* publication succeeds.                                                   *)
ReplayMeansPublished ==
  \A i \in 1..Len(store) :
    /\ Cardinality(Q!Copies(i)) <=
         store[i].retry_count + interrupted + (IF replaying = i THEN 1 ELSE 0)
    /\ PublishFails \/ store[i].retry_count <= Cardinality(Q!Copies(i))
=============================================================================

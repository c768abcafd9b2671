--------------------------- MODULE PipelineMonitor ---------------------------
(* The pipeline page: the hook usePipelineStream with its EventSource and   *)
(* its reconnection timer, and PipelineMonitor, which lists the runs from   *)
(* GET /pipelines/runs, polls while the stream is down and applies the      *)
(* events of the stream while it is up.  The runs table and the emitters of *)
(* PipelineSseService are the server's side.                                *)
EXTENDS FiniteSets, Naturals, Sequences, Workbench

CONSTANTS
  Runs,              \* rows of pipeline_runs that may exist
  Emits,             \* whether anybody calls emitProgress and emitComplete
  MaxEvents,         \* bound: events on their way to the browser
  Fetches,           \* bound: GET requests under way at the same time
  MaxFaults          \* bound: failures of requests and of the stream

ASSUME MonitorAssumption ==
  Emits \in BOOLEAN /\ MaxEvents \in Nat /\ MaxFaults \in Nat

VARIABLES
  runs,              \* server: status of each row
  streams,           \* EventSource objects that are not closed
  es,                \* esRef: the current one, or NoStream
  events,            \* events sent to the current one, not yet handled
  timer,             \* reconnectTimeoutRef: the 5 s timer is running
  connected, polling,
  ran,               \* the dependencies its effect last ran for
  interval,          \* pollRef: the 5 s interval is running
  fetches,           \* the answer of each GET under way
  jobs, fetchError, mounted, expired, monitorFaults

streamVars == <<streams, es, events, timer, connected, polling>>
listVars == <<ran, interval, fetches, jobs, fetchError>>
monitorVars == <<runs, streamVars, listVars, mounted, expired, monitorFaults>>

NoStream == 0
NotRun == <<>>
Statuses == {"absent", "RUNNING", "COMPLETED"}
MonitorTables == [Runs -> Statuses]
Kinds == {"progress", "complete"}
NoRuns == [r \in Runs |-> "absent"]
Fetch(pc, rows) == [pc |-> pc, rows |-> rows]
NoFetch == Fetch("none", NoRuns)

MonitorInit ==
  /\ runs \in [Runs -> {"absent", "RUNNING"}]
  /\ streams = {} /\ es = NoStream /\ events = <<>> /\ timer = FALSE
  /\ connected = FALSE /\ polling = FALSE
  /\ ran = NotRun /\ interval = FALSE /\ fetches = [f \in Fetches |-> NoFetch]
  /\ jobs = NoRuns /\ fetchError = FALSE
  /\ mounted = TRUE /\ expired = FALSE /\ monitorFaults = 0

(* ------------------------------ the stream ------------------------------ *)
\* Names an EventSource that is not open: there are never more than two.
Unused == CHOOSE i \in 1..3 : i \notin streams

Opened == (streams \ {es}) \cup {Unused}

(* connect: the old stream is closed, the new one opened; its constructor   *)
(* may throw, and then nothing tries again.                                 *)
Connect ==
  \/ /\ streams' = Opened /\ es' = Unused /\ events' = <<>>
     /\ UNCHANGED <<connected, polling, monitorFaults>>
  \/ /\ monitorFaults < MaxFaults /\ monitorFaults' = monitorFaults + 1
     /\ streams' = streams \ {es} /\ es' = NoStream /\ events' = <<>>
     /\ connected' = FALSE /\ polling' = TRUE

Mount ==
  /\ mounted /\ ran = NotRun /\ es = NoStream /\ ~polling /\ ~timer
  /\ Connect
  /\ UNCHANGED <<runs, timer, listVars, mounted, expired>>

(* onopen; createEmitter registers the emitter and greets it.               *)
StreamOpens ==
  /\ mounted /\ es # NoStream /\ ~connected
  /\ connected' = TRUE /\ polling' = FALSE
  /\ UNCHANGED <<runs, streams, es, events, timer, listVars, mounted, expired,
                 monitorFaults>>

StreamFails ==
  /\ mounted /\ es # NoStream /\ monitorFaults < MaxFaults
  /\ monitorFaults' = monitorFaults + 1
  /\ streams' = streams \ {es} /\ es' = NoStream /\ events' = <<>>
  /\ connected' = FALSE /\ polling' = TRUE /\ timer' = TRUE
  /\ UNCHANGED <<runs, listVars, mounted, expired>>

Reconnect ==
  /\ timer /\ timer' = FALSE
  /\ Connect
  /\ UNCHANGED <<runs, listVars, mounted, expired>>

BugApplied(e) ==
  IF jobs[e.run] = "absent" THEN jobs ELSE [jobs EXCEPT ![e.run] = e.kind]

(* handleProgress, whose events are per step, and handleComplete: a run     *)
(* that is not listed is left out.                                          *)
Applied(e) ==
  IF jobs[e.run] = "absent" THEN jobs
  ELSE [jobs EXCEPT ![e.run] = IF e.kind = "complete" \/ e.last THEN "COMPLETED"
                                                                ELSE "RUNNING"]

HandleEvent ==
  /\ mounted /\ events # <<>>
  /\ events' = Tail(events) /\ jobs' = Applied(Head(events))
  /\ UNCHANGED <<runs, streams, es, timer, connected, polling, ran, interval,
                 fetches, fetchError, mounted, expired, monitorFaults>>

(* ------------------------------- the list ------------------------------- *)
BugShouldPoll == polling

ShouldPoll == polling \/ ~connected

Ask ==
  \E f \in Fetches : fetches[f] = NoFetch /\ fetches' = [fetches EXCEPT ![f].pc = "asked"]

(* The effect of PipelineMonitor, run for new values of polling and         *)
(* isConnected: a fetch, and the interval started anew or stopped.          *)
RunEffect ==
  /\ mounted /\ ran # <<polling, connected>> /\ (ran = NotRun => es # NoStream \/ polling)
  /\ ran' = <<polling, connected>> /\ interval' = ShouldPoll
  /\ Ask
  /\ UNCHANGED <<runs, streamVars, jobs, fetchError, mounted, expired, monitorFaults>>

PollTick ==
  /\ mounted /\ interval /\ Ask
  /\ UNCHANGED <<runs, streamVars, ran, interval, jobs, fetchError, mounted,
                 expired, monitorFaults>>

\* GET /api/v1/pipelines/runs reads the table.
ServeRuns ==
  \E f \in Fetches :
    /\ fetches[f].pc = "asked" /\ fetches' = [fetches EXCEPT ![f] = Fetch("served", runs)]
    /\ UNCHANGED <<runs, streamVars, ran, interval, jobs, fetchError, mounted,
                   expired, monitorFaults>>

\* ingestPayload replaces the whole list, whatever arrived meanwhile.
Ingested(f) == fetches[f].rows

FetchArrives ==
  \E f \in Fetches :
    /\ fetches[f].pc = "served"
    /\ fetches' = [fetches EXCEPT ![f] = NoFetch]
    /\ IF mounted THEN jobs' = Ingested(f) /\ fetchError' = FALSE
                  ELSE UNCHANGED <<jobs, fetchError>>
    /\ UNCHANGED <<runs, streamVars, ran, interval, mounted, expired, monitorFaults>>

(* A request fails; after a 401 the polling stops, and apiFetch has ended   *)
(* the session.                                                             *)
FetchFails ==
  \E f \in Fetches :
    /\ fetches[f] # NoFetch /\ fetches' = [fetches EXCEPT ![f] = NoFetch]
    /\ monitorFaults < MaxFaults /\ monitorFaults' = monitorFaults + 1
    /\ fetchError' = mounted
    /\ \/ UNCHANGED <<interval, expired>>
       \/ interval' = FALSE /\ expired' = TRUE
    /\ UNCHANGED <<runs, streamVars, ran, jobs, mounted>>

BugClearTimer == timer' = timer

\* The part of the cleanup that is about the timer.
ClearTimer == timer' = FALSE

\* The user goes to another page, or the guard does after a 401.
Unmount ==
  /\ mounted /\ mounted' = FALSE
  /\ streams' = streams \ {es} /\ es' = NoStream /\ events' = <<>> /\ ClearTimer
  /\ interval' = FALSE
  /\ UNCHANGED <<runs, connected, polling, ran, fetches, jobs, fetchError, expired,
                 monitorFaults>>

(* ------------------------------ the server ------------------------------ *)
Told(es1) ==
  IF Emits /\ connected /\ Len(events) + Len(es1) <= MaxEvents
    THEN events' = events \o es1
    ELSE ~(Emits /\ connected) /\ events' = events

\* syncRunsForActiveConnections inserts completed rows, and tells nobody.
RunAppears ==
  \E r \in Runs :
    /\ runs[r] = "absent" /\ runs' = [runs EXCEPT ![r] = "COMPLETED"]
    /\ UNCHANGED <<streamVars, listVars, mounted, expired, monitorFaults>>

\* A step of a run ends: emitProgress with 100, or less.
StepEnds ==
  \E r \in Runs, last \in BOOLEAN :
    /\ runs[r] = "RUNNING" /\ Emits /\ connected
    /\ Told(<<[run |-> r, kind |-> "progress", last |-> last]>>)
    /\ UNCHANGED <<runs, streams, es, timer, connected, polling, listVars,
                   mounted, expired, monitorFaults>>

\* EntityResolvedConsumer ends the run of the connection.
RunEnds ==
  \E r \in Runs :
    /\ runs[r] = "RUNNING" /\ runs' = [runs EXCEPT ![r] = "COMPLETED"]
    /\ Told(<<[run |-> r, kind |-> "complete", last |-> TRUE]>>)
    /\ UNCHANGED <<streams, es, timer, connected, polling, listVars, mounted,
                   expired, monitorFaults>>

MonitorNext ==
  \/ Mount \/ StreamOpens \/ StreamFails \/ Reconnect \/ HandleEvent
  \/ RunEffect \/ PollTick \/ ServeRuns \/ FetchArrives \/ FetchFails \/ Unmount
  \/ RunAppears \/ StepEnds \/ RunEnds

MonitorSpec == MonitorInit /\ [][MonitorNext]_monitorVars

(* Effects run, timers fire, requests are answered and events delivered.    *)
MonitorFairness ==
  /\ WF_monitorVars(inUse = "monitor" /\ Mount) /\ WF_monitorVars(inUse = "monitor" /\ StreamOpens)
  /\ WF_monitorVars(inUse = "monitor" /\ Reconnect)
  /\ WF_monitorVars(inUse = "monitor" /\ HandleEvent) /\ WF_monitorVars(inUse = "monitor" /\ RunEffect)
  /\ WF_monitorVars(inUse = "monitor" /\ PollTick) /\ WF_monitorVars(inUse = "monitor" /\ ServeRuns)
  /\ SF_monitorVars(inUse = "monitor" /\ FetchArrives)
  /\ WF_monitorVars(inUse = "monitor" /\ expired /\ Unmount)

(* --------------------- waiting, and what is shown ----------------------- *)
\* While the stream stays down, the list is to show the table, although
\* answers of several polls may arrive in any order.
MonitorLooks == mounted /\ ~connected
MonitorAgrees == jobs = runs

(* ------------------------------ properties ------------------------------ *)
MonitorTypeOK ==
  /\ runs \in MonitorTables /\ jobs \in MonitorTables
  /\ streams \subseteq 1..3 /\ es \in {NoStream} \cup streams
  /\ \A i \in 1..Len(events) : events[i] \in [run : Runs, kind : Kinds, last : BOOLEAN]
  /\ Len(events) <= MaxEvents
  /\ ran \in {NotRun} \cup (BOOLEAN \X BOOLEAN)
  /\ fetches \in [Fetches -> [pc : {"none", "asked", "served"}, rows : MonitorTables]]
  /\ {timer, connected, polling, interval, fetchError, mounted, expired} \subseteq BOOLEAN
  /\ monitorFaults \in 0..MaxFaults

(* However errors, timers and new mounts interleave, the browser holds one  *)
(* stream at most, and none once the page is left: each open one would      *)
(* apply events a second time and keep an emitter on the server.            *)
OneStream ==
  Cardinality(streams) <= 1 /\ (~mounted => streams = {} /\ ~timer)

(* Whenever the stream is down, the list is polled: also when the stream    *)
(* could not even be constructed, and while a reconnection is tried.  A 401 *)
(* is excepted, after which the page goes away.                             *)
PollsWhileBlind ==
  mounted /\ ~connected /\ ran = <<polling, connected>> /\ ~expired => interval
=============================================================================

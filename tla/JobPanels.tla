------------------------------ MODULE JobPanels ------------------------------
(* The two panels below the list of ConnectionsPage that poll the pipeline  *)
(* runs on their own: ExecutionLogs, which derives log lines from the runs  *)
(* and adds those it does not show yet, and SyncJobDetails, which shows the *)
(* run started last.  A run is named by the order of the start times.  The  *)
(* panels share nothing but the table, so a behaviour follows one of them.  *)
EXTENDS FiniteSets, FiniteSetsExt, Integers, Lists, Sequences, SequencesExt, Workbench

CONSTANTS
  MaxRuns,           \* bound: runs of the tenant
  Polls,             \* bound: polls under way at the same time
  maxLines,          \* lines the log keeps
  MaxClears,         \* bound: uses of "clear logs" and of "pause"
  MaxTroubles        \* bound: polls that fail

ASSUME PanelsAssumption ==
  MaxRuns \in Nat \ {0} /\ maxLines \in Nat \ {0} /\ MaxClears \in Nat /\ MaxTroubles \in Nat

VARIABLES
  table,             \* server: status of each run
  panel,             \* the panel that is followed
  polls,             \* polls under way and their answers
  ticking,           \* its interval is running
  logs, paused,      \* state of ExecutionLogs
  job,               \* state of SyncJobDetails: the run shown, and as what
  here,              \* the page is mounted
  clears, troubles   \* bounds used up

panelVars == <<table, panel, polls, ticking, logs, paused, job, here, clears, troubles>>

JobRuns == 1..MaxRuns
Panels == {"logs", "sync"}
RowStatus == {"absent", "PENDING", "CLEANED", "COMPLETED"}
RunTable == [JobRuns -> RowStatus]
Line == [run : JobRuns, part : {"start", "out", "done"}]
NoJob == [run |-> 0, status |-> "none"]
NoTable == [r \in JobRuns |-> "absent"]
Idle == [pc |-> "idle", rows |-> NoTable]

PanelsInit ==
  /\ table \in {t \in RunTable : t[MaxRuns] = "absent"}
  /\ polls = [p \in Polls |-> Idle] /\ ticking = TRUE /\ panel \in Panels
  /\ logs = <<>> /\ paused = FALSE /\ job = NoJob
  /\ here = TRUE /\ clears = 0 /\ troubles = 0

(* ---------------------------- ExecutionLogs ----------------------------- *)
(* The times of the lines: the records are written half a minute after the  *)
(* start, also when the run was over by then.                               *)
Time(l) ==
  5 * l.run + CASE l.part = "start" -> 0 [] l.part = "done" -> 1 [] OTHER -> 7

PartsOf(status) ==
  CASE status = "absent" -> {}
    [] status = "PENDING" -> {"start"}
    [] status = "CLEANED" -> {"start", "out"}
    [] OTHER -> {"start", "out", "done"}

Earlier(k, l) == Time(k) < Time(l)

\* Run by run, the last one first, as the answer is sorted.
Candidates ==
  [i \in 1..3 * MaxRuns |-> [run |-> MaxRuns - ((i - 1) \div 3),
                             part |-> <<"start", "out", "done">>[1 + ((i - 1) % 3)]]]

Derived(rows) ==
  At(Candidates, {i \in DOMAIN Candidates : Candidates[i].part \in PartsOf(rows[Candidates[i].run])})

\* The order of the times; the sort leaves lines of one time as they are.
InTime(s) ==
  Arranged(s, 1..Len(s),
           {p \in (1..Len(s)) \X (1..Len(s)) :
              Earlier(s[p[1]], s[p[2]]) \/ (~Earlier(s[p[2]], s[p[1]]) /\ p[1] < p[2])})

BugNewestLines(s) == SubSeq(s, 1, Min({Len(s), maxLines}))

NewestLines(s) == SubSeq(s, 1 + Max({0, Len(s) - maxLines}), Len(s))

BugMerged(old, new) ==
  IF ToSet(new) \subseteq ToSet(old) THEN old ELSE NewestLines(InTime(old \o new))

\* The update runs on the state at the time, not on what was rendered.
Merged(old, new) ==
  LET fresh == At(new, {i \in DOMAIN new : new[i] \notin ToSet(old)}) IN
  IF fresh = <<>> THEN old ELSE NewestLines(InTime(old \o fresh))

\* fetchBackendLogs does nothing while the panel is paused.
MayPoll == ticking /\ (panel = "logs" => ~paused)

\* On mounting, and every five or six seconds.
PanelTick ==
  /\ here /\ MayPoll
  /\ \E p \in Polls : polls[p] = Idle /\ polls' = [polls EXCEPT ![p].pc = "asked"]
  /\ UNCHANGED <<table, panel, ticking, logs, paused, job, here, clears, troubles>>

ServePanel ==
  \E p \in Polls :
    /\ polls[p].pc = "asked"
    /\ polls' = [polls EXCEPT ![p].pc = "served", ![p].rows = table]
    /\ UNCHANGED <<table, panel, ticking, logs, paused, job, here, clears, troubles>>

\* Pausing and resuming restart the interval; answers under way still count.
TogglePause ==
  /\ here /\ panel = "logs" /\ clears < MaxClears /\ clears' = clears + 1
  /\ paused' = ~paused /\ ticking' = TRUE
  /\ UNCHANGED <<table, panel, polls, logs, job, here, troubles>>

ClearLogs ==
  /\ here /\ panel = "logs" /\ clears < MaxClears /\ clears' = clears + 1
  /\ logs' = <<>>
  /\ UNCHANGED <<table, panel, polls, ticking, paused, job, here, troubles>>

(* ---------------------------- SyncJobDetails ---------------------------- *)
Present(rows) == {r \in JobRuns : rows[r] # "absent"}

BugMapped(rows) ==
  LET r == Max(Present(rows)) IN [run |-> r, status |-> rows[r]]

\* The first of the page sorted by startedAt; what is not known is running.
Latest(rows) ==
  LET r == Max(Present(rows)) IN
  [run |-> r, status |-> IF rows[r] = "COMPLETED" THEN "completed" ELSE "running"]

PanelArrives(p) ==
  /\ polls[p].pc = "served" /\ polls' = [polls EXCEPT ![p] = Idle]
  /\ LET rows == polls[p].rows
         used == here /\ Present(rows) # {} IN
     /\ logs' = IF used /\ panel = "logs" THEN Merged(logs, Derived(rows)) ELSE logs
     /\ job' = IF used /\ panel = "sync" THEN Latest(rows) ELSE job
  /\ UNCHANGED <<table, panel, ticking, paused, here, clears, troubles>>

(* Any failure but a 401 is ignored; after a 401 this panel stops polling,  *)
(* and apiFetch has ended the session.                                      *)
PanelFails ==
  \E p \in Polls :
    /\ polls[p] # Idle /\ polls' = [polls EXCEPT ![p] = Idle]
    /\ troubles < MaxTroubles /\ troubles' = troubles + 1
    /\ ticking' \in {ticking, FALSE}
    /\ UNCHANGED <<table, panel, logs, paused, job, here, clears>>

LeavePanels ==
  /\ here /\ here' = FALSE /\ ticking' = FALSE
  /\ UNCHANGED <<table, panel, polls, logs, paused, job, clears, troubles>>

\* The consumers of the backend and the monitoring service.
TableMoves ==
  /\ \E r \in JobRuns, s \in RowStatus \ {"absent"} :
       /\ table[r] # "COMPLETED" /\ s # table[r] /\ (s = "PENDING" => table[r] = "absent")
       /\ table' = [table EXCEPT ![r] = s]
  /\ UNCHANGED <<panel, polls, ticking, logs, paused, job, here, clears, troubles>>

PanelsNext ==
  \/ PanelTick \/ ServePanel \/ TogglePause \/ ClearLogs \/ (\E p \in Polls : PanelArrives(p))
  \/ PanelFails \/ LeavePanels \/ TableMoves

PanelsSpec == PanelsInit /\ [][PanelsNext]_panelVars

(* Timers fire and requests are answered; an answer is taken or is lost.    *)
PanelsFairness ==
  /\ WF_panelVars(inUse = "panels" /\ PanelTick) /\ WF_panelVars(inUse = "panels" /\ ServePanel)
  /\ \A p \in Polls :
       WF_polls(/\ inUse = "panels" /\ polls[p].pc = "served"
                /\ polls' = [polls EXCEPT ![p] = Idle])

(* --------------------- waiting, and what is shown ----------------------- *)
\* A run ended and the log that is followed lacks the line, unless it is full
\* of later ones.
PanelsWait ==
  /\ here /\ ticking /\ panel = "logs" /\ ~paused
  /\ \E r \in JobRuns :
       LET done == [run |-> r, part |-> "done"]
       IN  /\ table[r] = "COMPLETED" /\ done \notin ToSet(logs)
           /\ ~(Len(logs) = maxLines /\ \A l \in ToSet(logs) : Earlier(done, l))

\* The panel is to show the run started last, although an older answer may
\* arrive last.
PanelsLook == here /\ ticking /\ panel = "sync"
PanelsAgree ==
  \A r \in JobRuns : table[r] # "absent" /\ (\A q \in r + 1..MaxRuns : table[q] = "absent")
    => job.run = r /\ (job.status = "completed" <=> table[r] = "COMPLETED")

(* ------------------------------ properties ------------------------------ *)
PanelsTypeOK ==
  /\ table \in RunTable
  /\ polls \in [Polls -> [pc : {"idle", "asked", "served"}, rows : RunTable]] /\ panel \in Panels
  /\ ticking \in BOOLEAN /\ logs \in Seq(Line) /\ Len(logs) <= maxLines
  /\ job \in {NoJob} \cup [run : JobRuns, status : {"running", "completed"}]
  /\ paused \in BOOLEAN /\ here \in BOOLEAN
  /\ clears \in 0..MaxClears /\ troubles \in 0..MaxTroubles

(* However polls overlap and the log is cleared or trimmed between them, no *)
(* line is shown twice (the id is the key of the list) and the lines are in *)
(* the order of their times.                                                *)
LinesOnce == \A i, j \in 1..Len(logs) : i < j => Earlier(logs[i], logs[j])

(* The log never goes back: a line that was shown disappears only when it   *)
(* is cleared or when newer ones fill the log.                              *)
OnlyTrimmed ==
  [][logs' # <<>> => \A l \in ToSet(logs) \ ToSet(logs') :
       Len(logs') = maxLines /\ \A k \in ToSet(logs') : Earlier(l, k)]_panelVars
=============================================================================

-------------------------------- MODULE Dashboard --------------------------------
(* The dashboard: the queries of DashboardPage and of                       *)
(* DataEngineTelemetryCard, each fetched when it is first shown, every      *)
(* minute while the window is visible, and by the buttons.  The time series *)
(* is a query per range.                                                    *)
EXTENDS Naturals, Workbench

CONSTANTS
  Cards,            \* queries that do not depend on the range: "engine" is one
  Ranges,           \* 7d, 14d, 30d
  Blank,
  MaxNews,          \* bound: changes of what the service counts
  MaxMisses,        \* bound: requests that fail
  MaxPresses        \* bound: what the user does

ASSUME DashboardAssumption ==
  /\ "engine" \in Cards /\ Cards \cap Ranges = {} /\ Ranges # {} /\ Blank \notin Nat
  /\ {MaxNews, MaxMisses, MaxPresses} \subseteq Nat

VARIABLES
  timeRange,        \* of the series
  cards,            \* the query cache: what each query shows
  sent,             \* requests that count: [query, at, saw, tries]
  visible,          \* of the window
  news,             \* server: how often its numbers changed
  misses, presses   \* bounds used up

dashVars == <<timeRange, cards, sent, visible, news, misses, presses>>

Queries == Cards \cup Ranges
Observed(r) == Cards \cup {r}
Asked1(q) == [query |-> q, at |-> "asked", saw |-> 0, tries |-> 0]
UnderWay(q) == \E r \in sent : r.query = q

DashboardInit ==
  /\ timeRange = CHOOSE r \in Ranges : TRUE
  /\ cards = [q \in Queries |-> Blank] /\ sent = {Asked1(q) : q \in Observed(timeRange)}
  /\ visible = TRUE /\ news = 0 /\ misses = 0 /\ presses = 0

Press == presses < MaxPresses /\ presses' = presses + 1

(* -------------------------------- requests ------------------------------ *)
News ==
  /\ news < MaxNews /\ news' = news + 1
  /\ UNCHANGED <<timeRange, cards, sent, visible, misses, presses>>

Serve1(r) ==
  /\ r.at = "asked" /\ sent' = (sent \ {r}) \cup {[r EXCEPT !.at = "served", !.saw = news]}
  /\ UNCHANGED <<timeRange, cards, visible, news, misses, presses>>

CardArrives(r) ==
  /\ r.at = "served" /\ sent' = sent \ {r} /\ cards' = [cards EXCEPT ![r.query] = r.saw]
  /\ UNCHANGED <<timeRange, visible, news, misses, presses>>

\* retry: 1.  What the card shows stays.
CardMissed(r) ==
  /\ misses < MaxMisses /\ misses' = misses + 1
  /\ sent' = (sent \ {r}) \cup IF r.tries = 0 THEN {[Asked1(r.query) EXCEPT !.tries = 1]} ELSE {}
  /\ UNCHANGED <<timeRange, cards, visible, news, presses>>

\* refetchInterval, of one observed query; it leaves a request alone that is
\* under way, and a hidden window asks for nothing.
Minute(q) ==
  /\ visible /\ q \in Observed(timeRange) /\ ~UnderWay(q)
  /\ sent' = sent \cup {Asked1(q)}
  /\ UNCHANGED <<timeRange, cards, visible, news, misses, presses>>

(* -------------------------------- buttons ------------------------------- *)
BugReplaced(qs) == sent

\* refetch() drops the request under way, whose answer no longer counts.
Replaced(qs) == {r \in sent : r.query \notin qs}

Refetch(qs) ==
  /\ Press /\ sent' = Replaced(qs) \cup {Asked1(q) : q \in qs}
  /\ UNCHANGED <<timeRange, cards, visible, news, misses>>

\* handleManualRefresh; the button spins while the summary is read again.
Refresh1 ==
  /\ cards["summary"] = Blank \/ ~UnderWay("summary")
  /\ Refetch(Observed(timeRange) \ {"engine"})

\* The button of DataEngineTelemetryCard, disabled while it loads.
RefreshEngine == ~UnderWay("engine") /\ Refetch({"engine"})

BugRangeShown(r) == CHOOSE s \in Ranges : TRUE

\* The range that is part of the key of the series.
RangeShown(r) == r

\* A range that was never loaded is asked for; one that is stale is asked for
\* behind what it shows.
ChooseRange(r) ==
  /\ r # timeRange /\ Press /\ timeRange' = r
  /\ \E stale \in BOOLEAN :
       sent' = IF ~UnderWay(RangeShown(r)) /\ (cards[RangeShown(r)] = Blank \/ stale)
               THEN sent \cup {Asked1(RangeShown(r))} ELSE sent
  /\ UNCHANGED <<cards, visible, news, misses>>

HideOrShow ==
  /\ Press /\ visible' = ~visible
  /\ UNCHANGED <<timeRange, cards, sent, news, misses>>

CardSettles(q) == \E r \in sent : r.query = q /\ (Serve1(r) \/ CardArrives(r))

DashboardNext ==
  \/ News \/ HideOrShow \/ (("summary" \in Cards) /\ Refresh1) \/ RefreshEngine
  \/ \E r \in sent : Serve1(r) \/ CardArrives(r) \/ CardMissed(r)
  \/ \E q \in Queries : Minute(q)
  \/ \E r \in Ranges : ChooseRange(r)

DashboardSpec == DashboardInit /\ [][DashboardNext]_dashVars

\* Intervals fire and requests are answered, each query's for itself.
DashboardFairness ==
  \A q \in Queries :
    WF_dashVars(inUse = "dashboard" /\ CardSettles(q)) /\ WF_dashVars(inUse = "dashboard" /\ Minute(q))

(* --------------------- waiting, and what is shown ----------------------- *)
\* A card that has nothing to show and whose request counts is a skeleton.
DashboardWaits == \E q \in Observed(timeRange) : cards[q] = Blank /\ UnderWay(q)
DashboardLooks == visible
DashboardAgrees == \A q \in Observed(timeRange) : cards[q] = news

(* ------------------------------ properties ------------------------------ *)
DashboardTypeOK ==
  /\ timeRange \in Ranges /\ cards \in [Queries -> (0..MaxNews) \cup {Blank}]
  /\ \A r \in sent : r.query \in Queries /\ r.saw <= news /\ r.tries \in {0, 1}
  /\ \A r, s \in sent : r.query = s.query => r = s
  /\ \A q \in Observed(timeRange) : cards[q] = Blank => UnderWay(q) \/ misses >= 2

(* No number on the dashboard goes back to what it was before: a poll that  *)
(* was overtaken by a refresh does not count when it arrives late.          *)
NeverBack ==
  [][\A q \in Queries : cards[q] # Blank => cards'[q] # Blank /\ cards'[q] >= cards[q]]_dashVars
=============================================================================
